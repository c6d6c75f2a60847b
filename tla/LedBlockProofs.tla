--------------------------- MODULE LedBlockProofs ---------------------------
(***************************************************************************)
(* Proofs about LedBlock for every number of blink threads, all commands   *)
(* and every size of the receive buffer.                                   *)
(*                                                                         *)
(* A thread that stands before a write or before the test of its cycles    *)
(* has seen the flag set, so it has not written since the flag was cleared;*)
(* one that sleeps has written once at most, and meets the flag when it    *)
(* wakes.  A sleep of the main thread after it cleared the flag therefore  *)
(* leaves nobody who will still write.                                     *)
(*                                                                         *)
(* The buffer and the wire behind it hold, one behind the other, the lines *)
(* of the commands not handled yet, from the first unit of the next one    *)
(* on; so the first newline in the buffer ends the next command's line.    *)
(***************************************************************************)
EXTENDS LedBlock, SequenceTheorems, FiniteSetTheorems, WellFoundedInduction, TLAPS

ThreadSteps == {"none", "test", "on", "onSleep", "off", "offSleep"}

Types ==
  /\ active \in BOOLEAN
  /\ thread \in [Threads -> ThreadSteps]
  /\ late \in [Threads -> Nat]

\* What the main thread knows of the flag.
FlagInv ==
  /\ main = "create" => active
  /\ main \in {"stopSleep", "close", "exited"} => ~active

LateInv ==
  ~active => \A t \in Threads :
    /\ thread[t] \in {"test", "on", "off"} => late[t] = 0
    /\ thread[t] \in {"onSleep", "offSleep"} => late[t] <= 1

DarkInv ==
  main \in {"close", "exited"} => led = "off" /\ \A t \in Threads : ~Committed(t)

Inv == Types /\ FlagInv /\ LateInv /\ DarkInv

-----------------------------------------------------------------------------
LEMMA InitInv == Init => Inv
<1> SUFFICES ASSUME Init PROVE Inv
  OBVIOUS
<1>1. Types
  BY DEF Init, Types, ThreadSteps
<1>2. FlagInv /\ LateInv /\ DarkInv
  BY DEF Init, FlagInv, LateInv, DarkInv
<1> QED BY <1>1, <1>2 DEF Inv

\* What the properties depend on.
told == <<main, active, thread, late, led>>

LEMMA StutterInv == Inv /\ UNCHANGED told => Inv'
BY DEF Inv, Types, FlagInv, LateInv, DarkInv, Committed, told

\* Steps of the main thread that only move it, between commands.
LEMMA MoveInv ==
  ASSUME Inv, UNCHANGED <<active, thread, late, led>>,
         main' \in {"loop", "poll", "lines", "quiet", "settle", "write", "stop"}
  PROVE  Inv'
BY DEF Inv, Types, FlagInv, LateInv, DarkInv

LEMMA QuietInv ==
  ASSUME Inv, NEW at, NEW next, Quiet(at, next),
         next \in {"settle", "write", "stopSleep"}
  PROVE  Inv'
<1>1. Types'
  BY DEF Quiet, Inv, Types, threadVars
<1>2. FlagInv' /\ DarkInv'
  BY DEF Quiet, FlagInv, DarkInv
<1>3. LateInv'
  <2>1. CASE active
    BY <2>1 DEF Quiet, LateInv, Inv, Types, threadVars
  <2>2. CASE ~active
    BY <2>2 DEF Quiet, LateInv, Inv, Types, threadVars
  <2> QED BY <2>1, <2>2
<1> QED BY <1>1, <1>2, <1>3 DEF Inv

LEMMA SettleInv == Inv /\ CmdSettle => Inv'
BY DEF CmdSettle, Inv, Types, FlagInv, LateInv, DarkInv, threadVars

LEMMA ActivateInv == Inv /\ CmdActivate => Inv'
BY DEF CmdActivate, Inv, Types, FlagInv, LateInv, DarkInv, threadVars

LEMMA WriteInv == Inv /\ CmdWrite => Inv'
BY DEF CmdWrite, Inv, Types, FlagInv, LateInv, DarkInv, threadVars

LEMMA CreateInv == Inv /\ CmdCreate => Inv'
<1> SUFFICES ASSUME Inv, CmdCreate PROVE Inv'
  OBVIOUS
<1>1. active /\ active' /\ main' = "lines"
  BY DEF CmdCreate, Inv, FlagInv
<1>2. Types'
  <2>1. thread' \in [Threads -> ThreadSteps]
    <3>1. CASE UNCHANGED threadVars
      BY <3>1 DEF Inv, Types, threadVars
    <3>2. CASE \E t \in Threads \ Live : thread' = [thread EXCEPT ![t] = "test"]
      BY <3>2 DEF Inv, Types, ThreadSteps
    <3> QED BY <3>1, <3>2 DEF CmdCreate
  <2> QED BY <2>1 DEF CmdCreate, Inv, Types
<1> QED BY <1>1, <1>2 DEF Inv, FlagInv, LateInv, DarkInv

LEMMA StopOffInv == Inv /\ StopOff => Inv'
<1> SUFFICES ASSUME Inv, StopOff PROVE Inv'
  OBVIOUS
<1>1. Types' /\ FlagInv' /\ LateInv'
  BY DEF StopOff, Inv, Types, FlagInv, LateInv, threadVars
<1>2. \A t \in Threads : ~Committed(t)
  BY DEF StopOff, Live, Committed
<1>3. DarkInv'
  BY <1>2 DEF StopOff, DarkInv, Committed, threadVars
<1> QED BY <1>1, <1>3 DEF Inv

LEMMA ExitInv == Inv /\ Exit => Inv'
BY DEF Exit, Inv, Types, FlagInv, LateInv, DarkInv, Committed, threadVars

LEMMA MainInv == Inv /\ Main => Inv'
<1> SUFFICES ASSUME Inv, Main PROVE Inv'
  OBVIOUS
<1>1. CASE Loop
  BY <1>1, MoveInv DEF Loop, threadVars
<1>2. CASE Poll
  BY <1>2, MoveInv DEF Poll, threadVars
<1>3. CASE HandleLine
  <2>1. main' \in {"loop", "lines", "quiet"}
    BY <1>3 DEF HandleLine
  <2> QED BY <1>3, <2>1, MoveInv DEF HandleLine, threadVars
<1>4. CASE CmdQuiet
  <2>1. Quiet("quiet", "settle") \/ Quiet("quiet", "write")
    BY <1>4 DEF CmdQuiet
  <2> QED BY <2>1, QuietInv
<1>5. CASE StopQuiet
  BY <1>5, QuietInv DEF StopQuiet
<1> QED BY <1>1, <1>2, <1>3, <1>4, <1>5, SettleInv, ActivateInv, WriteInv,
          CreateInv, StopOffInv, ExitInv DEF Main

-----------------------------------------------------------------------------
\* A step of a blink thread that does not write.
LEMMA QuietStepInv ==
  ASSUME Inv, NEW t \in Threads, NEW from, NEW to, Step(t, from, to),
         UNCHANGED <<led, late>>,
         to \in ThreadSteps,
         active \/ to = "none"
  PROVE  Inv'
<1>1. UNCHANGED <<main, active>> /\ thread' = [thread EXCEPT ![t] = to]
  BY DEF Step, mainVars
<1>2. Types' /\ FlagInv'
  BY <1>1 DEF Inv, Types, FlagInv
<1>3. LateInv'
  BY <1>1 DEF Inv, Types, LateInv
<1>4. DarkInv'
  BY <1>1 DEF Inv, Types, FlagInv, DarkInv, Committed
<1> QED BY <1>2, <1>3, <1>4 DEF Inv

LEMMA WriteStepInv ==
  ASSUME Inv, NEW t \in Threads, NEW from, NEW to, BlinkWrite(t, from, to),
         from \in {"on", "off"}, to \in {"onSleep", "offSleep"}
  PROVE  Inv'
<1>1. /\ UNCHANGED <<main, active>>
      /\ thread[t] = from /\ thread' = [thread EXCEPT ![t] = to]
      /\ late' = IF active THEN late ELSE [late EXCEPT ![t] = @ + 1]
  BY DEF BlinkWrite, Step, mainVars
<1>2. Types' /\ FlagInv'
  BY <1>1 DEF Inv, Types, FlagInv, ThreadSteps
<1>3. LateInv'
  BY <1>1 DEF Inv, Types, LateInv
<1>4. DarkInv'
  <2>1. main \notin {"close", "exited"}
    BY <1>1 DEF Inv, DarkInv, Committed
  <2> QED BY <1>1, <2>1 DEF DarkInv
<1> QED BY <1>2, <1>3, <1>4 DEF Inv

LEMMA BlinkInv == ASSUME Inv, NEW t \in Threads, Blink(t) PROVE Inv'
<1>0. active \in BOOLEAN
  BY DEF Inv, Types
<1>1. CASE BlinkTest(t)
  <2> DEFINE to == IF active /\ (count = 0 \/ cycles[t] < count) THEN "on" ELSE "none"
  <2>1. to \in ThreadSteps /\ (active \/ to = "none")
    BY <1>0 DEF ThreadSteps
  <2>2. Step(t, "test", to) /\ UNCHANGED <<led, late>>
    BY <1>1 DEF BlinkTest
  <2> HIDE DEF to
  <2> QED BY <2>1, <2>2, QuietStepInv
<1>2. CASE WakeOn(t)
  <2> DEFINE to == IF active THEN "off" ELSE "none"
  <2>1. to \in ThreadSteps /\ (active \/ to = "none")
    BY <1>0 DEF ThreadSteps
  <2>2. Step(t, "onSleep", to) /\ UNCHANGED <<led, late>>
    BY <1>2 DEF WakeOn
  <2> HIDE DEF to
  <2> QED BY <2>1, <2>2, QuietStepInv
<1>3. CASE WakeOff(t)
  <2> DEFINE to == IF active THEN "test" ELSE "none"
  <2>1. to \in ThreadSteps /\ (active \/ to = "none")
    BY <1>0 DEF ThreadSteps
  <2>2. Step(t, "offSleep", to) /\ UNCHANGED <<led, late>>
    BY <1>3 DEF WakeOff
  <2> HIDE DEF to
  <2> QED BY <2>1, <2>2, QuietStepInv
<1>4. CASE BlinkOn(t) \/ BlinkOff(t)
  BY <1>4, WriteStepInv DEF BlinkOn, BlinkOff
<1> QED BY <1>1, <1>2, <1>3, <1>4 DEF Blink

LEMMA NextInv == Inv /\ [Next]_vars => Inv'
<1> SUFFICES ASSUME Inv, [Next]_vars PROVE Inv'
  OBVIOUS
<1>1. CASE Daemon
  BY <1>1, StutterInv DEF Daemon, told, mainVars, threadVars
<1>2. CASE Signal
  BY <1>2, StutterInv DEF Signal, told, threadVars
<1>3. CASE UNCHANGED vars
  BY <1>3, StutterInv DEF vars, told, mainVars, threadVars
<1> QED BY <1>1, <1>2, <1>3, MainInv, BlinkInv DEF Next

\* The inductive invariant, for every number of threads.
THEOREM InductiveInvariant == Spec => []Inv
<1> QED BY InitInv, NextInv, PTL DEF Spec

\* A blink thread writes at most once after the flag was cleared, for every
\* number of threads (bb-led/main.c:30-37).
THEOREM OneWriteLate == Spec => []OneLateWrite
<1>1. Inv => OneLateWrite
  <2> SUFFICES ASSUME Inv, ~active, NEW t \in Threads, thread[t] # "none"
               PROVE  late[t] <= 1
    BY DEF OneLateWrite, Live
  <2> QED BY DEF Inv, Types, ThreadSteps, LateInv
<1> QED BY <1>1, InductiveInvariant, PTL

\* The LED is off when the process is gone, whatever the threads were doing
\* when it was told to stop (bb-led/main.c:135-140).
THEOREM DarkAtExit == Spec => []ExitsDark
<1>1. Inv => ExitsDark
  BY DEF Inv, DarkInv, ExitsDark
<1> QED BY <1>1, InductiveInvariant, PTL

-----------------------------------------------------------------------------
(* The order of the commands *)

Units == [payload : Payloads, first : BOOLEAN, last : BOOLEAN]

\* The stream: what is buffered, then what is on the wire.
Total == Len(buf) + Len(wire)
Unit(i) == IF i <= Len(buf) THEN buf[i] ELSE wire[i - Len(buf)]

\* The commands sent and not handled.
Pending == Len(sent) - Len(handled)
Awaited(k) == sent[Len(handled) + k]

\* The stream is the lines of the awaited commands, the k-th of which ends at
\* ends[k].
Framed(ends) ==
  /\ ends[0] = 0 /\ ends[Pending] = Total
  /\ \A j, k \in 0 .. Pending : j <= k => ends[j] <= ends[k]
  /\ \A k \in 1 .. Pending :
       /\ ends[k] = ends[k - 1] + Size(Awaited(k))
       /\ \A i \in 1 .. Size(Awaited(k)) : Unit(ends[k - 1] + i) = Line(Awaited(k))[i]

StreamTypes ==
  /\ sent \in Seq(Payloads) /\ handled \in Seq(Payloads)
  /\ buf \in Seq(Units) /\ wire \in Seq(Units)
  /\ Len(buf) <= Cap

OrderInv ==
  /\ StreamTypes
  /\ CommandsInOrder
  /\ \E ends \in [0 .. Pending -> Nat] : Framed(ends)

LEMMA LineType ==
  ASSUME NEW p \in Payloads
  PROVE  /\ Size(p) \in Nat /\ Size(p) >= 2
         /\ Line(p) \in Seq(Units) /\ Len(Line(p)) = Size(p)
         /\ Line(p)[1].first
         /\ \A i \in 1 .. Size(p) : /\ Line(p)[i].payload = p
                                    /\ IF i = Size(p) THEN Line(p)[i].last
                                                      ELSE ~Line(p)[i].last
<1>1. Size(p) \in Nat /\ Size(p) >= 2
  BY CapAssumption DEF Size
<1> DEFINE f == [i \in 1 .. Size(p) |-> [payload |-> p, first |-> i = 1, last |-> i = Size(p)]]
<1>2. f \in [1 .. Size(p) -> Units]
  BY DEF Units
<1>3. Line(p) = f
  BY DEF Line
<1>4. /\ f[1].first
      /\ \A i \in 1 .. Size(p) : /\ f[i].payload = p
                                 /\ IF i = Size(p) THEN f[i].last ELSE ~f[i].last
  <2>1. 1 \in 1 .. Size(p) /\ f[1] = [payload |-> p, first |-> 1 = 1, last |-> 1 = Size(p)]
    BY <1>1
  <2>2. f[1].first
    BY <2>1
  <2>3. ASSUME NEW i \in 1 .. Size(p)
        PROVE  f[i].payload = p /\ IF i = Size(p) THEN f[i].last ELSE ~f[i].last
    BY Zenon
  <2> QED BY <2>2, <2>3
<1> HIDE DEF f
<1>5. f \in Seq(Units) /\ Len(f) = Size(p)
  BY <1>1, <1>2, SeqDef
<1> QED BY <1>1, <1>3, <1>4, <1>5

LEMMA OrderInit == Init => OrderInv
<1> SUFFICES ASSUME Init PROVE OrderInv
  OBVIOUS
<1>1. sent = <<>> /\ handled = <<>> /\ buf = <<>> /\ wire = <<>>
  BY DEF Init, ClientInit
<1>2. StreamTypes /\ CommandsInOrder
  BY <1>1, CapAssumption DEF StreamTypes, CommandsInOrder
<1>3. Pending = 0 /\ Total = 0
  BY <1>1 DEF Pending, Total
<1> DEFINE ends == [k \in 0 .. Pending |-> 0]
<1>4. ends \in [0 .. Pending -> Nat] /\ Framed(ends)
  BY <1>3 DEF Framed
<1> QED BY <1>2, <1>4 DEF OrderInv

LEMMA OrderStutter == OrderInv /\ UNCHANGED <<clientVars, handled>> => OrderInv'
<1> SUFFICES ASSUME OrderInv, UNCHANGED <<clientVars, handled>> PROVE OrderInv'
  OBVIOUS
<1>1. sent' = sent /\ wire' = wire /\ buf' = buf /\ handled' = handled
  BY DEF clientVars
<1>2. StreamTypes' /\ CommandsInOrder'
  BY <1>1 DEF OrderInv, StreamTypes, CommandsInOrder
<1>3. Pending' = Pending /\ Total' = Total
  BY <1>1 DEF Pending, Total
<1>4. PICK ends \in [0 .. Pending -> Nat] : Framed(ends)
  BY DEF OrderInv
<1>5. Framed(ends)'
  BY <1>1, <1>3, <1>4 DEF Framed, Unit, Awaited
<1> QED BY <1>2, <1>3, <1>5 DEF OrderInv

\* The daemon sends one more line.
LEMMA OrderSend == OrderInv /\ Send /\ UNCHANGED handled => OrderInv'
<1> SUFFICES ASSUME OrderInv, Send, UNCHANGED handled PROVE OrderInv'
  OBVIOUS
<1>1. PICK p \in Payloads : sent' = Append(sent, p) /\ wire' = wire \o Line(p) /\ buf' = buf
  BY DEF Send
<1>2. PICK ends \in [0 .. Pending -> Nat] : Framed(ends)
  BY DEF OrderInv
<1>3. /\ sent \in Seq(Payloads) /\ handled \in Seq(Payloads)
      /\ buf \in Seq(Units) /\ wire \in Seq(Units) /\ Len(buf) <= Cap
      /\ Len(handled) <= Len(sent)
      /\ \A i \in DOMAIN handled : handled[i] = sent[i]
  BY DEF OrderInv, StreamTypes, CommandsInOrder
<1>4. /\ Size(p) \in Nat /\ Line(p) \in Seq(Units) /\ Len(Line(p)) = Size(p)
  BY LineType
<1>5. StreamTypes' /\ CommandsInOrder'
  BY <1>1, <1>3, <1>4 DEF StreamTypes, CommandsInOrder
<1>6. PICK n \in Nat, m \in Nat : n = Pending /\ m = Total
  <2>1. Pending \in Nat
    BY <1>3 DEF Pending
  <2>2. Total \in Nat
    BY <1>3 DEF Total
  <2> QED BY <2>1, <2>2
<1>7. Pending' = n + 1 /\ Total' = m + Size(p)
  <2>1. Len(sent') = Len(sent) + 1 /\ Len(sent) \in Nat /\ Len(handled) \in Nat
    BY <1>1, <1>3
  <2>2. Len(wire \o Line(p)) = Len(wire) + Len(Line(p))
    BY <1>3, <1>4, ConcatProperties, Zenon
  <2>3. Len(wire') = Len(wire) + Size(p) /\ Len(wire) \in Nat /\ Len(buf) \in Nat
    BY <1>1, <1>3, <1>4, <2>2
  <2> QED BY <1>1, <1>3, <1>4, <1>6, <2>1, <2>3 DEF Pending, Total
<1>8. /\ \A i \in 1 .. m : Unit(i)' = Unit(i)
      /\ \A i \in 1 .. Size(p) : Unit(m + i)' = Line(p)[i]
  <2>1. /\ Len(buf) \in Nat /\ Len(wire) \in Nat /\ m = Len(buf) + Len(wire)
        /\ \A i \in 1 .. Len(wire) + Size(p) :
             wire'[i] = IF i <= Len(wire) THEN wire[i] ELSE Line(p)[i - Len(wire)]
    BY <1>1, <1>3, <1>4, <1>6, ConcatProperties, SMTT(30) DEF Total
  <2>2. ASSUME NEW i \in 1 .. m PROVE Unit(i)' = Unit(i)
    BY <1>1, <1>4, <2>1 DEF Unit
  <2>3. ASSUME NEW i \in 1 .. Size(p) PROVE Unit(m + i)' = Line(p)[i]
    <3>1. ~ (m + i <= Len(buf)) /\ m + i - Len(buf) = Len(wire) + i
      BY <2>1
    <3>2. wire'[Len(wire) + i] = Line(p)[i]
      BY <1>4, <2>1
    <3> QED BY <1>1, <1>4, <2>1, <3>1, <3>2 DEF Unit
  <2> QED BY <2>2, <2>3
<1>9. /\ \A k \in 1 .. n : Awaited(k)' = Awaited(k) /\ Awaited(k) \in Payloads
      /\ Awaited(n + 1)' = p
  <2>1. ASSUME NEW k \in 1 .. n
        PROVE  Awaited(k)' = Awaited(k) /\ Awaited(k) \in Payloads
    BY <1>1, <1>3, <1>6 DEF Awaited, Pending
  <2>2. Len(handled) + (n + 1) = Len(sent) + 1
    BY <1>3, <1>6 DEF Pending
  <2>3. sent'[Len(sent) + 1] = p
    BY <1>1, <1>3
  <2> QED BY <2>1, <2>2, <2>3 DEF Awaited
<1>10. PICK new \in [0 .. Pending' -> Nat] :
         /\ \A k \in 0 .. n : new[k] = ends[k]
         /\ new[n + 1] = m + Size(p)
  <2> DEFINE e == [k \in 0 .. n + 1 |-> IF k <= n THEN ends[k] ELSE m + Size(p)]
  <2>1. /\ e \in [0 .. Pending' -> Nat]
        /\ \A k \in 0 .. n : e[k] = ends[k]
        /\ e[n + 1] = m + Size(p)
    BY <1>4, <1>6, <1>7
  <2> QED BY <2>1
<1>11. /\ ends[0] = 0 /\ ends[n] = m
       /\ \A j, k \in 0 .. n : j <= k => ends[j] <= ends[k]
       /\ \A k \in 0 .. n : ends[k] \in Nat /\ ends[k] <= m
  BY <1>2, <1>6 DEF Framed
<1>12. new[0] = 0 /\ new[Pending'] = Total'
  BY <1>6, <1>7, <1>10, <1>11
<1>13. ASSUME NEW j \in 0 .. Pending', NEW k \in 0 .. Pending', j <= k PROVE new[j] <= new[k]
  <2>1. CASE k <= n
    BY <1>6, <1>7, <1>10, <1>11, <1>13, <2>1
  <2>2. CASE k = n + 1
    BY <1>4, <1>6, <1>7, <1>10, <1>11, <1>13, <2>2, SMTT(30)
  <2> QED BY <1>6, <1>7, <2>1, <2>2
<1>14. ASSUME NEW k \in 1 .. Pending'
       PROVE  /\ new[k] = new[k - 1] + Size(Awaited(k)')
              /\ \A i \in 1 .. Size(Awaited(k)') :
                   Unit(new[k - 1] + i)' = Line(Awaited(k)')[i]
  <2>1. CASE k \in 1 .. n
    <3>1. /\ ends[k] = ends[k - 1] + Size(Awaited(k))
          /\ \A i \in 1 .. Size(Awaited(k)) : Unit(ends[k - 1] + i) = Line(Awaited(k))[i]
      BY <1>2, <1>6, <2>1 DEF Framed
    <3>2. /\ Size(Awaited(k)) \in Nat /\ ends[k - 1] \in Nat /\ ends[k] <= m
          /\ new[k] = ends[k] /\ new[k - 1] = ends[k - 1] /\ Awaited(k)' = Awaited(k)
      BY <1>6, <1>9, <1>10, <1>11, <2>1, LineType, SMTT(30)
    <3>3. ASSUME NEW i \in 1 .. Size(Awaited(k)) PROVE ends[k - 1] + i \in 1 .. m
      BY <1>6, <3>1, <3>2
    <3>4. ASSUME NEW i \in 1 .. Size(Awaited(k))
          PROVE  Unit(new[k - 1] + i)' = Line(Awaited(k))[i]
      <4>1. Unit(ends[k - 1] + i)' = Unit(ends[k - 1] + i)
        BY <1>8, <3>3
      <4> QED BY <3>1, <3>2, <4>1
    <3> QED BY <3>1, <3>2, <3>4
  <2>2. CASE k = n + 1
    <3>1. new[k - 1] = m /\ new[k] = m + Size(p) /\ Awaited(k)' = p
      BY <1>6, <1>9, <1>10, <1>11, <2>2
    <3> QED BY <1>8, <3>1
  <2> QED BY <1>6, <1>7, <2>1, <2>2
<1>15. Framed(new)'
  BY <1>12, <1>13, <1>14 DEF Framed
<1> QED BY <1>5, <1>10, <1>15 DEF OrderInv

\* Units go from the wire to the end of the buffer.
LEMMA OrderRecv == OrderInv /\ Recv /\ UNCHANGED handled => OrderInv'
<1> SUFFICES ASSUME OrderInv, Recv, UNCHANGED handled PROVE OrderInv'
  OBVIOUS
<1>1. PICK n \in 1 .. Room :
        /\ n <= Len(wire)
        /\ buf' = buf \o SubSeq(wire, 1, n)
        /\ wire' = SubSeq(wire, n + 1, Len(wire))
        /\ sent' = sent
  BY DEF Recv
<1>2. PICK ends \in [0 .. Pending -> Nat] : Framed(ends)
  BY DEF OrderInv
<1>3. /\ sent \in Seq(Payloads) /\ handled \in Seq(Payloads)
      /\ buf \in Seq(Units) /\ wire \in Seq(Units) /\ Len(buf) <= Cap
      /\ Len(handled) <= Len(sent)
  BY DEF OrderInv, StreamTypes, CommandsInOrder
<1>4. n \in Nat /\ n >= 1 /\ Len(buf) + n <= Cap
  BY <1>1, <1>3, CapAssumption DEF Room
<1>5. /\ SubSeq(wire, 1, n) \in Seq(Units) /\ Len(SubSeq(wire, 1, n)) = n
      /\ SubSeq(wire, n + 1, Len(wire)) \in Seq(Units)
      /\ Len(SubSeq(wire, n + 1, Len(wire))) = Len(wire) - n
  BY <1>1, <1>3, <1>4
<1>6. StreamTypes' /\ CommandsInOrder'
  BY <1>1, <1>3, <1>4, <1>5 DEF OrderInv, StreamTypes, CommandsInOrder
<1>7. Pending' = Pending /\ Total' = Total /\ Pending \in Nat /\ Total \in Nat
  <2>1. Len(buf') = Len(buf) + n /\ Len(wire') = Len(wire) - n
    BY <1>1, <1>3, <1>5, ConcatProperties
  <2>2. Pending' = Pending /\ Pending \in Nat
    BY <1>1, <1>3 DEF Pending
  <2>3. Total' = Total /\ Total \in Nat
    BY <1>3, <1>4, <2>1 DEF Total
  <2> QED BY <2>2, <2>3
<1>8. \A i \in 1 .. Total : Unit(i)' = Unit(i)
  <2> SUFFICES ASSUME NEW i \in 1 .. Total PROVE Unit(i)' = Unit(i)
    OBVIOUS
  <2>1. CASE i <= Len(buf)
    BY <1>1, <1>3, <1>4, <1>5, <2>1 DEF Unit
  <2>2. CASE i > Len(buf) /\ i <= Len(buf) + n
    BY <1>1, <1>3, <1>4, <1>5, <2>2 DEF Unit
  <2>3. CASE i > Len(buf) + n
    BY <1>1, <1>3, <1>4, <1>5, <2>3 DEF Unit, Total
  <2> QED BY <1>3, <1>4, <2>1, <2>2, <2>3
<1>9. \A k \in 1 .. Pending : Awaited(k)' = Awaited(k) /\ Awaited(k) \in Payloads
  BY <1>1, <1>3 DEF Awaited, Pending
<1>10. Framed(ends)'
  <2>1. ASSUME NEW k \in 1 .. Pending, NEW i \in 1 .. Size(Awaited(k))
        PROVE  Unit(ends[k - 1] + i)' = Line(Awaited(k))[i]
    <3>1. Unit(ends[k - 1] + i) = Line(Awaited(k))[i]
      BY <1>2 DEF Framed
    <3>2. /\ ends[k] = ends[k - 1] + Size(Awaited(k))
          /\ ends[k] <= ends[Pending] /\ ends[Pending] = Total
      BY <1>2, <1>7 DEF Framed
    <3>3. ends[k - 1] \in Nat /\ Size(Awaited(k)) \in Nat
      BY <1>7, <1>9, LineType
    <3> QED BY <1>7, <1>8, <3>1, <3>2, <3>3
  <2> QED BY <1>2, <1>7, <1>9, <2>1 DEF Framed
<1> QED BY <1>6, <1>7, <1>10 DEF OrderInv

\* The first newline in the buffer ends the line of the next command.
LEMMA FirstLine ==
  ASSUME StreamTypes, Len(handled) <= Len(sent), Complete,
         NEW ends \in [0 .. Pending -> Nat], Framed(ends)
  PROVE  /\ Pending \in Nat /\ Pending >= 1 /\ Awaited(1) \in Payloads
         /\ FirstEnd = ends[1] /\ ends[1] \in 1 .. Len(buf)
         /\ IsPublication /\ Payload = Awaited(1)
<1>1. PICK j \in Ends : TRUE
  BY DEF Complete
<1>2. j \in 1 .. Len(buf) /\ Len(buf) \in Nat /\ Len(wire) \in Nat
  BY <1>1 DEF Ends, StreamTypes
<1>3. Pending \in Nat
  BY DEF Pending, StreamTypes
<1>4. Pending >= 1
  <2>1. ends[0] = 0 /\ ends[Pending] = Total
    BY DEF Framed
  <2> QED BY <1>2, <1>3, <2>1 DEF Total
<1>5. Awaited(1) \in Payloads
  BY <1>4 DEF Awaited, Pending, StreamTypes
<1> DEFINE n == Size(Awaited(1))
<1>6. /\ ends[1] = n
      /\ \A i \in 1 .. n : Unit(i) = Line(Awaited(1))[i]
  <2>1. 1 \in 1 .. Pending /\ ends[0] = 0 /\ n \in Nat
    BY <1>3, <1>4, <1>5, LineType DEF Framed
  <2>2. /\ ends[1] = ends[1 - 1] + n
        /\ \A i \in 1 .. n : Unit(ends[1 - 1] + i) = Line(Awaited(1))[i]
    BY <2>1 DEF Framed
  <2> QED BY <2>1, <2>2
<1>7. /\ n \in Nat /\ n >= 2
      /\ Line(Awaited(1))[1].first
      /\ \A i \in 1 .. n : /\ Line(Awaited(1))[i].payload = Awaited(1)
                           /\ IF i = n THEN Line(Awaited(1))[i].last
                                       ELSE ~Line(Awaited(1))[i].last
  BY <1>5, LineType
<1> HIDE DEF n
<1>8. ASSUME NEW i \in 1 .. Len(buf), i \in 1 .. n
      PROVE  buf[i] = Line(Awaited(1))[i]
  BY <1>2, <1>6, <1>8 DEF Unit
<1>9. \A i \in Ends : n <= i
  <2> SUFFICES ASSUME NEW i \in Ends, i < n PROVE FALSE
    BY <1>2, <1>7 DEF Ends, StreamTypes
  <2>1. i \in 1 .. Len(buf) /\ buf[i].last
    BY DEF Ends, StreamTypes
  <2>2. i \in 1 .. n /\ i # n
    BY <1>2, <1>7, <2>1
  <2> QED BY <1>7, <1>8, <2>1, <2>2
<1>10. n \in 1 .. Len(buf) /\ n \in Ends
  <2>1. n \in 1 .. Len(buf)
    BY <1>1, <1>2, <1>7, <1>9
  <2>2. n \in 1 .. n /\ Line(Awaited(1))[n].last
    BY <1>7
  <2>3. buf[n].last
    BY <1>8, <2>1, <2>2
  <2> QED BY <2>1, <2>3 DEF Ends, StreamTypes
<1>11. FirstEnd = n
  <2>1. \A i \in Ends : i \in Nat
    BY DEF Ends, StreamTypes
  <2>2. FirstEnd \in Ends /\ \A i \in Ends : FirstEnd <= i
    BY <1>9, <1>10 DEF FirstEnd
  <2>3. FirstEnd <= n /\ n <= FirstEnd /\ FirstEnd \in Nat
    BY <1>9, <1>10, <2>1, <2>2
  <2> QED BY <1>7, <2>3
<1>12. buf[1].first /\ buf[1].payload = Awaited(1)
  <2>1. 1 \in 1 .. n /\ 1 \in 1 .. Len(buf)
    BY <1>2, <1>7, <1>10
  <2> QED BY <1>7, <1>8, <2>1
<1> QED BY <1>3, <1>4, <1>5, <1>6, <1>10, <1>11, <1>12 DEF IsPublication, Payload

\* The next command is handled.
LEMMA OrderHandle == OrderInv /\ HandleLine => OrderInv'
<1> SUFFICES ASSUME OrderInv, HandleLine PROVE OrderInv'
  OBVIOUS
<1>1. PICK ends \in [0 .. Pending -> Nat] : Framed(ends)
  BY DEF OrderInv
<1>2. /\ sent \in Seq(Payloads) /\ handled \in Seq(Payloads)
      /\ buf \in Seq(Units) /\ wire \in Seq(Units) /\ Len(buf) <= Cap
      /\ Len(handled) <= Len(sent)
      /\ \A i \in DOMAIN handled : handled[i] = sent[i]
  BY DEF OrderInv, StreamTypes, CommandsInOrder
<1>3. CASE ~Complete
  <2>1. UNCHANGED <<sent, wire, buf, handled>>
    BY <1>3 DEF HandleLine
  <2> QED BY <2>1, OrderStutter DEF clientVars
<1>4. CASE Complete
  <2>1. /\ Pending \in Nat /\ Pending >= 1 /\ Awaited(1) \in Payloads
        /\ FirstEnd = ends[1] /\ ends[1] \in 1 .. Len(buf)
        /\ IsPublication /\ Payload = Awaited(1)
    BY <1>1, <1>2, <1>4, FirstLine DEF OrderInv
  <2> DEFINE e == ends[1]
  <2>2. /\ handled' = Append(handled, Awaited(1))
        /\ buf' = SubSeq(buf, e + 1, Len(buf))
        /\ UNCHANGED <<sent, wire>>
    BY <1>4, <2>1 DEF HandleLine, Rest
  <2>3. e \in Nat /\ e >= 1 /\ e <= Len(buf) /\ Awaited(1) = sent[Len(handled) + 1]
    BY <1>2, <2>1 DEF Awaited
  <2> HIDE DEF e
  <2>4. /\ buf' \in Seq(Units) /\ Len(buf') = Len(buf) - e
        /\ \A i \in 1 .. Len(buf) - e : buf'[i] = buf[i + e]
    BY <1>2, <2>2, <2>3
  <2>5. StreamTypes' /\ CommandsInOrder'
    <3>1. StreamTypes'
      <4>1. handled' \in Seq(Payloads)
        BY <1>2, <2>1, <2>2
      <4>2. Len(buf') <= Cap
        BY <1>2, <2>3, <2>4, CapAssumption
      <4> QED BY <1>2, <2>2, <2>4, <4>1, <4>2 DEF StreamTypes
    <3>2. Len(handled') = Len(handled) + 1 /\ Len(handled) + 1 <= Len(sent)
      BY <1>2, <2>1, <2>2 DEF Pending
    <3>3. \A i \in DOMAIN handled' : handled'[i] = sent[i]
      BY <1>2, <2>1, <2>2, <2>3
    <3> QED BY <2>2, <3>1, <3>2, <3>3 DEF CommandsInOrder
  <2>6. /\ Pending' = Pending - 1
        /\ Total \in Nat /\ Total' = Total - e /\ e <= Total
    <3>1. Len(handled') = Len(handled) + 1 /\ Len(handled) \in Nat /\ Len(sent) \in Nat
      BY <1>2, <2>1, <2>2
    <3>2. Pending' = Pending - 1
      BY <2>2, <3>1 DEF Pending
    <3>3. Len(wire) \in Nat /\ Len(buf) \in Nat
      BY <1>2
    <3>4. Total \in Nat /\ Total' = Total - e /\ e <= Total
      BY <2>2, <2>3, <2>4, <3>3, SMTT(30) DEF Total
    <3> QED BY <3>2, <3>4
  <2>7. \A i \in 1 .. Total - e : Unit(i)' = Unit(i + e)
    BY <1>2, <2>2, <2>3, <2>4, SMTT(30) DEF Unit, Total
  <2>8. \A k \in 1 .. Pending - 1 : Awaited(k)' = Awaited(k + 1) /\ Awaited(k + 1) \in Payloads
    BY <1>2, <2>1, <2>2, SMTT(30) DEF Awaited, Pending
  <2>9. /\ ends[0] = 0 /\ ends[1] = e /\ ends[Pending] = Total
        /\ \A j, k \in 0 .. Pending : j <= k => ends[j] <= ends[k]
        /\ \A k \in 0 .. Pending : ends[k] \in Nat
    BY <1>1 DEF Framed, e
  <2>10. PICK new \in [0 .. Pending' -> Nat] :
           \A k \in 0 .. Pending - 1 : new[k] = ends[k + 1] - e
    <3> DEFINE n == [k \in 0 .. Pending - 1 |-> ends[k + 1] - e]
    <3>1. ASSUME NEW k \in 0 .. Pending - 1 PROVE ends[k + 1] - e \in Nat
      <4>1. k + 1 \in 0 .. Pending /\ 1 \in 0 .. Pending /\ 1 <= k + 1
        BY <2>1
      <4> QED BY <2>3, <2>9, <4>1
    <3>2. n \in [0 .. Pending' -> Nat] /\ \A k \in 0 .. Pending - 1 : n[k] = ends[k + 1] - e
      BY <2>6, <3>1
    <3> QED BY <3>2
  <2>11. new[0] = 0 /\ new[Pending'] = Total'
    <3>1. 0 \in 0 .. Pending - 1 /\ Pending - 1 \in 0 .. Pending - 1 /\ Pending - 1 + 1 = Pending
      BY <2>1
    <3> QED BY <2>3, <2>6, <2>9, <2>10, <3>1
  <2>12. ASSUME NEW j \in 0 .. Pending', NEW k \in 0 .. Pending', j <= k
         PROVE  new[j] <= new[k]
    <3>1. j + 1 \in 0 .. Pending /\ k + 1 \in 0 .. Pending /\ j + 1 <= k + 1
      BY <2>1, <2>6, <2>12
    <3> QED BY <2>3, <2>6, <2>9, <2>10, <3>1
  <2>13. ASSUME NEW k \in 1 .. Pending'
         PROVE  /\ new[k] = new[k - 1] + Size(Awaited(k)')
                /\ \A i \in 1 .. Size(Awaited(k)') :
                     Unit(new[k - 1] + i)' = Line(Awaited(k)')[i]
    <3>1. k + 1 \in 1 .. Pending /\ k \in 0 .. Pending - 1 /\ k - 1 \in 0 .. Pending - 1
      BY <2>1, <2>6
    <3>2. /\ ends[k + 1] = ends[k] + Size(Awaited(k + 1))
          /\ \A i \in 1 .. Size(Awaited(k + 1)) : Unit(ends[k] + i) = Line(Awaited(k + 1))[i]
      <4>1. k + 1 - 1 = k
        BY <3>1
      <4> QED BY <1>1, <3>1, <4>1 DEF Framed
    <3>3. /\ Awaited(k)' = Awaited(k + 1) /\ Size(Awaited(k + 1)) \in Nat
          /\ new[k] = ends[k + 1] - e /\ new[k - 1] = ends[k] - e
          /\ ends[k] \in Nat /\ ends[k + 1] \in Nat
          /\ e <= ends[k] /\ ends[k + 1] <= Total
      <4>1. 1 <= k /\ k + 1 <= Pending /\ k - 1 + 1 = k
        BY <3>1
      <4>2. k \in 1 .. Pending - 1
        BY <3>1
      <4>3. Awaited(k)' = Awaited(k + 1) /\ Size(Awaited(k + 1)) \in Nat
        BY <2>8, <4>2, LineType
      <4>4. /\ new[k] = ends[k + 1] - e /\ new[k - 1] = ends[k - 1 + 1] - e
            /\ ends[k] \in Nat /\ ends[k + 1] \in Nat
        BY <2>1, <2>9, <2>10, <3>1
      <4>5. /\ 1 \in 0 .. Pending /\ k \in 0 .. Pending /\ k + 1 \in 0 .. Pending
            /\ Pending \in 0 .. Pending
        BY <2>1, <3>1
      <4>6. ends[1] <= ends[k] /\ ends[k + 1] <= ends[Pending]
        BY <2>9, <4>1, <4>5
      <4> QED BY <2>9, <4>1, <4>3, <4>4, <4>6
    <3>4. ASSUME NEW i \in 1 .. Size(Awaited(k + 1))
          PROVE  Unit(new[k - 1] + i)' = Unit(ends[k] + i)
      <4>1. new[k - 1] + i \in 1 .. Total - e /\ new[k - 1] + i + e = ends[k] + i
        <5>1. i \in Nat /\ i >= 1 /\ ends[k] + i <= ends[k + 1]
          BY <3>2, <3>3
        <5>2. new[k - 1] + i + e = ends[k] + i /\ new[k - 1] + i >= 1
          BY <2>3, <3>3, <5>1, SMTT(30)
        <5>3. ends[k] + i <= Total /\ ends[k] + i \in Nat
          BY <2>6, <3>3, <5>1
        <5>4. new[k - 1] \in Int /\ i \in Int
          BY <2>3, <3>3
        <5> QED BY <2>3, <2>6, <5>2, <5>3, <5>4
      <4> QED BY <2>7, <4>1
    <3> QED BY <2>3, <3>2, <3>3, <3>4
  <2>14. Framed(new)'
    BY <2>11, <2>12, <2>13 DEF Framed
  <2> QED BY <2>5, <2>10, <2>14 DEF OrderInv
<1> QED BY <1>3, <1>4

LEMMA OrderStep == OrderInv /\ [Next]_vars => OrderInv'
<1> SUFFICES ASSUME OrderInv, [Next]_vars PROVE OrderInv'
  OBVIOUS
<1>1. CASE Daemon
  BY <1>1, OrderSend DEF Daemon, mainVars
<1>2. CASE Poll
  BY <1>2, OrderRecv, OrderStutter DEF Poll
<1>3. CASE HandleLine
  BY <1>3, OrderHandle
<1>4. CASE Signal \/ Loop \/ CmdQuiet \/ CmdWrite \/ CmdSettle \/ CmdActivate
           \/ CmdCreate \/ StopQuiet \/ StopOff \/ Exit
  <2>1. UNCHANGED <<clientVars, handled>>
    BY <1>4 DEF Signal, Loop, CmdQuiet, Quiet, CmdWrite, CmdSettle, CmdActivate,
                CmdCreate, StopQuiet, StopOff, Exit
  <2> QED BY <2>1, OrderStutter
<1>5. ASSUME NEW t \in Threads, Blink(t) PROVE OrderInv'
  <2>1. UNCHANGED <<clientVars, handled>>
    BY <1>5 DEF Blink, BlinkTest, BlinkOn, BlinkOff, BlinkWrite, WakeOn, WakeOff, Step,
                mainVars
  <2> QED BY <2>1, OrderStutter
<1>6. CASE UNCHANGED vars
  BY <1>6, OrderStutter DEF vars, mainVars
<1> QED BY <1>1, <1>2, <1>3, <1>4, <1>5, <1>6 DEF Next, Main

\* Commands are handled in the order they were sent, none twice and none left
\* out, for every size of the buffer and however recv cuts the lines
\* (bb_bus_poll, bb_bus.c:85-120).
THEOREM CommandsStayInOrder == Spec => []CommandsInOrder
<1>1. OrderInv => CommandsInOrder
  BY DEF OrderInv
<1> QED BY <1>1, OrderInit, OrderStep, PTL DEF Spec

\* While the next command is one whose line fits, a buffer without a newline has
\* room to receive more of it: poll does not mistake a full buffer for a lost
\* connection (bb_bus.c:89-90), so what EveryCommandHandled waits for can come.
ShortLinesFit ==
  (Len(handled) < Len(sent) => sent[Len(handled) + 1] \in Short) /\ ~Complete => Room > 0

LEMMA ShortFits == OrderInv => ShortLinesFit
<1> SUFFICES ASSUME OrderInv, ~Complete,
                    Len(handled) < Len(sent) => sent[Len(handled) + 1] \in Short
             PROVE  Room > 0
  BY DEF ShortLinesFit
<1>1. PICK ends \in [0 .. Pending -> Nat] : Framed(ends)
  BY DEF OrderInv
<1>2. /\ Len(sent) \in Nat /\ Len(handled) \in Nat /\ Len(handled) <= Len(sent)
      /\ Len(buf) \in Nat /\ Len(wire) \in Nat /\ DOMAIN buf = 1 .. Len(buf)
  BY DEF OrderInv, StreamTypes, CommandsInOrder
<1>3. Cap \in Nat /\ Cap >= 2
  BY CapAssumption
<1>4. CASE Len(handled) = Len(sent)
  <2>1. Pending = 0 /\ Total = 0
    BY <1>1, <1>2, <1>4 DEF Pending, Framed
  <2>2. Len(buf) = 0
    BY <1>2, <2>1 DEF Total
  <2> QED BY <1>3, <2>2 DEF Room
<1>5. CASE Len(handled) < Len(sent)
  <2>1. Pending \in Nat /\ Pending >= 1 /\ Awaited(1) \in Short
    BY <1>2, <1>5 DEF Pending, Awaited
  <2>2. Size(Awaited(1)) = 2 /\ Line(Awaited(1))[2].last
    <3>1. Awaited(1) \in Payloads /\ Size(Awaited(1)) = 2 /\ 2 \in 1 .. 2
      BY <2>1 DEF Payloads, Size
    <3> QED BY <3>1, LineType
  <2>3. Unit(2) = Line(Awaited(1))[2]
    <3>1. /\ ends[0] = 0 /\ 1 \in 1 .. Pending /\ 1 - 1 = 0 /\ 0 + 2 = 2
          /\ 2 \in 1 .. Size(Awaited(1))
      BY <1>1, <2>1, <2>2 DEF Framed
    <3>2. \A i \in 1 .. Size(Awaited(1)) : Unit(ends[1 - 1] + i) = Line(Awaited(1))[i]
      BY <1>1, <3>1 DEF Framed
    <3> QED BY <3>1, <3>2
  <2>4. ASSUME Len(buf) >= 2 PROVE FALSE
    <3>1. 2 \in DOMAIN buf /\ buf[2] = Unit(2)
      BY <1>2, <2>4 DEF Unit
    <3> QED BY <2>2, <2>3, <3>1 DEF Complete, Ends
  <2> QED BY <1>2, <1>3, <2>4 DEF Room
<1> QED BY <1>2, <1>4, <1>5

\* However the lines were cut up on their way, the block is not deaf while the
\* lines fit, for every size of the buffer.
THEOREM NeverDeafToShortLines == Spec => []ShortLinesFit
<1> QED BY ShortFits, OrderInit, OrderStep, PTL DEF Spec

-----------------------------------------------------------------------------
(* The bounds of TypeOK *)

\* The command of a step is one of those the step is there for.
CommandInv ==
  /\ main = "quiet" => cmd \in Blinks \cup Writes
  /\ main = "write" => cmd \in Writes
  /\ main = "settle" => cmd \in Blinks
ValueInv ==
  /\ main \in {"loop", "poll", "lines", "quiet", "write", "settle", "activate",
               "create", "stop", "stopSleep", "close", "exited"}
  /\ running \in BOOLEAN /\ count \in Counts \cup {0}
  /\ led \in {"on", "off", "heartbeat"}
CyclesInv == cycles \in [Threads -> 0 .. MaxCount]

\* A set of natural numbers that is not empty has a least one.
LEMMA LeastNumber ==
  ASSUME NEW S, S \subseteq Nat, S # {}
  PROVE  \E x \in S : \A y \in S : x <= y
<1> DEFINE R == OpToRel(<, Nat)
<1>1. IsWellFoundedOn(R, Nat)
  BY NatLessThanWellFounded
<1>2. \A x, y \in Nat : x < y => <<x, y>> \in R
  BY DEF OpToRel
<1> HIDE DEF R
<1>3. PICK x \in S : \A y \in S : ~ (<<y, x>> \in R)
  BY <1>1, WFMin
<1>4. \A y \in S : ~ (y < x) /\ x \in Nat /\ y \in Nat
  BY <1>2, <1>3
<1> QED BY <1>4

\* Counts is finite, so one is the largest.
LEMMA LargestCount == MaxCount \in Nat /\ \A c \in Counts \cup {0} : c \in 0 .. MaxCount
<1> DEFINE N == {n \in Nat : \E S \in SUBSET Nat :
                   /\ S # {} /\ IsFiniteSet(S) /\ Cardinality(S) = n
                   /\ ~ \E x \in S : \A y \in S : y <= x}
<1>1. N = {}
  <2> SUFFICES ASSUME N # {} PROVE FALSE
    OBVIOUS
  <2>1. PICK n \in N : \A m \in N : n <= m
    BY LeastNumber
  <2>2. PICK S \in SUBSET Nat : /\ S # {} /\ IsFiniteSet(S) /\ Cardinality(S) = n
                                /\ ~ \E x \in S : \A y \in S : y <= x
    BY <2>1
  <2>3. PICK x \in S : TRUE
    BY <2>2
  <2> DEFINE T == S \ {x}
  <2>4. IsFiniteSet(T) /\ Cardinality(T) = n - 1 /\ n - 1 \in Nat
    <3>1. IsFiniteSet(T) /\ Cardinality(T) = n - 1
      BY <2>2, <2>3, FS_RemoveElement
    <3>2. Cardinality(T) \in Nat
      BY <3>1, FS_CardinalityType
    <3> QED BY <3>1, <3>2
  <2>5. T # {}
    <3>1. CASE T = {}
      <4>1. S = {x}
        BY <2>3, <3>1
      <4> QED BY <2>2, <4>1
    <3> QED BY <3>1
  <2>6. n - 1 \notin N
    BY <2>1
  <2>7. PICK m \in T : \A y \in T : y <= m
    BY <2>4, <2>5, <2>6
  <2>8. \A y \in S : y \in Nat /\ (y = x \/ y <= m)
    BY <2>7
  <2> QED BY <2>2, <2>3, <2>7, <2>8
<1>2. IsFiniteSet(Counts \cup {0}) /\ Counts \cup {0} \in SUBSET Nat /\ Counts \cup {0} # {}
  BY CountsAssumption, FS_AddElement
<1>3. \E x \in Counts \cup {0} : \A y \in Counts \cup {0} : y <= x
  BY <1>1, <1>2, FS_CardinalityType
<1>4. MaxCount \in Counts \cup {0} /\ \A c \in Counts \cup {0} : MaxCount >= c
  BY <1>3 DEF MaxCount, Max
<1> QED BY <1>2, <1>4
LEMMA CommandStep == CommandInv /\ [Next]_vars => CommandInv'
<1> SUFFICES ASSUME CommandInv, [Next]_vars PROVE CommandInv'
  OBVIOUS
<1>1. CASE HandleLine
  BY <1>1 DEF HandleLine, CommandInv
<1>2. CASE CmdQuiet
  BY <1>2 DEF CmdQuiet, Quiet, CommandInv
<1>3. CASE Loop \/ Poll \/ CmdWrite \/ CmdSettle \/ CmdActivate \/ CmdCreate \/ StopQuiet
           \/ StopOff \/ Exit
  <2>1. main' \notin {"quiet", "write", "settle"}
    BY <1>3 DEF Loop, Poll, CmdWrite, CmdSettle, CmdActivate, CmdCreate, StopQuiet, Quiet,
                StopOff, Exit
  <2> QED BY <2>1 DEF CommandInv
<1>4. CASE Daemon \/ Signal \/ UNCHANGED vars \/ \E t \in Threads : Blink(t)
  <2>1. UNCHANGED <<main, cmd>>
    BY <1>4 DEF Daemon, Signal, vars, Blink, BlinkTest, BlinkOn, BlinkOff, BlinkWrite, WakeOn,
                WakeOff, Step, mainVars
  <2> QED BY <2>1 DEF CommandInv
<1> QED BY <1>1, <1>2, <1>3, <1>4 DEF Next, Main

LEMMA ValueStep == CommandInv /\ ValueInv /\ [Next]_vars => ValueInv'
<1> SUFFICES ASSUME CommandInv, ValueInv, [Next]_vars PROVE ValueInv'
  OBVIOUS
<1>1. CASE CmdWrite
  <2>1. Shown(cmd) \in {"on", "off", "heartbeat"}
    BY <1>1 DEF CmdWrite, CommandInv, Writes, Shown
  <2> QED BY <1>1, <2>1 DEF CmdWrite, ValueInv
<1>2. CASE CmdSettle
  <2>1. cmd[2] \in Counts
    BY <1>2 DEF CmdSettle, CommandInv, Blinks
  <2> QED BY <1>2, <2>1 DEF CmdSettle, ValueInv
<1>3. CASE Loop \/ Poll \/ HandleLine \/ CmdQuiet \/ CmdActivate \/ CmdCreate \/ StopQuiet
           \/ StopOff \/ Exit \/ Daemon \/ Signal
  BY <1>3 DEF Loop, Poll, HandleLine, CmdQuiet, CmdActivate, CmdCreate, StopQuiet, Quiet, StopOff,
              Exit, Daemon, Signal, mainVars, ValueInv
<1>4. CASE UNCHANGED vars \/ \E t \in Threads : Blink(t)
  <2>1. UNCHANGED <<main, running, count>> /\ led' \in {led, "on", "off"}
    BY <1>4 DEF vars, Blink, BlinkTest, BlinkOn, BlinkOff, BlinkWrite, WakeOn, WakeOff, Step,
                mainVars
  <2> QED BY <2>1 DEF ValueInv
<1> QED BY <1>1, <1>2, <1>3, <1>4 DEF Next, Main

LEMMA CyclesStep == CyclesInv /\ [Next]_vars => CyclesInv'
<1> SUFFICES ASSUME CyclesInv, [Next]_vars PROVE CyclesInv'
  OBVIOUS
<1>0. MaxCount \in Nat
  BY LargestCount
<1>1. CASE CmdCreate
  BY <1>0, <1>1 DEF CmdCreate, CyclesInv, threadVars
<1>2. ASSUME NEW t \in Threads, WakeOff(t) PROVE CyclesInv'
  BY <1>0, <1>2 DEF WakeOff, CyclesInv
<1>3. ASSUME NEW t \in Threads, BlinkTest(t) \/ BlinkOn(t) \/ BlinkOff(t) \/ WakeOn(t)
      PROVE  CyclesInv'
  BY <1>3 DEF BlinkTest, BlinkOn, BlinkOff, BlinkWrite, WakeOn, CyclesInv
<1>4. CASE Loop \/ Poll \/ HandleLine \/ CmdQuiet \/ CmdWrite \/ CmdSettle \/ CmdActivate
           \/ StopQuiet \/ StopOff \/ Exit \/ Daemon \/ Signal \/ UNCHANGED vars
  BY <1>4 DEF Loop, Poll, HandleLine, CmdQuiet, CmdWrite, CmdSettle, CmdActivate, StopQuiet,
              Quiet, StopOff, Exit, Daemon, Signal, vars, threadVars, CyclesInv
<1> QED BY <1>1, <1>2, <1>3, <1>4 DEF Next, Main, Blink

\* Every variable keeps its type and bounds (LedBlock!TypeOK): a blink thread
\* never gets beyond the largest count, the buffer never beyond its capacity.
THEOREM TypeCorrect == Spec => []TypeOK
<1>1. Init => CommandInv /\ ValueInv /\ CyclesInv
  BY LargestCount DEF Init, CommandInv, ValueInv, CyclesInv
<1>2. Inv /\ OrderInv /\ ValueInv /\ CyclesInv => TypeOK
  BY DEF Inv, Types, ThreadSteps, OrderInv, StreamTypes, ValueInv, CyclesInv, TypeOK, ClientTypeOK
<1> QED BY <1>1, <1>2, CommandStep, ValueStep, CyclesStep, OrderInit, OrderStep,
           InductiveInvariant, PTL DEF Spec

-----------------------------------------------------------------------------
(* What BlinkEnds rests on: a thread with a count to reach runs down.        *)

\* The steps a blink thread has left when every later cycle finds the flag set
\* and the largest count.
StepsLeft(t) ==
  LET cyclesLeft == MaxCount - cycles[t]
      offSleeps  == IF cyclesLeft > 0 THEN 5 * (cyclesLeft - 1) + 2 ELSE 2
  IN CASE thread[t] = "none"     -> 0
       [] thread[t] = "test"     -> 5 * cyclesLeft + 1
       [] thread[t] = "on"       -> offSleeps + 3
       [] thread[t] = "onSleep"  -> offSleeps + 2
       [] thread[t] = "off"      -> offSleeps + 1
       [] thread[t] = "offSleep" -> offSleeps

\* They are few, from the first one on.
FewStepsLeft == \A t \in Threads : StepsLeft(t) \in 0 .. 5 * MaxCount + 5

\* Unless blinking without end is asked for, each step of a blink thread leaves it
\* fewer to take (main.c:18-48), whatever commands clear the flag, set it again or
\* change the count between two of its steps; nobody else's step gives it more.
BlinkRunsDown ==
  [][\A t \in Threads :
       thread[t] # "none" /\ ~ (active /\ count = 0) =>
         /\ thread'[t] = thread[t] => StepsLeft(t)' = StepsLeft(t)
         /\ thread'[t] # thread[t] => StepsLeft(t)' < StepsLeft(t)]_vars

LEMMA StepsLeftType == Inv /\ CyclesInv => FewStepsLeft
<1> SUFFICES ASSUME Inv, CyclesInv, NEW t \in Threads
             PROVE  StepsLeft(t) \in 0 .. 5 * MaxCount + 5
  BY DEF FewStepsLeft
<1>1. cycles[t] \in 0 .. MaxCount /\ MaxCount \in Nat /\ thread[t] \in ThreadSteps
  BY LargestCount DEF CyclesInv, Inv, Types
<1> QED BY <1>1 DEF StepsLeft, ThreadSteps

\* A thread that goes on after its test has not got to the largest count.
LEMMA OwnStepRunsDown ==
  ASSUME Inv, ValueInv, CyclesInv, NEW t \in Threads, Blink(t), ~ (active /\ count = 0)
  PROVE  thread'[t] # thread[t] /\ StepsLeft(t)' < StepsLeft(t)
<1>1. /\ cycles[t] \in 0 .. MaxCount /\ MaxCount \in Nat /\ count \in 0 .. MaxCount
      /\ thread \in [Threads -> ThreadSteps] /\ cycles \in [Threads -> 0 .. MaxCount]
  BY LargestCount DEF CyclesInv, ValueInv, Inv, Types
<1> DEFINE c == cycles[t]
<1>2. CASE BlinkTest(t)
  <2>1. /\ thread[t] = "test" /\ cycles'[t] = c
        /\ thread'[t] = "none" \/ (thread'[t] = "on" /\ c < MaxCount)
    BY <1>1, <1>2 DEF BlinkTest, Step
  <2> QED BY <1>1, <2>1 DEF StepsLeft
<1>3. CASE BlinkOn(t)
  BY <1>1, <1>3 DEF BlinkOn, BlinkWrite, Step, StepsLeft
<1>4. CASE BlinkOff(t)
  BY <1>1, <1>4 DEF BlinkOff, BlinkWrite, Step, StepsLeft
<1>5. CASE WakeOn(t)
  BY <1>1, <1>5 DEF WakeOn, Step, StepsLeft
<1>6. CASE WakeOff(t)
  <2>1. /\ thread[t] = "offSleep"
        /\ \/ thread'[t] = "none"
           \/ thread'[t] = "test" /\ cycles'[t] = IF c < MaxCount THEN c + 1 ELSE c
    BY <1>1, <1>6 DEF WakeOff, Step
  <2> QED BY <1>1, <2>1 DEF StepsLeft
<1> QED BY <1>2, <1>3, <1>4, <1>5, <1>6 DEF Blink

LEMMA OthersLeaveSteps ==
  ASSUME Inv, CyclesInv, NEW t \in Threads, thread[t] # "none", [Next]_vars, ~Blink(t)
  PROVE  thread'[t] = thread[t] /\ cycles'[t] = cycles[t]
<1> USE DEF Inv, Types, CyclesInv
<1>1. CASE CmdCreate
  BY <1>1 DEF CmdCreate, Live, threadVars
<1>2. CASE UNCHANGED threadVars
  BY <1>2 DEF threadVars
<1>3. CASE \E u \in Threads : Blink(u)
  <2>1. PICK u \in Threads : Blink(u)
    BY <1>3
  <2>2. u # t
    BY <2>1
  <2> QED BY <2>1, <2>2 DEF Blink, BlinkTest, BlinkOn, BlinkOff, BlinkWrite, WakeOn, WakeOff, Step
<1> QED BY <1>1, <1>2, <1>3
        DEF Next, Main, Daemon, Signal, Loop, Poll, HandleLine, CmdQuiet, Quiet, CmdWrite, CmdSettle,
            CmdActivate, StopQuiet, StopOff, Exit, vars

\* A blink thread whose count is not 0 has few steps left and uses one up with each it
\* takes (main.c:18-48), for every number of threads, all counts and whatever commands
\* come.
THEOREM BlinkThreadsRunDown == Spec => []FewStepsLeft /\ BlinkRunsDown
<1> DEFINE Down(t) ==
      thread[t] # "none" /\ ~ (active /\ count = 0) =>
         /\ thread'[t] = thread[t] => StepsLeft(t)' = StepsLeft(t)
         /\ thread'[t] # thread[t] => StepsLeft(t)' < StepsLeft(t)
<1>1. ASSUME Inv, ValueInv, CyclesInv, [Next]_vars, NEW t \in Threads PROVE Down(t)
  <2>1. CASE Blink(t)
    BY <1>1, <2>1, OwnStepRunsDown
  <2>2. CASE ~Blink(t)
    BY <1>1, <2>2, OthersLeaveSteps DEF StepsLeft
  <2> QED BY <2>1, <2>2
<1>2. Inv /\ ValueInv /\ CyclesInv /\ [Next]_vars => [\A t \in Threads : Down(t)]_vars
  BY <1>1
<1>3. Init => CommandInv /\ ValueInv /\ CyclesInv
  BY LargestCount DEF Init, CommandInv, ValueInv, CyclesInv
<1> QED BY <1>2, <1>3, StepsLeftType, CommandStep, ValueStep, CyclesStep, InductiveInvariant, PTL
        DEF BlinkRunsDown, Spec
=============================================================================
