-------------------------- MODULE LibrariesProofs ---------------------------
(***************************************************************************)
(* Proofs about the libraries and device wrappers (Libraries), for every   *)
(* number of processes and every limit.  A behaviour uses one library; the *)
(* proof about a library has an inductive invariant of its own, stated for *)
(* the behaviours that use it, and LibStep turns a step of the composition *)
(* into a step of that library.                                            *)
(***************************************************************************)
EXTENDS Libraries, FiniteSetTheorems, SequenceTheorems, TLAPS

\* What a step of the composition is to each library.
EachSteps ==
  /\ lib' = lib
  /\ IF lib = "config" THEN [Next]_vars ELSE UNCHANGED vars
  /\ IF lib = "log" THEN [Log!Next]_(Log!logVars) ELSE UNCHANGED Log!logVars
  /\ lib = "crash" => [Crash!Next]_(Crash!crashVars)
  /\ IF lib = "snapshots" THEN [Snap!Next]_(Snap!vars) ELSE UNCHANGED Snap!vars
  /\ lib = "json" => [Json!Next]_(Json!jsonVars)
  /\ lib = "gpio" => [Gpio!Next]_(Gpio!gpioVars)
  /\ lib = "display" => [Display!Next]_(Display!displayVars)
  /\ lib = "audio" => [Audio!Next]_(Audio!audioVars)
  /\ lib = "reports" => [Rep!Next]_(Rep!reportVars)

LEMMA LibStep == [LibNext]_libVars => EachSteps
<1>1. /\ Log!logVars = logAll
      /\ Log!logVars' = logAll'
      /\ Crash!crashVars = crashAll /\ Crash!crashVars' = crashAll'
      /\ Json!jsonVars = jsonAll /\ Json!jsonVars' = jsonAll'
      /\ Gpio!gpioVars = gpioAll /\ Gpio!gpioVars' = gpioAll'
      /\ Display!displayVars = displayAll /\ Display!displayVars' = displayAll'
      /\ Audio!audioVars = audioAll /\ Audio!audioVars' = audioAll'
      /\ Rep!reportVars = reportsAll /\ Rep!reportVars' = reportsAll'
  BY DEF Log!logVars, logAll, Crash!crashVars, crashAll, Json!jsonVars, jsonAll,
         Gpio!gpioVars, gpioAll, Display!displayVars, displayAll, Audio!audioVars, audioAll,
         Rep!reportVars, reportsAll
<1>2. UNCHANGED snapshotsAll => UNCHANGED Snap!vars
  BY DEF snapshotsAll, Snap!vars, Snap!mounts, Snap!files
<1>3. CASE UNCHANGED libVars
  BY <1>1, <1>2, <1>3 DEF libVars, EachSteps
<1>4. CASE LibNext
  BY <1>1, <1>2, <1>4 DEF LibNext, EachSteps
<1> QED BY <1>3, <1>4

-----------------------------------------------------------------------------
(* The configuration file.  Until two calls overlap or one meets a full     *)
(* partition, at most one process is inside config_set, and what it holds,  *)
(* or what the copy holds once it is closed, is the current file with the   *)
(* line of its key replaced.                                                *)

Edited(p) == [conf EXCEPT ![key[p]] = value[p]]

AloneInv == \A p, q \in Process : Busy(p) /\ Busy(q) => p = q

CallInv ==
  \A p \in Process :
    /\ pc[p] \in {"open", "close"} => text[p] = Edited(p)
    /\ pc[p] = "close" => out[p] = "tmp" /\ tmp = NoLines
    /\ pc[p] = "rename" => tmp = Edited(p)

ConfigInv == TypeOK /\ (~harmed => AloneInv /\ CallInv)

LEMMA NoLinesType == NoLines \in Lines
BY DEF NoLines, Lines

LEMMA EditType ==
  ASSUME NEW l \in Lines, NEW k \in Key, NEW v \in Value
  PROVE  [l EXCEPT ![k] = v] \in Lines
BY DEF Lines

\* Nothing lies behind what is written to an empty file.
LEMMA OverwriteEmpty ==
  ASSUME NEW l \in Lines, NEW m \in Overwrite(l, NoLines)
  PROVE  m = l
<1>1. m \in Lines /\ \A k \in Key : m[k] = l[k]
  BY DEF Overwrite, NoLines
<1> QED BY <1>1 DEF Lines

LEMMA ConfigInit == Init => ConfigInv
<1> SUFFICES ASSUME Init PROVE ConfigInv
  OBVIOUS
<1>1. NoLines \in Lines /\ conf \in Lines
  BY NoLinesType DEF Init, Lines
<1>3. /\ pc \in [Process -> {"idle", "open", "close", "rename"}]
      /\ text \in [Process -> Lines]
      /\ out \in [Process -> {"tmp", "conf", "gone"}]
  BY <1>1 DEF Init
<1>4. /\ tmp \in Lines \union {NoFile} /\ durable \subseteq Lines
      /\ sets \in 0 .. MaxSets
  BY <1>1, BoundAssumption DEF Init
<1>5. TypeOK
  BY <1>1, <1>3, <1>4 DEF Init, TypeOK
<1>2. AloneInv /\ CallInv
  BY DEF Init, AloneInv, CallInv, Busy
<1> QED BY <1>2, <1>5 DEF ConfigInv

LEMMA ConfigTypeStep == TypeOK /\ [Next]_vars => TypeOK'
<1> SUFFICES ASSUME TypeOK, [Next]_vars PROVE TypeOK'
  OBVIOUS
<1> USE DEF TypeOK, diskVars, callVars
<1>1. ASSUME NEW p \in Process, SetRead(p) PROVE TypeOK'
  <2>1. PICK k \in Key, v \in Value :
          /\ key' = [key EXCEPT ![p] = k]
          /\ value' = [value EXCEPT ![p] = v]
          /\ text' = [text EXCEPT ![p] = [conf EXCEPT ![k] = v]]
    BY <1>1 DEF SetRead
  <2>2. [conf EXCEPT ![k] = v] \in Lines
    BY EditType
  <2> QED BY <1>1, <2>1, <2>2, BoundAssumption DEF SetRead, Busy
<1>2. ASSUME NEW p \in Process, SetOpen(p) PROVE TypeOK'
  BY <1>2, NoLinesType DEF SetOpen
<1>3. ASSUME NEW p \in Process, SetOpenFails(p) PROVE TypeOK'
  BY <1>3 DEF SetOpenFails
<1>4. ASSUME NEW p \in Process, SetClose(p) PROVE TypeOK'
  BY <1>4 DEF SetClose, Overwrite
<1>5. ASSUME NEW p \in Process, SetRename(p) PROVE TypeOK'
  BY <1>5 DEF SetRename
<1>6. CASE Flush \/ RoomChanges
  BY <1>6 DEF Flush, RoomChanges
<1>7. CASE PowerCut
  BY <1>7, NoLinesType DEF PowerCut
<1>8. CASE UNCHANGED vars
  BY <1>8 DEF vars
<1> QED BY <1>1, <1>2, <1>3, <1>4, <1>5, <1>6, <1>7, <1>8 DEF Next

LEMMA HarmStays == [Next]_vars /\ ~harmed' => ~harmed
BY DEF Next, SetRead, SetOpen, SetOpenFails, SetClose, SetRename,
       Flush, PowerCut, RoomChanges, vars, callVars

LEMMA CallStep ==
  ConfigInv /\ [Next]_vars /\ ~harmed' => (AloneInv /\ CallInv)'
<1> SUFFICES ASSUME ConfigInv, [Next]_vars, ~harmed' PROVE (AloneInv /\ CallInv)'
  OBVIOUS
<1> USE DEF TypeOK, diskVars, callVars
<1>0. ~harmed /\ TypeOK /\ AloneInv /\ CallInv
  BY HarmStays DEF ConfigInv
<1>1. ASSUME NEW p \in Process, SetRead(p) PROVE (AloneInv /\ CallInv)'
  <2>1. \A q \in Process : ~Busy(q)
    BY <1>1 DEF SetRead
  <2>2. PICK k \in Key, v \in Value :
          /\ key' = [key EXCEPT ![p] = k]
          /\ value' = [value EXCEPT ![p] = v]
          /\ text' = [text EXCEPT ![p] = [conf EXCEPT ![k] = v]]
    BY <1>1 DEF SetRead
  <2>3. \A q \in Process : q # p => ~Busy(q)'
    BY <1>0, <1>1, <2>1 DEF SetRead, Busy
  <2>4. pc'[p] = "open" /\ conf' = conf /\ tmp' = tmp
    BY <1>0, <1>1 DEF SetRead
  <2>5. text'[p] = [conf' EXCEPT ![key'[p]] = value'[p]]
    BY <1>0, <2>2, <2>4
  <2> QED BY <2>3, <2>4, <2>5 DEF AloneInv, CallInv, Busy, Edited
<1>2. ASSUME NEW p \in Process, SetOpen(p) PROVE (AloneInv /\ CallInv)'
  BY <1>0, <1>2 DEF SetOpen, AloneInv, CallInv, Busy, Edited
<1>3. ASSUME NEW p \in Process, SetOpenFails(p) PROVE (AloneInv /\ CallInv)'
  BY <1>0, <1>3 DEF SetOpenFails, AloneInv, CallInv, Busy, Edited
<1>4. ASSUME NEW p \in Process, SetClose(p) PROVE (AloneInv /\ CallInv)'
  <2>1. out[p] = "tmp" /\ tmp = NoLines /\ text[p] = Edited(p) /\ Busy(p)
    BY <1>0, <1>4 DEF SetClose, CallInv, Busy
  <2>2. ~full
    BY <1>4 DEF SetClose
  <2>3. tmp' \in Overwrite(text[p], NoLines) /\ conf' = conf
    BY <1>4, <2>1, <2>2 DEF SetClose, Arriving
  <2>4. tmp' = Edited(p)
    BY <1>0, <2>1, <2>3, OverwriteEmpty
  <2>5. \A q \in Process : q # p => ~Busy(q)
    BY <1>0, <2>1 DEF AloneInv
  <2>6. pc' = [pc EXCEPT ![p] = "rename"] /\ UNCHANGED <<key, value>>
    BY <1>4 DEF SetClose
  <2> QED BY <1>0, <2>3, <2>4, <2>5, <2>6 DEF AloneInv, CallInv, Busy, Edited
<1>5. ASSUME NEW p \in Process, SetRename(p) PROVE (AloneInv /\ CallInv)'
  <2>1. \A q \in Process : ~Busy(q)'
    BY <1>0, <1>5 DEF SetRename, AloneInv, Busy
  <2> QED BY <2>1 DEF AloneInv, CallInv, Busy
<1>6. CASE Flush \/ RoomChanges \/ UNCHANGED vars
  BY <1>0, <1>6 DEF Flush, RoomChanges, vars, AloneInv, CallInv, Busy, Edited
<1>7. CASE PowerCut
  BY <1>7 DEF PowerCut, AloneInv, CallInv, Busy
<1> QED BY <1>1, <1>2, <1>3, <1>4, <1>5, <1>6, <1>7 DEF Next

LEMMA ConfigStep == ConfigInv /\ [Next]_vars => ConfigInv'
BY ConfigTypeStep, CallStep DEF ConfigInv

\* The inductive invariant of the configuration file holds of every behaviour.
THEOREM ConfigInvariant == LibSpec => [](lib = "config" => ConfigInv)
<1>1. LibInit => (lib = "config" => ConfigInv)
  BY ConfigInit DEF LibInit
<1>2. (lib = "config" => ConfigInv) /\ [LibNext]_libVars => (lib = "config" => ConfigInv)'
  BY LibStep, ConfigStep DEF EachSteps
<1> QED BY <1>1, <1>2, PTL DEF LibSpec

LEMMA MapView == TypeOK => [k \in Key |-> ConfigGet(k)] = conf
BY DEF TypeOK, Lines, ConfigGet

LEMMA AtomicStep ==
  ConfigInv /\ ConfigInv' /\ [Next]_vars =>
    (~harmed' => \/ \E p \in Process : pc[p] = "rename" /\ Map!MapSet(key[p], value[p])
                 \/ Map!MapSync
                 \/ Map!MapCut
                 \/ UNCHANGED Map!mapVars)
<1> SUFFICES ASSUME ConfigInv, ConfigInv', [Next]_vars, ~harmed'
             PROVE  \/ \E p \in Process : pc[p] = "rename" /\ Map!MapSet(key[p], value[p])
                    \/ Map!MapSync
                    \/ Map!MapCut
                    \/ UNCHANGED Map!mapVars
  OBVIOUS
<1> USE DEF diskVars, callVars
<1>0. ~harmed /\ TypeOK /\ AloneInv /\ CallInv
  BY HarmStays DEF ConfigInv
<1>m. [k \in Key |-> ConfigGet(k)] = conf /\ [k \in Key |-> ConfigGet(k)]' = conf'
  <2>1. TypeOK'
    BY DEF ConfigInv
  <2>2. [k \in Key |-> ConfigGet(k)]' = conf'
    BY <2>1 DEF TypeOK, Lines, ConfigGet
  <2> QED BY <1>0, <2>2, MapView
<1>1. ASSUME NEW p \in Process, SetRename(p)
      PROVE  pc[p] = "rename" /\ Map!MapSet(key[p], value[p])
  <2>1. pc[p] = "rename" /\ tmp = Edited(p)
    BY <1>0, <1>1 DEF SetRename, CallInv
  <2>2. conf \in Lines /\ key[p] \in Key /\ value[p] \in Value
    BY <1>0 DEF TypeOK
  <2>3. tmp # NoFile
    BY <2>1, <2>2, EditType, NameAssumption DEF Edited
  <2>4. conf' = Edited(p) /\ durable' = durable \union {conf'}
    BY <1>1, <2>1, <2>3 DEF SetRename
  <2> QED BY <1>m, <2>1, <2>4 DEF Map!MapSet, Edited
<1>2. ASSUME NEW p \in Process, SetClose(p) PROVE UNCHANGED Map!mapVars
  <2>1. out[p] = "tmp"
    BY <1>0, <1>2 DEF SetClose, CallInv
  <2> QED BY <1>2, <1>m, <2>1 DEF SetClose, Map!mapVars
<1>3. ASSUME NEW p \in Process, SetRead(p) \/ SetOpen(p) \/ SetOpenFails(p)
      PROVE  UNCHANGED Map!mapVars
  BY <1>3, <1>m DEF SetRead, SetOpen, SetOpenFails, Map!mapVars
<1>4. CASE Flush
  BY <1>4, <1>m DEF Flush, Map!MapSync
<1>5. CASE PowerCut
  BY <1>5, <1>m DEF PowerCut, Map!MapCut
<1>6. CASE RoomChanges \/ UNCHANGED vars
  BY <1>6, <1>m DEF RoomChanges, vars, Map!mapVars
<1> QED BY <1>1, <1>2, <1>3, <1>4, <1>5, <1>6 DEF Next

\* Calls that do not overlap change the configuration atomically
\* (ConfigFile!SetsAreAtomic), for every number of processes, keys and values:
\* a reader or a power cut between any two steps of config_set sees the lines
\* from before or after a call.
THEOREM AtomicSets == LibSpec => SetsAreAtomic
<1>1. (lib = "config" => ConfigInv) /\ (lib = "config" => ConfigInv)' /\ [LibNext]_libVars =>
        [~harmed' => \/ \E p \in Process : pc[p] = "rename" /\ Map!MapSet(key[p], value[p])
                     \/ Map!MapSync
                     \/ Map!MapCut
                     \/ UNCHANGED Map!mapVars]_vars
  BY LibStep, AtomicStep DEF EachSteps
<1> QED BY <1>1, ConfigInvariant, PTL DEF LibSpec, SetsAreAtomic

-----------------------------------------------------------------------------
(* The log file.  As long as every write took its whole line, the file holds *)
(* half of max_size or else at least what each process believes it to hold,  *)
(* since only lines make a count grow and only a cut, which leaves the half, *)
(* makes the file shorter.                                                   *)

AtLeast(p) == Log!Half <= size \/ current_size[p] <= size

LogInv ==
  /\ Log!TypeOK
  /\ \A p \in Process : logPc[p] = "cut" => open[p] /\ current_size[p] > LogMax
  /\ ~lost => \A p \in Process : open[p] => AtLeast(p)

LEMMA HalfType == Log!Half \in Nat /\ Log!Half <= LogMax
BY LogAssumption DEF Log!Half

LEMMA LogInit == Log!Init => LogInv
<1> SUFFICES ASSUME Log!Init PROVE LogInv
  OBVIOUS
<1>1. size \in Nat
  BY LogAssumption DEF Log!Init
<1>2. /\ open = [p \in Process |-> FALSE]
      /\ current_size = [p \in Process |-> 0]
      /\ logPc = [p \in Process |-> "idle"]
  BY DEF Log!Init
<1>3. lost = FALSE /\ logDied = FALSE
  BY DEF Log!Init
<1> QED BY <1>1, <1>2, <1>3 DEF LogInv, Log!TypeOK

LEMMA LogStep == LogInv /\ [Log!Next]_(Log!logVars) => LogInv'
<1> SUFFICES ASSUME LogInv, [Log!Next]_(Log!logVars) PROVE LogInv'
  OBVIOUS
<1> USE HalfType, LogAssumption DEF LogInv, Log!TypeOK, AtLeast
<1>1. ASSUME NEW p \in Process, Log!LogInit(p) PROVE LogInv'
  BY <1>1 DEF Log!LogInit
<1>2. ASSUME NEW p \in Process, Log!LogWrite(p) PROVE LogInv'
  <2>1. PICK len \in 1 .. MaxLine : \E taken \in 0 .. len :
          /\ size' = size + taken
          /\ current_size' = [current_size EXCEPT ![p] = @ + len]
          /\ logPc' = [logPc EXCEPT ![p] = Log!AfterCount(current_size[p] + len)]
          /\ lost' = (lost \/ taken < len)
    BY <1>2 DEF Log!LogWrite
  <2>2. PICK taken \in 0 .. len :
          /\ size' = size + taken
          /\ current_size' = [current_size EXCEPT ![p] = @ + len]
          /\ logPc' = [logPc EXCEPT ![p] = Log!AfterCount(current_size[p] + len)]
          /\ lost' = (lost \/ taken < len)
    BY <2>1
  <2>3. open[p] /\ UNCHANGED <<open, logDied>>
    BY <1>2 DEF Log!LogWrite
  <2>4. Log!TypeOK'
    BY <2>2, <2>3 DEF Log!AfterCount
  <2>5. \A q \in Process : logPc'[q] = "cut" => open'[q] /\ current_size'[q] > LogMax
    BY <2>2, <2>3 DEF Log!AfterCount
  <2>6. ASSUME ~lost', NEW q \in Process, open'[q] PROVE AtLeast(q)'
    <3>0. ~(lost \/ taken < len)
      BY <2>2, <2>6, Zenon
    <3>1. ~lost /\ taken = len
      BY <3>0
    <3>2. AtLeast(q)
      BY <2>3, <2>6, <3>1
    <3> QED BY <2>2, <3>1, <3>2
  <2> QED BY <2>4, <2>5, <2>6
<1>3. ASSUME NEW p \in Process, Log!LogCut(p) PROVE LogInv'
  BY <1>3 DEF Log!LogCut
<1>4. ASSUME NEW p \in Process, Log!LogClose(p) PROVE LogInv'
  BY <1>4 DEF Log!LogClose
<1>5. ASSUME NEW p \in Process, Log!Die(p) PROVE LogInv'
  BY <1>5 DEF Log!Die
<1>6. CASE UNCHANGED Log!logVars
  BY <1>6 DEF Log!logVars
<1> QED BY <1>1, <1>2, <1>3, <1>4, <1>5, <1>6 DEF Log!Next

\* The inductive invariant of the log file holds of every behaviour.
THEOREM LogInvariant == LibSpec => [](lib = "log" => LogInv)
<1>1. LibInit => (lib = "log" => LogInv)
  BY LogInit DEF LibInit
<1>2. (lib = "log" => LogInv) /\ [LibNext]_libVars => (lib = "log" => LogInv)'
  BY LibStep, LogStep DEF EachSteps
<1> QED BY <1>1, <1>2, PTL DEF LibSpec

LEMMA CutStep ==
  LogInv /\ [Log!Next]_(Log!logVars) =>
    \A p \in Process : ~lost /\ logPc[p] = "cut" /\ logPc'[p] = "idle" => size' <= size
<1> SUFFICES ASSUME LogInv, [Log!Next]_(Log!logVars), NEW p \in Process,
                    ~lost, logPc[p] = "cut", logPc'[p] = "idle"
             PROVE  size' <= size
  OBVIOUS
<1> USE HalfType, LogAssumption DEF LogInv, Log!TypeOK, AtLeast
<1>1. CASE Log!LogCut(p)
  BY <1>1 DEF Log!LogCut
<1>2. CASE Log!Die(p)
  BY <1>2 DEF Log!Die
<1>3. Log!LogCut(p) \/ Log!Die(p)
  BY DEF Log!Next, Log!LogInit, Log!LogWrite, Log!LogCut, Log!LogClose, Log!Die, Log!logVars
<1> QED BY <1>1, <1>2, <1>3

\* A cut shortens the file (LogFile!CutShortens), for every number of
\* processes and every limit, however stale the count that led to it.
THEOREM CutsOnlyShorten == LibSpec => CutShortens
<1>1. (lib = "log" => LogInv) /\ [LibNext]_libVars =>
        [\A p \in Process :
           ~lost /\ logPc[p] = "cut" /\ logPc'[p] = "idle" => size' <= size]_(Log!logVars)
  BY LibStep, CutStep DEF EachSteps
<1> QED BY <1>1, LogInvariant, PTL DEF LibSpec, CutShortens, Log!CutShortens

\* The bound counts the bytes a process wrote since the last cut, which leaves
\* the half of one process: c[p] of them are of process p, numbered from 1.
Bytes(c) == {b \in Process \X Nat : b[2] \in 1 .. c[b[1]]}

\* The bytes of p behind its first a.
Row(p, a, w) == {p} \X (a + 1 .. a + w)

LEMMA RowSize ==
  ASSUME NEW p, NEW a \in Nat, NEW w \in Nat
  PROVE  IsFiniteSet(Row(p, a, w)) /\ Cardinality(Row(p, a, w)) = w
<1>1. IsFiniteSet(a + 1 .. a + w) /\ Cardinality(a + 1 .. a + w) = w
  <2>1. a + 1 \in Int /\ a + w \in Int
    OBVIOUS
  <2>2. /\ IsFiniteSet(a + 1 .. a + w)
        /\ Cardinality(a + 1 .. a + w) = IF a + 1 > a + w THEN 0 ELSE a + w - (a + 1) + 1
    BY <2>1, FS_Interval
  <2> QED BY <2>2
<1>2. IsFiniteSet({p}) /\ Cardinality({p}) = 1
  BY FS_Singleton
<1>3. /\ IsFiniteSet({p} \X (a + 1 .. a + w))
      /\ Cardinality({p} \X (a + 1 .. a + w)) = Cardinality({p}) * Cardinality(a + 1 .. a + w)
  BY <1>1, <1>2, FS_Product
<1>4. 1 * w = w
  OBVIOUS
<1> QED BY <1>1, <1>2, <1>3, <1>4 DEF Row

LEMMA BytesOfOne ==
  ASSUME NEW p \in Process, NEW n \in Nat, NEW c \in [Process -> Nat],
         c = [q \in Process |-> IF q = p THEN n ELSE 0]
  PROVE  IsFiniteSet(Bytes(c)) /\ Cardinality(Bytes(c)) = n
<1>1. Bytes(c) = Row(p, 0, n)
  <2>1. ASSUME NEW b \in Bytes(c) PROVE b \in Row(p, 0, n)
    BY <2>1 DEF Bytes, Row
  <2>2. ASSUME NEW b \in Row(p, 0, n) PROVE b \in Bytes(c)
    BY <2>2 DEF Bytes, Row
  <2> QED BY <2>1, <2>2
<1>2. IsFiniteSet(Row(p, 0, n)) /\ Cardinality(Row(p, 0, n)) = n
  <2>1. 0 \in Nat
    OBVIOUS
  <2> QED BY <2>1, RowSize
<1> QED BY <1>1, <1>2

LEMMA BytesGrow ==
  ASSUME NEW c \in [Process -> Nat], IsFiniteSet(Bytes(c)),
         NEW p \in Process, NEW w \in Nat,
         NEW d \in [Process -> Nat], d = [c EXCEPT ![p] = c[p] + w]
  PROVE  IsFiniteSet(Bytes(d)) /\ Cardinality(Bytes(d)) = Cardinality(Bytes(c)) + w
<1> DEFINE New == Row(p, c[p], w)
<1>1. IsFiniteSet(New) /\ Cardinality(New) = w
  <2>1. c[p] \in Nat
    OBVIOUS
  <2> QED BY <2>1, RowSize
<1>4. Bytes(d) = Bytes(c) \union New
  <2>1. ASSUME NEW b \in Bytes(d) PROVE b \in Bytes(c) \union New
    BY <2>1 DEF Bytes, Row
  <2>2. ASSUME NEW b \in Bytes(c) PROVE b \in Bytes(d)
    BY <2>2 DEF Bytes
  <2>3. ASSUME NEW b \in New PROVE b \in Bytes(d)
    BY <2>3 DEF Bytes, Row
  <2> QED BY <2>1, <2>2, <2>3
<1>5. Bytes(c) \intersect New = {}
  BY DEF Bytes, Row
<1>6. Cardinality({}) = 0 /\ Cardinality(Bytes(c)) \in Nat
  BY FS_EmptySet, FS_CardinalityType
<1> HIDE DEF New
<1>7. /\ IsFiniteSet(Bytes(c) \union New)
      /\ Cardinality(Bytes(c) \union New)
           = Cardinality(Bytes(c)) + Cardinality(New) - Cardinality(Bytes(c) \intersect New)
  BY <1>1, FS_Union
<1>8. /\ IsFiniteSet(Bytes(d))
      /\ Cardinality(Bytes(d)) = Cardinality(Bytes(c)) + Cardinality(New) - Cardinality({})
  BY <1>4, <1>5, <1>7, Zenon
<1> QED BY <1>1, <1>6, <1>8

\* A process has no more bytes in the file than there are.
LEMMA BytesOfEach ==
  ASSUME NEW c \in [Process -> Nat], IsFiniteSet(Bytes(c)), NEW p \in Process
  PROVE  c[p] <= Cardinality(Bytes(c))
<1>1. Row(p, 0, c[p]) \subseteq Bytes(c)
  BY DEF Bytes, Row
<1>2. Cardinality(Row(p, 0, c[p])) = c[p]
  <2>1. 0 \in Nat /\ c[p] \in Nat
    OBVIOUS
  <2> QED BY <2>1, RowSize
<1> QED BY <1>1, <1>2, FS_Subset

\* If all have at most m bytes, one excepted that has x more.
LEMMA BytesBounded ==
  ASSUME NEW c \in [Process -> Nat], NEW m \in Nat, NEW x \in Nat, NEW v \in Process,
         \A p \in Process : c[p] <= m + (IF p = v THEN x ELSE 0)
  PROVE  Cardinality(Bytes(c)) <= Cardinality(Process) * m + x
<1> DEFINE All  == Process \X (1 .. m)
           More == Row(v, m, x)
<1>1. IsFiniteSet(All) /\ Cardinality(All) = Cardinality(Process) * m
  <2>1. IsFiniteSet(1 .. m) /\ Cardinality(1 .. m) = m
    <3>1. PICK one \in Int : one = 1
      OBVIOUS
    <3>2. m \in Int
      OBVIOUS
    <3>3. /\ IsFiniteSet(one .. m)
          /\ Cardinality(one .. m) = IF one > m THEN 0 ELSE m - one + 1
      BY <3>2, FS_Interval
    <3> QED BY <3>1, <3>3
  <2> QED BY <2>1, ProcessAssumption, FS_Product
<1>2. IsFiniteSet(More) /\ Cardinality(More) = x
  BY RowSize
<1>3. Bytes(c) \subseteq All \union More
  <2> SUFFICES ASSUME NEW b \in Bytes(c) PROVE b \in All \union More
    OBVIOUS
  <2>1. b \in Process \X Nat /\ b[2] \in 1 .. c[b[1]]
    BY DEF Bytes
  <2>2. b = <<b[1], b[2]>> /\ b[1] \in Process /\ b[2] \in Nat
    BY <2>1
  <2>3. c[b[1]] <= m + (IF b[1] = v THEN x ELSE 0) /\ c[b[1]] \in Nat
    BY <2>2
  <2>4. b[2] \in 1 .. m \/ (b[1] = v /\ b[2] \in m + 1 .. m + x)
    BY <2>1, <2>2, <2>3
  <2> QED BY <2>2, <2>4 DEF Row
<1> HIDE DEF All, More
<1>4. IsFiniteSet(All \union More)
      /\ Cardinality(All \union More) = Cardinality(All) + Cardinality(More)
                                         - Cardinality(All \intersect More)
  BY <1>1, <1>2, FS_Union
<1>5. IsFiniteSet(All \intersect More)
  BY <1>1, FS_Subset
<1>6. Cardinality(All \intersect More) \in Nat /\ Cardinality(Process) * m \in Nat
  BY <1>1, <1>5, FS_CardinalityType
<1>7. Cardinality(Bytes(c)) <= Cardinality(All \union More) /\ Cardinality(Bytes(c)) \in Nat
  BY <1>3, <1>4, FS_Subset, FS_CardinalityType
<1> QED BY <1>1, <1>2, <1>4, <1>6, <1>7

\* What each process has in the file: no more than it counts, no more than
\* max_size between two lines and a line more before its cut, which a killed
\* process leaves behind until the next cut.
Shares(c) ==
  /\ c \in [Process -> Nat] /\ IsFiniteSet(Bytes(c)) /\ size = Cardinality(Bytes(c))
  /\ \A p \in Process : open[p] => c[p] <= current_size[p]
  /\ ~logDied => \A p \in Process :
       c[p] <= LogMax + (IF logPc[p] = "cut" THEN MaxLine ELSE 0)
  /\ logDied => \E v \in Process : \A p \in Process :
       logPc[p] = "idle" => c[p] <= LogMax + (IF p = v THEN MaxLine ELSE 0)

Shared == \E c \in [Process -> Nat] : Shares(c)

LEMMA ShareInit == Log!Init => Shared
<1> SUFFICES ASSUME Log!Init PROVE Shared
  OBVIOUS
<1>1. PICK p \in Process : TRUE
  BY ProcessAssumption
<1>2. size \in Nat /\ size <= LogMax
  BY LogAssumption DEF Log!Init
<1> DEFINE c == [q \in Process |-> IF q = p THEN size ELSE 0]
<1>3. c \in [Process -> Nat]
  BY <1>2
<1>4. IsFiniteSet(Bytes(c)) /\ Cardinality(Bytes(c)) = size
  BY <1>2, <1>3, BytesOfOne
<1>5. \A q \in Process : ~open[q] /\ logPc[q] = "idle"
  BY DEF Log!Init
<1>6. \A q \in Process : c[q] <= LogMax
  BY <1>2, LogAssumption
<1>7. logDied = FALSE
  BY DEF Log!Init
<1> HIDE DEF c
<1>8. Shares(c)
  BY <1>3, <1>4, <1>5, <1>6, <1>7, LogAssumption DEF Shares
<1> QED BY <1>3, <1>8, Zenon DEF Shared

LEMMA ShareStep ==
  LogInv /\ Shared /\ [Log!Next]_(Log!logVars) => Shared'
<1> SUFFICES ASSUME LogInv, [Log!Next]_(Log!logVars), NEW c \in [Process -> Nat], Shares(c)
             PROVE  Shared'
  BY DEF Shared
<1> USE LogAssumption
<1>t. Log!TypeOK
  BY DEF LogInv
<1>1. ASSUME NEW p \in Process, Log!LogInit(p) PROVE Shares(c)'
  <2>1. c[p] <= size
    BY BytesOfEach DEF Shares
  <2> QED BY <1>1, <1>t, <2>1 DEF Log!LogInit, Log!TypeOK, Shares
<1>2. ASSUME NEW p \in Process, Log!LogWrite(p) PROVE Shared'
  <2>a. PICK len \in 1 .. MaxLine : \E taken \in 0 .. len :
          /\ size' = size + taken
          /\ current_size' = [current_size EXCEPT ![p] = @ + len]
          /\ logPc' = [logPc EXCEPT ![p] = Log!AfterCount(current_size[p] + len)]
    BY <1>2, Zenon DEF Log!LogWrite
  <2>1. PICK taken \in 0 .. len :
          /\ size' = size + taken
          /\ current_size' = [current_size EXCEPT ![p] = @ + len]
          /\ logPc' = [logPc EXCEPT ![p] = Log!AfterCount(current_size[p] + len)]
    BY <2>a
  <2>2. open[p] /\ logPc[p] = "idle" /\ UNCHANGED <<open, logDied>>
    BY <1>2 DEF Log!LogWrite
  <2> DEFINE d == [c EXCEPT ![p] = c[p] + taken]
  <2>3. d \in [Process -> Nat]
    OBVIOUS
  <2>4. IsFiniteSet(Bytes(d)) /\ size' = Cardinality(Bytes(d))
    <3>1. taken \in Nat /\ size' = size + taken
      BY <2>1
    <3>2. IsFiniteSet(Bytes(c)) /\ size = Cardinality(Bytes(c))
      BY DEF Shares
    <3>3. IsFiniteSet(Bytes(d)) /\ Cardinality(Bytes(d)) = Cardinality(Bytes(c)) + taken
      BY <2>3, <3>1, <3>2, BytesGrow, ZenonT(40)
    <3> QED BY <3>1, <3>2, <3>3
  <2>5. \A q \in Process : open'[q] => d[q] <= current_size'[q]
    BY <1>t, <2>1, <2>2 DEF Shares, Log!TypeOK
  <2>6. logPc'[p] = "idle" => d[p] <= LogMax
    BY <1>t, <2>1, <2>2, <2>5 DEF Log!AfterCount, Log!TypeOK
  <2>7. \A q \in Process : q # p => d[q] = c[q] /\ logPc'[q] = logPc[q]
    BY <1>t, <2>1 DEF Log!TypeOK
  <2>8. logPc'[p] \in {"idle", "cut"}
    BY <1>t, <2>1 DEF Log!AfterCount, Log!TypeOK
  <2>9. ASSUME ~logDied'
        PROVE  \A q \in Process : d[q] <= LogMax + (IF logPc'[q] = "cut" THEN MaxLine ELSE 0)
    BY <2>2, <2>6, <2>7, <2>8, <2>9 DEF Shares
  <2>10. ASSUME logDied'
         PROVE  \E v \in Process : \A q \in Process :
                  logPc'[q] = "idle" => d[q] <= LogMax + (IF q = v THEN MaxLine ELSE 0)
    <3>1. PICK v \in Process : \A q \in Process :
            logPc[q] = "idle" => c[q] <= LogMax + (IF q = v THEN MaxLine ELSE 0)
      BY <2>2, <2>10 DEF Shares
    <3> HIDE DEF d
    <3> QED BY <2>3, <2>6, <2>7, <3>1
  <2> HIDE DEF d
  <2> QED BY <2>3, <2>4, <2>5, <2>9, <2>10 DEF Shared, Shares
<1>3. ASSUME NEW p \in Process, Log!LogCut(p) PROVE Shared'
  <2> DEFINE d == [q \in Process |-> IF q = p THEN Log!Half ELSE 0]
  <2>1. d \in [Process -> Nat]
    BY HalfType
  <2>2. IsFiniteSet(Bytes(d)) /\ size' = Cardinality(Bytes(d))
    BY <1>3, <2>1, HalfType, BytesOfOne DEF Log!LogCut
  <2>3. \A q \in Process : d[q] <= LogMax
    BY HalfType
  <2>4. \A q \in Process : open'[q] => d[q] <= current_size'[q]
    BY <1>3, <1>t, HalfType DEF Log!LogCut, Log!TypeOK
  <2> HIDE DEF d
  <2> QED BY <2>1, <2>2, <2>3, <2>4 DEF Shared, Shares
<1>4. ASSUME NEW p \in Process, Log!LogClose(p) PROVE Shares(c)'
  BY <1>4, <1>t DEF Log!LogClose, Log!TypeOK, Shares
<1>5. ASSUME NEW p \in Process, Log!Die(p) PROVE Shares(c)'
  <2>1. /\ UNCHANGED <<size, current_size>> /\ logDied' /\ ~logDied
        /\ open' = [open EXCEPT ![p] = FALSE]
        /\ logPc' = [logPc EXCEPT ![p] = "idle"]
    BY <1>5 DEF Log!Die
  <2>2. \A q \in Process : logPc'[q] = "idle" =>
          c[q] <= LogMax + (IF q = p THEN MaxLine ELSE 0)
    BY <1>t, <2>1 DEF Shares, Log!TypeOK
  <2>3. \A q \in Process : open'[q] => open[q]
    BY <1>t, <2>1 DEF Log!TypeOK
  <2> QED BY <2>1, <2>2, <2>3 DEF Shares
<1>6. ASSUME UNCHANGED Log!logVars PROVE Shares(c)'
  <2>1. /\ size' = size /\ open' = open /\ current_size' = current_size
        /\ logPc' = logPc /\ logDied' = logDied
    BY <1>6 DEF Log!logVars
  <2> QED BY <2>1 DEF Shares
<1>7. Shares(c)' => Shared'
  BY DEF Shared
<1> QED BY <1>1, <1>2, <1>3, <1>4, <1>5, <1>6, <1>7 DEF Log!Next

LEMMA LogCardinality == \A S : Log!Cardinality(S) = Cardinality(S)
BY DEF Log!Cardinality, Cardinality

LEMMA ShareBounds == Shared => Log!LogBounded
<1> SUFFICES ASSUME Shared, \A p \in Process : logPc[p] = "idle"
             PROVE  size <= Cardinality(Process) * LogMax + (IF logDied THEN MaxLine ELSE 0)
  BY LogCardinality DEF Log!LogBounded
<1>c. PICK c \in [Process -> Nat] : Shares(c)
  BY DEF Shared
<1> USE LogAssumption
<1>1. CASE logDied
  <2>1. PICK v \in Process : \A p \in Process :
          c[p] <= LogMax + (IF p = v THEN MaxLine ELSE 0)
    BY <1>c, <1>1 DEF Shares
  <2> QED BY <1>c, <1>1, <2>1, BytesBounded DEF Shares
<1>2. CASE ~logDied
  <2>1. PICK v \in Process : TRUE
    BY ProcessAssumption
  <2>2. \A p \in Process : c[p] <= LogMax + (IF p = v THEN 0 ELSE 0)
    BY <1>c, <1>2 DEF Shares
  <2>3. Cardinality(Bytes(c)) <= Cardinality(Process) * LogMax + 0
    BY <2>2, BytesBounded
  <2> QED BY <1>c, <1>2, <2>3 DEF Shares
<1> QED BY <1>1, <1>2

\* The log file stays bounded (LogFile!LogBounded), for every number of
\* processes that count for themselves and every limit: max_size to each
\* process, and one line on top if one was killed before its cut.
THEOREM LogStaysBounded == LibSpec => []LogBounded
<1>1. LibInit => (lib = "log" => LogInv /\ Shared)
  BY LogInit, ShareInit DEF LibInit
<1>2. (lib = "log" => LogInv /\ Shared) /\ [LibNext]_libVars
        => (lib = "log" => LogInv /\ Shared)'
  BY LibStep, LogStep, ShareStep DEF EachSteps
<1>3. (lib = "log" => LogInv /\ Shared) => LogBounded
  BY ShareBounds DEF LogBounded
<1> QED BY <1>1, <1>2, <1>3, PTL DEF LibSpec

-----------------------------------------------------------------------------
(* Crash reports.  While nobody was killed: who is inside reports for a      *)
(* second of the group, a report of the group is closed or being written,    *)
(* and from an unlink on `latest` is free or names a report of the group.    *)

CrashType ==
  /\ clock \in Nat
  /\ crashPc \in [Process -> {"idle", "write", "unlink", "link"}]
  /\ second \in [Process -> Nat]
  /\ latest \in Nat \union {None} /\ group \subseteq Nat /\ died \in BOOLEAN

InGroup == \A p \in Process : crashPc[p] # "idle" => second[p] \in group

GroupWritten ==
  \A s \in group : s \in closed \/ \E p \in Process : crashPc[p] = "write" /\ second[p] = s

Relinked ==
  /\ (\E p \in Process : crashPc[p] = "link") => latest \in group \union {None}
  /\ Crash!Outside /\ group # {} => latest \in group

CrashInv == CrashType /\ (~died => InGroup /\ GroupWritten /\ Relinked)

LEMMA CrashInit == Crash!Init => CrashInv
<1> SUFFICES ASSUME Crash!Init PROVE CrashInv
  OBVIOUS
<1>1. /\ crashPc = [p \in Process |-> "idle"] /\ second = [p \in Process |-> 0]
      /\ clock = 0 /\ latest = None /\ group = {} /\ died = FALSE
  BY DEF Crash!Init
<1>2. CrashType
  BY <1>1 DEF CrashType
<1>3. InGroup /\ GroupWritten /\ Relinked
  BY <1>1 DEF InGroup, GroupWritten, Relinked
<1> QED BY <1>2, <1>3 DEF CrashInv

LEMMA CrashTypeStep == CrashType /\ [Crash!Next]_(Crash!crashVars) => CrashType'
<1> SUFFICES ASSUME CrashType, [Crash!Next]_(Crash!crashVars) PROVE CrashType'
  OBVIOUS
<1> USE DEF CrashType
<1>1. ASSUME NEW p \in Process, Crash!OpenReport(p) PROVE CrashType'
  BY <1>1 DEF Crash!OpenReport
<1>2. ASSUME NEW p \in Process, Crash!CloseReport(p) \/ Crash!UnlinkLatest(p) PROVE CrashType'
  BY <1>2 DEF Crash!CloseReport, Crash!UnlinkLatest
<1>3. ASSUME NEW p \in Process, Crash!LinkLatest(p) PROVE CrashType'
  BY <1>3 DEF Crash!LinkLatest
<1>4. ASSUME NEW p \in Process, Crash!Kill(p) PROVE CrashType'
  BY <1>4 DEF Crash!Kill
<1>5. CASE Crash!Tick
  BY <1>5 DEF Crash!Tick
<1>6. CASE UNCHANGED Crash!crashVars
  BY <1>6 DEF Crash!crashVars
<1> QED BY <1>1, <1>2, <1>3, <1>4, <1>5, <1>6 DEF Crash!Next

LEMMA CrashStep == CrashInv /\ [Crash!Next]_(Crash!crashVars) => CrashInv'
<1> SUFFICES ASSUME CrashInv, [Crash!Next]_(Crash!crashVars), ~died'
             PROVE  (InGroup /\ GroupWritten /\ Relinked)'
  BY CrashTypeStep DEF CrashInv
<1>0. CrashType /\ CrashType'
  BY CrashTypeStep DEF CrashInv
<1>d. ~died
  BY DEF Crash!Next, Crash!OpenReport, Crash!CloseReport, Crash!UnlinkLatest,
         Crash!LinkLatest, Crash!Kill, Crash!Tick, Crash!crashVars
<1>i. InGroup /\ GroupWritten /\ Relinked
  BY <1>d DEF CrashInv
<1> USE <1>0, <1>i DEF CrashType
<1>1. ASSUME NEW p \in Process, Crash!OpenReport(p)
      PROVE  (InGroup /\ GroupWritten /\ Relinked)'
  <2>1. /\ crashPc[p] = "idle" /\ crashPc' = [crashPc EXCEPT ![p] = "write"]
        /\ second' = [second EXCEPT ![p] = clock]
        /\ closed' = closed \ {clock} /\ latest' = latest
        /\ group' = {clock} \union (IF Crash!Outside THEN {} ELSE group)
    BY <1>1 DEF Crash!OpenReport
  <2>2. InGroup'
    BY <2>1 DEF InGroup, Crash!Outside
  <2>3. GroupWritten'
    <3> SUFFICES ASSUME NEW s \in group'
                 PROVE  s \in closed' \/ \E q \in Process : crashPc'[q] = "write" /\ second'[q] = s
      BY DEF GroupWritten
    <3>1. CASE s = clock
      BY <2>1, <3>1
    <3>2. CASE s # clock
      <4>1. s \in group
        BY <2>1, <3>2
      <4>2. CASE s \in closed
        BY <2>1, <3>2, <4>2
      <4>3. ASSUME NEW q \in Process, crashPc[q] = "write", second[q] = s
            PROVE  crashPc'[q] = "write" /\ second'[q] = s
        BY <2>1, <4>3
      <4> QED BY <4>1, <4>2, <4>3 DEF GroupWritten
    <3> QED BY <3>1, <3>2
  <2>4. Relinked'
    <3>1. ~Crash!Outside'
      BY <2>1 DEF Crash!Outside
    <3>2. ASSUME NEW q \in Process, crashPc'[q] = "link" PROVE latest' \in group' \union {None}
      <4>1. q # p /\ crashPc[q] = "link"
        BY <2>1, <3>2
      <4>2. ~Crash!Outside /\ latest \in group \union {None}
        BY <4>1 DEF Crash!Outside, Relinked
      <4> QED BY <2>1, <4>2
    <3> QED BY <3>1, <3>2 DEF Relinked
  <2> QED BY <2>2, <2>3, <2>4
<1>2. ASSUME NEW p \in Process, Crash!CloseReport(p)
      PROVE  (InGroup /\ GroupWritten /\ Relinked)'
  <2>1. /\ crashPc[p] = "write" /\ crashPc' = [crashPc EXCEPT ![p] = "unlink"]
        /\ closed' = closed \union {second[p]}
        /\ second' = second /\ latest' = latest /\ group' = group
    BY <1>2 DEF Crash!CloseReport
  <2>2. InGroup' /\ GroupWritten'
    BY <2>1 DEF InGroup, GroupWritten
  <2>3. Relinked'
    BY <2>1 DEF Relinked, Crash!Outside
  <2> QED BY <2>2, <2>3
<1>3. ASSUME NEW p \in Process, Crash!UnlinkLatest(p)
      PROVE  (InGroup /\ GroupWritten /\ Relinked)'
  <2>1. /\ crashPc[p] = "unlink" /\ crashPc' = [crashPc EXCEPT ![p] = "link"]
        /\ closed' = closed /\ second' = second /\ latest' = None /\ group' = group
    BY <1>3 DEF Crash!UnlinkLatest
  <2>2. InGroup' /\ GroupWritten'
    BY <2>1 DEF InGroup, GroupWritten
  <2>3. Relinked'
    BY <2>1 DEF Relinked, Crash!Outside
  <2> QED BY <2>2, <2>3
<1>4. ASSUME NEW p \in Process, Crash!LinkLatest(p)
      PROVE  (InGroup /\ GroupWritten /\ Relinked)'
  <2>1. /\ crashPc[p] = "link" /\ crashPc' = [crashPc EXCEPT ![p] = "idle"]
        /\ closed' = closed /\ second' = second /\ group' = group
        /\ latest' = IF latest = None THEN second[p] ELSE latest
    BY <1>4 DEF Crash!LinkLatest
  <2>2. InGroup' /\ GroupWritten'
    BY <2>1 DEF InGroup, GroupWritten
  <2>3. latest' \in group
    BY <2>1 DEF InGroup, Relinked
  <2> QED BY <2>1, <2>2, <2>3 DEF Relinked
<1>5. ASSUME NEW p \in Process, Crash!Kill(p) PROVE FALSE
  BY <1>5 DEF Crash!Kill
<1>6. CASE Crash!Tick \/ UNCHANGED Crash!crashVars
  <2>1. /\ crashPc' = crashPc /\ closed' = closed /\ second' = second
        /\ group' = group /\ latest' = latest
    BY <1>6 DEF Crash!Tick, Crash!crashVars
  <2> QED BY <2>1 DEF InGroup, GroupWritten, Relinked, Crash!Outside
<1> QED BY <1>1, <1>2, <1>3, <1>4, <1>5, <1>6 DEF Crash!Next

\* The link names a finished report of the last group
\* (CrashReport!LatestIsLast), for every number of processes whose reports
\* overlap and however many fall into one second.
THEOREM LinkNamesLast == LibSpec => []LatestIsLast
<1>1. LibInit => (lib = "crash" => CrashInv)
  BY CrashInit DEF LibInit
<1>2. (lib = "crash" => CrashInv) /\ [LibNext]_libVars => (lib = "crash" => CrashInv)'
  BY LibStep, CrashStep DEF EachSteps
<1>3. (lib = "crash" => CrashInv) => LatestIsLast
  <2>1. CrashInv => Crash!LatestIsLast
    BY DEF CrashInv, GroupWritten, Relinked, Crash!Outside, Crash!LatestIsLast
  <2> QED BY <2>1 DEF LatestIsLast
<1> QED BY <1>1, <1>2, <1>3, PTL DEF LibSpec

-----------------------------------------------------------------------------
(* Snapshots.  Between the end of tar and the umount nothing changes the     *)
(* archive, and nothing changes the partition either unless /persist gets    *)
(* mounted: it stays mounted until a power cut, which ends the call.         *)

Calls == [op : {"create", "restore"}, label : Label,
          step : {"manifest", "archive", "end", "mkfs", "mount", "untar", "umount"}]

CallOK == call = Snap!Idle \/ call \in Calls

Unpacked ==
  Snap!At("restore", "umount") =>
    /\ archive[call.label] \in Value \union {Blank}
    /\ persistMounted \/ persist = archive[call.label]

SnapInv == CallOK /\ Unpacked

LEMMA IdleIsNoCall == call = Snap!Idle => ~Snap!At("restore", "umount")
BY DEF Snap!At, Snap!Idle

LEMMA SnapInit == Snap!Init => SnapInv
BY IdleIsNoCall DEF Snap!Init, SnapInv, CallOK, Unpacked

\* A step that ends a call, or leads to another step than the umount.
LEMMA ElsewhereInv == CallOK' /\ ~Snap!At("restore", "umount")' => SnapInv'
BY DEF SnapInv, Unpacked

LEMMA SnapStep == SnapInv /\ [Snap!Next]_(Snap!vars) => SnapInv'
<1> SUFFICES ASSUME SnapInv, [Snap!Next]_(Snap!vars) PROVE SnapInv'
  OBVIOUS
<1> USE DEF SnapInv, CallOK
<1>1. ASSUME NEW l \in Label, Snap!CreateMount(l) \/ Snap!RestoreFind(l) PROVE SnapInv'
  <2>1. call' \in Calls /\ call'.step # "umount"
    BY <1>1 DEF Snap!CreateMount, Snap!RestoreFind, Snap!Begin, Calls
  <2> QED BY <2>1, ElsewhereInv DEF Snap!At
<1>2. ASSUME NEW l \in Label, Snap!SnapshotDelete(l) PROVE SnapInv'
  <2>1. call = Snap!Idle /\ call' = Snap!Idle
    BY <1>2 DEF Snap!SnapshotDelete
  <2> QED BY <2>1, ElsewhereInv DEF Snap!At, Snap!Idle
<1>3. CASE \/ Snap!CreateManifest \/ Snap!CreateArchive \/ Snap!RestoreNothing
           \/ Snap!Mkfs \/ Snap!MountScratch
  <2>1. call \in Calls
    BY <1>3 DEF Snap!CreateManifest, Snap!CreateArchive, Snap!RestoreNothing, Snap!Mkfs,
                Snap!MountScratch, Snap!At, Snap!Idle
  <2>2. \/ call' = Snap!Idle
        \/ \E s \in {"archive", "mount", "untar"} : call' = [call EXCEPT !.step = s]
    BY <1>3 DEF Snap!CreateManifest, Snap!CreateArchive, Snap!RestoreNothing, Snap!Mkfs,
                Snap!MountScratch, Snap!Go, Snap!Return
  <2>3. CallOK' /\ ~Snap!At("restore", "umount")'
    BY <2>1, <2>2 DEF Calls, Snap!At, Snap!Idle
  <2> QED BY <2>3, ElsewhereInv
<1>4. CASE Snap!Untar
  <2>1. call \in Calls
    BY <1>4 DEF Snap!Untar, Snap!At, Snap!Idle
  <2>2. CASE archive[call.label] \in Value \union {Blank}
    <3>1. call' = [call EXCEPT !.step = "umount"] /\ persist' = archive[call.label]
          /\ archive' = archive
      BY <1>4, <2>2 DEF Snap!Untar, Snap!Go, Snap!files
    <3>2. call'.label = call.label /\ call' \in Calls
      BY <2>1, <3>1 DEF Calls
    <3> QED BY <2>2, <3>1, <3>2 DEF Unpacked
  <2>3. CASE archive[call.label] \notin Value \union {Blank}
    <3>1. call' = Snap!Idle
      BY <1>4, <2>3 DEF Snap!Untar, Snap!Return
    <3> QED BY <3>1, ElsewhereInv DEF Snap!At, Snap!Idle
  <2> QED BY <2>2, <2>3
<1>5. CASE Snap!UmountScratch
  <2>1. call' = Snap!Idle
    BY <1>5 DEF Snap!UmountScratch, Snap!Return
  <2> QED BY <2>1, ElsewhereInv DEF Snap!At, Snap!Idle
<1>6. CASE Snap!ListSnapshots
  <2>1. call' = call /\ persist' = persist /\ persistMounted' = persistMounted
        /\ archive' = archive
    BY <1>6 DEF Snap!ListSnapshots, Snap!files
  <2> QED BY <2>1 DEF Unpacked, Snap!At
<1>7. CASE Snap!MountPersist
  <2>1. call' = call /\ persistMounted' = TRUE /\ archive' = archive
    BY <1>7 DEF Snap!MountPersist, Snap!files
  <2> QED BY <2>1 DEF Unpacked, Snap!At
<1>8. CASE Snap!WritePersist
  <2>1. call' = call /\ persistMounted /\ persistMounted' = persistMounted
        /\ archive' = archive
    BY <1>8 DEF Snap!WritePersist, Snap!files, Snap!mounts
  <2> QED BY <2>1 DEF Unpacked, Snap!At
<1>9. CASE Snap!Sync
  <2>1. call' = call /\ persist' = persist /\ persistMounted' = persistMounted
        /\ archive' = archive
    BY <1>9 DEF Snap!Sync, Snap!mounts
  <2> QED BY <2>1 DEF Unpacked, Snap!At
<1>10. CASE Snap!PowerCut
  <2>1. call' = Snap!Idle
    BY <1>10 DEF Snap!PowerCut
  <2> QED BY <2>1, ElsewhereInv DEF Snap!At, Snap!Idle
<1>11. CASE UNCHANGED Snap!vars
  <2>1. call' = call /\ persist' = persist /\ persistMounted' = persistMounted
        /\ archive' = archive
    BY <1>11 DEF Snap!vars, Snap!files, Snap!mounts
  <2> QED BY <2>1 DEF Unpacked, Snap!At
<1> QED BY <1>1, <1>2, <1>3, <1>4, <1>5, <1>6, <1>7, <1>8, <1>9, <1>10, <1>11 DEF Snap!Next

\* The inductive invariant of the snapshots holds of every behaviour.
THEOREM SnapInvariant == LibSpec => [](lib = "snapshots" => SnapInv)
<1>1. LibInit => (lib = "snapshots" => SnapInv)
  BY SnapInit DEF LibInit
<1>2. (lib = "snapshots" => SnapInv) /\ [LibNext]_libVars => (lib = "snapshots" => SnapInv)'
  BY LibStep, SnapStep DEF EachSteps
<1> QED BY <1>1, <1>2, PTL DEF LibSpec

LEMMA RestoreStep ==
  SnapInv /\ Snap!UmountScratch /\ ~persistMounted =>
    /\ archive[call.label] \in Value \union {Blank}
    /\ persist' = archive[call.label]
    /\ ~scratchMounted'
BY DEF SnapInv, Unpacked, Snap!UmountScratch

\* A restore that reports success has restored the whole archive
\* (Snapshots!RestoredIsSnapshot), for every number of snapshots and whatever
\* was cut short or failed before.
THEOREM RestoreIsComplete == LibSpec => RestoredIsSnapshot
<1>1. (lib = "snapshots" => SnapInv) /\ [LibNext]_libVars =>
        [Snap!UmountScratch /\ ~persistMounted =>
           /\ archive[call.label] \in Value \union {Blank}
           /\ persist' = archive[call.label]
           /\ ~scratchMounted']_(Snap!vars)
  BY LibStep, RestoreStep DEF EachSteps
<1> QED BY <1>1, SnapInvariant, PTL DEF LibSpec, RestoredIsSnapshot, Snap!RestoredIsSnapshot

-----------------------------------------------------------------------------
(* The GPIO pin.  With sysfs, a process has the value file open exactly when *)
(* its own flag says exported, a file that answers has its pin exported, and *)
(* an exported pin has a file that answers or an open on its way to one.     *)
(* Without sysfs, whoever holds the line answers, and nothing is exported.   *)

GpioType ==
  /\ sysfs \in BOOLEAN /\ isExported \in BOOLEAN /\ failed \in BOOLEAN
  /\ holder \subseteq PinUser
  /\ gpioPc \in [PinUser -> {"idle", "open", "unexport", "reexport", "reopen", "direction"}]
  /\ fd \in [PinUser -> {"none", "live", "dead"}]
  /\ exported \in [PinUser -> BOOLEAN]

Opening == {"open", "unexport", "reexport", "reopen"}

SysfsInv ==
  /\ \A p \in PinUser : fd[p] # "none" <=> exported[p]
  /\ \A p \in PinUser : fd[p] = "live" => isExported
  /\ isExported /\ ~failed => \E p \in PinUser : fd[p] = "live" \/ gpioPc[p] \in Opening

LineInv ==
  /\ \A p \in PinUser : gpioPc[p] = "idle" /\ ~exported[p] /\ fd[p] # "dead"
  /\ \A p \in PinUser : p \in holder <=> fd[p] = "live"

GpioInv == GpioType /\ (sysfs => SysfsInv) /\ (~sysfs => LineInv)

LEMMA GpioInit == Gpio!Init => GpioInv
<1> SUFFICES ASSUME Gpio!Init PROVE GpioInv
  OBVIOUS
<1>1. /\ gpioPc = [p \in PinUser |-> "idle"] /\ fd = [p \in PinUser |-> "none"]
      /\ exported = [p \in PinUser |-> FALSE]
      /\ sysfs \in BOOLEAN /\ isExported = FALSE /\ holder = {} /\ failed = FALSE
  BY DEF Gpio!Init
<1>2. GpioType
  BY <1>1 DEF GpioType
<1> QED BY <1>1, <1>2 DEF GpioInv, SysfsInv, LineInv

LEMMA GpioTypeStep == GpioType /\ [Gpio!Next]_(Gpio!gpioVars) => GpioType'
<1> SUFFICES ASSUME GpioType, [Gpio!Next]_(Gpio!gpioVars) PROVE GpioType'
  OBVIOUS
<1> USE DEF GpioType
<1>1. ASSUME NEW p \in PinUser, Gpio!Export(p) \/ Gpio!OpenValue(p) PROVE GpioType'
  BY <1>1 DEF Gpio!Export, Gpio!OpenValue
<1>2. ASSUME NEW p \in PinUser, Gpio!Unexport(p) \/ Gpio!Reexport(p) PROVE GpioType'
  BY <1>2 DEF Gpio!Unexport, Gpio!Reexport, Gpio!Unexported
<1>3. ASSUME NEW p \in PinUser, Gpio!ReopenValue(p) \/ Gpio!SetDirection(p) PROVE GpioType'
  BY <1>3 DEF Gpio!ReopenValue, Gpio!SetDirection
<1>4. ASSUME NEW p \in PinUser, Gpio!V2Open(p) PROVE GpioType'
  BY <1>4 DEF Gpio!V2Open
<1>5. ASSUME NEW p \in PinUser, Gpio!Close(p) PROVE GpioType'
  BY <1>5 DEF Gpio!Close, Gpio!Unexported
<1>6. ASSUME NEW p \in PinUser, Gpio!Kill(p) PROVE GpioType'
  BY <1>6 DEF Gpio!Kill
<1>7. CASE UNCHANGED Gpio!gpioVars
  BY <1>7 DEF Gpio!gpioVars
<1> QED BY <1>1, <1>2, <1>3, <1>4, <1>5, <1>6, <1>7 DEF Gpio!Next

LEMMA SysfsStep ==
  GpioType /\ sysfs /\ SysfsInv /\ [Gpio!Next]_(Gpio!gpioVars) => SysfsInv'
<1> SUFFICES ASSUME GpioType, sysfs, SysfsInv, [Gpio!Next]_(Gpio!gpioVars) PROVE SysfsInv'
  OBVIOUS
<1> USE DEF GpioType, SysfsInv, Opening
<1>1. ASSUME NEW p \in PinUser, Gpio!Export(p) PROVE SysfsInv'
  BY <1>1 DEF Gpio!Export, Gpio!Using
<1>2. ASSUME NEW p \in PinUser, Gpio!OpenValue(p) PROVE SysfsInv'
  <2>1. CASE fd' = fd /\ exported' = exported
    BY <1>2, <2>1 DEF Gpio!OpenValue
  <2>2. CASE isExported /\ fd' = [fd EXCEPT ![p] = "live"]
             /\ exported' = [exported EXCEPT ![p] = TRUE]
    BY <1>2, <2>2 DEF Gpio!OpenValue
  <2> QED BY <1>2, <2>1, <2>2 DEF Gpio!OpenValue
<1>3. ASSUME NEW p \in PinUser, Gpio!Unexport(p) PROVE SysfsInv'
  BY <1>3 DEF Gpio!Unexport, Gpio!Unexported
<1>4. ASSUME NEW p \in PinUser, Gpio!Reexport(p) PROVE SysfsInv'
  BY <1>4 DEF Gpio!Reexport
<1>5. ASSUME NEW p \in PinUser, Gpio!ReopenValue(p) PROVE SysfsInv'
  BY <1>5 DEF Gpio!ReopenValue
<1>6. ASSUME NEW p \in PinUser, Gpio!SetDirection(p) PROVE SysfsInv'
  BY <1>6 DEF Gpio!SetDirection
<1>7. ASSUME NEW p \in PinUser, Gpio!V2Open(p) PROVE FALSE
  BY <1>7 DEF Gpio!V2Open
<1>8. ASSUME NEW p \in PinUser, Gpio!Close(p) PROVE SysfsInv'
  <2>1. exported[p]
    BY <1>8 DEF Gpio!Close
  <2> QED BY <1>8, <2>1 DEF Gpio!Close, Gpio!Unexported
<1>9. ASSUME NEW p \in PinUser, Gpio!Kill(p) PROVE SysfsInv'
  BY <1>9 DEF Gpio!Kill
<1>10. CASE UNCHANGED Gpio!gpioVars
  BY <1>10 DEF Gpio!gpioVars
<1> QED BY <1>1, <1>2, <1>3, <1>4, <1>5, <1>6, <1>7, <1>8, <1>9, <1>10 DEF Gpio!Next

LEMMA LineStep ==
  GpioType /\ ~sysfs /\ LineInv /\ [Gpio!Next]_(Gpio!gpioVars) => LineInv'
<1> SUFFICES ASSUME GpioType, ~sysfs, LineInv, [Gpio!Next]_(Gpio!gpioVars) PROVE LineInv'
  OBVIOUS
<1> USE DEF GpioType, LineInv
<1>1. ASSUME NEW p \in PinUser,
             Gpio!Export(p) \/ Gpio!OpenValue(p) \/ Gpio!Unexport(p) \/ Gpio!Reexport(p)
             \/ Gpio!ReopenValue(p) \/ Gpio!SetDirection(p)
      PROVE  FALSE
  BY <1>1 DEF Gpio!Export, Gpio!OpenValue, Gpio!Unexport, Gpio!Reexport,
              Gpio!ReopenValue, Gpio!SetDirection
<1>2. ASSUME NEW p \in PinUser, Gpio!V2Open(p) PROVE LineInv'
  BY <1>2 DEF Gpio!V2Open
<1>3. ASSUME NEW p \in PinUser, Gpio!Close(p) PROVE LineInv'
  BY <1>3 DEF Gpio!Close
<1>4. ASSUME NEW p \in PinUser, Gpio!Kill(p) PROVE LineInv'
  BY <1>4 DEF Gpio!Kill
<1>5. CASE UNCHANGED Gpio!gpioVars
  BY <1>5 DEF Gpio!gpioVars
<1> QED BY <1>1, <1>2, <1>3, <1>4, <1>5 DEF Gpio!Next

LEMMA GpioStep == GpioInv /\ [Gpio!Next]_(Gpio!gpioVars) => GpioInv'
<1> SUFFICES ASSUME GpioInv, [Gpio!Next]_(Gpio!gpioVars) PROVE GpioInv'
  OBVIOUS
<1>1. sysfs' = sysfs
  BY DEF Gpio!Next, Gpio!Export, Gpio!OpenValue, Gpio!Unexport, Gpio!Reexport,
         Gpio!ReopenValue, Gpio!SetDirection, Gpio!V2Open, Gpio!Close, Gpio!Kill,
         Gpio!gpioVars
<1> QED BY <1>1, GpioTypeStep, SysfsStep, LineStep DEF GpioInv

\* The pin is exported exactly while it is used (GpioHal!ExportedWhileUsed),
\* for every number of processes whose opens, second attempts and closes
\* interleave.
THEOREM PinExported == LibSpec => []ExportedWhileUsed
<1>1. LibInit => (lib = "gpio" => GpioInv)
  BY GpioInit DEF LibInit
<1>2. (lib = "gpio" => GpioInv) /\ [LibNext]_libVars => (lib = "gpio" => GpioInv)'
  BY LibStep, GpioStep DEF EachSteps
<1>3. (lib = "gpio" => GpioInv) => ExportedWhileUsed
  <2>1. GpioInv => Gpio!ExportedWhileUsed
    BY DEF GpioInv, GpioType, SysfsInv, LineInv, Opening, Gpio!Answers, Gpio!ExportedWhileUsed
  <2> QED BY <2>1 DEF ExportedWhileUsed
<1> QED BY <1>1, <1>2, <1>3, PTL DEF LibSpec

-----------------------------------------------------------------------------
(* The display.  While it is opened, it holds what the steps so far have     *)
(* acquired; a flip in progress is one pending flip or unread event more     *)
(* than there may be between two calls.                                      *)

HeldBefore(s) == {Display!Steps[i] : i \in 1 .. s - 1} \intersect Display!Acquired

Behind == IF late THEN 1 ELSE 0

DisplayInv ==
  /\ displayPc \in {"closed", "opening", "idle", "wait"}
  /\ step \in 1 .. 6 /\ pending \in {0, 1} /\ events \in Nat /\ late \in BOOLEAN
  /\ displayPc = "closed" => held = {}
  /\ displayPc = "opening" => held = HeldBefore(step)
  /\ displayPc \in {"closed", "opening"} => pending = 0 /\ events = 0
  /\ displayPc = "idle" => pending + events <= Behind
  /\ displayPc = "wait" => pending + events <= 1 + Behind

LEMMA DisplayInit == Display!Init => DisplayInv
<1> SUFFICES ASSUME Display!Init PROVE DisplayInv
  OBVIOUS
<1>1. displayPc = "closed" /\ step = 1 /\ held = {} /\ pending = 0 /\ events = 0
  BY DEF Display!Init
<1>2. late \in BOOLEAN
  BY DEF Display!Init
<1> QED BY <1>1, <1>2 DEF DisplayInv

LEMMA HeldFirst == HeldBefore(1) = {}
BY DEF HeldBefore

LEMMA HeldNext ==
  ASSUME NEW s \in 1 .. 6
  PROVE  HeldBefore(s + 1) = HeldBefore(s) \union ({Display!Steps[s]} \intersect Display!Acquired)
<1>1. 1 .. (s + 1) - 1 = (1 .. s - 1) \union {s}
  OBVIOUS
<1> QED BY <1>1 DEF HeldBefore

LEMMA StepsLength == Len(Display!Steps) = 6
BY DEF Display!Steps

\* Whatever step fails, its label gives back what the steps before it took.
LEMMA UnwindsAll ==
  ASSUME NEW s \in 1 .. 6
  PROVE  Display!Kept(HeldBefore(s) \ Display!Unwind(Display!Steps[s])) = {}
<1> DEFINE Left == HeldBefore(s) \ Display!Unwind(Display!Steps[s])
<1>1. ASSUME NEW h \in Left PROVE FALSE
  <2>1. PICK i \in 1 .. s - 1 : h = Display!Steps[i]
    BY <1>1 DEF HeldBefore
  <2>2. h \in Display!Acquired /\ h \notin Display!Unwind(Display!Steps[s])
    BY <1>1 DEF HeldBefore
  <2>3. i < s /\ i \in 1 .. 5
    BY <2>1
  <2> QED BY <2>1, <2>2, <2>3 DEF Display!Steps, Display!Acquired, Display!Unwind
<1>2. Left = {}
  BY <1>1
<1> QED BY <1>2 DEF Display!Kept

LEMMA DisplayStep == DisplayInv /\ [Display!Next]_(Display!displayVars) => DisplayInv'
<1> SUFFICES ASSUME DisplayInv, [Display!Next]_(Display!displayVars) PROVE DisplayInv'
  OBVIOUS
<1>1. CASE Display!Open
  <2>1. /\ displayPc' = "opening" /\ step' = 1 /\ held' = HeldBefore(step')
        /\ pending' = 0 /\ events' = 0
    BY <1>1, HeldFirst DEF Display!Open, DisplayInv
  <2>2. late' \in BOOLEAN
    BY <1>1 DEF Display!Open
  <2> QED BY <2>1, <2>2 DEF DisplayInv
<1>2. CASE Display!OpenStep
  <2>1. held' = HeldBefore(step + 1) /\ step \in 1 .. 6
    BY <1>2, HeldNext DEF Display!OpenStep, DisplayInv
  <2>2. CASE step = 6
    BY <1>2, <2>1, <2>2, StepsLength DEF Display!OpenStep, DisplayInv, Behind
  <2>3. CASE step # 6
    BY <1>2, <2>1, <2>3, StepsLength DEF Display!OpenStep, DisplayInv, Behind
  <2> QED BY <2>2, <2>3
<1>3. CASE Display!OpenFails
  <2>1. held' = {}
    BY <1>3, UnwindsAll DEF Display!OpenFails, DisplayInv
  <2> QED BY <1>3, <2>1 DEF Display!OpenFails, DisplayInv
<1>4. CASE Display!Flip
  BY <1>4 DEF Display!Flip, DisplayInv, Behind
<1>5. CASE Display!EventRead
  BY <1>5 DEF Display!EventRead, DisplayInv, Behind
<1>6. CASE Display!WaitEnds
  BY <1>6 DEF Display!WaitEnds, DisplayInv, Behind
<1>7. CASE Display!VerticalBlank
  BY <1>7 DEF Display!VerticalBlank, DisplayInv, Behind
<1>8. CASE Display!Close
  <2>1. held' = {}
    BY <1>8 DEF Display!Close, Display!Kept
  <2> QED BY <1>8, <2>1 DEF Display!Close, DisplayInv
<1>9. CASE UNCHANGED Display!displayVars
  BY <1>9 DEF Display!displayVars, DisplayInv, Behind
<1> QED BY <1>1, <1>2, <1>3, <1>4, <1>5, <1>6, <1>7, <1>8, <1>9 DEF Display!Next

\* The inductive invariant of the display holds of every behaviour.
THEOREM DisplayInvariant == LibSpec => [](lib = "display" => DisplayInv)
<1>1. LibInit => (lib = "display" => DisplayInv)
  BY DisplayInit DEF LibInit
<1>2. (lib = "display" => DisplayInv) /\ [LibNext]_libVars => (lib = "display" => DisplayInv)'
  BY LibStep, DisplayStep DEF EachSteps
<1> QED BY <1>1, <1>2, PTL DEF LibSpec

\* Wherever open fails, and after a close, the process holds nothing of the
\* kernel (DisplayHal!ClosedHoldsNothing).
THEOREM ClosedIsEmpty == LibSpec => []ClosedHoldsNothing
<1>1. (lib = "display" => DisplayInv) => ClosedHoldsNothing
  BY DEF DisplayInv, Display!ClosedHoldsNothing, ClosedHoldsNothing
<1> QED BY <1>1, DisplayInvariant, PTL

\* A flip returns on the event of its own frame until a wait runs out, and is
\* never more than one behind (DisplayHal!FlipsInStep), for every number of
\* flips.
THEOREM FlipsStayInStep == LibSpec => []FlipsInStep
<1>1. (lib = "display" => DisplayInv) => FlipsInStep
  BY DEF DisplayInv, Behind, Display!FlipsInStep, FlipsInStep
<1> QED BY <1>1, DisplayInvariant, PTL

-----------------------------------------------------------------------------
(* The sound device.  From HW_PARAMS on, its parameters are the choice that  *)
(* the device took; a playback device that is prepared has nothing or one    *)
(* period queued, less than the two periods that start it.                   *)

AudioStates == {"closed", "hw_params", "sw_params", "prepare", "prepared", "running", "xrun"}

AudioInv ==
  /\ state \in AudioStates /\ dir \in {"capture", "playback"}
  /\ dev \in Device /\ wanted \in Wanted
  /\ state \in AudioStates \ {"closed", "hw_params"} =>
       audio = Audio!Choice(dev, wanted) /\ Audio!Takes(dev, wanted.fmt, audio)
  /\ state \in AudioStates \ {"closed", "hw_params", "sw_params"} =>
       start = Audio!StartThreshold(audio)
  /\ dir = "playback" /\ state = "prepared" => queued \in {0, audio.period}

\* What the device took has periods of one frame at least.
LEMMA TakenType ==
  ASSUME NEW d \in Device, NEW w \in Wanted, Audio!Takes(d, w.fmt, Audio!Choice(d, w))
  PROVE  /\ Audio!Choice(d, w).period \in Nat \ {0}
         /\ Audio!Choice(d, w).buffer \in Int
         /\ d.periodsMin \in Nat
         /\ Audio!Choice(d, w).buffer >= d.periodsMin * Audio!Choice(d, w).period
<1> DEFINE a == Audio!Choice(d, w)
           bytes == Audio!FmtBytes(w.fmt)
<1>1. d \in Limit /\ w.fmt \in {"S16", "S24", "S32"}
  BY AudioAssumption
<1>2. /\ d.chMin \in Nat \ {0} /\ d.chMax \in Nat /\ d.psMin \in Nat \ {0} /\ d.psMax \in Nat
      /\ d.bsMax \in Nat /\ d.bytesMax \in Nat /\ d.periodsMin \in Nat
  BY <1>1 DEF Limit
<1>3. bytes \in Nat \ {0}
  BY <1>1 DEF Audio!FmtBytes
<1>4. /\ a.channels \in d.chMin .. d.chMax /\ a.period \in d.psMin .. d.psMax
      /\ a.buffer >= d.periodsMin * a.period
  BY DEF Audio!Takes
<1>5. a.channels \in Nat \ {0} /\ a.period \in Nat \ {0}
  BY <1>2, <1>4
<1>6. a.buffer = Audio!BufferTarget(a.channels, w.fmt, a.period, d)
  BY DEF Audio!Choice
<1>7. a.channels * bytes \in Nat \ {0}
  BY <1>3, <1>5
<1> HIDE DEF a, bytes
<1>8. Audio!Least(d.bsMax, d.bytesMax \div (a.channels * bytes)) \in Nat
  BY <1>2, <1>7 DEF Audio!Least
<1>9. (Audio!Least(d.bsMax, d.bytesMax \div (a.channels * bytes)) \div a.period) * a.period \in Int
  BY <1>5, <1>8
<1>10. a.buffer \in Int
  BY <1>6, <1>9 DEF Audio!BufferTarget, bytes
<1> QED BY <1>2, <1>4, <1>5, <1>10 DEF a

LEMMA AudioInit == Audio!Init => AudioInv
BY DEF Audio!Init, AudioInv, AudioStates

LEMMA AudioStep == AudioInv /\ [Audio!Next]_(Audio!audioVars) => AudioInv'
<1> SUFFICES ASSUME AudioInv, [Audio!Next]_(Audio!audioVars) PROVE AudioInv'
  OBVIOUS
<1> USE DEF AudioInv, AudioStates
<1>1. CASE Audio!Open
  BY <1>1 DEF Audio!Open
<1>2. CASE Audio!HwParams
  BY <1>2 DEF Audio!HwParams
<1>3. CASE Audio!SwParams
  BY <1>3 DEF Audio!SwParams, Audio!StartThreshold
<1>4. CASE Audio!Prepare
  BY <1>4 DEF Audio!Prepare, Audio!StartThreshold
<1>5. CASE Audio!Close
  BY <1>5 DEF Audio!Close
<1>6. CASE Audio!Write
  <2>1. audio = Audio!Choice(dev, wanted) /\ audio.period \in Nat \ {0}
    BY <1>6, TakenType DEF Audio!Write
  <2>2. dir = "playback" /\ start = audio.period * 2
    BY <1>6 DEF Audio!Write, Audio!StartThreshold
  <2>3. state = "prepared" /\ state' = "prepared" => queued' = audio.period
    BY <1>6, <2>1, <2>2 DEF Audio!Write
  <2>4. /\ state \in {"prepared", "running"}
        /\ state' = "running" \/ state' = state
        /\ UNCHANGED <<dir, dev, wanted, audio, start>>
    BY <1>6 DEF Audio!Write
  <2> HIDE DEF AudioStates
  <2> QED BY <2>3, <2>4 DEF AudioStates, Audio!StartThreshold
<1>7. CASE Audio!Read
  BY <1>7 DEF Audio!Read, Audio!StartThreshold
<1>8. CASE Audio!Elapse
  <2>1. /\ state = "running" /\ state' \in {"running", "xrun"}
        /\ UNCHANGED <<dir, dev, wanted, audio, start>>
    BY <1>8 DEF Audio!Elapse
  <2> QED BY <2>1 DEF Audio!StartThreshold
<1>9. CASE UNCHANGED Audio!audioVars
  BY <1>9 DEF Audio!audioVars, Audio!StartThreshold
<1> QED BY <1>1, <1>2, <1>3, <1>4, <1>5, <1>6, <1>7, <1>8, <1>9 DEF Audio!Next

LEMMA FullHasStarted == AudioInv => Audio!PlaybackStarts
<1> SUFFICES ASSUME AudioInv, dir = "playback", state = "prepared", dev.periodsMin >= 2
             PROVE  queued + audio.period <= audio.buffer
  BY DEF Audio!PlaybackStarts
<1>1. /\ audio.period \in Nat \ {0} /\ audio.buffer \in Int /\ dev.periodsMin \in Nat
      /\ audio.buffer >= dev.periodsMin * audio.period
  BY TakenType DEF AudioInv, AudioStates
<1>2. queued \in {0, audio.period}
  BY DEF AudioInv
<1>3. ASSUME NEW a \in Nat, NEW n \in Nat, n >= 2 PROVE n * a >= 2 * a
  BY <1>3
<1>4. dev.periodsMin * audio.period >= 2 * audio.period
  BY <1>1, <1>3
<1>5. dev.periodsMin * audio.period \in Int
  BY <1>1
<1> QED BY <1>1, <1>2, <1>4, <1>5

\* A playback device with room for two periods is never left prepared with a
\* full buffer (AudioHal!PlaybackStarts), for all limits and requests.
THEOREM PlaybackStartsInTime == LibSpec => []PlaybackStarts
<1>1. LibInit => (lib = "audio" => AudioInv)
  BY AudioInit DEF LibInit
<1>2. (lib = "audio" => AudioInv) /\ [LibNext]_libVars => (lib = "audio" => AudioInv)'
  BY LibStep, AudioStep DEF EachSteps
<1>3. (lib = "audio" => AudioInv) => PlaybackStarts
  BY FullHasStarted DEF PlaybackStarts
<1> QED BY <1>1, <1>2, <1>3, PTL DEF LibSpec

-----------------------------------------------------------------------------
(* JSON.  The i-th field stands at four places of the text: its key at       *)
(* 4 i - 2, a colon, its value, and a comma or, behind the last field of a   *)
(* finished object, the brace.  No mark looks like a quoted word.            *)

Values == {Json!Quoted(w) : w \in Word} \union {Json!Whole(n) : n \in Number}
          \union {Json!Bool(b) : b \in BOOLEAN}
Marks  == {Json!Mark(m) : m \in {"lbrace", "colon", "comma", "rbrace"}}
Tokens == Values \union Marks
Fields == [key : Word, value : Values]

\* The text has the fields, and a mark in every other place.
Holds(t, f) ==
  /\ t[1] \in Marks
  /\ \A i \in 1 .. Len(f) :
       /\ t[4 * i - 2] = Json!Quoted(f[i].key)
       /\ t[4 * i - 1] = Json!Mark("colon")
       /\ t[4 * i] = f[i].value
       /\ t[4 * i + 1] \in Marks

JsonOpen ==
  /\ Len(written) = 4 * Len(fields) + 1 /\ Holds(written, fields)
  /\ Len(fields) = 0 => written[1] = Json!Mark("lbrace")
  /\ Len(fields) > 0 => written[4 * Len(fields) + 1] = Json!Mark("comma")
  /\ pos >= 1 /\ (pos > 1 <=> Len(fields) > 0)

JsonDone ==
  /\ Holds(written, fields)
  /\ Len(fields) = 0 => Len(written) = 2 /\ written[2] \in Marks
  /\ Len(fields) > 0 => Len(written) = 4 * Len(fields) + 1

JsonInv ==
  /\ fields \in Seq(Fields) /\ written \in Seq(Tokens) /\ pos \in Nat
  /\ stage = "new" => fields = <<>>
  /\ stage = "open" => JsonOpen
  /\ stage = "done" => JsonDone

\* Both ways the text grows.
LEMMA FourMore ==
  ASSUME NEW S, NEW t \in Seq(S), NEW a \in S, NEW b \in S, NEW c \in S, NEW d \in S,
         NEW u, u = t \o <<a, b, c, d>>
  PROVE  /\ u \in Seq(S) /\ Len(u) = Len(t) + 4
         /\ \A i \in 1 .. Len(t) : u[i] = t[i]
         /\ u[Len(t) + 1] = a /\ u[Len(t) + 2] = b
         /\ u[Len(t) + 3] = c /\ u[Len(t) + 4] = d
<1> DEFINE four == <<a, b, c, d>>
<1>1. /\ four \in Seq(S) /\ Len(four) = 4
      /\ four[1] = a /\ four[2] = b /\ four[3] = c /\ four[4] = d
  OBVIOUS
<1>2. u = t \o four
  OBVIOUS
<1> HIDE DEF four
<1>3. /\ u \in Seq(S) /\ Len(u) = Len(t) + Len(four)
      /\ \A i \in 1 .. Len(t) + Len(four) :
           u[i] = IF i <= Len(t) THEN t[i] ELSE four[i - Len(t)]
  BY <1>1, <1>2
<1>4. Len(t) \in Nat
  OBVIOUS
<1> QED BY <1>1, <1>3, <1>4

LEMMA OneMore ==
  ASSUME NEW S, NEW t \in Seq(S), NEW a \in S, NEW m \in 0 .. Len(t),
         NEW u, u = Append(SubSeq(t, 1, m), a)
  PROVE  /\ u \in Seq(S) /\ Len(u) = m + 1
         /\ \A i \in 1 .. m : u[i] = t[i]
         /\ u[m + 1] = a
<1> DEFINE v == SubSeq(t, 1, m)
<1>1. /\ v \in Seq(S) /\ Len(v) = m /\ \A i \in 1 .. m : v[i] = t[i]
  <2>1. m \in Nat /\ Len(t) \in Nat
    OBVIOUS
  <2>2. \A i \in 1 .. m : t[i] \in S
    BY <2>1
  <2> QED BY <2>1, <2>2
<1>2. u = Append(v, a)
  OBVIOUS
<1> HIDE DEF v
<1>3. /\ u \in Seq(S) /\ Len(u) = Len(v) + 1
      /\ \A i \in 1 .. Len(v) : u[i] = v[i]
      /\ u[Len(v) + 1] = a
  BY <1>1, <1>2, AppendProperties
<1> QED BY <1>1, <1>3

LEMMA TokensDiffer ==
  /\ \A m : \A w : Json!Mark(m) # Json!Quoted(w)
  /\ \A t \in Marks : \A w : t # Json!Quoted(w)
  /\ \A v, w : Json!Quoted(v) = Json!Quoted(w) => v = w
  /\ \A v \in Values : v \notin Marks
  /\ Json!Mark("lbrace") # Json!Mark("comma")
<1>1. \A m : \A w : Json!Mark(m) # Json!Quoted(w)
  <2> SUFFICES ASSUME NEW m, NEW w PROVE Json!Mark(m) # Json!Quoted(w)
    OBVIOUS
  <2>1. Json!Mark(m).kind = "mark" /\ Json!Quoted(w).kind = "string"
    BY DEF Json!Mark, Json!Quoted
  <2> QED BY <2>1
<1>2. \A t \in Marks : \A w : t # Json!Quoted(w)
  BY <1>1 DEF Marks
<1>3. \A v, w : Json!Quoted(v) = Json!Quoted(w) => v = w
  <2> SUFFICES ASSUME NEW v, NEW w, Json!Quoted(v) = Json!Quoted(w) PROVE v = w
    OBVIOUS
  <2>1. Json!Quoted(v).word = v /\ Json!Quoted(w).word = w
    BY DEF Json!Quoted
  <2> QED BY <2>1
<1>4. \A v \in Values : v \notin Marks
  <2>1. \A v \in Values : v.kind \in {"string", "int", "bool"}
    BY DEF Values, Json!Quoted, Json!Whole, Json!Bool
  <2>2. ASSUME NEW t \in Marks PROVE t.kind = "mark"
    <3>1. \E m : t = Json!Mark(m)
      BY DEF Marks
    <3> QED BY <3>1 DEF Json!Mark
  <2> QED BY <2>1, <2>2
<1>5. Json!Mark("lbrace") # Json!Mark("comma")
  <2>1. Json!Mark("lbrace").word = "lbrace" /\ Json!Mark("comma").word = "comma"
    BY DEF Json!Mark
  <2> QED BY <2>1
<1> QED BY <1>1, <1>2, <1>3, <1>4, <1>5

LEMMA JsonInit == Json!Init => JsonInv
BY DEF Json!Init, JsonInv

\* A field that fits is put behind the others.
LEMMA FieldStep ==
  ASSUME JsonInv, NEW k \in Word, NEW v \in Values, Json!AddField(k, v)
  PROVE  JsonInv'
<1>1. CASE stage' = "overrun" /\ written' = written /\ pos' = pos /\ fields' = fields
  BY <1>1 DEF JsonInv
<1>2. CASE /\ stage = "open" /\ stage' = stage
           /\ written' = written \o <<Json!Quoted(k), Json!Mark("colon"), v, Json!Mark("comma")>>
           /\ fields' = Append(fields, [key |-> k, value |-> v])
           /\ \E b \in Nat \ {0} : pos' = pos + b
  <2> DEFINE n == Len(fields)
  <2>1. /\ fields \in Seq(Fields) /\ written \in Seq(Tokens) /\ pos \in Nat /\ n \in Nat
        /\ JsonOpen
    <3>1. stage = "open"
      BY <1>2
    <3> QED BY <3>1 DEF JsonInv
  <2>2. Len(written) = 4 * n + 1 /\ Holds(written, fields) /\ pos >= 1
    BY <2>1 DEF JsonOpen
  <2>3. /\ Json!Quoted(k) \in Tokens /\ Json!Mark("colon") \in Tokens /\ v \in Tokens
        /\ Json!Mark("comma") \in Tokens /\ Json!Mark("comma") \in Marks
    BY DEF Tokens, Values, Marks
  <2>4. /\ written' \in Seq(Tokens) /\ Len(written') = Len(written) + 4
        /\ \A i \in 1 .. Len(written) : written'[i] = written[i]
        /\ written'[Len(written) + 1] = Json!Quoted(k)
        /\ written'[Len(written) + 2] = Json!Mark("colon")
        /\ written'[Len(written) + 3] = v
        /\ written'[Len(written) + 4] = Json!Mark("comma")
    BY <1>2, <2>1, <2>3, FourMore
  <2>5. /\ Len(written') = 4 * n + 5
        /\ \A i \in 1 .. 4 * n + 1 : written'[i] = written[i]
        /\ written'[4 * (n + 1) - 2] = Json!Quoted(k)
        /\ written'[4 * (n + 1) - 1] = Json!Mark("colon")
        /\ written'[4 * (n + 1)] = v
        /\ written'[4 * (n + 1) + 1] = Json!Mark("comma")
    <3>1. /\ 4 * (n + 1) - 2 = Len(written) + 1 /\ 4 * (n + 1) - 1 = Len(written) + 2
          /\ 4 * (n + 1) = Len(written) + 3 /\ 4 * (n + 1) + 1 = Len(written) + 4
      BY <2>1, <2>2
    <3>2. Len(written') = 4 * n + 5
      BY <2>1, <2>2, <2>4
    <3> QED BY <2>2, <2>4, <3>1, <3>2
  <2>6. [key |-> k, value |-> v] \in Fields
    BY DEF Fields
  <2>8. /\ fields' \in Seq(Fields) /\ Len(fields') = n + 1
        /\ \A i \in 1 .. n : fields'[i] = fields[i]
        /\ fields'[n + 1] = [key |-> k, value |-> v]
    <3>1. fields' = Append(fields, [key |-> k, value |-> v])
      BY <1>2
    <3> QED BY <2>1, <2>6, <3>1, AppendProperties
  <2>9. Holds(written', fields')
    <3>1. written'[1] \in Marks
      BY <2>1, <2>2, <2>5 DEF Holds
    <3>2. ASSUME NEW i \in 1 .. n
          PROVE  /\ written'[4 * i - 2] = Json!Quoted(fields'[i].key)
                 /\ written'[4 * i - 1] = Json!Mark("colon")
                 /\ written'[4 * i] = fields'[i].value
                 /\ written'[4 * i + 1] \in Marks
      <4>1. /\ 4 * i - 2 \in 1 .. 4 * n + 1 /\ 4 * i - 1 \in 1 .. 4 * n + 1
            /\ 4 * i \in 1 .. 4 * n + 1 /\ 4 * i + 1 \in 1 .. 4 * n + 1
        BY <2>1
      <4>2. fields'[i] = fields[i]
        BY <2>8
      <4>3. /\ written[4 * i - 2] = Json!Quoted(fields[i].key)
            /\ written[4 * i - 1] = Json!Mark("colon")
            /\ written[4 * i] = fields[i].value
            /\ written[4 * i + 1] \in Marks
        BY <2>2 DEF Holds
      <4> QED BY <2>5, <4>1, <4>2, <4>3
    <3>3. /\ written'[4 * (n + 1) - 2] = Json!Quoted(fields'[n + 1].key)
          /\ written'[4 * (n + 1) - 1] = Json!Mark("colon")
          /\ written'[4 * (n + 1)] = fields'[n + 1].value
          /\ written'[4 * (n + 1) + 1] \in Marks
      <4>1. fields'[n + 1].key = k /\ fields'[n + 1].value = v
        BY <2>8
      <4> QED BY <2>3, <2>5, <4>1
    <3>4. \A i \in 1 .. Len(fields') : i \in 1 .. n \/ i = n + 1
      BY <2>1, <2>8
    <3> HIDE DEF n
    <3> QED BY <3>1, <3>2, <3>3, <3>4 DEF Holds
  <2>10. pos' \in Nat /\ pos' > 1
    <3>1. PICK b \in Nat \ {0} : pos' = pos + b
      BY <1>2
    <3> QED BY <2>1, <2>2, <3>1
  <2>11. JsonOpen'
    <3>1. 4 * (n + 1) + 1 = 4 * n + 5 /\ n + 1 > 0
      BY <2>1
    <3> HIDE DEF n
    <3> QED BY <2>5, <2>8, <2>9, <2>10, <3>1 DEF JsonOpen
  <2> QED BY <1>2, <2>4, <2>8, <2>10, <2>11 DEF JsonInv
<1>3. \/ stage' = "overrun" /\ UNCHANGED <<written, pos, fields>>
      \/ /\ stage = "open" /\ stage' = stage
         /\ written' = written \o <<Json!Quoted(k), Json!Mark("colon"), v, Json!Mark("comma")>>
         /\ fields' = Append(fields, [key |-> k, value |-> v])
         /\ pos' = pos + (3 + 1 + (IF v.kind = "string" THEN 3 ELSE 1) + 1)
  BY DEF Json!AddField
<1>4. 3 + 1 + (IF v.kind = "string" THEN 3 ELSE 1) + 1 \in Nat \ {0}
  OBVIOUS
<1> QED BY <1>1, <1>2, <1>3, <1>4

\* The brace takes the place of the last comma.
LEMMA EndStep == JsonInv /\ Json!EndObject => JsonInv'
<1> SUFFICES ASSUME JsonInv, Json!EndObject PROVE JsonInv'
  OBVIOUS
<1> DEFINE n == Len(fields)
           m == IF n > 0 THEN 4 * n ELSE 1
           comma == pos > 1 /\ written[Len(written)] = Json!Mark("comma")
<1>1. /\ fields \in Seq(Fields) /\ written \in Seq(Tokens) /\ pos \in Nat /\ n \in Nat
      /\ JsonOpen
  <2>1. stage = "open"
    BY DEF Json!EndObject
  <2> QED BY <2>1 DEF JsonInv
<1>2. Len(written) = 4 * n + 1 /\ Holds(written, fields) /\ (comma <=> n > 0)
  BY <1>1, TokensDiffer DEF JsonOpen
<1>3. /\ written' = Append(IF comma THEN SubSeq(written, 1, Len(written) - 1) ELSE written,
                           Json!Mark("rbrace"))
      /\ pos' = (IF comma THEN pos ELSE pos + 1)
      /\ stage' = "done" /\ fields' = fields
  BY DEF Json!EndObject
<1>4. Json!Mark("rbrace") \in Marks /\ Json!Mark("rbrace") \in Tokens
  BY DEF Marks, Tokens
<1> HIDE DEF comma
<1>5. written' = Append(SubSeq(written, 1, m), Json!Mark("rbrace"))
  <2>1. CASE n > 0
    BY <1>1, <1>2, <1>3, <2>1
  <2>2. CASE n = 0
    <3>1. SubSeq(written, 1, 1) = written
      BY <1>1, <1>2, <2>2
    <3>2. m = 1 /\ ~comma
      BY <1>2, <2>2
    <3> HIDE DEF m
    <3> QED BY <1>3, <3>1, <3>2
  <2> QED BY <1>1, <2>1, <2>2
<1>6. m \in 0 .. Len(written) /\ m \in Nat
  BY <1>1, <1>2
<1>7. /\ written' \in Seq(Tokens) /\ Len(written') = m + 1
      /\ \A i \in 1 .. m : written'[i] = written[i]
      /\ written'[m + 1] = Json!Mark("rbrace")
  <2> HIDE DEF m
  <2> QED BY <1>1, <1>4, <1>5, <1>6, OneMore
<1>8. Holds(written', fields')
  <2>1. written'[1] \in Marks
    <3>1. 1 \in 1 .. m
      BY <1>1
    <3> QED BY <1>2, <1>7, <3>1 DEF Holds
  <2>2. ASSUME NEW i \in 1 .. n
        PROVE  /\ written'[4 * i - 2] = Json!Quoted(fields[i].key)
               /\ written'[4 * i - 1] = Json!Mark("colon")
               /\ written'[4 * i] = fields[i].value
               /\ written'[4 * i + 1] \in Marks
    <3>1. /\ 4 * i - 2 \in 1 .. m /\ 4 * i - 1 \in 1 .. m /\ 4 * i \in 1 .. m
          /\ 4 * i + 1 \in 1 .. m \/ 4 * i + 1 = m + 1
      BY <1>1
    <3>2. /\ written[4 * i - 2] = Json!Quoted(fields[i].key)
          /\ written[4 * i - 1] = Json!Mark("colon")
          /\ written[4 * i] = fields[i].value
          /\ written[4 * i + 1] \in Marks
      BY <1>2 DEF Holds
    <3> HIDE DEF m
    <3> QED BY <1>4, <1>7, <3>1, <3>2
  <2> QED BY <1>3, <2>1, <2>2 DEF Holds
<1>9. JsonDone'
  <2>1. n = 0 => m + 1 = 2
    OBVIOUS
  <2>2. n > 0 => m + 1 = 4 * n + 1
    OBVIOUS
  <2> HIDE DEF m
  <2> QED BY <1>3, <1>4, <1>7, <1>8, <2>1, <2>2 DEF JsonDone
<1>10. pos' \in Nat
  BY <1>1, <1>3
<1> QED BY <1>1, <1>3, <1>7, <1>9, <1>10 DEF JsonInv

LEMMA JsonStep == JsonInv /\ [Json!Next]_(Json!jsonVars) => JsonInv'
<1> SUFFICES ASSUME JsonInv, [Json!Next]_(Json!jsonVars) PROVE JsonInv'
  OBVIOUS
<1>1. CASE Json!StartObject
  <2>1. /\ stage = "new" /\ stage' = "open" /\ fields = <<>> /\ fields' = <<>> /\ pos' = 1
        /\ written' = <<Json!Mark("lbrace")>>
    BY <1>1 DEF Json!StartObject, JsonInv
  <2>2. Json!Mark("lbrace") \in Marks /\ Json!Mark("lbrace") \in Tokens
    BY DEF Marks, Tokens
  <2>3. /\ fields' \in Seq(Fields) /\ Len(fields') = 0
        /\ written' \in Seq(Tokens) /\ Len(written') = 1 /\ written'[1] = Json!Mark("lbrace")
    BY <2>1, <2>2
  <2>4. Holds(written', fields')
    BY <2>2, <2>3 DEF Holds
  <2>5. JsonOpen'
    BY <2>1, <2>3, <2>4 DEF JsonOpen
  <2> QED BY <2>1, <2>3, <2>5 DEF JsonInv
<1>2. CASE Json!AddString
  <2>1. PICK k \in Word, w \in Word : Json!AddField(k, Json!Quoted(w))
    BY <1>2 DEF Json!AddString
  <2>2. Json!Quoted(w) \in Values
    BY DEF Values
  <2> QED BY <2>1, <2>2, FieldStep
<1>3. CASE Json!AddInt
  <2>1. PICK k \in Word, m \in Number : Json!AddField(k, Json!Whole(m))
    BY <1>3 DEF Json!AddInt
  <2>2. Json!Whole(m) \in Values
    BY DEF Values
  <2> QED BY <2>1, <2>2, FieldStep
<1>4. CASE Json!AddBool
  <2>1. PICK k \in Word, b \in BOOLEAN : Json!AddField(k, Json!Bool(b))
    BY <1>4 DEF Json!AddBool
  <2>2. Json!Bool(b) \in Values
    BY DEF Values
  <2> QED BY <2>1, <2>2, FieldStep
<1>5. CASE Json!EndObject
  BY <1>5, EndStep
<1>6. CASE UNCHANGED Json!jsonVars
  BY <1>6 DEF Json!jsonVars, JsonInv, JsonOpen, JsonDone
<1> QED BY <1>1, <1>2, <1>3, <1>4, <1>5, <1>6 DEF Json!Next

\* Where a word stands in a finished object: it is a key or a string value.
LEMMA PlacesOf ==
  ASSUME JsonInv, stage = "done", NEW k, NEW j \in Json!Places(k)
  PROVE  \E m \in 1 .. Len(fields) :
           \/ j = 4 * m - 2 /\ fields[m].key = k
           \/ j = 4 * m /\ fields[m].value = Json!Quoted(k)
<1> DEFINE n == Len(fields)
<1>1. /\ fields \in Seq(Fields) /\ written \in Seq(Tokens) /\ n \in Nat
      /\ Holds(written, fields)
      /\ n = 0 => Len(written) = 2 /\ written[2] \in Marks
      /\ n > 0 => Len(written) = 4 * n + 1
  BY DEF JsonInv, JsonDone
<1>2. j \in 1 .. Len(written) /\ written[j] = Json!Quoted(k) /\ written[j] \notin Marks
  BY TokensDiffer DEF Json!Places
<1>3. n > 0
  BY <1>1, <1>2 DEF Holds
<1>4. j \in 1 .. 4 * n + 1 /\ j # 1
  BY <1>1, <1>2, <1>3 DEF Holds
<1>5. PICK m \in 1 .. n : j \in {4 * m - 2, 4 * m - 1, 4 * m, 4 * m + 1}
  <2>1. (j + 2) \div 4 \in 1 .. n
    BY <1>1, <1>4
  <2>2. j \in {4 * ((j + 2) \div 4) - 2, 4 * ((j + 2) \div 4) - 1,
               4 * ((j + 2) \div 4), 4 * ((j + 2) \div 4) + 1}
    BY <1>4
  <2> QED BY <2>1, <2>2
<1>6. /\ written[4 * m - 2] = Json!Quoted(fields[m].key)
      /\ written[4 * m - 1] = Json!Mark("colon")
      /\ written[4 * m] = fields[m].value
      /\ written[4 * m + 1] \in Marks
  BY <1>1 DEF Holds
<1>7. j = 4 * m - 2 \/ j = 4 * m
  BY <1>2, <1>5, <1>6, TokensDiffer
<1>8. j = 4 * m - 2 => fields[m].key = k
  BY <1>2, <1>6, TokensDiffer
<1> QED BY <1>2, <1>6, <1>7, <1>8

\* A word that is no earlier key or string value is found at its own field.
LEMMA Found ==
  ASSUME JsonInv, stage = "done", NEW i \in 1 .. Len(fields),
         \A j \in 1 .. i - 1 : fields[j].key # fields[i].key
                               /\ fields[j].value # Json!Quoted(fields[i].key)
  PROVE  Json!FindKey(fields[i].key) = fields[i].value
<1> DEFINE k == fields[i].key
           here == 4 * i - 2
<1>1. /\ fields \in Seq(Fields) /\ Len(fields) \in Nat /\ Len(fields) > 0 /\ i \in Nat
      /\ Len(written) = 4 * Len(fields) + 1 /\ Holds(written, fields)
  BY DEF JsonInv, JsonDone
<1>2. /\ written[here] = Json!Quoted(k) /\ written[here + 1] = Json!Mark("colon")
      /\ written[here + 2] = fields[i].value
  <2>1. /\ written[4 * i - 2] = Json!Quoted(k) /\ written[4 * i - 1] = Json!Mark("colon")
        /\ written[4 * i] = fields[i].value
    BY <1>1 DEF Holds
  <2>2. here + 1 = 4 * i - 1 /\ here + 2 = 4 * i
    BY <1>1
  <2> QED BY <2>1, <2>2
<1>3. here \in Json!Places(k)
  <2>1. here \in 1 .. Len(written)
    BY <1>1
  <2> QED BY <1>2, <2>1 DEF Json!Places
<1>4. ASSUME NEW j \in Json!Places(k) PROVE here <= j /\ j \in Int
  <2>1. PICK m \in 1 .. Len(fields) :
          \/ j = 4 * m - 2 /\ fields[m].key = k
          \/ j = 4 * m /\ fields[m].value = Json!Quoted(k)
    BY PlacesOf
  <2>2. m \notin 1 .. i - 1
    BY <2>1
  <2>3. m \in Nat /\ m >= i
    BY <1>1, <2>1, <2>2
  <2> QED BY <1>1, <2>1, <2>3
<1>5. here \in Int
  BY <1>1
<1> HIDE DEF here, k
<1>6. (CHOOSE j \in Json!Places(k) : \A l \in Json!Places(k) : j <= l) = here
  <2> DEFINE P(j) == j \in Json!Places(k) /\ \A l \in Json!Places(k) : j <= l
  <2>1. P(here)
    BY <1>3, <1>4
  <2>2. \A j : P(j) => j = here
    BY <1>3, <1>4, <1>5
  <2>3. P(CHOOSE j : P(j))
    BY <2>1, Zenon
  <2>4. (CHOOSE j : P(j)) = here
    BY <2>2, <2>3
  <2>5. (CHOOSE j \in Json!Places(k) : \A l \in Json!Places(k) : j <= l) = CHOOSE j : P(j)
    OBVIOUS
  <2> QED BY <2>4, <2>5
<1>7. Json!FindKey(k) = written[here + 2]
  BY <1>2, <1>3, <1>6 DEF Json!FindKey
<1> QED BY <1>2, <1>7 DEF k

LEMMA NotFound ==
  ASSUME JsonInv, stage = "done", NEW k,
         \A i \in 1 .. Len(fields) : fields[i].key # k /\ fields[i].value # Json!Quoted(k)
  PROVE  Json!FindKey(k) = Json!Mark("end")
<1>1. Json!Places(k) = {}
  BY PlacesOf
<1> QED BY <1>1 DEF Json!FindKey

LEMMA ReadBack == JsonInv => Json!FieldsReadBack
<1> SUFFICES ASSUME JsonInv, stage = "done"
             PROVE  Json!FieldsReadBack
  BY DEF Json!FieldsReadBack
<1>1. ASSUME NEW i \in 1 .. Len(fields),
             \A j \in 1 .. i - 1 : fields[j].key # fields[i].key
                                   /\ fields[j].value # Json!Quoted(fields[i].key)
      PROVE  CASE fields[i].value.kind = "string" ->
                    Json!GetString(fields[i].key) = fields[i].value.word
               [] fields[i].value.kind = "int" ->
                    Json!GetInt(fields[i].key) = fields[i].value.word
               [] fields[i].value.kind = "bool" ->
                    Json!GetBool(fields[i].key) = fields[i].value.word
  <2>1. Json!FindKey(fields[i].key) = fields[i].value
    BY <1>1, Found
  <2>2. fields[i].value \in Values
    <3>1. fields \in Seq(Fields)
      BY DEF JsonInv
    <3>2. fields[i] \in Fields
      BY <3>1
    <3> QED BY <3>2 DEF Fields
  <2>3. /\ fields[i].value.kind \in {"string", "int", "bool"}
        /\ fields[i].value # Json!Mark("end")
    <3>1. \A v \in Values : v.kind \in {"string", "int", "bool"}
      BY DEF Values, Json!Quoted, Json!Whole, Json!Bool
    <3>2. Json!Mark("end").kind = "mark"
      BY DEF Json!Mark
    <3> QED BY <2>2, <3>1, <3>2
  <2> QED BY <2>1, <2>3 DEF Json!GetString, Json!GetInt, Json!GetBool
<1>2. ASSUME NEW k \in Word,
             \A i \in 1 .. Len(fields) : fields[i].key # k /\ fields[i].value # Json!Quoted(k)
      PROVE  Json!GetString(k) = None /\ Json!GetInt(k) = None /\ Json!GetBool(k) = None
  <2>1. Json!FindKey(k) = Json!Mark("end")
    BY <1>2, NotFound
  <2>2. Json!Mark("end").kind = "mark"
    BY DEF Json!Mark
  <2> QED BY <2>1, <2>2 DEF Json!GetString, Json!GetInt, Json!GetBool
<1> QED BY <1>1, <1>2 DEF Json!FieldsReadBack

\* What was added to an object is read back, and nothing else is found
\* (JsonFields!FieldsReadBack), for every number of fields and all words that
\* are not taken for an earlier field's.
THEOREM ObjectReadsBack == LibSpec => []FieldsReadBack
<1>1. LibInit => (lib = "json" => JsonInv)
  BY JsonInit DEF LibInit
<1>2. (lib = "json" => JsonInv) /\ [LibNext]_libVars => (lib = "json" => JsonInv)'
  BY LibStep, JsonStep DEF EachSteps
<1>3. (lib = "json" => JsonInv) => FieldsReadBack
  BY ReadBack DEF FieldsReadBack
<1> QED BY <1>1, <1>2, <1>3, PTL DEF LibSpec

-----------------------------------------------------------------------------
(* The reports.  As long as no piece is dropped and nothing is escaped that  *)
(* should be, the reader is inside the brackets that the handler has opened, *)
(* and behind a value exactly if first is not set.  What is left of the log  *)
(* takes at most three bytes of text for each of its own.                    *)

Readers  == [stack : Seq({"obj", "arr"}), last : {"start", "obj", "arr", "comma", "value", "wrong"}]
Builders == [pos : Nat, first : BOOLEAN, lost : BOOLEAN, text : Readers]

Clean == ~odd /\ ~jw.lost /\ (report.kind = "bare" => rows = 0)

\* The reader is inside these brackets, where the builder's first says.
Within(b, brackets) ==
  /\ b.text.stack = brackets
  /\ b.text.last = IF b.first THEN brackets[Len(brackets)] ELSE "value"

Outermost == IF report.kind \in {"object", "bare"} THEN "obj" ELSE "arr"

RepType ==
  /\ report \in Rep!Reports /\ phase \in {"new", "open", "row", "done"}
  /\ jw \in Builders /\ rows \in Nat /\ unread \in Nat /\ odd \in BOOLEAN

NewInv ==
  phase = "new" => jw.text = Rep!Nothing /\ jw.pos = 0 /\ rows = 0 /\ unread = Rep!Window
RowInv == phase = "row" => report.kind = "table" \/ (report.kind = "bare" /\ rows > 0)

TextInv ==
  Clean =>
    /\ phase = "open" => Within(jw, <<Outermost>>)
    /\ phase = "row" => Within(jw, <<"arr", "obj">>)
    /\ phase = "done" => Rep!IsJson(jw.text)

RoomInv ==
  report.kind = "lines" =>
    /\ ~jw.lost
    /\ phase = "open" =>
         jw.pos + 3 * unread <= 3 * Rep!Window + (IF unread = 0 THEN 3 ELSE 1)

RepInv == RepType /\ NewInv /\ RowInv /\ TextInv /\ RoomInv

\* The stacks of brackets that occur, opened and closed.
LEMMA Stacks ==
  /\ \A x \in {"obj", "arr"} :
       /\ <<x>> \in Seq({"obj", "arr"}) /\ <<x>> # <<>> /\ Len(<<x>>) = 1 /\ <<x>>[1] = x
       /\ Append(<<>>, x) = <<x>>
       /\ SubSeq(<<x>>, 1, 0) = <<>>
  /\ <<"arr", "obj">> # <<>> /\ Len(<<"arr", "obj">>) = 2 /\ <<"arr", "obj">>[2] = "obj"
  /\ Append(<<"arr">>, "obj") = <<"arr", "obj">>
  /\ SubSeq(<<"arr", "obj">>, 1, 1) = <<"arr">>
<1>1. ASSUME NEW x \in {"obj", "arr"}
      PROVE  /\ <<x>> \in Seq({"obj", "arr"}) /\ <<x>> # <<>> /\ Len(<<x>>) = 1 /\ <<x>>[1] = x
             /\ Append(<<>>, x) = <<x>>
  OBVIOUS
<1>2. ASSUME NEW x \in {"obj", "arr"} PROVE SubSeq(<<x>>, 1, 0) = <<>>
  BY <1>1, EmptySeq, SubSeqProperties
<1>3. <<"arr", "obj">> # <<>> /\ Len(<<"arr", "obj">>) = 2 /\ <<"arr", "obj">>[2] = "obj"
  OBVIOUS
<1> DEFINE two == <<"arr", "obj">>
<1>4. Append(<<"arr">>, "obj") = two
  <2>1. <<"arr">> \in Seq({"obj", "arr"}) /\ Len(<<"arr">>) = 1 /\ <<"arr">>[1] = "arr"
    BY <1>1
  <2>2. two \in Seq({"obj", "arr"}) /\ Len(two) = 2 /\ two[1] = "arr" /\ two[2] = "obj"
    OBVIOUS
  <2> DEFINE a == Append(<<"arr">>, "obj")
  <2>3. a \in Seq({"obj", "arr"}) /\ Len(a) = 2 /\ a[1] = "arr" /\ a[2] = "obj"
    BY <2>1, AppendProperties
  <2> HIDE DEF two, a
  <2> QED BY <2>2, <2>3, SeqEqual DEF a
<1>5. SubSeq(two, 1, 1) = <<"arr">>
  <2>1. <<"arr">> \in Seq({"obj", "arr"}) /\ Len(<<"arr">>) = 1 /\ <<"arr">>[1] = "arr"
    BY <1>1
  <2>2. two \in Seq({"obj", "arr"}) /\ Len(two) = 2 /\ two[1] = "arr"
    OBVIOUS
  <2> DEFINE a == SubSeq(two, 1, 1)
  <2>3. a \in Seq({"obj", "arr"}) /\ Len(a) = 1 /\ a[1] = "arr"
    <3> HIDE DEF two
    <3> QED BY <2>2, SubSeqProperties
  <2> HIDE DEF two, a
  <2> DEFINE one == <<"arr">>
  <2>4. one \in Seq({"obj", "arr"}) /\ Len(one) = 1 /\ one[1] = "arr"
    BY <2>1
  <2> HIDE DEF one
  <2>5. a = one
    BY <2>3, <2>4, SeqEqual
  <2> QED BY <2>5 DEF a, one
<1> QED BY <1>1, <1>2, <1>3, <1>4, <1>5

LEMMA ReadType == ASSUME NEW r \in Readers, NEW t PROVE Rep!Read(r, t) \in Readers
<1>1. r.stack \in Seq({"obj", "arr"})
  BY DEF Readers
<1>2. r.stack # <<>> => SubSeq(r.stack, 1, Len(r.stack) - 1) \in Seq({"obj", "arr"})
  BY <1>1
<1>3. t \in {"obj", "arr"} => Append(r.stack, t) \in Seq({"obj", "arr"})
  BY <1>1
<1> QED BY <1>1, <1>2, <1>3 DEF Rep!Read, Readers

\* What the reader makes of the texts that handlers write.
LEMMA ReadStart ==
  ASSUME NEW x \in {"obj", "arr"}
  PROVE  Rep!Read(Rep!Nothing, x) = [stack |-> <<x>>, last |-> x]
BY Stacks DEF Rep!Read, Rep!Nothing

LEMMA ReadField ==
  ASSUME NEW r \in Readers, r.stack \in {<<"obj">>, <<"arr", "obj">>}, r.last \in {"obj", "comma"}
  PROVE  Rep!Read(r, "field").stack = r.stack /\ Rep!Read(r, "field").last = "value"
BY Stacks DEF Rep!Read, Readers

LEMMA ReadString ==
  ASSUME NEW r \in Readers, r.stack = <<"arr">>, r.last \in {"arr", "comma"}
  PROVE  Rep!Read(r, "string").stack = r.stack /\ Rep!Read(r, "string").last = "value"
BY Stacks DEF Rep!Read, Readers

LEMMA ReadComma ==
  ASSUME NEW r \in Readers, r.stack # <<>>, r.last = "value",
         r.stack \in {<<"obj">>, <<"arr">>, <<"arr", "obj">>}
  PROVE  Rep!Read(r, "comma").stack = r.stack /\ Rep!Read(r, "comma").last = "comma"
BY Stacks DEF Rep!Read, Readers

LEMMA ReadRow ==
  ASSUME NEW r \in Readers, r.stack = <<"arr">>, r.last \in {"arr", "comma"}
  PROVE  Rep!Read(r, "obj").stack = <<"arr", "obj">> /\ Rep!Read(r, "obj").last = "obj"
BY Stacks DEF Rep!Read, Readers

LEMMA ReadEnds ==
  ASSUME NEW r \in Readers
  PROVE  /\ r.stack = <<"arr", "obj">> /\ r.last \in {"obj", "value"}
              => Rep!Read(r, "endobj").stack = <<"arr">> /\ Rep!Read(r, "endobj").last = "value"
         /\ r.stack = <<"obj">> /\ r.last \in {"obj", "value"} => Rep!IsJson(Rep!Read(r, "endobj"))
         /\ r.stack = <<"arr">> /\ r.last \in {"arr", "value"} => Rep!IsJson(Rep!Read(r, "endarr"))
<1>1. r.stack = <<"arr", "obj">> /\ r.last \in {"obj", "value"}
        => Rep!Read(r, "endobj").stack = <<"arr">> /\ Rep!Read(r, "endobj").last = "value"
  BY Stacks DEF Rep!Read
<1>2. ASSUME r.stack = <<"obj">>, r.last \in {"obj", "value"}
      PROVE  Rep!IsJson(Rep!Read(r, "endobj"))
  BY <1>2, Stacks DEF Rep!Read, Rep!IsJson
<1>3. ASSUME r.stack = <<"arr">>, r.last \in {"arr", "value"}
      PROVE  Rep!IsJson(Rep!Read(r, "endarr"))
  BY <1>3, Stacks DEF Rep!Read, Rep!IsJson
<1> QED BY <1>1, <1>2, <1>3

-----------------------------------------------------------------------------
\* Pieces of w bytes in all turned b into c.
Grows(b, c, w) ==
  /\ c \in Builders /\ c.first = b.first /\ c.text = b.text
  /\ ~c.lost => ~b.lost /\ c.pos = b.pos + w
  /\ ~b.lost /\ b.pos + w < Rep!Cap => ~c.lost

\* And they brought the reader from b.text to r.
Wrote(b, c, w, r) ==
  /\ c \in Builders
  /\ ~c.lost => ~b.lost /\ c.pos = b.pos + w /\ c.text = r
  /\ ~b.lost /\ b.pos + w < Rep!Cap => ~c.lost

LEMMA CapType == ASSUME report \in Rep!Reports PROVE Rep!Cap \in Nat
BY ReportAssumption DEF Rep!Cap, Rep!Reports, Rep!System, Rep!Cpu, Rep!Partitions, Rep!Network,
   Rep!Processes, Rep!Logs, Rep!Health, Rep!Leds, Rep!Gpio

LEMMA RawGrows ==
  ASSUME report \in Rep!Reports, NEW b \in Builders, NEW w \in Nat
  PROVE  Grows(b, Rep!Raw(b, w), w)
<1>1. Rep!Raw(b, w) = IF b.pos + w < Rep!Cap THEN [b EXCEPT !.pos = b.pos + w]
                      ELSE [b EXCEPT !.lost = TRUE]
  BY DEF Rep!Raw
<1>2. CASE b.pos + w < Rep!Cap
  BY <1>1, <1>2, CapType DEF Grows, Builders
<1>3. CASE ~(b.pos + w < Rep!Cap)
  BY <1>1, <1>3, CapType DEF Grows, Builders
<1> QED BY <1>2, <1>3

LEMMA GrowsOn ==
  ASSUME report \in Rep!Reports, NEW b \in Builders, NEW c \in Builders, NEW v \in Nat,
         NEW w \in Nat, Grows(b, c, v)
  PROVE  Grows(b, Rep!Raw(c, w), v + w)
<1>1. Grows(c, Rep!Raw(c, w), w)
  BY RawGrows
<1>2. b.pos \in Nat /\ c.pos \in Nat /\ Rep!Cap \in Nat
  BY CapType DEF Builders
<1> QED BY <1>1, <1>2 DEF Grows

LEMMA SeenWrote ==
  ASSUME NEW b \in Builders, NEW c, NEW w \in Nat \ {0}, Grows(b, c, w), NEW t
  PROVE  /\ Wrote(b, Rep!Seen(b, c, w, t), w, Rep!Read(b.text, t))
         /\ Rep!Seen(b, c, w, t).first = b.first
<1>1. Rep!Read(b.text, t) \in Readers /\ Rep!Read(b.text, "spoilt") \in Readers
  BY ReadType DEF Builders
<1> QED BY <1>1 DEF Grows, Wrote, Rep!Seen, Builders

LEMMA MarkWrote ==
  ASSUME report \in Rep!Reports, NEW b \in Builders, NEW t
  PROVE  Wrote(b, Rep!Mark(b, t), 1, Rep!Read(b.text, t)) /\ Rep!Mark(b, t).first = b.first
BY RawGrows, SeenWrote DEF Rep!Mark

LEMMA BracketsWrote ==
  ASSUME report \in Rep!Reports, NEW b \in Builders
  PROVE  /\ Wrote(b, Rep!ObjStart(b), 1, Rep!Read(b.text, "obj")) /\ Rep!ObjStart(b).first = TRUE
         /\ Wrote(b, Rep!ArrStart(b), 1, Rep!Read(b.text, "arr")) /\ Rep!ArrStart(b).first = TRUE
         /\ Wrote(b, Rep!ObjEnd(b), 1, Rep!Read(b.text, "endobj")) /\ Rep!ObjEnd(b).first = FALSE
         /\ Wrote(b, Rep!ArrEnd(b), 1, Rep!Read(b.text, "endarr")) /\ Rep!ArrEnd(b).first = FALSE
BY MarkWrote DEF Wrote, Rep!ObjStart, Rep!ArrStart, Rep!ObjEnd, Rep!ArrEnd, Builders

LEMMA CommaWrote ==
  ASSUME report \in Rep!Reports, NEW b \in Builders
  PROVE  /\ Rep!Comma(b) \in Builders /\ Rep!Comma(b).first = FALSE
         /\ b.first => Wrote(b, Rep!Comma(b), 0, b.text)
         /\ ~b.first => Wrote(b, Rep!Comma(b), 1, Rep!Read(b.text, "comma"))
<1>1. Wrote(b, Rep!Mark(b, "comma"), 1, Rep!Read(b.text, "comma"))
  BY MarkWrote
<1>2. CASE b.first
  <2>1. Rep!Comma(b) = [b EXCEPT !.first = FALSE]
    BY <1>2 DEF Rep!Comma
  <2>2. Rep!Comma(b) \in Builders /\ Rep!Comma(b).first = FALSE
    BY <2>1 DEF Builders
  <2>3. /\ Rep!Comma(b).lost = b.lost /\ Rep!Comma(b).pos = b.pos
        /\ Rep!Comma(b).text = b.text /\ b.pos \in Nat
    BY <2>1 DEF Builders
  <2> QED BY <1>2, <2>2, <2>3 DEF Wrote
<1>3. CASE ~b.first
  BY <1>1, <1>3 DEF Wrote, Rep!Comma, Builders
<1> QED BY <1>2, <1>3

LEMMA NumWrote ==
  ASSUME report \in Rep!Reports, NEW b \in Builders, NEW k \in Nat, NEW v \in Nat
  PROVE  /\ Wrote(Rep!Comma(b), Rep!KvNum(b, k, v), k + v + 3,
                  Rep!Read(Rep!Comma(b).text, "field"))
         /\ Rep!KvNum(b, k, v).first = FALSE
<1> DEFINE c  == Rep!Comma(b)
           c1 == Rep!Raw(c, 1)
           c2 == Rep!Raw(c1, k)
           c3 == Rep!Raw(c2, 2)
           d  == Rep!Raw(c3, v)
<1>1. c \in Builders /\ c.first = FALSE
  BY CommaWrote
<1>2. Grows(c, c1, 1) /\ c1 \in Builders
  BY <1>1, RawGrows DEF Grows
<1> HIDE DEF c, c1
<1>3. Grows(c, c2, 1 + k) /\ c2 \in Builders
  BY <1>1, <1>2, GrowsOn DEF Grows
<1> HIDE DEF c2
<1>4. Grows(c, c3, 1 + k + 2) /\ c3 \in Builders
  BY <1>1, <1>3, GrowsOn DEF Grows
<1> HIDE DEF c3
<1>5. Grows(c, d, 1 + k + 2 + v)
  BY <1>1, <1>4, GrowsOn
<1>6. Grows(c, d, k + v + 3)
  <2>1. 1 + k + 2 + v = k + v + 3
    OBVIOUS
  <2> QED BY <1>5, <2>1
<1>7. k + v + 3 \in Nat \ {0}
  OBVIOUS
<1> HIDE DEF d
<1>8. /\ Wrote(c, Rep!Seen(c, d, k + v + 3, "field"), k + v + 3, Rep!Read(c.text, "field"))
      /\ Rep!Seen(c, d, k + v + 3, "field").first = c.first
  BY <1>1, <1>6, <1>7, SeenWrote
<1> QED BY <1>1, <1>8 DEF Rep!KvNum, c, c1, c2, c3, d

LEMMA StrWrote ==
  ASSUME report \in Rep!Reports, NEW b \in Builders, NEW k \in Nat, NEW v \in Nat, NEW e \in BOOLEAN
  PROVE  /\ Wrote(Rep!Comma(b), Rep!KvStr(b, k, v, e), k + v + 5,
                  Rep!Read(Rep!Comma(b).text, IF e THEN "spoilt" ELSE "field"))
         /\ Rep!KvStr(b, k, v, e).first = FALSE
<1> DEFINE c  == Rep!Comma(b)
           c1 == Rep!Raw(c, 1)
           c2 == Rep!Raw(c1, k)
           c3 == Rep!Raw(c2, 3)
           c4 == Rep!Raw(c3, v)
           d  == Rep!Raw(c4, 1)
           t  == IF e THEN "spoilt" ELSE "field"
<1>1. c \in Builders /\ c.first = FALSE
  BY CommaWrote
<1>2. Grows(c, c1, 1) /\ c1 \in Builders
  BY <1>1, RawGrows DEF Grows
<1> HIDE DEF c, c1
<1>3. Grows(c, c2, 1 + k) /\ c2 \in Builders
  BY <1>1, <1>2, GrowsOn DEF Grows
<1> HIDE DEF c2
<1>4. Grows(c, c3, 1 + k + 3) /\ c3 \in Builders
  BY <1>1, <1>3, GrowsOn DEF Grows
<1> HIDE DEF c3
<1>5. Grows(c, c4, 1 + k + 3 + v) /\ c4 \in Builders
  BY <1>1, <1>4, GrowsOn DEF Grows
<1> HIDE DEF c4
<1>6. Grows(c, d, 1 + k + 3 + v + 1)
  BY <1>1, <1>5, GrowsOn
<1>7. Grows(c, d, k + v + 5)
  <2>1. 1 + k + 3 + v + 1 = k + v + 5
    OBVIOUS
  <2> QED BY <1>6, <2>1
<1>8. k + v + 5 \in Nat \ {0}
  OBVIOUS
<1> HIDE DEF d, t
<1>9. /\ Wrote(c, Rep!Seen(c, d, k + v + 5, t), k + v + 5, Rep!Read(c.text, t))
      /\ Rep!Seen(c, d, k + v + 5, t).first = c.first
  BY <1>1, <1>7, <1>8, SeenWrote
<1> QED BY <1>1, <1>9 DEF Rep!KvStr, c, c1, c2, c3, c4, d, t

LEMMA LineWrote ==
  ASSUME report \in Rep!Reports, NEW b \in Builders, NEW n \in Nat, NEW e \in Nat, NEW x \in BOOLEAN
  PROVE  /\ Wrote(b, Rep!EscapeStr(b, n, e, x), n + e + 2,
                  Rep!Read(b.text, IF x THEN "spoilt" ELSE "string"))
         /\ Rep!EscapeStr(b, n, e, x).first = b.first
<1> DEFINE d == Rep!Raw(Rep!Raw(Rep!Raw(b, 1), n + e), 1)
           t == IF x THEN "spoilt" ELSE "string"
<1>1. Grows(b, Rep!Raw(b, 1), 1) /\ Rep!Raw(b, 1) \in Builders
  BY RawGrows DEF Grows
<1>2. /\ Grows(b, Rep!Raw(Rep!Raw(b, 1), n + e), 1 + (n + e))
      /\ Rep!Raw(Rep!Raw(b, 1), n + e) \in Builders
  BY <1>1, GrowsOn DEF Grows
<1>3. Grows(b, d, 1 + (n + e) + 1)
  BY <1>2, GrowsOn
<1>4. Grows(b, d, n + e + 2)
  <2>1. 1 + (n + e) + 1 = n + e + 2
    OBVIOUS
  <2> QED BY <1>3, <2>1
<1>5. n + e + 2 \in Nat \ {0}
  OBVIOUS
<1> HIDE DEF d, t
<1>6. /\ Wrote(b, Rep!Seen(b, d, n + e + 2, t), n + e + 2, Rep!Read(b.text, t))
      /\ Rep!Seen(b, d, n + e + 2, t).first = b.first
  BY <1>4, <1>5, SeenWrote
<1> QED BY <1>6 DEF Rep!EscapeStr, d, t

-----------------------------------------------------------------------------
\* Behind the comma that goes before a field, row or line the reader expects one.
LEMMA CommaWithin ==
  ASSUME report \in Rep!Reports, NEW b \in Builders,
         NEW s \in {<<"obj">>, <<"arr">>, <<"arr", "obj">>}, Within(b, s),
         ~Rep!Comma(b).lost
  PROVE  /\ ~b.lost
         /\ Rep!Comma(b).text \in Readers /\ Rep!Comma(b).text.stack = s
         /\ Rep!Comma(b).text.last \in {s[Len(s)], "comma"}
<1>1. Rep!Comma(b).text \in Readers /\ b.text \in Readers /\ b.first \in BOOLEAN
  BY CommaWrote DEF Builders
<1>2. CASE b.first
  BY <1>1, <1>2, CommaWrote DEF Wrote, Within
<1>3. CASE ~b.first
  <2>1. ~b.lost /\ Rep!Comma(b).text = Rep!Read(b.text, "comma")
    BY <1>3, CommaWrote DEF Wrote
  <2>2. b.text.stack = s /\ b.text.last = "value" /\ s # <<>>
    BY <1>3, Stacks DEF Within
  <2> QED BY <1>1, <2>1, <2>2, ReadComma
<1> QED BY <1>1, <1>2, <1>3

LEMMA HandlerKinds ==
  ASSUME report \in Rep!Reports
  PROVE  /\ report.kind \in {"object", "table", "bare", "lines"}
         /\ report.kind = "lines" => Rep!Cap = 4 * BufSize /\ report.fields = {}
BY DEF Rep!Cap, Rep!Reports, Rep!System, Rep!Cpu, Rep!Partitions, Rep!Network,
   Rep!Processes, Rep!Logs, Rep!Health, Rep!Leds, Rep!Gpio

LEMMA RepInit == Rep!Init => RepInv
<1> SUFFICES ASSUME Rep!Init PROVE RepInv
  OBVIOUS
<1>1. Rep!Nothing \in Readers /\ Rep!Window \in Nat
  BY ReportAssumption DEF Rep!Nothing, Readers, Rep!Window
<1>2. RepType
  BY <1>1 DEF Rep!Init, RepType, Builders
<1>3. jw.text = Rep!Nothing /\ jw.pos = 0 /\ jw.lost = FALSE /\ phase = "new" /\ rows = 0
  BY DEF Rep!Init
<1> QED BY <1>2, <1>3 DEF Rep!Init, RepInv, NewInv, RowInv, TextInv, RoomInv

LEMMA RepStart == RepInv /\ Rep!Start => RepInv'
<1> SUFFICES ASSUME RepInv, Rep!Start PROVE RepInv'
  OBVIOUS
<1> USE DEF RepInv
<1>1. /\ phase = "new" /\ phase' = "open" /\ report' = report /\ rows' = rows
      /\ unread' = unread /\ odd' = odd
      /\ report \in Rep!Reports /\ jw \in Builders /\ Outermost \in {"obj", "arr"}
  BY DEF Rep!Start, RepType, Outermost
<1>2. jw.text = Rep!Nothing /\ jw.pos = 0 /\ rows = 0 /\ unread = Rep!Window
  BY <1>1 DEF NewInv
<1>3. Wrote(jw, jw', 1, Rep!Read(Rep!Nothing, Outermost)) /\ jw'.first = TRUE
  BY <1>1, <1>2, BracketsWrote DEF Rep!Start, Outermost
<1>4. RepType' /\ NewInv' /\ RowInv'
  BY <1>1, <1>3 DEF RepType, NewInv, RowInv, Wrote
<1>5. TextInv'
  <2> SUFFICES ASSUME Clean' PROVE Within(jw', <<Outermost>>)
    BY <1>1 DEF TextInv, Outermost, Within
  <2>1. jw'.text = [stack |-> <<Outermost>>, last |-> Outermost]
    BY <1>1, <1>3, ReadStart DEF Clean, Wrote
  <2> QED BY <1>1, <1>3, <2>1, Stacks DEF Within
<1>6. RoomInv'
  <2>1. ASSUME report.kind = "lines" PROVE ~jw'.lost /\ jw'.pos = 1
    <3>1. ~jw.lost /\ jw.pos + 1 < Rep!Cap
      BY <1>1, <1>2, <2>1, HandlerKinds, ReportAssumption DEF RoomInv
    <3> QED BY <1>2, <1>3, <3>1 DEF Wrote
  <2>2. 1 + 3 * unread <= 3 * Rep!Window + (IF unread = 0 THEN 3 ELSE 1)
    BY <1>2, ReportAssumption DEF Rep!Window
  <2>3. (Rep!Window)' = Rep!Window
    BY DEF Rep!Window
  <2> QED BY <1>1, <2>1, <2>2, <2>3 DEF RoomInv
<1> QED BY <1>4, <1>5, <1>6

LEMMA RepField == RepInv /\ Rep!Field => RepInv'
<1> SUFFICES ASSUME RepInv, Rep!Field PROVE RepInv'
  OBVIOUS
<1> USE DEF RepInv
<1>1. /\ phase' = phase /\ report' = report /\ rows' = rows /\ unread' = unread
      /\ report \in Rep!Reports /\ jw \in Builders /\ odd \in BOOLEAN
  BY DEF Rep!Field, RepType
<1>2. report.kind # "lines" /\ phase \in {"open", "row"}
  BY <1>1, HandlerKinds DEF Rep!Field, Rep!InObject
<1> DEFINE c == Rep!Comma(jw)
<1>3. PICK k \in Width, v \in Width :
        \/ jw' = Rep!KvNum(jw, k, v) /\ odd' = odd
        \/ \E escapes \in BOOLEAN :
             jw' = Rep!KvStr(jw, k, v, escapes) /\ odd' = (odd \/ escapes)
  BY DEF Rep!Field
<1>4. k \in Nat /\ v \in Nat
  BY ReportAssumption
<1>5. /\ jw' \in Builders /\ jw'.first = FALSE /\ odd' \in BOOLEAN
      /\ ~odd' /\ ~jw'.lost => ~odd /\ ~c.lost /\ jw'.text = Rep!Read(c.text, "field")
  <2>1. CASE jw' = Rep!KvNum(jw, k, v) /\ odd' = odd
    <3>1. Wrote(c, jw', k + v + 3, Rep!Read(c.text, "field")) /\ jw'.first = FALSE
      BY <1>1, <1>4, <2>1, NumWrote
    <3> QED BY <1>1, <2>1, <3>1 DEF Wrote
  <2>2. ASSUME NEW e \in BOOLEAN, jw' = Rep!KvStr(jw, k, v, e), odd' = (odd \/ e)
        PROVE  /\ jw' \in Builders /\ jw'.first = FALSE /\ odd' \in BOOLEAN
               /\ ~odd' /\ ~jw'.lost => ~odd /\ ~c.lost /\ jw'.text = Rep!Read(c.text, "field")
    <3>1. /\ Wrote(c, jw', k + v + 5, Rep!Read(c.text, IF e THEN "spoilt" ELSE "field"))
          /\ jw'.first = FALSE
      BY <1>1, <1>4, <2>2, StrWrote
    <3>2. odd' \in BOOLEAN /\ (~odd' => ~odd /\ ~e)
      BY <1>1, <2>2
    <3> QED BY <3>1, <3>2 DEF Wrote
  <2> QED BY <1>3, <2>1, <2>2
<1> HIDE DEF c
<1>6. RepType' /\ NewInv' /\ RowInv' /\ RoomInv'
  BY <1>1, <1>2, <1>5 DEF RepType, NewInv, RowInv, RoomInv
<1>7. TextInv'
  <2> SUFFICES ASSUME Clean'
               PROVE  /\ phase = "open" => Within(jw', <<Outermost>>)
                      /\ phase = "row" => Within(jw', <<"arr", "obj">>)
    BY <1>1, <1>2 DEF TextInv, Outermost, Within
  <2>1. /\ ~odd /\ ~c.lost /\ jw'.text = Rep!Read(c.text, "field")
        /\ report.kind = "bare" => rows = 0
    BY <1>1, <1>5 DEF Clean
  <2>2. ASSUME NEW s \in {<<"obj">>, <<"arr", "obj">>},
               ~jw.lost => Within(jw, s)
        PROVE  Within(jw', s)
    <3>1. ~jw.lost
      <4>1. CASE jw.first
        BY <1>1, <2>1, <4>1, CommaWrote DEF Wrote, c
      <4>2. CASE ~jw.first
        BY <1>1, <2>1, <4>2, CommaWrote DEF Wrote, c
      <4> QED BY <4>1, <4>2
    <3>2. /\ c.text \in Readers /\ c.text.stack = s /\ c.text.last \in {s[Len(s)], "comma"}
      BY <1>1, <2>1, <2>2, <3>1, CommaWithin DEF c
    <3>3. s[Len(s)] = "obj"
      BY Stacks
    <3>4. jw'.text.stack = s /\ jw'.text.last = "value"
      BY <2>1, <3>2, <3>3, ReadField
    <3> QED BY <1>5, <3>4 DEF Within
  <2>3. ASSUME phase = "open" PROVE Within(jw', <<Outermost>>)
    <3>1. Outermost = "obj"
      BY <2>3 DEF Rep!Field, Rep!InObject, Outermost
    <3>2. ~jw.lost => Within(jw, <<"obj">>)
      BY <2>1, <2>3, <3>1 DEF TextInv, Clean
    <3> QED BY <2>2, <3>1, <3>2
  <2>4. ASSUME phase = "row" PROVE Within(jw', <<"arr", "obj">>)
    <3>1. ~jw.lost => Within(jw, <<"arr", "obj">>)
      BY <2>1, <2>4 DEF TextInv, Clean
    <3> QED BY <2>2, <3>1
  <2> QED BY <2>3, <2>4
<1> QED BY <1>6, <1>7

LEMMA RepRowStart == RepInv /\ Rep!RowStart => RepInv'
<1> SUFFICES ASSUME RepInv, Rep!RowStart PROVE RepInv'
  OBVIOUS
<1> USE DEF RepInv
<1> DEFINE c == IF report.kind = "table" THEN Rep!Comma(jw) ELSE jw
<1>1. /\ phase = "open" /\ phase' = "row" /\ report' = report /\ rows' = rows + 1
      /\ unread' = unread /\ odd' = odd /\ report.kind \in {"table", "bare"}
      /\ report \in Rep!Reports /\ jw \in Builders /\ rows \in Nat
  BY DEF Rep!RowStart, RepType
<1>2. c \in Builders
  BY <1>1, CommaWrote
<1>3. Wrote(c, jw', 1, Rep!Read(c.text, "obj")) /\ jw'.first = TRUE
  BY <1>1, <1>2, BracketsWrote DEF Rep!RowStart
<1>4. RepType' /\ NewInv' /\ RowInv' /\ RoomInv'
  BY <1>1, <1>3 DEF RepType, NewInv, RowInv, RoomInv, Wrote
<1>5. TextInv'
  <2> SUFFICES ASSUME Clean' PROVE Within(jw', <<"arr", "obj">>)
    BY <1>1 DEF TextInv
  <2>1. report.kind = "table" /\ ~odd /\ ~c.lost /\ jw'.text = Rep!Read(c.text, "obj")
    BY <1>1, <1>3 DEF Clean, Wrote
  <2>2. c = Rep!Comma(jw)
    BY <2>1
  <2> HIDE DEF c
  <2>3. ~jw.lost
    <3>1. CASE jw.first
      BY <1>1, <2>1, <2>2, <3>1, CommaWrote DEF Wrote
    <3>2. CASE ~jw.first
      BY <1>1, <2>1, <2>2, <3>2, CommaWrote DEF Wrote
    <3> QED BY <3>1, <3>2
  <2>4. Within(jw, <<"arr">>)
    BY <1>1, <2>1, <2>3 DEF TextInv, Clean, Outermost
  <2>5. /\ c.text \in Readers /\ c.text.stack = <<"arr">>
        /\ c.text.last \in {"arr", "comma"}
    BY <1>1, <2>1, <2>2, <2>4, CommaWithin, Stacks
  <2>6. jw'.text.stack = <<"arr", "obj">> /\ jw'.text.last = "obj"
    BY <2>1, <2>5, ReadRow
  <2> QED BY <1>3, <2>6, Stacks DEF Within
<1> QED BY <1>4, <1>5

LEMMA RepRowEnd == RepInv /\ Rep!RowEnd => RepInv'
<1> SUFFICES ASSUME RepInv, Rep!RowEnd PROVE RepInv'
  OBVIOUS
<1> USE DEF RepInv
<1>1. /\ phase = "row" /\ phase' = "open" /\ report' = report /\ rows' = rows
      /\ unread' = unread /\ odd' = odd /\ report \in Rep!Reports /\ jw \in Builders
  BY DEF Rep!RowEnd, RepType
<1>2. Wrote(jw, jw', 1, Rep!Read(jw.text, "endobj")) /\ jw'.first = FALSE
  BY <1>1, BracketsWrote DEF Rep!RowEnd
<1>3. report.kind = "table" \/ (report.kind = "bare" /\ rows > 0)
  BY <1>1 DEF RowInv
<1>4. RepType' /\ NewInv' /\ RowInv' /\ RoomInv'
  BY <1>1, <1>2, <1>3 DEF RepType, NewInv, RowInv, RoomInv, Wrote
<1>5. TextInv'
  <2> SUFFICES ASSUME Clean' PROVE Within(jw', <<Outermost>>)
    BY <1>1 DEF TextInv, Outermost, Within
  <2>1. ~odd /\ ~jw.lost /\ jw'.text = Rep!Read(jw.text, "endobj") /\ report.kind = "table"
    BY <1>1, <1>2, <1>3 DEF Clean, Wrote
  <2>2. jw.text \in Readers /\ jw.text.stack = <<"arr", "obj">> /\ jw.text.last \in {"obj", "value"}
    <3>1. Within(jw, <<"arr", "obj">>)
      BY <1>1, <2>1 DEF TextInv, Clean
    <3> QED BY <1>1, <3>1, Stacks DEF Within, Builders
  <2>3. jw'.text.stack = <<"arr">> /\ jw'.text.last = "value"
    BY <2>1, <2>2, ReadEnds
  <2> QED BY <1>2, <2>1, <2>3 DEF Within, Outermost
<1> QED BY <1>4, <1>5

LEMMA RepLogLine == RepInv /\ Rep!LogLine => RepInv'
<1> SUFFICES ASSUME RepInv, Rep!LogLine PROVE RepInv'
  OBVIOUS
<1> USE DEF RepInv
<1> DEFINE c == Rep!Comma(jw)
<1>1. /\ phase = "open" /\ phase' = "open" /\ report' = report /\ rows' = rows
      /\ report.kind = "lines" /\ report \in Rep!Reports /\ jw \in Builders
      /\ odd \in BOOLEAN /\ unread \in Nat
  BY DEF Rep!LogLine, RepType
<1>2n. PICK n \in LineLength : \E k \in 0 .. n : \E y \in BOOLEAN :
        /\ n <= unread
        /\ unread' = IF n < unread THEN unread - n - 1 ELSE 0
        /\ jw' = Rep!EscapeStr(c, n, k, y)
        /\ odd' = (odd \/ y)
  BY DEF Rep!LogLine
<1>2e. PICK e \in 0 .. n : \E y \in BOOLEAN :
        /\ n <= unread
        /\ unread' = IF n < unread THEN unread - n - 1 ELSE 0
        /\ jw' = Rep!EscapeStr(c, n, e, y)
        /\ odd' = (odd \/ y)
  BY <1>2n
<1>2. PICK x \in BOOLEAN :
        /\ n <= unread
        /\ unread' = IF n < unread THEN unread - n - 1 ELSE 0
        /\ jw' = Rep!EscapeStr(c, n, e, x)
        /\ odd' = (odd \/ x)
  BY <1>2e
<1>3. n \in Nat \ {0} /\ e \in Nat /\ e <= n
  BY ReportAssumption
<1>4. c \in Builders /\ c.first = FALSE
  BY <1>1, CommaWrote
<1>5. /\ Wrote(c, jw', n + e + 2, Rep!Read(c.text, IF x THEN "spoilt" ELSE "string"))
      /\ jw'.first = FALSE
  <2> HIDE DEF c
  <2>1. jw' = Rep!EscapeStr(c, n, e, x)
    BY <1>2
  <2>2. /\ Wrote(c, Rep!EscapeStr(c, n, e, x), n + e + 2,
                Rep!Read(c.text, IF x THEN "spoilt" ELSE "string"))
        /\ Rep!EscapeStr(c, n, e, x).first = FALSE
    BY <1>1, <1>3, <1>4, LineWrote, SMTT(30)
  <2> QED BY <2>1, <2>2
<1>6. odd' \in BOOLEAN /\ (~odd' => ~odd /\ ~x)
  BY <1>1, <1>2
<1>7. unread' \in Nat
  <2>1. n <= unread /\ unread' = IF n < unread THEN unread - n - 1 ELSE 0
    BY <1>2
  <2> QED BY <1>1, <1>3, <2>1
<1>8. RepType' /\ NewInv' /\ RowInv'
  BY <1>1, <1>5, <1>6, <1>7 DEF RepType, NewInv, RowInv, Wrote
<1>9. ~jw.lost /\ jw.pos \in Nat
      /\ jw.pos + 3 * unread <= 3 * Rep!Window + (IF unread = 0 THEN 3 ELSE 1)
  BY <1>1 DEF RoomInv, Builders
<1>10. jw.pos + 3 * unread <= 3 * Rep!Window + 1 /\ Rep!Window \in Nat
  BY <1>1, <1>2, <1>3, <1>9, ReportAssumption DEF Rep!Window
<1>11. ~c.lost /\ c.pos \in Nat /\ c.pos <= jw.pos + 1
  <2>1. jw.pos + 1 < Rep!Cap /\ jw.pos + 0 < Rep!Cap
    BY <1>1, <1>2, <1>3, <1>9, <1>10, HandlerKinds, ReportAssumption DEF Rep!Window
  <2>2. \E w \in {0, 1} : \E r \in Readers : Wrote(jw, c, w, r)
    <3>1. jw.text \in Readers /\ Rep!Read(jw.text, "comma") \in Readers
      BY <1>1, ReadType DEF Builders
    <3>2. CASE jw.first
      BY <1>1, <3>1, <3>2, CommaWrote
    <3>3. CASE ~jw.first
      BY <1>1, <3>1, <3>3, CommaWrote
    <3> QED BY <3>2, <3>3
  <2> HIDE DEF c
  <2>3. PICK w \in {0, 1} : \E r \in Readers : Wrote(jw, c, w, r)
    BY <2>2
  <2>4. ~c.lost /\ c.pos = jw.pos + w
    BY <1>9, <2>1, <2>3 DEF Wrote
  <2> QED BY <1>9, <2>3, <2>4
<1> HIDE DEF c
<1>12. ~jw'.lost /\ jw'.pos = c.pos + (n + e + 2)
  <2>1. c.pos + (n + e + 2) < Rep!Cap
    BY <1>1, <1>2, <1>3, <1>9, <1>10, <1>11, HandlerKinds, ReportAssumption DEF Rep!Window
  <2> QED BY <1>5, <1>11, <2>1 DEF Wrote
<1>13. RoomInv'
  <2>1. jw'.pos + 3 * unread' <= 3 * Rep!Window + (IF unread' = 0 THEN 3 ELSE 1)
    <3>1. CASE n < unread
      BY <1>1, <1>2, <1>3, <1>9, <1>10, <1>11, <1>12, <3>1
    <3>2. CASE ~(n < unread)
      BY <1>1, <1>2, <1>3, <1>9, <1>10, <1>11, <1>12, <3>2
    <3> QED BY <3>1, <3>2
  <2> QED BY <1>1, <1>12, <2>1 DEF RoomInv, Rep!Window
<1>14. TextInv'
  <2> SUFFICES ASSUME Clean' PROVE Within(jw', <<"arr">>)
    BY <1>1 DEF TextInv, Outermost
  <2>1. ~odd /\ jw'.text = Rep!Read(c.text, "string")
    BY <1>5, <1>6, <1>12 DEF Clean, Wrote
  <2>2. Within(jw, <<"arr">>)
    BY <1>1, <1>9, <2>1 DEF TextInv, Clean, Outermost
  <2>3. c.text \in Readers /\ c.text.stack = <<"arr">> /\ c.text.last \in {"arr", "comma"}
    BY <1>1, <1>11, <2>2, CommaWithin, Stacks DEF c
  <2>4. jw'.text.stack = <<"arr">> /\ jw'.text.last = "value"
    BY <2>1, <2>3, ReadString
  <2> QED BY <1>5, <2>4 DEF Within
<1> QED BY <1>8, <1>13, <1>14

LEMMA RepEnd == RepInv /\ Rep!End => RepInv'
<1> SUFFICES ASSUME RepInv, Rep!End PROVE RepInv'
  OBVIOUS
<1> USE DEF RepInv
<1> DEFINE end == IF Outermost = "obj" THEN "endobj" ELSE "endarr"
<1>1. /\ phase = "open" /\ phase' = "done" /\ report' = report /\ rows' = rows
      /\ unread' = unread /\ odd' = odd /\ report \in Rep!Reports /\ jw \in Builders
      /\ unread \in Nat
  BY DEF Rep!End, RepType
<1>2. Wrote(jw, jw', 1, Rep!Read(jw.text, end))
  BY <1>1, BracketsWrote DEF Rep!End, Outermost
<1>3. RepType' /\ NewInv' /\ RowInv'
  BY <1>1, <1>2 DEF RepType, NewInv, RowInv, Wrote
<1>4. TextInv'
  <2> SUFFICES ASSUME Clean' PROVE Rep!IsJson(jw'.text)
    BY <1>1 DEF TextInv, Rep!IsJson
  <2>1. ~odd /\ ~jw.lost /\ jw'.text = Rep!Read(jw.text, end)
    BY <1>1, <1>2 DEF Clean, Wrote
  <2>2. Within(jw, <<Outermost>>)
    BY <1>1, <2>1 DEF TextInv, Clean
  <2>3. /\ jw.text \in Readers /\ Outermost \in {"obj", "arr"}
        /\ jw.text.stack = <<Outermost>> /\ jw.text.last \in {Outermost, "value"}
    BY <1>1, <2>2, Stacks DEF Within, Builders, Outermost
  <2>4. CASE Outermost = "obj"
    BY <2>1, <2>3, <2>4, ReadEnds
  <2>5. CASE Outermost = "arr"
    BY <2>1, <2>3, <2>5, ReadEnds
  <2> QED BY <2>3, <2>4, <2>5
<1>5. RoomInv'
  <2> SUFFICES ASSUME report.kind = "lines" PROVE ~jw'.lost
    BY <1>1 DEF RoomInv
  <2>1. ~jw.lost /\ jw.pos \in Nat /\ jw.pos <= 3 * Rep!Window + 3
    BY <1>1, ReportAssumption DEF RoomInv, Builders, Rep!Window
  <2>2. jw.pos + 1 < Rep!Cap
    BY <1>1, <2>1, HandlerKinds, ReportAssumption DEF Rep!Window
  <2> QED BY <1>2, <2>1, <2>2 DEF Wrote
<1> QED BY <1>3, <1>4, <1>5

LEMMA RepStep == RepInv /\ [Rep!Next]_(Rep!reportVars) => RepInv'
<1> SUFFICES ASSUME RepInv, [Rep!Next]_(Rep!reportVars) PROVE RepInv'
  OBVIOUS
<1>1. CASE UNCHANGED Rep!reportVars
  BY <1>1 DEF Rep!reportVars, RepInv, RepType, NewInv, RowInv, TextInv, RoomInv, Clean, Within,
     Outermost
<1> QED BY <1>1, RepStart, RepField, RepRowStart, RepRowEnd, RepLogLine, RepEnd DEF Rep!Next

\* A finished report of the web daemon is JSON if nothing was dropped or should have
\* been escaped, and nothing is ever dropped from the log (JsonReports!ReportsParse),
\* for every size of the buffers and all numbers and lengths of fields, rows and lines.
THEOREM ReportsParseAlways == LibSpec => []ReportsParse
<1>1. LibInit => (lib = "reports" => RepInv)
  BY RepInit DEF LibInit
<1>2. (lib = "reports" => RepInv) /\ [LibNext]_libVars => (lib = "reports" => RepInv)'
  BY LibStep, RepStep DEF EachSteps
<1>3. (lib = "reports" => RepInv) => ReportsParse
  <2> SUFFICES ASSUME RepInv, phase = "done", ~odd, report.kind = "bare" => rows = 0,
                      jw.lost => report.kind = "lines"
               PROVE  ~jw.lost /\ Rep!IsJson(jw.text)
    BY DEF ReportsParse, Rep!ReportsParse
  <2>1. ~jw.lost
    BY DEF RepInv, RoomInv
  <2> QED BY <2>1 DEF RepInv, TextInv, Clean
<1> QED BY <1>1, <1>2, <1>3, PTL DEF LibSpec
=============================================================================
