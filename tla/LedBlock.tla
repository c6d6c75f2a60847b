------------------------------ MODULE LedBlock ------------------------------
(***************************************************************************)
(* The LED block (blocks/bb-led/main.c) in the block framework             *)
(* (libbb/bb_block.c): the main thread polls the bus and runs the command  *)
(* handler; every "blink" command starts a thread that drives the LED until*)
(* the flag g_blink_active is cleared or its cycles are done.              *)
(*                                                                         *)
(* The flag, the parameters and the LED are shared without a lock: every   *)
(* access is a step.  A sleep in the main thread is long enough for a      *)
(* thread that is not asleep itself to get on to its next sleep, and too   *)
(* short for one that sleeps to be sure to wake (50 ms against blink       *)
(* periods of any length).  Publishing is left out.                        *)
(***************************************************************************)
EXTENDS BusClient, FiniteSets, FiniteSetsExt

CONSTANTS
  Counts,      \* counts of blink commands; 0 is "until stopped"
  CreateFails, \* can pthread_create fail
  MaxThreads   \* bound: blink threads alive at once

ASSUME CountsAssumption ==
  /\ Counts \subseteq Nat /\ IsFiniteSet(Counts)
  /\ MaxThreads \in Nat /\ CreateFails \in BOOLEAN

VARIABLES
  main,    \* main thread: next step
  cmd,     \* the command being handled
  running, \* block->running
  active, count, \* g_blink_active, g_blink_count
  led,     \* what the LED shows
  thread, cycles, \* per blink thread: next step, cycles so far
  handled, \* history: the commands handled
  late     \* history: per thread, writes to the LED since active was cleared

mainVars   == <<main, cmd, running, active, count, handled>>
threadVars == <<thread, cycles>>
vars == <<clientVars, mainVars, threadVars, led, late>>

Threads == 1 .. MaxThreads
MaxCount == Max(Counts \cup {0})

\* Commands.  "status" and payloads without a known command touch nothing here.
Blinks == {<<"blink", c>> : c \in Counts}
Writes == {<<"on">>, <<"off">>, <<"heartbeat">>} \* solid, solid or stop, heartbeat

\* What a write of the main thread leaves the LED at.
Shown(c) == c[1]

Live == {t \in Threads : thread[t] # "none"}

\* A thread that has passed a test and not yet written.
Committed(t) == thread[t] \in {"on", "off"}

-----------------------------------------------------------------------------
\* bb_block_start has connected, subscribed and opened the LED.
Init ==
  /\ ClientInit
  /\ main = "loop" /\ cmd = <<"off">> /\ running = TRUE
  /\ active = FALSE /\ count = 0 /\ led = "off"
  /\ thread = [t \in Threads |-> "none"] /\ cycles = [t \in Threads |-> 0]
  /\ handled = <<>> /\ late = [t \in Threads |-> 0]

-----------------------------------------------------------------------------
(* The framework: bb_block_main_loop and bb_bus_poll *)

\* SIGTERM.  A second one could cut a sleep short; there is only one.
Signal ==
  /\ running /\ main # "exited"
  /\ running' = FALSE
  /\ UNCHANGED <<clientVars, main, cmd, active, count, handled, threadVars, led, late>>

Loop ==
  /\ main = "loop"
  /\ main' = IF running THEN "poll" ELSE "stop"
  /\ UNCHANGED <<clientVars, cmd, running, active, count, handled, threadVars, led, late>>

Poll ==
  /\ main = "poll"
  /\ \/ Recv /\ main' = "lines"
     \/ ~Readable /\ main' = "loop" /\ UNCHANGED clientVars
  /\ UNCHANGED <<cmd, running, active, count, handled, threadVars, led, late>>

\* The lines of the buffer in turn; each command runs to its end before the
\* next line is looked at.
HandleLine ==
  /\ main = "lines"
  /\ IF ~Complete
       THEN main' = "loop" /\ UNCHANGED <<buf, cmd, handled>>
       ELSE /\ buf' = Rest
            /\ IF IsPublication
                 THEN /\ handled' = Append(handled, Payload)
                      /\ cmd' = Payload
                      /\ main' = IF Payload \in Blinks \cup Writes THEN "quiet" ELSE "lines"
                 ELSE UNCHANGED <<main, cmd, handled>>
  /\ UNCHANGED <<sent, wire, running, active, count, threadVars, led, late>>

-----------------------------------------------------------------------------
(* on_cmd *)

\* g_blink_active = 0
Quiet(at, next) ==
  /\ main = at
  /\ active' = FALSE
  /\ late' = IF active THEN [t \in Threads |-> 0] ELSE late
  /\ main' = next
  /\ UNCHANGED <<clientVars, cmd, running, count, handled, threadVars, led>>

CmdQuiet == Quiet("quiet", IF cmd \in Blinks THEN "settle" ELSE "write")

CmdWrite ==
  /\ main = "write"
  /\ led' = Shown(cmd)
  /\ main' = "lines"
  /\ UNCHANGED <<clientVars, cmd, running, active, count, handled, threadVars, late>>

\* usleep(50000), then the new parameters; a thread that sleeps through both
\* goes on with them.
CmdSettle ==
  /\ main = "settle"
  /\ \A t \in Live : ~Committed(t)
  /\ count' = cmd[2]
  /\ main' = "activate"
  /\ UNCHANGED <<clientVars, cmd, running, active, handled, threadVars, led, late>>

CmdActivate ==
  /\ main = "activate"
  /\ active' = TRUE
  /\ main' = "create"
  /\ UNCHANGED <<clientVars, cmd, running, count, handled, threadVars, led, late>>

CmdCreate ==
  /\ main = "create"
  /\ \/ \E t \in Threads \ Live :
          /\ \A u \in Threads \ Live : t <= u
          /\ thread' = [thread EXCEPT ![t] = "test"]
          /\ cycles' = [cycles EXCEPT ![t] = 0]
     \/ CreateFails /\ UNCHANGED threadVars
  /\ main' = "lines"
  /\ UNCHANGED <<clientVars, cmd, running, active, count, handled, led, late>>

-----------------------------------------------------------------------------
(* stop, called when the main loop ends *)

\* Variant: the threads are not told.
StopUntold ==
  /\ main = "stop" /\ main' = "stopSleep"
  /\ UNCHANGED <<clientVars, cmd, running, active, count, handled, threadVars, led, late>>

StopQuiet == Quiet("stop", "stopSleep")

\* usleep(100000); bb_led_off
StopOff ==
  /\ main = "stopSleep"
  /\ \A t \in Live : ~Committed(t)
  /\ led' = "off"
  /\ main' = "close"
  /\ UNCHANGED <<clientVars, cmd, running, active, count, handled, threadVars, late>>

\* Publishes "stopped", closes the bus and returns from main, which ends every
\* thread.
Exit ==
  /\ main = "close"
  /\ main' = "exited"
  /\ UNCHANGED <<clientVars, cmd, running, active, count, handled, threadVars, led, late>>

-----------------------------------------------------------------------------
(* blink_thread *)

Step(t, from, to) ==
  /\ main # "exited"
  /\ thread[t] = from
  /\ thread' = [thread EXCEPT ![t] = to]
  /\ UNCHANGED <<clientVars, mainVars>>

\* Variant: the number of cycles is not looked at.
BlinkTestFlagOnly(t) ==
  /\ Step(t, "test", IF active THEN "on" ELSE "none")
  /\ UNCHANGED <<cycles, led, late>>

\* A thread that is through publishes its cycles and is gone.
BlinkTest(t) ==
  /\ Step(t, "test", IF active /\ (count = 0 \/ cycles[t] < count) THEN "on" ELSE "none")
  /\ UNCHANGED <<cycles, led, late>>

BlinkWrite(t, from, to) ==
  /\ Step(t, from, to)
  /\ led' = from
  /\ late' = IF active THEN late ELSE [late EXCEPT ![t] = @ + 1]
  /\ UNCHANGED cycles

BlinkOn(t)  == BlinkWrite(t, "on", "onSleep")
BlinkOff(t) == BlinkWrite(t, "off", "offSleep")

\* Variant: the flag is not tested between on and off.
WakeOnUntested(t) ==
  /\ Step(t, "onSleep", "off")
  /\ UNCHANGED <<cycles, led, late>>

\* usleep(on_ms), then the flag.
WakeOn(t) ==
  /\ Step(t, "onSleep", IF active THEN "off" ELSE "none")
  /\ UNCHANGED <<cycles, led, late>>

\* usleep(off_ms), then the flag.  Cycles beyond the largest count look alike.
WakeOff(t) ==
  /\ Step(t, "offSleep", IF active THEN "test" ELSE "none")
  /\ cycles' = [cycles EXCEPT ![t] = IF active /\ @ < MaxCount THEN @ + 1 ELSE @]
  /\ UNCHANGED <<led, late>>

-----------------------------------------------------------------------------
Main == \/ Loop \/ Poll \/ HandleLine
        \/ CmdQuiet \/ CmdWrite \/ CmdSettle \/ CmdActivate \/ CmdCreate
        \/ StopQuiet \/ StopOff \/ Exit

Blink(t) == \/ BlinkTest(t) \/ BlinkOn(t) \/ BlinkOff(t)
            \/ WakeOn(t) \/ WakeOff(t)

Daemon == /\ main # "exited"
          /\ Send
          /\ UNCHANGED <<mainVars, threadVars, led, late>>

Next == Daemon \/ Signal \/ Main \/ \E t \in Threads : Blink(t)

Spec == Init /\ [][Next]_vars

\* Every thread runs.  Nobody has to send commands or signals.
FairSpec == Spec /\ WF_vars(Main) /\ \A t \in Threads : WF_vars(Blink(t))

-----------------------------------------------------------------------------
(* Properties *)

TypeOK ==
  /\ ClientTypeOK
  /\ main \in {"loop", "poll", "lines", "quiet", "write", "settle", "activate",
               "create", "stop", "stopSleep", "close", "exited"}
  /\ running \in BOOLEAN /\ active \in BOOLEAN /\ count \in Counts \cup {0}
  /\ led \in {"on", "off", "heartbeat"}
  /\ thread \in [Threads -> {"none", "test", "on", "onSleep", "off", "offSleep"}]
  /\ cycles \in [Threads -> 0 .. MaxCount]

\* However lines are cut up on their way, commands are handled in the order
\* they were sent, none twice and none left out.
CommandsInOrder ==
  /\ Len(handled) <= Len(sent)
  /\ \A i \in DOMAIN handled : handled[i] = sent[i]

\* When the process is gone the LED is off, whatever blink threads were doing
\* when it was told to stop.
ExitsDark == main = "exited" => led = "off"

\* A blink thread does not notice at once that blinking is over, but it touches
\* the LED at most once more: it may undo a command, not keep undoing it.
OneLateWrite == ~active => \A t \in Live : late[t] <= 1

\* Every blink thread ends, old ones that a new command has revived included,
\* unless the last blink command asked for blinking without end.
BlinkEnds ==
  \A t \in Threads :
    thread[t] # "none" ~> (thread[t] = "none" \/ (active /\ count = 0) \/ main = "exited")

\* Every command is handled unless the block is told to stop or a line that the
\* buffer cannot hold came before it: that one makes the block deaf for good.
EveryCommandHandled ==
  \A n \in 1 .. MaxSent :
    (n <= Len(sent) /\ \A i \in 1 .. Len(sent) : i <= n => sent[i] \in Short)
      ~> (Len(handled) >= n \/ ~running)
=============================================================================
