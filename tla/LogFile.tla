------------------------------ MODULE LogFile -------------------------------
(***************************************************************************)
(* The log file (libbb/bb_log.c:40-118, 169-174): every process appends    *)
(* whole lines, counts in current_size what it believes the file to hold,  *)
(* and cuts the file to half of max_size when its count exceeds max_size.  *)
(*                                                                         *)
(* g_log belongs to a process and its mutex makes the threads of a process *)
(* take turns, so a process is one actor here; the file belongs to all     *)
(* processes that were given its path, a restarted one included.  What the *)
(* lines say is left out; a line is its length.                            *)
(***************************************************************************)
EXTENDS Integers, FiniteSets

CONSTANTS Process,
          Max,       \* max_size
          MaxLine    \* bound: longest line (4608 bytes in the code)

\* What the theorems assume of the sizes.
SizesAssumption == Max \in Nat /\ MaxLine \in Nat

VARIABLES size,      \* bytes in the file
          open,      \* log_fd is open
          current_size,
          pc,        \* "cut": between the count and the ftruncate
          lost,      \* history: a write came back short
          died       \* history: a process died before its ftruncate

logVars == <<size, open, current_size, pc, lost, died>>

Half == Max \div 2

Init ==
  /\ size \in 0 .. Max
  /\ open = [p \in Process |-> FALSE]
  /\ current_size = [p \in Process |-> 0]
  /\ pc = [p \in Process |-> "idle"]
  /\ lost = FALSE /\ died = FALSE

\* Variant: the count starts at 0 whatever the file holds.
LogInitFromZero(p) ==
  /\ ~open[p]
  /\ open' = [open EXCEPT ![p] = TRUE]
  /\ current_size' = [current_size EXCEPT ![p] = 0]
  /\ UNCHANGED <<size, pc, lost, died>>

\* bb_log_init; a file that cannot be opened leaves log_fd at -1.
LogInit(p) ==
  /\ ~open[p]
  /\ open' = [open EXCEPT ![p] = TRUE]
  /\ current_size' = [current_size EXCEPT ![p] = size]
  /\ UNCHANGED <<size, pc, lost, died>>

\* Variant: the cut comes with every line.
CutAtOnce(c) == "cut"

\* The test of bb_log.c:103.
AfterCount(c) == IF c > Max THEN "cut" ELSE "idle"

\* bb_log_write up to the count: O_APPEND puts the line at the end; the result
\* of the write is not looked at, and on a full partition it is short.
LogWrite(p) ==
  /\ open[p] /\ pc[p] = "idle"
  /\ \E len \in 1 .. MaxLine : \E written \in 0 .. len :
       /\ size' = size + written
       /\ current_size' = [current_size EXCEPT ![p] = @ + len]
       /\ pc' = [pc EXCEPT ![p] = AfterCount(current_size[p] + len)]
       /\ lost' = (lost \/ written < len)
  /\ UNCHANGED <<open, died>>

\* The rest of it: ftruncate cuts the file, or extends it with zeros when it
\* is shorter than that by now.
LogCut(p) ==
  /\ pc[p] = "cut"
  /\ size' = Half
  /\ current_size' = [current_size EXCEPT ![p] = Half]
  /\ pc' = [pc EXCEPT ![p] = "idle"]
  /\ UNCHANGED <<open, lost, died>>

\* bb_log_close, or the end of the process between two lines.
LogClose(p) ==
  /\ open[p] /\ pc[p] = "idle"
  /\ open' = [open EXCEPT ![p] = FALSE]
  /\ UNCHANGED <<size, current_size, pc, lost, died>>

\* The process is killed between the write and the ftruncate (bound: once).
Die(p) ==
  /\ pc[p] = "cut" /\ ~died
  /\ pc' = [pc EXCEPT ![p] = "idle"]
  /\ open' = [open EXCEPT ![p] = FALSE]
  /\ died' = TRUE
  /\ UNCHANGED <<size, current_size, lost>>

Next == \E p \in Process : LogInit(p) \/ LogWrite(p) \/ LogCut(p) \/ LogClose(p) \/ Die(p)

Spec == Init /\ [][Next]_logVars

-----------------------------------------------------------------------------
TypeOK ==
  /\ size \in Nat
  /\ open \in [Process -> BOOLEAN]
  /\ current_size \in [Process -> Nat]
  /\ pc \in [Process -> {"idle", "cut"}]
  /\ lost \in BOOLEAN /\ died \in BOOLEAN

\* max_size bounds the file although every process counts for itself: with
\* nobody between a write and its cut, the file holds at most max_size per
\* process, whatever was cut by others, through restarts and full partitions;
\* a process killed in that gap leaves its last line on top.
LogBounded ==
  (\A p \in Process : pc[p] = "idle") =>
    size <= Cardinality(Process) * Max + (IF died THEN MaxLine ELSE 0)

\* As long as every write took its whole line, the cut shortens the file and
\* never fills it up with zeros (bb_log.c:104), although another process may
\* have cut it since.
CutShortens ==
  [][ \A p \in Process :
        ~lost /\ pc[p] = "cut" /\ pc'[p] = "idle" => size' <= size ]_logVars
=============================================================================
