---------------------------- MODULE CrashReport -----------------------------
(***************************************************************************)
(* Crash reports (libbb/bb_log.c:120-152): the report of a fatal line goes *)
(* to crash-<second>.log, and the link `latest` is removed and made again. *)
(* Any process may report, none waits for another, and each can be killed  *)
(* between two steps.  What a report says is left out.                     *)
(***************************************************************************)
EXTENDS Naturals

CONSTANTS Process,
          None,
          MaxSecond   \* bound: seconds of a behaviour

VARIABLES clock,   \* the current second
          pc,      \* next step of each process
          second,  \* in the name of its report
          closed,  \* seconds whose reports are on disk
          latest,  \* second `latest` points to, or None
          group,   \* history: reports since all processes were last outside
          died     \* history: a process was killed inside

crashVars == <<clock, pc, second, closed, latest, group, died>>

Outside == \A p \in Process : pc[p] = "idle"

Init ==
  /\ clock = 0
  /\ pc = [p \in Process |-> "idle"]
  /\ second = [p \in Process |-> 0]
  /\ closed = {} /\ latest = None /\ group = {} /\ died = FALSE

\* O_TRUNC empties a report of the same second.
OpenReport(p) ==
  /\ pc[p] = "idle"
  /\ second' = [second EXCEPT ![p] = clock]
  /\ closed' = closed \ {clock}
  /\ pc' = [pc EXCEPT ![p] = "write"]
  /\ group' = {clock} \union (IF Outside THEN {} ELSE group)
  /\ UNCHANGED <<clock, latest, died>>

CloseReport(p) ==
  /\ pc[p] = "write"
  /\ closed' = closed \union {second[p]}
  /\ pc' = [pc EXCEPT ![p] = "unlink"]
  /\ UNCHANGED <<clock, second, latest, group, died>>

\* Variant: the old link stays.
KeepLatest(p) ==
  /\ pc[p] = "unlink"
  /\ pc' = [pc EXCEPT ![p] = "link"]
  /\ UNCHANGED <<clock, second, closed, latest, group, died>>

UnlinkLatest(p) ==
  /\ pc[p] = "unlink"
  /\ latest' = None
  /\ pc' = [pc EXCEPT ![p] = "link"]
  /\ UNCHANGED <<clock, second, closed, group, died>>

\* symlink fails when another process has made the link first.
LinkLatest(p) ==
  /\ pc[p] = "link"
  /\ latest' = (IF latest = None THEN second[p] ELSE latest)
  /\ pc' = [pc EXCEPT ![p] = "idle"]
  /\ UNCHANGED <<clock, second, closed, group, died>>

Kill(p) ==
  /\ pc[p] # "idle"
  /\ pc' = [pc EXCEPT ![p] = "idle"]
  /\ died' = TRUE
  /\ UNCHANGED <<clock, second, closed, latest, group>>

Tick ==
  /\ clock < MaxSecond
  /\ clock' = clock + 1
  /\ UNCHANGED <<pc, second, closed, latest, group, died>>

Next ==
  \/ \E p \in Process : OpenReport(p) \/ CloseReport(p) \/ UnlinkLatest(p)
                        \/ LinkLatest(p) \/ Kill(p)
  \/ Tick

Spec == Init /\ [][Next]_crashVars

\* Once every report is written, `latest` names a finished one of the last
\* group of reports that overlapped, however their steps interleaved: an older
\* report is never taken for the latest, and the link is not lost (unless a
\* process was killed half way).
LatestIsLast ==
  Outside /\ ~died /\ group # {} => latest \in group /\ latest \in closed
=============================================================================
