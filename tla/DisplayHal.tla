----------------------------- MODULE DisplayHal -----------------------------
(***************************************************************************)
(* The display HAL (hal/bb_hal_display.c): open takes one kernel resource  *)
(* after another and gives them back from where it failed; flip queues a   *)
(* page flip and waits at most a second for an event; close gives all      *)
(* back.                                                                   *)
(*                                                                         *)
(* The kernel's part is external: it refuses a flip while one is pending,  *)
(* completes it at a vertical blank of an active display, queues one event *)
(* for each, and drops events and the resources of a descriptor when that  *)
(* is closed, but not a mapping.  Connectors, modes and pixels are left    *)
(* out.                                                                    *)
(***************************************************************************)
EXTENDS Naturals, Sequences

CONSTANTS MaxFlips   \* bound: calls of flip in a behaviour

VARIABLES pc,      \* "closed", "opening", "idle" or "wait" (in flip)
          step,    \* next step of bb_display_open
          held,    \* what the process has of the kernel
          pending, \* flips that wait for the vertical blank
          events,  \* events that can be read from the descriptor
          flips,   \* calls of flip so far, only to bound behaviours
          late     \* history: a wait ran out since the display was opened

displayVars == <<pc, step, held, pending, events, flips, late>>

\* What bb_display_open acquires, in order ("connector" and "mode" are
\* questions and settings, nothing to give back).
Steps == <<"fd", "connector", "dumb", "fb", "map", "mode">>
Acquired == {"fd", "dumb", "fb", "map"}

\* Variant: a failing modeset goes to the label below its own.
UnwindPastMap(s) ==
  CASE s \in {"connector", "dumb"} -> {"fd"}
    [] s = "fb" -> {"fd", "dumb"}
    [] s \in {"map", "mode"} -> {"fd", "dumb", "fb"}
    [] OTHER -> {}

\* What the labels of bb_display_open give back when a step fails.
Unwind(s) ==
  CASE s \in {"connector", "dumb"} -> {"fd"}
    [] s = "fb" -> {"fd", "dumb"}
    [] s = "map" -> {"fd", "dumb", "fb"}
    [] s = "mode" -> {"fd", "dumb", "fb", "map"}
    [] OTHER -> {}

\* The kernel takes back what belongs to a descriptor that is closed.
Kept(h) == IF "fd" \in h THEN h ELSE h \intersect {"map"}

Init ==
  /\ pc = "closed" /\ step = 1 /\ held = {}
  /\ pending = 0 /\ events = 0
  /\ flips = 0 /\ late = FALSE

-----------------------------------------------------------------------------
(* bb_display_open *)

Open ==
  /\ pc = "closed"
  /\ pc' = "opening" /\ step' = 1
  /\ late' = FALSE
  /\ UNCHANGED <<held, pending, events, flips>>

OpenStep ==
  /\ pc = "opening"
  /\ held' = held \union ({Steps[step]} \intersect Acquired)
  /\ IF step = Len(Steps) THEN pc' = "idle" /\ UNCHANGED step
                          ELSE step' = step + 1 /\ UNCHANGED pc
  /\ UNCHANGED <<pending, events, flips, late>>

OpenFails ==
  /\ pc = "opening"
  /\ held' = Kept(held \ Unwind(Steps[step]))
  /\ pc' = "closed"
  /\ UNCHANGED <<step, pending, events, flips, late>>

-----------------------------------------------------------------------------
(* bb_display_flip *)

\* A flip the kernel refuses becomes a DIRTYFB, and nobody waits.
Flip ==
  /\ pc = "idle" /\ flips < MaxFlips
  /\ flips' = flips + 1
  /\ \/ pending = 0 /\ pending' = 1 /\ pc' = "wait"
     \/ UNCHANGED <<pending, pc>>
  /\ UNCHANGED <<step, held, events, late>>

\* Variant: select is taken for the answer and the event stays unread.
EventUnread ==
  /\ pc = "wait" /\ events > 0
  /\ pc' = "idle"
  /\ UNCHANGED <<step, held, pending, events, flips, late>>

\* One event is read, whichever flip it is of.
EventRead ==
  /\ pc = "wait" /\ events > 0
  /\ events' = events - 1
  /\ pc' = "idle"
  /\ UNCHANGED <<step, held, pending, flips, late>>

\* One second without an event, or a signal: the call returns 0 all the same.
WaitEnds ==
  /\ pc = "wait" /\ events = 0
  /\ late' = TRUE
  /\ pc' = "idle"
  /\ UNCHANGED <<step, held, pending, events, flips>>

VerticalBlank ==
  /\ pending = 1
  /\ pending' = 0 /\ events' = events + 1
  /\ UNCHANGED <<pc, step, held, flips, late>>

\* bb_display_close: munmap, RMFB, DESTROY_DUMB, close.
Close ==
  /\ pc = "idle"
  /\ held' = Kept(held \ {"map", "fb", "dumb", "fd"})
  /\ pending' = 0 /\ events' = 0
  /\ pc' = "closed"
  /\ UNCHANGED <<step, flips, late>>

Next == Open \/ OpenStep \/ OpenFails \/ Flip \/ EventRead \/ WaitEnds
        \/ VerticalBlank \/ Close

Spec == Init /\ [][Next]_displayVars

-----------------------------------------------------------------------------
\* Wherever open fails, and after a close, the process has nothing left: a
\* second attempt (bb-display-test.c:56) starts from nothing, the mapping,
\* which the kernel would not take back, included.
ClosedHoldsNothing == pc = "closed" => held = {}

\* When flip returns, its frame is on the screen and no event is left, as long
\* as no wait ran out; after one did, every flip may return on the event of
\* the flip before it, but never more than one behind.
FlipsInStep == pc = "idle" => pending + events <= (IF late THEN 1 ELSE 0)
=============================================================================
