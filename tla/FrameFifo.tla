------------------------------ MODULE FrameFifo ------------------------------
(***************************************************************************)
(* What the SPSC half of a frame pool promises its two callers             *)
(* (libbb/bb_pool.h, "single producer, single consumer"): a bounded FIFO   *)
(* of frames.  The producer fills one frame at a time and hands it over or *)
(* gives it back; the consumer reads one frame at a time and gives it      *)
(* back.  The frames being filled, queued and read never exceed Count, and *)
(* nobody writes to a frame that is queued or being read.                  *)
(*                                                                         *)
(* Nothing here says how: no indices, no reference counts, no atomics.     *)
(***************************************************************************)
EXTENDS Naturals, Sequences

CONSTANTS Count,   \* frames in the pool
          Value,   \* contents a frame can have
          None     \* "no frame"

VARIABLES queue,    \* contents of the committed frames, oldest first
          filling,  \* contents of the producer's frame, or None
          held      \* contents of the consumer's frame, or None

fifoVars == <<queue, filling, held>>

InUse == Len(queue) + (IF filling = None THEN 0 ELSE 1)
                    + (IF held = None THEN 0 ELSE 1)

FifoInit == queue = <<>> /\ filling = None /\ held = None

\* A fresh frame still carries whatever was last written to it.
Acquire == /\ filling = None
           /\ InUse < Count
           /\ filling' \in Value
           /\ UNCHANGED <<queue, held>>

Fill == /\ filling # None
        /\ filling' \in Value
        /\ UNCHANGED <<queue, held>>

Commit == /\ filling # None
          /\ queue' = Append(queue, filling)
          /\ filling' = None
          /\ UNCHANGED held

Abandon == /\ filling # None
           /\ filling' = None
           /\ UNCHANGED <<queue, held>>

Take == /\ held = None
        /\ queue # <<>>
        /\ held' = Head(queue)
        /\ queue' = Tail(queue)
        /\ UNCHANGED filling

GiveBack == /\ held # None
            /\ held' = None
            /\ UNCHANGED <<queue, filling>>

FifoNext == Acquire \/ Fill \/ Commit \/ Abandon \/ Take \/ GiveBack

FifoSpec == FifoInit /\ [][FifoNext]_fifoVars
=============================================================================
