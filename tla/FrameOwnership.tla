--------------------------- MODULE FrameOwnership ---------------------------
(***************************************************************************)
(* What the MPSC half of a frame pool promises (libbb/bb_pool.h, "multi    *)
(* producer, single consumer"): every frame has one owner at a time.       *)
(* A producer takes a free frame, fills it and queues it; the consumer     *)
(* takes a queued frame, reads it and frees it.  A dequeue always comes    *)
(* back with a frame.  There is no promise about the order in which queued *)
(* frames are taken: bb_pool_mp_dequeue takes the lowest-numbered one.     *)
(***************************************************************************)
EXTENDS Naturals

CONSTANTS Frames, Producers, Consumer, Free, Queued

VARIABLE owner   \* Free, Queued, Consumer, or the producer filling the frame

OwnInit == owner = [f \in Frames |-> Free]

Take(p) == \E f \in Frames :
             /\ \A g \in Frames : owner[g] # p
             /\ owner[f] = Free
             /\ owner' = [owner EXCEPT ![f] = p]

Put(p) == \E f \in Frames :
            owner[f] = p /\ owner' = [owner EXCEPT ![f] = Queued]

Get == \E f \in Frames :
         /\ \A g \in Frames : owner[g] # Consumer
         /\ owner[f] = Queued
         /\ owner' = [owner EXCEPT ![f] = Consumer]

GiveBack == \E f \in Frames :
              owner[f] = Consumer /\ owner' = [owner EXCEPT ![f] = Free]

OwnNext == (\E p \in Producers : Take(p) \/ Put(p)) \/ Get \/ GiveBack

OwnSpec == OwnInit /\ [][OwnNext]_owner
=============================================================================
