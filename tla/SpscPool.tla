------------------------------ MODULE SpscPool ------------------------------
(***************************************************************************)
(* The lock-free single-producer single-consumer operations of a frame     *)
(* pool (libbb/bb_pool.c:67-105), one action per atomic memory access.     *)
(*                                                                         *)
(* The producer and the consumer are two threads.  write_idx and read_idx  *)
(* are C ints that only ever grow; a frame lives at its index modulo the   *)
(* number of frames and carries a reference count that is 0 when free.     *)
(***************************************************************************)
EXTENDS Integers, Sequences

CONSTANTS Count,       \* p->count, frames in the pool
          Value,       \* contents a frame can have
          None,        \* "no frame", for the mapping to FrameFifo
          IntMax,      \* largest value of an int
          MaxCommits   \* bound: commits in a behaviour

ASSUME CountAssumption  == Count \in Nat \ {0}
ASSUME ValueAssumption  == None \notin Value
ASSUME BoundsAssumption == IntMax \in Nat /\ MaxCommits \in Nat

VARIABLES write_idx, read_idx, \* atomic ints of the pool
          refcount, data,      \* refcount and contents of every frame
          commits,             \* commits so far, only to bound behaviours
          ppc, pw, pr,         \* producer: next step, its locals w and r
          cpc, cw, cr          \* consumer: next step, its locals w and r

producerVars == <<ppc, pw, pr>>
consumerVars == <<cpc, cw, cr>>
vars == <<write_idx, read_idx, refcount, data, commits,
          producerVars, consumerVars>>

Frames == 0 .. Count - 1

-----------------------------------------------------------------------------
(* C arithmetic: two's complement addition and subtraction (what            *)
(* atomic_fetch_add is defined to do and what the compilers do for w - r),  *)
(* and a remainder that takes the sign of the dividend.                     *)

Wrap(x) == IF x > IntMax THEN x - 2 * (IntMax + 1)
           ELSE IF x < -IntMax - 1 THEN x + 2 * (IntMax + 1) ELSE x

CRem(a, n) == IF a >= 0 THEN a % n ELSE -((-a) % n)

Slot(i) == CRem(i, Count)

\* The tests of bb_pool_sp_acquire (:73, :79) and bb_pool_sp_dequeue (:93).

\* Variant: one frame of the ring is always left empty.
FullOneEarly(w, r) == Wrap(w - r) >= Count - 1

Full(w, r) == Wrap(w - r) >= Count

\* Variant: the index window alone decides, the reference is not looked at.
AlwaysClaimable(i) == TRUE

Claimable(i) == refcount[i] = 0

\* Variants: the last frame counts as absent; a frame not committed yet counts
\* as present.
EmptyOneEarly(r, w) == r >= w - 1
EmptyOneLate(r, w)  == r > w

Empty(r, w) == r >= w

-----------------------------------------------------------------------------
Init ==
  /\ write_idx = 0 /\ read_idx = 0
  /\ refcount = [i \in Frames |-> 0]
  /\ data \in [Frames -> Value]        \* malloc: any contents
  /\ commits = 0
  /\ ppc = "idle" /\ pw = 0 /\ pr = 0
  /\ cpc = "idle" /\ cw = 0 /\ cr = 0

(* bb_pool_sp_acquire *)

AcquireLoadW ==
  /\ ppc = "idle"
  /\ commits < MaxCommits
  /\ pw' = write_idx
  /\ ppc' = "loadR"
  /\ UNCHANGED <<write_idx, read_idx, refcount, data, commits, pr, consumerVars>>

\* Loads read_idx and returns NULL when the pool looks full.
AcquireLoadR ==
  /\ ppc = "loadR"
  /\ pr' = read_idx
  /\ ppc' = IF Full(pw, read_idx) THEN "idle" ELSE "cas"
  /\ UNCHANGED <<write_idx, read_idx, refcount, data, commits, pw, consumerVars>>

\* Claims the frame at write_idx unless its reader has not released it yet.
\* A slot outside the array is memory the pool does not own: the exchange
\* succeeds or fails there, and nothing is known of a thread that won it.
AcquireCas ==
  /\ ppc = "cas"
  /\ \/ /\ Slot(pw) \in Frames /\ Claimable(Slot(pw))
        /\ refcount' = [refcount EXCEPT ![Slot(pw)] = 1]
        /\ ppc' = "fill"
     \/ /\ Slot(pw) \in Frames /\ ~Claimable(Slot(pw))
        /\ ppc' = "idle"
        /\ UNCHANGED refcount
     \/ /\ Slot(pw) \notin Frames
        /\ ppc' \in {"idle", "wild"}
        /\ UNCHANGED refcount
  /\ UNCHANGED <<write_idx, read_idx, data, commits, pw, pr, consumerVars>>

\* The caller writes f->data while it owns the frame.
WriteData ==
  /\ ppc = "fill"
  /\ \E v \in Value : data' = [data EXCEPT ![Slot(pw)] = v]
  /\ UNCHANGED <<write_idx, read_idx, refcount, commits, producerVars, consumerVars>>

SpCommit ==
  /\ ppc = "fill"
  /\ write_idx' = Wrap(write_idx + 1)
  /\ commits' = commits + 1
  /\ ppc' = "idle"
  /\ UNCHANGED <<read_idx, refcount, data, pw, pr, consumerVars>>

\* The producer releases instead of committing (a failed capture read).
ReleaseUnused ==
  /\ ppc = "fill"
  /\ refcount' = [refcount EXCEPT ![Slot(pw)] = 0]
  /\ ppc' = "idle"
  /\ UNCHANGED <<write_idx, read_idx, data, commits, pw, pr, consumerVars>>

-----------------------------------------------------------------------------
(* bb_pool_sp_dequeue and bb_pool_sp_release *)

DequeueLoadW ==
  /\ cpc = "idle"
  /\ cw' = write_idx
  /\ cpc' = "loadR"
  /\ UNCHANGED <<write_idx, read_idx, refcount, data, commits, cr, producerVars>>

DequeueLoadR ==
  /\ cpc = "loadR"
  /\ cr' = read_idx
  /\ cpc' = IF Empty(read_idx, cw) THEN "idle" ELSE "check"
  /\ UNCHANGED <<write_idx, read_idx, refcount, data, commits, cw, producerVars>>

\* The frame at read_idx must carry a reference.
DequeueCheck ==
  /\ cpc = "check"
  /\ cpc' = IF refcount[Slot(cr)] < 1 THEN "idle" ELSE "advance"
  /\ UNCHANGED <<write_idx, read_idx, refcount, data, commits, cw, cr, producerVars>>

DequeueAdvance ==
  /\ cpc = "advance"
  /\ read_idx' = Wrap(read_idx + 1)
  /\ cpc' = "hold"
  /\ UNCHANGED <<write_idx, refcount, data, commits, cw, cr, producerVars>>

SpRelease ==
  /\ cpc = "hold"
  /\ refcount' = [refcount EXCEPT ![Slot(cr)] = 0]
  /\ cpc' = "idle"
  /\ UNCHANGED <<write_idx, read_idx, data, commits, cw, cr, producerVars>>

-----------------------------------------------------------------------------
Producer == AcquireLoadW \/ AcquireLoadR \/ AcquireCas
            \/ WriteData \/ SpCommit \/ ReleaseUnused
Consumer == DequeueLoadW \/ DequeueLoadR \/ DequeueCheck
            \/ DequeueAdvance \/ SpRelease
Next == Producer \/ Consumer

Spec == Init /\ [][Next]_vars

\* Both threads loop over these calls (bb_audio_stream.c:52, :112), so neither
\* stops between two instructions; whether the producer commits or gives up is
\* its caller's choice.
FairSpec == /\ Spec
            /\ WF_vars(AcquireLoadW \/ AcquireLoadR \/ AcquireCas)
            /\ WF_vars(SpCommit \/ ReleaseUnused)
            /\ WF_vars(Consumer)

-----------------------------------------------------------------------------
(* Properties *)

TypeOK ==
  /\ write_idx \in Int /\ read_idx \in Int /\ commits \in 0 .. MaxCommits
  /\ refcount \in [Frames -> 0 .. 1]
  /\ data \in [Frames -> Value]
  /\ ppc \in {"idle", "loadR", "cas", "fill", "wild"} /\ pw \in Int /\ pr \in Int
  /\ cpc \in {"idle", "loadR", "check", "advance", "hold"} /\ cw \in Int /\ cr \in Int

\* A frame is never in the hands of both threads, nor filled while it is
\* queued: the frame being filled is outside the committed window, and so is
\* the one being read (the purpose of the compare-exchange at bb_pool.c:79).
Exclusive ==
  LET Window == {Slot(k) : k \in read_idx .. write_idx - 1}
  IN /\ ppc = "fill" => Slot(pw) \notin Window
     /\ cpc = "hold" => Slot(cr) \notin Window
     /\ (ppc = "fill" /\ cpc = "hold") => Slot(pw) # Slot(cr)

\* A committed frame carries its reference until it is dequeued, so the
\* "refcount < 1" exit of bb_pool_sp_dequeue (bb_pool.c:97) never discards a
\* call that had a frame to return.
CommittedIsReferenced ==
  \A k \in read_idx .. write_idx - 1 : refcount[Slot(k)] = 1

\* bb_pool_sp_acquire refuses only when every frame is in use at that moment,
\* although it decides from two loads and an exchange made at different times:
\* a capture period is never dropped while a frame is free.
RefusedOnlyWhenFull ==
  [][ (ppc \in {"loadR", "cas"} /\ ppc' = "idle") =>
        \A i \in Frames : refcount[i] = 1 ]_vars

\* The pool is a bounded FIFO: every step is a step of FrameFifo or a stutter
\* under this mapping.  No frame is lost, duplicated or reordered.
Queue   == [k \in 1 .. write_idx - read_idx |-> data[Slot(read_idx + k - 1)]]
Filling == IF ppc = "fill" THEN data[Slot(pw)] ELSE None
Held    == IF cpc = "hold" THEN data[Slot(cr)] ELSE None

Fifo == INSTANCE FrameFifo WITH queue <- Queue, filling <- Filling, held <- Held

ImplementsFifo == Fifo!FifoSpec

\* Every committed frame is eventually dequeued.
CommittedIsDequeued ==
  \A k \in 0 .. MaxCommits - 1 : (write_idx > k) ~> (read_idx > k)

\* The edge of the int indices (reached after 2^31 commits): once a commit
\* has wrapped write_idx and the consumer is between two calls, it never gets
\* a frame again (r >= w at bb_pool.c:93): what is in the pool is stranded.
StrandedAfterWrap ==
  [](write_idx < 0 /\ cpc = "idle" => [](cpc # "hold"))
=============================================================================
