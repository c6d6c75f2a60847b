------------------------------ MODULE MpscPool ------------------------------
(***************************************************************************)
(* The multi-producer single-consumer operations of a frame pool           *)
(* (libbb/bb_pool.c:107-150): producers claim a free frame by scanning the *)
(* array with a compare-exchange, and hand it over by raising its          *)
(* reference count to 2 and then counting it in mp_pending under the mutex;*)
(* the consumer sleeps on the condition variable while nothing is pending  *)
(* and scans for a frame with two references under the same mutex.         *)
(*                                                                         *)
(* One action per atomic access, and per mutex operation.  The reference   *)
(* counts are changed outside the mutex: a scan can find a frame whose     *)
(* producer has not counted it yet.                                        *)
(***************************************************************************)
EXTENDS Integers, FiniteSets

CONSTANTS Count,       \* p->count, frames in the pool
          Producers,   \* threads that enqueue
          Consumer,    \* the thread that dequeues
          Nobody,      \* owner of an unlocked mutex
          Free, Queued,\* for the mapping to FrameOwnership
          MaxEnqueues  \* bound: frames claimed in a behaviour

ASSUME CountAssumption    == Count \in Nat \ {0}
ASSUME ProducerAssumption == /\ IsFiniteSet(Producers)
                             /\ Consumer \notin Producers
                             /\ Nobody \notin Producers \cup {Consumer}
ASSUME OwnerAssumption    == /\ Free \notin Producers \cup {Consumer, Queued}
                             /\ Queued \notin Producers \cup {Consumer}
ASSUME BoundAssumption    == MaxEnqueues \in Nat

VARIABLES refcount,  \* reference count of every frame
          mp_pending,
          mutex,     \* who holds p->mp_mutex
          ppc, pi,   \* per producer: next step, frame being tried or filled
          cpc, ci,   \* consumer: next step, frame being looked at or held
          claims     \* frames claimed so far, only to bound behaviours

vars == <<refcount, mp_pending, mutex, ppc, pi, cpc, ci, claims>>

Frames == 0 .. Count - 1

-----------------------------------------------------------------------------
(* The tests of the two scans (:113, :135), and what an enqueue does to the *)
(* count and to the sleeping consumer (:123, :124).                         *)

Claimable(f) == refcount[f] = 0

\* Variant: a frame that is still being filled is taken for a queued one.
TakeableWhileFilled(f) == refcount[f] >= 1

Takeable(f) == refcount[f] >= 2

Counted == mp_pending + 1

\* Variant: the signal is left out.
NotSignalled == cpc

Signalled == IF cpc = "wait" THEN "woken" ELSE cpc

-----------------------------------------------------------------------------
Init ==
  /\ refcount = [f \in Frames |-> 0]
  /\ mp_pending = 0
  /\ mutex = Nobody
  /\ ppc = [p \in Producers |-> "idle"] /\ pi = [p \in Producers |-> 0]
  /\ cpc = "idle" /\ ci = 0
  /\ claims = 0

(* bb_pool_mp_acquire *)

AcquireStart(p) ==
  /\ ppc[p] = "idle"
  /\ claims < MaxEnqueues
  /\ ppc' = [ppc EXCEPT ![p] = "scan"]
  /\ pi' = [pi EXCEPT ![p] = 0]
  /\ UNCHANGED <<refcount, mp_pending, mutex, cpc, ci, claims>>

\* The exchange wins frame pi, moves on to the next, or gives up (NULL).
AcquireTry(p) ==
  /\ ppc[p] = "scan"
  /\ \/ /\ Claimable(pi[p])
        /\ refcount' = [refcount EXCEPT ![pi[p]] = 1]
        /\ ppc' = [ppc EXCEPT ![p] = "fill"]
        /\ claims' = claims + 1
        /\ UNCHANGED pi
     \/ /\ ~Claimable(pi[p])
        /\ pi[p] + 1 < Count
        /\ pi' = [pi EXCEPT ![p] = @ + 1]
        /\ UNCHANGED <<refcount, ppc, claims>>
     \/ /\ ~Claimable(pi[p])
        /\ pi[p] + 1 = Count
        /\ ppc' = [ppc EXCEPT ![p] = "idle"]
        /\ UNCHANGED <<refcount, pi, claims>>
  /\ UNCHANGED <<mp_pending, mutex, cpc, ci>>

(* bb_pool_mp_enqueue *)

\* The reference is raised before the mutex is taken.
EnqueueRef(p) ==
  /\ ppc[p] = "fill"
  /\ refcount' = [refcount EXCEPT ![pi[p]] = @ + 1]
  /\ ppc' = [ppc EXCEPT ![p] = "lock"]
  /\ UNCHANGED <<mp_pending, mutex, pi, cpc, ci, claims>>

EnqueueLock(p) ==
  /\ ppc[p] = "lock"
  /\ mutex = Nobody
  /\ mutex' = p
  /\ ppc' = [ppc EXCEPT ![p] = "signal"]
  /\ UNCHANGED <<refcount, mp_pending, pi, cpc, ci, claims>>

\* Counts the frame and wakes the consumer if it sleeps.
EnqueueSignal(p) ==
  /\ ppc[p] = "signal"
  /\ mp_pending' = Counted
  /\ cpc' = Signalled
  /\ ppc' = [ppc EXCEPT ![p] = "unlock"]
  /\ UNCHANGED <<refcount, mutex, pi, ci, claims>>

EnqueueUnlock(p) ==
  /\ ppc[p] = "unlock"
  /\ mutex' = Nobody
  /\ ppc' = [ppc EXCEPT ![p] = "idle"]
  /\ UNCHANGED <<refcount, mp_pending, pi, cpc, ci, claims>>

-----------------------------------------------------------------------------
(* bb_pool_mp_dequeue *)

\* Variant: an "if" in place of the "while" around pthread_cond_wait.
DequeueLockTestsOnce ==
  /\ cpc \in {"idle", "woken"}
  /\ mutex = Nobody
  /\ mutex' = Consumer
  /\ cpc' = IF cpc = "woken" THEN "scan" ELSE "test"
  /\ ci' = 0
  /\ UNCHANGED <<refcount, mp_pending, ppc, pi, claims>>

\* Takes the mutex: at the call, or on the way out of pthread_cond_wait.
DequeueLock ==
  /\ cpc \in {"idle", "woken"}
  /\ mutex = Nobody
  /\ mutex' = Consumer
  /\ cpc' = "test"
  /\ UNCHANGED <<refcount, mp_pending, ppc, pi, ci, claims>>

DequeueWait ==
  /\ cpc = "test"
  /\ mp_pending = 0
  /\ mutex' = Nobody
  /\ cpc' = "wait"
  /\ UNCHANGED <<refcount, mp_pending, ppc, pi, ci, claims>>

\* POSIX lets pthread_cond_wait return without a signal.
SpuriousWakeup ==
  /\ cpc = "wait"
  /\ cpc' = "woken"
  /\ UNCHANGED <<refcount, mp_pending, mutex, ppc, pi, ci, claims>>

DequeueScanStart ==
  /\ cpc = "test"
  /\ mp_pending # 0
  /\ ci' = 0
  /\ cpc' = "scan"
  /\ UNCHANGED <<refcount, mp_pending, mutex, ppc, pi, claims>>

\* Looks at one frame: moves on, or returns with the mutex released.  Past the
\* last frame the call returns NULL ("idle" again without a frame).
DequeueScan ==
  /\ cpc = "scan"
  /\ IF ~Takeable(ci) /\ ci + 1 < Count
       THEN ci' = ci + 1 /\ UNCHANGED <<mp_pending, mutex, cpc>>
       ELSE /\ mp_pending' = mp_pending - 1
            /\ mutex' = Nobody
            /\ cpc' = IF Takeable(ci) THEN "hold" ELSE "idle"
            /\ UNCHANGED ci
  /\ UNCHANGED <<refcount, ppc, pi, claims>>

(* bb_pool_mp_release *)

MpRelease ==
  /\ cpc = "hold"
  /\ refcount' = [refcount EXCEPT ![ci] = 0]
  /\ cpc' = "idle"
  /\ UNCHANGED <<mp_pending, mutex, ppc, pi, ci, claims>>

-----------------------------------------------------------------------------
ProducerStep(p) == AcquireStart(p) \/ AcquireTry(p) \/ EnqueueRef(p)
                   \/ EnqueueLock(p) \/ EnqueueSignal(p) \/ EnqueueUnlock(p)

ConsumerStep == DequeueLock \/ DequeueWait \/ DequeueScanStart \/ DequeueScan
                \/ MpRelease

Next == (\E p \in Producers : ProducerStep(p)) \/ ConsumerStep \/ SpuriousWakeup

Spec == Init /\ [][Next]_vars

\* Threads keep running and the consumer loops (bb_audio_stream.c:181); a
\* wakeup without a signal may never come.
FairSpec == /\ Spec
            /\ \A p \in Producers : WF_vars(ProducerStep(p))
            /\ WF_vars(ConsumerStep)

-----------------------------------------------------------------------------
(* Properties *)

TypeOK ==
  /\ refcount \in [Frames -> 0 .. 2]
  /\ mp_pending \in Nat
  /\ mutex \in Producers \cup {Consumer, Nobody}
  /\ ppc \in [Producers -> {"idle", "scan", "fill", "lock", "signal", "unlock"}]
  /\ pi \in [Producers -> Frames]
  /\ cpc \in {"idle", "test", "wait", "woken", "scan", "hold"}
  /\ ci \in Frames
  /\ claims \in Nat

\* Frames with two references that the consumer has not taken, and producers
\* that have raised a reference but not yet counted it.
Ready   == {f \in Frames : refcount[f] >= 2 /\ ~(cpc = "hold" /\ f = ci)}
Counting == {p \in Producers : ppc[p] \in {"lock", "signal"}}

\* mp_pending lags the reference counts by exactly the producers between
\* bb_pool.c:121 and :123, although consumer and producers update the two at
\* different times: it never promises a frame that is not there.
PendingMatchesFrames == Cardinality(Ready) = mp_pending + Cardinality(Counting)

\* A frame being filled has one producer and is neither queued nor held.
Exclusive ==
  \A p \in Producers :
    ppc[p] = "fill" =>
      /\ refcount[pi[p]] = 1
      /\ cpc = "hold" => ci # pi[p]
      /\ \A q \in Producers \ {p} : ppc[q] = "fill" => pi[q] # pi[p]

\* A dequeue that has seen mp_pending # 0 finds a frame: the NULL return at
\* bb_pool.c:142-144 is never taken, although references change during the
\* scan.
DequeueNeverNull ==
  [][ (cpc = "scan" /\ cpc' # "scan") => cpc' = "hold" ]_vars

\* Every frame has one owner at a time and goes round the cycle free, filled,
\* queued, read; a dequeue comes back only with a queued frame.
Owner ==
  [f \in Frames |->
     IF refcount[f] = 0 THEN Free
     ELSE IF refcount[f] = 1
       THEN CHOOSE p \in Producers : ppc[p] = "fill" /\ pi[p] = f
     ELSE IF cpc = "hold" /\ ci = f THEN Consumer ELSE Queued]

Ownership == INSTANCE FrameOwnership WITH owner <- Owner

ImplementsOwnership == Ownership!OwnSpec

\* No wakeup is lost: whatever is counted, the consumer gets to hold a frame.
PendingIsServed == (mp_pending > 0) ~> (cpc = "hold")
=============================================================================
