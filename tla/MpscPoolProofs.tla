--------------------------- MODULE MpscPoolProofs ---------------------------
(***************************************************************************)
(* Proofs about MpscPool for every number of frames and producers.         *)
(*                                                                         *)
(* The heart is a balance: frames with two references that the consumer    *)
(* has not taken = mp_pending + producers that have raised a reference but *)
(* not yet counted it.  While the consumer scans, at least mp_pending of   *)
(* those frames are still ahead of it, so the scan ends on one.            *)
(***************************************************************************)
EXTENDS MpscPool, FiniteSetTheorems, TLAPS

MutexInv ==
  /\ mutex = Consumer <=> cpc \in {"test", "scan"}
  /\ \A p \in Producers : mutex = p <=> ppc[p] \in {"signal", "unlock"}

\* References: 1 is one producer's, 2 is queued or held.
RefInv ==
  /\ \A p \in Producers : ppc[p] = "fill" => refcount[pi[p]] = 1
  /\ \A p, q \in Producers :
       ppc[p] = "fill" /\ ppc[q] = "fill" /\ pi[p] = pi[q] => p = q
  /\ \A f \in Frames :
       refcount[f] = 1 => \E p \in Producers : ppc[p] = "fill" /\ pi[p] = f
  /\ cpc = "hold" => refcount[ci] = 2

Ahead == {f \in Ready : f >= ci}

ScanInv ==
  cpc = "scan" => mp_pending >= 1 /\ Cardinality(Ahead) >= mp_pending

IInv == TypeOK /\ MutexInv /\ RefInv /\ PendingMatchesFrames /\ ScanInv

-----------------------------------------------------------------------------
CountsAreFinite ==
  /\ IsFiniteSet(Ready) /\ IsFiniteSet(Ahead) /\ IsFiniteSet(Counting)
  /\ Cardinality(Ready) \in Nat
  /\ Cardinality(Ahead) \in Nat
  /\ Cardinality(Counting) \in Nat

LEMMA Finite == CountsAreFinite
<1>1. IsFiniteSet(Frames)
  BY CountAssumption, FS_Interval DEF Frames
<1>2. Ready \in SUBSET Frames /\ Ahead \in SUBSET Frames
      /\ Counting \in SUBSET Producers
  BY DEF Ready, Ahead, Counting
<1>3. IsFiniteSet(Ready) /\ IsFiniteSet(Ahead) /\ IsFiniteSet(Counting)
  BY <1>1, <1>2, FS_Subset, ProducerAssumption
<1> QED BY <1>3, FS_CardinalityType DEF CountsAreFinite

LEMMA FiniteNext == CountsAreFinite'
BY Finite, PTL

LEMMA FiniteSetsOfState ==
  /\ IsFiniteSet(Ready) /\ IsFiniteSet(Ahead) /\ IsFiniteSet(Counting)
  /\ Cardinality(Ready) \in Nat
  /\ Cardinality(Ahead) \in Nat
  /\ Cardinality(Counting) \in Nat
BY Finite DEF CountsAreFinite

\* The same facts about the next state.
LEMMA FiniteSetsOfNextState ==
  /\ IsFiniteSet(Ready') /\ IsFiniteSet(Ahead') /\ IsFiniteSet(Counting')
  /\ Cardinality(Ready') \in Nat
  /\ Cardinality(Ahead') \in Nat
  /\ Cardinality(Counting') \in Nat
BY FiniteNext DEF CountsAreFinite

\* A scan that has looked at every frame but one finds it there.
LEMMA ScanFinds ==
  ASSUME IInv, cpc = "scan", ~(~Takeable(ci) /\ ci + 1 < Count)
  PROVE  refcount[ci] = 2 /\ ci \in Ready
<1> USE DEF IInv
<1>1. refcount[ci] >= 2
  <2> SUFFICES ASSUME refcount[ci] < 2 PROVE FALSE
    BY DEF TypeOK
  <2>1. ci = Count - 1
    BY CountAssumption DEF TypeOK, Frames, Takeable
  <2>2. \A f \in Frames : f >= ci => f = ci
    BY <2>1, CountAssumption DEF Frames
  <2>3. Ahead = {}
    BY <2>2 DEF Ahead, Ready, TypeOK
  <2>4. Cardinality(Ahead) = 0
    BY <2>3, FS_EmptySet
  <2> QED BY <2>4 DEF ScanInv, TypeOK
<1> QED BY <1>1 DEF TypeOK, Ready

-----------------------------------------------------------------------------
LEMMA InitIInv == Init => IInv
<1> SUFFICES ASSUME Init PROVE IInv
  OBVIOUS
<1> USE CountAssumption, ProducerAssumption
<1>1. TypeOK /\ MutexInv /\ ScanInv
  BY DEF Init, TypeOK, MutexInv, ScanInv, Frames
<1>2. RefInv
  BY DEF Init, RefInv
<1>3. Ready = {} /\ Counting = {}
  BY DEF Init, Ready, Counting
<1>4. PendingMatchesFrames
  BY <1>3, FS_EmptySet DEF Init, PendingMatchesFrames
<1> QED BY <1>1, <1>2, <1>4 DEF IInv

\* Steps that change neither a reference nor who has counted what.
LEMMA BalanceKept ==
  ASSUME IInv, Ready' = Ready, Counting' = Counting, mp_pending' = mp_pending
  PROVE  PendingMatchesFrames'
BY DEF IInv, PendingMatchesFrames

LEMMA ProducerStepInv ==
  ASSUME IInv, NEW p \in Producers, ProducerStep(p)
  PROVE  IInv'
<1> USE DEF IInv
<1> USE CountAssumption, ProducerAssumption
<1>1. CASE AcquireStart(p)
  <2>1. TypeOK' /\ MutexInv' /\ RefInv'
    BY <1>1 DEF AcquireStart, TypeOK, MutexInv, RefInv, Frames
  <2>2. Ready' = Ready /\ Counting' = Counting /\ Ahead' = Ahead
    BY <1>1 DEF AcquireStart, Ready, Counting, Ahead, TypeOK
  <2>3. PendingMatchesFrames' /\ ScanInv'
    BY <1>1, <2>2, BalanceKept DEF AcquireStart, ScanInv
  <2> QED BY <2>1, <2>3
<1>2. CASE AcquireTry(p)
  <2>1. TypeOK' /\ MutexInv'
    <3>1. pi[p] \in Frames /\ (pi[p] + 1 < Count => pi[p] + 1 \in Frames)
      BY DEF TypeOK, Frames
    <3>2. refcount' \in [Frames -> 0 .. 2] /\ pi' \in [Producers -> Frames]
          /\ claims' \in Nat
      BY <1>2, <3>1 DEF AcquireTry, Claimable, TypeOK
    <3>3. ppc' \in [Producers ->
                     {"idle", "scan", "fill", "lock", "signal", "unlock"}]
      BY <1>2 DEF AcquireTry, Claimable, TypeOK
    <3>4. UNCHANGED <<mp_pending, mutex, cpc, ci>>
      BY <1>2 DEF AcquireTry, Claimable
    <3>5. \A q \in Producers :
            ppc'[q] \in {"signal", "unlock"} <=> ppc[q] \in {"signal", "unlock"}
      BY <1>2 DEF AcquireTry, Claimable, TypeOK
    <3> QED BY <3>2, <3>3, <3>4, <3>5 DEF TypeOK, MutexInv
  <2>2. RefInv'
    BY <1>2 DEF AcquireTry, Claimable, TypeOK, RefInv
  <2>3. Ready' = Ready /\ Counting' = Counting /\ Ahead' = Ahead
    BY <1>2 DEF AcquireTry, Claimable, Ready, Counting, Ahead, TypeOK
  <2>4. PendingMatchesFrames' /\ ScanInv'
    BY <1>2, <2>3, BalanceKept DEF AcquireTry, Claimable, ScanInv
  <2> QED BY <2>1, <2>2, <2>4
<1>3. CASE EnqueueRef(p)
  <2>1. refcount[pi[p]] = 1 /\ pi[p] \in Frames /\ ~(cpc = "hold" /\ ci = pi[p])
    BY <1>3 DEF EnqueueRef, RefInv, TypeOK
  <2>2. TypeOK' /\ MutexInv'
    BY <1>3, <2>1 DEF EnqueueRef, TypeOK, MutexInv
  <2>3. RefInv'
    BY <1>3, <2>1 DEF EnqueueRef, RefInv, TypeOK
  <2>4. Ready' = Ready \cup {pi[p]} /\ pi[p] \notin Ready
    BY <1>3, <2>1 DEF EnqueueRef, Ready, TypeOK
  <2>5. Counting' = Counting \cup {p} /\ p \notin Counting
    BY <1>3 DEF EnqueueRef, Counting, TypeOK
  <2>6. /\ Cardinality(Ready') = Cardinality(Ready) + 1
        /\ Cardinality(Counting') = Cardinality(Counting) + 1
    BY <2>4, <2>5, FS_AddElement, FiniteSetsOfState
  <2>7. PendingMatchesFrames'
    BY <1>3, <2>6, FiniteSetsOfState DEF EnqueueRef, PendingMatchesFrames, TypeOK
  <2>8. ScanInv'
    <3>1. Ahead \in SUBSET Ahead'
      BY <1>3, <2>4 DEF EnqueueRef, Ahead
    <3>2. Cardinality(Ahead) <= Cardinality(Ahead')
      BY <3>1, FiniteSetsOfNextState, FS_Subset
    <3> QED BY <1>3, <3>2, FiniteSetsOfState, FiniteSetsOfNextState
            DEF EnqueueRef, ScanInv, TypeOK
  <2> QED BY <2>2, <2>3, <2>7, <2>8
<1>4. CASE EnqueueLock(p)
  <2>1. TypeOK' /\ MutexInv' /\ RefInv'
    BY <1>4 DEF EnqueueLock, TypeOK, MutexInv, RefInv
  <2>2. Ready' = Ready /\ Counting' = Counting /\ Ahead' = Ahead
    BY <1>4 DEF EnqueueLock, Ready, Counting, Ahead, TypeOK
  <2>3. PendingMatchesFrames' /\ ScanInv'
    BY <1>4, <2>2, BalanceKept DEF EnqueueLock, ScanInv
  <2> QED BY <2>1, <2>3
<1>5. CASE EnqueueSignal(p)
  <2>1. TypeOK' /\ MutexInv' /\ RefInv'
    BY <1>5 DEF EnqueueSignal, Counted, Signalled, TypeOK, MutexInv, RefInv
  <2>2. Ready' = Ready
    BY <1>5 DEF EnqueueSignal, Counted, Signalled, Ready
  <2>3. Counting' = Counting \ {p} /\ p \in Counting
    BY <1>5 DEF EnqueueSignal, Counted, Signalled, Counting, TypeOK
  <2>4. Cardinality(Counting') = Cardinality(Counting) - 1
    BY <2>3, FS_RemoveElement, FiniteSetsOfState
  <2>5. PendingMatchesFrames'
    BY <1>5, <2>2, <2>4, FiniteSetsOfState
       DEF EnqueueSignal, Counted, Signalled, PendingMatchesFrames, TypeOK
  <2>6. ScanInv'
    BY <1>5 DEF EnqueueSignal, Counted, Signalled, ScanInv, MutexInv, TypeOK
  <2> QED BY <2>1, <2>5, <2>6
<1>6. CASE EnqueueUnlock(p)
  <2>1. TypeOK' /\ MutexInv' /\ RefInv'
    BY <1>6 DEF EnqueueUnlock, TypeOK, MutexInv, RefInv
  <2>2. Ready' = Ready /\ Counting' = Counting /\ Ahead' = Ahead
    BY <1>6 DEF EnqueueUnlock, Ready, Counting, Ahead, TypeOK
  <2>3. PendingMatchesFrames' /\ ScanInv'
    BY <1>6, <2>2, BalanceKept DEF EnqueueUnlock, ScanInv
  <2> QED BY <2>1, <2>3
<1> QED BY <1>1, <1>2, <1>3, <1>4, <1>5, <1>6 DEF ProducerStep

LEMMA ConsumerStepInv ==
  ASSUME IInv, ConsumerStep \/ SpuriousWakeup
  PROVE  IInv'
<1> USE DEF IInv
<1> USE CountAssumption, ProducerAssumption
<1>1. CASE DequeueLock \/ DequeueWait \/ SpuriousWakeup
  <2>1. TypeOK' /\ MutexInv' /\ RefInv' /\ ScanInv'
    BY <1>1 DEF DequeueLock, DequeueWait, SpuriousWakeup, TypeOK, MutexInv, RefInv,
       ScanInv
  <2>2. Ready' = Ready /\ Counting' = Counting /\ mp_pending' = mp_pending
    BY <1>1 DEF DequeueLock, DequeueWait, SpuriousWakeup, Ready, Counting
  <2> QED BY <2>1, <2>2, BalanceKept
<1>2. CASE DequeueScanStart
  <2>1. TypeOK' /\ MutexInv' /\ RefInv'
    BY <1>2 DEF DequeueScanStart, TypeOK, MutexInv, RefInv, Frames
  <2>2. Ready' = Ready /\ Counting' = Counting /\ mp_pending' = mp_pending
    BY <1>2 DEF DequeueScanStart, Ready, Counting
  <2>3. Ahead' = Ready
    BY <1>2, <2>2 DEF DequeueScanStart, Ahead, Ready, Frames
  <2>4. ScanInv'
    BY <1>2, <2>2, <2>3, FiniteSetsOfState
       DEF DequeueScanStart, ScanInv, TypeOK, PendingMatchesFrames
  <2> QED BY <2>1, <2>2, <2>4, BalanceKept
<1>3. CASE DequeueScan /\ ~Takeable(ci) /\ ci + 1 < Count
  <2>1. ci' = ci + 1 /\ UNCHANGED <<mp_pending, mutex, cpc, refcount, ppc, pi, claims>>
        /\ cpc = "scan"
    BY <1>3 DEF DequeueScan, Takeable
  <2>2. TypeOK' /\ MutexInv' /\ RefInv'
    BY <1>3, <2>1 DEF TypeOK, MutexInv, RefInv, Frames
  <2>3. Ready' = Ready /\ Counting' = Counting
    BY <2>1 DEF Ready, Counting
  <2>4. Ahead' = Ahead
    BY <1>3, <2>1, <2>3 DEF Takeable, Ahead, Ready, Frames, TypeOK
  <2>5. ScanInv'
    BY <2>1, <2>4 DEF ScanInv
  <2> QED BY <2>1, <2>2, <2>3, <2>5, BalanceKept
<1>4. CASE DequeueScan /\ ~(~Takeable(ci) /\ ci + 1 < Count)
  <2>1. cpc = "scan" /\ refcount[ci] = 2 /\ ci \in Ready /\ mp_pending >= 1
    BY <1>4, ScanFinds DEF DequeueScan, Takeable, ScanInv
  <2>2. /\ mp_pending' = mp_pending - 1 /\ mutex' = Nobody /\ cpc' = "hold"
        /\ UNCHANGED <<ci, refcount, ppc, pi, claims>>
    BY <1>4, <2>1 DEF DequeueScan, Takeable
  <2>3. TypeOK' /\ MutexInv' /\ ScanInv'
    BY <2>1, <2>2 DEF TypeOK, MutexInv, ScanInv
  <2>4. RefInv'
    BY <2>1, <2>2 DEF RefInv
  <2>5. Ready' = Ready \ {ci} /\ Counting' = Counting
    BY <2>1, <2>2 DEF Ready, Counting
  <2>6. Cardinality(Ready') = Cardinality(Ready) - 1
    BY <2>1, <2>5, FS_RemoveElement, FiniteSetsOfState
  <2>7. PendingMatchesFrames'
    BY <2>2, <2>5, <2>6, FiniteSetsOfState DEF PendingMatchesFrames, TypeOK
  <2> QED BY <2>3, <2>4, <2>7
<1>5. CASE MpRelease
  <2>1. cpc = "hold" /\ refcount[ci] = 2 /\ ci \in Frames
    BY <1>5 DEF MpRelease, RefInv, TypeOK
  <2>2. TypeOK' /\ MutexInv' /\ ScanInv'
    BY <1>5, <2>1 DEF MpRelease, TypeOK, MutexInv, ScanInv
  <2>3. RefInv'
    BY <1>5, <2>1 DEF MpRelease, RefInv, TypeOK
  <2>4. Ready' = Ready /\ Counting' = Counting /\ mp_pending' = mp_pending
    BY <1>5, <2>1 DEF MpRelease, Ready, Counting, TypeOK
  <2> QED BY <2>2, <2>3, <2>4, BalanceKept
<1> QED BY <1>1, <1>2, <1>3, <1>4, <1>5 DEF ConsumerStep

LEMMA StutterInv == IInv /\ UNCHANGED vars => IInv'
<1> SUFFICES ASSUME IInv, UNCHANGED vars PROVE IInv'
  OBVIOUS
<1>1. Ready' = Ready /\ Counting' = Counting /\ Ahead' = Ahead
  BY DEF vars, Ready, Counting, Ahead
<1> QED BY <1>1 DEF vars, IInv, TypeOK, MutexInv, RefInv, PendingMatchesFrames, ScanInv

\* The inductive invariant holds of every behaviour.
THEOREM InductiveInvariant == Spec => []IInv
<1>1. Init => IInv
  BY InitIInv
<1>2. IInv /\ [Next]_vars => IInv'
  BY ProducerStepInv, ConsumerStepInv, StutterInv DEF Next
<1> QED BY <1>1, <1>2, PTL DEF Spec

\* The variables keep their types (MpscPool!TypeOK); in particular no
\* reference count leaves 0..2 and mp_pending never goes negative.
THEOREM TypeCorrect == Spec => []TypeOK
<1>1. IInv => TypeOK
  BY DEF IInv
<1> QED BY <1>1, InductiveInvariant, PTL

\* mp_pending counts exactly the frames on offer
\* (MpscPool!PendingMatchesFrames), for any number of producers and frames.
THEOREM PendingExact == Spec => []PendingMatchesFrames
<1>1. IInv => PendingMatchesFrames
  BY DEF IInv
<1> QED BY <1>1, InductiveInvariant, PTL

\* A frame being filled belongs to one producer only (MpscPool!Exclusive).
THEOREM ExclusiveOwnership == Spec => []Exclusive
<1>1. IInv => Exclusive
  BY DEF IInv, RefInv, Exclusive
<1> QED BY <1>1, InductiveInvariant, PTL

LEMMA ScanStepHolds ==
  IInv /\ [Next]_vars => [ (cpc = "scan" /\ cpc' # "scan") => cpc' = "hold" ]_vars
<1> SUFFICES ASSUME IInv, Next, cpc = "scan", cpc' # "scan" PROVE cpc' = "hold"
  BY DEF vars
<1>1. CASE \E p \in Producers : ProducerStep(p)
  BY <1>1 DEF ProducerStep, AcquireStart, AcquireTry, Claimable, EnqueueRef, EnqueueLock,
     EnqueueSignal, Counted, Signalled, EnqueueUnlock
<1>2. CASE DequeueScan
  BY <1>2, ScanFinds DEF DequeueScan, Takeable
<1>3. CASE DequeueLock \/ DequeueWait \/ DequeueScanStart \/ MpRelease \/ SpuriousWakeup
  BY <1>3 DEF DequeueLock, DequeueWait, DequeueScanStart, MpRelease, SpuriousWakeup
<1> QED BY <1>1, <1>2, <1>3 DEF Next, ConsumerStep

\* A dequeue that saw something pending returns a frame
\* (MpscPool!DequeueNeverNull): the fallback at bb_pool.c:142-144 is dead code.
THEOREM NeverNull == Spec => DequeueNeverNull
<1>1. IInv /\ [Next]_vars =>
        [ (cpc = "scan" /\ cpc' # "scan") => cpc' = "hold" ]_vars
  BY ScanStepHolds
<1> QED BY <1>1, InductiveInvariant, PTL DEF Spec, DequeueNeverNull

-----------------------------------------------------------------------------
(* No lost wakeup.  While the consumer sleeps unsignalled nothing is counted: *)
(* it went to sleep on a count of zero with the mutex in its hands, and the   *)
(* step that counts a frame is the one that signals.                          *)

SleepInv == cpc = "wait" => mp_pending = 0

LEMMA SleepStep == IInv /\ SleepInv /\ [Next]_vars => SleepInv'
<1> SUFFICES ASSUME IInv, SleepInv, [Next]_vars PROVE SleepInv'
  OBVIOUS
<1>1. CASE \E p \in Producers : ProducerStep(p)
  <2>1. PICK p \in Producers : ProducerStep(p)
    BY <1>1
  <2>2. CASE EnqueueSignal(p)
    BY <2>2 DEF EnqueueSignal, Signalled, SleepInv
  <2>3. CASE AcquireStart(p) \/ AcquireTry(p) \/ EnqueueRef(p) \/ EnqueueLock(p)
             \/ EnqueueUnlock(p)
    BY <2>3 DEF AcquireStart, AcquireTry, EnqueueRef, EnqueueLock, EnqueueUnlock, SleepInv
  <2> QED BY <2>1, <2>2, <2>3 DEF ProducerStep
<1>2. CASE DequeueWait
  BY <1>2 DEF DequeueWait, SleepInv
<1>3. CASE DequeueLock \/ DequeueScanStart \/ DequeueScan \/ MpRelease \/ SpuriousWakeup
  BY <1>3 DEF DequeueLock, DequeueScanStart, DequeueScan, MpRelease, SpuriousWakeup, SleepInv
<1>4. CASE UNCHANGED vars
  BY <1>4 DEF vars, SleepInv
<1> QED BY <1>1, <1>2, <1>3, <1>4 DEF Next, ConsumerStep

\* A consumer that sleeps unsignalled while a frame is queued is about to be
\* signalled: every queued frame has a producer of its own between raising the
\* reference (bb_pool.c:121) and pthread_cond_signal (:124), none of them counted.
\* This is what keeps PendingIsServed from failing by a lost wakeup.
NoLostWakeup ==
  cpc = "wait" => mp_pending = 0 /\ Cardinality(Ready) = Cardinality(Counting)

THEOREM SleepsOnlyBeforeSignal == Spec => []NoLostWakeup
<1>1. Init => SleepInv
  BY DEF Init, SleepInv
<1>2. IInv /\ SleepInv => NoLostWakeup
  BY FiniteSetsOfState DEF IInv, PendingMatchesFrames, SleepInv, NoLostWakeup
<1> QED BY <1>1, <1>2, SleepStep, InductiveInvariant, PTL DEF Spec

-----------------------------------------------------------------------------
(* Refinement: MpscPool implements FrameOwnership *)

\* Owner without the CHOOSE.
OwnerTable ==
  /\ DOMAIN Owner = Frames
  /\ \A f \in Frames :
       /\ refcount[f] = 0 => Owner[f] = Free
       /\ refcount[f] = 1 =>
            Owner[f] \in Producers /\ ppc[Owner[f]] = "fill" /\ pi[Owner[f]] = f
       /\ refcount[f] = 2 =>
            Owner[f] = IF cpc = "hold" /\ ci = f THEN Consumer ELSE Queued
  /\ \A p \in Producers : ppc[p] = "fill" => Owner[pi[p]] = p

LEMMA OwnerIs == IInv => OwnerTable
<1> SUFFICES ASSUME IInv PROVE OwnerTable
  OBVIOUS
<1>1. DOMAIN Owner = Frames
  BY DEF Owner
<1>2. ASSUME NEW f \in Frames, refcount[f] = 1
      PROVE  Owner[f] \in Producers /\ ppc[Owner[f]] = "fill" /\ pi[Owner[f]] = f
  <2>1. \E p \in Producers : ppc[p] = "fill" /\ pi[p] = f
    BY <1>2 DEF IInv, RefInv
  <2>2. Owner[f] = CHOOSE p \in Producers : ppc[p] = "fill" /\ pi[p] = f
    BY <1>2 DEF Owner
  <2> QED BY <2>1, <2>2
<1>3. ASSUME NEW f \in Frames
      PROVE  /\ refcount[f] = 0 => Owner[f] = Free
             /\ refcount[f] = 2 =>
                  Owner[f] = IF cpc = "hold" /\ ci = f THEN Consumer ELSE Queued
  BY <1>3 DEF Owner
<1>4. ASSUME NEW p \in Producers, ppc[p] = "fill"
      PROVE  Owner[pi[p]] = p
  <2>1. pi[p] \in Frames /\ refcount[pi[p]] = 1
    BY <1>4 DEF IInv, TypeOK, RefInv
  <2>2. /\ Owner[pi[p]] \in Producers /\ ppc[Owner[pi[p]]] = "fill"
        /\ pi[Owner[pi[p]]] = pi[p]
    BY <1>2, <2>1
  <2> QED BY <1>4, <2>2 DEF IInv, RefInv
<1> QED BY <1>1, <1>2, <1>3, <1>4 DEF OwnerTable

LEMMA OwnerIsNext == IInv' => OwnerTable'
BY OwnerIs, PTL

\* Two tables with the same frames are equal when they agree on each.
LEMMA OwnerEqual ==
  ASSUME \A f \in Frames : Owner'[f] = Owner[f]
  PROVE  Owner' = Owner
<1>1. Owner = [f \in Frames |-> Owner[f]]
  BY DEF Owner
<1>2. Owner' = [f \in Frames |-> Owner'[f]]
  BY DEF Owner, Frames
<1> QED BY <1>1, <1>2

LEMMA OwnerExcept ==
  ASSUME NEW f \in Frames, NEW o, Owner'[f] = o,
         \A g \in Frames \ {f} : Owner'[g] = Owner[g]
  PROVE  Owner' = [Owner EXCEPT ![f] = o]
<1>1. Owner = [g \in Frames |-> Owner[g]]
  BY DEF Owner
<1>2. Owner' = [g \in Frames |-> Owner'[g]]
  BY DEF Owner, Frames
<1> QED BY <1>1, <1>2

\* A frame whose reference count does not change keeps its owner, when no
\* fill starts or ends on it and the consumer neither takes nor frees it.
LEMMA OwnerKept ==
  ASSUME IInv, IInv', NEW f \in Frames, refcount'[f] = refcount[f],
         \A p \in Producers : ppc[p] = "fill" /\ pi[p] = f
                               => ppc'[p] = "fill" /\ pi'[p] = f,
         (cpc' = "hold" /\ ci' = f) <=> (cpc = "hold" /\ ci = f)
  PROVE  Owner'[f] = Owner[f]
<1>1. OwnerTable /\ OwnerTable'
  BY OwnerIs, OwnerIsNext
<1>f. f \in Frames'
  BY DEF Frames
<1>2. refcount[f] \in 0 .. 2
  BY DEF IInv, TypeOK
<1>3. CASE refcount[f] = 0
  BY <1>1, <1>3, <1>f DEF OwnerTable
<1>4. CASE refcount[f] = 1
  <2>1. /\ Owner[f] \in Producers /\ ppc[Owner[f]] = "fill" /\ pi[Owner[f]] = f
    BY <1>1, <1>4 DEF OwnerTable
  <2>2. ppc'[Owner[f]] = "fill" /\ pi'[Owner[f]] = f
    BY <2>1
  <2>3. \A p \in Producers : ppc'[p] = "fill" => Owner'[pi'[p]] = p
    BY <1>1 DEF OwnerTable
  <2> QED BY <2>1, <2>2, <2>3
<1>5. CASE refcount[f] = 2
  BY <1>1, <1>5, <1>f DEF OwnerTable
<1> QED BY <1>2, <1>3, <1>4, <1>5

LEMMA StepRefines ==
  IInv /\ IInv' /\ [Next]_vars => [Ownership!OwnNext]_Owner
<1> SUFFICES ASSUME IInv, IInv', [Next]_vars PROVE [Ownership!OwnNext]_Owner
  OBVIOUS
<1>t. OwnerTable /\ OwnerTable'
  BY OwnerIs, OwnerIsNext
<1>i. TypeOK /\ RefInv
  BY DEF IInv
<1>1. CASE \/ UNCHANGED vars \/ SpuriousWakeup
           \/ DequeueLock \/ DequeueWait \/ DequeueScanStart
  <2>1. /\ UNCHANGED <<refcount, ppc, pi>>
        /\ cpc' = "hold" <=> cpc = "hold"
        /\ cpc = "hold" => ci' = ci
    BY <1>1 DEF vars, SpuriousWakeup, DequeueLock, DequeueWait, DequeueScanStart
  <2> QED BY <2>1, OwnerKept, OwnerEqual
<1>2. CASE DequeueScan
  <2>1. CASE ~Takeable(ci) /\ ci + 1 < Count
    <3>1. UNCHANGED <<refcount, ppc, pi>> /\ cpc' # "hold" /\ cpc # "hold"
      BY <1>2, <2>1 DEF DequeueScan, Takeable
    <3> QED BY <3>1, OwnerKept, OwnerEqual
  <2>2. CASE ~(~Takeable(ci) /\ ci + 1 < Count)
    <3>1. cpc = "scan" /\ refcount[ci] = 2 /\ ci \in Frames
      BY <1>2, <2>2, <1>i, ScanFinds DEF DequeueScan, Takeable, TypeOK
    <3>2. cpc' = "hold" /\ UNCHANGED <<refcount, ppc, pi, ci>>
      BY <1>2, <2>2, <3>1 DEF DequeueScan, Takeable
    <3>3. Owner[ci] = Queued
      BY <1>t, <3>1 DEF OwnerTable
    <3>4. Owner'[ci] = Consumer
      BY <1>t, <3>1, <3>2 DEF OwnerTable, Frames
    <3>5. \A g \in Frames \ {ci} : Owner'[g] = Owner[g]
      BY <3>1, <3>2, OwnerKept
    <3>6. Owner' = [Owner EXCEPT ![ci] = Consumer]
      BY <3>1, <3>4, <3>5, OwnerExcept
    <3>7. \A g \in Frames : Owner[g] # Consumer
      BY <1>t, <1>i, <3>1, ProducerAssumption, OwnerAssumption
         DEF OwnerTable, TypeOK
    <3> QED BY <3>1, <3>3, <3>6, <3>7 DEF Ownership!OwnNext, Ownership!Get
  <2> QED BY <2>1, <2>2
<1>3. CASE MpRelease
  <2>1. /\ cpc = "hold" /\ refcount[ci] = 2 /\ ci \in Frames /\ cpc' = "idle"
        /\ refcount' = [refcount EXCEPT ![ci] = 0] /\ UNCHANGED <<ppc, pi, ci>>
    BY <1>3, <1>i DEF MpRelease, RefInv, TypeOK
  <2>2. Owner[ci] = Consumer
    BY <1>t, <2>1 DEF OwnerTable
  <2>3. refcount'[ci] = 0
    BY <1>i, <2>1 DEF TypeOK
  <2>4. Owner'[ci] = Free
    BY <1>t, <2>1, <2>3 DEF OwnerTable, Frames
  <2>5. \A g \in Frames \ {ci} : Owner'[g] = Owner[g]
    <3> SUFFICES ASSUME NEW g \in Frames \ {ci} PROVE Owner'[g] = Owner[g]
      OBVIOUS
    <3>1. refcount'[g] = refcount[g]
      BY <1>i, <2>1 DEF TypeOK
    <3> QED BY <2>1, <3>1, OwnerKept
  <2>6. Owner' = [Owner EXCEPT ![ci] = Free]
    BY <2>1, <2>4, <2>5, OwnerExcept
  <2> QED BY <2>1, <2>2, <2>6 DEF Ownership!OwnNext, Ownership!GiveBack
<1>4. ASSUME NEW p \in Producers, ProducerStep(p)
      PROVE  [Ownership!OwnNext]_Owner
  <2>p. pi[p] \in Frames
    BY <1>i DEF TypeOK
  <2>1. CASE \/ AcquireStart(p) \/ EnqueueLock(p) \/ EnqueueSignal(p)
             \/ EnqueueUnlock(p) \/ (AcquireTry(p) /\ ppc'[p] # "fill")
    <3>1. /\ UNCHANGED <<refcount, ci>>
          /\ cpc' = "hold" <=> cpc = "hold"
          /\ \A q \in Producers : ppc[q] = "fill" => ppc'[q] = "fill" /\ pi'[q] = pi[q]
      BY <2>1, <1>i DEF AcquireStart, EnqueueLock, EnqueueSignal, Counted, Signalled, EnqueueUnlock,
         AcquireTry, Claimable, TypeOK
    <3> QED BY <3>1, OwnerKept, OwnerEqual
  <2>2. CASE AcquireTry(p) /\ ppc'[p] = "fill"
    <3>1. /\ ppc[p] = "scan" /\ refcount[pi[p]] = 0
          /\ refcount' = [refcount EXCEPT ![pi[p]] = 1]
          /\ ppc' = [ppc EXCEPT ![p] = "fill"]
          /\ UNCHANGED <<pi, cpc, ci>>
      BY <2>2, <1>i DEF AcquireTry, Claimable, TypeOK
    <3>2. Owner[pi[p]] = Free
      BY <1>t, <2>p, <3>1 DEF OwnerTable
    <3>3. Owner'[pi[p]] = p
      BY <1>t, <2>2, <3>1 DEF OwnerTable
    <3>4. \A g \in Frames \ {pi[p]} : Owner'[g] = Owner[g]
      <4> SUFFICES ASSUME NEW g \in Frames \ {pi[p]} PROVE Owner'[g] = Owner[g]
        OBVIOUS
      <4>1. refcount'[g] = refcount[g]
        BY <1>i, <2>p, <3>1 DEF TypeOK
      <4>2. \A q \in Producers : ppc[q] = "fill" => ppc'[q] = "fill" /\ pi'[q] = pi[q]
        BY <1>i, <3>1 DEF TypeOK
      <4> QED BY <3>1, <4>1, <4>2, OwnerKept
    <3>5. Owner' = [Owner EXCEPT ![pi[p]] = p]
      BY <2>p, <3>3, <3>4, OwnerExcept
    <3>6. \A g \in Frames : Owner[g] # p
      BY <1>t, <1>i, <3>1, ProducerAssumption, OwnerAssumption
         DEF OwnerTable, TypeOK
    <3> QED BY <2>p, <3>2, <3>5, <3>6 DEF Ownership!OwnNext, Ownership!Take
  <2>3. CASE EnqueueRef(p)
    <3>1. /\ ppc[p] = "fill" /\ refcount[pi[p]] = 1
          /\ refcount' = [refcount EXCEPT ![pi[p]] = @ + 1]
          /\ ppc' = [ppc EXCEPT ![p] = "lock"]
          /\ UNCHANGED <<pi, cpc, ci>>
      BY <2>3, <1>i DEF EnqueueRef, RefInv, TypeOK
    <3>2. refcount'[pi[p]] = 2 /\ ~(cpc = "hold" /\ ci = pi[p])
      BY <1>i, <2>p, <3>1 DEF TypeOK, RefInv
    <3>3. Owner[pi[p]] = p
      BY <1>t, <3>1 DEF OwnerTable
    <3>4. Owner'[pi[p]] = Queued
      BY <1>t, <2>p, <3>1, <3>2 DEF OwnerTable, Frames
    <3>5. \A g \in Frames \ {pi[p]} : Owner'[g] = Owner[g]
      <4> SUFFICES ASSUME NEW g \in Frames \ {pi[p]} PROVE Owner'[g] = Owner[g]
        OBVIOUS
      <4>1. refcount'[g] = refcount[g]
        BY <1>i, <2>p, <3>1 DEF TypeOK
      <4>2. \A q \in Producers : ppc[q] = "fill" /\ pi[q] = g
                                   => ppc'[q] = "fill" /\ pi'[q] = g
        BY <1>i, <3>1 DEF TypeOK
      <4> QED BY <3>1, <4>1, <4>2, OwnerKept
    <3>6. Owner' = [Owner EXCEPT ![pi[p]] = Queued]
      BY <2>p, <3>4, <3>5, OwnerExcept
    <3> QED BY <2>p, <3>3, <3>6 DEF Ownership!OwnNext, Ownership!Put
  <2> QED BY <1>4, <2>1, <2>2, <2>3 DEF ProducerStep
<1> QED BY <1>1, <1>2, <1>3, <1>4 DEF Next, ConsumerStep

LEMMA InitRefines == Init => Ownership!OwnInit
<1> SUFFICES ASSUME Init PROVE Ownership!OwnInit
  OBVIOUS
<1>1. \A f \in Frames : Owner[f] = Free
  BY DEF Init, Owner
<1> QED BY <1>1 DEF Ownership!OwnInit, Owner

\* Every frame has one owner at a time and every dequeue returns a queued
\* frame (MpscPool!ImplementsOwnership), for any number of frames and
\* producers.
THEOREM Refinement == Spec => ImplementsOwnership
<1>1. Init => Ownership!OwnInit
  BY InitRefines
<1>2. IInv /\ IInv' /\ [Next]_vars => [Ownership!OwnNext]_Owner
  BY StepRefines
<1> QED
  BY <1>1, <1>2, InductiveInvariant, PTL
  DEF Spec, ImplementsOwnership, Ownership!OwnSpec
=============================================================================
