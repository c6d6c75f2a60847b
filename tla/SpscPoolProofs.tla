--------------------------- MODULE SpscPoolProofs ---------------------------
(***************************************************************************)
(* Proofs about SpscPool for every pool size, every set of contents and    *)
(* every number of commits an int can count (NoWrap).                      *)
(*                                                                         *)
(* The inductive invariant says that the frames with a reference are       *)
(* exactly those of one window of consecutive indices: the frame being     *)
(* read, the committed frames, the frame being filled.  The window is      *)
(* never longer than the array, so its indices fall on distinct frames.    *)
(***************************************************************************)
EXTENDS SpscPool, SequenceTheorems, TLAPS

NoWrap == MaxCommits <= IntMax

\* First and one-past-last index whose frame is in somebody's hands.
Low  == IF cpc = "hold" THEN read_idx - 1 ELSE read_idx
High == IF ppc = "fill" THEN write_idx + 1 ELSE write_idx

IndexInv ==
  /\ write_idx = commits
  /\ 0 <= Low /\ Low <= read_idx /\ read_idx <= write_idx
  /\ High - Low <= Count

ProducerInv ==
  /\ ppc # "wild"
  /\ ppc \in {"loadR", "cas", "fill"} => pw = write_idx /\ commits < MaxCommits
  /\ ppc = "cas" => pr <= read_idx /\ pw - pr < Count

ConsumerInv ==
  /\ cpc = "loadR" => cw <= write_idx
  /\ cpc \in {"check", "advance"} => cr = read_idx /\ cr < write_idx
  /\ cpc = "hold" => cr = read_idx - 1

BusyInv ==
  \A i \in Frames :
    refcount[i] = 1 <=> \E k \in Low .. High - 1 : k % Count = i

IInv == TypeOK /\ IndexInv /\ ProducerInv /\ ConsumerInv /\ BusyInv

-----------------------------------------------------------------------------
(* Arithmetic *)

LEMMA DivMod ==
  ASSUME NEW N \in Nat \ {0}, NEW a \in Nat
  PROVE  /\ a = N * (a \div N) + (a % N)
         /\ a \div N \in Nat
         /\ a % N \in 0 .. N - 1
BY SMT

LEMMA MulStep ==
  ASSUME NEW N \in Nat \ {0}, NEW d \in Int
  PROVE  /\ d >= 1 => N * d >= N
         /\ d <= 0 => N * d <= 0
<1>1. d >= 1 => N * d >= N
  BY SMT
<1>2. d <= 0 => N * d <= 0
  BY SMT
<1> QED BY <1>1, <1>2

LEMMA MulMinus ==
  ASSUME NEW N \in Int, NEW x \in Int, NEW y \in Int
  PROVE  N * (x - y) = N * x - N * y
BY SMT

LEMMA MulPlus ==
  ASSUME NEW N \in Int, NEW x \in Int, NEW y \in Int
  PROVE  N * (x + y) = N * x + N * y
BY SMT

\* Indices less than N apart fall on distinct frames.
LEMMA ModDistinct ==
  ASSUME NEW N \in Nat \ {0}, NEW a \in Nat, NEW b \in Nat,
         a < b, b < a + N
  PROVE  a % N # b % N
<1> SUFFICES ASSUME a % N = b % N PROVE FALSE
  OBVIOUS
<1>1. /\ a = N * (a \div N) + (a % N)
      /\ a \div N \in Nat
      /\ a % N \in 0 .. N - 1
  BY DivMod
<1>2. /\ b = N * (b \div N) + (b % N)
      /\ b \div N \in Nat
  BY DivMod
<1> DEFINE qa == a \div N
           qb == b \div N
<1> HIDE DEF qa, qb
<1>3. qa \in Nat /\ qb \in Nat /\ N * qa \in Int /\ N * qb \in Int
  BY <1>1, <1>2, SMT DEF qa, qb
<1>4. b - a = N * qb - N * qa
  <2>1. a = N * qa + (a % N)  BY <1>1 DEF qa
  <2>2. b = N * qb + (a % N)  BY <1>2 DEF qb
  <2>3. a % N \in Int  BY <1>1
  <2> DEFINE m == a % N
  <2> HIDE DEF m
  <2>4. a = N * qa + m /\ b = N * qb + m /\ m \in Int
    BY <2>1, <2>2, <2>3 DEF m
  <2> QED BY <2>4, <1>3, SMT
<1>5. b - a = N * (qb - qa)
  BY <1>3, <1>4, MulMinus
<1>6. qb - qa >= 1 \/ qb - qa <= 0
  BY <1>3
<1> QED BY <1>3, <1>5, <1>6, MulStep

\* N consecutive indices reach every frame.
LEMMA ModCovers ==
  ASSUME NEW N \in Nat \ {0}, NEW lo \in Nat, NEW i \in 0 .. N - 1
  PROVE  \E k \in lo .. lo + N - 1 : k % N = i
<1> DEFINE q == lo \div N
           m == lo % N
<1>1. lo = N * q + m /\ q \in Nat /\ m \in 0 .. N - 1
  BY DivMod
<1> HIDE DEF q, m
<1>2. ASSUME NEW c \in Nat PROVE (N * c + i) % N = i
  <2> DEFINE k == N * c + i
  <2>1. k \in Nat
    BY SMT
  <2> HIDE DEF k
  <2>2. k = N * (k \div N) + (k % N) /\ k \div N \in Nat /\ k % N \in 0 .. N - 1
    BY <2>1, DivMod
  <2> DEFINE e == k \div N
             r == k % N
  <2> HIDE DEF e, r
  <2>3. k = N * e + r /\ e \in Nat /\ r \in 0 .. N - 1
    BY <2>2 DEF e, r
  <2>4. N * c + i = N * e + r
    BY <2>3 DEF k
  <2>5. N * c \in Int /\ N * e \in Int
    BY <2>3, SMT
  <2>6. N * c - N * e = r - i
    BY <2>3, <2>4, <2>5, SMT
  <2>7. N * (c - e) = r - i /\ N * (e - c) = i - r
    BY <2>3, <2>5, <2>6, MulMinus, SMT
  <2>8. c = e
    <3>1. c - e \in Int /\ e - c \in Int  BY <2>3
    <3>2. CASE c - e >= 1
      BY <3>1, <3>2, <2>3, <2>7, MulStep
    <3>3. CASE e - c >= 1
      BY <3>1, <3>3, <2>3, <2>7, MulStep
    <3> QED BY <3>1, <3>2, <3>3, <2>3
  <2>9. r = i
    BY <2>4, <2>5, <2>8, <2>3, SMT
  <2> QED BY <2>9 DEF r, k
<1>3. N * q \in Int /\ N * (q + 1) = N * q + N
  BY <1>1, MulPlus, SMT
<1>4. CASE i >= m
  <2>1. N * q + i \in lo .. lo + N - 1
    BY <1>1, <1>3, <1>4, SMT
  <2> QED BY <2>1, <1>1, <1>2
<1>5. CASE i < m
  <2>1. N * (q + 1) + i \in lo .. lo + N - 1
    BY <1>1, <1>3, <1>5, SMT
  <2>2. q + 1 \in Nat
    BY <1>1
  <2> QED BY <2>1, <2>2, <1>2
<1> QED BY <1>1, <1>4, <1>5

-----------------------------------------------------------------------------
(* Consequences of the invariant used by several steps *)

\* Within the bound no index wraps and every slot is a plain remainder.
LEMMA PlainArithmetic ==
  ASSUME NoWrap, TypeOK
  PROVE  /\ \A k \in Nat : Slot(k) = k % Count /\ Slot(k) \in Frames
         /\ \A k \in 0 .. MaxCommits : Wrap(k) = k
         /\ commits < MaxCommits => commits + 1 \in 0 .. MaxCommits
<1>1. \A k \in Nat : k % Count \in 0 .. Count - 1
  BY CountAssumption, DivMod
<1>2. \A k \in Nat : Slot(k) = k % Count /\ Slot(k) \in Frames
  BY <1>1 DEF Slot, CRem, Frames
<1>3. \A k \in 0 .. MaxCommits : Wrap(k) = k
  BY BoundsAssumption DEF NoWrap, Wrap
<1>4. commits < MaxCommits => commits + 1 \in 0 .. MaxCommits
  BY BoundsAssumption DEF TypeOK
<1> QED BY <1>2, <1>3, <1>4

LEMMA WindowType ==
  ASSUME TypeOK, IndexInv
  PROVE  /\ Low \in Nat /\ High \in Nat
         /\ read_idx \in Nat /\ write_idx \in Nat
         /\ write_idx <= High /\ write_idx <= MaxCommits
BY BoundsAssumption DEF TypeOK, IndexInv, Low, High

\* Distinct indices of the window are distinct frames.
LEMMA WindowDistinct ==
  ASSUME TypeOK, IndexInv,
         NEW j \in Low .. High - 1, NEW k \in Low .. High - 1, j # k
  PROVE  j % Count # k % Count
<1>1. Low \in Nat /\ High \in Nat /\ High - Low <= Count
  BY WindowType DEF IndexInv
<1>2. j \in Nat /\ k \in Nat /\ j < k + Count /\ k < j + Count
  BY <1>1, CountAssumption
<1>3. CASE j < k  BY <1>2, <1>3, ModDistinct, CountAssumption
<1>4. CASE k < j  BY <1>2, <1>4, ModDistinct, CountAssumption
<1> QED BY <1>2, <1>3, <1>4

\* A window as long as the array leaves no frame free.
LEMMA FullWindow ==
  ASSUME TypeOK, IndexInv, BusyInv, High - Low = Count
  PROVE  \A i \in Frames : refcount[i] = 1
<1> SUFFICES ASSUME NEW i \in Frames PROVE refcount[i] = 1
  OBVIOUS
<1>1. Low \in Nat /\ High \in Nat
  BY WindowType
<1>i. i \in 0 .. Count - 1
  BY DEF Frames
<1>2. \E k \in Low .. Low + Count - 1 : k % Count = i
  BY <1>1, <1>i, ModCovers, CountAssumption, ZenonT(40)
<1>3. Low + Count - 1 = High - 1
  BY <1>1, CountAssumption
<1> QED BY <1>2, <1>3 DEF BusyInv

-----------------------------------------------------------------------------
(* The invariant is inductive *)

LEMMA InitIInv == NoWrap /\ Init => IInv
<1> SUFFICES ASSUME NoWrap, Init PROVE IInv
  OBVIOUS
<1>1. TypeOK
  BY BoundsAssumption DEF Init, TypeOK
<1>2. IndexInv /\ ProducerInv /\ ConsumerInv
  BY CountAssumption DEF Init, IndexInv, ProducerInv, ConsumerInv, Low, High
<1>3. BusyInv
  BY DEF Init, BusyInv, Low, High
<1> QED BY <1>1, <1>2, <1>3 DEF IInv

LEMMA ProducerStep == NoWrap /\ IInv /\ Producer => IInv'
<1> SUFFICES ASSUME NoWrap, IInv, Producer PROVE IInv'
  OBVIOUS
<1> USE DEF IInv
<1> USE CountAssumption, BoundsAssumption
<1>w. /\ Low \in Nat /\ High \in Nat
      /\ read_idx \in Nat /\ write_idx \in Nat
      /\ write_idx <= High /\ write_idx <= MaxCommits
  BY WindowType
<1>s. \A k \in Nat : Slot(k) = k % Count /\ Slot(k) \in Frames
  BY PlainArithmetic
<1>n. \A k \in 0 .. MaxCommits : Wrap(k) = k
  BY PlainArithmetic
<1>1. CASE AcquireLoadW
  BY <1>1, <1>w DEF AcquireLoadW, consumerVars, TypeOK, IndexInv, ProducerInv,
     ConsumerInv, BusyInv, Low, High
<1>2. CASE AcquireLoadR
  <2>1. pw = write_idx /\ pw - read_idx \in 0 .. MaxCommits
    BY <1>2, <1>w DEF AcquireLoadR, Full, ProducerInv, IndexInv
  <2>2. Wrap(pw - read_idx) = pw - read_idx
    BY <2>1, <1>n
  <2> QED BY <1>2, <1>w, <2>1, <2>2 DEF AcquireLoadR, Full, consumerVars, TypeOK,
     IndexInv, ProducerInv, ConsumerInv, BusyInv, Low, High
<1>3. CASE AcquireCas
  <2>1. pw = write_idx /\ Slot(pw) = pw % Count /\ Slot(pw) \in Frames
        /\ ppc = "cas" /\ High = write_idx
    BY <1>3, <1>w, <1>s DEF AcquireCas, Claimable, ProducerInv, High
  <2>2. CASE ppc' = "idle" /\ UNCHANGED refcount
    BY <1>3, <1>w, <2>1, <2>2 DEF AcquireCas, Claimable, consumerVars, TypeOK, IndexInv,
       ProducerInv, ConsumerInv, BusyInv, Low, High
  <2>3. CASE /\ refcount[Slot(pw)] = 0 /\ ppc' = "fill"
             /\ refcount' = [refcount EXCEPT ![Slot(pw)] = 1]
    <3>1. High - Low < Count
      BY <1>w, <2>1, <2>3, FullWindow DEF IndexInv
    <3>2. Low' = Low /\ High' = High + 1
      BY <1>3, <2>1, <2>3 DEF AcquireCas, Claimable, consumerVars, Low, High
    <3>3. TypeOK' /\ ProducerInv' /\ ConsumerInv'
      BY <1>3, <1>w, <2>1, <2>3 DEF AcquireCas, Claimable, consumerVars, TypeOK, ProducerInv,
         ConsumerInv
    <3>4. IndexInv'
      BY <1>3, <1>w, <3>1, <3>2 DEF AcquireCas, Claimable, IndexInv, consumerVars
    <3>5. BusyInv'
      <4> SUFFICES ASSUME NEW i \in Frames
                   PROVE  refcount'[i] = 1 <=>
                            \E k \in Low .. High : k % Count = i
        <5>1. Low' .. High' - 1 = Low .. High
          BY <3>2, <1>w
        <5> QED BY <5>1 DEF BusyInv
      <4>1. (\E k \in Low .. High : k % Count = i) <=>
              \/ \E k \in Low .. High - 1 : k % Count = i
              \/ High % Count = i
        <5>1. Low .. High = (Low .. High - 1) \cup {High}
          BY <1>w DEF IndexInv
        <5> QED BY <5>1
      <4>2. refcount'[i] = 1 <=> (refcount[i] = 1 \/ i = High % Count)
        BY <2>1, <2>3 DEF TypeOK
      <4> QED BY <4>1, <4>2 DEF BusyInv
    <3> QED BY <3>3, <3>4, <3>5
  <2> QED BY <1>3, <2>1, <2>2, <2>3 DEF AcquireCas, Claimable
<1>4. CASE WriteData
  BY <1>4, <1>w DEF WriteData, producerVars, consumerVars, TypeOK, IndexInv,
     ProducerInv, ConsumerInv, BusyInv, Low, High
<1>5. CASE SpCommit
  <2>1. write_idx + 1 \in 0 .. MaxCommits
    BY <1>5, <1>w DEF SpCommit, ProducerInv, IndexInv, TypeOK
  <2>2. write_idx' = write_idx + 1 /\ Low' = Low /\ High' = High
    BY <1>5, <2>1, <1>n DEF SpCommit, consumerVars, Low, High
  <2>3. TypeOK' /\ IndexInv' /\ ProducerInv' /\ ConsumerInv'
    BY <1>5, <1>w, <2>1, <2>2 DEF SpCommit, consumerVars, TypeOK, IndexInv,
       ProducerInv, ConsumerInv
  <2>4. BusyInv'
    BY <1>5, <2>2 DEF SpCommit, BusyInv
  <2> QED BY <2>3, <2>4
<1>6. CASE ReleaseUnused
  <2>1. /\ pw = write_idx /\ Slot(pw) = pw % Count /\ Slot(pw) \in Frames
        /\ High = write_idx + 1 /\ Low' = Low /\ High' = write_idx
    BY <1>6, <1>w, <1>s DEF ReleaseUnused, consumerVars, ProducerInv, Low, High
  <2>2. TypeOK' /\ IndexInv' /\ ProducerInv' /\ ConsumerInv'
    BY <1>6, <1>w, <2>1 DEF ReleaseUnused, consumerVars, TypeOK, IndexInv,
       ProducerInv, ConsumerInv
  <2>3. BusyInv'
    <3> SUFFICES ASSUME NEW i \in Frames
                 PROVE  refcount'[i] = 1 <=>
                          \E k \in Low .. write_idx - 1 : k % Count = i
      BY <2>1 DEF BusyInv
    <3>1. refcount'[i] = 1 <=> (refcount[i] = 1 /\ i # write_idx % Count)
      BY <1>6, <2>1 DEF ReleaseUnused, TypeOK
    <3>2. refcount[i] = 1 <=> \E k \in Low .. write_idx : k % Count = i
      <4>1. High - 1 = write_idx
        BY <2>1, <1>w
      <4> QED BY <4>1 DEF BusyInv
    <3>3. \A k \in Low .. write_idx - 1 : k % Count # write_idx % Count
      BY <2>1, <1>w, WindowDistinct DEF IndexInv
    <3>4. Low .. write_idx = (Low .. write_idx - 1) \cup {write_idx}
      BY <1>w DEF IndexInv
    <3> QED BY <3>1, <3>2, <3>3, <3>4
  <2> QED BY <2>2, <2>3
<1> QED BY <1>1, <1>2, <1>3, <1>4, <1>5, <1>6 DEF Producer

LEMMA ConsumerStep == NoWrap /\ IInv /\ Consumer => IInv'
<1> SUFFICES ASSUME NoWrap, IInv, Consumer PROVE IInv'
  OBVIOUS
<1> USE DEF IInv
<1> USE CountAssumption, BoundsAssumption
<1>w. /\ Low \in Nat /\ High \in Nat
      /\ read_idx \in Nat /\ write_idx \in Nat
      /\ write_idx <= High /\ write_idx <= MaxCommits
  BY WindowType
<1>s. \A k \in Nat : Slot(k) = k % Count /\ Slot(k) \in Frames
  BY PlainArithmetic
<1>n. \A k \in 0 .. MaxCommits : Wrap(k) = k
  BY PlainArithmetic
<1>1. CASE DequeueLoadW
  BY <1>1, <1>w DEF DequeueLoadW, producerVars, TypeOK, IndexInv, ProducerInv,
     ConsumerInv, BusyInv, Low, High
<1>2. CASE DequeueLoadR
  BY <1>2, <1>w DEF DequeueLoadR, Empty, producerVars, TypeOK, IndexInv, ProducerInv,
     ConsumerInv, BusyInv, Low, High
<1>3. CASE DequeueCheck
  BY <1>3, <1>w DEF DequeueCheck, producerVars, TypeOK, IndexInv, ProducerInv,
     ConsumerInv, BusyInv, Low, High
<1>4. CASE DequeueAdvance
  <2>1. cr = read_idx /\ cr < write_idx /\ read_idx + 1 \in 0 .. MaxCommits
    BY <1>4, <1>w DEF DequeueAdvance, ConsumerInv
  <2>2. read_idx' = read_idx + 1 /\ Low' = Low /\ High' = High
    BY <1>4, <2>1, <1>n, <1>w DEF DequeueAdvance, producerVars, Low, High
  <2>3. TypeOK' /\ IndexInv' /\ ProducerInv' /\ ConsumerInv'
    BY <1>4, <1>w, <2>1, <2>2 DEF DequeueAdvance, producerVars, TypeOK, IndexInv,
       ProducerInv, ConsumerInv
  <2>4. BusyInv'
    BY <1>4, <2>2 DEF DequeueAdvance, BusyInv
  <2> QED BY <2>3, <2>4
<1>5. CASE SpRelease
  <2>1. /\ cr = Low /\ Slot(cr) = cr % Count /\ Slot(cr) \in Frames
        /\ Low < High /\ Low' = Low + 1 /\ High' = High
    BY <1>5, <1>w, <1>s DEF SpRelease, producerVars, ConsumerInv, IndexInv, Low, High
  <2>2. TypeOK' /\ IndexInv' /\ ProducerInv' /\ ConsumerInv'
    BY <1>5, <1>w, <2>1 DEF SpRelease, producerVars, TypeOK, IndexInv,
       ProducerInv, ConsumerInv, Low
  <2>3. BusyInv'
    <3> SUFFICES ASSUME NEW i \in Frames
                 PROVE  refcount'[i] = 1 <=>
                          \E k \in Low + 1 .. High - 1 : k % Count = i
      BY <2>1 DEF BusyInv
    <3>1. refcount'[i] = 1 <=> (refcount[i] = 1 /\ i # Low % Count)
      BY <1>5, <2>1 DEF SpRelease, TypeOK
    <3>2. refcount[i] = 1 <=> \E k \in Low .. High - 1 : k % Count = i
      BY DEF BusyInv
    <3>3. \A k \in Low + 1 .. High - 1 : k % Count # Low % Count
      <4> SUFFICES ASSUME NEW k \in Low + 1 .. High - 1
                   PROVE  k % Count # Low % Count
        OBVIOUS
      <4>1. k \in Low .. High - 1 /\ Low \in Low .. High - 1 /\ k # Low
        BY <2>1, <1>w
      <4> QED BY <4>1, WindowDistinct
    <3>4. Low .. High - 1 = {Low} \cup (Low + 1 .. High - 1)
      BY <1>w, <2>1
    <3> QED BY <3>1, <3>2, <3>3, <3>4
  <2> QED BY <2>2, <2>3
<1> QED BY <1>1, <1>2, <1>3, <1>4, <1>5 DEF Consumer

LEMMA StutterStep == IInv /\ UNCHANGED vars => IInv'
BY DEF vars, producerVars, consumerVars, IInv, TypeOK, IndexInv, ProducerInv,
   ConsumerInv, BusyInv, Low, High

\* The inductive invariant holds of every behaviour in which no index wraps.
THEOREM InductiveInvariant == NoWrap => (Spec => []IInv)
<1> SUFFICES ASSUME NoWrap PROVE Spec => []IInv
  OBVIOUS
<1>1. Init => IInv
  BY InitIInv
<1>2. IInv /\ [Next]_vars => IInv'
  BY ProducerStep, ConsumerStep, StutterStep DEF Next
<1> QED BY <1>1, <1>2, PTL DEF Spec

-----------------------------------------------------------------------------
(* Safety *)

\* The variables keep their types (SpscPool!TypeOK) for every pool size.
THEOREM TypeCorrect == NoWrap => (Spec => []TypeOK)
<1>1. IInv => TypeOK
  BY DEF IInv
<1> QED BY <1>1, InductiveInvariant, PTL

\* The slots of the committed window, without the C remainder.
LEMMA CommittedWindow ==
  ASSUME NoWrap, IInv
  PROVE  /\ \A k \in read_idx .. write_idx - 1 :
              k \in Low .. High - 1 /\ Slot(k) = k % Count /\ Slot(k) \in Frames
         /\ ppc = "fill" => /\ pw = write_idx /\ pw \in Low .. High - 1
                            /\ Slot(pw) = pw % Count /\ Slot(pw) \in Frames
         /\ cpc = "hold" => /\ cr = read_idx - 1 /\ cr \in Low .. High - 1
                            /\ Slot(cr) = cr % Count /\ Slot(cr) \in Frames
<1> USE DEF IInv
<1>w. /\ Low \in Nat /\ High \in Nat
      /\ read_idx \in Nat /\ write_idx \in Nat /\ write_idx <= High
      /\ Low <= read_idx /\ read_idx <= write_idx
  BY WindowType DEF IndexInv
<1>s. \A k \in Nat : Slot(k) = k % Count /\ Slot(k) \in Frames
  BY PlainArithmetic
<1>1. \A k \in read_idx .. write_idx - 1 :
        k \in Low .. High - 1 /\ Slot(k) = k % Count /\ Slot(k) \in Frames
  BY <1>w, <1>s
<1>2. ppc = "fill" => /\ pw = write_idx /\ pw \in Low .. High - 1
                      /\ Slot(pw) = pw % Count /\ Slot(pw) \in Frames
  BY <1>w, <1>s DEF ProducerInv, High
<1>3. cpc = "hold" => /\ cr = read_idx - 1 /\ cr \in Low .. High - 1
                      /\ Slot(cr) = cr % Count /\ Slot(cr) \in Frames
  BY <1>w, <1>s DEF ConsumerInv, Low
<1> QED BY <1>1, <1>2, <1>3

LEMMA IInvExclusive == NoWrap /\ IInv => Exclusive
<1> SUFFICES ASSUME NoWrap, IInv PROVE Exclusive
  OBVIOUS
<1>i. TypeOK /\ IndexInv
  BY DEF IInv
<1>w. read_idx \in Nat /\ write_idx \in Nat
  BY <1>i, WindowType
<1>1. ASSUME ppc = "fill", NEW k \in read_idx .. write_idx - 1
      PROVE  Slot(pw) # Slot(k)
  <2>1. pw # k
    BY <1>1, <1>w, CommittedWindow
  <2> QED BY <1>i, <1>1, <2>1, CommittedWindow, WindowDistinct
<1>2. ASSUME cpc = "hold", NEW k \in read_idx .. write_idx - 1
      PROVE  Slot(cr) # Slot(k)
  <2>1. cr # k
    BY <1>2, <1>w, CommittedWindow
  <2> QED BY <1>i, <1>2, <2>1, CommittedWindow, WindowDistinct
<1>3. ASSUME ppc = "fill", cpc = "hold"
      PROVE  Slot(pw) # Slot(cr)
  <2>1. pw # cr
    BY <1>3, <1>i, <1>w, CommittedWindow DEF IndexInv
  <2> QED BY <1>i, <1>3, <2>1, CommittedWindow, WindowDistinct
<1> QED BY <1>1, <1>2, <1>3 DEF Exclusive

\* No frame is ever in two hands at once (SpscPool!Exclusive), whatever the
\* interleaving of the two threads and whatever the size of the pool.
THEOREM ExclusiveOwnership == NoWrap => (Spec => []Exclusive)
<1> SUFFICES ASSUME NoWrap PROVE Spec => []Exclusive
  OBVIOUS
<1>1. IInv => Exclusive
  BY IInvExclusive
<1> QED BY <1>1, InductiveInvariant, PTL

\* Committed frames keep their reference until dequeued
\* (SpscPool!CommittedIsReferenced): the check at bb_pool.c:97 never fails.
THEOREM CommittedReferenced == NoWrap => (Spec => []CommittedIsReferenced)
<1> SUFFICES ASSUME NoWrap PROVE Spec => []CommittedIsReferenced
  OBVIOUS
<1>1. IInv => CommittedIsReferenced
  BY CommittedWindow DEF CommittedIsReferenced, IInv, BusyInv
<1> QED BY <1>1, InductiveInvariant, PTL

LEMMA RefusalStep ==
  NoWrap /\ IInv /\ [Next]_vars =>
    [ (ppc \in {"loadR", "cas"} /\ ppc' = "idle") =>
        \A i \in Frames : refcount[i] = 1 ]_vars
<1> SUFFICES ASSUME NoWrap, IInv, Next, ppc \in {"loadR", "cas"}, ppc' = "idle"
             PROVE  \A i \in Frames : refcount[i] = 1
  BY DEF vars
<1> USE DEF IInv
<1> USE CountAssumption, BoundsAssumption
<1>w. /\ Low \in Nat /\ High \in Nat
      /\ read_idx \in Nat /\ write_idx \in Nat
      /\ Low <= read_idx /\ read_idx <= write_idx /\ write_idx <= MaxCommits
      /\ High - Low <= Count /\ High = write_idx
  BY WindowType DEF IndexInv, High
<1>p. pw = write_idx
  BY DEF ProducerInv
<1>1. CASE AcquireLoadR
  <2>1. pw - read_idx \in 0 .. MaxCommits
    BY <1>w, <1>p
  <2>2. pw - read_idx >= Count
    BY <1>1, <2>1, PlainArithmetic DEF AcquireLoadR, Full
  <2>3. High - Low = Count
    BY <1>w, <1>p, <2>2
  <2> QED BY <2>3, FullWindow
<1>2. CASE AcquireCas
  <2>1. Slot(pw) = pw % Count /\ Slot(pw) \in Frames
    BY <1>w, <1>p, PlainArithmetic
  <2>2. refcount[write_idx % Count] = 1 /\ write_idx % Count \in Frames
    BY <1>2, <1>p, <2>1 DEF AcquireCas, Claimable, TypeOK
  <2>3. PICK k \in Low .. write_idx - 1 : k % Count = write_idx % Count
    BY <1>w, <2>2 DEF BusyInv
  <2>4. k + Count <= write_idx
    <3>1. k \in Nat /\ k < write_idx /\ k % Count = write_idx % Count
      BY <1>w, <2>3
    <3>2. ~(write_idx < k + Count)
      BY <1>w, <3>1, ModDistinct
    <3> QED BY <1>w, <3>1, <3>2
  <2>5. High - Low = Count
    BY <1>w, <2>3, <2>4
  <2> QED BY <2>5, FullWindow
<1>3. CASE AcquireLoadW
  BY <1>3 DEF AcquireLoadW
<1>4. CASE WriteData \/ SpCommit \/ ReleaseUnused
  BY <1>4 DEF WriteData, SpCommit, ReleaseUnused
<1>5. CASE Consumer
  BY <1>5 DEF Consumer, DequeueLoadW, DequeueLoadR, Empty, DequeueCheck, DequeueAdvance,
     SpRelease, producerVars
<1> QED BY <1>1, <1>2, <1>3, <1>4, <1>5 DEF Next, Producer

\* A capture period is dropped only when every frame is in use
\* (SpscPool!RefusedOnlyWhenFull).
THEOREM NoSpuriousRefusal == NoWrap => (Spec => RefusedOnlyWhenFull)
<1> SUFFICES ASSUME NoWrap PROVE Spec => RefusedOnlyWhenFull
  OBVIOUS
<1>1. IInv /\ [Next]_vars =>
        [ (ppc \in {"loadR", "cas"} /\ ppc' = "idle") =>
            \A i \in Frames : refcount[i] = 1 ]_vars
  BY RefusalStep
<1> QED BY <1>1, InductiveInvariant, PTL DEF Spec, RefusedOnlyWhenFull

-----------------------------------------------------------------------------
(* Refinement: SpscPool implements FrameFifo *)

LEMMA QueueType ==
  ASSUME NoWrap, IInv
  PROVE  /\ Queue \in Seq(Value)
         /\ Len(Queue) = write_idx - read_idx
         /\ \A k \in 1 .. write_idx - read_idx :
              /\ Queue[k] = data[Slot(read_idx + k - 1)]
              /\ read_idx + k - 1 \in read_idx .. write_idx - 1
<1>w. read_idx \in Nat /\ write_idx \in Nat /\ read_idx <= write_idx
  BY WindowType DEF IInv, IndexInv
<1>1. \A k \in 1 .. write_idx - read_idx :
        /\ read_idx + k - 1 \in read_idx .. write_idx - 1
        /\ data[Slot(read_idx + k - 1)] \in Value
  <2> SUFFICES ASSUME NEW k \in 1 .. write_idx - read_idx
               PROVE  /\ read_idx + k - 1 \in read_idx .. write_idx - 1
                      /\ data[Slot(read_idx + k - 1)] \in Value
    OBVIOUS
  <2>1. read_idx + k - 1 \in read_idx .. write_idx - 1
    BY <1>w
  <2>2. Slot(read_idx + k - 1) \in Frames
    BY <2>1, CommittedWindow
  <2> QED BY <2>1, <2>2 DEF IInv, TypeOK
<1>2. write_idx - read_idx \in Nat
  BY <1>w
<1>3. Queue \in [1 .. write_idx - read_idx -> Value]
  BY <1>1 DEF Queue
<1>4. Queue \in Seq(Value) /\ Len(Queue) = write_idx - read_idx
  BY <1>2, <1>3
<1> QED BY <1>1, <1>4 DEF Queue

\* A step that moves neither index nor the contents of the window leaves the
\* abstract queue alone.
LEMMA QueueKept ==
  ASSUME NoWrap, IInv, UNCHANGED <<read_idx, write_idx>>,
         \A k \in read_idx .. write_idx - 1 : data'[Slot(k)] = data[Slot(k)]
  PROVE  Queue' = Queue
<1>1. \A k \in 1 .. write_idx - read_idx :
        data'[Slot(read_idx + k - 1)] = data[Slot(read_idx + k - 1)]
  BY QueueType
<1>2. Queue' = [k \in 1 .. write_idx - read_idx |->
                  data'[Slot(read_idx + k - 1)]]
  BY DEF Queue, Slot
<1> QED BY <1>1, <1>2 DEF Queue

LEMMA StepRefines ==
  NoWrap /\ IInv /\ [Next]_vars => [Fifo!FifoNext]_<<Queue, Filling, Held>>
<1> SUFFICES ASSUME NoWrap, IInv, [Next]_vars
             PROVE  [Fifo!FifoNext]_<<Queue, Filling, Held>>
  OBVIOUS
<1> USE CountAssumption, BoundsAssumption
<1>i. TypeOK /\ IndexInv /\ ProducerInv /\ ConsumerInv /\ BusyInv
  BY DEF IInv
<1>w. /\ Low \in Nat /\ High \in Nat
      /\ read_idx \in Nat /\ write_idx \in Nat
      /\ Low <= read_idx /\ read_idx <= write_idx /\ write_idx <= MaxCommits
      /\ High - Low <= Count
  BY <1>i, WindowType DEF IndexInv
<1>q. Queue \in Seq(Value) /\ Len(Queue) = write_idx - read_idx
  BY QueueType
<1>d. data \in [Frames -> Value] /\ None \notin Value
  BY <1>i, ValueAssumption DEF TypeOK
<1>u. Fifo!InUse = High - Low
  BY <1>w, <1>q, <1>d, CommittedWindow DEF Fifo!InUse, Filling, Held, High, Low
<1>1. CASE \/ AcquireLoadW \/ AcquireLoadR \/ (AcquireCas /\ ppc' # "fill")
           \/ DequeueLoadW \/ DequeueLoadR \/ DequeueCheck \/ UNCHANGED vars
  <2>1. /\ UNCHANGED <<read_idx, write_idx, data>>
        /\ Filling' = Filling /\ Held' = Held
    BY <1>1 DEF AcquireLoadW, AcquireLoadR, Full, AcquireCas, Claimable, DequeueLoadW, DequeueLoadR, Empty,
       DequeueCheck, vars, producerVars, consumerVars, Filling, Held, Slot
  <2>2. Queue' = Queue
    BY <2>1, QueueKept
  <2> QED BY <2>1, <2>2
<1>2. CASE AcquireCas /\ ppc' = "fill"
  <2>1. /\ refcount[Slot(pw)] = 0 /\ Slot(pw) \in Frames
        /\ UNCHANGED <<read_idx, write_idx, data, pw, cr, cpc>> /\ ppc = "cas"
    BY <1>2 DEF AcquireCas, Claimable, consumerVars
  <2>2. High - Low < Count
    BY <1>i, <1>w, <2>1, FullWindow
  <2>3. Filling = None /\ Filling' \in Value /\ Held' = Held
    BY <1>2, <1>d, <2>1 DEF Filling, Held, Slot
  <2>4. Queue' = Queue
    BY <2>1, QueueKept
  <2> QED BY <1>u, <2>2, <2>3, <2>4 DEF Fifo!FifoNext, Fifo!Acquire
<1>3. CASE WriteData
  <2>1. /\ ppc = "fill" /\ UNCHANGED <<read_idx, write_idx, ppc, pw, cpc, cr>>
        /\ Slot(pw) \in Frames
    BY <1>3, CommittedWindow DEF WriteData, producerVars, consumerVars
  <2>2. PICK v \in Value : data' = [data EXCEPT ![Slot(pw)] = v]
    BY <1>3 DEF WriteData
  <2>3. Exclusive
    BY IInvExclusive
  <2>4. Queue' = Queue
    <3>1. \A k \in read_idx .. write_idx - 1 : data'[Slot(k)] = data[Slot(k)]
      BY <2>1, <2>2, <2>3, <1>d, CommittedWindow DEF Exclusive
    <3> QED BY <2>1, <3>1, QueueKept
  <2>5. Filling \in Value /\ Filling' \in Value
    BY <1>d, <2>1, <2>2 DEF Filling, Slot
  <2>6. Held' = Held
    <3>1. cpc = "hold" => data'[Slot(cr)] = data[Slot(cr)]
      BY <2>1, <2>2, <2>3, <1>d, CommittedWindow DEF Exclusive
    <3> QED BY <2>1, <3>1 DEF Held, Slot
  <2> QED BY <1>d, <2>4, <2>5, <2>6 DEF Fifo!FifoNext, Fifo!Fill
<1>4. CASE SpCommit
  <2>1. /\ ppc = "fill" /\ ppc' = "idle" /\ pw = write_idx
        /\ UNCHANGED <<read_idx, data, cpc, cr>> /\ Slot(pw) \in Frames
    BY <1>4, CommittedWindow DEF SpCommit, consumerVars
  <2>2. write_idx + 1 \in 0 .. MaxCommits
    BY <1>i, <1>4, <1>w DEF SpCommit, ProducerInv, IndexInv, TypeOK
  <2>3. write_idx' = write_idx + 1
    BY <1>4, <1>i, <2>2, PlainArithmetic DEF SpCommit
  <2>4. Filling = data[Slot(write_idx)] /\ Filling \in Value
        /\ Filling' = None /\ Held' = Held
    BY <2>1, <1>d DEF Filling, Held, Slot
  <2>5. Queue' = Append(Queue, Filling)
    <3> DEFINE n == write_idx - read_idx
    <3>1. n \in Nat /\ n = Len(Queue) /\ write_idx' - read_idx' = n + 1
          /\ read_idx + (n + 1) - 1 = write_idx
      BY <1>w, <1>q, <2>1, <2>3
    <3>2. Queue' = [k \in 1 .. n + 1 |-> data[Slot(read_idx + k - 1)]]
      BY <2>1, <3>1 DEF Queue, Slot
    <3>3. \A k \in 1 .. n : Queue[k] = data[Slot(read_idx + k - 1)]
      BY QueueType
    <3>4. Append(Queue, Filling) =
            [k \in 1 .. n + 1 |-> IF k <= n THEN Queue[k] ELSE Filling]
      BY <1>q, <2>4, <3>1
    <3>5. \A k \in 1 .. n + 1 : data[Slot(read_idx + k - 1)] =
                                  IF k <= n THEN Queue[k] ELSE Filling
      <4> SUFFICES ASSUME NEW k \in 1 .. n + 1
                   PROVE  data[Slot(read_idx + k - 1)] =
                            IF k <= n THEN Queue[k] ELSE Filling
        OBVIOUS
      <4>1. CASE k <= n
        BY <4>1, <3>1, <3>3
      <4>2. CASE k = n + 1
        BY <4>2, <3>1, <2>4
      <4> QED BY <4>1, <4>2, <3>1
    <3> HIDE DEF n
    <3> QED BY <3>2, <3>4, <3>5
  <2> QED BY <1>d, <2>4, <2>5 DEF Fifo!FifoNext, Fifo!Commit
<1>5. CASE ReleaseUnused
  <2>1. /\ ppc = "fill" /\ ppc' = "idle" /\ Slot(pw) \in Frames
        /\ UNCHANGED <<read_idx, write_idx, data, cpc, cr>>
    BY <1>5, CommittedWindow DEF ReleaseUnused, consumerVars
  <2>2. Filling \in Value /\ Filling' = None /\ Held' = Held
    BY <2>1, <1>d DEF Filling, Held, Slot
  <2>3. Queue' = Queue
    BY <2>1, QueueKept
  <2> QED BY <1>d, <2>2, <2>3 DEF Fifo!FifoNext, Fifo!Abandon
<1>6. CASE DequeueAdvance
  <2>1. /\ cpc = "advance" /\ cpc' = "hold" /\ cr = read_idx /\ cr < write_idx
        /\ UNCHANGED <<write_idx, data, ppc, pw, cr>>
    BY <1>i, <1>6 DEF DequeueAdvance, producerVars, ConsumerInv
  <2>2. read_idx' = read_idx + 1
    <3>1. read_idx + 1 \in 0 .. MaxCommits
      BY <1>w, <2>1
    <3> QED BY <1>6, <1>i, <3>1, PlainArithmetic DEF DequeueAdvance
  <2>3. Filling' = Filling /\ Held = None /\ Held' = data[Slot(read_idx)]
    BY <2>1 DEF Filling, Held, Slot
  <2> DEFINE n == write_idx - read_idx
  <2>4. n \in Nat \ {0} /\ n = Len(Queue) /\ write_idx' - read_idx' = n - 1
        /\ read_idx + 1 - 1 = read_idx
    BY <1>w, <1>q, <2>1, <2>2
  <2>5. \A k \in 1 .. n : Queue[k] = data[Slot(read_idx + k - 1)]
    BY QueueType
  <2>6. Queue # <<>> /\ Head(Queue) = data[Slot(read_idx)]
    BY <1>q, <2>4, <2>5
  <2>7. Queue' = Tail(Queue)
    <3>1. Queue' = [k \in 1 .. n - 1 |-> data[Slot(read_idx + 1 + k - 1)]]
      BY <2>1, <2>2, <2>4 DEF Queue, Slot
    <3>2. Tail(Queue) = [k \in 1 .. n - 1 |-> Queue[k + 1]]
      <4>1. Tail(Queue) \in Seq(Value) /\ Len(Tail(Queue)) = n - 1
        BY <1>q, <2>4, <2>6
      <4>2. \A k \in 1 .. n - 1 : Tail(Queue)[k] = Queue[k + 1]
        BY <1>q, <2>4, <2>6
      <4> DEFINE t == Tail(Queue)
      <4>3. t \in [1 .. n - 1 -> Value]
        <5>1. t \in [1 .. Len(t) -> Value]
          BY <4>1, LenProperties
        <5> QED BY <4>1, <5>1
      <4> HIDE DEF t
      <4> QED BY <4>2, <4>3 DEF t
    <3>3. \A k \in 1 .. n - 1 : Queue[k + 1] = data[Slot(read_idx + 1 + k - 1)]
      <4> SUFFICES ASSUME NEW k \in 1 .. n - 1
                   PROVE  Queue[k + 1] = data[Slot(read_idx + 1 + k - 1)]
        OBVIOUS
      <4>1. k + 1 \in 1 .. n /\ read_idx + (k + 1) - 1 = read_idx + 1 + k - 1
        BY <2>4, <1>w
      <4> QED BY <4>1, <2>5
    <3> HIDE DEF n
    <3> QED BY <3>1, <3>2, <3>3
  <2> QED BY <2>3, <2>6, <2>7 DEF Fifo!FifoNext, Fifo!Take
<1>7. CASE SpRelease
  <2>1. /\ cpc = "hold" /\ cpc' = "idle" /\ Slot(cr) \in Frames
        /\ UNCHANGED <<read_idx, write_idx, data, ppc, pw>>
    BY <1>7, CommittedWindow DEF SpRelease, producerVars
  <2>2. Filling' = Filling /\ Held \in Value /\ Held' = None
    BY <2>1, <1>d DEF Filling, Held, Slot
  <2>3. Queue' = Queue
    BY <2>1, QueueKept
  <2> QED BY <1>d, <2>2, <2>3 DEF Fifo!FifoNext, Fifo!GiveBack
<1> QED
  BY <1>1, <1>2, <1>3, <1>4, <1>5, <1>6, <1>7 DEF Next, Producer, Consumer

LEMMA InitRefines == Init => Fifo!FifoInit
<1> SUFFICES ASSUME Init PROVE Fifo!FifoInit
  OBVIOUS
<1>1. write_idx - read_idx = 0
  BY DEF Init
<1>2. Queue = <<>>
  BY <1>1 DEF Queue
<1>3. Filling = None /\ Held = None
  BY DEF Init, Filling, Held
<1> QED BY <1>2, <1>3 DEF Fifo!FifoInit

\* The pool is a bounded FIFO (SpscPool!ImplementsFifo): for every pool size,
\* each atomic access of the two threads is a FrameFifo step or a stutter.
THEOREM Refinement == NoWrap => (Spec => ImplementsFifo)
<1> SUFFICES ASSUME NoWrap PROVE Spec => ImplementsFifo
  OBVIOUS
<1>1. Init => Fifo!FifoInit
  BY InitRefines
<1>2. IInv /\ [Next]_vars => [Fifo!FifoNext]_<<Queue, Filling, Held>>
  BY StepRefines
<1> QED
  BY <1>1, <1>2, InductiveInvariant, PTL
  DEF Spec, ImplementsFifo, Fifo!FifoSpec, Fifo!fifoVars
-----------------------------------------------------------------------------
(* Why a committed frame is dequeued soon *)

\* Steps of the consumer up to the dequeue of index k: six for each frame before it
\* (two loads, the check, the advance, the release, and at the most one call that had
\* loaded write_idx before the commit), less those of the call under way.
CallLeft ==
  CASE cpc = "hold"    -> 5
    [] cpc = "loadR"   -> IF cw > read_idx THEN 3 ELSE 5
    [] cpc = "idle"    -> 4
    [] cpc = "check"   -> 2
    [] cpc = "advance" -> 1
CallsLeft(k) == 6 * (k + 1 - read_idx) + CallLeft

\* k is the index of a frame that is committed and not dequeued.
Queued(k) == read_idx <= k /\ k < write_idx

\* The safety core of CommittedIsDequeued: a committed frame is at a bounded number of
\* the consumer's steps ...
DequeueIsNear ==
  \A k \in 0 .. MaxCommits - 1 : Queued(k) => CallsLeft(k) \in 1 .. 6 * Count + 5

\* ... and every one of them brings it nearer, a call that comes back empty included,
\* while the producer never puts it off.
DequeueRunsDown ==
  [][ \A k \in 0 .. MaxCommits - 1 :
        Queued(k) => IF cpc' # cpc THEN CallsLeft(k)' < CallsLeft(k)
                                   ELSE CallsLeft(k)' = CallsLeft(k) ]_vars

LEMMA NearInWindow == NoWrap /\ IInv => DequeueIsNear
<1> SUFFICES ASSUME NoWrap, IInv, NEW k \in 0 .. MaxCommits - 1, Queued(k)
             PROVE  CallsLeft(k) \in 1 .. 6 * Count + 5
  BY DEF DequeueIsNear
<1> USE CountAssumption, BoundsAssumption
<1>1. /\ read_idx \in Nat /\ write_idx \in Nat /\ k \in Int
      /\ read_idx <= k /\ k < write_idx /\ write_idx - read_idx <= Count
  BY WindowType DEF IInv, IndexInv, Queued
<1>2. CallLeft \in 1 .. 5
  BY DEF IInv, TypeOK, CallLeft
<1> QED BY <1>1, <1>2 DEF CallsLeft

LEMMA DequeueNearer ==
  ASSUME NoWrap, IInv, [Next]_vars, NEW k \in 0 .. MaxCommits - 1, Queued(k)
  PROVE  IF cpc' # cpc THEN CallsLeft(k)' < CallsLeft(k) ELSE CallsLeft(k)' = CallsLeft(k)
<1> USE CountAssumption, BoundsAssumption
<1>w. /\ read_idx \in Nat /\ write_idx \in Nat /\ k \in Int /\ cw \in Int
      /\ read_idx <= k /\ k < write_idx /\ write_idx <= MaxCommits
  BY WindowType DEF IInv, TypeOK, Queued
<1>1. CASE Producer \/ UNCHANGED vars
  BY <1>1 DEF Producer, AcquireLoadW, AcquireLoadR, AcquireCas, WriteData, SpCommit,
     ReleaseUnused, vars, consumerVars, CallsLeft, CallLeft
<1>2. CASE DequeueLoadW
  BY <1>2, <1>w DEF DequeueLoadW, CallsLeft, CallLeft
<1>3. CASE DequeueLoadR
  BY <1>3, <1>w DEF DequeueLoadR, Empty, CallsLeft, CallLeft
<1>4. CASE DequeueCheck
  <2>1. cpc = "check" /\ cr = read_idx /\ refcount[Slot(cr)] = 1
    BY <1>4, <1>w, CommittedWindow DEF DequeueCheck, IInv, ConsumerInv, BusyInv
  <2>2. cpc' = "advance" /\ UNCHANGED read_idx
    BY <1>4, <2>1 DEF DequeueCheck
  <2> QED BY <1>w, <2>1, <2>2 DEF CallsLeft, CallLeft
<1>5. CASE DequeueAdvance
  <2>1. cpc = "advance" /\ cpc' = "hold" /\ read_idx' = read_idx + 1
    <3>1. read_idx + 1 \in 0 .. MaxCommits
      BY <1>w
    <3> QED BY <1>5, <3>1, PlainArithmetic DEF DequeueAdvance, IInv
  <2> QED BY <1>w, <2>1 DEF CallsLeft, CallLeft
<1>6. CASE SpRelease
  BY <1>6, <1>w DEF SpRelease, CallsLeft, CallLeft
<1> QED BY <1>1, <1>2, <1>3, <1>4, <1>5, <1>6 DEF Next, Consumer

\* A committed frame is never more than 6 * Count + 5 steps of the consumer away from its
\* dequeue and nothing puts it off, for every pool size and every interleaving with the
\* producer (bb_pool.c:89-101): what fairness adds for CommittedIsDequeued is only that
\* the consumer keeps taking steps.
THEOREM DequeueComesNearer == NoWrap => (Spec => []DequeueIsNear /\ DequeueRunsDown)
<1> SUFFICES ASSUME NoWrap PROVE Spec => []DequeueIsNear /\ DequeueRunsDown
  OBVIOUS
<1>1. IInv => DequeueIsNear
  BY NearInWindow
<1>2. IInv /\ [Next]_vars =>
        [ \A k \in 0 .. MaxCommits - 1 :
            Queued(k) => IF cpc' # cpc THEN CallsLeft(k)' < CallsLeft(k)
                                       ELSE CallsLeft(k)' = CallsLeft(k) ]_vars
  BY DequeueNearer
<1> QED BY <1>1, <1>2, InductiveInvariant, PTL DEF Spec, DequeueRunsDown

-----------------------------------------------------------------------------
(* Past the edge of the int indices: here commits may outnumber IntMax, up   *)
(* to the point where write_idx would come round to 0 again.                 *)

OneWrap == MaxCommits <= 2 * IntMax + 1

\* read_idx follows indices the consumer loaded, so it stays in 0 .. IntMax,
\* while write_idx goes negative with the commit after IntMax.
EdgeInv ==
  /\ commits \in Nat
  /\ ppc # "idle" => commits < MaxCommits
  /\ commits <= MaxCommits
  /\ write_idx = IF commits <= IntMax THEN commits ELSE commits - 2 * (IntMax + 1)
  /\ cw \in Int /\ cw <= IntMax
  /\ read_idx \in Int /\ 0 <= read_idx /\ read_idx <= IntMax
  /\ cpc \in {"check", "advance"} => cr = read_idx /\ cr < cw

\* Every look of the consumer finds the pool empty.
Stranded ==
  /\ write_idx < 0
  /\ cpc \in {"idle", "loadR"}
  /\ cpc = "loadR" => cw < 0

LEMMA EdgeInit == Init => EdgeInv
BY BoundsAssumption DEF Init, EdgeInv

LEMMA EdgeStep == OneWrap /\ EdgeInv /\ [Next]_vars => EdgeInv'
<1> SUFFICES ASSUME OneWrap, EdgeInv, [Next]_vars PROVE EdgeInv'
  OBVIOUS
<1> USE BoundsAssumption DEF OneWrap, EdgeInv, producerVars, consumerVars
<1>1. CASE AcquireLoadW
  BY <1>1 DEF AcquireLoadW
<1>2. CASE AcquireLoadR
  BY <1>2 DEF AcquireLoadR
<1>3. CASE AcquireCas
  BY <1>3 DEF AcquireCas
<1>4. CASE WriteData \/ ReleaseUnused
  BY <1>4 DEF WriteData, ReleaseUnused
<1>5. CASE SpCommit
  BY <1>5 DEF SpCommit, Wrap
<1>6. CASE DequeueLoadW
  BY <1>6 DEF DequeueLoadW
<1>7. CASE DequeueLoadR
  BY <1>7 DEF DequeueLoadR, Empty
<1>8. CASE DequeueCheck
  BY <1>8 DEF DequeueCheck
<1>9. CASE DequeueAdvance
  BY <1>9 DEF DequeueAdvance, Wrap
<1>10. CASE SpRelease
  BY <1>10 DEF SpRelease
<1>11. CASE UNCHANGED vars
  BY <1>11 DEF vars
<1> QED
  BY <1>1, <1>2, <1>3, <1>4, <1>5, <1>6, <1>7, <1>8, <1>9, <1>10, <1>11
  DEF Next, Producer, Consumer

LEMMA StrandedStep ==
  OneWrap /\ EdgeInv /\ EdgeInv' /\ Stranded /\ [Next]_vars => Stranded'
<1> SUFFICES ASSUME OneWrap, EdgeInv, EdgeInv', Stranded, [Next]_vars PROVE Stranded'
  OBVIOUS
<1> USE BoundsAssumption DEF OneWrap, EdgeInv, Stranded, producerVars, consumerVars
<1>1. CASE SpCommit
  BY <1>1 DEF SpCommit, Wrap
<1>2. CASE Producer /\ ~SpCommit
  BY <1>2 DEF Producer, AcquireLoadW, AcquireLoadR, AcquireCas, WriteData, ReleaseUnused
<1>3. CASE DequeueLoadW
  BY <1>3 DEF DequeueLoadW
<1>4. CASE DequeueLoadR
  BY <1>4 DEF DequeueLoadR, Empty
<1>5. CASE DequeueCheck \/ DequeueAdvance \/ SpRelease
  BY <1>5 DEF DequeueCheck, DequeueAdvance, SpRelease
<1>6. CASE UNCHANGED vars
  BY <1>6 DEF vars
<1> QED
  BY <1>1, <1>2, <1>3, <1>4, <1>5, <1>6 DEF Next, Producer, Consumer

\* Once a commit has wrapped write_idx, the consumer never gets a frame again
\* (SpscPool!StrandedAfterWrap): the edge of the ints at bb_pool.c:93, for
\* every pool size and every width of the ints.
THEOREM StrandedForEver == OneWrap => (Spec => StrandedAfterWrap)
<1> SUFFICES ASSUME OneWrap PROVE Spec => StrandedAfterWrap
  OBVIOUS
<1>1. Init => EdgeInv
  BY EdgeInit
<1>2. EdgeInv /\ [Next]_vars => EdgeInv'
  BY EdgeStep
<1>3. EdgeInv /\ EdgeInv' /\ Stranded /\ [Next]_vars => Stranded'
  BY StrandedStep
<1>4. write_idx < 0 /\ cpc = "idle" => Stranded
  BY DEF Stranded
<1>5. Stranded => cpc # "hold"
  BY DEF Stranded
<1> QED BY <1>1, <1>2, <1>3, <1>4, <1>5, PTL DEF Spec, StrandedAfterWrap
=============================================================================
