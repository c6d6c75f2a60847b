------------------------- MODULE AudioStreamProofs --------------------------
(***************************************************************************)
(* Proofs about AudioStream for every size of the pools, every limit and   *)
(* any number of sessions.                                                 *)
(*                                                                         *)
(* The program counters say which frame a thread holds, and the caller's   *)
(* says which threads are gone: together they give back every frame at the *)
(* end of stop.  After its drain the codec takes nothing more, while       *)
(* capture, which runs no new round, commits once at most.                 *)
(***************************************************************************)
EXTENDS AudioStream, SequenceTheorems, FiniteSetTheorems, WellFoundedInduction, TLAPS

Idle == {"none", "exited"}
Period == Nat \ {0}

StepTypes ==
  /\ main \in {"stopped", "spawnCodec", "spawnCapture", "started", "joinCapture",
               "joinCodec", "joinPlayback", "crashed"}
  /\ running \in BOOLEAN /\ error \in BOOLEAN /\ sessions \in Nat
  /\ cap \in {"none", "test", "acquire", "read", "discard", "exited"}
  /\ codec \in {"none", "test", "take", "claim", "encode", "enqueue", "drain",
                "sentinel", "exited"}
  /\ pb \in {"none", "test", "dequeue", "write", "exited"}

FrameTypes ==
  /\ captured \in Nat /\ inPeriod \in Nat
  /\ outFrame \in Frames \cup {NoFrame} /\ pbFrame \in Frames \cup {NoFrame}
  /\ spQueue \in Seq(Period)
  /\ mpOwner \in [Frames -> {"free", "filling", "queued", "held"}]
  /\ mpData \in [Frames -> Nat]

Types == StepTypes /\ FrameTypes

\* Who holds what follows from where the threads are.
Owners ==
  /\ inPeriod # 0 <=> codec \in {"claim", "encode"}
  /\ outFrame # NoFrame <=> codec \in {"encode", "enqueue"}
  /\ pbFrame # NoFrame <=> pb = "write"
  /\ \A f \in Frames : /\ mpOwner[f] = "filling" <=> f = outFrame
                       /\ mpOwner[f] = "held" <=> f = pbFrame

\* Which threads are gone follows from where the caller is.
Control ==
  /\ running <=> main \in {"spawnCodec", "spawnCapture", "started"}
  /\ main \in {"stopped", "spawnCodec", "spawnCapture", "joinCodec", "joinPlayback"}
       => cap \in Idle
  /\ main \in {"stopped", "spawnCodec", "joinPlayback"} => codec \in Idle
  /\ main = "stopped" => pb \in Idle

\* The codec leaves its loop after stop has cleared running, and from the end
\* of its drain on only a round of capture under way can still commit.
Coming == IF cap \in {"acquire", "read"} THEN 1 ELSE 0
DrainInv ==
  /\ codec \in {"drain", "sentinel"} => ~running
  /\ codec = "exited" => ~running \/ main = "spawnCodec"
  /\ codec \in {"sentinel", "exited"} /\ ~running => Len(spQueue) + Coming <= 1

\* In the first session a frame of size 0 comes from a failed encode as long as
\* the stream runs, and who has gone has said so.
Silenced == CodecFails /\ lost # {}
DeathInv ==
  /\ sessions = 0 => /\ main = "stopped" /\ cap = "none" /\ codec = "none" /\ pb = "none"
                     /\ \A f \in Frames : mpOwner[f] = "free"
  /\ sessions = 1 /\ running =>
       /\ codec # "exited"
       /\ cap = "exited" => error
       /\ pb = "exited" => error \/ Silenced
       /\ \A f \in Frames : InMp(f) /\ mpData[f] = 0 => Silenced

Inv == Types /\ Owners /\ Control /\ DrainInv /\ DeathInv

USE SizesAssumption, ResultsAssumption

-----------------------------------------------------------------------------
(* Frames and numbers *)

\* NoFrame is not a frame.
LEMMA FramesType == Frames \subseteq Nat /\ NoFrame \in Nat /\ NoFrame \notin Frames
BY DEF Frames, NoFrame

\* A set of frames that is not empty has a lowest-numbered one.
LEMMA MinIsIn ==
  ASSUME NEW S, S \subseteq Nat, S # {}
  PROVE  Min(S) \in S
<1> DEFINE R == OpToRel(<, Nat)
<1>1. \E x \in S : \A y \in S : ~ (<<y, x>> \in R)
  <2>1. IsWellFoundedOn(R, Nat)
    BY NatLessThanWellFounded
  <2> HIDE DEF R
  <2> QED BY <2>1, WFMin
<1>2. \A x, y \in Nat : x < y => <<x, y>> \in R
  BY DEF OpToRel
<1> HIDE DEF R
<1>3. \E x \in S : \A y \in S : x <= y
  <2>1. PICK x \in S : \A y \in S : ~ (<<y, x>> \in R)
    BY <1>1
  <2>2. ASSUME NEW y \in S PROVE x <= y
    <3>1. ~ (y < x)
      BY <1>2, <2>1
    <3> QED BY <3>1
  <2> QED BY <2>1, <2>2
<1> QED BY <1>3 DEF Min

LEMMA LowestFree == FreeFrames # {} => Min(FreeFrames) \in FreeFrames
BY MinIsIn, FramesType DEF FreeFrames

LEMMA LowestQueued == QueuedFrames # {} => Min(QueuedFrames) \in QueuedFrames
BY MinIsIn, FramesType DEF QueuedFrames

-----------------------------------------------------------------------------
LEMMA InitInv == Init => Inv
<1> SUFFICES ASSUME Init PROVE Inv
  OBVIOUS
<1>1. Types
  <2>1. /\ mpOwner \in [Frames -> {"free", "filling", "queued", "held"}]
        /\ mpData \in [Frames -> Nat]
    BY DEF Init
  <2>2. spQueue \in Seq(Period)
    BY EmptySeq DEF Init
  <2> QED BY <2>1, <2>2 DEF Init, Types, StepTypes, FrameTypes
<1>2. Owners
  BY FramesType DEF Init, Owners
<1>3. Control /\ DrainInv /\ DeathInv
  BY DEF Init, Control, Idle, DrainInv, DeathInv
<1> QED BY <1>1, <1>2, <1>3 DEF Inv

LEMMA StutterInv == Inv /\ UNCHANGED vars => Inv'
<1> SUFFICES ASSUME Inv, UNCHANGED vars PROVE Inv'
  OBVIOUS
<1> USE DEF vars, callerVars, capVars, codecVars, pbVars, mpVars
<1>1. Types' /\ Owners'
  BY DEF Inv, Types, StepTypes, FrameTypes, Owners
<1>2. Control' /\ DrainInv'
  BY DEF Inv, Control, DrainInv, Coming
<1>3. DeathInv'
  BY DEF Inv, DeathInv, Silenced, InMp
<1> QED BY <1>1, <1>2, <1>3 DEF Inv

-----------------------------------------------------------------------------
(* The caller: frames and periods stay where they are *)

LEMMA CallerInv == Inv /\ Caller => Inv'
<1> SUFFICES ASSUME Inv, Caller PROVE Inv'
  OBVIOUS
<1> USE DEF capVars, codecVars, pbVars, mpVars, Idle
<1>0. Spawned \subseteq {"test", "none"}
  BY DEF Spawned
<1>1. CASE StartPlayback
  <2>1. pb \in Idle /\ pb' \in {"test", "none"}
    BY <1>0, <1>1 DEF StartPlayback, Inv, Control
  <2>2. Types'
    <3>1. StepTypes'
      <4>1. StepTypes
        BY DEF Inv, Types
      <4>2. /\ main' = "spawnCodec" /\ running' = TRUE /\ error' = FALSE
            /\ sessions' = sessions + 1 /\ cap' = cap /\ codec' = codec
        BY <1>1 DEF StartPlayback
      <4>3. running' \in BOOLEAN /\ error' \in BOOLEAN
        BY <4>2
      <4> QED BY <2>1, <4>1, <4>2, <4>3 DEF StepTypes
    <3>2. FrameTypes'
      BY <1>1 DEF StartPlayback, Inv, Types, FrameTypes
    <3> QED BY <3>1, <3>2 DEF Types
  <2>5. Owners'
    BY <1>1, <2>1 DEF StartPlayback, Inv, Owners
  <2>3. Control' /\ DrainInv'
    BY <1>1, <2>1 DEF StartPlayback, Inv, Types, StepTypes, FrameTypes, Control, DrainInv
  <2>4. DeathInv'
    <3>1. sessions' # 0 /\ (sessions' = 1 => sessions = 0)
      BY <1>1 DEF StartPlayback, Inv, Types, StepTypes, FrameTypes
    <3>2. ASSUME sessions = 0 PROVE DeathInv'
      BY <1>1, <2>1, <3>1, <3>2 DEF StartPlayback, Inv, DeathInv, InMp
    <3> QED BY <3>1, <3>2 DEF DeathInv
  <2> QED BY <2>2, <2>3, <2>4, <2>5 DEF Inv
<1>2. CASE StartCodec
  <2>1. codec \in Idle /\ codec' \in {"test", "none"}
    BY <1>0, <1>2 DEF StartCodec, Inv, Control
  <2>2. Types' /\ Owners'
    BY <1>2, <2>1 DEF StartCodec, Inv, Types, StepTypes, FrameTypes, Owners
  <2>3. Control' /\ DrainInv'
    BY <1>2, <2>1 DEF StartCodec, Inv, Types, StepTypes, FrameTypes, Control, DrainInv
  <2>4. DeathInv'
    BY <1>2, <2>1 DEF StartCodec, Inv, Types, StepTypes, FrameTypes, DeathInv, InMp, Silenced
  <2> QED BY <2>2, <2>3, <2>4 DEF Inv
<1>3. CASE StartCapture
  <2>1. cap \in Idle /\ cap' \in {"test", "none"}
    BY <1>0, <1>3 DEF StartCapture, Inv, Control
  <2>2. Types' /\ Owners'
    BY <1>3, <2>1 DEF StartCapture, Inv, Types, StepTypes, FrameTypes, Owners
  <2>3. Control' /\ DrainInv'
    BY <1>3, <2>1 DEF StartCapture, Inv, Types, StepTypes, FrameTypes, Control, DrainInv
  <2>4. DeathInv'
    BY <1>3, <2>1 DEF StartCapture, Inv, Types, StepTypes, FrameTypes, DeathInv, InMp, Silenced
  <2> QED BY <2>2, <2>3, <2>4 DEF Inv
<1>4. CASE Stop
  <2>1. Types' /\ Owners'
    BY <1>4, ZenonT(40) DEF Stop, Inv, Types, StepTypes, FrameTypes, Owners
  <2>2. Control' /\ DrainInv'
    BY <1>4 DEF Stop, Inv, Types, StepTypes, FrameTypes, Control, DrainInv
  <2>3. DeathInv'
    BY <1>4 DEF Stop, Inv, DeathInv
  <2> QED BY <2>1, <2>2, <2>3 DEF Inv
<1>5. CASE JoinCapture \/ JoinCodec \/ JoinPlayback
  <2>1. /\ UNCHANGED <<running, error, sessions, cap, capXruns, captured, codec,
                       inPeriod, outFrame, retry, pb, pbXruns, pbFrame, played,
                       spQueue, mpOwner, mpData, lost>>
        /\ ~running /\ main # "stopped"
        /\ \/ main = "joinCapture" /\ main' \in {"joinCodec", "crashed"} /\ cap \in Idle
           \/ main = "joinCodec" /\ main' \in {"joinPlayback", "crashed"} /\ codec \in Idle
           \/ main = "joinPlayback" /\ main' \in {"stopped", "crashed"} /\ pb \in Idle
    BY <1>5 DEF JoinCapture, JoinCodec, JoinPlayback, Join, Inv, Control
  <2>2. Types' /\ Owners'
    BY <2>1 DEF Inv, Types, StepTypes, FrameTypes, Owners
  <2>3. Control'
    BY <2>1 DEF Inv, Control
  <2>4. DrainInv'
    BY <2>1 DEF Inv, DrainInv, Coming
  <2>5. DeathInv'
    BY <2>1 DEF Inv, DeathInv
  <2> QED BY <2>2, <2>3, <2>4, <2>5 DEF Inv
<1> QED BY <1>1, <1>2, <1>3, <1>4, <1>5 DEF Caller

-----------------------------------------------------------------------------
(* Capture touches its own counter, the queue and the error flag *)

LEMMA CaptureInv == Inv /\ Capture => Inv'
<1> SUFFICES ASSUME Inv, Capture PROVE Inv'
  OBVIOUS
<1> USE DEF callerVars, capVars, codecVars, pbVars, mpVars
<1>0. /\ UNCHANGED <<main, running, sessions, codec, inPeriod, outFrame, pb, pbFrame,
                     mpOwner, mpData, lost>>
      /\ cap \notin {"none", "exited"}
      /\ cap' \in {"test", "acquire", "read", "discard", "exited"}
      /\ error' \in {error, TRUE}
  BY DEF Capture, CaptureTest, CaptureAcquire, CaptureRead, CaptureDiscard, RaiseError
<1>1. \/ spQueue' = spQueue /\ captured' = captured
      \/ spQueue' = Append(spQueue, captured + 1) /\ captured' = captured + 1
         /\ cap = "read" /\ cap' = "test"
  BY DEF Capture, CaptureTest, CaptureAcquire, CaptureRead, CaptureDiscard
<1>2. Types'
  <2>0. spQueue \in Seq(Period) /\ captured \in Nat /\ captured + 1 \in Period
    BY DEF Inv, Types, StepTypes, FrameTypes, Period
  <2>1. spQueue' \in Seq(Period) /\ captured' \in Nat
    BY <1>1, <2>0, AppendProperties
  <2>2. StepTypes'
    <3>1. StepTypes
      BY DEF Inv, Types
    <3>2. error' \in BOOLEAN
      BY <1>0, <3>1 DEF StepTypes
    <3> QED BY <1>0, <3>1, <3>2 DEF StepTypes
  <2>3. FrameTypes'
    BY <1>0, <2>1 DEF Inv, Types, FrameTypes
  <2> QED BY <2>2, <2>3 DEF Types
<1>3. Owners'
  BY <1>0 DEF Inv, Owners
<1>4. Control'
  BY <1>0 DEF Inv, Control, Idle
<1>5. DrainInv'
  <2>1. ~running => Len(spQueue') + Coming' <= Len(spQueue) + Coming
    <3>0. spQueue \in Seq(Period) /\ captured + 1 \in Period /\ Len(spQueue) \in Nat
      BY DEF Inv, Types, StepTypes, FrameTypes, Period
    <3>1. CASE spQueue' = Append(spQueue, captured + 1) /\ cap = "read" /\ cap' = "test"
      BY <3>0, <3>1 DEF Coming
    <3>2. CASE spQueue' = spQueue
      <4>1. ~running => (cap' \in {"acquire", "read"} => cap \in {"acquire", "read"})
        BY DEF Capture, CaptureTest, CaptureAcquire, CaptureRead, CaptureDiscard
      <4> QED BY <3>0, <3>2, <4>1 DEF Coming
    <3> QED BY <1>1, <3>1, <3>2
  <2>2. Len(spQueue) \in Nat /\ Len(spQueue') \in Nat /\ Coming \in Nat /\ Coming' \in Nat
    BY <1>2 DEF Inv, Types, StepTypes, FrameTypes, Coming
  <2> QED BY <1>0, <2>1, <2>2 DEF Inv, DrainInv
<1>6. DeathInv'
  <2>1. running /\ cap' = "exited" => error'
    BY DEF Capture, CaptureTest, CaptureAcquire, CaptureRead, CaptureDiscard, RaiseError
  <2>2. \A f \in Frames : InMp(f)' <=> InMp(f)
    BY <1>0 DEF InMp
  <2>4. ~ (sessions = 0)
    BY <1>0 DEF Inv, DeathInv
  <2>5. DeathInv /\ (Silenced' <=> Silenced)
    BY <1>0 DEF Inv, Silenced
  <2> HIDE DEF Silenced
  <2> QED BY <1>0, <2>1, <2>2, <2>4, <2>5 DEF DeathInv
<1> QED BY <1>2, <1>3, <1>4, <1>5, <1>6 DEF Inv

-----------------------------------------------------------------------------
(* The codec *)

\* What holds for every step of the codec that keeps types and owners.
LEMMA CodecStepInv ==
  ASSUME Inv, Codec,
         FrameTypes', Owners', codec' \in {"test", "take", "claim", "encode",
           "enqueue", "drain", "sentinel", "exited"},
         codec' = "drain" => ~running,
         codec' = "sentinel" => ~running
           /\ ((codec = "sentinel" /\ spQueue' = spQueue) \/ spQueue' = <<>>),
         codec' = "exited" => codec = "sentinel" /\ spQueue' = spQueue,
         running => \A f \in Frames : InMp(f)' /\ mpData[f]' = 0 =>
                      (InMp(f) /\ mpData[f] = 0) \/ Silenced',
         lost \subseteq lost'
  PROVE  Inv'
<1>0. /\ UNCHANGED <<main, running, error, sessions, cap, captured, pb, pbFrame>>
      /\ codec \notin Idle
  BY DEF Codec, CodecTest, CodecTake, CodecClaim, CodecEncode, CodecEnqueue, CodecDrain,
         CodecSentinel, callerVars, capVars, pbVars, Idle
<1>1. Types'
  <2>1. StepTypes
    BY DEF Inv, Types
  <2>2. StepTypes'
    BY <1>0, <2>1 DEF StepTypes
  <2> QED BY <2>2 DEF Types
<1>2. Control'
  BY <1>0 DEF Inv, Control
<1>3. DrainInv'
  <2>1. Coming' = Coming /\ Coming \in {0, 1}
    BY <1>0 DEF Coming
  <2>2. Len(<<>>) = 0
    BY EmptySeq
  <2> QED BY <1>0, <2>1, <2>2 DEF Inv, DrainInv
<1>4. DeathInv'
  <2>1. sessions # 0
    BY <1>0 DEF Inv, DeathInv, Idle
  <2>2. running => codec' # "exited"
    BY DEF Inv, DrainInv
  <2>3. Silenced => Silenced'
    BY DEF Silenced
  <2>4. DeathInv
    BY DEF Inv
  <2> HIDE DEF Silenced
  <2> QED BY <1>0, <2>1, <2>2, <2>3, <2>4 DEF DeathInv
<1> QED BY <1>1, <1>2, <1>3, <1>4 DEF Inv

LEMMA CodecTestInv == Inv /\ CodecTest => Inv'
<1> SUFFICES ASSUME Inv, CodecTest PROVE Inv'
  OBVIOUS
<1> USE DEF CodecTest, mpVars, pbVars, capVars
<1>0. FrameTypes /\ Owners
  BY DEF Inv, Types
<1>1. FrameTypes' /\ Owners'
  <2>1. FrameTypes'
    BY <1>0 DEF FrameTypes
  <2>2. Owners'
    BY <1>0 DEF Owners
  <2> QED BY <2>1, <2>2
<1>2. codec' \in {"take", "drain"} /\ (codec' = "drain" => ~running)
  OBVIOUS
<1>3. \A f \in Frames : InMp(f)' /\ mpData[f]' = 0 => InMp(f) /\ mpData[f] = 0
  BY DEF InMp
<1> QED BY <1>1, <1>2, <1>3, CodecStepInv DEF Codec

LEMMA CodecTakeInv == Inv /\ CodecTake => Inv'
<1> SUFFICES ASSUME Inv, CodecTake PROVE Inv'
  OBVIOUS
<1> USE DEF CodecTake, mpVars, pbVars, capVars
<1>0. FrameTypes
  BY DEF Inv, Types
<1>1. FrameTypes' /\ Owners'
  <2>1. CASE spQueue = <<>>
    BY <1>0, <2>1 DEF Inv, FrameTypes, Owners
  <2>2. CASE spQueue # <<>>
    <3>1. Head(spQueue) \in Period /\ Tail(spQueue) \in Seq(Period)
      BY <1>0, <2>2, HeadTailProperties DEF FrameTypes
    <3>2. FrameTypes'
      BY <1>0, <2>2, <3>1 DEF FrameTypes, Period
    <3>3. Owners'
      BY <2>2, <3>1 DEF Inv, Owners, Period
    <3> QED BY <3>2, <3>3
  <2> QED BY <2>1, <2>2
<1>2. codec' \in {"test", "claim"} /\ lost' = lost
  OBVIOUS
<1>3. \A f \in Frames : InMp(f)' /\ mpData[f]' = 0 => InMp(f) /\ mpData[f] = 0
  BY DEF InMp
<1> QED BY <1>1, <1>2, <1>3, CodecStepInv DEF Codec

LEMMA CodecClaimInv == Inv /\ CodecClaim => Inv'
<1> SUFFICES ASSUME Inv, CodecClaim PROVE Inv'
  OBVIOUS
<1> USE DEF CodecClaim, pbVars, capVars
<1>0. FrameTypes /\ Owners
  BY DEF Inv, Types
<1>1. CASE FreeFrames # {}
  <2> DEFINE f == Min(FreeFrames)
  <2>1. f \in Frames /\ mpOwner[f] = "free" /\ f # NoFrame
    BY <1>1, LowestFree, FramesType DEF FreeFrames
  <2>2. /\ outFrame' = f /\ mpOwner' = [mpOwner EXCEPT ![f] = "filling"]
        /\ codec' = "encode"
        /\ UNCHANGED <<inPeriod, lost, mpData, captured, spQueue, pb, pbFrame>>
    BY <1>1
  <2> HIDE DEF f
  <2>3. FrameTypes'
    BY <1>0, <2>1, <2>2 DEF FrameTypes
  <2>6. outFrame = NoFrame /\ inPeriod # 0
    BY <1>0 DEF Owners
  <2>4. Owners'
    BY <1>0, <2>1, <2>2, <2>6, FramesType DEF FrameTypes, Owners
  <2>5. \A g \in Frames : InMp(g)' /\ mpData[g]' = 0 => InMp(g) /\ mpData[g] = 0
    BY <1>0, <2>1, <2>2 DEF InMp, FrameTypes
  <2> QED BY <2>2, <2>3, <2>4, <2>5, CodecStepInv DEF Codec
<1>2. CASE FreeFrames = {}
  <2>1. FrameTypes' /\ Owners'
    BY <1>0, <1>2 DEF FrameTypes, Owners
  <2>2. codec' = "test" /\ lost \subseteq lost'
    BY <1>2
  <2>3. \A f \in Frames : InMp(f)' /\ mpData[f]' = 0 => InMp(f) /\ mpData[f] = 0
    BY <1>2 DEF InMp
  <2> QED BY <2>1, <2>2, <2>3, CodecStepInv DEF Codec
<1> QED BY <1>1, <1>2

LEMMA CodecEncodeInv == Inv /\ CodecEncode => Inv'
<1> SUFFICES ASSUME Inv, CodecEncode PROVE Inv'
  OBVIOUS
<1> USE DEF CodecEncode, pbVars, capVars
<1>0. FrameTypes /\ Owners
  BY DEF Inv, Types
<1>1. outFrame \in Frames /\ inPeriod # 0
  BY <1>0 DEF FrameTypes, Owners
<1>2. FrameTypes' /\ Owners'
  BY <1>0, <1>1 DEF FrameTypes, Owners
<1>3. codec' = "enqueue" /\ lost \subseteq lost'
  OBVIOUS
<1>4. \A f \in Frames : InMp(f)' /\ mpData[f]' = 0 =>
                          (InMp(f) /\ mpData[f] = 0) \/ Silenced'
  <2> SUFFICES ASSUME NEW f \in Frames, InMp(f)', mpData[f]' = 0
               PROVE  (InMp(f) /\ mpData[f] = 0) \/ Silenced'
    OBVIOUS
  <2>1. CASE f = outFrame
    BY <1>0, <1>1, <2>1 DEF FrameTypes, Silenced
  <2>2. CASE f # outFrame
    <3>1. mpData[f]' = mpData[f] /\ mpOwner[f]' = mpOwner[f] /\ mpOwner[f] # "filling"
      BY <1>0, <1>1, <2>2 DEF FrameTypes, Owners
    <3> QED BY <3>1 DEF InMp
  <2> QED BY <2>1, <2>2
<1> QED BY <1>2, <1>3, <1>4, CodecStepInv DEF Codec

LEMMA CodecEnqueueInv == Inv /\ CodecEnqueue => Inv'
<1> SUFFICES ASSUME Inv, CodecEnqueue PROVE Inv'
  OBVIOUS
<1> USE DEF CodecEnqueue, pbVars, capVars
<1>0. FrameTypes /\ Owners
  BY DEF Inv, Types
<1>1. outFrame \in Frames /\ mpOwner[outFrame] = "filling"
  BY <1>0 DEF FrameTypes, Owners
<1>2. FrameTypes'
  BY <1>0, <1>1 DEF FrameTypes
<1>3. Owners'
  BY <1>0, <1>1, FramesType DEF FrameTypes, Owners
<1>4. codec' = "test" /\ lost' = lost
  OBVIOUS
<1>5. \A f \in Frames : InMp(f)' /\ mpData[f]' = 0 => InMp(f) /\ mpData[f] = 0
  BY <1>0, <1>1 DEF InMp, FrameTypes
<1> QED BY <1>2, <1>3, <1>4, <1>5, CodecStepInv DEF Codec

LEMMA CodecDrainInv == Inv /\ CodecDrain => Inv'
<1> SUFFICES ASSUME Inv, CodecDrain PROVE Inv'
  OBVIOUS
<1> USE DEF CodecDrain, pbVars, capVars, mpVars
<1>0. FrameTypes /\ Owners /\ ~running
  BY DEF Inv, Types, DrainInv
<1>1. FrameTypes'
  <2>1. spQueue' \in Seq(Period)
    BY <1>0, HeadTailProperties DEF FrameTypes
  <2> QED BY <1>0, <2>1 DEF FrameTypes
<1>2. Owners'
  BY <1>0 DEF Owners
<1>3. /\ codec' \in {"drain", "sentinel"} /\ lost \subseteq lost'
      /\ codec' = "sentinel" => spQueue' = <<>>
  OBVIOUS
<1> QED BY <1>0, <1>1, <1>2, <1>3, CodecStepInv DEF Codec

LEMMA CodecSentinelInv == Inv /\ CodecSentinel => Inv'
<1> SUFFICES ASSUME Inv, CodecSentinel PROVE Inv'
  OBVIOUS
<1> USE DEF CodecSentinel, pbVars, capVars, mpVars
<1>0. FrameTypes /\ Owners /\ ~running
  BY DEF Inv, Types, DrainInv
<1>1. codec' \in {"sentinel", "exited"} /\ UNCHANGED <<spQueue, lost, inPeriod, outFrame>>
  OBVIOUS
<1>2. FrameTypes' /\ Owners'
  <2>1. CASE FreeFrames = {}
    BY <1>0, <1>1, <2>1 DEF FrameTypes, Owners
  <2>2. CASE FreeFrames # {}
    <3> DEFINE f == Min(FreeFrames)
    <3>1. f \in Frames /\ mpOwner[f] = "free" /\ f # NoFrame
      BY <2>2, LowestFree, FramesType DEF FreeFrames
    <3>2. /\ mpOwner' = [mpOwner EXCEPT ![f] = "queued"]
          /\ mpData' = [mpData EXCEPT ![f] = 0]
          /\ UNCHANGED <<captured, pb, pbFrame>>
      BY <2>2
    <3> HIDE DEF f
    <3>3. FrameTypes'
      BY <1>0, <1>1, <3>1, <3>2 DEF FrameTypes
    <3>4. Owners'
      BY <1>0, <1>1, <3>1, <3>2 DEF FrameTypes, Owners
    <3> QED BY <3>3, <3>4
  <2> QED BY <2>1, <2>2
<1> QED BY <1>0, <1>1, <1>2, CodecStepInv DEF Codec

LEMMA CodecInv == Inv /\ Codec => Inv'
BY CodecTestInv, CodecTakeInv, CodecClaimInv, CodecEncodeInv, CodecEnqueueInv,
   CodecDrainInv, CodecSentinelInv DEF Codec

-----------------------------------------------------------------------------
(* Playback touches its frame and the error flag *)

LEMMA PlaybackInv == Inv /\ Playback => Inv'
<1> SUFFICES ASSUME Inv, Playback PROVE Inv'
  OBVIOUS
<1> USE DEF callerVars, capVars, codecVars
<1>0. /\ UNCHANGED <<main, running, sessions, cap, captured, codec, inPeriod, outFrame,
                     spQueue, mpData>>
      /\ pb \notin Idle
      /\ pb' \in {"test", "dequeue", "write", "exited"}
      /\ error' \in {error, TRUE} /\ lost \subseteq lost'
  BY DEF Playback, PlaybackTest, PlaybackDequeue, PlaybackWrite, RaiseError, Idle, mpVars
<1>1. FrameTypes /\ Owners /\ StepTypes
  BY DEF Inv, Types
<1>2. StepTypes'
  <2>1. error' \in BOOLEAN
    BY <1>0, <1>1 DEF StepTypes
  <2> QED BY <1>0, <1>1, <2>1 DEF StepTypes
<1>3. /\ FrameTypes' /\ Owners'
      /\ \A f \in Frames : InMp(f)' => InMp(f)
  <2>1. CASE PlaybackTest
    BY <1>0, <1>1, <2>1 DEF PlaybackTest, FrameTypes, Owners, InMp, mpVars
  <2>2. CASE PlaybackDequeue
    <3> DEFINE f == Min(QueuedFrames)
    <3>1. f \in Frames /\ mpOwner[f] = "queued" /\ f # NoFrame /\ f # pbFrame
      BY <1>1, <2>2, LowestQueued, FramesType DEF PlaybackDequeue, QueuedFrames, Owners
    <3>2. \/ mpOwner' = [mpOwner EXCEPT ![f] = "free"] /\ pb' = "exited" /\ pbFrame' = pbFrame
          \/ mpOwner' = [mpOwner EXCEPT ![f] = "held"] /\ pb' = "write" /\ pbFrame' = f
      BY <2>2 DEF PlaybackDequeue
    <3>3. pbFrame = NoFrame
      BY <1>1, <2>2 DEF PlaybackDequeue, Owners
    <3> HIDE DEF f
    <3>4. FrameTypes'
      BY <1>0, <1>1, <3>1, <3>2 DEF FrameTypes
    <3>5. Owners'
      BY <1>0, <1>1, <3>1, <3>2, <3>3, FramesType DEF FrameTypes, Owners
    <3>6. \A g \in Frames : InMp(g)' => InMp(g)
      BY <1>0, <1>1, <3>1, <3>2 DEF FrameTypes, InMp
    <3> QED BY <3>4, <3>5, <3>6
  <2>3. CASE PlaybackWrite
    <3>1. /\ mpOwner' = [mpOwner EXCEPT ![pbFrame] = "free"] /\ pbFrame' = NoFrame
          /\ pb' \in {"test", "exited"} /\ pb = "write"
      BY <2>3 DEF PlaybackWrite
    <3>2. pbFrame \in Frames /\ mpOwner[pbFrame] = "held"
      BY <1>1, <3>1 DEF FrameTypes, Owners
    <3>3. FrameTypes'
      BY <1>0, <1>1, <3>1, <3>2 DEF FrameTypes
    <3>4. Owners'
      BY <1>0, <1>1, <3>1, <3>2, FramesType DEF FrameTypes, Owners
    <3>5. \A g \in Frames : InMp(g)' => InMp(g)
      BY <1>0, <1>1, <3>1, <3>2 DEF FrameTypes, InMp
    <3> QED BY <3>3, <3>4, <3>5
  <2> QED BY <2>1, <2>2, <2>3 DEF Playback
<1>4. Control'
  BY <1>0 DEF Inv, Control, Idle
<1>5. DrainInv'
  BY <1>0 DEF Inv, DrainInv, Coming
<1>6. DeathInv'
  <2>1. sessions # 0
    BY <1>0 DEF Inv, DeathInv, Idle
  <2>2. Silenced => Silenced'
    BY <1>0 DEF Silenced
  <2>3. sessions = 1 /\ running /\ pb' = "exited" => error' \/ Silenced
    <3>1. ASSUME sessions = 1, running, PlaybackDequeue, pb' = "exited" PROVE Silenced
      <4>1. Min(QueuedFrames) \in Frames /\ InMp(Min(QueuedFrames))
        BY <3>1, LowestQueued DEF PlaybackDequeue, QueuedFrames, InMp
      <4>2. mpData[Min(QueuedFrames)] = 0
        BY <3>1 DEF PlaybackDequeue
      <4> QED BY <3>1, <4>1, <4>2 DEF Inv, DeathInv
    <3>2. ASSUME running, PlaybackTest \/ PlaybackWrite, pb' = "exited" PROVE error'
      BY <3>2 DEF PlaybackTest, PlaybackWrite, RaiseError
    <3> QED BY <3>1, <3>2 DEF Playback
  <2>4. error => error'
    BY <1>0
  <2>5. DeathInv
    BY DEF Inv
  <2> HIDE DEF Silenced, InMp
  <2> QED BY <1>0, <1>3, <2>1, <2>2, <2>3, <2>4, <2>5 DEF DeathInv
<1> QED BY <1>2, <1>3, <1>4, <1>5, <1>6 DEF Inv, Types

-----------------------------------------------------------------------------
LEMMA NextInv == Inv /\ [Next]_vars => Inv'
BY CallerInv, CaptureInv, CodecInv, PlaybackInv, StutterInv DEF Next

\* The inductive invariant, for every size of the pools.
THEOREM InductiveInvariant == Spec => []Inv
<1> QED BY InitInv, NextInv, PTL DEF Spec

\* When stop returns no thread that is gone holds a frame, for every size of
\* the pools and whatever failed (bb_audio_stream.c:75, :122, :145, :186-215).
THEOREM NoFrameLeaks == Spec => []StopLeaksNoFrame
<1>1. Inv => StopLeaksNoFrame
  BY FramesType DEF Inv, Types, FrameTypes, Owners, Control, Idle, StopLeaksNoFrame
<1> QED BY <1>1, InductiveInvariant, PTL

\* The drain at the end of the codec misses one period at most
\* (bb_audio_stream.c:149-155).
THEOREM OneLeftAtMost == Spec => []StopLeavesAtMostOne
<1>1. Inv => StopLeavesAtMostOne
  BY DEF Inv, Control, DrainInv, Coming, Idle, StopLeavesAtMostOne
<1> QED BY <1>1, InductiveInvariant, PTL

\* Who dies while the first session runs has raised s->error, or a failed
\* encode has sent playback home (bb_audio_stream.c:62-86, :135, :185, :199-206).
THEOREM DeathsAreFlagged == Spec => []DeathIsFlagged
<1>1. Inv => DeathIsFlagged
  BY DEF Inv, DeathInv, Silenced, DeathIsFlagged
<1> QED BY <1>1, InductiveInvariant, PTL

-----------------------------------------------------------------------------
(* Every period is in one place *)

Occurs(s, n) == \E i \in DOMAIN s : s[i] = n
Distinct(s)  == \A i, j \in DOMAIN s : s[i] = s[j] => i = j

InSp(n)   == Occurs(spQueue, n)
InPool(n) == \E f \in Frames : InMp(f) /\ mpData[f] = n

Once(n) ==
  /\ InSp(n) \/ inPeriod = n \/ InPool(n) \/ n \in played \/ n \in lost
  /\ InSp(n) => inPeriod # n /\ ~InPool(n) /\ n \notin played /\ n \notin lost
  /\ inPeriod = n => ~InPool(n) /\ n \notin played /\ n \notin lost
  /\ InPool(n) => n \notin played /\ n \notin lost
  /\ n \in played => n \notin lost

\* Nothing from the future, nothing twice in a pool, and Once.
KnownInv ==
  /\ \A i \in DOMAIN spQueue : spQueue[i] <= captured
  /\ inPeriod <= captured
  /\ \A f \in Frames : InMp(f) => mpData[f] <= captured
  /\ played \subseteq 1 .. captured /\ lost \subseteq 1 .. captured
DistinctInv ==
  /\ Distinct(spQueue)
  /\ \A f, g \in Frames :
       InMp(f) /\ InMp(g) /\ mpData[f] = mpData[g] /\ mpData[f] # 0 => f = g
WriteInv == pb = "write" => mpData[pbFrame] # 0
OnceInv  == \A n \in 1 .. captured : Once(n)

PlaceInv == KnownInv /\ DistinctInv /\ WriteInv /\ OnceInv

LEMMA AppendOccurs ==
  ASSUME NEW s \in Seq(Period), NEW m \in Period, Distinct(s), ~Occurs(s, m)
  PROVE  /\ Distinct(Append(s, m))
         /\ \A n : Occurs(Append(s, m), n) <=> Occurs(s, n) \/ n = m
<1>1. /\ Append(s, m) \in Seq(Period) /\ Len(Append(s, m)) = Len(s) + 1
      /\ \A i \in 1 .. Len(s) : Append(s, m)[i] = s[i]
      /\ Append(s, m)[Len(s) + 1] = m
  BY AppendProperties
<1>2. DOMAIN s = 1 .. Len(s) /\ DOMAIN Append(s, m) = 1 .. Len(s) + 1 /\ Len(s) \in Nat
  BY <1>1, LenProperties
<1>3. \A i \in 1 .. Len(s) + 1 : i \in 1 .. Len(s) \/ i = Len(s) + 1
  BY <1>2
<1>4. Distinct(Append(s, m))
  BY <1>1, <1>2, <1>3 DEF Distinct, Occurs
<1>5. ASSUME NEW n PROVE Occurs(Append(s, m), n) <=> Occurs(s, n) \/ n = m
  BY <1>1, <1>2, <1>3 DEF Occurs
<1> QED BY <1>4, <1>5

LEMMA TailOccurs ==
  ASSUME NEW s \in Seq(Period), s # <<>>, Distinct(s)
  PROVE  /\ Distinct(Tail(s))
         /\ ~Occurs(Tail(s), Head(s))
         /\ \A n : Occurs(s, n) <=> Occurs(Tail(s), n) \/ n = Head(s)
<1>1. /\ Len(s) \in Nat \ {0} /\ Head(s) = s[1]
      /\ Tail(s) \in Seq(Period) /\ Len(Tail(s)) = Len(s) - 1
      /\ \A i \in 1 .. Len(Tail(s)) : Tail(s)[i] = s[i + 1]
  <2>1. Len(s) # 0
    BY EmptySeq
  <2> QED BY <2>1, HeadTailProperties, LenProperties
<1>2. DOMAIN s = 1 .. Len(s) /\ DOMAIN Tail(s) = 1 .. Len(s) - 1
  BY <1>1, LenProperties
<1>3. \A i \in 1 .. Len(s) - 1 : i + 1 \in 1 .. Len(s) /\ i + 1 # 1
  BY <1>1
<1>4. Distinct(Tail(s))
  BY <1>1, <1>2, <1>3 DEF Distinct
<1>5. ~Occurs(Tail(s), Head(s))
  BY <1>1, <1>2, <1>3 DEF Distinct, Occurs
<1>6. ASSUME NEW n PROVE Occurs(s, n) <=> Occurs(Tail(s), n) \/ n = Head(s)
  <2>1. \A i \in 1 .. Len(s) : i = 1 \/ (i - 1 \in 1 .. Len(s) - 1 /\ (i - 1) + 1 = i)
    BY <1>1
  <2>2. ASSUME Occurs(s, n) PROVE Occurs(Tail(s), n) \/ n = Head(s)
    <3>1. PICK i \in 1 .. Len(s) : s[i] = n
      BY <1>2, <2>2 DEF Occurs
    <3>2. i = 1 \/ Tail(s)[i - 1] = n
      BY <1>1, <2>1, <3>1
    <3> QED BY <1>1, <1>2, <2>1, <3>1, <3>2 DEF Occurs
  <2>3. ASSUME Occurs(Tail(s), n) PROVE Occurs(s, n)
    BY <1>1, <1>2, <1>3, <2>3 DEF Occurs
  <2>4. Occurs(s, Head(s))
    BY <1>1, <1>2 DEF Occurs
  <2> QED BY <2>2, <2>3, <2>4
<1> QED BY <1>4, <1>5, <1>6

LEMMA InitPlace == Init => PlaceInv
<1> SUFFICES ASSUME Init PROVE PlaceInv
  OBVIOUS
<1>1. \A f \in Frames : ~InMp(f)
  BY DEF Init, InMp
<1>2. DOMAIN spQueue = {}
  BY EmptySeq, LenProperties DEF Init
<1>3. KnownInv /\ DistinctInv
  BY <1>1, <1>2 DEF Init, KnownInv, DistinctInv, Distinct
<1>4. WriteInv /\ OnceInv
  BY DEF Init, WriteInv, OnceInv
<1> QED BY <1>3, <1>4 DEF PlaceInv

\* A step that moves no period.
LEMMA StayPlace ==
  ASSUME Inv, PlaceInv,
         UNCHANGED <<spQueue, inPeriod, captured, played, lost>>,
         \A f \in Frames : mpData[f]' # 0 =>
           (InMp(f)' <=> InMp(f)) /\ mpData[f]' = mpData[f],
         \A f \in Frames : mpData[f] # 0 /\ InMp(f) => mpData[f]' = mpData[f],
         WriteInv'
  PROVE  PlaceInv'
<1>0. captured \in Nat
  BY DEF Inv, Types, FrameTypes
<1>1. \A n \in 1 .. captured : InPool(n)' <=> InPool(n)
  BY <1>0 DEF InPool
<1>2. OnceInv'
  BY <1>1 DEF PlaceInv, OnceInv, Once, InSp, Occurs
<1>3. KnownInv'
  <2>1. ASSUME NEW f \in Frames, InMp(f)' PROVE mpData[f]' <= captured
    BY <1>0, <2>1 DEF PlaceInv, KnownInv
  <2> QED BY <2>1 DEF PlaceInv, KnownInv
<1>4. DistinctInv'
  BY DEF PlaceInv, DistinctInv, Distinct
<1> QED BY <1>2, <1>3, <1>4 DEF PlaceInv

\* The pool after a step that leaves it alone.
LEMMA PoolStays ==
  ASSUME UNCHANGED <<mpOwner, mpData>>, codec' = codec \/ {codec, codec'} \cap {"enqueue"} = {}
  PROVE  /\ \A f \in Frames : (InMp(f)' <=> InMp(f)) /\ mpData[f]' = mpData[f]
         /\ \A n : InPool(n)' <=> InPool(n)
BY DEF InMp, InPool

LEMMA CallerPlace == Inv /\ Inv' /\ PlaceInv /\ Caller => PlaceInv'
<1> SUFFICES ASSUME Inv, Inv', PlaceInv, Caller PROVE PlaceInv'
  OBVIOUS
<1> USE DEF capVars, codecVars, pbVars, mpVars
<1>1. /\ UNCHANGED <<spQueue, inPeriod, captured, played, lost, pbFrame, mpOwner, mpData>>
      /\ codec' = codec \/ codec' \in {"test", "none"}
      /\ pb' = pb \/ pb' \in {"test", "none"}
      /\ codec' = codec \/ codec \in Idle
  BY DEF Caller, StartPlayback, StartCodec, StartCapture, Stop, JoinCapture, JoinCodec,
         JoinPlayback, Join, Spawned, Inv, Control
<1>2. WriteInv'
  BY <1>1 DEF PlaceInv, WriteInv
<1>3. \A f \in Frames : (InMp(f)' <=> InMp(f)) /\ mpData[f]' = mpData[f]
  BY <1>1, PoolStays DEF Idle
<1> QED BY <1>1, <1>2, <1>3, StayPlace

LEMMA CapturePlace == Inv /\ Inv' /\ PlaceInv /\ Capture => PlaceInv'
<1> SUFFICES ASSUME Inv, Inv', PlaceInv, Capture PROVE PlaceInv'
  OBVIOUS
<1> USE DEF callerVars, capVars, codecVars, pbVars, mpVars
<1>0. UNCHANGED <<codec, inPeriod, pb, pbFrame, played, mpOwner, mpData, lost>>
  BY DEF Capture, CaptureTest, CaptureAcquire, CaptureRead, CaptureDiscard
<1>1. /\ \A f \in Frames : (InMp(f)' <=> InMp(f)) /\ mpData[f]' = mpData[f]
      /\ \A n : InPool(n)' <=> InPool(n)
  BY <1>0, PoolStays
<1>2. WriteInv'
  BY <1>0 DEF PlaceInv, WriteInv
<1>3. CASE spQueue' = spQueue /\ captured' = captured
  BY <1>0, <1>1, <1>2, <1>3, StayPlace
<1>4. CASE spQueue' = Append(spQueue, captured + 1) /\ captured' = captured + 1
  <2>t. captured \in Nat /\ spQueue \in Seq(Period) /\ captured + 1 \in Period
    BY DEF Inv, Types, FrameTypes, Period
  <2>m. PICK m : m = captured + 1
    OBVIOUS
  <2>0. /\ captured \in Nat /\ m = captured + 1 /\ m \in Period /\ spQueue \in Seq(Period)
        /\ captured' \in Nat /\ spQueue' \in Seq(Period)
    BY <2>t, <2>m DEF Inv, Types, FrameTypes
  <2>1. \A i \in DOMAIN spQueue : spQueue[i] <= captured /\ spQueue[i] \in Nat
    <3>1. \A i \in DOMAIN spQueue : spQueue[i] \in Period
      BY <2>0, ElementOfSeq, LenProperties
    <3> QED BY <3>1 DEF PlaceInv, KnownInv, Period
  <2>2. ~Occurs(spQueue, m)
    BY <2>0, <2>1 DEF Occurs
  <2>3. /\ Distinct(spQueue')
        /\ \A n : InSp(n)' <=> InSp(n) \/ n = m
    BY <1>4, <2>0, <2>2, AppendOccurs DEF PlaceInv, DistinctInv, InSp, Occurs
  <2>4. \A i \in DOMAIN spQueue' : spQueue'[i] <= captured'
    <3> SUFFICES ASSUME NEW i \in DOMAIN spQueue' PROVE spQueue'[i] <= captured'
      OBVIOUS
    <3>1. Occurs(spQueue, spQueue'[i]) \/ spQueue'[i] = m
      BY <2>3 DEF InSp, Occurs
    <3>2. CASE spQueue'[i] = m
      BY <1>4, <2>0, <3>2
    <3>3. CASE Occurs(spQueue, spQueue'[i])
      BY <1>4, <2>0, <2>1, <3>3 DEF Occurs
    <3> QED BY <3>1, <3>2, <3>3
  <2>5. KnownInv'
    <3>1. inPeriod' <= captured'
      BY <1>0, <1>4, <2>0 DEF PlaceInv, KnownInv, Inv, Types, FrameTypes
    <3>2. \A f \in Frames : InMp(f)' => mpData[f]' <= captured'
      BY <1>1, <1>4, <2>0 DEF PlaceInv, KnownInv, Inv, Types, FrameTypes
    <3>3. played' \subseteq 1 .. captured' /\ lost' \subseteq 1 .. captured'
      BY <1>0, <1>4, <2>0 DEF PlaceInv, KnownInv
    <3> QED BY <2>4, <3>1, <3>2, <3>3 DEF KnownInv
  <2>6. DistinctInv'
    BY <1>1, <2>3 DEF PlaceInv, DistinctInv
  <2>7. OnceInv'
    <3>1. ASSUME NEW n \in 1 .. captured PROVE Once(n)'
      <4>1. n # m
        BY <2>0
      <4> QED BY <1>0, <1>1, <2>3, <4>1 DEF PlaceInv, OnceInv, Once
    <3>2. Once(m)'
      <4>1. inPeriod # m /\ m \notin played /\ m \notin lost
        BY <2>0 DEF PlaceInv, KnownInv, Inv, Types, FrameTypes
      <4>2. ~InPool(m)
        BY <2>0 DEF PlaceInv, KnownInv, InPool, Inv, Types, FrameTypes
      <4> QED BY <1>0, <1>1, <2>3, <4>1, <4>2 DEF Once
    <3>3. \A n \in 1 .. captured' : n \in 1 .. captured \/ n = m
      BY <1>4, <2>0
    <3> QED BY <3>1, <3>2, <3>3 DEF OnceInv
  <2> QED BY <1>2, <2>5, <2>6, <2>7 DEF PlaceInv
<1> QED BY <1>3, <1>4 DEF Capture, CaptureTest, CaptureAcquire, CaptureRead, CaptureDiscard

\* The oldest committed period leaves the queue: for the codec's hands, or for
\* good.
LEMMA HeadPlace ==
  ASSUME Inv, Inv', PlaceInv, spQueue # <<>>, spQueue' = Tail(spQueue),
         UNCHANGED <<captured, played, mpOwner, mpData, pb, pbFrame>>,
         {codec, codec'} \cap {"enqueue"} = {},
         \/ inPeriod = 0 /\ inPeriod' = Head(spQueue) /\ lost' = lost
         \/ inPeriod' = inPeriod /\ lost' = lost \cup {Head(spQueue)}
  PROVE  PlaceInv'
<1>h. PICK h : h = Head(spQueue)
  OBVIOUS
<1>0. /\ captured \in Nat /\ spQueue \in Seq(Period) /\ h \in Period /\ inPeriod \in Nat
  BY <1>h, HeadTailProperties DEF Inv, Types, FrameTypes
<1>1. /\ Distinct(spQueue') /\ ~InSp(h)'
      /\ \A n : InSp(n) <=> InSp(n)' \/ n = h
  <2>1. Distinct(spQueue)
    BY DEF PlaceInv, DistinctInv
  <2>2. \A n : InSp(n)' <=> Occurs(Tail(spQueue), n)
    BY DEF InSp, Occurs
  <2> QED BY <1>h, <1>0, <2>1, <2>2, TailOccurs DEF InSp
<1>2. \A i \in DOMAIN spQueue' : spQueue'[i] <= captured
  <2> SUFFICES ASSUME NEW i \in DOMAIN spQueue' PROVE spQueue'[i] <= captured
    OBVIOUS
  <2>1. InSp(spQueue'[i])
    BY <1>1 DEF InSp, Occurs
  <2> QED BY <2>1 DEF PlaceInv, KnownInv, InSp, Occurs
<1>3. h \in 1 .. captured
  <2>1. InSp(h)
    BY <1>1
  <2>2. h <= captured
    BY <2>1 DEF PlaceInv, KnownInv, InSp, Occurs
  <2> QED BY <1>0, <2>2 DEF Period
<1>4. /\ \A f \in Frames : (InMp(f)' <=> InMp(f)) /\ mpData[f]' = mpData[f]
      /\ \A n : InPool(n)' <=> InPool(n)
  BY PoolStays
<1>5. KnownInv'
  <2>3. captured' = captured /\ inPeriod' \in {inPeriod, h} /\ lost' \subseteq lost \cup {h}
    BY <1>h
  <2>4. inPeriod <= captured /\ lost \subseteq 1 .. captured /\ played \subseteq 1 .. captured
    BY DEF PlaceInv, KnownInv
  <2>1. inPeriod' <= captured' /\ lost' \subseteq 1 .. captured' /\ played' \subseteq 1 .. captured'
    BY <1>0, <1>3, <2>3, <2>4
  <2>2. \A f \in Frames : InMp(f)' => mpData[f]' <= captured'
    BY <1>4 DEF PlaceInv, KnownInv
  <2> QED BY <1>2, <2>1, <2>2 DEF KnownInv
<1>6. DistinctInv' /\ WriteInv'
  BY <1>1, <1>4 DEF PlaceInv, DistinctInv, WriteInv
<1>7. OnceInv'
  <2> SUFFICES ASSUME NEW n \in 1 .. captured PROVE Once(n)'
    BY DEF OnceInv
  <2>1. Once(n) /\ Once(h)
    BY <1>3 DEF PlaceInv, OnceInv
  <2>2. n # 0 /\ h # 0
    BY <1>0 DEF Period
  <2>3. InSp(n)' <=> InSp(n) /\ n # h
    BY <1>1
  <2>4. InSp(h)
    BY <1>1
  <2>5. CASE inPeriod = 0 /\ inPeriod' = h /\ lost' = lost
    BY <1>h, <1>4, <2>1, <2>2, <2>3, <2>4, <2>5 DEF Once
  <2>6. CASE inPeriod' = inPeriod /\ lost' = lost \cup {h}
    BY <1>4, <2>1, <2>2, <2>3, <2>4, <2>6 DEF Once
  <2> QED BY <1>h, <2>5, <2>6
<1> QED BY <1>5, <1>6, <1>7 DEF PlaceInv

LEMMA CodecPlace == Inv /\ Inv' /\ PlaceInv /\ Codec => PlaceInv'
<1> SUFFICES ASSUME Inv, Inv', PlaceInv, Codec PROVE PlaceInv'
  OBVIOUS
<1> USE DEF callerVars, capVars, pbVars, mpVars
<1>0. /\ UNCHANGED <<captured, played, pb, pbFrame>>
      /\ FrameTypes /\ Owners /\ FrameTypes'
  BY DEF Codec, CodecTest, CodecTake, CodecClaim, CodecEncode, CodecEnqueue, CodecDrain,
         CodecSentinel, Inv, Types
<1>w. ASSUME \A f \in Frames : mpOwner[f] = "held" => mpData[f]' = mpData[f]
      PROVE  WriteInv'
  <2>1. pb = "write" => pbFrame \in Frames /\ mpOwner[pbFrame] = "held"
    BY <1>0 DEF Owners, FrameTypes
  <2> QED BY <1>0, <1>w, <2>1 DEF PlaceInv, WriteInv
<1>1. CASE CodecTest
  <2>1. /\ UNCHANGED <<spQueue, inPeriod, lost, mpOwner, mpData>>
        /\ {codec, codec'} \cap {"enqueue"} = {}
    BY <1>1 DEF CodecTest
  <2>2. \A f \in Frames : (InMp(f)' <=> InMp(f)) /\ mpData[f]' = mpData[f]
    BY <2>1, PoolStays
  <2> QED BY <1>0, <1>w, <2>1, <2>2, StayPlace
<1>2. CASE CodecTake
  <2>1. /\ UNCHANGED <<lost, mpOwner, mpData>>
        /\ {codec, codec'} \cap {"enqueue"} = {}
        /\ inPeriod = 0
    BY <1>0, <1>2 DEF CodecTake, Owners
  <2>2. CASE spQueue = <<>>
    <3>1. \A f \in Frames : (InMp(f)' <=> InMp(f)) /\ mpData[f]' = mpData[f]
      BY <2>1, PoolStays
    <3>2. UNCHANGED <<spQueue, inPeriod>>
      BY <1>2, <2>2 DEF CodecTake
    <3> QED BY <1>0, <1>w, <2>1, <3>1, <3>2, StayPlace
  <2>3. CASE spQueue # <<>>
    <3>1. spQueue' = Tail(spQueue) /\ inPeriod' = Head(spQueue)
      BY <1>2, <2>3 DEF CodecTake
    <3> QED BY <1>0, <2>1, <2>3, <3>1, HeadPlace
  <2> QED BY <2>2, <2>3
<1>3. CASE CodecClaim /\ FreeFrames # {}
  <2>h. PICK h : h = Min(FreeFrames)
    OBVIOUS
  <2>1. h \in Frames /\ mpOwner[h] = "free"
    BY <1>3, <2>h, LowestFree DEF FreeFrames
  <2>2. /\ UNCHANGED <<spQueue, inPeriod, lost, mpData>>
        /\ mpOwner' = [mpOwner EXCEPT ![h] = "filling"]
        /\ {codec, codec'} \cap {"enqueue"} = {}
    BY <1>3, <2>h DEF CodecClaim
  <2>3. \A f \in Frames : (InMp(f)' <=> InMp(f)) /\ mpData[f]' = mpData[f]
    BY <1>0, <2>1, <2>2 DEF InMp, FrameTypes
  <2> QED BY <1>0, <1>w, <2>2, <2>3, StayPlace
<1>4. CASE CodecClaim /\ FreeFrames = {}
  <2>1. /\ UNCHANGED <<spQueue, mpOwner, mpData>>
        /\ {codec, codec'} \cap {"enqueue"} = {}
        /\ inPeriod # 0 /\ inPeriod' = 0 /\ lost' = lost \cup {inPeriod}
    BY <1>0, <1>4 DEF CodecClaim, Owners
  <2>2. /\ \A f \in Frames : (InMp(f)' <=> InMp(f)) /\ mpData[f]' = mpData[f]
        /\ \A n : InPool(n)' <=> InPool(n)
    BY <2>1, PoolStays
  <2>3. inPeriod \in 1 .. captured /\ captured \in Nat
    BY <1>0, <2>1 DEF PlaceInv, KnownInv, FrameTypes
  <2>4. KnownInv'
    <3>1. lost' \subseteq 1 .. captured' /\ played' \subseteq 1 .. captured' /\ inPeriod' <= captured'
      BY <1>0, <2>1, <2>3 DEF PlaceInv, KnownInv
    <3> QED BY <1>0, <2>1, <2>2, <3>1 DEF PlaceInv, KnownInv
  <2>5. DistinctInv'
    BY <2>1, <2>2 DEF PlaceInv, DistinctInv, Distinct
  <2>6. OnceInv'
    <3> SUFFICES ASSUME NEW n \in 1 .. captured PROVE Once(n)'
      BY <1>0 DEF OnceInv
    <3>1. Once(n) /\ n # 0 /\ (InSp(n)' <=> InSp(n))
      BY <2>1, <2>3 DEF PlaceInv, OnceInv, InSp, Occurs
    <3> QED BY <1>0, <2>1, <2>2, <3>1 DEF Once
  <2> QED BY <1>0, <1>w, <2>2, <2>4, <2>5, <2>6 DEF PlaceInv
<1>5. CASE CodecEncode
  <2>h. PICK h : h = outFrame
    OBVIOUS
  <2>1. /\ h \in Frames /\ mpOwner[h] = "filling" /\ ~InMp(h)
        /\ codec = "encode" /\ codec' = "enqueue"
        /\ inPeriod # 0 /\ inPeriod' = 0
        /\ UNCHANGED <<spQueue, mpOwner>>
    BY <1>0, <1>5, <2>h DEF CodecEncode, Owners, FrameTypes, InMp
  <2>2. \/ mpData' = [mpData EXCEPT ![h] = inPeriod] /\ lost' = lost
        \/ mpData' = [mpData EXCEPT ![h] = 0] /\ lost' = lost \cup {inPeriod}
    BY <1>5, <2>h DEF CodecEncode
  <2>3. \A f \in Frames : f # h => /\ mpOwner[f] # "filling"
                                   /\ InMp(f)' <=> InMp(f)
                                   /\ mpData[f]' = mpData[f]
    BY <1>0, <2>h, <2>1, <2>2 DEF InMp, Owners, FrameTypes
  <2>4. InMp(h)' /\ mpData[h]' \in {inPeriod, 0}
    BY <1>0, <2>1, <2>2 DEF InMp, FrameTypes
  <2>5. inPeriod \in 1 .. captured /\ captured \in Nat
    BY <1>0, <2>1 DEF PlaceInv, KnownInv, FrameTypes
  <2>6. KnownInv'
    <3>a. /\ captured' = captured /\ played' = played /\ inPeriod' = 0
          /\ lost' \subseteq lost \cup {inPeriod}
      BY <1>0, <2>1, <2>2
    <3>b. lost \subseteq 1 .. captured /\ played \subseteq 1 .. captured
      BY DEF PlaceInv, KnownInv
    <3>1. lost' \subseteq 1 .. captured' /\ played' \subseteq 1 .. captured' /\ inPeriod' <= captured'
      BY <2>5, <3>a, <3>b
    <3>2. \A f \in Frames : InMp(f)' => mpData[f]' <= captured'
      BY <1>0, <2>3, <2>4, <2>5 DEF PlaceInv, KnownInv
    <3> QED BY <1>0, <2>1, <3>1, <3>2 DEF PlaceInv, KnownInv
  <2>7. Once(inPeriod)
    BY <2>5 DEF PlaceInv, OnceInv
  <2>8. DistinctInv'
    <3>1. \A f \in Frames : InMp(f) => mpData[f] # inPeriod
      BY <2>7 DEF Once, InPool
    <3> QED BY <2>1, <2>3, <2>4, <3>1 DEF PlaceInv, DistinctInv, Distinct
  <2>9. OnceInv'
    <3> SUFFICES ASSUME NEW n \in 1 .. captured PROVE Once(n)'
      BY <1>0 DEF OnceInv
    <3>1. Once(n) /\ n # 0 /\ (InSp(n)' <=> InSp(n))
      BY <2>1, <2>5 DEF PlaceInv, OnceInv, InSp, Occurs
    <3>2. InPool(n)' <=> InPool(n) \/ n = mpData[h]'
      BY <2>1, <2>3, <2>4 DEF InPool
    <3>3. \/ mpData[h]' = inPeriod /\ lost' = lost
          \/ mpData[h]' = 0 /\ lost' = lost \cup {inPeriod}
      BY <1>0, <2>1, <2>2 DEF FrameTypes
    <3> QED BY <1>0, <2>1, <3>1, <3>2, <3>3 DEF Once
  <2>10. WriteInv'
    <3>1. \A f \in Frames : mpOwner[f] = "held" => mpData[f]' = mpData[f]
      BY <2>1, <2>3
    <3> QED BY <1>w, <3>1
  <2> QED BY <2>6, <2>8, <2>9, <2>10 DEF PlaceInv
<1>6. CASE CodecEnqueue
  <2>1. /\ UNCHANGED <<spQueue, inPeriod, lost, mpData>>
        /\ mpOwner' = [mpOwner EXCEPT ![outFrame] = "queued"]
        /\ codec = "enqueue" /\ codec' = "test"
        /\ outFrame \in Frames
    BY <1>0, <1>6 DEF CodecEnqueue, Owners, FrameTypes
  <2>2. \A f \in Frames : (InMp(f)' <=> InMp(f)) /\ mpData[f]' = mpData[f]
    BY <1>0, <2>1 DEF InMp, Owners, FrameTypes
  <2> QED BY <1>0, <1>w, <2>1, <2>2, StayPlace
<1>7. CASE CodecDrain
  <2>1. /\ UNCHANGED <<inPeriod, mpOwner, mpData>>
        /\ {codec, codec'} \cap {"enqueue"} = {}
    BY <1>7 DEF CodecDrain
  <2>2. CASE spQueue = <<>>
    <3>1. \A f \in Frames : (InMp(f)' <=> InMp(f)) /\ mpData[f]' = mpData[f]
      BY <2>1, PoolStays
    <3>2. UNCHANGED <<spQueue, lost>>
      BY <1>7, <2>2 DEF CodecDrain
    <3> QED BY <1>0, <1>w, <2>1, <3>1, <3>2, StayPlace
  <2>3. CASE spQueue # <<>>
    <3>1. spQueue' = Tail(spQueue) /\ lost' = lost \cup {Head(spQueue)}
      BY <1>7, <2>3 DEF CodecDrain
    <3> QED BY <1>0, <2>1, <2>3, <3>1, HeadPlace
  <2> QED BY <2>2, <2>3
<1>8. CASE CodecSentinel
  <2>1. /\ UNCHANGED <<spQueue, inPeriod, lost>>
        /\ {codec, codec'} \cap {"enqueue"} = {}
    BY <1>8 DEF CodecSentinel
  <2>2. CASE FreeFrames = {}
    <3>1. UNCHANGED <<mpOwner, mpData>>
      BY <1>8, <2>2 DEF CodecSentinel
    <3>2. \A f \in Frames : (InMp(f)' <=> InMp(f)) /\ mpData[f]' = mpData[f]
      BY <2>1, <3>1, PoolStays
    <3> QED BY <1>0, <1>w, <2>1, <3>2, StayPlace
  <2>3. CASE FreeFrames # {}
    <3>h. PICK h : h = Min(FreeFrames)
      OBVIOUS
    <3>1. h \in Frames /\ mpOwner[h] = "free"
      BY <2>3, <3>h, LowestFree DEF FreeFrames
    <3>2. /\ mpOwner' = [mpOwner EXCEPT ![h] = "queued"]
          /\ mpData' = [mpData EXCEPT ![h] = 0]
      BY <1>8, <2>3, <3>h DEF CodecSentinel
    <3>3. \A f \in Frames : f # h => (InMp(f)' <=> InMp(f)) /\ mpData[f]' = mpData[f]
      BY <1>0, <2>1, <3>1, <3>2 DEF InMp, FrameTypes
    <3>4. mpData[h]' = 0 /\ ~InMp(h)
      BY <1>0, <3>1, <3>2 DEF InMp, FrameTypes
    <3>5. WriteInv'
      <4>1. \A f \in Frames : mpOwner[f] = "held" => mpData[f]' = mpData[f]
        BY <3>1, <3>3
      <4> QED BY <1>w, <4>1
    <3> QED BY <1>0, <2>1, <3>3, <3>4, <3>5, StayPlace
  <2> QED BY <2>2, <2>3
<1> QED BY <1>1, <1>2, <1>3, <1>4, <1>5, <1>6, <1>7, <1>8 DEF Codec

LEMMA PlaybackPlace == Inv /\ Inv' /\ PlaceInv /\ Playback => PlaceInv'
<1> SUFFICES ASSUME Inv, Inv', PlaceInv, Playback PROVE PlaceInv'
  OBVIOUS
<1> USE DEF callerVars, capVars, codecVars
<1>0. /\ UNCHANGED <<captured, codec, inPeriod, spQueue, mpData>>
      /\ FrameTypes /\ Owners
      /\ captured \in Nat
  BY DEF Playback, PlaybackTest, PlaybackDequeue, PlaybackWrite, Inv, Types, FrameTypes, mpVars
<1>1. CASE PlaybackTest
  <2>1. UNCHANGED <<played, lost, mpOwner>> /\ pb' # "write"
    BY <1>1 DEF PlaybackTest, mpVars
  <2>2. \A f \in Frames : (InMp(f)' <=> InMp(f)) /\ mpData[f]' = mpData[f]
    BY <1>0, <2>1, PoolStays
  <2>3. WriteInv'
    BY <2>1 DEF WriteInv
  <2> QED BY <1>0, <2>1, <2>2, <2>3, StayPlace
<1>2. CASE PlaybackDequeue
  <2>h. PICK h : h = Min(QueuedFrames)
    OBVIOUS
  <2>1. h \in Frames /\ mpOwner[h] = "queued"
    BY <1>2, <2>h, LowestQueued DEF PlaybackDequeue, QueuedFrames
  <2>2. /\ UNCHANGED <<played, lost>>
        /\ \/ mpData[h] = 0 /\ mpOwner' = [mpOwner EXCEPT ![h] = "free"] /\ pb' = "exited"
           \/ mpData[h] # 0 /\ mpOwner' = [mpOwner EXCEPT ![h] = "held"]
              /\ pb' = "write" /\ pbFrame' = h
    BY <1>2, <2>h DEF PlaybackDequeue
  <2>3. WriteInv'
    BY <1>0, <2>2 DEF WriteInv
  <2>4. \A f \in Frames : mpData[f]' # 0 =>
          (InMp(f)' <=> InMp(f)) /\ mpData[f]' = mpData[f]
    BY <1>0, <2>1, <2>2 DEF InMp, FrameTypes
  <2> QED BY <1>0, <2>2, <2>3, <2>4, StayPlace
<1>3. CASE PlaybackWrite
  <2>h. PICK h : h = pbFrame
    OBVIOUS
  <2>p. PICK p : p = mpData[h]
    OBVIOUS
  <2>1. /\ h \in Frames /\ InMp(h) /\ p # 0 /\ mpData[h] = p
    BY <1>0, <1>3, <2>h, <2>p DEF PlaybackWrite, Owners, FrameTypes, InMp, PlaceInv, WriteInv
  <2>2. /\ mpOwner' = [mpOwner EXCEPT ![h] = "free"] /\ pb' # "write"
        /\ \/ played' = played \cup {p} /\ lost' = lost
           \/ played' = played /\ lost' = lost \cup {p}
    BY <1>3, <2>h, <2>p DEF PlaybackWrite
  <2>3. p \in 1 .. captured
    BY <1>0, <2>1 DEF PlaceInv, KnownInv, FrameTypes
  <2>4. /\ ~InMp(h)'
        /\ \A f \in Frames : f # h => (InMp(f)' <=> InMp(f))
        /\ \A f \in Frames : mpData[f]' = mpData[f]
    BY <1>0, <2>1, <2>2 DEF InMp, FrameTypes
  <2>5. KnownInv'
    <3>1. lost' \subseteq 1 .. captured' /\ played' \subseteq 1 .. captured'
      BY <1>0, <2>2, <2>3 DEF PlaceInv, KnownInv
    <3>2. \A f \in Frames : InMp(f)' => mpData[f]' <= captured'
      BY <1>0, <2>4 DEF PlaceInv, KnownInv
    <3> QED BY <1>0, <3>1, <3>2 DEF PlaceInv, KnownInv
  <2>6. DistinctInv'
    BY <1>0, <2>4 DEF PlaceInv, DistinctInv, Distinct
  <2>7. WriteInv'
    BY <2>2 DEF WriteInv
  <2>8. OnceInv'
    <3> SUFFICES ASSUME NEW n \in 1 .. captured PROVE Once(n)'
      BY <1>0 DEF OnceInv
    <3>1. Once(n) /\ n # 0 /\ (InSp(n)' <=> InSp(n))
      BY <1>0 DEF PlaceInv, OnceInv, InSp, Occurs
    <3>2. InPool(n)' <=> InPool(n) /\ n # p
      <4>1. \A f \in Frames : InMp(f) /\ mpData[f] = p => f = h
        BY <2>1 DEF PlaceInv, DistinctInv
      <4> QED BY <2>1, <2>4, <4>1 DEF InPool
    <3>3. InPool(p)
      BY <2>1 DEF InPool
    <3> QED BY <1>0, <2>2, <3>1, <3>2, <3>3 DEF Once
  <2> QED BY <2>5, <2>6, <2>7, <2>8 DEF PlaceInv
<1> QED BY <1>1, <1>2, <1>3 DEF Playback

LEMMA StutterPlace == Inv /\ PlaceInv /\ UNCHANGED vars => PlaceInv'
<1> SUFFICES ASSUME Inv, PlaceInv, UNCHANGED vars PROVE PlaceInv'
  OBVIOUS
<1>1. UNCHANGED <<spQueue, inPeriod, captured, played, lost, mpOwner, mpData, codec, pb, pbFrame>>
  BY DEF vars, callerVars, capVars, codecVars, pbVars, mpVars
<1>2. \A f \in Frames : (InMp(f)' <=> InMp(f)) /\ mpData[f]' = mpData[f]
  BY <1>1, PoolStays
<1>3. WriteInv'
  BY <1>1 DEF PlaceInv, WriteInv
<1> QED BY <1>1, <1>2, <1>3, StayPlace

\* One place is a sum of one.
LEMMA PlacesOfOne ==
  ASSUME Inv, DistinctInv, NEW n \in Nat \ {0}, Once(n)
  PROVE  Places(n) = 1
<1> DEFINE S == {i \in DOMAIN spQueue : spQueue[i] = n}
           M == {f \in Frames : InMp(f) /\ mpData[f] = n}
<1>1. Cardinality(S) = IF InSp(n) THEN 1 ELSE 0
  <2>1. CASE InSp(n)
    <3>1. PICK i \in DOMAIN spQueue : spQueue[i] = n
      BY <2>1 DEF InSp, Occurs
    <3>2. S = {i}
      BY <3>1 DEF DistinctInv, Distinct
    <3> QED BY <2>1, <3>2, FS_Singleton
  <2>2. CASE ~InSp(n)
    <3>1. S = {}
      BY <2>2 DEF InSp, Occurs
    <3> QED BY <2>2, <3>1, FS_EmptySet
  <2> QED BY <2>1, <2>2
<1>2. Cardinality(M) = IF InPool(n) THEN 1 ELSE 0
  <2>1. CASE InPool(n)
    <3>1. PICK f \in Frames : InMp(f) /\ mpData[f] = n
      BY <2>1 DEF InPool
    <3>2. M = {f}
      BY <3>1 DEF DistinctInv
    <3> QED BY <2>1, <3>2, FS_Singleton
  <2>2. CASE ~InPool(n)
    <3>1. M = {}
      BY <2>2 DEF InPool
    <3> QED BY <2>2, <3>1, FS_EmptySet
  <2> QED BY <2>1, <2>2
<1>3. Places(n) = Cardinality(S) + (IF inPeriod = n THEN 1 ELSE 0) + Cardinality(M)
                  + (IF n \in played THEN 1 ELSE 0) + (IF n \in lost THEN 1 ELSE 0)
  BY DEF Places
<1> HIDE DEF S, M
<1> QED BY <1>1, <1>2, <1>3 DEF Once

\* No captured period vanishes and none is played twice, for every size of the
\* pools and through errors, stops and restarts (bb_audio_stream.c:52-216).
THEOREM OnePlace == Spec => []EachPeriodInOnePlace
<1>1. Inv /\ PlaceInv /\ Inv' /\ [Next]_vars => PlaceInv'
  BY CallerPlace, CapturePlace, CodecPlace, PlaybackPlace, StutterPlace DEF Next
<1>2. Inv /\ PlaceInv => EachPeriodInOnePlace
  BY PlacesOfOne DEF PlaceInv, OnceInv, EachPeriodInOnePlace, Inv, Types, FrameTypes
<1> QED BY <1>1, <1>2, InitPlace, InductiveInvariant, PTL DEF Spec
-----------------------------------------------------------------------------
(* Why stop gets playback out of its wait *)

\* Once running is cleared and the codec thread is gone, a playback thread inside
\* its dequeue finds a frame, however few frames there are and however often the
\* sentinel was tried (bb_audio_stream.c:155-164): together with the loops' tests of
\* running this is why StopReturns does not hang on the last join.
StopWakesPlayback ==
  ~running /\ codec = "exited" /\ pb = "dequeue" => QueuedFrames # {}

LEMMA CallerSentinel == Inv /\ StopWakesPlayback /\ Caller => StopWakesPlayback'
<1> SUFFICES ASSUME Inv, StopWakesPlayback, Caller PROVE StopWakesPlayback'
  OBVIOUS
<1> USE DEF capVars, codecVars, pbVars, mpVars
<1>1. CASE StartPlayback
  BY <1>1 DEF StartPlayback, StopWakesPlayback
<1>2. CASE StartCodec
  BY <1>2 DEF StartCodec, Spawned, StopWakesPlayback
<1>3. CASE StartCapture
  BY <1>3 DEF StartCapture, StopWakesPlayback, Inv, Control
<1>4. CASE Stop
  BY <1>4 DEF Stop, Inv, DrainInv, Control, StopWakesPlayback
<1>5. CASE JoinCapture \/ JoinCodec \/ JoinPlayback
  <2>1. UNCHANGED <<codec, running, pb, mpOwner>>
    BY <1>5 DEF JoinCapture, JoinCodec, JoinPlayback, Join
  <2> QED BY <2>1 DEF StopWakesPlayback, QueuedFrames
<1> QED BY <1>1, <1>2, <1>3, <1>4, <1>5 DEF Caller

\* The codec leaves after it has queued its sentinel, or after it has found no
\* frame free once too often: then playback holds one or all are queued.
LEMMA CodecSentinelQueues ==
  ASSUME Inv, CodecSentinel, codec' = "exited", pb = "dequeue"
  PROVE  QueuedFrames' # {}
<1>1. CASE FreeFrames # {}
  <2> DEFINE f == Min(FreeFrames)
  <2>1. f \in Frames
    BY <1>1, LowestFree DEF FreeFrames
  <2>2. mpOwner' = [mpOwner EXCEPT ![f] = "queued"]
    BY <1>1 DEF CodecSentinel
  <2> HIDE DEF f
  <2>3. f \in QueuedFrames'
    BY <2>1, <2>2 DEF QueuedFrames, Inv, Types, FrameTypes
  <2> QED BY <2>3
<1>2. CASE FreeFrames = {}
  <2>1. mpOwner' = mpOwner
    BY <1>2 DEF CodecSentinel, mpVars
  <2>2. 0 \in Frames
    BY DEF Frames
  <2>3. outFrame = NoFrame /\ pbFrame = NoFrame
    BY DEF Inv, Owners, CodecSentinel
  <2>4. mpOwner[0] = "queued"
    <3>1. mpOwner[0] \in {"free", "filling", "queued", "held"} /\ mpOwner[0] # "free"
      BY <1>2, <2>2 DEF Inv, Types, FrameTypes, FreeFrames
    <3>2. mpOwner[0] # "filling" /\ mpOwner[0] # "held"
      BY <2>2, <2>3, FramesType DEF Inv, Owners
    <3> QED BY <3>1, <3>2
  <2> QED BY <2>1, <2>2, <2>4 DEF QueuedFrames
<1> QED BY <1>1, <1>2

LEMMA SentinelStep == Inv /\ StopWakesPlayback /\ [Next]_vars => StopWakesPlayback'
<1> SUFFICES ASSUME Inv, StopWakesPlayback, [Next]_vars PROVE StopWakesPlayback'
  OBVIOUS
<1> USE DEF callerVars, capVars, codecVars, pbVars, mpVars
<1>1. CASE Caller
  BY <1>1, CallerSentinel
<1>2. CASE Capture
  BY <1>2 DEF Capture, CaptureTest, CaptureAcquire, CaptureRead, CaptureDiscard,
     StopWakesPlayback, QueuedFrames
<1>3. CASE CodecSentinel
  <2>1. pb' = pb
    BY <1>3 DEF CodecSentinel
  <2> QED BY <1>3, <2>1, CodecSentinelQueues DEF StopWakesPlayback
<1>4. CASE CodecTest \/ CodecTake \/ CodecClaim \/ CodecEncode \/ CodecEnqueue \/ CodecDrain
  BY <1>4 DEF CodecTest, CodecTake, CodecClaim, CodecEncode, CodecEnqueue, CodecDrain,
     StopWakesPlayback
<1>5. CASE Playback
  BY <1>5 DEF Playback, PlaybackTest, PlaybackDequeue, PlaybackWrite, StopWakesPlayback, QueuedFrames
<1>6. CASE UNCHANGED vars
  BY <1>6 DEF vars, StopWakesPlayback, QueuedFrames
<1> QED BY <1>1, <1>2, <1>3, <1>4, <1>5, <1>6 DEF Next, Codec

\* Playback is never left in its wait by stop, for every size of the pool and
\* every number of attempts.
THEOREM StopAlwaysWakesPlayback == Spec => []StopWakesPlayback
<1>1. Init => StopWakesPlayback
  BY DEF Init, StopWakesPlayback
<1> QED BY <1>1, SentinelStep, InductiveInvariant, PTL DEF Spec
-----------------------------------------------------------------------------
(* The bounds of TypeOK: the counts stay within their limits and the SPSC pool *)
(* never holds more than its frames.                                           *)

Working == {"test", "acquire", "read", "discard"}
XrunInv ==
  /\ capXruns \in 0 .. XrunLimit + 1 /\ (cap \in Working => capXruns <= XrunLimit)
  /\ pbXruns \in 0 .. XrunLimit + 1
  /\ pb \in {"test", "dequeue", "write"} => pbXruns <= XrunLimit
CountInv ==
  /\ sessions <= MaxSessions /\ prepared \in BOOLEAN
  /\ captured <= MaxPeriods
  /\ cap \in {"acquire", "read", "discard"} => captured < MaxPeriods
  /\ retry \in 0 .. SentinelRetries
  /\ codec \notin Idle => retry < SentinelRetries
DataInv == \A f \in Frames : mpData[f] <= captured
Reading == IF cap = "read" THEN 1 ELSE 0
Taken   == IF inPeriod # 0 THEN 1 ELSE 0
RoomInv == Len(spQueue) + Reading + Taken <= NFrames

LimitInv == XrunInv /\ CountInv /\ DataInv /\ RoomInv

LEMMA InitLimit == Init => LimitInv
<1> SUFFICES ASSUME Init PROVE LimitInv
  OBVIOUS
<1>1. RoomInv
  BY EmptySeq DEF Init, RoomInv, Reading, Taken
<1>2. DataInv
  BY DEF Init, DataInv
<1> QED BY <1>1, <1>2 DEF Init, LimitInv, XrunInv, CountInv, Working, Idle

RoomTypes == Len(spQueue) \in Nat /\ Reading \in {0, 1} /\ Taken \in {0, 1}

LEMMA RoomType == Inv => RoomTypes
BY DEF Inv, Types, FrameTypes, RoomTypes, Reading, Taken

LEMMA RoomTypeNext == Inv' => RoomTypes'
BY RoomType, PTL

\* A step that uses no further frame.
LEMMA RoomKept ==
  ASSUME Inv, Inv', RoomInv,
         \/ Len(spQueue') <= Len(spQueue) /\ Reading' <= Reading /\ Taken' <= Taken
         \/ Len(spQueue') = Len(spQueue) + 1 /\ Reading = 1 /\ Reading' = 0 /\ Taken' = Taken
         \/ Len(spQueue') = Len(spQueue) - 1 /\ Reading' = Reading /\ Taken = 0
  PROVE  RoomInv'
<1>1. RoomTypes /\ RoomTypes'
  BY RoomType, RoomTypeNext
<1> QED BY <1>1 DEF RoomTypes, RoomInv

LEMMA CallerLimit == Inv /\ Inv' /\ LimitInv /\ Caller => LimitInv'
<1> SUFFICES ASSUME Inv, Inv', LimitInv, Caller PROVE LimitInv'
  OBVIOUS
<1> USE DEF capVars, codecVars, pbVars, mpVars
<1>0. /\ UNCHANGED <<captured, inPeriod, spQueue, mpData>>
      /\ (cap' = cap /\ capXruns' = capXruns) \/ (cap' \in Spawned /\ cap \in Idle /\ capXruns' = 0)
      /\ (pb' = pb /\ pbXruns' = pbXruns) \/ (pb' \in Spawned /\ pbXruns' = 0)
      /\ (codec' = codec /\ retry' = retry) \/ (codec' \in Spawned /\ retry' = 0)
      /\ sessions' = sessions \/ (sessions < MaxSessions /\ sessions' = sessions + 1)
      /\ prepared' = prepared \/ prepared' \in BOOLEAN
  BY DEF Caller, StartPlayback, StartCodec, StartCapture, Stop, JoinCapture, JoinCodec,
         JoinPlayback, Join, Inv, Control
<1>1. Spawned \subseteq {"test", "none"}
  BY DEF Spawned
<1>2. XrunInv'
  BY <1>0, <1>1 DEF LimitInv, XrunInv, Working
<1>3. CountInv'
  <2>1. sessions' <= MaxSessions
    BY <1>0 DEF LimitInv, CountInv, Inv, Types, StepTypes
  <2> QED BY <1>0, <1>1, <2>1 DEF LimitInv, CountInv
<1>4. DataInv' /\ RoomInv'
  <2>1. Reading' <= Reading /\ Taken' = Taken
    BY <1>0, <1>1 DEF Reading, Taken
  <2>2. RoomTypes
    BY RoomType
  <2>3. RoomInv'
    BY <1>0, <2>1, <2>2, RoomKept DEF LimitInv, RoomTypes
  <2> QED BY <1>0, <2>3 DEF LimitInv, DataInv
<1> QED BY <1>2, <1>3, <1>4 DEF LimitInv

LEMMA CaptureLimit == Inv /\ Inv' /\ LimitInv /\ Capture => LimitInv'
<1> SUFFICES ASSUME Inv, Inv', LimitInv, Capture PROVE LimitInv'
  OBVIOUS
<1> USE DEF callerVars, capVars, codecVars, pbVars, mpVars
<1>0. /\ UNCHANGED <<sessions, prepared, codec, inPeriod, retry, pb, pbXruns, mpData>>
      /\ spQueue \in Seq(Period) /\ captured \in Nat /\ captured + 1 \in Period
      /\ Len(spQueue) \in Nat
  BY DEF Capture, CaptureTest, CaptureAcquire, CaptureRead, CaptureDiscard,
         Inv, Types, FrameTypes, Period
<1>1. XrunInv'
  <2>1. cap \in Working /\ capXruns \in 0 .. XrunLimit
    BY DEF Capture, CaptureTest, CaptureAcquire, CaptureRead, CaptureDiscard, LimitInv,
       XrunInv, Working
  <2>2. capXruns' \in 0 .. XrunLimit + 1 /\ (cap' \in Working => capXruns' <= XrunLimit)
    BY <2>1 DEF Capture, CaptureTest, CaptureAcquire, CaptureRead, CaptureDiscard, Working
  <2> QED BY <1>0, <2>2 DEF LimitInv, XrunInv
<1>2. \/ /\ UNCHANGED <<captured, spQueue>>
         /\ cap' \in {"acquire", "read", "discard"} => captured < MaxPeriods
         /\ cap' = "read" => SpInUse < NFrames /\ cap # "read"
      \/ /\ captured' = captured + 1 /\ spQueue' = Append(spQueue, captured + 1)
         /\ cap = "read" /\ cap' = "test"
  BY DEF Capture, CaptureTest, CaptureAcquire, CaptureRead, CaptureDiscard, LimitInv, CountInv
<1>3. CountInv'
  BY <1>0, <1>2 DEF LimitInv, CountInv
<1>4. DataInv'
  BY <1>0, <1>2 DEF LimitInv, DataInv, Inv, Types, FrameTypes
<1>5. RoomInv'
  <2>0. RoomTypes /\ RoomInv /\ Taken' = Taken
    BY <1>0, RoomType DEF LimitInv, Taken
  <2>1. CASE spQueue' = Append(spQueue, captured + 1) /\ cap = "read" /\ cap' = "test"
    <3>1. Len(spQueue') = Len(spQueue) + 1
      BY <1>0, <2>1, AppendProperties
    <3>2. Reading = 1 /\ Reading' = 0
      BY <2>1 DEF Reading
    <3> QED BY <2>0, <3>1, <3>2, RoomKept
  <2>2. CASE spQueue' = spQueue /\ cap' # "read"
    <3>1. Reading' <= Reading
      BY <2>2 DEF Reading
    <3> QED BY <2>0, <2>2, <3>1, RoomKept DEF RoomTypes
  <2>3. CASE spQueue' = spQueue /\ cap' = "read"
    <3>1. SpInUse < NFrames /\ cap # "read"
      BY <1>2, <2>3
    <3>2. Len(spQueue) + Reading + Taken < NFrames
      BY <3>1 DEF SpInUse, Reading, Taken
    <3>3. Reading = 0 /\ Reading' = 1 /\ Len(spQueue') = Len(spQueue)
      BY <2>3, <3>1 DEF Reading
    <3> QED BY <2>0, <3>2, <3>3 DEF RoomTypes, RoomInv
  <2> QED BY <1>2, <2>1, <2>2, <2>3
<1> QED BY <1>1, <1>3, <1>4, <1>5 DEF LimitInv

LEMMA CodecLimit == Inv /\ Inv' /\ PlaceInv /\ LimitInv /\ Codec => LimitInv'
<1> SUFFICES ASSUME Inv, Inv', PlaceInv, LimitInv, Codec PROVE LimitInv'
  OBVIOUS
<1> USE DEF callerVars, capVars, codecVars, pbVars, mpVars
<1>0. /\ UNCHANGED <<sessions, prepared, captured, cap, capXruns, pb, pbXruns>>
      /\ codec \notin Idle
  BY DEF Codec, CodecTest, CodecTake, CodecClaim, CodecEncode, CodecEnqueue, CodecDrain,
         CodecSentinel, Idle
<1>1. XrunInv'
  BY <1>0 DEF LimitInv, XrunInv
<1>2. CountInv'
  <2>1. retry \in 0 .. SentinelRetries /\ retry < SentinelRetries
    BY <1>0 DEF LimitInv, CountInv
  <2>2. retry' \in 0 .. SentinelRetries /\ (codec' \notin Idle => retry' < SentinelRetries)
    <3>1. CASE CodecSentinel
      BY <2>1, <3>1 DEF CodecSentinel, Idle
    <3>2. CASE ~CodecSentinel
      BY <2>1, <3>2 DEF Codec, CodecTest, CodecTake, CodecClaim, CodecEncode, CodecEnqueue,
         CodecDrain
    <3> QED BY <3>1, <3>2
  <2> QED BY <1>0, <2>2 DEF LimitInv, CountInv
<1>3. DataInv'
  <2>1. captured \in Nat /\ inPeriod <= captured
    BY DEF Inv, Types, FrameTypes, PlaceInv, KnownInv
  <2>2. \A f \in Frames : mpData[f]' \in {mpData[f], inPeriod, 0}
    BY DEF Codec, CodecTest, CodecTake, CodecClaim, CodecEncode, CodecEnqueue, CodecDrain,
       CodecSentinel, Inv, Types, FrameTypes
  <2> QED BY <1>0, <2>1, <2>2 DEF LimitInv, DataInv
<1>4. RoomInv'
  <2>0. RoomTypes /\ RoomInv /\ Reading' = Reading /\ spQueue \in Seq(Period)
    BY <1>0, RoomType DEF LimitInv, Reading, Inv, Types, FrameTypes
  <2>1. CASE CodecTake /\ spQueue # <<>>
    <3>1. Taken = 0 /\ spQueue' = Tail(spQueue)
      BY <2>1 DEF CodecTake, Inv, Owners, Taken
    <3>2. Len(spQueue') = Len(spQueue) - 1
      BY <2>0, <2>1, <3>1, EmptySeq, HeadTailProperties
    <3> QED BY <2>0, <3>1, <3>2, RoomKept
  <2>2. CASE CodecDrain /\ spQueue # <<>>
    <3>1. spQueue' = Tail(spQueue) /\ Taken' = Taken
      BY <2>2 DEF CodecDrain, Taken
    <3>2. Len(spQueue') = Len(spQueue) - 1
      BY <2>0, <2>2, <3>1, EmptySeq, HeadTailProperties
    <3> QED BY <2>0, <3>1, <3>2, RoomKept DEF RoomTypes
  <2>3. CASE ~ (CodecTake /\ spQueue # <<>>) /\ ~ (CodecDrain /\ spQueue # <<>>)
    <3>1. spQueue' = spQueue /\ inPeriod' \in {inPeriod, 0}
      BY <2>3 DEF Codec, CodecTest, CodecTake, CodecClaim, CodecEncode, CodecEnqueue,
         CodecDrain, CodecSentinel
    <3>2. Taken' <= Taken
      BY <3>1 DEF Taken
    <3> QED BY <2>0, <3>1, <3>2, RoomKept DEF RoomTypes
  <2> QED BY <2>1, <2>2, <2>3
<1> QED BY <1>1, <1>2, <1>3, <1>4 DEF LimitInv

LEMMA PlaybackLimit == LimitInv /\ Playback => LimitInv'
<1> SUFFICES ASSUME LimitInv, Playback PROVE LimitInv'
  OBVIOUS
<1> USE DEF callerVars, capVars, codecVars, pbVars, mpVars
<1>0. UNCHANGED <<sessions, prepared, captured, cap, capXruns, codec, inPeriod, retry,
                  spQueue, mpData>>
  BY DEF Playback, PlaybackTest, PlaybackDequeue, PlaybackWrite
<1>1. pbXruns' \in 0 .. XrunLimit + 1
      /\ (pb' \in {"test", "dequeue", "write"} => pbXruns' <= XrunLimit)
  BY DEF Playback, PlaybackTest, PlaybackDequeue, PlaybackWrite, LimitInv, XrunInv
<1> QED BY <1>0, <1>1 DEF LimitInv, XrunInv, CountInv, DataInv, RoomInv,
         Reading, Taken

LEMMA StutterLimit == LimitInv /\ UNCHANGED vars => LimitInv'
BY DEF vars, callerVars, capVars, codecVars, pbVars, mpVars, LimitInv, XrunInv, CountInv,
       DataInv, RoomInv, Reading, Taken

LEMMA BoundsOfTypes == Inv /\ PlaceInv /\ LimitInv => TypeOK
<1> SUFFICES ASSUME Inv, PlaceInv, LimitInv PROVE TypeOK
  OBVIOUS
<1>1. StepTypes /\ FrameTypes /\ KnownInv /\ captured \in 0 .. MaxPeriods
  BY DEF Inv, Types, FrameTypes, PlaceInv, LimitInv, CountInv
<1>2. spQueue \in Seq(Periods) /\ Len(spQueue) <= NFrames
  <2>1. spQueue \in Seq(Period) /\ Len(spQueue) \in Nat
    BY <1>1 DEF FrameTypes
  <2>2. \A i \in 1 .. Len(spQueue) : spQueue[i] \in Periods
    BY <1>1, <2>1, ElementOfSeq, LenProperties DEF KnownInv, Period, Periods
  <2>3. spQueue = [i \in 1 .. Len(spQueue) |-> spQueue[i]]
    BY <2>1, LenProperties
  <2>4. spQueue \in Seq(Periods)
    BY <2>1, <2>2, <2>3, IsASeq
  <2>5. RoomInv /\ RoomTypes
    BY RoomType DEF LimitInv
  <2> QED BY <2>4, <2>5 DEF RoomInv, RoomTypes
<1>3. mpData \in [Frames -> 0 .. MaxPeriods]
  <2>1. \A f \in Frames : mpData[f] \in 0 .. MaxPeriods
    BY <1>1 DEF FrameTypes, LimitInv, DataInv
  <2> QED BY <1>1, <2>1 DEF FrameTypes
<1>4. inPeriod \in 0 .. MaxPeriods /\ played \subseteq Periods /\ lost \subseteq Periods
  BY <1>1 DEF FrameTypes, KnownInv, Periods
<1>5. sessions \in 0 .. MaxSessions
  BY <1>1 DEF StepTypes, LimitInv, CountInv
<1> QED BY <1>1, <1>2, <1>3, <1>4, <1>5 DEF TypeOK, StepTypes, FrameTypes, LimitInv, XrunInv,
       CountInv

LEMMA LimitsHold == Spec => [](Inv /\ PlaceInv /\ LimitInv)
<1>1. Inv /\ PlaceInv /\ Inv' /\ [Next]_vars => PlaceInv'
  BY CallerPlace, CapturePlace, CodecPlace, PlaybackPlace, StutterPlace DEF Next
<1>2. Inv /\ Inv' /\ PlaceInv /\ LimitInv /\ [Next]_vars => LimitInv'
  BY CallerLimit, CaptureLimit, CodecLimit, PlaybackLimit, StutterLimit DEF Next
<1> QED BY <1>1, <1>2, InitPlace, InitLimit, InductiveInvariant, PTL DEF Spec

\* Every variable keeps its type and its bounds (AudioStream!TypeOK): the ring
\* never takes more periods than it has frames, a thread never counts beyond
\* its limit (bb_audio_stream.c:75, :199), the sentinel is not tried again after
\* its last attempt.
THEOREM TypeCorrect == Spec => []TypeOK
BY LimitsHold, BoundsOfTypes, PTL

-----------------------------------------------------------------------------
(* Why a stop is over soon *)

\* Steps left to a stop under way: the caller's joins, the round capture is in, the
\* periods in the SPSC pool, the codec's way through its drain and its sentinel, and
\* playback's way out.
Joining == {"joinCapture", "joinCodec", "joinPlayback"}
CaptureLeft ==
  IF cap = "acquire" THEN 4 ELSE IF cap \in {"read", "discard"} THEN 3
  ELSE IF cap = "test" THEN 1 ELSE 0
CodecLeft ==
  CASE codec = "take"     -> SentinelRetries + 6
    [] codec = "claim"    -> SentinelRetries + 5
    [] codec = "encode"   -> SentinelRetries + 4
    [] codec = "enqueue"  -> SentinelRetries + 3
    [] codec = "test"     -> SentinelRetries + 2
    [] codec = "drain"    -> SentinelRetries + 1
    [] codec = "sentinel" -> SentinelRetries - retry
    [] codec \in {"none", "exited"} -> 0
PlaybackLeft ==
  IF pb = "dequeue" THEN 3 ELSE IF pb = "write" THEN 2 ELSE IF pb = "test" THEN 1 ELSE 0
JoinsLeft ==
  IF main = "joinCapture" THEN 3 ELSE IF main = "joinCodec" THEN 2
  ELSE IF main = "joinPlayback" THEN 1 ELSE 0
StepsLeft == JoinsLeft + CaptureLeft + CodecLeft + PlaybackLeft + Len(spQueue)

\* The safety core of StopReturns: a stop under way is over after a bounded number of
\* steps of all four threads together ...
StopIsShort ==
  main \in Joining => StepsLeft \in 1 .. 3 + 4 + (SentinelRetries + 6) + 3 + NFrames

\* ... because each of them brings it nearer to its end, whatever the devices return
\* (and the only one that can wait does not: StopWakesPlayback).
StopRunsDown == [][ (main \in Joining) => StepsLeft' < StepsLeft ]_vars

LeftTypes ==
  /\ JoinsLeft \in 0 .. 3 /\ CaptureLeft \in 0 .. 4 /\ PlaybackLeft \in 0 .. 3
  /\ CodecLeft \in 0 .. SentinelRetries + 6 /\ Len(spQueue) \in 0 .. NFrames

LEMMA LeftType == Inv /\ LimitInv => LeftTypes
<1> SUFFICES ASSUME Inv, LimitInv PROVE LeftTypes
  OBVIOUS
<1>1. JoinsLeft \in 0 .. 3 /\ CaptureLeft \in 0 .. 4 /\ PlaybackLeft \in 0 .. 3
  BY DEF JoinsLeft, CaptureLeft, PlaybackLeft
<1>2. CodecLeft \in 0 .. SentinelRetries + 6
  BY DEF CodecLeft, LimitInv, CountInv, Inv, Types, StepTypes
<1>3. Len(spQueue) \in 0 .. NFrames
  BY RoomType DEF LimitInv, RoomInv, RoomTypes
<1> QED BY <1>1, <1>2, <1>3 DEF LeftTypes

LEMMA LeftTypeNext == Inv' /\ LimitInv' => LeftTypes'
BY LeftType, PTL

LEMMA ShortStop == Inv /\ LimitInv => StopIsShort
<1> SUFFICES ASSUME Inv, LimitInv, main \in Joining
             PROVE  StepsLeft \in 1 .. 3 + 4 + (SentinelRetries + 6) + 3 + NFrames
  BY DEF StopIsShort
<1>1. JoinsLeft >= 1
  BY DEF Joining, JoinsLeft
<1>2. LeftTypes
  BY LeftType
<1>3. NFrames \in Nat /\ SentinelRetries \in Nat
  OBVIOUS
<1> QED BY <1>1, <1>2, <1>3 DEF LeftTypes, StepsLeft

\* What is enough for a step to bring the stop nearer, from what it changes.
Fewer(j, c, k, p, q, jj, cc, kk, pp, qq) ==
  \/ jj < j /\ cc = c /\ kk = k /\ pp = p /\ qq = q
  \/ jj = j /\ cc < c /\ kk = k /\ pp = p /\ qq = q
  \/ jj = j /\ cc + 2 <= c /\ kk = k /\ pp = p /\ qq = q + 1
  \/ jj = j /\ cc = c /\ kk < k /\ pp = p /\ qq <= q
  \/ jj = j /\ cc = c /\ kk = k /\ pp = p /\ qq < q
  \/ jj = j /\ cc = c /\ kk = k /\ pp < p /\ qq = q

LEMMA FewerInAll ==
  ASSUME NEW j \in Int, NEW c \in Int, NEW k \in Int, NEW p \in Int, NEW q \in Int,
         NEW jj \in Int, NEW cc \in Int, NEW kk \in Int, NEW pp \in Int, NEW qq \in Int,
         Fewer(j, c, k, p, q, jj, cc, kk, pp, qq)
  PROVE  jj + cc + kk + pp + qq < j + c + k + p + q
BY DEF Fewer

LEMMA FewerLeft ==
  ASSUME LeftTypes, LeftTypes',
         Fewer(JoinsLeft, CaptureLeft, CodecLeft, PlaybackLeft, Len(spQueue),
               JoinsLeft', CaptureLeft', CodecLeft', PlaybackLeft', Len(spQueue'))
  PROVE  StepsLeft' < StepsLeft
<1>1. /\ JoinsLeft \in Int /\ CaptureLeft \in Int /\ CodecLeft \in Int
      /\ PlaybackLeft \in Int /\ Len(spQueue) \in Int
  BY DEF LeftTypes
<1>2. /\ JoinsLeft' \in Int /\ CaptureLeft' \in Int /\ CodecLeft' \in Int
      /\ PlaybackLeft' \in Int /\ Len(spQueue') \in Int
  BY DEF LeftTypes
<1>3. JoinsLeft' + CaptureLeft' + CodecLeft' + PlaybackLeft' + Len(spQueue')
        < JoinsLeft + CaptureLeft + CodecLeft + PlaybackLeft + Len(spQueue)
  BY <1>1, <1>2, FewerInAll, Zenon
<1> QED BY <1>3 DEF StepsLeft

LEMMA CallerRunsDown ==
  Inv /\ Inv' /\ LimitInv /\ LimitInv' /\ main \in Joining /\ Caller => StepsLeft' < StepsLeft
<1> SUFFICES ASSUME Inv, Inv', LimitInv, LimitInv', main \in Joining, Caller
             PROVE  StepsLeft' < StepsLeft
  OBVIOUS
<1>1. ~(StartPlayback \/ StartCodec \/ StartCapture \/ Stop)
  BY DEF Joining, StartPlayback, StartCodec, StartCapture, Stop
<1>2. /\ UNCHANGED <<cap, codec, retry, pb, spQueue>>
      /\ \/ main = "joinCapture" /\ main' \in {"joinCodec", "crashed"}
         \/ main = "joinCodec" /\ main' \in {"joinPlayback", "crashed"}
         \/ main = "joinPlayback" /\ main' \in {"stopped", "crashed"}
  BY <1>1 DEF Caller, JoinCapture, JoinCodec, JoinPlayback, Join, capVars, codecVars, pbVars
<1>3. JoinsLeft' < JoinsLeft
  BY <1>2 DEF JoinsLeft
<1>4. /\ CaptureLeft' = CaptureLeft /\ CodecLeft' = CodecLeft
      /\ PlaybackLeft' = PlaybackLeft /\ spQueue' = spQueue
  BY <1>2 DEF CaptureLeft, CodecLeft, PlaybackLeft
<1>9. Fewer(JoinsLeft, CaptureLeft, CodecLeft, PlaybackLeft, Len(spQueue),
             JoinsLeft', CaptureLeft', CodecLeft', PlaybackLeft', Len(spQueue'))
  BY <1>3, <1>4, Zenon DEF Fewer
<1> QED BY <1>9, LeftType, LeftTypeNext, FewerLeft

LEMMA CaptureRunsDown ==
  Inv /\ Inv' /\ LimitInv /\ LimitInv' /\ main \in Joining /\ Capture => StepsLeft' < StepsLeft
<1> SUFFICES ASSUME Inv, Inv', LimitInv, LimitInv', main \in Joining, Capture
             PROVE  StepsLeft' < StepsLeft
  OBVIOUS
<1>1. UNCHANGED <<main, codec, retry, pb>>
  BY DEF Capture, CaptureTest, CaptureAcquire, CaptureRead, CaptureDiscard, callerVars,
     codecVars, pbVars
<1>2. JoinsLeft' = JoinsLeft /\ CodecLeft' = CodecLeft /\ PlaybackLeft' = PlaybackLeft
  BY <1>1 DEF JoinsLeft, CodecLeft, PlaybackLeft
<1>3. \/ CaptureLeft' < CaptureLeft /\ spQueue' = spQueue
      \/ CaptureLeft' + 2 <= CaptureLeft /\ Len(spQueue') = Len(spQueue) + 1
  <2>1. CASE CaptureTest
    <3>1. ~running
      BY DEF Joining, Inv, Control
    <3> QED BY <2>1, <3>1 DEF CaptureTest, CaptureLeft
  <2>2. CASE CaptureAcquire
    BY <2>2 DEF CaptureAcquire, CaptureLeft
  <2>3. CASE CaptureRead
    <3>1. cap = "read" /\ CaptureLeft = 3
      BY <2>3 DEF CaptureRead, CaptureLeft
    <3>2. CASE /\ captured' = captured + 1 /\ cap' = "test"
               /\ spQueue' = Append(spQueue, captured + 1)
      <4>1. Len(spQueue') = Len(spQueue) + 1
        BY <3>2, AppendProperties DEF Inv, Types, FrameTypes, Period
      <4>2. CaptureLeft' = 1
        BY <3>2 DEF CaptureLeft
      <4> QED BY <3>1, <4>1, <4>2
    <3>3. CASE spQueue' = spQueue /\ cap' \in {"test", "exited"}
      <4>1. CaptureLeft' \in {0, 1}
        BY <3>3 DEF CaptureLeft
      <4>2. CaptureLeft' < CaptureLeft
        BY <3>1, <4>1
      <4> QED BY <3>3, <4>2
    <3> QED BY <2>3, <3>2, <3>3 DEF CaptureRead
  <2>4. CASE CaptureDiscard
    BY <2>4 DEF CaptureDiscard, CaptureLeft
  <2> QED BY <2>1, <2>2, <2>3, <2>4 DEF Capture
<1>9. Fewer(JoinsLeft, CaptureLeft, CodecLeft, PlaybackLeft, Len(spQueue),
             JoinsLeft', CaptureLeft', CodecLeft', PlaybackLeft', Len(spQueue'))
  BY <1>2, <1>3, Zenon DEF Fewer
<1> QED BY <1>9, LeftType, LeftTypeNext, FewerLeft

LEMMA CodecRunsDown ==
  Inv /\ Inv' /\ LimitInv /\ LimitInv' /\ main \in Joining /\ Codec => StepsLeft' < StepsLeft
<1> SUFFICES ASSUME Inv, Inv', LimitInv, LimitInv', main \in Joining, Codec
             PROVE  StepsLeft' < StepsLeft
  OBVIOUS
<1>1. UNCHANGED <<main, cap, pb>>
  BY DEF Codec, CodecTest, CodecTake, CodecClaim, CodecEncode, CodecEnqueue, CodecDrain,
     CodecSentinel, callerVars, capVars, pbVars
<1>2. JoinsLeft' = JoinsLeft /\ CaptureLeft' = CaptureLeft /\ PlaybackLeft' = PlaybackLeft
  BY <1>1 DEF JoinsLeft, CaptureLeft, PlaybackLeft
<1>3. spQueue \in Seq(Period) /\ SentinelRetries \in Nat /\ ~running
      /\ retry \in 0 .. SentinelRetries /\ (codec = "sentinel" => retry < SentinelRetries)
  BY DEF Joining, Inv, Control, Types, FrameTypes, LimitInv, CountInv, Idle
<1>4. spQueue # <<>> => Len(Tail(spQueue)) = Len(spQueue) - 1
  BY <1>3, HeadTailProperties
<1>5. Len(spQueue) \in Nat
  BY <1>3, LenProperties
<1>6. \/ CodecLeft' < CodecLeft /\ Len(spQueue') <= Len(spQueue)
      \/ CodecLeft' = CodecLeft /\ Len(spQueue') < Len(spQueue)
  <2>1. CASE CodecTest
    BY <1>3, <1>5, <2>1 DEF CodecTest, CodecLeft
  <2>2. CASE CodecTake
    <3>1. CodecLeft = SentinelRetries + 6
      BY <2>2 DEF CodecTake, CodecLeft
    <3>2. CodecLeft' \in {SentinelRetries + 2, SentinelRetries + 5}
      BY <2>2 DEF CodecTake, CodecLeft
    <3>3. Len(spQueue') <= Len(spQueue)
      BY <1>4, <1>5, <2>2 DEF CodecTake
    <3> QED BY <1>3, <3>1, <3>2, <3>3
  <2>3. CASE CodecClaim
    BY <1>3, <1>5, <2>3 DEF CodecClaim, CodecLeft
  <2>4. CASE CodecEncode
    BY <1>3, <1>5, <2>4 DEF CodecEncode, CodecLeft
  <2>5. CASE CodecEnqueue
    BY <1>3, <1>5, <2>5 DEF CodecEnqueue, CodecLeft
  <2>6. CASE CodecDrain
    <3>1. CASE spQueue = <<>>
      BY <1>3, <1>5, <2>6, <3>1 DEF CodecDrain, CodecLeft, codecVars
    <3>2. CASE spQueue # <<>>
      <4>1. CodecLeft' = CodecLeft
        BY <2>6, <3>2 DEF CodecDrain, CodecLeft
      <4>2. Len(spQueue') < Len(spQueue)
        BY <1>4, <1>5, <2>6, <3>2 DEF CodecDrain
      <4> QED BY <4>1, <4>2
    <3> QED BY <3>1, <3>2
  <2>7. CASE CodecSentinel
    BY <1>3, <1>5, <2>7 DEF CodecSentinel, CodecLeft
  <2> QED BY <2>1, <2>2, <2>3, <2>4, <2>5, <2>6, <2>7 DEF Codec
<1>9. Fewer(JoinsLeft, CaptureLeft, CodecLeft, PlaybackLeft, Len(spQueue),
             JoinsLeft', CaptureLeft', CodecLeft', PlaybackLeft', Len(spQueue'))
  BY <1>2, <1>6, Zenon DEF Fewer
<1> QED BY <1>9, LeftType, LeftTypeNext, FewerLeft

LEMMA PlaybackRunsDown ==
  Inv /\ Inv' /\ LimitInv /\ LimitInv' /\ main \in Joining /\ Playback => StepsLeft' < StepsLeft
<1> SUFFICES ASSUME Inv, Inv', LimitInv, LimitInv', main \in Joining, Playback
             PROVE  StepsLeft' < StepsLeft
  OBVIOUS
<1>1. UNCHANGED <<main, cap, codec, retry, spQueue>>
  BY DEF Playback, PlaybackTest, PlaybackDequeue, PlaybackWrite, callerVars, capVars, codecVars
<1>2. /\ JoinsLeft' = JoinsLeft /\ CaptureLeft' = CaptureLeft
      /\ CodecLeft' = CodecLeft /\ spQueue' = spQueue
  BY <1>1 DEF JoinsLeft, CaptureLeft, CodecLeft
<1>3. PlaybackLeft' < PlaybackLeft
  <2>1. CASE PlaybackTest
    BY <2>1 DEF PlaybackTest, PlaybackLeft, Joining, Inv, Control
  <2>2. CASE PlaybackDequeue
    BY <2>2 DEF PlaybackDequeue, PlaybackLeft
  <2>3. CASE PlaybackWrite
    BY <2>3 DEF PlaybackWrite, PlaybackLeft
  <2> QED BY <2>1, <2>2, <2>3 DEF Playback
<1>9. Fewer(JoinsLeft, CaptureLeft, CodecLeft, PlaybackLeft, Len(spQueue),
             JoinsLeft', CaptureLeft', CodecLeft', PlaybackLeft', Len(spQueue'))
  BY <1>2, <1>3, Zenon DEF Fewer
<1> QED BY <1>9, LeftType, LeftTypeNext, FewerLeft

\* A stop never takes more than StepsLeft steps of the threads, for every size of the
\* pools, every limit and whatever the devices return (bb_audio_stream.c:340-358): what
\* fairness adds for StopReturns is only that some thread takes the next one.
THEOREM StopsRunDown == Spec => []StopIsShort /\ StopRunsDown
<1>1. Inv /\ Inv' /\ LimitInv /\ LimitInv' /\ [Next]_vars
        => [ (main \in Joining) => StepsLeft' < StepsLeft ]_vars
  BY CallerRunsDown, CaptureRunsDown, CodecRunsDown, PlaybackRunsDown DEF Next
<1> QED BY <1>1, ShortStop, LimitsHold, PTL DEF Spec, StopRunsDown
=============================================================================
