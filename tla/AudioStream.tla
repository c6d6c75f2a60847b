---------------------------- MODULE AudioStream -----------------------------
(***************************************************************************)
(* The audio stream manager (middleware/bb_audio_stream.c): the lifecycle  *)
(* calls start and stop, and the three threads they spawn and join,        *)
(*                                                                         *)
(*   capture -> SPSC pool -> codec -> MPSC pool -> playback.               *)
(*                                                                         *)
(* The two pools are used through what SpscPool and MpscPool are proved to *)
(* implement: a bounded FIFO, and an array of frames with one owner each   *)
(* from which a dequeue takes the lowest-numbered queued frame.  A pool    *)
(* operation is one step here.                                             *)
(*                                                                         *)
(* Audio is reduced to the number of the captured period; 0 is a frame of  *)
(* size 0.  A blocking read or write of the sound device is one step, taken*)
(* when it returns.                                                        *)
(***************************************************************************)
EXTENDS Integers, Sequences, FiniteSets, FiniteSetsExt

CONSTANTS
  NFrames,         \* frames in each pool (cfg.pool_frames, 4 by default)
  XrunLimit,       \* consecutive xruns a thread tolerates (10 in the code)
  SentinelRetries, \* attempts to queue the sentinel (100 in the code)
  ReadResults,     \* what a read of the capture device may return ...
  WriteResults,    \* ... and a write: a subset of {"ok", "xrun", "fail"}
  CodecFails,      \* can codec_ops->encode fail (FALSE: PCM passthrough)
  SpawnFails,      \* can pthread_create fail
  MaxPeriods,      \* bound: captured periods
  MaxSessions      \* bound: calls of bb_audio_stream_start

ASSUME SizesAssumption ==
  /\ NFrames \in Nat \ {0} /\ XrunLimit \in Nat /\ SentinelRetries \in Nat \ {0}
  /\ MaxPeriods \in Nat /\ MaxSessions \in Nat
ASSUME ResultsAssumption ==
  /\ ReadResults \subseteq {"ok", "xrun", "fail"}
  /\ WriteResults \subseteq {"ok", "xrun", "fail"}
  /\ CodecFails \in BOOLEAN /\ SpawnFails \in BOOLEAN

VARIABLES
  main,             \* the caller: inside which call, or between two
  running, error,   \* s->running, s->error
  prepared,         \* the sound devices accept reads and writes
  cap, capXruns,    \* capture thread: next step, ctx->xrun_count
  codec, inPeriod, outFrame, retry, \* codec thread: next step and locals
  pb, pbXruns, pbFrame,             \* playback thread: the same
  spQueue,          \* committed SPSC frames, oldest first
  mpOwner, mpData,  \* per MPSC frame: its owner, the period in it
  captured, played, lost, \* periods so far: how many, written out, given up
  sessions          \* calls of start

callerVars == <<main, running, error, prepared, sessions>>
capVars    == <<cap, capXruns, captured>>
codecVars  == <<codec, inPeriod, outFrame, retry>>
pbVars     == <<pb, pbXruns, pbFrame, played>>
mpVars     == <<mpOwner, mpData>>
vars == <<callerVars, capVars, codecVars, pbVars, spQueue, mpVars, lost>>

Frames == 0 .. NFrames - 1
NoFrame == NFrames

\* SPSC frames in use: filled by capture, committed, read by the codec.
SpInUse == Len(spQueue) + (IF cap = "read" THEN 1 ELSE 0)
                        + (IF inPeriod # 0 THEN 1 ELSE 0)

\* Variant: a queued frame can be claimed again.
FreeOrQueuedFrames == {f \in Frames : mpOwner[f] \in {"free", "queued"}}

FreeFrames   == {f \in Frames : mpOwner[f] = "free"}
QueuedFrames == {f \in Frames : mpOwner[f] = "queued"}

-----------------------------------------------------------------------------
\* After bb_audio_stream_init: pools empty, devices open and prepared.
Init ==
  /\ main = "stopped" /\ running = FALSE /\ error = FALSE /\ prepared = TRUE
  /\ sessions = 0
  /\ cap = "none" /\ capXruns = 0 /\ captured = 0
  /\ codec = "none" /\ inPeriod = 0 /\ outFrame = NoFrame /\ retry = 0
  /\ pb = "none" /\ pbXruns = 0 /\ pbFrame = NoFrame /\ played = {}
  /\ spQueue = <<>>
  /\ mpOwner = [f \in Frames |-> "free"] /\ mpData = [f \in Frames |-> 0]
  /\ lost = {}

-----------------------------------------------------------------------------
(* The caller *)

\* bb_thread_spawn returns an error number, never a negative value, and start
\* tests for < 0: a thread that was not created goes unnoticed.
Spawned == IF SpawnFails THEN {"test", "none"} ELSE {"test"}

StartPlayback ==
  /\ main = "stopped" /\ sessions < MaxSessions
  /\ sessions' = sessions + 1
  /\ running' = TRUE /\ error' = FALSE
  /\ pb' \in Spawned /\ pbXruns' = 0
  /\ main' = "spawnCodec"
  /\ UNCHANGED <<prepared, capVars, codecVars, pbFrame, played, spQueue, mpVars, lost>>

StartCodec ==
  /\ main = "spawnCodec"
  /\ codec' \in Spawned /\ retry' = 0
  /\ main' = "spawnCapture"
  /\ UNCHANGED <<running, error, prepared, sessions, capVars, inPeriod, outFrame,
                 pbVars, spQueue, mpVars, lost>>

StartCapture ==
  /\ main = "spawnCapture"
  /\ cap' \in Spawned /\ capXruns' = 0
  /\ main' = "started"
  /\ UNCHANGED <<running, error, prepared, sessions, captured, codecVars, pbVars,
                 spQueue, mpVars, lost>>

Stop ==
  /\ main = "started"
  /\ running' = FALSE
  /\ main' = "joinCapture"
  /\ UNCHANGED <<error, prepared, sessions, capVars, codecVars, pbVars, spQueue,
                 mpVars, lost>>

\* pthread_join waits for the thread; on one that was never created it returns
\* an error or brings the process down.
Join(at, thread, next) ==
  /\ main = at
  /\ \/ thread = "exited" /\ main' = next
     \/ thread = "none" /\ main' \in {next, "crashed"}
  /\ UNCHANGED <<running, error, sessions, capVars, codecVars, pbVars, spQueue,
                 mpVars, lost>>

JoinCapture == Join("joinCapture", cap, "joinCodec") /\ UNCHANGED prepared
JoinCodec   == Join("joinCodec", codec, "joinPlayback") /\ UNCHANGED prepared

\* After the last join stop drops both streams, which leaves the devices set
\* up but not prepared; nothing prepares them again.
JoinPlayback == Join("joinPlayback", pb, "stopped")
                /\ prepared' = (prepared /\ main' # "stopped")

-----------------------------------------------------------------------------
(* capture_thread_fn *)

\* MaxPeriods bounds the captures, not the code: there capture goes on.
CaptureTest ==
  /\ cap = "test"
  /\ \/ ~running /\ cap' = "exited"
     \/ running /\ captured < MaxPeriods /\ cap' = "acquire"
  /\ UNCHANGED <<callerVars, capXruns, captured, codecVars, pbVars, spQueue,
                 mpVars, lost>>

CaptureAcquire ==
  /\ cap = "acquire"
  /\ cap' = IF SpInUse < NFrames THEN "read" ELSE "discard"
  /\ UNCHANGED <<callerVars, capXruns, captured, codecVars, pbVars, spQueue,
                 mpVars, lost>>

\* A device that is not prepared fails every read and write (-EBADFD).
ReadResult  == IF prepared THEN ReadResults ELSE {"fail"}
WriteResult == IF prepared THEN WriteResults ELSE {"fail"}

\* Variant: a thread that gives up does not say so.
RaiseNothing == UNCHANGED error

RaiseError == error' = TRUE

\* The read into an acquired frame: commit it, or give it back on an error.
CaptureRead ==
  /\ cap = "read"
  /\ \E r \in ReadResult :
       \/ /\ r = "ok"
          /\ capXruns' = 0
          /\ captured' = captured + 1
          /\ spQueue' = Append(spQueue, captured + 1)
          /\ cap' = "test"
          /\ UNCHANGED error
       \/ /\ r = "xrun"
          /\ capXruns' = capXruns + 1
          /\ IF capXruns' > XrunLimit
               THEN RaiseError /\ cap' = "exited"
               ELSE UNCHANGED error /\ cap' = "test"
          /\ UNCHANGED <<captured, spQueue>>
       \/ /\ r = "fail"
          /\ RaiseError
          /\ cap' = "exited"
          /\ UNCHANGED <<capXruns, captured, spQueue>>
  /\ UNCHANGED <<main, running, prepared, sessions, codecVars, pbVars, mpVars, lost>>

\* No frame: the period is read into the stack and thrown away.  Whatever the
\* result short of the limit, the xrun count starts again from 0.
CaptureDiscard ==
  /\ cap = "discard"
  /\ \E r \in ReadResult :
       IF r = "xrun" /\ capXruns + 1 > XrunLimit
         THEN RaiseError /\ capXruns' = capXruns + 1 /\ cap' = "exited"
         ELSE UNCHANGED error /\ capXruns' = 0 /\ cap' = "test"
  /\ UNCHANGED <<main, running, prepared, sessions, captured, codecVars, pbVars,
                 spQueue, mpVars, lost>>

-----------------------------------------------------------------------------
(* codec_thread_fn *)

CodecTest ==
  /\ codec = "test"
  /\ codec' = IF running THEN "take" ELSE "drain"
  /\ UNCHANGED <<callerVars, capVars, inPeriod, outFrame, retry, pbVars, spQueue,
                 mpVars, lost>>

\* Variant: an empty pool ends the thread ("break" for "continue").
CodecTakeOrDie ==
  /\ codec = "take"
  /\ IF spQueue = <<>>
       THEN codec' = "exited" /\ UNCHANGED <<inPeriod, spQueue>>
       ELSE /\ inPeriod' = Head(spQueue)
            /\ spQueue' = Tail(spQueue)
            /\ codec' = "claim"
  /\ UNCHANGED <<callerVars, capVars, outFrame, retry, pbVars, mpVars, lost>>

\* An empty pool sends the thread to sleep for a millisecond and round again.
CodecTake ==
  /\ codec = "take"
  /\ IF spQueue = <<>>
       THEN codec' = "test" /\ UNCHANGED <<inPeriod, spQueue>>
       ELSE /\ inPeriod' = Head(spQueue)
            /\ spQueue' = Tail(spQueue)
            /\ codec' = "claim"
  /\ UNCHANGED <<callerVars, capVars, outFrame, retry, pbVars, mpVars, lost>>

\* Claims the lowest-numbered free MPSC frame, or drops the period.
CodecClaim ==
  /\ codec = "claim"
  /\ IF FreeFrames # {}
       THEN /\ outFrame' = Min(FreeFrames)
            /\ mpOwner' = [mpOwner EXCEPT ![outFrame'] = "filling"]
            /\ codec' = "encode"
            /\ UNCHANGED <<inPeriod, lost>>
       ELSE /\ lost' = lost \cup {inPeriod}
            /\ inPeriod' = 0
            /\ codec' = "test"
            /\ UNCHANGED <<outFrame, mpOwner>>
  /\ UNCHANGED <<callerVars, capVars, retry, pbVars, spQueue, mpData>>

\* Variant: a failed encode ends the thread ("break") with the frame claimed.
CodecEncodeBreaks ==
  /\ codec = "encode"
  /\ \/ /\ mpData' = [mpData EXCEPT ![outFrame] = inPeriod]
        /\ codec' = "enqueue"
        /\ UNCHANGED lost
     \/ /\ CodecFails
        /\ lost' = lost \cup {inPeriod}
        /\ codec' = "exited"
        /\ UNCHANGED mpData
  /\ inPeriod' = 0
  /\ UNCHANGED <<callerVars, capVars, outFrame, retry, pbVars, spQueue, mpOwner>>

\* Copies or encodes, then releases the SPSC frame.  A failed encode leaves a
\* frame of size 0.
CodecEncode ==
  /\ codec = "encode"
  /\ \/ mpData' = [mpData EXCEPT ![outFrame] = inPeriod] /\ UNCHANGED lost
     \/ /\ CodecFails
        /\ mpData' = [mpData EXCEPT ![outFrame] = 0]
        /\ lost' = lost \cup {inPeriod}
  /\ inPeriod' = 0
  /\ codec' = "enqueue"
  /\ UNCHANGED <<callerVars, capVars, outFrame, retry, pbVars, spQueue, mpOwner>>

CodecEnqueue ==
  /\ codec = "enqueue"
  /\ mpOwner' = [mpOwner EXCEPT ![outFrame] = "queued"]
  /\ outFrame' = NoFrame
  /\ codec' = "test"
  /\ UNCHANGED <<callerVars, capVars, inPeriod, retry, pbVars, spQueue, mpData, lost>>

\* Variant: no sentinel after the drain.
CodecDrainOnly ==
  /\ codec = "drain"
  /\ IF spQueue = <<>>
       THEN codec' = "exited" /\ UNCHANGED <<spQueue, lost>>
       ELSE /\ lost' = lost \cup {Head(spQueue)}
            /\ spQueue' = Tail(spQueue)
            /\ UNCHANGED codec
  /\ UNCHANGED <<callerVars, capVars, inPeriod, outFrame, retry, pbVars, mpVars>>

\* Variant: the drain takes one frame ("if" for "while").
CodecDrainOne ==
  /\ codec = "drain"
  /\ codec' = "sentinel"
  /\ spQueue' = IF spQueue = <<>> THEN <<>> ELSE Tail(spQueue)
  /\ lost' = IF spQueue = <<>> THEN lost ELSE lost \cup {Head(spQueue)}
  /\ UNCHANGED <<callerVars, capVars, inPeriod, outFrame, retry, pbVars, mpVars>>

\* One turn of the drain loop: dequeue and release.
CodecDrain ==
  /\ codec = "drain"
  /\ IF spQueue = <<>>
       THEN codec' = "sentinel" /\ UNCHANGED <<spQueue, lost>>
       ELSE /\ lost' = lost \cup {Head(spQueue)}
            /\ spQueue' = Tail(spQueue)
            /\ UNCHANGED codec
  /\ UNCHANGED <<callerVars, capVars, inPeriod, outFrame, retry, pbVars, mpVars>>

\* Queues a frame of size 0, or sleeps a millisecond and tries again.
CodecSentinel ==
  /\ codec = "sentinel"
  /\ IF FreeFrames # {}
       THEN /\ mpOwner' = [mpOwner EXCEPT ![Min(FreeFrames)] = "queued"]
            /\ mpData' = [mpData EXCEPT ![Min(FreeFrames)] = 0]
            /\ codec' = "exited"
            /\ UNCHANGED retry
       ELSE /\ retry' = retry + 1
            /\ codec' = IF retry' = SentinelRetries THEN "exited" ELSE "sentinel"
            /\ UNCHANGED mpVars
  /\ UNCHANGED <<callerVars, capVars, inPeriod, outFrame, pbVars, spQueue, lost>>

-----------------------------------------------------------------------------
(* playback_thread_fn *)

PlaybackTest ==
  /\ pb = "test"
  /\ pb' = IF running THEN "dequeue" ELSE "exited"
  /\ UNCHANGED <<callerVars, capVars, codecVars, pbXruns, pbFrame, played, spQueue,
                 mpVars, lost>>

\* Blocks until a frame is queued; one of size 0 ends the thread.
PlaybackDequeue ==
  /\ pb = "dequeue"
  /\ QueuedFrames # {}
  /\ LET f == Min(QueuedFrames)
     IN IF mpData[f] = 0
          THEN /\ mpOwner' = [mpOwner EXCEPT ![f] = "free"]
               /\ pb' = "exited"
               /\ UNCHANGED pbFrame
          ELSE /\ mpOwner' = [mpOwner EXCEPT ![f] = "held"]
               /\ pbFrame' = f
               /\ pb' = "write"
  /\ UNCHANGED <<callerVars, capVars, codecVars, pbXruns, played, spQueue, mpData, lost>>

\* The write returns and the frame is released, whatever the result.
PlaybackWrite ==
  /\ pb = "write"
  /\ \E w \in WriteResult :
       \/ /\ w = "ok"
          /\ pbXruns' = 0
          /\ played' = played \cup {mpData[pbFrame]}
          /\ pb' = "test"
          /\ UNCHANGED <<error, lost>>
       \/ /\ w = "xrun"
          /\ pbXruns' = pbXruns + 1
          /\ IF pbXruns' > XrunLimit
               THEN RaiseError /\ pb' = "exited"
               ELSE UNCHANGED error /\ pb' = "test"
          /\ lost' = lost \cup {mpData[pbFrame]}
          /\ UNCHANGED played
       \/ /\ w = "fail"
          /\ RaiseError
          /\ pb' = "exited"
          /\ lost' = lost \cup {mpData[pbFrame]}
          /\ UNCHANGED <<pbXruns, played>>
  /\ mpOwner' = [mpOwner EXCEPT ![pbFrame] = "free"]
  /\ pbFrame' = NoFrame
  /\ UNCHANGED <<main, running, prepared, sessions, capVars, codecVars, spQueue, mpData>>

-----------------------------------------------------------------------------
Caller   == StartPlayback \/ StartCodec \/ StartCapture \/ Stop
            \/ JoinCapture \/ JoinCodec \/ JoinPlayback
Capture  == CaptureTest \/ CaptureAcquire \/ CaptureRead \/ CaptureDiscard
Codec    == CodecTest \/ CodecTake \/ CodecClaim \/ CodecEncode \/ CodecEnqueue
            \/ CodecDrain \/ CodecSentinel
Playback == PlaybackTest \/ PlaybackDequeue \/ PlaybackWrite

Next == Caller \/ Capture \/ Codec \/ Playback

Spec == Init /\ [][Next]_vars

\* The scheduler runs every thread that can run (each is pinned to a core of
\* its own), and a device that is prepared returns from every read and write.
\* Nothing obliges the caller to call start or stop, but a call goes on.
FairSpec == /\ Spec
            /\ WF_vars(Capture) /\ WF_vars(Codec) /\ WF_vars(Playback)
            /\ WF_vars(StartCodec \/ StartCapture)
            /\ WF_vars(JoinCapture \/ JoinCodec \/ JoinPlayback)

-----------------------------------------------------------------------------
(* Properties *)

Periods == 1 .. MaxPeriods

TypeOK ==
  /\ main \in {"stopped", "spawnCodec", "spawnCapture", "started", "joinCapture",
               "joinCodec", "joinPlayback", "crashed"}
  /\ running \in BOOLEAN /\ error \in BOOLEAN /\ prepared \in BOOLEAN
  /\ sessions \in 0 .. MaxSessions
  /\ cap \in {"none", "test", "acquire", "read", "discard", "exited"}
  /\ capXruns \in 0 .. XrunLimit + 1
  /\ captured \in 0 .. MaxPeriods
  /\ codec \in {"none", "test", "take", "claim", "encode", "enqueue", "drain",
                "sentinel", "exited"}
  /\ inPeriod \in 0 .. MaxPeriods /\ outFrame \in Frames \cup {NoFrame}
  /\ retry \in 0 .. SentinelRetries
  /\ pb \in {"none", "test", "dequeue", "write", "exited"}
  /\ pbXruns \in 0 .. XrunLimit + 1 /\ pbFrame \in Frames \cup {NoFrame}
  /\ spQueue \in Seq(Periods) /\ Len(spQueue) <= NFrames
  /\ mpOwner \in [Frames -> {"free", "filling", "queued", "held"}]
  /\ mpData \in [Frames -> 0 .. MaxPeriods]
  /\ played \subseteq Periods /\ lost \subseteq Periods

\* A captured period is in exactly one place: waiting for the codec, in its
\* hands, waiting for or in the hands of playback, played, or given up.  None
\* vanishes and none is played twice, across errors, stops and restarts.
InMp(f) == mpOwner[f] \in {"queued", "held"}
           \/ (mpOwner[f] = "filling" /\ codec = "enqueue")
Places(n) ==
    Cardinality({i \in DOMAIN spQueue : spQueue[i] = n})
  + (IF inPeriod = n THEN 1 ELSE 0)
  + Cardinality({f \in Frames : InMp(f) /\ mpData[f] = n})
  + (IF n \in played THEN 1 ELSE 0)
  + (IF n \in lost THEN 1 ELSE 0)
EachPeriodInOnePlace == \A n \in 1 .. captured : Places(n) = 1

\* When stop returns, no frame is still in the hands of a thread that is gone:
\* on every way out, errors included, capture, codec and playback have given
\* their frames back or queued them.
StopLeaksNoFrame ==
  main = "stopped" =>
    /\ inPeriod = 0 /\ cap # "read"
    /\ \A f \in Frames : mpOwner[f] \in {"free", "queued"}

\* The codec's drain misses at most one period: the one capture was about to
\* commit when it ran.  That period stays in the pool when stop returns and is
\* the first of the next session (a codec thread that was never created drains
\* nothing).
StopLeavesAtMostOne ==
  main = "stopped" /\ codec = "exited" => Len(spQueue) <= 1

\* A thread that dies while the stream runs has raised s->error, with one
\* exception: a failed encode ends playback by a frame of size 0, and has lost
\* its period.  In PCM passthrough a stream that goes silent is always flagged.
\* (Only the first session: a restart can find the sentinel of the last stop.)
DeathIsFlagged ==
  sessions = 1 /\ running =>
    /\ "exited" \in {cap, codec} => error
    /\ pb = "exited" => error \/ (CodecFails /\ lost # {})

\* If the codec thread was created, stop always returns, or a join of another
\* thread that was not brings the process down: the sentinel or a pending frame
\* gets playback out of its wait, wherever the three threads were when running
\* was cleared, and whether or not some have died of an error.  (Without a codec
\* thread there is no sentinel, and stop waits for playback for ever.)
StopReturns ==
  (main = "joinCapture" /\ codec # "none") ~> (main \in {"stopped", "crashed"})

\* While the stream runs and has its codec thread, a committed period does not
\* stay in the SPSC pool.
Committed(n) == \E i \in DOMAIN spQueue : spQueue[i] = n
CommittedIsTaken ==
  \A n \in Periods :
    Committed(n) ~> (~Committed(n) \/ ~running \/ codec = "none")

-----------------------------------------------------------------------------
(* A statement of the documentation that the code does not live up to.      *)

\* "<50ms latency" (docs/system-architecture.md:124): a period is 10 ms
\* (bb_hal_audio.c:129), so a period that waits while five later ones are
\* played is more than 50 ms old.
LatencyPeriods == 5
PassthroughLatency ==
  \A f \in QueuedFrames : mpData[f] # 0 =>
    Cardinality({n \in played : n > mpData[f]}) < LatencyPeriods
=============================================================================
