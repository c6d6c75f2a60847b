------------------------------ MODULE AudioHal ------------------------------
(***************************************************************************)
(* The audio HAL (hal/bb_hal_audio.c): bb_audio_open learns the limits of  *)
(* a PCM device, derives rate, channels, period and buffer from them and   *)
(* sets the thresholds that start and stop the device; the stream manager  *)
(* then reads or writes a period at a time.                                *)
(*                                                                         *)
(* The kernel's part is external: it takes parameters that lie within the  *)
(* limits, starts playback once start_threshold frames are queued and      *)
(* capture at the first read, and stops either (an xrun) when the          *)
(* application falls a whole buffer behind.  A write waits while there is  *)
(* no room: it is a disabled step.                                         *)
(***************************************************************************)
EXTENDS Naturals

CONSTANTS Device,   \* limits of the devices, as HW_REFINE returns them
          Wanted,   \* [rate, channels, fmt] that callers ask for
          None

VARIABLES state,   \* of the open call, then of the device
          dir,     \* "capture" or "playback"
          dev,     \* the device's limits
          wanted,  \* arguments of the call
          audio,   \* rate, channels, period_frames, buffer_frames, or None
          start,   \* start_threshold
          queued   \* frames between application and device

audioVars == <<state, dir, dev, wanted, audio, start, queued>>

Clamp(v, lo, hi) == IF v < lo THEN lo ELSE IF v > hi THEN hi ELSE v

FmtBytes(fmt) == CASE fmt = "S16" -> 2 [] fmt = "S24" -> 3 [] fmt = "S32" -> 4

Least(a, b) == IF a < b THEN a ELSE b

\* Ten milliseconds, but 16 frames at least unless the device has less.
PeriodTarget(rate, d) ==
  LET ten == Clamp(rate \div 100, d.psMin, d.psMax)
  IN Least(IF ten < 16 THEN 16 ELSE ten, d.psMax)

\* The largest buffer of whole periods.
BufferTarget(channels, fmt, period, d) ==
  LET frames == Least(d.bsMax, d.bytesMax \div (channels * FmtBytes(fmt)))
  IN (frames \div period) * period

\* What the device takes in HW_PARAMS (external).
Takes(d, fmt, a) ==
  /\ a.channels \in d.chMin .. d.chMax /\ a.rate \in d.rateMin .. d.rateMax
  /\ a.period \in d.psMin .. d.psMax
  /\ a.buffer <= d.bsMax /\ a.buffer >= d.periodsMin * a.period
  /\ a.buffer * a.channels * FmtBytes(fmt) <= d.bytesMax

Choice(d, w) ==
  LET channels == Clamp(w.channels, d.chMin, d.chMax)
      rate     == Clamp(w.rate, d.rateMin, d.rateMax)
      period   == PeriodTarget(rate, d)
  IN [rate |-> rate, channels |-> channels, period |-> period,
      buffer |-> BufferTarget(channels, w.fmt, period, d)]

\* Variant: the threshold in bytes.
StartThresholdInBytes(a) == a.period * a.channels * FmtBytes(wanted.fmt) * 2

StartThreshold(a) == IF dir = "capture" THEN 1 ELSE a.period * 2

Init ==
  /\ state = "closed" /\ dir = "capture" /\ dev \in Device /\ wanted \in Wanted
  /\ audio = None /\ start = 0 /\ queued = 0

-----------------------------------------------------------------------------
(* bb_audio_open *)

\* open and HW_REFINE
Open ==
  /\ state = "closed"
  /\ dir' \in {"capture", "playback"} /\ wanted' \in Wanted
  /\ state' = "hw_params"
  /\ UNCHANGED <<dev, audio, start, queued>>

HwParams ==
  /\ state = "hw_params"
  /\ Takes(dev, wanted.fmt, Choice(dev, wanted))
  /\ audio' = Choice(dev, wanted)
  /\ state' = "sw_params"
  /\ UNCHANGED <<dir, dev, wanted, start, queued>>

SwParams ==
  /\ state = "sw_params"
  /\ start' = StartThreshold(audio)
  /\ state' = "prepare"
  /\ UNCHANGED <<dir, dev, wanted, audio, queued>>

\* The last step of open, and xrun_recover of the stream manager.
Prepare ==
  /\ state \in {"prepare", "xrun"}
  /\ queued' = 0
  /\ state' = "prepared"
  /\ UNCHANGED <<dir, dev, wanted, audio, start>>

\* Any step of open may fail and closes the descriptor, as bb_audio_close does.
Close ==
  /\ state # "closed"
  /\ state' = "closed" /\ audio' = None /\ start' = 0 /\ queued' = 0
  /\ UNCHANGED <<dir, dev, wanted>>

-----------------------------------------------------------------------------
\* bb_audio_write of a period
Write ==
  /\ dir = "playback" /\ state \in {"prepared", "running"}
  /\ queued + audio.period <= audio.buffer
  /\ queued' = queued + audio.period
  /\ state' = (IF queued' >= start THEN "running" ELSE state)
  /\ UNCHANGED <<dir, dev, wanted, audio, start>>

\* bb_audio_read of a period: it starts the device, then waits for the period.
Read ==
  /\ dir = "capture"
  /\ \/ /\ state = "prepared" /\ audio.period >= start
        /\ state' = "running"
        /\ UNCHANGED queued
     \/ /\ state = "running" /\ queued >= audio.period
        /\ queued' = queued - audio.period
        /\ UNCHANGED state
  /\ UNCHANGED <<dir, dev, wanted, audio, start>>

\* A period passes on the device.
Elapse ==
  /\ state = "running"
  /\ IF dir = "playback" THEN queued' = queued - audio.period
                         ELSE queued' = queued + audio.period
  /\ state' = (IF queued' \in {0, audio.buffer} THEN "xrun" ELSE state)
  /\ UNCHANGED <<dir, dev, wanted, audio, start>>

Next == Open \/ HwParams \/ SwParams \/ Prepare \/ Close \/ Write \/ Read \/ Elapse

Spec == Init /\ [][Next]_audioVars

-----------------------------------------------------------------------------
\* A playback device that needs two periods at least is never left prepared
\* with a full buffer, where the next write would wait for a device that has
\* not started: start_threshold (bb_hal_audio.c:168) and the rounded buffer
\* (:139) fit each other for all limits.
PlaybackStarts ==
  dir = "playback" /\ state = "prepared" /\ dev.periodsMin >= 2 =>
    queued + audio.period <= audio.buffer
=============================================================================
