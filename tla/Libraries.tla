----------------------------- MODULE Libraries ------------------------------
(***************************************************************************)
(* The libraries and device wrappers below blocks and services, and the    *)
(* web daemon's reports, side by side.  They share no state, so a          *)
(* behaviour uses one of them, lib, and the variables of the others are    *)
(* unused.  A variable has the name it has in its module unless two        *)
(* modules have one of that name.  The module of the configuration is      *)
(* extended, the others are instances.                                     *)
(***************************************************************************)
EXTENDS ConfigFile, FiniteSets

CONSTANTS
  LogMax, MaxLine,                \* LogFile
  MaxSecond,                      \* CrashReport
  Label, Blank,                   \* Snapshots; Value and Torn are its contents
  Word, Number, Size, MaxFields,  \* JsonFields
  PinUser,                        \* GpioHal
  MaxFlips,                       \* DisplayHal
  BufSize, Width, LineLength, MaxRows,  \* JsonReports
  Device, Wanted,                 \* AudioHal
  None, Unused

\* What the kernel says of a sound device: at least one channel and one frame
\* to a period, and no empty range.
Limit == [chMin : Nat \ {0}, chMax : Nat, rateMin : Nat, rateMax : Nat, psMin : Nat \ {0},
          psMax : Nat, bsMax : Nat, bytesMax : Nat, periodsMin : Nat]

ASSUME ProcessAssumption == IsFiniteSet(Process) /\ Process # {}
ASSUME LogAssumption     == LogMax \in Nat /\ MaxLine \in Nat
ASSUME AudioAssumption   ==
  /\ Device \subseteq Limit /\ \A d \in Device : d.psMin <= d.psMax
  /\ Wanted \subseteq [rate : Nat, channels : Nat, fmt : {"S16", "S24", "S32"}]
ASSUME ReportAssumption  ==
  /\ BufSize \in Nat \ {0, 1} /\ MaxRows \in Nat
  /\ Width \subseteq Nat /\ LineLength \subseteq Nat \ {0}

VARIABLES
  lib,
  size, open, current_size, logPc, lost, logDied,
  clock, crashPc, second, closed, latest, group, died,
  persist, persistMounted, recoveryMounted, scratchMounted, dirs, manifest, archive, unsynced, call,
  written, pos, fields, stage,
  sysfs, isExported, holder, gpioPc, fd, exported, failed,
  displayPc, step, held, pending, events, flips, late,
  state, dir, dev, wanted, audio, start, queued,
  report, phase, jw, keys, rows, unread, odd

Log == INSTANCE LogFile WITH Max <- LogMax, pc <- logPc, died <- logDied
Crash == INSTANCE CrashReport WITH pc <- crashPc
Snap == INSTANCE Snapshots WITH Data <- Value, Partial <- Torn
Json == INSTANCE JsonFields WITH text <- written
Gpio == INSTANCE GpioHal WITH Process <- PinUser, pc <- gpioPc
Display == INSTANCE DisplayHal WITH pc <- displayPc
Audio == INSTANCE AudioHal
Rep == INSTANCE JsonReports

logAll == <<size, open, current_size, logPc, lost, logDied>>
crashAll == <<clock, crashPc, second, closed, latest, group, died>>
snapshotsAll == <<persist, persistMounted, recoveryMounted, scratchMounted,
                  dirs, manifest, archive, unsynced, call>>
jsonAll == <<written, pos, fields, stage>>
gpioAll == <<sysfs, isExported, holder, gpioPc, fd, exported, failed>>
displayAll == <<displayPc, step, held, pending, events, flips, late>>
audioAll == <<state, dir, dev, wanted, audio, start, queued>>
reportsAll == <<report, phase, jw, keys, rows, unread, odd>>

\* Of an unused library harmed, lost and call have a value with which its
\* action property asks for nothing.
NoConfig ==
  /\ conf = Unused /\ tmp = Unused /\ durable = Unused
  /\ full = Unused /\ pc = Unused /\ key = Unused
  /\ value = Unused /\ text = Unused /\ out = Unused
  /\ sets = Unused /\ harmed = TRUE
NoLog ==
  /\ size = Unused /\ open = Unused /\ current_size = Unused
  /\ logPc = Unused /\ lost = TRUE /\ logDied = Unused
NoCrash ==
  /\ clock = Unused /\ crashPc = Unused /\ second = Unused
  /\ closed = Unused /\ latest = Unused /\ group = Unused
  /\ died = Unused
NoSnapshots ==
  /\ persist = Unused /\ persistMounted = Unused /\ recoveryMounted = Unused
  /\ scratchMounted = Unused /\ dirs = Unused /\ manifest = Unused
  /\ archive = Unused /\ unsynced = Unused /\ call = Snap!Idle
NoJson ==
  /\ written = Unused /\ pos = Unused /\ fields = Unused
  /\ stage = Unused
NoGpio ==
  /\ sysfs = Unused /\ isExported = Unused /\ holder = Unused
  /\ gpioPc = Unused /\ fd = Unused /\ exported = Unused
  /\ failed = Unused
NoDisplay ==
  /\ displayPc = Unused /\ step = Unused /\ held = Unused
  /\ pending = Unused /\ events = Unused /\ flips = Unused
  /\ late = Unused
NoAudio ==
  /\ state = Unused /\ dir = Unused /\ dev = Unused
  /\ wanted = Unused /\ audio = Unused /\ start = Unused
  /\ queued = Unused
NoReports ==
  /\ report = Unused /\ phase = Unused /\ jw = Unused
  /\ keys = Unused /\ rows = Unused /\ unread = Unused
  /\ odd = Unused

LibInit ==
  \/ lib = "config" /\ Init
     /\ NoLog /\ NoCrash /\ NoSnapshots /\ NoJson
     /\ NoGpio /\ NoDisplay /\ NoAudio /\ NoReports
  \/ lib = "log" /\ Log!Init
     /\ NoConfig /\ NoCrash /\ NoSnapshots /\ NoJson
     /\ NoGpio /\ NoDisplay /\ NoAudio /\ NoReports
  \/ lib = "crash" /\ Crash!Init
     /\ NoConfig /\ NoLog /\ NoSnapshots /\ NoJson
     /\ NoGpio /\ NoDisplay /\ NoAudio /\ NoReports
  \/ lib = "snapshots" /\ Snap!Init
     /\ NoConfig /\ NoLog /\ NoCrash /\ NoJson
     /\ NoGpio /\ NoDisplay /\ NoAudio /\ NoReports
  \/ lib = "json" /\ Json!Init
     /\ NoConfig /\ NoLog /\ NoCrash /\ NoSnapshots
     /\ NoGpio /\ NoDisplay /\ NoAudio /\ NoReports
  \/ lib = "gpio" /\ Gpio!Init
     /\ NoConfig /\ NoLog /\ NoCrash /\ NoSnapshots
     /\ NoJson /\ NoDisplay /\ NoAudio /\ NoReports
  \/ lib = "display" /\ Display!Init
     /\ NoConfig /\ NoLog /\ NoCrash /\ NoSnapshots
     /\ NoJson /\ NoGpio /\ NoAudio /\ NoReports
  \/ lib = "audio" /\ Audio!Init
     /\ NoConfig /\ NoLog /\ NoCrash /\ NoSnapshots
     /\ NoJson /\ NoGpio /\ NoDisplay /\ NoReports
  \/ lib = "reports" /\ Rep!Init
     /\ NoConfig /\ NoLog /\ NoCrash /\ NoSnapshots
     /\ NoJson /\ NoGpio /\ NoDisplay /\ NoAudio

LibNext ==
  \/ lib = "config" /\ Next
     /\ UNCHANGED <<lib, logAll, crashAll, snapshotsAll, jsonAll, gpioAll,
                    displayAll, audioAll, reportsAll>>
  \/ lib = "log" /\ Log!Next
     /\ UNCHANGED <<lib, vars, crashAll, snapshotsAll, jsonAll, gpioAll,
                    displayAll, audioAll, reportsAll>>
  \/ lib = "crash" /\ Crash!Next
     /\ UNCHANGED <<lib, vars, logAll, snapshotsAll, jsonAll, gpioAll,
                    displayAll, audioAll, reportsAll>>
  \/ lib = "snapshots" /\ Snap!Next
     /\ UNCHANGED <<lib, vars, logAll, crashAll, jsonAll, gpioAll,
                    displayAll, audioAll, reportsAll>>
  \/ lib = "json" /\ Json!Next
     /\ UNCHANGED <<lib, vars, logAll, crashAll, snapshotsAll, gpioAll,
                    displayAll, audioAll, reportsAll>>
  \/ lib = "gpio" /\ Gpio!Next
     /\ UNCHANGED <<lib, vars, logAll, crashAll, snapshotsAll, jsonAll,
                    displayAll, audioAll, reportsAll>>
  \/ lib = "display" /\ Display!Next
     /\ UNCHANGED <<lib, vars, logAll, crashAll, snapshotsAll, jsonAll,
                    gpioAll, audioAll, reportsAll>>
  \/ lib = "audio" /\ Audio!Next
     /\ UNCHANGED <<lib, vars, logAll, crashAll, snapshotsAll, jsonAll,
                    gpioAll, displayAll, reportsAll>>
  \/ lib = "reports" /\ Rep!Next
     /\ UNCHANGED <<lib, vars, logAll, crashAll, snapshotsAll, jsonAll,
                    gpioAll, displayAll, audioAll>>

libVars == <<lib, vars, logAll, crashAll, snapshotsAll, jsonAll, gpioAll, displayAll, audioAll,
             reportsAll>>

LibSpec == LibInit /\ [][LibNext]_libVars

-----------------------------------------------------------------------------
\* The log file stays bounded (LogFile).
LogBounded == lib = "log" => Log!LogBounded
\* A cut never lengthens the log file (LogFile).
CutShortens == Log!CutShortens
\* The link names a finished report of the last group (CrashReport).
LatestIsLast == lib = "crash" => Crash!LatestIsLast
\* A restore that reports success restored its archive (Snapshots).
RestoredIsSnapshot == Snap!RestoredIsSnapshot
\* What was added is read back (JsonFields).
FieldsReadBack == lib = "json" => Json!FieldsReadBack
\* The pin is exported exactly while it is used (GpioHal).
ExportedWhileUsed == lib = "gpio" => Gpio!ExportedWhileUsed
\* A closed display holds nothing (DisplayHal).
ClosedHoldsNothing == lib = "display" => Display!ClosedHoldsNothing
\* A flip waits for its own frame until a wait runs out (DisplayHal).
FlipsInStep == lib = "display" => Display!FlipsInStep
\* A playback device with a full buffer has started (AudioHal).
PlaybackStarts == lib = "audio" => Audio!PlaybackStarts
\* A finished report of the web daemon is JSON (JsonReports).
ReportsParse == lib = "reports" => Rep!ReportsParse
=============================================================================
