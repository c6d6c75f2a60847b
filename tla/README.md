# Formal model of the i.MX95 building blocks

TLA+ models of the concurrent and stateful parts of this repository: the frame pools, the real-time audio
pipeline built on them, the message bus daemon and its client library, the LED block, the web daemon, A/B booting
with its update tool, and the libraries and device wrappers below them: configuration, log, crash reports, snapshots, JSON, GPIO,
display, sound devices. TLC checks them on small instances; TLAPS proves every safety property of the passing
runs for every size. What must eventually happen is checked by TLC; TLAPS proves the part of it that needs no fairness.

## 1. The system

| Component | State it keeps | Operations | Talks to |
|---|---|---|---|
| Frame pool (`libbb/bb_pool.c`) | per frame: reference count, data; `write_idx`, `read_idx` (SPSC); `mp_pending`, mutex, condition (MPSC) | `sp_acquire/commit/dequeue/release`, `mp_acquire/enqueue/dequeue/release` | called by the audio threads, shared memory |
| Audio stream (`middleware/bb_audio_stream.c`) | `running`, `error`, two pools, two devices, three threads with an xrun count each | `init`, `start`, `stop`, `destroy`, `stats`; capture, codec and playback loops | pools, threads (`bb_thread.c`), sound devices (`bb_hal_audio.c`) |
| Bus daemon (`services/bb-busd.c`) | `clients[]`, `num_clients`, `subs[]`, epoll set | accept, receive, PUB/SUB/UNSUB/PING, remove | clients over a Unix socket |
| Bus client (`libbb/bb_bus.c`) | descriptor, receive buffer | connect, publish, subscribe, ping, poll | daemon |
| Block framework (`libbb/bb_block.c`) and LED block (`blocks/bb-led/main.c`) | block state, blink thread and its flag | start, main loop, command callback | bus client, LED HAL |
| A/B boot (`deploy/boot/boot.cmd`, `bb-boot-ok.service`), update tool (`tools/bb-update`), recovery (`libbb/bb_recovery.c`) | boot environment: slot, counters; partitions; mounts; snapshots | boot, confirm, install, factory reset; create, restore, list, delete snapshots | the boot loader's environment, `mkfs`, `tar`, `mount` |
| Configuration (`libbb/bb_persist.c`) | a file per namespace and its copy | get, set; boot and update logs | file system, other processes |
| Log (`libbb/bb_log.c`) | descriptor and count per process; the file; crash reports and the link to the latest | init, write (with the cut at `max_size`), close, report | file system, other processes |
| JSON (`libbb/bb_json.c`) | buffer and position | start, add, end; get | blocks and tools |
| Web daemon (`services/bb-webd.c`) | `clients[]`, epoll set | accept, parse, route, reply, remove | HTTP clients, HAL |
| GPIO (`hal/bb_hal_gpio.c`) | a line per process; the export, which is the system's | open (two interfaces), read, write, close | sysfs or gpiochip, other processes |
| Display (`hal/bb_hal_display.c`) | descriptor, buffer, mapping | open, flip, close | DRM |
| Sound (`hal/bb_hal_audio.c`) | parameters chosen at open | open, read, write, prepare, drop, close | ALSA, audio stream |
| Other HAL (`hal/*.c`) | a descriptor per device | open, read, write, close | device files |

What is hard in it, and what makes each part correct:

* **SPSC pool** - two threads, no lock, decisions taken from loads made at different times, indices that
  only grow. Correct: a bounded FIFO, exclusive frames, no refusal while a frame is free.
* **MPSC pool** - the references change outside the mutex that protects the count. Correct: no lost wakeup,
  no dequeue without a frame, one owner for each frame.
* **Audio stream** - three threads that can each die alone, a stop that must get all of them out of blocking
  calls, restarts that find what the last session left. Correct: stop returns, no period vanishes, no frame
  leaks, a silent stream is flagged.
* **Bus daemon** - event data that goes stale while other clients leave, lines cut by `recv` in buffers that move
  with their slots, descriptors that the kernel reuses, blocking sends from the only thread. Correct: a request is answered to the one who sent it, publications
  reach subscribers and nobody else.
* **Bus client, LED block** - lines that arrive in pieces, a flag shared by the command handler and any number of
  blink threads, sleeps in place of joins. Correct: commands in order, a command that is obeyed in the end, a LED
  that is off when the process is gone.
* **Boot, update, recovery** - three programs that write one boot environment, power cuts between any two
  steps, results nobody looks at. Correct: a slot gets its tries before it is given up, one mishap leaves a slot that
  boots, and a device with such a slot comes up.
* **Web daemon** - the bus daemon's stale indices, requests in pieces, a reset in the same event as a request.
  Correct: a request is handled once, as it was sent, and answered to its sender; no connection is lost; a report is JSON unless its buffer was too small.
* **Configuration** - a file rewritten as a whole, writers that share the name of the copy, power cuts, a full partition. Correct:
  a set changes one key, at once, and a cut brings back a state that was there.
* **Log, crash reports** - a file shared by processes that each count for themselves; two calls to replace a link. Correct: the
  file stays bounded, a cut never lengthens it, `latest` names a finished report.
* **Snapshots** - shell pipelines whose steps fail one at a time, mounts left behind. Correct: a restore that
  reports success restored the archive.
* **JSON** - a search that does not parse. Correct: what was added is read back.
* **GPIO, display, sound** - exports that belong to everybody, events later than the wait for them, resources to give back
  from wherever open fails, thresholds against buffers of any size. Correct: the pin is exported while it is used,
  a closed display holds nothing, playback starts.

`PROJECT.json` lists every hazard at its line.

## 2. Modules

| Module | Models | Composes / refines |
|---|---|---|
| `FrameFifo` | what the SPSC half of a pool promises: a bounded FIFO | abstract |
| `SpscPool` | `bb_pool.c:67-105`, one action per atomic access | refines `FrameFifo` |
| `SpscPoolProofs` | theorems about `SpscPool` | |
| `FrameOwnership` | what the MPSC half promises: one owner per frame, in a cycle | abstract |
| `MpscPool` | `bb_pool.c:107-150`, one action per atomic access and mutex operation | refines `FrameOwnership` |
| `MpscPoolProofs` | theorems about `MpscPool` | |
| `AudioStream` | `start`, `stop` and the three threads | uses the pools through what they are proved to promise |
| `AudioStreamProofs` | theorems about `AudioStream` | |
| `BusDaemon` | `bb-busd.c`: epoll loop, client table, subscriptions, with the clients as environment | |
| `BusDaemonProofs` | theorems about `BusDaemon` | |
| `BootUpdate` | `boot.cmd`, `bb-boot-ok.service`, `bb_update_install`, `bb_recovery_factory_reset`, with power cuts | |
| `BootUpdateProofs` | theorems about `BootUpdate` | |
| `BusClient` | the receive buffer of `bb_bus_poll` | |
| `LedBlock` | the main loop of `bb_block.c` and `blocks/bb-led/main.c` | extends `BusClient` |
| `LedBlockProofs` | theorems about `LedBlock` | |
| `JsonReports` | the JSON builder of `bb-webd.c` and the calls of its nine report handlers; a reader of JSON | |
| `WebDaemon` | `bb-webd.c`: epoll loop, connection table, requests, routing | |
| `WebDaemonProofs` | theorems about `WebDaemon` | |
| `ConfigMap` | what the configuration of a namespace promises: a map changed one key at a time | abstract |
| `ConfigFile` | `bb_persist_config_get` and `_set`: file, copy, rename, by several processes, with power cuts and a full partition | implements the steps of `ConfigMap` |
| `LogFile` | the log file of `bb_log.c`, shared by several processes | |
| `CrashReport` | crash reports and the link to the latest | |
| `Snapshots` | create, restore, list and delete of `bb_recovery.c`, with failing tools and power cuts | |
| `JsonFields` | the JSON writer and the getters of `bb_json.c` | |
| `GpioHal` | one pin of `bb_hal_gpio.c` and several processes | |
| `DisplayHal` | open, flip and close of `bb_hal_display.c` | |
| `AudioHal` | open, read and write of `bb_hal_audio.c` and the state of the device | |
| `Libraries` | the eight modules from `ConfigFile` to `AudioHal` and `JsonReports`, one to a behaviour | extends `ConfigFile`, instances of the others |
| `LibrariesProofs` | theorems about `Libraries` | |
| `MC*` | the same modules with small sets for TLC | |

An operator whose comment starts with *Variant* is a deliberate mistake (a dropped test, an off-by-one, a missing
release). No specification uses it; putting it in the place of the operator below it breaks a property,
which shows that the property depends on that line of the code.

### SpscPool

Two threads, each with a program counter (`ppc`, `cpc`) and the locals `w` and `r` of the C functions. Every
atomic load, exchange, add and store is a step, so all interleavings of the two are explored. The indices are
C ints: `Wrap` is two's complement at `IntMax`, and `CRem` the remainder with the sign of the dividend.
A slot outside the array (possible after the wrap) is foreign memory: the exchange may succeed or fail there. A run that gets
past the wrap would have to commit 2^31 frames or shrink the int; the theorem `StrandedForEver` covers it instead.
The variable `commits` only bounds behaviours.

### MpscPool

Producers `Producers` and one consumer. The mutex is a variable naming its holder. `pthread_cond_wait` is split
into the release (`DequeueWait`), a wakeup by a signal (`EnqueueSignal`) or by nothing (`SpuriousWakeup`), and
taking the mutex again (`DequeueLock`). `claims` only bounds behaviours.

### AudioStream

One program counter per thread and one for the caller. A pool operation is one step, which the refinements of the
two pool modules justify, with the lowest-numbered-frame rule of `mp_acquire` and `mp_dequeue` kept. A period is
its number, 0 is a frame of size 0 (the sentinel, or a failed encode). `played` and `lost` record what became of each
period. A device that stop has dropped answers every call with an error (`prepared`). Sound samples, statistics
and sleeps are left out; a read that returns fewer frames than asked is not distinguished.

### BusDaemon

The daemon is one thread: `batch` holds the events of the last `epoll_wait`, `cur` the event being handled, `todo`
the pieces its `recv` returned and `sends` the sends of the current line. The kernel's part is explicit: which peer a descriptor is
connected to, the key epoll reports for it, the bytes not yet received and the messages not yet read. A
descriptor number is reused (the lowest free one) as the kernel does. A send blocks while the receiver's
buffer is full, `recv` blocks on a connection without data: a blocked daemon is a disabled step.

`recv` takes any number of pieces, and a line is one piece or two: its beginning, which stays in the slot's `slotBuf`
(`KeepPart`), and its end with the newline (`HandleLine`); `rest` is the line of which only the end is still on the connection.
`LONG` is a line whose beginning fills the buffer. `RemoveClient` shifts `slotBuf` with the descriptors, and as `memmove` does leaves the last slot what it held,
so a partial line can be in two slots, or in one whose connection has gone on. Text that stands before the wrong end makes any
command or none (`Lined`). `torn` records that a partial line has been in such a place, `mixed` the clients whose lines were
run together with one: what such a client (`Garbled`) is subscribed to is anybody's guess, and the properties except it. Nothing else garbles a line. A client that dies
while it sends is one that leaves with a beginning or nothing received of its last line.
Topic matching is the constant relation `Matching`.
Once memory outside `clients[]` has been written (`wild`) the daemon takes no further step.

### BootUpdate

The boot environment is three variables; `saveenv` and each `fw_setenv` are one step (the environment is stored
redundantly), and `Reset` may come between any two. Each may fail: a tool's write then changes nothing, and the boot script goes on
with what it has in memory (`Saves`), so that it boots a slot the environment does not name. The installer and the factory reset are a step counter `job`, as
only one of them runs at a time; the confirmation service runs next to them. A file is reduced to what booting it does.
A slot has boot files of its own (`BootFiles`) and the root partition `rootfs_part` names, which is one for both slots and never
set by anything in the repository (`rootPart`, external; it is a partition that exists, as a device without the variable does not boot at all).
What is mounted on `/boot` is not in the repository, so every possibility is tried. `tries`, `inherited`,
`switched`, `unsaved`, `saveFails` and `harms` are history: boots of the selected slot, a slot written without its counter, a slot written since
the boot, a choice of the boot script that was not saved, the number of those, and interrupted writes or bad packages. Creating a package, the erasure of the persist and
log partitions and `recovery_mode` (which nothing reads) are left out.

### BusClient and LedBlock

`wire` holds the units of the lines still on their way; `recv` takes any number that fits. The main thread handles
the complete lines of its buffer one after the other, each access to the flag, the parameters and the LED being a
step, and the blink threads interleave with it. Sleeps are modelled by what they are for: while the main thread sleeps
50 or 100 ms, a thread that has tested the flag gets to its write (`Committed`), while one in a sleep of its own may or
may not wake. There is one signal: a second one could cut `usleep` short.

### WebDaemon

A request is a number of units up to the end of its headers and a number of body units; its connection delivers them
in any pieces, so the daemon sees every partial request. `Cap` and `HeadMax` are the buffer and the headers it tolerates.
`Received` is the whole of what follows a successful recv: waiting for the body, handling, giving up, and the second
removal after a hangup. Descriptors are the connections themselves: a closed number is never used again before the daemon
has forgotten it. `handled` records each call of `handle_request` with the body it was given, `moved` whether a removal has
ever shifted another connection. Browsers are assumed to read their answers. `report` stands
for any of the nine JSON reports, whose text is a matter of `JsonReports`; malformed requests, files and the dashboard are `page`: they only get an answer.

### JsonReports

One report of one handler. The builder is its position, its one bit `first` and how far a reader of JSON has come with the text
(`Read`: the brackets open and what was last). A call writes its pieces one after the other (`Raw`), each of which is dropped if
it does not fit; what the reader sees of a key or string of which a piece is missing, or which should have been escaped, is `spoilt`. Keys and values have
lengths and no content. The handlers are records: how big the buffer is, whether rows stand in a table, bare (the partitions) or are lines,
and how many fields a row may have. The log handler turns the last `Window` bytes of the log into lines and stops
`Reserve` bytes before its buffer ends.

### ConfigFile and ConfigMap

The lines of a file are a function from keys to values, and a set is four steps: reading the old lines, opening the copy
(which empties one somebody else is writing), closing it (when stdio writes it out), renaming it. Who has which file open
matters, since a rename moves the file under a writer's hands: `out` says what a writer's file is called now. `durable` holds the
states a power cut may bring back (the file system writes a renamed file out before the rename, its documented default). On a full partition
lines arrive in part or not at all, as nobody looks at the results. `harmed` records that two sets overlapped or one met a full partition.
`ConfigMap` is the abstract map; `SetsAreAtomic` says that each step of the file is one of its steps, with the key and
value of the call that ends there.

### LogFile and CrashReport

A process of `LogFile` is one actor, since the mutex of `g_log` lets its threads take turns; the file is everybody's.
`LogWrite` appends and counts, with any part of the line on a full partition; `LogCut` is the `ftruncate`. A line is its length. In
`CrashReport` a report is open, close, unlink and symlink, all interleaved, with kills; a report is its second, which is its name.

### Snapshots

One caller; every command of the shell pipelines is a step that may fail. What is mounted where is state, because the tools
depend on it: `mkfs.ext4` with one `-F` refuses a mounted partition, `mount(2)` a mount point in use. Archives that were not
written out are gone or cut short after a power cut.

### JsonFields

A text is a sequence of tokens with their width; the search goes for the first quoted word equal to the key. A field that no longer fits ends
the model: what the writer does behind its buffer's end is undefined.

### GpioHal, DisplayHal, AudioHal

The kernel's part is external: exports that go for everybody and kill open value files; one flip pending at a time and one event
for each; parameters within the device's limits, playback that starts at a threshold, xruns. `failed` in `GpioHal`
excepts what a failed open or a kill leaves exported. `DisplayHal` reduces what open takes to descriptor, dumb buffer,
frame buffer and mapping, and waiting to the two ways it ends. In `AudioHal` a device is its limits as HW_REFINE returns them, and the
parameters are computed by the source's arithmetic.

### Libraries

The eight modules from `ConfigFile` to `AudioHal` and `JsonReports` share no state, so one run checks them, and one module proves about them: `lib` picks the
one a behaviour is about, and the variables of the others keep the value `Unused` (or one with which their action property asks for nothing). A property speaks of its own library.

## 3. Runs

| Run | Shows | Bounds |
|---|---|---|
| `spsc` | exclusive frames, no spurious refusal, refinement of `FrameFifo`; committed frames are dequeued | 3 frames, 7 commits: more than twice round the ring |
| `mpsc` | no empty dequeue, refinement of `FrameOwnership`; no lost wakeup | 2 producers, 3 frames, 5 enqueues |
| `audio` | no period vanishes, no frame leaks, stop leaves at most one period behind and returns, deaths are flagged, committed periods are taken | 2 frames a pool, 3 periods, 2 sessions, every failure |
| `bus` | subscriptions stay with those who asked, also with lines cut in two, under mistaken identity, a full table and double removal, unless a partial line is in the wrong slot | 4 clients, two of whom may leave, one line each, one topic, a table of 2 |
| `bus_stay` | pings answered, publications arrive as long as nobody leaves | 2 clients, 2 lines each |
| `boot` | a slot is tried before it is abandoned, one harm leaves whole boot files, the environment names the running slot, the device comes up | limit 3, 3 resets besides those of hung systems, 1 failed save of the boot script, 2 jobs, 2 harms |
| `led` | commands in order and none lost, the LED off at the end, one late write at most, every blink ends | 3 lines, 2 blink threads at once, a buffer of a line and a half |
| `web` | requests handled once and as sent, no descriptor leaked, nobody lost before a removal moves somebody | 4 connections, a table of 3, the listener's descriptor equal to index 2, a buffer of 2 units |
| `libraries` | sets of the configuration are steps of a map; the log stays bounded and a cut shortens it; `latest` is the latest; a restore is complete; fields read back; the pin is exported while used; a closed display holds nothing and flips keep step; playback starts; reports from which nothing was dropped are JSON, and the log drops nothing | 2 processes (3 at the pin), 2 keys, 2 values, 2 sets; a log of 5 with lines of 3; 3 seconds; 2 snapshots; 3 fields in 22 bytes; 4 flips; 4 devices; reports in 52 to 208 bytes, up to 3 rows |
| `audio_latency`, `bus_leave`, `boot_install` | disagreements with the documents, section 5 | |

Why the bounds are enough: a race in the SPSC pool involves at most one frame in each thread's hands and one
between them, so 3 frames with several laps of the ring show all relative positions; in the MPSC pool two
producers can straddle a dequeue and each other. In the stream two frames per pool give full, empty and
in-between, and a scaled xrun limit of 1 keeps "one is tolerated, two are not". In the daemon three clients suffice
for a stale index (one leaves, one is moved, one is mistaken), and four for a table below zero. Leaving twice lets one client be mistaken after the
other has gone; that all four leave would only repeat it, and the proof covers any number. In `boot` the limit is the real
one, three resets of a running system exhaust a counter (those of a hung one are not counted) and the fourth boot falls back, one failed save shows what a save missing at any
point does, one root partition stands for either (the two are used alike), and two harms are what the claim about one harm leaves room for. In `led` a second
blink command can revive the first one's thread and a third command can stop both. In `web` the four connections between them
carry a request of each kind the daemon treats differently (but none whose body is longer than it declares), fill the table, collide with the listener and leave a stale key;
the second reset or close would only repeat the first. In `libraries` two sets show every way in which two calls overlap, and a set after a harmed one
with a late writer still under way needs a third, which only the proof covers; a log of 5 with lines of up to 3 makes two lines fit and
the third cut, and half of it is rounded; 22 bytes take up to three short fields, so each of them can be the one that does not fit; a flip can only be one behind, so
four show that it never is two; the four devices are one with room for everything, one short of bytes, one with
periods below the 16 frames open asks for, and one that would take a buffer of one period;
with `BufSize` 52 and keys and values of 1 or 4 bytes a table of three rows fits or does not, pieces are dropped in the middle of a report and shorter ones still fit behind
them; the log, at its worst, takes 130 of its 208 bytes.
`CHECK_DEADLOCK FALSE` is set where the system really can stop: a stopped stream, clients that have all finished, a
blocked daemon, a process that has exited, a device left switched on, a finished JSON object.

Fairness. Threads that can run do run (weak fairness of each thread: the audio threads are pinned to cores of their
own). The boot script runs on, and a hung system is reset sooner or
later (a watchdog or a hand): without that no boot counter can help. Spurious wakeups, errors, power cuts, calls of start
and stop, connecting, sending and leaving are never forced. Bus clients are assumed to read what they are sent.

## 4. Proofs

`SpscPoolProofs` proves, for every number of frames, every contents, and as long as commits do not reach the largest
int (`NoWrap`), type correctness, `Exclusive`, `CommittedIsReferenced` (every committed frame carries its reference),
`RefusedOnlyWhenFull` and the refinement of `FrameFifo`. Beyond it they are false: `StrandedForEver` proves
that once the write index has wrapped (once at most, `OneWrap`) the consumer finds the pool empty in every later state. The invariant of the module is not inductive by itself;
`IInv` adds that the window between the consumer's oldest unreleased index and the producer's newest claimed one is no longer than the
array, that a frame carries a reference exactly when it is in that window, and what each thread's locals say about the
indices. The arithmetic is in lemmas on remainders: distinct indices of a window are distinct
frames, and a full window covers all frames. `DequeueIsNear` and `DequeueRunsDown` are the safety core of `CommittedIsDequeued`: a committed frame is at
most `6 * Count + 5` steps of the consumer from its dequeue, each of them brings it nearer (at the most one call comes back empty, the one that had
loaded `write_idx` before the commit), and the producer never puts it off.

`MpscPoolProofs` proves type correctness, `PendingMatchesFrames` (the count against the references), `Exclusive`, `DequeueNeverNull`
and the refinement of `FrameOwnership` for every number of frames and every finite set of producers. The strengthening says who may hold
the mutex at which step, that a frame's reference count is what its producer's step says, and that during a scan at least
as many ready frames lie ahead of the scan as are counted, which is why the scan cannot run off the end. `NoLostWakeup` is the safety core
of `PendingIsServed`: while the consumer sleeps without a signal nothing is counted, and each queued frame has a producer that will still signal.

`AudioStreamProofs` proves all four safety properties of the stream for every pool size, xrun limit and number of periods and
sessions. The program counters say which thread holds which frame; the caller's says which threads it has not waited for, so that
at its return all are gone. For `StopLeavesAtMostOne` the invariant counts what capture can still commit: after the codec has left its loop
`running` is false, and capture tests it after each commit. `DeathIsFlagged` needs that a frame of size 0 comes
from a failed encode, whose period is lost, while the first session runs. `EachPeriodInOnePlace` is proved in a second layer on top: every period
occurs in the queue, in the codec's hands, in a frame, among the played or among the lost, and these exclude each other. A third layer is the
bounds of `TypeOK`. `StopWakesPlayback` is the safety core of `StopReturns`: once `running` is cleared and the codec is gone, a playback
thread in its wait has a frame to take, because the sentinel is queued, or could not be since every frame was queued already. `StopIsShort` and
`StopRunsDown` say the rest that needs no fairness: from the moment `running` is cleared the steps left to all four threads together are bounded,
and each step of any of them uses one up; the read after which capture still commits a period counts for two, since it leaves the codec one more frame to drain.

`BusDaemonProofs` proves type correctness, `SubscribersAsked` and `OnlyWhatWasAskedFor` for every number of clients, topics and
descriptors and every size of the table. The invariant does not rely on the index epoll reports: it says that the lines being handled were sent by the client
behind the descriptor in the slot at hand, whichever that is, that this descriptor stays open until they are through, and that a publication on its
way goes to subscribers only. Until a partial line is in the wrong place (`torn`), a slot that names an open connection holds nothing, or just the beginning of
the line of which that connection still has the end (`BufInv`, `RestInv`), so the end of a line always finds its own beginning. `NobodyMistaken` is the safety core of `PingAnswered` and `PublicationArrives`: as long as nobody leaves and lines fit their buffer,
slots and registered connections name each other and every event is of the connection in its slot.

`LedBlockProofs` proves type correctness, `OneLateWrite` and `ExitsDark` for every number of blink threads and all commands. A thread that stands
before a write has tested the flag since its last one, so if the flag is cleared it has not written since; one that sleeps
wrote once at most and meets the flag when it wakes. Once `stop` has slept nobody is before a write.
`CommandsInOrder` is proved for every size of the buffer: what is buffered and on the wire is, one behind the other,
the lines of the commands not handled yet, the k-th of which ends at `ends[k]`; so the first newline in the buffer ends the line of the next command.
From the same framing follows `ShortLinesFit`, the safety core of `EveryCommandHandled`: a buffer without a newline has room while the
next line is one that fits. `FewStepsLeft` and `BlinkRunsDown` are that of `BlinkEnds`: a blink thread whose count is not 0 has few steps left and
uses one up with each it takes, though commands clear the flag, set it again and change the count under its hands.

`WebDaemonProofs` proves `HandledAsSent`, `Accounted` and `NoneLost` for every number of connections, all requests and all sizes of the table
and the buffers. Whatever slot an event leads to, the table stays a table (`Dense`): its live slots belong to different open connections.
A slot's buffer holds exactly what was received from its connection, and that is not a whole request yet; so what is handled is the request as sent, once.
`Accounted` counts descriptors and adds that without resets none is removed twice. `NoneLost` needs that until a removal
moves somebody a connection is in the slot its key names, and that events are not older than the last one.

`BootUpdateProofs` proves the safety properties of `boot` for every boot limit and every number of resets, jobs and harms.
`TriedBeforeAbandoned` follows from a budget: unless a slot inherited its counter, the boots it has had and those it has
left make at least the limit (and at most one more than the limit and the saves that failed). `OneHarmLeavesASlot` needs the slots whose boot files *would* be whole
once the write in progress is through: without a harm both are, with one at least one is. `WithinReach` and `ComesNearer` are the safety core of
`ComesUp`: while some slot works the device is at most `3 * BootLimit + 7` steps from being up, every step but a reset before the kernel is loaded and a boot whose save failed brings it
nearer, and none takes that slot away: a failed boot uses up an attempt of the slot, until the fallback selects the other.

`LibrariesProofs` proves the properties of `libraries`, each for the behaviours that use its library; `LibStep` turns a step of the composition into
one of that library.

* Configuration: `SetsAreAtomic` for every set of processes, keys and values and any number of sets. The inductive invariant says what holds until two
  sets overlap or one meets a full partition: at most one call is under way, its text is the file with its own line changed, and once closed the
  copy is that; to show this for the close itself, it carries that the writer's file is still called `tmp` and empty.
* Log: `CutShortens` and `LogBounded` for any number of processes, any `max_size` and any longest line. A process may believe
  far more than the file holds; but if no write came back short, the file holds at least half of `max_size` or what the process believes,
  whichever is less, and only a process that believes more than `max_size` cuts. For the bound, the bytes of the file are divided among the
  processes (a cut leaves all to one): each one's share is no more than it counts, which is no more than `max_size` between lines and a line
  more before its cut; a killed process leaves its share behind.
* Crash reports: `LatestIsLast` for any number of processes and reports. While nobody was killed, a report of the last group that overlapped is
  closed or being written by somebody, and from its unlink on the link is free or names one of them.
* Snapshots: `RestoredIsSnapshot` for any number of snapshots, whatever failed or was cut before: from the end of a
  successful tar to the umount the archive is whole and the partition holds it.
* JSON: `FieldsReadBack` for any number of fields and any buffer. The text of an object has its i-th key at token 4i - 2, and nothing else in it
  looks like a quoted word, so the search ends at the first field with the key. It uses no induction over the text.
* Reports: `ReportsParse` for every buffer size and all numbers and lengths of fields, rows and lines. As long as nothing was dropped or spoilt, the reader is
  inside the brackets the handler has opened, behind a value exactly when `first` is not set (`TextInv`). The log drops nothing because each byte of
  it still to come costs at most three of text (`RoomInv`), and its buffer is four times what it reads.
* GPIO, display, sound: `ExportedWhileUsed` for any number of processes, `ClosedHoldsNothing` and `FlipsInStep` for any number of flips,
  `PlaybackStarts` for all limits and requests.

`TypeOK` is proved wherever a module with theorems states it, so no run repeats it; neither does one repeat `CommittedIsReferenced`, or
`PendingMatchesFrames` and `Exclusive` of `MpscPool`. The safety cores (`DequeueIsNear`, `DequeueRunsDown`, `NoLostWakeup`,
`StopWakesPlayback`, `StopIsShort`, `StopRunsDown`, `NobodyMistaken`, `ShortLinesFit`, `FewStepsLeft`, `BlinkRunsDown`, `WithinReach`, `ComesNearer`) are
stated in the modules of the proofs.

Assumptions on the constants are the named `ASSUME`s of the modules; those of `Libraries` on sound devices say what the kernel's ranges look like.
Only model-checked: what is stated under fairness (liveness and ENABLED are out of the prover's reach): `CommittedIsDequeued`,
`PendingIsServed`, `StopReturns`, `CommittedIsTaken`, `PingAnswered`, `PublicationArrives`, `ComesUp`, `BlinkEnds` and `EveryCommandHandled`.
What their safety cores leave to TLC is that a thread that can take its next step does.

## 5. Where code and documents disagree

Shown by a run:

* `audio_latency`: a queued period can be overtaken without bound (`docs/system-architecture.md:124`).
* `bus_leave`: after a client has left, another one's PING is never answered (`docs/system-architecture.md:114`).
* `boot_install`: the kernel of an update is copied to a name that is never loaded, so the selected slot boots its old one
  (`tools/bb-update/bb_update.h:24`).

Read in the code while modelling it, without a run of their own:

* The boot script mounts `${rootfs_part}` whichever slot it has chosen (`boot.cmd:40`); what `uboot-env.txt:16-17` sets is
  `rootfs_a_part` and `rootfs_b_part`, which nothing reads. The model has this one root, and so a factory reset cut short in it leaves
  no slot that works (`Works`), against `docs/system-architecture.md:66` and line 79: `OneHarmLeavesASlot` is about boot files only.
* A frame that capture commits after the codec's drain stays in the pool and opens the next session; the comment at
  `bb_audio_stream.c:149` says the drain takes what remains. `StopLeavesAtMostOne` says how much it can miss.
* The error comes on the eleventh xrun, and never while periods are discarded (`docs/system-architecture.md:126`).
* `pthread_create`'s error is positive and `start` tests for negative: a missing thread goes unnoticed
  (`bb_audio_stream.c:298`), and without a codec thread stop never returns.
* The fourth bus client's index equals the listener's descriptor (`bb-busd.c:170`).
* A bus client that has sent part of a line when another one leaves can be subscribed to what it never asked for: `remove_client` leaves a copy of the partial line
  in the slot it vacates, an event that still names a slot by its old index puts the client's next data behind the copy, and the two texts are read as one
  command (`bb-busd.c:136`, `bb-busd.c:186-207`). The properties of `bus` hold for everybody else (`Garbled`).
* A line that the bus client's buffer cannot hold makes the block deaf for good, and its main loop spins.
* A `blink` command during another one leaves two threads driving the LED (`bb-led/main.c:58`).
* The web daemon loses connections once a removal moves one (`NoneLost` says up to when it does not), with the fourth
  connection open at once, and after a reset; the same table as the bus daemon's, with a bound check.
* `GET /api/partitions` is not JSON when anything is mounted (`bb-webd.c:302`).
* A report that outgrows its buffer is not JSON either: pieces are dropped without notice (`bb-webd.c:121`), as with some thirty LEDs in 2048 bytes. Values
  are not escaped (`bb-webd.c:128-131`), so a quote or a control character in a name spoils a report. The dashboard takes a text it cannot parse for no data (`bb-webd.c:744`).
* `saveenv` can fail (`boot.cmd:20`, `boot.cmd:31`). After a fallback that was not saved the other slot runs, its confirmation gives the slot that
  failed a full counter, and an installation takes the running slot for its target. A device whose environment can never be saved stays with a slot that hangs:
  `ComesUp` holds if saves do not fail for ever. `rootfs_part` is set by nothing (`boot.cmd:40`).
* `bb_persist_update_log_add` writes `"ok":1` and `bb_persist_update_log_read` looks for `t`
  (`bb_persist.c:185`, `bb_persist.c:228`): every update reads back as failed.
* `bb_snapshot_create` fails when `/recovery` is mounted already, as after any other snapshot call (`bb_recovery.c:219`); a restore
  looks for the directory before it mounts `/recovery`, so it works only when it is mounted.
* A restore is refused while p9 is mounted (`mkfs.ext4 -F`), and recovery-init mounts it; a `tar` that fails leaves
  `/tmp/reimage` mounted, so that the next attempt is refused until a reboot. A manifest that a power cut emptied restores nothing and returns 0.
* `config_set` ignores the results of `fprintf` and `fclose`: on a full partition the rename replaces the file by one that has
  lost lines. Overlapping sets write into one copy. A copy that cannot be opened leaves the old file open (`bb_persist.c:102`).
* The cut of the log keeps the oldest half, and may split a line (`bb_log.c:104`).
* The kernel refuses the mode setting without connectors in `bb_display_close`, so the saved mode is not restored.
* The second attempt of `bb_gpio_open` unexports a pin another process uses, and an open that fails leaves it exported (`bb_hal_gpio.c:64`).
* `bb_audio_stream_init` compares the periods of its devices, not their rates or channels; a playback buffer of a single period never
  starts (`bb_hal_audio.c:168`).
* The boot log is read from its oldest entry; `bb_mfg_serial` returns data whose checksum failed (`bb_persist.c`).
* A factory reset does not mount `/recovery` and ignores the results of both `dd`; `bb_recovery_request` sets a
  variable that nothing reads; `boot_ok` is written and never read.

## 6. Not modelled, and the plan

In this order:

1. Encoded frame sizes in `AudioStream` (the capacity of a frame shrinks with every encode,
   `bb_audio_stream.c:130`), the unwinding of `bb_audio_stream_init`, a lost connection in the bus client.
2. The logs of boots and updates, doubles and escapes in the JSON helpers, log files opened twice, `bb_gpio_poll` and edges,
   the erasure of the persist and log partitions by a factory reset.
3. Proofs: a safety core for `CommittedIsTaken` and, where clients leave, for the bus properties.

The wrappers of LED, watchdog, PWM, RTC, UART, I2C and SPI keep a descriptor and no state, and the command-line tools are sequential
programs for manual tests: they stay outside.
