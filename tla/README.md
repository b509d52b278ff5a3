# A formal model of picam-orchestrator

TLA+ specifications, TLC configurations and TLAPS proofs for picam-orchestrator,
the Go program that stands between the camera daemon (picam-raw), the object
detector (picam-hailo), the recorder (picam-recorder), a relay for an infrared
lamp (pi-relay-control) and the web frontend. Source paths below are relative to
the repository.

## 1. Inventory

Goroutines started by `cmd/picam-orchestrator/main.go` share a few guarded
structures and talk to other processes over TCP and UDP. Almost everything that
can go wrong goes wrong *between* critical sections: no lock is ever held across
a remote call, and no remote call is idempotent by construction.

| Component | State | Operations | Interacts with | Hard behaviour | Correct means |
|---|---|---|---|---|---|
| Event recorder (`internal/recorder/eventrecorder.go`, `control.go`) | flags, accumulated events, current file, one-slot wake channel | Notify, StartManual, StopManual, Run: tick, flush | detection receiver and HTTP handlers call it; `start`/`stop` over TCP; event log and snapshot files | callers run during the remote calls; lost replies; shutdown in any state | each event logged once, in order, with its recording; recordings end; a stop stops what it was meant for |
| Lamp control (`internal/irlight`, `internal/relayrpc`) | settings; last commanded state, its time stamps, cutoff flag | tick every 5 s, Trigger from HTTP, Set, SetSunrise | telemetry snapshot; relay command over TCP | ticks and handlers race without a lock; time is the only protection; lost answers; restart | one command at a time, none on a stale state, cooldowns and the on-time cap kept |
| Camera control (`internal/luxswitch`, `internal/camrpc`, `internal/telemetry`, `internal/uistate` reconcile, `GET /camera`) | telemetry snapshot, cooldown, saved preference | lux tick, manual switch, one-shot restore, connect/apply/disconnect | switch command over TCP to picam-raw, which reports back through telemetry | snapshot empty or stale when used; three writers of one camera; lost answers | no switch on a value that was never reported; a restart restores the preference |
| Settings persistence (`luxswitch`, `irlight`, `uistate`) | memory copy, JSON file | Set*, save, load | HTTP handlers, start-up | unlock before save, concurrent truncating writes, crash in between | the file ends up with the latest settings, or at least with some settings |
| Frame reassembly (`internal/rawframe`) | partial frames by sequence number | datagram received, eviction, frame completed | UDP from picam-raw; frame callback | loss, duplication, reordering; wrap-around; sender restart | a delivered frame is one capture; memory bounded; new frames get through |
| Stream clients (`internal/streamsrv` server, client, stream) | copy-on-write client list, bounded queue per client | register, Broadcast, handler loop, markDead, Stop | main loop, HTTP connections | check-then-act on the limit, full queues, shutdown | no client blocks another; every handler returns |
| Delay buffer, detection buffer (`internal/delaybuffer`, `internal/detect`) | queues of frames and events | Push, Pop, FindNearest | receivers, main loop | falling behind, time stamps that step back | bounded; newest due frame; nearest event |
| Main loop (`main.go`, `jpegmailbox.go`, `internal/recorderstream`) | latest-wins mailboxes | tick, broadcast, encode | all of the above | stale mailbox, source switching, shutdown order | what is broadcast is current and of the right source |
| Status, statistics, discovery, drawing, encoding, configuration | counters, buffers | formatting, pixel arithmetic | | none of a protocol's kind | not modelled, see section 8 |

## 2. Plan

Built so far, in the order of importance they were planned in:

1. **EventRecorder**, with **RecordingSession** as its abstract specification.
2. **IRLight**.
3. **CameraControl**: telemetry, lux loop, `/camera` and the restore against one
   picam-raw.
4. **Reassembly**: datagrams lost, reordered, duplicated; restarts of picam-raw.
5. **StreamServer**: viewers, queues, cap and shutdown.
6. **SettingsStore**: three settings files, saved outside their locks; kills.
7. **FrameAlign**: delay buffer, event buffer, mailboxes and the main loop (the
   "Pipeline" of the first plan).

**DataPaths** puts 4, 6, 7 and **Service** puts 3, 5 side by side for TLC. The safety
properties of all of them are proved (section 7). Left:

8. An abstract specification for a second component, as RecordingSession is for the
   recorder: a settings file that changes atomically, for requests that run alone as
   QuietAgrees has them.

## 3. Modules

| Module | Role |
|---|---|
| `RecordingNames` | constants and definitions shared by the recording modules |
| `RecordingSession` | abstract: a session opens, logs events, hands its log over in one step, archives or loses it |
| `EventRecorder` | `internal/recorder`, refines `RecordingSession` |
| `RecordingSessionProofs`, `EventRecorderProofs` | theorems about the two |
| `IRLight` | `internal/irlight` and `internal/relayrpc` |
| `IRLightProofs` | theorems about it |
| `Reassembly` | `internal/rawframe` |
| `FrameAlign` | `internal/delaybuffer`, `internal/detect`, `internal/recorderstream`, receiver callbacks and `runMainLoop` of `main.go`, for one resolution |
| `SettingsStore` | Set, save and load of `internal/uistate`, `internal/luxswitch`, `internal/irlight`, and the live flags of the server |
| `DataPaths` | the three above side by side |
| `StreamServer` | the `GET /stream` part of `internal/streamsrv`, and the shutdown in `main.go` |
| `CameraControl` | `internal/luxswitch`, `internal/telemetry`, `internal/camrpc`, the reconcile of `internal/uistate`, `GET /camera` |
| `Service` | the two above side by side |
| `ReassemblyProofs`, `FrameAlignProofs`, `SettingsStoreProofs` | theorems about the three data paths |
| `DataPathsProofs` | that those theorems hold of `DataPaths` |
| `ServiceProofs` | theorems about `StreamServer` and `CameraControl`, and that they hold of `Service` |
| `MCEventRecorder`, `MCIRLight` | instances for TLC with their symmetry sets |

Operators named `Bad...` are deliberately wrong variants of the definition that
follows each of them. Nothing refers to them; put in that definition's place they
break the property they name, which shows that the property depends on the code.

### EventRecorder

Variables `haveEvents ... currentFile` are the struct's fields under the code's
names; `lastDetectionAt` appears as `idle`, its age. Each critical section is one
action, and each remote call or file write one action per outcome, with the worker's place in `pc`
(`select`, `decide`, `start`, `started`, `check`, `flush`, `stop`, `save`,
`exited`) and its locals in `trigger`, `reply`, `flushing`, `returning`:

| Code | Actions |
|---|---|
| `Notify` | `NotifyDetections`, `NotifyEmpty` |
| `StartManual`, `StopManual` | the same names |
| `Run`'s select | `RunWake`, `RunTimer`, `RunDone` |
| `tick`, before the call | `DecideStart`, `DecideNoStart` |
| `Start` and the snapshot | `StartAnswered`, `StartReplyLost`, `StartUnreached` |
| `tick`, after the call | `BeginRecording`, `StartFailed` |
| `tick`, stop decision | `CheckStop`, `CheckContinue` |
| `flush` | `Flush`, `StopReached`, `StopUnreached`, `SaveEvents`, `SaveFails` |

`device`, `disk` and `jpg` are what picam-recorder does and what the files hold;
picam-recorder may also restart (`DeviceRestarts`) and may be recording already
when the program starts. `reported`, `dropped`, `joined`, `certain`, `asked`,
`stopBy` and `stopFor` are history, read by properties only. A detection event is
its number, since no property looks into it. `idle` grows up to `IdleLimit`, where the
code's comparison ends; that bound is the model's. TypeOK says beside the types that
the event chosen for the snapshot is one of those accumulated, and that a start that
was answered has its file. `RecordingSession` sees `currentFile`
as its open session, `accumulated` as the log, `flushing` as the log on its way and
`disk` as the archive.

### IRLight

Time is modelled as ages that grow together (`onFor`, `sinceToggle`,
`sinceManual`, `rpcAge`, `sincePoll`) and saturate where the code stops comparing
them. Each handler of `GET /ir-light/trigger` and the goroutine of `Run` is an
actor with a place in `pc`; `CheckCooldown` is `coolingDown`, the test and the stamp in
one critical section; the relay command has four outcomes (`CommandDone`,
`CommandRefused`, `CommandUnanswered`, `CommandUnreached`); `undoLastToggle`,
`commitToggle` and `markManualToggle` have the code's names. The lux reading is one
of its three bands, or telemetry is down; the sunrise window is open or not.
`lamp` is what the relay really does.

Assumptions about time, all made visible in `TimePasses`: a goroutine's steps other
than its remote call take no time, so a handler is not suspended for a whole
cooldown between reading the state and `coolingDown`; a relay command ends within
`MaxRpc` (the 3 s and 2 s deadlines of `SetRelay`), and takes effect within
it or never; a tick is due every `Poll`. A handler serves one request per unit of
time (a bound that keeps requests from stopping the clock). The cap is at least one
cooldown long, as minutes against 30 s are.

### Reassembly

`partial` is recvLoop's table, from a frame's number to the chunks that have come,
each with the session of picam-raw that sent it; `net` holds datagrams on their way.
`Receive` is a whole turn of `recvLoop`: making room (`MakeRoom`), entering the
chunk (`Stored`), and, if the frame is complete, taking it out (`Removed`) and
handing it on (`mailbox`, which is `rawframe.Mailbox`). `Ping` is pingLoop, `Close`
the shutdown. `received`, `used` and `duplicated` are history. Two things the model
makes visible: room is made before the insertion and tested with `>`, so 33 frames
are kept where the comment at `receiver.go:14` speaks of a cap of 32; and a
frame that has lost a chunk leaves the table only by eviction, lowest number first,
so that after a restart of picam-raw 32 such frames with higher numbers keep every
new frame from completing (StallLasts) until picam-raw's numbers pass theirs.

### FrameAlign

The unit of time is a frame interval; frames, and the detector's events about them,
are known by their age, so a buffer is a set of ages and `Advance` adds one to all.
`Advance` with a frame is the receiver callback: mailbox and delay buffer. `Push`
and `LoseDetections` are `detect.Run`, `RecorderSends` is `recorderstream`, `SetFlags`
the handlers, `StartLoop` the end of WaitForStream, `Tick` a turn of `runMainLoop`:
`Popped` is what `Pop` removes (the youngest is what it returns), `Nearest` is
`FindNearest`, `NextPicture` what is broadcast if the interval is over and somebody
watches. `proxied` tells main from lores, which is never proxied.

### SettingsStore

`kind` chooses one of the three files; `Apart` are the settings that a setter of their
own changes (the sunrise settings of irlight, the camera of uistate). `HandleUI`,
`HandleCamera`, `HandleLux` and `HandleIR` are the handlers, with whichever parameters
are there; `HandleIR` calls two setters, each of which saves. `StoreFlag` stores one live
flag, `Set` is the locked part of any setter. The rest is save, with no lock:
`ReadField` reads one field of the record, which other requests may be changing (a data
race: each field is read before or after such a change, and words are not torn), then
`Truncate`, and `Write` or `WriteFails`. A setting is true or false, and "false" is
longer, so overlapped writes can leave a torn file, which `Loaded` rejects as
`json.Unmarshal` does. `Restart` may come at any step and is `New`, `load` and the seeds
of the live flags. `alone`, `own`, `settled` and `failed` are history: whether the last
request to begin has run alone, which settings it makes, which settings were last made by
such a request (all of them at the start), and whether a write has failed.

What comments promise of these settings is not so, and a run shows it (section 4).
QuietAgrees and SettledSurvives say what is: a request that runs alone puts file, record
and flags right, whatever was wrong before, and what it has set survives every kill that
does not find the file in the middle of being rewritten, or damaged.

### StreamServer

`hpc` is where each viewer's handler goroutine is: the check of the cap (`Request`),
registration in two steps, building the new list and publishing it, both under
`registerMu` (`Build`, `Publish`), then the select loop (`Take`, `Written`, `Leave`).
`clients` is the published list; `Broadcast`, the cap and `Stop` read it without a
lock. The main goroutine goes through `phase`: `Cancel`, `LoopEnds`, then Stop
(`StopLoads` once Shutdown returns, `Mark`, `StopReturns`) and `Exit`. `MarkedDead` is
`markDead`, which every return of the handler and Stop call. A viewer in
`Stuck` never reads, so its write never ends. Shutdown waits for the handlers before
Stop marks their clients dead, so with a viewer connected it always waits out its
5 s, although the comment at `server.go:170` has the marking unblock the handlers so
that the server can finish shutting down. A request that arrives during Shutdown
stands for a connection accepted before it.

### CameraControl

`tel` is `telemetry.State`; `TelConnect`, `Report`, `TelBreak` are telemetry.Run.
`Command` is `camrpc.SwitchCamera`: done, refused or lost, and its answer may be lost,
but a refusal counts as reached. `LuxDecides` and `LuxCommand` are the two halves of
luxswitch's tick, with `cooling` for `lastSwitchAt`; `Ask`, `HandlerCommand`,
`SetActiveCamera` are `handleCamera`; `RecStart`, `RecTimeout`, `RecConnected`,
`RecRead`, `RecCommand` are ReconcileActiveCamera. Light is one of three bands around
the threshold. The module begins where the process starts: any camera may be live
and any preference saved, a refused index included, since `handlers.go:193` saves it.
`story` is history: it becomes "disturbed" when something switched the camera, or
may have, that is not a request of its own, so that ChoiceInForce can say exactly
what it is about; "blind" marks a restore that read telemetry before its first line.
The same zero reading can make the lux loop switch to camera 1 without any
darkness; LightDecides holds nevertheless, since the next lines correct it.

## 4. What is checked

| Run | Kind | Shows |
|---|---|---|
| `recorder_safety` | pass | events conserved, ordered, filed under their recording, snapshot and log agree, fields agree, the recorder does what EventRecorder believes whenever no call is in doubt; refinement of RecordingSession |
| `recorder_liveness` | pass | recordings end, stop requests are served, failed manual starts are retried, shutdown flushes |
| `recorder_ends_as_asked` | violation | an empty event that came before it can end a manual recording |
| `recorder_cancelled_start` | violation | a manual stop during the start command is forgotten |
| `ir_safety` | pass | two handlers and Run: one command at a time, none stale, manual toggles spaced, relay protected from chatter, cap honoured within one poll and one command |
| `ir_liveness` | pass | under a cap, and in bright light, the relay is off again and again |
| `ir_sunrise_ends` | violation | the sunrise trigger alone never turns the relay off |
| `ir_cap_lamp` | violation | after a restart or a lost answer the cap does not apply to the lamp |
| `data_paths` | pass | whole frames delivered unless enough newer ones came, no chunk shown twice, a stall after a restart lasts; delay buffer bounded; a frame the detector analysed is shown with its own boxes; a request that runs alone leaves file, record and live flags in agreement, and what it set survives a kill that finds the file whole |
| `settings_survive` | violation | a kill while one setting is saved loses those saved before |
| `service` | pass | no served viewer unlisted; no place held by one who has gone; the cap exceeded by races only; a slow viewer starves nobody; shutdown ends; the user's camera choice in force; automatic switches spaced; the light decides in the end |
| `camera_restore` | violation | a restore that reads telemetry before its first line restores nothing |

DataPaths and Service compose components that share no variable. A property of one
component's variables holds of all their interleavings exactly if it holds when only
that component moves, so each behaviour has a `focus` and the rest stands still; this
is a composition for the checker's sake, and no coupling is claimed by it. Where
components do interact, the interaction is inside a module: the handlers with the lux
loop and the restore (CameraControl), the main loop with buffers and detector
(FrameAlign), the handlers' flags with the records (SettingsStore), the broadcasts
with the viewers and shutdown (StreamServer).

The six violations are disagreements between the code and its own comments or
README, quoted under "findings" in `PROJECT.json`:

- `eventrecorder.go:92` says that in manual mode only StopManual ends a recording, and
  106 that StopManual ends only the recording just watched. `tick` does not look at
  `manualActive` when a stop is already pending, and `flush` clears it: this is what TLC
  shows. The second half of RecordingsEndAsAsked fails on its own too: `flush` leaves
  `stopRequested` as it is, so a request made between tick's last unlock and flush's
  lock hits the next recording.
- `README.md:168` says that `/record?on=false` always stops at once; during the
  start command it leaves no trace, and with the watchdog disabled the recording
  that follows goes on.
- `README.md:162` describes a window; with the dark trigger disabled and no cap
  nothing ends it.
- `README.md:154` calls the cap a hardware limit; it is measured from `relayOn`,
  which is false after a restart or a lost answer whatever the relay does.
- `README.md:187` says that a saved camera is restored if picam-raw reports something
  different once telemetry connects; the restore reads the zero snapshot if it comes
  between `setConnected(true)` and the first line, and a saved camera 0 then passes
  for the live one.
- `uistate.go:1` and `handlers.go:126`, `155`, `208` and `241` say that settings are
  persisted, so that they survive a restart. `os.WriteFile` truncates first, and a kill
  before it writes loses all of them, those of earlier requests too: this is what TLC
  shows. Asked only while no request is under way, SettingsSurvive fails as well: two
  requests that overlap save outside the lock and in any order, so that the file may
  hold older values, a mixture or a torn text, and the live flags may differ from the
  record.

Other differences that no run is about: `luxswitch.go:5` says that OSD and annotate are
deliberately in memory only, but `uistate` saves them and main seeds the flags from its
file, so the comment is out of date; `luxswitch.go:25` calls the cooldown the minimum
time between two automatic switches, but after a lost answer `tick` takes the stamp back
and the next one may switch back, which AutoSwitchesSpaced leaves out; the switch that
picam-raw refuses is saved, though `handlers.go:181` speaks of a successful switch (it
is the meaning of "reached" at `camrpc.go:17`); while picam-recorder is away its last picture is proxied on and on
(`jpegmailbox.go`).

## 5. Bounds

- EventRecorder, safety: four recordings (interchangeable), two events, a watchdog
  of one unit. Two events are needed for order, for an event before and one during
  a start, and for one before and one during a flush; four recordings allow a
  recording left by an earlier process, one whose start reply was lost, and two
  sessions in a row. With no fresh name left a start can only fail, which the code
  must stand as well. Liveness: three recordings, one event, no symmetry.
  `recorder_cancelled_start` disables the watchdog (`IdleLimit = 0`), because with
  it the forgotten stop is repaired in the end.
- IRLight, safety: two handlers besides `Run`, cooldown 2, manual cooldown 3, cap 3, poll
  and command 1. These keep the order that matters, command < cooldown < manual
  cooldown and cooldown <= cap, at the smallest sizes at which each comparison can
  go either way. Liveness: one handler, all durations at most 2.
- `data_paths`: two chunks a frame, three frame numbers a session, at most three
  datagrams on their way and a table of one plus one frame, one restart of picam-raw
  and one duplicate: enough for a frame complete before an older one, an eviction of
  the frame whose chunk has just come, mixed numbers after a restart. Delay 2,
  tolerance 1, slack 2, detector latency 1, a loop up to 2 units late, a startup wait
  of 3: each is as small as the order of the code's defaults allows, with the delay
  longer than the detector needs and the slack at least as long as an encode (both
  assumptions of the module). Two requests, two settings, one of which is true by
  default and the other set apart: requests that set one, both in two steps, or none, a
  race for the same setting and for different ones, and texts of three lengths. A third
  setting takes TLC beyond twenty million states; the theorems cover any number.
  `settings_survive` sets none apart, so that one request can store two flags.
- `service`: three viewers, one of which never reads, a cap of one and queues of one:
  two viewers can race past the check, one more be turned away, and a queue be full.
  One handler of `GET /camera`: overlapping requests are excluded by ChoiceInForce,
  and the theorem covers any number of them.
- The theorems have no such bounds.

## 6. Fairness

- EventRecorder: weak fairness of the worker as a whole (a goroutine that can run does; every remote
  call has a deadline), of the clock, and strong fairness of `RunDone`: Go's select
  picks at random among ready cases, so a cancelled context is not passed over for
  ever. Nothing is assumed of callers, and nothing of the outcome of calls.
- IRLight: strong fairness of time; weak fairness of each goroutine's next step; strong fairness of
  "some command is carried out and answered", assumed by the liveness runs alone: a
  lamp whose pi-relay-control never answers cannot be turned off. Nothing is assumed of
  requests, settings or light.
- StreamServer: weak fairness of every handler, of the steps of shutdown and of
  broadcasts (picam-raw's frames keep coming while the loop runs). A handler whose
  viewer never reads is in a write that is not enabled. Nobody owes a request, a
  hang-up or a cancellation.
- CameraControl: weak fairness of the telemetry connection and of time; strong
  fairness of telemetry lines, of the lux loop's decisions and of a switch that
  succeeds: reconnecting and retrying for ever, as both loops do, gets through in the
  end. LightDecides is the only property that uses it, and is about a light that
  stays as it is.
- The other modules have no liveness property: nothing is owed for a lost datagram, a
  kill or a viewer that is away.

## 7. What is proved

All with TLAPS, for every value of the constants that the named assumptions allow.
Every invariant and every safety action property of the passing runs is the
statement of a theorem. Each strengthened invariant below was first checked with TLC
on the instance of its run.

**EventRecorder** (assumes that `None` is no file and that the bounds are naturals)

- `RecordingSessionProofs!SessionSafe`: type correctness, conservation and order of
  events in the abstract session. Conservation and order are not inductive: one must
  add that the file that is open or closing has an empty archive.
- `EventRecorderProofs!TypeCorrect`, `FieldsAlwaysAgree`: the latter by an invariant
  that ties `currentFile`, `recording` and the worker's place, because flush's
  guarantee comes from the check two steps before.
- `Implements`: EventRecorder refines RecordingSession; each action maps to one
  abstract action or a stutter. `EventsAlwaysConserved` and `EventsAlwaysInOrder` are
  inherited through the refinement.
- `LogsAlwaysBelong`: needs conservation, which says that the next event is in no log
  yet, so that what it joins can be set freely.
- `SnapshotAlwaysFirst`: the first event of a log is followed through the worker's
  locals, from `trigger` over the file in `reply` and the current file to the one
  that is flushed.
- `DeviceAlwaysAgrees`: inductive with the invariant of FieldsAlwaysAgree.

**IRLight** (assumes that a command is shorter than the cooldown, `MaxRpc < Cooldown`,
and for the cap that the cooldown is no longer than it)

- `TypeCorrect`, `CommandsNeverOverlap`, `CommandsAreCurrent`: mutual exclusion
  without a lock. The inductive invariant says that the age of a command equals the
  age of the last stamp, hence stays below the cooldown, and that a caller whose
  decision has become stale meets a stamp that is still fresh. Any number of handlers.
- `ManualChangesSpaced`: `manualCoolingDown` and `markManualToggle` are two critical
  sections with a whole command between them. Whoever is between them has a command
  of his own under way or a stamp that turns all others away.
- `LampAlwaysFollows`: by what is known of the lamp while a command is being committed.
- `NoChatter`: a relay that the next command would move has rested since the last
  stamp, less one command. A command without an answer takes its stamp back although
  the relay may have moved; but then the next command moves nothing.
- `CapAlwaysHonoured`: once the cap is passed, an off command is on its way, or `Run`
  is about to send one and finds the cooldown over; in each place of the code the part
  of the grace that is used up is bounded. That the cooldown is over is itself part
  of the invariant: it began no later than the relay was switched on, and the cap is
  longer. The proof showed that no answer lost *earlier* matters, so the property has
  no such proviso; what it takes for granted is `relayOn`, which is what
  `ir_cap_lamp` is about.

**StreamServer** (assumes a cap and queues of at least one), in `ServiceProofs`

- `StreamTypeCorrect`, `NobodyUnlisted`: for any number of viewers.
  NoViewerUnlisted is not inductive: one adds that one registration runs at a time and
  that the list it built still holds every living client and the new one, which is so
  because the published list does not change under the lock and the dead do not come
  back.
- `NoGhosts`: NoGhostViewer is not inductive either: a list being built names clients
  whose handlers may leave before it is published. One adds that the lists, published or
  not, name only handlers that have entered their loop, or are about to, and that nobody
  is alive after it has left. It needs no lock.
- `CapBrokenOnlyByRace`: CapOnlyByRace counts the living in the list; the invariant
  counts them together with those on their way into it, the raced ones left out. Who
  passes the check without having raced found nobody on the way.

**CameraControl** (assumes that the index picam-raw refuses is no camera), in
`ServiceProofs`

- `CameraTypeCorrect`, `ChoiceStaysInForce`: for any number of handlers.
  The invariant follows a choice from command to save (the live camera is what is about
  to be saved, and before that it is what was), and the restore from its snapshot of
  the preference to its command. `SwitchesSpaced`: the cooldown runs as long as the
  last switch is fresh, and no command is under way then.

**Reassembly** (assumes two chunks a frame at least, and room for one frame)

- `ReassemblyTypeCorrect`: the table never holds more than `MaxInFlight + 1` frames,
  the network never more datagrams than its bound; both by cardinalities.
- `PiecesAlwaysShownOnce`: the network, the table and what has been shown are disjoint
  unless a datagram was duplicated, and all three hold only what picam-raw has sent,
  so that a new frame's chunks are new.
- `WholeFramesAlwaysDelivered`: before a restart, every chunk that came is in the
  table, was shown, or belongs to a frame with at least `MaxInFlight` newer ones begun.
  Eviction keeps it so because it takes the lowest number out of more than that many.
- `StallAlwaysLasts`: a chunk whose frame lies below `MaxInFlight` frames of the table
  stands alone in it: if its frame was there, the table was overfull and that frame,
  the lowest, has just been evicted. A frame has two chunks at least.

**FrameAlign** (assumes `MaxLatency < Delay` and `MaxLag <= Slack`)

- `DelayBufferAlwaysBounded`: each queued frame is younger than the last pop, or was
  too young for it; so the ages in the queue are below delay plus lateness.
- `OwnBoxesAlwaysShown`: the event of an analysed frame is on its way or in the
  buffer. It is in the buffer when the frame is due, because the detector is quicker
  than the delay, and not pruned, because the lateness is within the slack; its
  distance is nought, so FindNearest takes it and no other.

**SettingsStore** (assumes finitely many settings)

- `StoreTypeCorrect`: whatever overlapping and killed saves leave, load makes a
  record of it.
- `QuietAlwaysAgrees`, `SettledAlwaysSurvives`: while a request runs alone it is the only
  one under way, and its place in handler, Set and save says how far flags, record, text
  and file have come (`AloneOrderly`). A settled setting is touched by no request under
  way but the one alone, so that flag and record agree on it; and whatever whole file
  save, overlapped or not, leaves, holds for it what is in force, because the record did
  when it was read (`SettledHold`). `StoreInv`, their conjunction, was checked with TLC
  as well.

**Compositions.** `DataPathsProofs!ComponentsRun` and `ServiceProofs!ComponentsRun`:
each behaviour of a composition is one of each component. Hence `DataPathsTyped`,
`DataPathsSafe`, `ServiceTyped` and `ServiceSafe`, on the very specifications that the
runs check. The theorems about StreamServer and CameraControl speak of
`StreamSafety` and `CameraSafety`, the specifications without their fairness: that is
the stronger statement, and Service states its own fairness.

Only model-checked are the liveness properties (QuietRecordingEnds, EventsLeaveMemory,
StopRequestServed, ManualRetried, ShutdownFlushes, CappedLampGoesOff, BrightTurnsOff,
SlowViewerHarmless, ShutdownEnds, LightDecides), since liveness under fairness and
ENABLED are beyond the provers used here, and the six violations, whose
counterexamples are TLC's. Only proved, and checked by no run, are the types of
StreamServer and CameraControl (`ServiceTyped`).

Some properties hold of less than one might wish, and say so: DeviceAgrees and LampFollows
leave out answers that were lost, ChoiceInForce requests that overlap and restores that
read too early, AutoSwitchesSpaced a lost answer, QuietAgrees and SettledSurvives requests
that overlap. What the code does in the cases left out is in the violations above where a
comment or the README says otherwise, and in the notes of the hazards where none does.

## 8. Not modelled

Logging, file names and formats, the `manual-` prefix; the JSON of events (a file
either gets all events of a flush or none); reading an existing events file that
does not parse; the minute arithmetic of the sunrise window. Further:

- Frames of a wrong size or with chunk counts that change within a frame
  (`receiver.go:195-213`): picam-raw sends neither.
- Clock steps, which move time stamps apart from arrivals, and the wrap-around of the
  32-bit frame number (the numbers after a restart are the case modelled).
- Lores and main together in one loop: it handles them one after the other with
  separate state, and FrameAlign takes either.
- Which stream a viewer has chosen: the streams share the cap only.
- The lux threshold as a number: its change shows as a change of light.
- Recordings listing, status, statistics, discovery and the handlers that only read
  format what others hold; drawing and JPEG encoding are pixel arithmetic;
  configuration is read once. No interleaving or failure of theirs changes state, so
  no module is planned for them.
