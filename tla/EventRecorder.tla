---------------------------- MODULE EventRecorder ----------------------------
(***************************************************************************)
(* internal/recorder.EventRecorder: one worker goroutine (Run) starts and  *)
(* stops picam-recorder for two independent sources, the detection stream  *)
(* (Notify) and the manual GET /record trigger (StartManual, StopManual).  *)
(*                                                                         *)
(* The fields of EventRecorder are guarded by one mutex.  Every critical   *)
(* section of the code is one action here, so the mutex itself need not be *)
(* a variable; whatever the code does between two critical sections (a     *)
(* remote call, a file write) is an action of its own, and the callers may *)
(* run in between.  A poke follows its caller's critical section at once:  *)
(* delaying it only adds ticks, which the 1 s timer adds anyway.           *)
(*                                                                         *)
(* picam-recorder is external: "start" and "stop" may fail before or after *)
(* they take effect, only a reply with "file=" counts as a start, and it   *)
(* may restart at any time.                                                *)
(*                                                                         *)
(* An operator whose name begins with Bad is a faulty variant of the one   *)
(* after it.  Nothing uses it: it is there to be put in that one's place,  *)
(* to see that the property its comment names can fail.                    *)
(***************************************************************************)
EXTENDS RecordingNames

CONSTANT IdleLimit   \* idleTimeout in units of time; 0 disables the watchdog

ASSUME IdleLimitIsNat == IdleLimit \in Nat

VARIABLES
    \* the fields guarded by mu
    haveEvents, accumulated, recording, stopRequested, manualActive,
    currentFile,
    idle,          \* time.Since(lastDetectionAt), saturated at IdleLimit
    wake,          \* the one-slot channel wake holds a token
    ctxDone,       \* the context is cancelled
    \* Run's goroutine: where it is, and the locals of tick and flush
    pc,
    trigger,       \* tick's triggerEvt, NoEvent when it has no detections
    reply,         \* the file Start returned
    flushing,      \* flush's file and events
    returning,     \* Run returns after this flush
    \* the world outside
    device,        \* what picam-recorder is recording
    disk,          \* disk[f]: the Events of f's .events.json
    jpg,           \* jpg[f]: the event shown on f's .jpg
    \* history, read by properties only
    reported,      \* number of non-empty events notified
    dropped,       \* events given up
    joined,        \* joined[e]: the recording in progress when e came
    certain,       \* the last call to picam-recorder left no doubt
    asked,         \* the last manual request
    stopBy,        \* who asked for the latest stop
    stopFor        \* the recording that stop was meant for

fields == <<haveEvents, accumulated, recording, stopRequested, manualActive,
            currentFile, idle>>
locals == <<trigger, reply, flushing, returning>>
outside == <<device, disk, jpg>>
history == <<reported, dropped, joined, certain, asked, stopBy, stopFor>>
vars == <<fields, wake, ctxDone, pc, locals, outside, history>>

NoEvent == 0

\* uuid.New: a name nothing refers to.
Fresh(f) == f \notin {device, currentFile} /\ disk[f] = <<>> /\ jpg[f] = NoEvent

Init ==
    /\ haveEvents = FALSE /\ accumulated = <<>>
    /\ recording = FALSE /\ stopRequested = FALSE /\ manualActive = FALSE
    /\ currentFile = None /\ idle = IdleLimit
    /\ wake = FALSE /\ ctxDone = FALSE
    /\ pc = "select"
    /\ trigger = NoEvent /\ reply = None
    /\ flushing = NothingClosing /\ returning = FALSE
    /\ device \in Files \union {None}   \* an earlier process may have left one
    /\ disk = [f \in Files |-> <<>>]
    /\ jpg = [f \in Files |-> NoEvent]
    /\ reported = 0 /\ dropped = {}
    /\ joined = [e \in Event |-> None]
    /\ certain = (device = None)
    /\ asked = "none" /\ stopBy = "none" /\ stopFor = None

-----------------------------------------------------------------------------
(* The callers: detect.Run's goroutine, HTTP handlers, main and the clock.  *)

\* Bad: the latest event goes to the front (EventsInOrder).
BadLogged(e) == <<e>> \o accumulated

\* Bad: only the latest event is kept (TypeOK).
BadLatestOnly(e) == <<e>>

Logged(e) == Append(accumulated, e)

NotifyDetections ==
    /\ reported < MaxEvents
    /\ reported' = reported + 1
    /\ haveEvents' = TRUE
    /\ accumulated' = Logged(reported')
    /\ idle' = 0
    /\ joined' = [joined EXCEPT ![reported'] = currentFile]
    /\ wake' = TRUE
    /\ UNCHANGED <<recording, stopRequested, manualActive, currentFile, ctxDone,
                   pc, locals, outside, dropped, certain, asked, stopBy, stopFor>>

AskStop(who) == stopRequested' = TRUE /\ stopBy' = who /\ stopFor' = currentFile

NoStop == UNCHANGED <<stopRequested, stopBy, stopFor>>

NotifyEmpty ==
    /\ IF recording /\ ~manualActive THEN AskStop("empty") ELSE NoStop
    /\ wake' = TRUE
    /\ UNCHANGED <<haveEvents, accumulated, recording, manualActive, currentFile,
                   idle, ctxDone, pc, locals, outside, reported, dropped, joined,
                   certain, asked>>

StartManual ==
    /\ manualActive' = TRUE
    /\ asked' = "on"
    /\ wake' = TRUE
    /\ UNCHANGED <<haveEvents, accumulated, recording, stopRequested, currentFile,
                   idle, ctxDone, pc, locals, outside, reported, dropped, joined,
                   certain, stopBy, stopFor>>

StopManual ==
    /\ manualActive' = FALSE
    /\ IF recording THEN AskStop("user") ELSE NoStop
    /\ asked' = "off"
    /\ wake' = TRUE
    /\ UNCHANGED <<haveEvents, accumulated, recording, currentFile, idle, ctxDone,
                   pc, locals, outside, reported, dropped, joined, certain>>

Cancel ==
    /\ ~ctxDone
    /\ ctxDone' = TRUE
    /\ UNCHANGED <<fields, wake, pc, locals, outside, history>>

\* Beyond IdleLimit an age is as good as IdleLimit: the bound is the model's.
TimePasses ==
    /\ idle < IdleLimit
    /\ idle' = idle + 1
    /\ UNCHANGED <<haveEvents, accumulated, recording, stopRequested, manualActive,
                   currentFile, wake, ctxDone, pc, locals, outside, history>>

DeviceRestarts ==
    /\ device # None
    /\ device' = None
    /\ certain' = FALSE
    /\ UNCHANGED <<fields, wake, ctxDone, pc, locals, disk, jpg, reported, dropped,
                   joined, asked, stopBy, stopFor>>

-----------------------------------------------------------------------------
(* Run: the select of the worker loop.                                      *)

RunWake ==
    /\ pc = "select" /\ wake
    /\ wake' = FALSE
    /\ pc' = "decide"
    /\ UNCHANGED <<fields, ctxDone, locals, outside, history>>

\* Bad: the fallback interval runs only during a recording (ManualRetried).
BadTimerArmed == recording

TimerArmed == TRUE

RunTimer ==
    /\ pc = "select" /\ TimerArmed
    /\ pc' = "decide"
    /\ UNCHANGED <<fields, wake, ctxDone, locals, outside, history>>

\* Bad: returns without flushing (ShutdownFlushes).
BadOnDone == "exited"

OnDone == IF recording THEN "flush" ELSE "exited"

\* The locked read of recording is part of this step: only the worker
\* itself ever changes recording.
RunDone ==
    /\ pc = "select" /\ ctxDone
    /\ pc' = OnDone
    /\ returning' = TRUE
    /\ UNCHANGED <<fields, wake, ctxDone, trigger, reply, flushing, outside,
                   history>>

-----------------------------------------------------------------------------
(* tick: decide whether to start, start, note the outcome, decide whether   *)
(* to stop; three critical sections around one remote call.                 *)

\* Bad: starts although a recording is in progress (ImplementsSession).
BadStartWanted == haveEvents \/ manualActive

StartWanted == (haveEvents \/ manualActive) /\ ~recording

\* Bad: shows the latest event, not the first (SnapshotShowsFirstEvent).
BadTriggerEvent ==
    IF haveEvents /\ accumulated # <<>> THEN accumulated[Len(accumulated)]
                                        ELSE NoEvent

TriggerEvent ==
    IF haveEvents /\ accumulated # <<>> THEN Head(accumulated) ELSE NoEvent

DecideStart ==
    /\ pc = "decide" /\ StartWanted
    /\ trigger' = TriggerEvent
    /\ pc' = "start"
    /\ UNCHANGED <<fields, wake, ctxDone, reply, flushing, returning, outside,
                   history>>

DecideNoStart ==
    /\ pc = "decide" /\ ~StartWanted
    /\ pc' = "check"
    /\ UNCHANGED <<fields, wake, ctxDone, locals, outside, history>>

\* picam-recorder replies with the file; the snapshot of the triggering
\* event is written next to it, unless there is no frame to draw it on.
StartAnswered ==
    /\ pc = "start"
    /\ \E f \in Files :
          /\ Fresh(f)
          /\ device' = f
          /\ reply' = f
          /\ \E shown \in {trigger, NoEvent} : jpg' = [jpg EXCEPT ![f] = shown]
    /\ trigger' = NoEvent
    /\ certain' = TRUE
    /\ pc' = "started"
    /\ UNCHANGED <<fields, wake, ctxDone, flushing, returning, disk, reported,
                   dropped, joined, asked, stopBy, stopFor>>

\* The command takes effect, but no "file=" comes back in time.
StartReplyLost ==
    /\ pc = "start"
    /\ \E f \in Files : Fresh(f) /\ device' = f
    /\ trigger' = NoEvent
    /\ certain' = FALSE
    /\ pc' = "started"
    /\ UNCHANGED <<fields, wake, ctxDone, reply, flushing, returning, disk, jpg,
                   reported, dropped, joined, asked, stopBy, stopFor>>

\* picam-recorder is unreachable or refuses.
StartUnreached ==
    /\ pc = "start"
    /\ trigger' = NoEvent
    /\ pc' = "started"
    /\ UNCHANGED <<fields, wake, ctxDone, reply, flushing, returning, outside,
                   history>>

BeginRecording ==
    /\ pc = "started" /\ reply # None
    /\ recording' = TRUE
    /\ currentFile' = reply
    /\ idle' = 0
    /\ reply' = None
    /\ pc' = "check"
    /\ UNCHANGED <<haveEvents, accumulated, stopRequested, manualActive, wake,
                   ctxDone, trigger, flushing, returning, outside, history>>

\* Bad: keeps the events for the next attempt (EventsLeaveMemory).
BadGiveUp == UNCHANGED <<accumulated, haveEvents, dropped>>

\* Bad: forgets to clear the flag along with the log (FieldsAgree).
BadGiveUpLogOnly ==
    /\ accumulated' = <<>>
    /\ dropped' = dropped \union Range(accumulated)
    /\ UNCHANGED haveEvents

GiveUp ==
    /\ accumulated' = <<>>
    /\ haveEvents' = FALSE
    /\ dropped' = dropped \union Range(accumulated)

\* A manual request stays, so that the next tick tries again.
StartFailed ==
    /\ pc = "started" /\ reply = None
    /\ GiveUp
    /\ pc' = "check"
    /\ UNCHANGED <<recording, stopRequested, manualActive, currentFile, idle, wake,
                   ctxDone, locals, outside, reported, joined, certain, asked,
                   stopBy, stopFor>>

\* Bad: the watchdog waits for the log to be empty (QuietRecordingEnds).
BadIdleExpired ==
    IdleLimit > 0 /\ ~manualActive /\ ~haveEvents /\ idle >= IdleLimit

IdleExpired == IdleLimit > 0 /\ ~manualActive /\ idle >= IdleLimit

\* Bad: only the watchdog stops a recording (StopRequestServed).
BadStopDue == recording /\ IdleExpired

StopDue == recording /\ (stopRequested \/ IdleExpired)

CheckStop ==
    /\ pc = "check" /\ StopDue
    /\ stopRequested' = FALSE
    /\ IF stopRequested THEN UNCHANGED <<stopBy, stopFor>>
                        ELSE stopBy' = "idle" /\ stopFor' = currentFile
    /\ pc' = "flush"
    /\ UNCHANGED <<haveEvents, accumulated, recording, manualActive, currentFile,
                   idle, wake, ctxDone, locals, outside, reported, dropped, joined,
                   certain, asked>>

CheckContinue ==
    /\ pc = "check"
    /\ ~StopDue
    /\ pc' = "select"
    /\ UNCHANGED <<fields, wake, ctxDone, locals, outside, history>>

-----------------------------------------------------------------------------
(* flush: one critical section, then the "stop" call, then the file.        *)

\* Bad: the events handed over stay in the log (EventsConserved,
\* LogsBelongToRecordings).
BadResetKeepsLog ==
    /\ recording' = FALSE /\ currentFile' = None
    /\ haveEvents' = FALSE /\ manualActive' = FALSE
    /\ UNCHANGED accumulated

\* Bad: recording stays set (DeviceAgrees).
BadResetKeepsFile ==
    /\ haveEvents' = FALSE /\ manualActive' = FALSE /\ accumulated' = <<>>
    /\ UNCHANGED <<recording, currentFile>>

ResetSession ==
    /\ recording' = FALSE /\ currentFile' = None
    /\ haveEvents' = FALSE /\ manualActive' = FALSE
    /\ accumulated' = <<>>

Flush ==
    /\ pc = "flush"
    /\ flushing' = [file |-> currentFile, events |-> accumulated]
    /\ ResetSession
    /\ pc' = "stop"
    /\ UNCHANGED <<stopRequested, idle, wake, ctxDone, trigger, reply, returning,
                   outside, history>>

StopReached ==
    /\ pc = "stop"
    /\ device' = None
    /\ certain' = TRUE
    /\ pc' = "save"
    /\ UNCHANGED <<fields, wake, ctxDone, locals, disk, jpg, reported, dropped,
                   joined, asked, stopBy, stopFor>>

\* The result of "stop" is ignored.
StopUnreached ==
    /\ pc = "stop"
    /\ certain' = FALSE
    /\ pc' = "save"
    /\ UNCHANGED <<fields, wake, ctxDone, locals, outside, reported, dropped,
                   joined, asked, stopBy, stopFor>>

AfterFlush == IF returning THEN "exited" ELSE "select"

SaveEvents ==
    /\ pc = "save"
    /\ disk' = [disk EXCEPT ![flushing.file] = @ \o flushing.events]
    /\ flushing' = NothingClosing
    /\ pc' = AfterFlush
    /\ UNCHANGED <<fields, wake, ctxDone, trigger, reply, returning, device, jpg,
                   history>>

SaveFails ==
    /\ pc = "save"
    /\ dropped' = dropped \union Range(flushing.events)
    /\ flushing' = NothingClosing
    /\ pc' = AfterFlush
    /\ UNCHANGED <<fields, wake, ctxDone, trigger, reply, returning, outside,
                   reported, joined, certain, asked, stopBy, stopFor>>

-----------------------------------------------------------------------------
Callers == NotifyDetections \/ NotifyEmpty \/ StartManual \/ StopManual

Tick == \/ DecideStart \/ DecideNoStart
        \/ StartAnswered \/ StartReplyLost \/ StartUnreached
        \/ BeginRecording \/ StartFailed
        \/ CheckStop \/ CheckContinue

FlushSteps == Flush \/ StopReached \/ StopUnreached \/ SaveEvents \/ SaveFails

Worker == RunWake \/ RunTimer \/ RunDone \/ Tick \/ FlushSteps

Next == Callers \/ Cancel \/ TimePasses \/ DeviceRestarts \/ Worker

Spec == Init /\ [][Next]_vars

(* The goroutine and the clock keep going; every remote call has a          *)
(* deadline, so it returns.  select picks at random among the cases that    *)
(* are ready, so a cancelled context is not passed over for ever.           *)
Fairness == WF_vars(Worker) /\ SF_vars(RunDone) /\ WF_vars(TimePasses)

FairSpec == Spec /\ Fairness

-----------------------------------------------------------------------------
WorkerStates == {"select", "decide", "start", "started", "check", "flush",
                 "stop", "save", "exited"}

(* The variables have their types, and the locals of tick and flush hold     *)
(* something only while it is of use: the event that triggers a start stays  *)
(* in the log until the command has returned, although callers run meanwhile.*)
TypeOK ==
    /\ haveEvents \in BOOLEAN /\ accumulated \in Seq(Event)
    /\ recording \in BOOLEAN /\ stopRequested \in BOOLEAN
    /\ manualActive \in BOOLEAN
    /\ currentFile \in Files \union {None} /\ idle \in 0..IdleLimit
    /\ wake \in BOOLEAN /\ ctxDone \in BOOLEAN
    /\ pc \in WorkerStates
    /\ trigger \in {NoEvent} \union (IF pc = "start" THEN Range(accumulated) ELSE {})
    /\ reply \in {None} \union (IF pc = "started" THEN Files ELSE {})
    /\ flushing \in [file : Files \union {None}, events : Seq(Event)]
    /\ returning \in BOOLEAN
    /\ device \in Files \union {None}
    /\ disk \in [Files -> Seq(Event)]
    /\ jpg \in [Files -> Event \union {NoEvent}]
    /\ reported \in 0..MaxEvents /\ dropped \subseteq Event
    /\ joined \in [Event -> Files \union {None}]
    /\ certain \in BOOLEAN /\ asked \in {"none", "on", "off"}
    /\ stopBy \in {"none", "empty", "user", "idle"}
    /\ stopFor \in Files \union {None}

(* The specification a reader of the package needs: see RecordingSession.    *)
Session == INSTANCE RecordingSession WITH
    file <- currentFile, log <- accumulated, closing <- flushing,
    archive <- disk

(* EventRecorder is a recording session: it opens one only when none is      *)
(* open, hands a log over whole and once, and writes each to a file of its   *)
(* own, whatever Notify, StartManual, StopManual and shutdown do meanwhile.  *)
ImplementsSession == Session!Spec

(* Every event notified is in exactly one place: in accumulated, in flush's  *)
(* hands, in one .events.json, or given up with a failed start or write.     *)
EventsConserved == Session!Conserved

(* No .events.json holds an event twice or out of order, and what is in      *)
(* memory is later than all that is on disk or on its way there.             *)
EventsInOrder == Session!InOrder

(* The fields EventRecorder keeps twice agree at every unlock, and flush is  *)
(* never entered without a file: saveEvents's test for an empty path and     *)
(* tick's test for an empty log guard against states that do not occur.      *)
FieldsAgree ==
    /\ haveEvents <=> accumulated # <<>>
    /\ recording <=> currentFile # None
    /\ pc = "flush" => recording
    /\ pc \in {"stop", "save"} <=> flushing.file # None

(* An event that came while a recording was in progress is in the events of  *)
(* that recording and of no other, however the stop was raced.               *)
LogsBelongToRecordings ==
    /\ \A f \in Files : \A e \in Range(disk[f]) : joined[e] \in {None, f}
    /\ \A e \in Range(flushing.events) : joined[e] \in {None, flushing.file}
    /\ \A e \in Range(accumulated) : joined[e] \in {None, currentFile}

(* A recording's .jpg shows the first event of its .events.json, although    *)
(* the one is taken before the start and the other written after the stop.   *)
SnapshotShowsFirstEvent ==
    \A f \in Files : jpg[f] # NoEvent =>
        /\ disk[f] # <<>> => Head(disk[f]) = jpg[f]
        /\ currentFile = f => accumulated # <<>> /\ Head(accumulated) = jpg[f]

(* Unless a call's outcome is in doubt, picam-recorder is recording exactly  *)
(* when and what EventRecorder believes, outside the calls themselves.       *)
DeviceAgrees ==
    certain => CASE pc = "started" /\ reply # None -> device = reply
                 [] pc = "stop" -> device = flushing.file
                 [] OTHER -> device = currentFile

(* The watchdog: a recording that is not manual ends once detections cease,  *)
(* without an empty event or a StopManual.                                   *)
QuietRecordingEnds == (recording /\ ~manualActive) ~> (~recording \/ manualActive)

(* No event stays in memory for ever unless a manual recording keeps it.     *)
EventsLeaveMemory ==
    \A e \in Event : (e \in Range(accumulated)) ~>
        (e \notin Range(accumulated) \/ manualActive \/ pc = "exited")

(* A stop asked for during a recording is carried out.                       *)
StopRequestServed == (stopRequested /\ recording) ~> ~recording

(* A manual start that failed is tried again, although nobody pokes Run.     *)
ManualRetried ==
    (manualActive /\ ~recording) ~>
        (recording \/ pc = "start" \/ ~manualActive \/ ctxDone)

(* Run returns after a cancel, and not before an open recording is flushed.  *)
ShutdownFlushes == ctxDone ~> (pc = "exited" /\ ~recording /\ flushing.file = None)

-----------------------------------------------------------------------------
(* What the comments and the README say and the code does not do.            *)

(* "While manualActive, neither Notify's empty-detections immediate-stop nor *)
(* the idle-timeout watchdog will end the recording; only StopManual does",  *)
(* and "StopManual only ends the recording just watched": unless Run is      *)
(* cancelled, a manual recording ends by StopManual, and what StopManual     *)
(* ends is the recording that ran when it was called.                        *)
RecordingsEndAsAsked ==
    [][Flush => \/ returning
                \/ /\ manualActive => stopBy = "user"
                   /\ stopBy = "user" => stopFor = currentFile]_vars

(* "GET /record?on=false always stops it immediately": after a StopManual    *)
(* with no detection around, no recording goes on for ever.                  *)
StopManualStops ==
    (asked = "off" /\ reported = 0) ~> (~recording \/ asked = "on" \/ reported > 0)
=============================================================================
