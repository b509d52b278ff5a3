------------------------- MODULE EventRecorderProofs -------------------------
(***************************************************************************)
(* Proofs about EventRecorder, for every set of recordings, every number   *)
(* of events and every idle limit.                                         *)
(***************************************************************************)
EXTENDS EventRecorder, SequenceTheorems, TLAPS

USE NoneIsNoFile, MaxEventsIsNat, IdleLimitIsNat

(* Every variable keeps its type, under every interleaving of the callers,   *)
(* the clock, picam-recorder's failures and the worker.                      *)
THEOREM TypeCorrect == Spec => []TypeOK
<1>1. Init => TypeOK
  <2> SUFFICES ASSUME Init PROVE TypeOK
    OBVIOUS
  <2>1. /\ haveEvents \in BOOLEAN /\ recording \in BOOLEAN
        /\ stopRequested \in BOOLEAN /\ manualActive \in BOOLEAN
        /\ wake \in BOOLEAN /\ ctxDone \in BOOLEAN /\ returning \in BOOLEAN
        /\ certain \in BOOLEAN
    BY Zenon DEF Init
  <2>2. QED
    BY <2>1 DEF Init, TypeOK, NothingClosing, Event, NoEvent, WorkerStates
<1>2. TypeOK /\ [Next]_vars => TypeOK'
  <2> SUFFICES ASSUME TypeOK, [Next]_vars PROVE TypeOK'
    OBVIOUS
  <2> USE DEF TypeOK, WorkerStates, fields, locals, outside, history
  <2>1. CASE NotifyDetections
    <3>1. reported' \in Event /\ accumulated' = Append(accumulated, reported')
      BY <2>1 DEF NotifyDetections, Logged, Event
    <3>2. accumulated' \in Seq(Event) /\ Range(accumulated) \subseteq Range(accumulated')
      <4>1. /\ accumulated' \in Seq(Event) /\ Len(accumulated') = Len(accumulated) + 1
            /\ \A i \in 1..Len(accumulated) : accumulated'[i] = accumulated[i]
        BY <3>1, AppendProperties
      <4>2. /\ DOMAIN accumulated = 1..Len(accumulated)
            /\ DOMAIN accumulated \subseteq DOMAIN accumulated'
        BY <4>1
      <4>3. QED
        BY <4>1, <4>2 DEF Range
    <3>3. joined' \in [Event -> Files \union {None}]
      BY <2>1 DEF NotifyDetections
    <3>4. QED
      BY <2>1, <3>1, <3>2, <3>3 DEF NotifyDetections, Event
  <2>2. CASE NotifyEmpty
    <3>1. stopRequested' \in BOOLEAN
      BY <2>2, Zenon DEF NotifyEmpty, AskStop, NoStop
    <3>2. QED
      BY <2>2, <3>1 DEF NotifyEmpty, AskStop, NoStop
  <2>3. CASE StartManual
    BY <2>3 DEF StartManual
  <2>4. CASE StopManual
    <3>1. stopRequested' \in BOOLEAN /\ manualActive' \in BOOLEAN
      BY <2>4, Zenon DEF StopManual, AskStop, NoStop
    <3>2. QED
      BY <2>4, <3>1 DEF StopManual, AskStop, NoStop
  <2>5. CASE Cancel
    BY <2>5 DEF Cancel
  <2>6. CASE TimePasses
    BY <2>6 DEF TimePasses
  <2>7. CASE DeviceRestarts
    <3>1. certain' \in BOOLEAN
      BY <2>7, Zenon DEF DeviceRestarts
    <3>2. QED
      BY <2>7, <3>1 DEF DeviceRestarts
  <2>8. CASE RunWake \/ RunTimer
    <3>1. wake' \in BOOLEAN
      BY <2>8, Zenon DEF RunWake, RunTimer
    <3>2. QED
      BY <2>8, <3>1 DEF RunWake, RunTimer
  <2>9. CASE RunDone
    BY <2>9 DEF RunDone, OnDone
  <2>10. CASE DecideStart
    <3>1. TriggerEvent \in {NoEvent} \union Range(accumulated)
      <4>1. accumulated # <<>> => 1 \in DOMAIN accumulated /\ Head(accumulated) = accumulated[1]
        OBVIOUS
      <4>2. QED
        BY <4>1 DEF TriggerEvent, Range
    <3>2. QED
      BY <2>10, <3>1 DEF DecideStart
  <2>11. CASE DecideNoStart
    BY <2>11 DEF DecideNoStart
  <2>12. CASE StartAnswered
    <3>1. trigger \in Event \union {NoEvent}
      BY DEF Range
    <3>2. PICK f \in Files : /\ device' = f /\ reply' = f
                             /\ \E shown \in {trigger, NoEvent} :
                                   jpg' = [jpg EXCEPT ![f] = shown]
      BY <2>12 DEF StartAnswered
    <3>3. jpg' \in [Files -> Event \union {NoEvent}]
      BY <3>1, <3>2
    <3>4. QED
      BY <2>12, <3>2, <3>3 DEF StartAnswered
  <2>13. CASE StartReplyLost
    <3>1. certain' \in BOOLEAN
      BY <2>13, Zenon DEF StartReplyLost
    <3>2. QED
      BY <2>13, <3>1 DEF StartReplyLost
  <2>14. CASE StartUnreached
    BY <2>14 DEF StartUnreached
  <2>15. CASE BeginRecording
    BY <2>15 DEF BeginRecording
  <2>16. CASE StartFailed
    <3>1. haveEvents' \in BOOLEAN
      BY <2>16, Zenon DEF StartFailed, GiveUp
    <3>2. QED
      BY <2>16, <3>1 DEF StartFailed, GiveUp, Range
  <2>17. CASE CheckStop
    <3>1. stopRequested' \in BOOLEAN
      BY <2>17, Zenon DEF CheckStop
    <3>2. QED
      BY <2>17, <3>1 DEF CheckStop
  <2>18. CASE CheckContinue
    BY <2>18 DEF CheckContinue
  <2>19. CASE Flush
    <3>1. recording' \in BOOLEAN /\ haveEvents' \in BOOLEAN /\ manualActive' \in BOOLEAN
      BY <2>19, Zenon DEF Flush, ResetSession
    <3>2. QED
      BY <2>19, <3>1 DEF Flush, ResetSession
  <2>20. CASE StopReached
    BY <2>20 DEF StopReached
  <2>21. CASE StopUnreached
    <3>1. certain' \in BOOLEAN
      BY <2>21, Zenon DEF StopUnreached
    <3>2. QED
      BY <2>21, <3>1 DEF StopUnreached
  <2>22. CASE SaveEvents
    <3>1. ASSUME NEW f \in Files PROVE disk[f] \o flushing.events \in Seq(Event)
      BY ConcatProperties
    <3>2. disk' \in [Files -> Seq(Event)]
      BY <2>22, <3>1 DEF SaveEvents
    <3>3. QED
      BY <2>22, <3>2 DEF SaveEvents, AfterFlush, NothingClosing
  <2>23. CASE SaveFails
    BY <2>23 DEF SaveFails, AfterFlush, NothingClosing, Range
  <2>24. CASE UNCHANGED vars
    BY <2>24 DEF vars
  <2>25. QED
    BY <2>1, <2>2, <2>3, <2>4, <2>5, <2>6, <2>7, <2>8, <2>9, <2>10, <2>11,
       <2>12, <2>13, <2>14, <2>15, <2>16, <2>17, <2>18, <2>19, <2>20, <2>21,
       <2>22, <2>23, <2>24
       DEF Next, Callers, Worker, Tick, FlushSteps
<1>3. QED
  BY <1>1, <1>2, PTL DEF Spec

-----------------------------------------------------------------------------
(* The worker's place determines which fields may be set.  FieldsAgree is    *)
(* not inductive: that a start finds no recording, that a reply and a        *)
(* flush are pending only at their own steps, and that none of the files in  *)
(* the worker's hands has events on disk, is what carries it.                *)
PlaceInv ==
    /\ haveEvents <=> accumulated # <<>>
    /\ recording <=> currentFile # None
    /\ pc \in {"start", "started"} => ~recording
    /\ pc = "flush" => recording
    /\ reply # None => pc = "started" /\ disk[reply] = <<>>
    /\ currentFile # None => disk[currentFile] = <<>>
    /\ IF pc \in {"stop", "save"}
       THEN /\ ~recording
            /\ flushing.file # None /\ disk[flushing.file] = <<>>
       ELSE flushing = NothingClosing

(* The initial states agree with the worker's place.                        *)
LEMMA InitPlaceInv == Init => PlaceInv
  BY DEF Init, PlaceInv

(* No step of a caller, the worker or picam-recorder breaks the agreement.  *)
LEMMA PlaceStep == TypeOK /\ PlaceInv /\ [Next]_vars => PlaceInv'
<1> SUFFICES ASSUME TypeOK, PlaceInv, [Next]_vars PROVE PlaceInv'
  OBVIOUS
<1> USE DEF PlaceInv, fields, locals, outside, history
<1>1. CASE NotifyDetections
  <2>1. accumulated' # <<>>
    BY <1>1, AppendProperties DEF NotifyDetections, Logged, TypeOK, Event
  <2>2. QED
    BY <1>1, <2>1 DEF NotifyDetections
<1>2. CASE NotifyEmpty \/ StartManual \/ StopManual
  BY <1>2 DEF NotifyEmpty, StartManual, StopManual
<1>3. CASE Cancel \/ TimePasses \/ DeviceRestarts
  BY <1>3 DEF Cancel, TimePasses, DeviceRestarts
<1>4. CASE RunWake \/ RunTimer
  BY <1>4 DEF RunWake, RunTimer
<1>5. CASE RunDone
  BY <1>5 DEF RunDone, OnDone
<1>6. CASE DecideStart \/ DecideNoStart
  BY <1>6 DEF DecideStart, DecideNoStart, StartWanted
<1>7. CASE StartAnswered
  BY <1>7 DEF StartAnswered, Fresh
<1>8. CASE StartReplyLost \/ StartUnreached
  BY <1>8 DEF StartReplyLost, StartUnreached
<1>9. CASE BeginRecording
  BY <1>9 DEF BeginRecording
<1>10. CASE StartFailed
  BY <1>10 DEF StartFailed, GiveUp
<1>11. CASE CheckStop
  BY <1>11 DEF CheckStop, StopDue
<1>12. CASE CheckContinue
  BY <1>12 DEF CheckContinue
<1>13. CASE Flush
  BY <1>13 DEF Flush, ResetSession
<1>14. CASE StopReached \/ StopUnreached
  BY <1>14 DEF StopReached, StopUnreached
<1>15. CASE SaveEvents
  BY <1>15 DEF SaveEvents, AfterFlush
<1>16. CASE SaveFails
  BY <1>16 DEF SaveFails, AfterFlush
<1>17. CASE UNCHANGED vars
  BY <1>17 DEF vars
<1>18. QED
  BY <1>1, <1>2, <1>3, <1>4, <1>5, <1>6, <1>7, <1>8, <1>9, <1>10, <1>11, <1>12,
     <1>13, <1>14, <1>15, <1>16, <1>17
     DEF Next, Callers, Worker, Tick, FlushSteps

(* So it holds at every unlock of the mutex.                                *)
LEMMA PlaceInvariant == Spec => [](TypeOK /\ PlaceInv)
<1>1. Init => PlaceInv
  BY InitPlaceInv
<1>2. TypeOK /\ PlaceInv /\ [Next]_vars => PlaceInv'
  BY PlaceStep
<1>3. QED
  BY <1>1, <1>2, TypeCorrect, PTL DEF Spec

(* The fields kept twice agree, and flush always has a file.                 *)
THEOREM FieldsAlwaysAgree == Spec => []FieldsAgree
<1>1. TypeOK /\ PlaceInv => FieldsAgree
  BY DEF PlaceInv, FieldsAgree, NothingClosing
<1>2. QED
  BY <1>1, PlaceInvariant, PTL

-----------------------------------------------------------------------------
(* The refinement: every critical section and every file write of the        *)
(* program is one step of the recording session or none.                     *)

(* Every step of the code is a step of the session, or none.                *)
LEMMA SessionStep ==
  TypeOK /\ PlaceInv /\ [Next]_vars => [Session!Next]_(Session!sessionVars)
<1> SUFFICES ASSUME TypeOK, PlaceInv, [Next]_vars
             PROVE  Session!Next \/ UNCHANGED Session!sessionVars
  OBVIOUS
<1> USE DEF fields, locals, outside, history, Session!sessionVars
<1>1. CASE NotifyDetections
  <2>1. Session!Report
    BY <1>1 DEF NotifyDetections, Logged, Session!Report
  <2>2. QED
    BY <2>1 DEF Session!Next
<1>2. CASE NotifyEmpty \/ StartManual \/ StopManual
  BY <1>2 DEF NotifyEmpty, StartManual, StopManual
<1>3. CASE Cancel \/ TimePasses \/ DeviceRestarts
  BY <1>3 DEF Cancel, TimePasses, DeviceRestarts
<1>4. CASE RunWake \/ RunTimer \/ RunDone
  BY <1>4 DEF RunWake, RunTimer, RunDone
<1>5. CASE DecideStart \/ DecideNoStart \/ CheckStop \/ CheckContinue
  BY <1>5 DEF DecideStart, DecideNoStart, CheckStop, CheckContinue
<1>6. CASE StartAnswered \/ StartReplyLost \/ StartUnreached
  BY <1>6 DEF StartAnswered, StartReplyLost, StartUnreached
<1>7. CASE BeginRecording
  <2>1. /\ currentFile = None /\ reply \in Files /\ disk[reply] = <<>>
        /\ flushing.file = None
    BY <1>7 DEF BeginRecording, TypeOK, PlaceInv, NothingClosing
  <2>2. Session!Open
    BY <1>7, <2>1 DEF BeginRecording, Session!Open
  <2>3. QED
    BY <2>2 DEF Session!Next
<1>8. CASE StartFailed
  <2>1. Session!Abandon
    BY <1>8 DEF StartFailed, GiveUp, PlaceInv, Range, Session!Abandon,
                Session!Range
  <2>2. QED
    BY <2>1 DEF Session!Next
<1>9. CASE Flush
  <2>1. Session!Close
    BY <1>9 DEF Flush, ResetSession, PlaceInv, NothingClosing, Session!Close,
                Session!NothingClosing
  <2>2. QED
    BY <2>1 DEF Session!Next
<1>10. CASE StopReached \/ StopUnreached
  BY <1>10 DEF StopReached, StopUnreached
<1>11. CASE SaveEvents
  <2>1. /\ flushing.file \in Files /\ disk[flushing.file] = <<>>
        /\ flushing.events \in Seq(Event) /\ flushing # NothingClosing
    BY <1>11 DEF SaveEvents, TypeOK, PlaceInv, NothingClosing
  <2>2. disk[flushing.file] \o flushing.events = flushing.events
    BY <2>1, ConcatEmptySeq
  <2>3. Session!Archive
    BY <1>11, <2>1, <2>2 DEF SaveEvents, NothingClosing, Session!Archive,
                             Session!NothingClosing
  <2>4. QED
    BY <2>3 DEF Session!Next
<1>12. CASE SaveFails
  <2>1. flushing # NothingClosing
    BY <1>12 DEF SaveFails, PlaceInv, NothingClosing
  <2>2. Session!LoseArchive
    BY <1>12, <2>1 DEF SaveFails, NothingClosing, Range, Session!LoseArchive,
                       Session!NothingClosing, Session!Range
  <2>3. QED
    BY <2>2 DEF Session!Next
<1>13. CASE UNCHANGED vars
  BY <1>13 DEF vars
<1>14. QED
  BY <1>1, <1>2, <1>3, <1>4, <1>5, <1>6, <1>7, <1>8, <1>9, <1>10, <1>11, <1>12,
     <1>13
     DEF Next, Callers, Worker, Tick, FlushSteps

(* EventRecorder implements the recording session: it opens one only when    *)
(* none is open and hands each log over whole, once, to a file of its own.   *)
THEOREM Implements == Spec => ImplementsSession
<1>1. Init => Session!Init
  BY DEF Init, NothingClosing, Session!Init, Session!NothingClosing
<1>2. TypeOK /\ PlaceInv /\ [Next]_vars => [Session!Next]_(Session!sessionVars)
  BY SessionStep
<1>3. QED
  BY <1>1, <1>2, PlaceInvariant, PTL DEF Spec, ImplementsSession, Session!Spec

Proved == INSTANCE RecordingSessionProofs WITH
    file <- currentFile, log <- accumulated, closing <- flushing,
    archive <- disk

(* What is proved of the session holds of EventRecorder.                     *)
LEMMA SessionInvariant == Spec => [](Proved!IInv)
<1>1. Session!Init => Proved!Init
  BY DEF Session!Init, Proved!Init, Session!NothingClosing, Proved!NothingClosing
<1>2. [Session!Next]_(Session!sessionVars) => [Proved!Next]_(Proved!sessionVars)
  <2> USE DEF Session!sessionVars, Proved!sessionVars, Session!NothingClosing,
              Proved!NothingClosing, Session!Range, Proved!Range
  <2>1. Session!Report => Proved!Report
    BY DEF Session!Report, Proved!Report
  <2>2. Session!Open => Proved!Open
    BY DEF Session!Open, Proved!Open
  <2>3. Session!Abandon => Proved!Abandon
    BY DEF Session!Abandon, Proved!Abandon
  <2>4. Session!Close => Proved!Close
    BY DEF Session!Close, Proved!Close
  <2>5. Session!Archive => Proved!Archive
    BY DEF Session!Archive, Proved!Archive
  <2>6. Session!LoseArchive => Proved!LoseArchive
    BY DEF Session!LoseArchive, Proved!LoseArchive
  <2>7. QED
    BY <2>1, <2>2, <2>3, <2>4, <2>5, <2>6 DEF Session!Next, Proved!Next
<1>3. QED
  BY <1>1, <1>2, Implements, Proved!SessionSafe, PTL
     DEF ImplementsSession, Session!Spec, Proved!Spec

(* Every event notified is in exactly one place.                             *)
THEOREM EventsAlwaysConserved == Spec => []EventsConserved
<1>1. Proved!IInv => EventsConserved
  BY DEF Proved!IInv, Proved!Conserved, Proved!Archived, Proved!Range,
         EventsConserved, Session!Conserved, Session!Archived, Session!Range
<1>2. QED
  BY <1>1, SessionInvariant, PTL

(* No .events.json holds an event twice or out of order, and what is in      *)
(* memory is later than all that has left it.                                *)
THEOREM EventsAlwaysInOrder == Spec => []EventsInOrder
<1>1. Proved!IInv => EventsInOrder
  BY DEF Proved!IInv, Proved!InOrder, Proved!Archived, Proved!Range,
         Proved!Chronological, EventsInOrder, Session!InOrder,
         Session!Archived, Session!Range, Session!Chronological
<1>2. QED
  BY <1>1, SessionInvariant, PTL

-----------------------------------------------------------------------------
(* Which recording an event belongs to.                                      *)

(* What has been logged anywhere has been notified: the next event is new.   *)
LEMMA LoggedWasReported ==
  ASSUME TypeOK, EventsConserved
  PROVE  /\ \A e \in Range(accumulated) \union Range(flushing.events) : e <= reported
         /\ \A f \in Files : \A e \in Range(disk[f]) : e <= reported
<1>1. reported \in Nat
  BY DEF TypeOK
<1>2. Range(accumulated) \union Range(flushing.events) \subseteq 1..reported
  BY DEF EventsConserved, Session!Conserved, Session!Range, Range
<1>3. \A f \in Files : Range(disk[f]) \subseteq 1..reported
  <2>1. UNION {Range(disk[f]) : f \in Files} \subseteq 1..reported
    BY DEF EventsConserved, Session!Conserved, Session!Archived, Session!Range, Range
  <2>2. QED
    BY <2>1
<1>4. QED
  BY <1>1, <1>2, <1>3

(* The log after Notify holds what it held and the event notified.           *)
LEMMA LoggedRange ==
  ASSUME NEW e \in Event, TypeOK
  PROVE  Range(Logged(e)) = Range(accumulated) \union {e}
<1>1. accumulated \in Seq(Event)
  BY DEF TypeOK
<1>2. DOMAIN Logged(e) = (DOMAIN accumulated) \union {Len(accumulated) + 1}
  BY <1>1 DEF Logged
<1>3. /\ \A i \in DOMAIN accumulated : Logged(e)[i] = accumulated[i]
      /\ Logged(e)[Len(accumulated) + 1] = e
  BY <1>1 DEF Logged
<1>4. QED
  BY <1>2, <1>3 DEF Range

(* Every step keeps the events with their recordings.                        *)
LEMMA BelongStep ==
  TypeOK /\ PlaceInv /\ EventsConserved /\ LogsBelongToRecordings /\ [Next]_vars
    => LogsBelongToRecordings'
<1> SUFFICES ASSUME TypeOK, PlaceInv, EventsConserved, LogsBelongToRecordings,
                    [Next]_vars
             PROVE  LogsBelongToRecordings'
  OBVIOUS
<1> USE DEF LogsBelongToRecordings, fields, locals, outside, history
<1>1. CASE NotifyDetections
  <2>1. /\ reported' \in Event /\ reported \in Nat /\ reported' = reported + 1
        /\ accumulated' = Logged(reported')
        /\ UNCHANGED <<currentFile, flushing, disk>>
    BY <1>1 DEF NotifyDetections, TypeOK, Event
  <2>2. /\ joined'[reported'] = currentFile
        /\ \A e : e <= reported => joined'[e] = joined[e]
    BY <1>1, <2>1 DEF NotifyDetections, TypeOK
  <2>3. Range(accumulated') = Range(accumulated) \union {reported'}
    BY <2>1, LoggedRange
  <2>4. QED
    BY <2>1, <2>2, <2>3, LoggedWasReported
<1>2. CASE NotifyEmpty \/ StartManual \/ StopManual
  BY <1>2 DEF NotifyEmpty, StartManual, StopManual
<1>3. CASE Cancel \/ TimePasses \/ DeviceRestarts
  BY <1>3 DEF Cancel, TimePasses, DeviceRestarts
<1>4. CASE RunWake \/ RunTimer \/ RunDone
  BY <1>4 DEF RunWake, RunTimer, RunDone
<1>5. CASE DecideStart \/ DecideNoStart \/ CheckStop \/ CheckContinue
  BY <1>5 DEF DecideStart, DecideNoStart, CheckStop, CheckContinue
<1>6. CASE StartAnswered \/ StartReplyLost \/ StartUnreached
  BY <1>6 DEF StartAnswered, StartReplyLost, StartUnreached
<1>7. CASE BeginRecording
  <2>1. currentFile = None
    BY <1>7 DEF BeginRecording, PlaceInv
  <2>2. QED
    BY <1>7, <2>1 DEF BeginRecording
<1>8. CASE StartFailed
  BY <1>8 DEF StartFailed, GiveUp, Range
<1>9. CASE Flush
  BY <1>9 DEF Flush, ResetSession, Range
<1>10. CASE StopReached \/ StopUnreached
  BY <1>10 DEF StopReached, StopUnreached
<1>11. CASE SaveEvents
  <2>1. /\ flushing.file \in Files /\ disk[flushing.file] = <<>>
        /\ flushing.events \in Seq(Event)
    BY <1>11 DEF SaveEvents, TypeOK, PlaceInv
  <2>2. disk[flushing.file] \o flushing.events = flushing.events
    BY <2>1, ConcatEmptySeq
  <2>3. \A f \in Files : disk'[f] = IF f = flushing.file THEN flushing.events ELSE disk[f]
    BY <1>11, <2>1, <2>2 DEF SaveEvents, TypeOK
  <2>4. Range(flushing'.events) = {}
    BY <1>11 DEF SaveEvents, NothingClosing, Range
  <2>5. UNCHANGED <<accumulated, currentFile, joined>>
    BY <1>11 DEF SaveEvents
  <2>6. QED
    BY <2>3, <2>4, <2>5
<1>12. CASE SaveFails
  BY <1>12 DEF SaveFails, NothingClosing, Range
<1>13. CASE UNCHANGED vars
  BY <1>13 DEF vars
<1>14. QED
  BY <1>1, <1>2, <1>3, <1>4, <1>5, <1>6, <1>7, <1>8, <1>9, <1>10, <1>11, <1>12,
     <1>13
     DEF Next, Callers, Worker, Tick, FlushSteps

(* An event that came during a recording is in that recording's log and in   *)
(* no other, through every race of stops, starts and flushes.                *)
THEOREM LogsAlwaysBelong == Spec => []LogsBelongToRecordings
<1>1. Init => LogsBelongToRecordings
  BY DEF Init, LogsBelongToRecordings, NothingClosing, Range
<1>2. QED
  BY <1>1, BelongStep, PlaceInvariant, EventsAlwaysConserved, PTL DEF Spec

-----------------------------------------------------------------------------
(* The snapshot, taken before the start, and the log, written after the      *)
(* stop, agree.  The first event of the log is followed through the worker's *)
(* locals: it is the trigger while the start is under way, on the snapshot   *)
(* of the file in reply, then of the current file, then of the one that is   *)
(* being flushed.                                                            *)
FirstIs(log, e) == log # <<>> /\ Head(log) = e

SnapshotInv ==
    /\ trigger # NoEvent => pc = "start" /\ FirstIs(accumulated, trigger)
    /\ \A f \in Files : jpg[f] # NoEvent =>
          /\ disk[f] # <<>> => Head(disk[f]) = jpg[f]
          /\ f \in {reply, currentFile} => FirstIs(accumulated, jpg[f])
          /\ f = flushing.file => FirstIs(flushing.events, jpg[f])

(* Another event does not become the first one.                              *)
LEMMA LoggedFirst ==
  ASSUME NEW e \in Event, TypeOK, NEW x, FirstIs(accumulated, x)
  PROVE  FirstIs(Logged(e), x)
<1>1. accumulated \in Seq(Event)
  BY DEF TypeOK
<1> QED BY <1>1, AppendProperties, HeadTailAppend DEF FirstIs, Logged

(* Every step keeps it.                                                      *)
LEMMA SnapshotStep == TypeOK /\ PlaceInv /\ SnapshotInv /\ [Next]_vars => SnapshotInv'
<1> SUFFICES ASSUME TypeOK, PlaceInv, SnapshotInv, [Next]_vars PROVE SnapshotInv'
  OBVIOUS
<1> USE DEF SnapshotInv, fields, locals, outside, history
<1>1. CASE NotifyDetections
  <2>1. reported' \in Event /\ accumulated' = Logged(reported')
    BY <1>1 DEF NotifyDetections, TypeOK, Event
  <2>2. \A x : FirstIs(accumulated, x) => FirstIs(accumulated', x)
    BY <2>1, LoggedFirst
  <2>3. UNCHANGED <<trigger, pc, jpg, disk, reply, currentFile, flushing>>
    BY <1>1 DEF NotifyDetections
  <2>4. QED
    BY <2>2, <2>3
<1>2. CASE NotifyEmpty \/ StartManual \/ StopManual
  BY <1>2 DEF NotifyEmpty, StartManual, StopManual
<1>3. CASE Cancel \/ TimePasses \/ DeviceRestarts
  BY <1>3 DEF Cancel, TimePasses, DeviceRestarts
<1>4. CASE RunWake \/ RunTimer \/ RunDone
  BY <1>4 DEF RunWake, RunTimer, RunDone
<1>5. CASE DecideStart
  BY <1>5 DEF DecideStart, TriggerEvent, FirstIs
<1>6. CASE DecideNoStart \/ CheckStop \/ CheckContinue
  BY <1>6 DEF DecideNoStart, CheckStop, CheckContinue
<1>7. CASE StartAnswered
  <2>1. PICK f \in Files, shown \in {trigger, NoEvent} :
          /\ Fresh(f) /\ reply' = f /\ jpg' = [jpg EXCEPT ![f] = shown]
    BY <1>7 DEF StartAnswered
  <2>2. flushing.file = None /\ reply = None /\ currentFile = None
    BY <1>7 DEF StartAnswered, PlaceInv, NothingClosing
  <2>3. UNCHANGED <<accumulated, disk, currentFile, flushing>> /\ trigger' = NoEvent
    BY <1>7 DEF StartAnswered
  <2>4. /\ jpg'[f] = shown /\ disk[f] = <<>>
        /\ \A g \in Files \ {f} : jpg'[g] = jpg[g]
    BY <2>1 DEF Fresh, TypeOK
  <2>5. QED
    BY <2>1, <2>2, <2>3, <2>4
<1>8. CASE StartReplyLost \/ StartUnreached
  BY <1>8 DEF StartReplyLost, StartUnreached
<1>9. CASE BeginRecording
  BY <1>9 DEF BeginRecording
<1>10. CASE StartFailed
  BY <1>10 DEF StartFailed, GiveUp, PlaceInv
<1>11. CASE Flush
  BY <1>11 DEF Flush, ResetSession, PlaceInv
<1>12. CASE StopReached \/ StopUnreached
  BY <1>12 DEF StopReached, StopUnreached
<1>13. CASE SaveEvents
  <2>1. /\ flushing.file \in Files /\ disk[flushing.file] = <<>>
        /\ flushing.events \in Seq(Event)
    BY <1>13 DEF SaveEvents, TypeOK, PlaceInv
  <2>2. disk[flushing.file] \o flushing.events = flushing.events
    BY <2>1, ConcatEmptySeq
  <2>3. \A f \in Files : disk'[f] = IF f = flushing.file THEN flushing.events ELSE disk[f]
    BY <1>13, <2>1, <2>2 DEF SaveEvents, TypeOK
  <2>4. flushing'.file = None /\ reply = None /\ currentFile = None
    BY <1>13 DEF SaveEvents, NothingClosing, PlaceInv
  <2>5. UNCHANGED <<trigger, accumulated, currentFile, reply, jpg>>
    BY <1>13 DEF SaveEvents
  <2>6. trigger = NoEvent
    BY <1>13 DEF SaveEvents
  <2>7. QED
    BY <2>3, <2>4, <2>5, <2>6 DEF FirstIs
<1>14. CASE SaveFails
  BY <1>14 DEF SaveFails, NothingClosing, PlaceInv
<1>15. CASE UNCHANGED vars
  BY <1>15 DEF vars
<1>16. QED
  BY <1>1, <1>2, <1>3, <1>4, <1>5, <1>6, <1>7, <1>8, <1>9, <1>10, <1>11, <1>12,
     <1>13, <1>14, <1>15
     DEF Next, Callers, Worker, Tick, FlushSteps

(* A recording's .jpg shows the first event of its .events.json.             *)
THEOREM SnapshotAlwaysFirst == Spec => []SnapshotShowsFirstEvent
<1>1. Init => SnapshotInv
  BY DEF Init, SnapshotInv
<1>2. SnapshotInv => SnapshotShowsFirstEvent
  BY DEF SnapshotInv, SnapshotShowsFirstEvent, FirstIs
<1>3. QED
  BY <1>1, <1>2, SnapshotStep, PlaceInvariant, PTL DEF Spec

-----------------------------------------------------------------------------
(* Every step keeps what EventRecorder believes of picam-recorder true, or   *)
(* puts it in doubt.                                                         *)
LEMMA DeviceStep == TypeOK /\ PlaceInv /\ DeviceAgrees /\ [Next]_vars => DeviceAgrees'
<1> SUFFICES ASSUME TypeOK, PlaceInv, DeviceAgrees, [Next]_vars PROVE DeviceAgrees'
  OBVIOUS
<1> USE DEF DeviceAgrees, PlaceInv, fields, locals, outside, history
<1>1. CASE Callers
  BY <1>1 DEF Callers, NotifyDetections, NotifyEmpty, StartManual, StopManual
<1>2. CASE Cancel \/ TimePasses \/ DeviceRestarts
  BY <1>2 DEF Cancel, TimePasses, DeviceRestarts
<1>3. CASE RunWake \/ RunTimer
  BY <1>3 DEF RunWake, RunTimer
<1>4. CASE RunDone
  BY <1>4 DEF RunDone, OnDone
<1>5. CASE DecideStart \/ DecideNoStart \/ CheckStop \/ CheckContinue
  BY <1>5 DEF DecideStart, DecideNoStart, CheckStop, CheckContinue
<1>6. CASE StartAnswered
  BY <1>6 DEF StartAnswered
<1>7. CASE StartReplyLost \/ StartUnreached
  BY <1>7 DEF StartReplyLost, StartUnreached
<1>8. CASE BeginRecording
  BY <1>8 DEF BeginRecording
<1>9. CASE StartFailed
  BY <1>9 DEF StartFailed
<1>10. CASE Flush
  BY <1>10 DEF Flush, ResetSession
<1>11. CASE StopReached \/ StopUnreached
  BY <1>11 DEF StopReached, StopUnreached
<1>12. CASE SaveEvents \/ SaveFails
  BY <1>12 DEF SaveEvents, SaveFails, AfterFlush
<1>13. CASE UNCHANGED vars
  BY <1>13 DEF vars
<1>14. QED
  BY <1>1, <1>2, <1>3, <1>4, <1>5, <1>6, <1>7, <1>8, <1>9, <1>10, <1>11, <1>12,
     <1>13
     DEF Next, Worker, Tick, FlushSteps

(* Outside its calls, and unless one of them is in doubt, picam-recorder is  *)
(* recording when and what EventRecorder believes.                           *)
THEOREM DeviceAlwaysAgrees == Spec => []DeviceAgrees
<1>1. Init => DeviceAgrees
  BY DEF Init, DeviceAgrees
<1>2. QED
  BY <1>1, DeviceStep, PlaceInvariant, PTL DEF Spec
=============================================================================
