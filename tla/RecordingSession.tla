-------------------------- MODULE RecordingSession --------------------------
(***************************************************************************)
(* What picam-orchestrator promises about detection events and recordings, *)
(* with no threads, locks, wake-ups, timers or remote calls.               *)
(*                                                                         *)
(* One recording session at a time is open.  Events reported to it are     *)
(* kept in a log, in the order of their reports.  Closing the session      *)
(* hands the whole log over to the recording's archive file in one step;   *)
(* what is reported from then on belongs to the next session.  A session   *)
(* that cannot be opened drops what was logged for it, and so does an      *)
(* archive that cannot be written.  Nothing else may touch an event.       *)
(*                                                                         *)
(* EventRecorder.tla implements this specification.                        *)
(***************************************************************************)
EXTENDS RecordingNames

VARIABLES
    file,         \* the open session's recording, or None
    log,          \* events reported and not yet handed over
    closing,      \* [file, events] handed over and not yet archived
    archive,      \* archive[f]: the events archived for recording f
    dropped,      \* events given up
    reported      \* number of events reported; event n is the n-th

sessionVars == <<file, log, closing, archive, dropped, reported>>

Init ==
    /\ file = None
    /\ log = <<>>
    /\ closing = NothingClosing
    /\ archive = [f \in Files |-> <<>>]
    /\ dropped = {}
    /\ reported = 0

\* An event is reported.
Report ==
    /\ reported < MaxEvents
    /\ reported' = reported + 1
    /\ log' = Append(log, reported + 1)
    /\ UNCHANGED <<file, closing, archive, dropped>>

\* A session opens, on a recording that has no archive yet and none on the
\* way; the events that led to it are already in its log.
Open ==
    /\ file = None
    /\ file' \in {f \in Files \ {closing.file} : archive[f] = <<>>}
    /\ UNCHANGED <<log, closing, archive, dropped, reported>>

\* The session could not be opened: what was logged for it is given up.
Abandon ==
    /\ file = None
    /\ log' = <<>>
    /\ dropped' = dropped \union Range(log)
    /\ UNCHANGED <<file, closing, archive, reported>>

\* The session ends and hands its whole log over, all at once.
Close ==
    /\ file # None
    /\ closing = NothingClosing
    /\ closing' = [file |-> file, events |-> log]
    /\ file' = None
    /\ log' = <<>>
    /\ UNCHANGED <<archive, dropped, reported>>

\* The closed session's log is archived under its recording.
Archive ==
    /\ closing # NothingClosing
    /\ archive' = [archive EXCEPT ![closing.file] = closing.events]
    /\ closing' = NothingClosing
    /\ UNCHANGED <<file, log, dropped, reported>>

\* The closed session's log could not be written.
LoseArchive ==
    /\ closing # NothingClosing
    /\ dropped' = dropped \union Range(closing.events)
    /\ closing' = NothingClosing
    /\ UNCHANGED <<file, log, archive, reported>>

Next == Report \/ Open \/ Abandon \/ Close \/ Archive \/ LoseArchive

Spec == Init /\ [][Next]_sessionVars

-----------------------------------------------------------------------------
TypeOK ==
    /\ file \in Files \union {None}
    /\ log \in Seq(Event)
    /\ closing \in [file : Files \union {None}, events : Seq(Event)]
    /\ archive \in [Files -> Seq(Event)]
    /\ dropped \subseteq Event
    /\ reported \in 0..MaxEvents

\* Every place an event can be in.
Archived == UNION {Range(archive[f]) : f \in Files}

(* Every event reported is in exactly one place: still logged, being handed *)
(* over, archived under exactly one recording, or given up; and no event    *)
(* is anywhere that was not reported.                                       *)
Conserved ==
    /\ Range(log) \union Range(closing.events) \union Archived \union dropped
         = 1..reported
    /\ Range(log) \intersect Range(closing.events) = {}
    /\ Range(log) \intersect Archived = {}
    /\ Range(log) \intersect dropped = {}
    /\ Range(closing.events) \intersect Archived = {}
    /\ Range(closing.events) \intersect dropped = {}
    /\ Archived \intersect dropped = {}
    /\ \A f, g \in Files :
          f # g => Range(archive[f]) \intersect Range(archive[g]) = {}

(* No log holds an event twice or out of the order the events came in, and  *)
(* whatever is still in memory came after everything handed over.           *)
InOrder ==
    /\ Chronological(log)
    /\ Chronological(closing.events)
    /\ \A f \in Files : Chronological(archive[f])
    /\ \A e \in Range(closing.events), l \in Range(log) : e < l
    /\ \A e \in Archived, l \in Range(log) \union Range(closing.events) : e < l
=============================================================================
