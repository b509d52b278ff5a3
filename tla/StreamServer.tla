----------------------------- MODULE StreamServer -----------------------------
(***************************************************************************)
(* internal/streamsrv, the GET /stream part, with the main loop that       *)
(* broadcasts to the viewers and the shutdown of the process: a handler    *)
(* goroutine per viewer, a copy-on-write list of clients that registration *)
(* rebuilds under a lock and everybody else reads without one, a bounded   *)
(* queue per client, and Stop, which waits for the handlers up to a        *)
(* deadline and then marks every listed client dead.                       *)
(*                                                                         *)
(* One stream stands for the three: they share only the cap.  A viewer in  *)
(* Stuck keeps its connection open and never reads, so a write to it never *)
(* ends.  Each member of Viewers is one connection, used for one request.  *)
(***************************************************************************)
EXTENDS Integers, FiniteSets

CONSTANTS
    Viewers, Stuck,
    MaxClients,      \* cfg.MaxClients, 50 in the code
    QueueCap         \* capacity of sendCh, 8 in the code

ASSUME StuckAreViewers == Stuck \subseteq Viewers
ASSUME StreamBounds == MaxClients \in Nat \ {0} /\ QueueCap \in Nat \ {0}

VARIABLES
    hpc,             \* where each viewer's handler is
    alive, queue,    \* its Client: alive, and the length of sendCh
    hungUp,          \* the viewer has closed the connection
    fresh,           \* the list registerClient has built under registerMu
    clients,         \* the published list
    phase,           \* the main goroutine
    toMark,          \* what is left of the list Stop loaded
    raced            \* history: another viewer was past the check at its own

handler == <<hpc, alive, queue, fresh, clients, raced>>
main == <<phase, toMark>>
streamVars == <<handler, main, hungUp>>

Phases == {"up", "cancelled", "stopping", "marking", "waiting", "exited"}
Registered == {v \in Viewers : hpc[v] \in {"serving", "writing"}}
Live == {v \in clients : alive[v]}

StreamInit ==
    /\ hpc = [v \in Viewers |-> "away"] /\ alive = [v \in Viewers |-> FALSE]
    /\ queue = [v \in Viewers |-> 0] /\ hungUp = [v \in Viewers |-> FALSE]
    /\ fresh = [v \in Viewers |-> {}] /\ clients = {}
    /\ phase = "up" /\ toMark = {} /\ raced = {}

-----------------------------------------------------------------------------
(* handleStream and registerClient *)

\* Bad: one more viewer than the cap (CapOnlyByRace).
BadHasRoom == Cardinality(Live) <= MaxClients
HasRoom == Cardinality(Live) < MaxClients

\* The check of the cap; a viewer beyond it is sent away with a 503.
Request(v) ==
    /\ phase /= "exited" /\ hpc[v] = "away" /\ ~hungUp[v]
    /\ hpc' = [hpc EXCEPT ![v] = IF HasRoom THEN "passed" ELSE "gone"]
    /\ raced' = IF HasRoom /\ \E w \in Viewers : hpc[w] \in {"passed", "registering"}
                THEN raced \union {v} ELSE raced
    /\ UNCHANGED <<alive, queue, fresh, clients, main, hungUp>>

\* Bad: the list is built before the lock is taken (NoViewerUnlisted).
BadLockFree == TRUE
LockFree == \A w \in Viewers : hpc[w] /= "registering"

Build(v) ==
    /\ phase /= "exited" /\ hpc[v] = "passed" /\ LockFree
    /\ hpc' = [hpc EXCEPT ![v] = "registering"]
    /\ alive' = [alive EXCEPT ![v] = TRUE]
    /\ fresh' = [fresh EXCEPT ![v] = Live \union {v}]
    /\ UNCHANGED <<queue, clients, raced, main, hungUp>>

Publish(v) ==
    /\ phase /= "exited" /\ hpc[v] = "registering"
    /\ hpc' = [hpc EXCEPT ![v] = "serving"]
    /\ clients' = fresh[v] /\ fresh' = [fresh EXCEPT ![v] = {}]
    /\ UNCHANGED <<alive, queue, raced, main, hungUp>>

\* A frame from sendCh; select takes it or any other case that is ready.
Take(v) ==
    /\ phase /= "exited" /\ hpc[v] = "serving" /\ queue[v] > 0
    /\ hpc' = [hpc EXCEPT ![v] = "writing"]
    /\ queue' = [queue EXCEPT ![v] = @ - 1]
    /\ UNCHANGED <<alive, fresh, clients, raced, main, hungUp>>

Written(v) ==
    /\ phase /= "exited" /\ hpc[v] = "writing" /\ v \notin Stuck
    /\ hpc' = [hpc EXCEPT ![v] = "serving"]
    /\ UNCHANGED <<alive, queue, fresh, clients, raced, main, hungUp>>

\* markDead; after Stop has called it, nothing changes.
\* Bad: the return after a failed write does without it (NoGhostViewer).
BadMarkedDead(v) == IF hpc[v] = "writing" THEN alive ELSE [alive EXCEPT ![v] = FALSE]
MarkedDead(v) == [alive EXCEPT ![v] = FALSE]

\* The write fails, the request's context ends, or Stop has marked the client.
Leave(v) ==
    /\ phase /= "exited"
    /\ \/ hungUp[v] /\ v \in Registered
       \/ ~alive[v] /\ hpc[v] = "serving"
    /\ hpc' = [hpc EXCEPT ![v] = "gone"]
    /\ alive' = MarkedDead(v) /\ queue' = [queue EXCEPT ![v] = 0]
    /\ hungUp' = [hungUp EXCEPT ![v] = FALSE] /\ raced' = raced \ {v}
    /\ UNCHANGED <<fresh, clients, main>>

HangUp(v) ==
    /\ phase /= "exited" /\ hpc[v] \notin {"away", "gone"} /\ ~hungUp[v]
    /\ hungUp' = [hungUp EXCEPT ![v] = TRUE] /\ UNCHANGED <<handler, main>>

-----------------------------------------------------------------------------
(* The main goroutine *)

\* Bad: Broadcast waits for room in every queue (SlowViewerHarmless).
BadCanSend == \A v \in Live : queue[v] < QueueCap
CanSend == TRUE

HasSpace(v) == queue[v] < QueueCap

\* A frame that does not fit is dropped.
Broadcast ==
    /\ phase \in {"up", "cancelled"} /\ CanSend
    /\ queue' = [v \in Viewers |-> IF v \in Live /\ HasSpace(v)
                                   THEN queue[v] + 1 ELSE queue[v]]
    /\ UNCHANGED <<hpc, alive, fresh, clients, raced, main, hungUp>>

Cancel ==
    /\ phase = "up" /\ phase' = "cancelled"
    /\ UNCHANGED <<handler, toMark, hungUp>>

\* runMainLoop returns, and main calls Stop.
LoopEnds ==
    /\ phase = "cancelled" /\ phase' = "stopping"
    /\ UNCHANGED <<handler, toMark, hungUp>>

\* Bad: Shutdown is called without its deadline (ShutdownEnds).
BadShutdownReturns == \A v \in Viewers : hpc[v] \in {"away", "gone"}
\* All handlers have ended, or the 5 s are over: always possible.
ShutdownReturns == TRUE

\* Shutdown is over, and Stop loads the list of those to mark.
StopLoads ==
    /\ phase = "stopping" /\ ShutdownReturns
    /\ phase' = "marking" /\ toMark' = clients
    /\ UNCHANGED <<handler, hungUp>>

Mark(v) ==
    /\ phase = "marking" /\ v \in toMark /\ toMark' = toMark \ {v}
    /\ alive' = MarkedDead(v)
    /\ UNCHANGED <<hpc, queue, fresh, clients, raced, phase, hungUp>>

\* Stop returns; main waits for the receivers and the background goroutines,
\* which end on their own, not for the handlers.
StopReturns ==
    /\ phase = "marking" /\ toMark = {} /\ phase' = "waiting"
    /\ UNCHANGED <<handler, toMark, hungUp>>
Exit ==
    /\ phase = "waiting" /\ phase' = "exited"
    /\ UNCHANGED <<handler, toMark, hungUp>>

Handle(v) == Build(v) \/ Publish(v) \/ Take(v) \/ Written(v) \/ Leave(v)
StopStep == LoopEnds \/ StopLoads \/ (\E v \in Viewers : Mark(v)) \/ StopReturns \/ Exit

StreamNext ==
    \/ \E v \in Viewers : Request(v) \/ Handle(v) \/ HangUp(v)
    \/ Broadcast \/ Cancel \/ StopStep

\* The Go scheduler runs every goroutine that can run, and picam-raw's frames
\* keep coming.  Nobody owes a request, a hang-up or a cancellation.
StreamFairness ==
    /\ WF_streamVars(Broadcast) /\ WF_streamVars(StopStep)
    /\ \A v \in Viewers : WF_streamVars(Handle(v))

StreamSpec == StreamInit /\ [][StreamNext]_streamVars /\ StreamFairness

-----------------------------------------------------------------------------
StreamTypeOK ==
    /\ hpc \in [Viewers -> {"away", "passed", "registering", "serving",
                            "writing", "gone"}]
    /\ alive \in [Viewers -> BOOLEAN] /\ queue \in [Viewers -> 0..QueueCap]
    /\ hungUp \in [Viewers -> BOOLEAN] /\ fresh \in [Viewers -> SUBSET Viewers]
    /\ clients \subseteq Viewers /\ phase \in Phases
    /\ toMark \subseteq Viewers /\ raced \subseteq Viewers

(* Every living viewer that is being served is in the published list, so   *)
(* that broadcasts, the cap and Stop see it: no registration is lost to    *)
(* another one that runs at the same time.                                 *)
NoViewerUnlisted == \A v \in Registered : alive[v] => v \in clients

(* Every place of the cap is held by a viewer whose handler is in its      *)
(* loop, or was marked dead on its way out: whichever return of            *)
(* handleStream a handler takes, and whatever list a registration that     *)
(* ran beside it publishes afterwards, nobody who has gone counts against  *)
(* those who come.                                                         *)
NoGhostViewer == Live \subseteq Registered

(* The cap is checked before the lock of the registration is taken.  The   *)
(* viewers beyond it are at most those that were let in while another one  *)
(* was between its check and its place in the list.                        *)
CapOnlyByRace ==
    Cardinality(Live) <= MaxClients + Cardinality(raced \intersect Live)

(* A viewer that reads is sent frames for as long as the loop runs and it  *)
(* is served, whatever a viewer that does not read makes of its queue.     *)
SlowViewerHarmless ==
    \A v \in Viewers \ Stuck :
        []<>(hpc[v] = "writing" \/ v \notin Registered \/ phase /= "up")

(* Once cancelled, the process ends, though a viewer that never reads      *)
(* keeps its handler from returning, and though one that registers late is *)
(* not marked by Stop.                                                     *)
ShutdownEnds == phase = "cancelled" ~> phase = "exited"
=============================================================================
