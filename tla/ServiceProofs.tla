------------------------------ MODULE ServiceProofs -----------------------------
(***************************************************************************)
(* Proofs about StreamServer, CameraControl and the two side by side, for  *)
(* any number of viewers, any cap and any capacity of the queues, for any  *)
(* number of handlers of GET /camera and any index that picam-raw refuses. *)
(* Of the viewers: types, that the copy-on-write list of clients loses     *)
(* nobody and keeps nobody who has gone, and that the cap is exceeded only *)
(* by racing requests.  Of the cameras: types, that the user's choice      *)
(* stays in force, and that automatic switches are spaced.                 *)
(*                                                                         *)
(* The proofs about one component need no fairness.  They are about the    *)
(* steps of the component alone, so that they hold of StreamSpec and       *)
(* CameraSpec and, by projection, of Service.                              *)
(***************************************************************************)
EXTENDS Service, FiniteSetTheorems, TLAPS

StreamSafety == StreamInit /\ [][StreamNext]_streamVars
CameraSafety == CameraInit /\ [][CameraNext]_camVars

(* Types hold at the start.  newClient and New give every field a value.   *)
LEMMA StreamTypeInit == StreamInit => StreamTypeOK
  BY StreamBounds DEF StreamInit, StreamTypeOK, Phases

(* A step of a viewer's handler, or of the viewer, keeps the types.        *)
LEMMA StreamTypeHandler ==
  ASSUME StreamTypeOK, NEW v \in Viewers, Request(v) \/ Handle(v) \/ HangUp(v)
  PROVE  StreamTypeOK'
<1>1. CASE Request(v)
  <2>1. hpc' \in [Viewers -> {"away", "passed", "registering", "serving",
                              "writing", "gone"}]
    BY <1>1 DEF StreamTypeOK, Request
  <2>2. raced' \subseteq Viewers
    BY <1>1 DEF StreamTypeOK, Request
  <2> QED BY <1>1, <2>1, <2>2 DEF StreamTypeOK, Request, main, Phases
<1>2. CASE Build(v)
  BY <1>2 DEF StreamTypeOK, Build, main, Phases, Live
<1>3. CASE Publish(v)
  BY <1>3 DEF StreamTypeOK, Publish, main, Phases
<1>4. CASE Take(v)
  <2>1. queue' \in [Viewers -> 0..QueueCap]
    BY <1>4, StreamBounds DEF StreamTypeOK, Take
  <2> QED BY <1>4, <2>1 DEF StreamTypeOK, Take, main, Phases
<1>5. CASE Written(v)
  BY <1>5 DEF StreamTypeOK, Written, main, Phases
<1>6. CASE Leave(v)
  <2>1. queue' \in [Viewers -> 0..QueueCap]
    BY <1>6, StreamBounds DEF StreamTypeOK, Leave
  <2> QED BY <1>6, <2>1 DEF StreamTypeOK, Leave, MarkedDead, main, Phases
<1>7. CASE HangUp(v)
  BY <1>7 DEF StreamTypeOK, HangUp, handler, main, Phases
<1> QED BY <1>1, <1>2, <1>3, <1>4, <1>5, <1>6, <1>7 DEF Handle

(* A broadcast keeps the types: a frame is queued only where there is room.*)
LEMMA StreamTypeBroadcast ==
  ASSUME StreamTypeOK, Broadcast
  PROVE  StreamTypeOK'
<1>1. \A v \in Viewers : HasSpace(v) => queue[v] + 1 \in 0..QueueCap
  BY StreamBounds DEF StreamTypeOK, HasSpace
<1>2. queue' \in [Viewers -> 0..QueueCap]
  BY <1>1 DEF StreamTypeOK, Broadcast
<1> QED BY <1>2 DEF StreamTypeOK, Broadcast, main, Phases

(* Shutdown keeps the types.                                               *)
LEMMA StreamTypeStop ==
  ASSUME StreamTypeOK, Cancel \/ StopStep
  PROVE  StreamTypeOK'
<1>1. CASE Cancel
  BY <1>1 DEF StreamTypeOK, Cancel, handler, Phases
<1>2. CASE LoopEnds
  BY <1>2 DEF StreamTypeOK, LoopEnds, handler, Phases
<1>3. CASE StopLoads
  BY <1>3 DEF StreamTypeOK, StopLoads, handler, Phases
<1>4. ASSUME NEW v \in Viewers, Mark(v) PROVE StreamTypeOK'
  BY <1>4 DEF StreamTypeOK, Mark, MarkedDead, Phases
<1>5. CASE StopReturns
  BY <1>5 DEF StreamTypeOK, StopReturns, handler, Phases
<1>6. CASE Exit
  BY <1>6 DEF StreamTypeOK, Exit, handler, Phases
<1> QED BY <1>1, <1>2, <1>3, <1>4, <1>5, <1>6 DEF StopStep

(* Every variable keeps its type; no queue grows past its capacity.        *)
THEOREM StreamTypeCorrect == StreamSafety => []StreamTypeOK
<1>1. StreamTypeOK /\ [StreamNext]_streamVars => StreamTypeOK'
  <2> SUFFICES ASSUME StreamTypeOK, [StreamNext]_streamVars PROVE StreamTypeOK'
    OBVIOUS
  <2>1. CASE UNCHANGED streamVars
    BY <2>1 DEF StreamTypeOK, streamVars, handler, main, Phases
  <2>2. CASE StreamNext
    BY <2>2, StreamTypeHandler, StreamTypeBroadcast, StreamTypeStop DEF StreamNext
  <2> QED BY <2>1, <2>2
<1> QED BY StreamTypeInit, <1>1, PTL DEF StreamSafety

-----------------------------------------------------------------------------
(* The list that a registration is about to publish holds the new client   *)
(* and every living one, and there is one registration at a time.          *)
FreshComplete ==
    \A v \in Viewers :
       hpc[v] = "registering" => v \in fresh[v] /\ Live \subseteq fresh[v]
OneRegisters ==
    \A v, w \in Viewers :
       hpc[v] = "registering" /\ hpc[w] = "registering" => v = w
Listing == StreamTypeOK /\ NoViewerUnlisted /\ FreshComplete /\ OneRegisters

(* A step that leaves the list, the lists being built and the set of       *)
(* registering viewers alone, serves nobody new and revives nobody, keeps  *)
(* the invariant.                                                          *)
LEMMA NothingListed ==
  ASSUME Listing, StreamTypeOK', UNCHANGED <<clients, fresh>>,
         \A w \in Viewers : hpc'[w] = "registering" => hpc[w] = "registering",
         Registered' \subseteq Registered,
         \A w \in Viewers : alive'[w] => alive[w]
  PROVE  Listing'
<1>1. Live' \subseteq Live
  BY DEF Listing, StreamTypeOK, Live
<1>2. NoViewerUnlisted'
  BY DEF Listing, NoViewerUnlisted, Registered
<1>3. FreshComplete'
  BY <1>1 DEF Listing, FreshComplete
<1>4. OneRegisters'
  BY DEF Listing, OneRegisters
<1> QED BY <1>2, <1>3, <1>4 DEF Listing

(* registerClient builds its list under the lock.                          *)
LEMMA BuildLists ==
  ASSUME Listing, StreamTypeOK', NEW v \in Viewers, Build(v)
  PROVE  Listing'
<1>1. /\ \A w \in Viewers : hpc[w] /= "registering"
      /\ \A w \in Viewers : hpc'[w] = IF w = v THEN "registering" ELSE hpc[w]
      /\ \A w \in Viewers : alive'[w] = IF w = v THEN TRUE ELSE alive[w]
      /\ fresh'[v] = Live \union {v} /\ clients' = clients
  BY DEF Listing, StreamTypeOK, Build, LockFree
<1>2. NoViewerUnlisted'
  BY <1>1 DEF Listing, StreamTypeOK, NoViewerUnlisted, Registered
<1>3. Live' \subseteq Live \union {v}
  BY <1>1 DEF Listing, StreamTypeOK, Live
<1>4. FreshComplete'
  BY <1>1, <1>3 DEF FreshComplete
<1>5. OneRegisters'
  BY <1>1 DEF OneRegisters
<1> QED BY <1>2, <1>4, <1>5 DEF Listing

(* It publishes it before it lets go of the lock.                          *)
LEMMA PublishLists ==
  ASSUME Listing, StreamTypeOK', NEW v \in Viewers, Publish(v)
  PROVE  Listing'
<1>1. /\ hpc[v] = "registering" /\ clients' = fresh[v] /\ alive' = alive
      /\ \A w \in Viewers : hpc'[w] = IF w = v THEN "serving" ELSE hpc[w]
  BY DEF Listing, StreamTypeOK, Publish
<1>2. \A w \in Viewers : hpc'[w] /= "registering"
  BY <1>1 DEF Listing, OneRegisters
<1>3. v \in fresh[v] /\ Live \subseteq fresh[v]
  BY <1>1 DEF Listing, FreshComplete
<1>4. ASSUME NEW w \in Registered', alive'[w] PROVE w \in clients'
  <2>1. w \in Viewers
    BY DEF Registered
  <2>2. CASE w = v
    BY <1>1, <1>3, <2>2
  <2>3. CASE w /= v
    <3>1. w \in Registered /\ alive[w]
      BY <1>1, <1>4, <2>1, <2>3 DEF Registered
    <3>2. w \in Live
      BY <3>1 DEF Listing, NoViewerUnlisted, Live
    <3> QED BY <1>1, <1>3, <3>2
  <2> QED BY <2>2, <2>3
<1>5. NoViewerUnlisted'
  BY <1>4 DEF NoViewerUnlisted
<1>6. FreshComplete' /\ OneRegisters'
  BY <1>2 DEF FreshComplete, OneRegisters
<1> QED BY <1>5, <1>6 DEF Listing

(* Every other step of a handler or a viewer lists and revives nobody.     *)
LEMMA HandlersList ==
  ASSUME Listing, StreamTypeOK', NEW v \in Viewers,
         Request(v) \/ Take(v) \/ Written(v) \/ Leave(v) \/ HangUp(v)
  PROVE  Listing'
<1>1. CASE Request(v)
  BY <1>1, NothingListed DEF Listing, StreamTypeOK, Request, Registered
<1>2. CASE Take(v)
  BY <1>2, NothingListed DEF Listing, StreamTypeOK, Take, Registered
<1>3. CASE Written(v)
  BY <1>3, NothingListed DEF Listing, StreamTypeOK, Written, Registered
<1>4. CASE Leave(v)
  BY <1>4, NothingListed DEF Listing, StreamTypeOK, Leave, MarkedDead, Registered
<1>5. CASE HangUp(v)
  BY <1>5, NothingListed DEF HangUp, handler, Registered
<1> QED BY <1>1, <1>2, <1>3, <1>4, <1>5

(* Neither does the main goroutine.                                        *)
LEMMA MainLists ==
  ASSUME Listing, StreamTypeOK', Broadcast \/ Cancel \/ StopStep
  PROVE  Listing'
<1>1. CASE Broadcast
  BY <1>1, NothingListed DEF Broadcast, Registered
<1>2. CASE Cancel \/ LoopEnds \/ StopLoads \/ StopReturns \/ Exit
  BY <1>2, NothingListed
     DEF Cancel, LoopEnds, StopLoads, StopReturns, Exit, handler, Registered
<1>3. ASSUME NEW v \in Viewers, Mark(v) PROVE Listing'
  BY <1>3, NothingListed DEF Listing, StreamTypeOK, Mark, MarkedDead, Registered
<1> QED BY <1>1, <1>2, <1>3 DEF StopStep

(* Every step keeps the list complete.                                     *)
LEMMA ListingStep ==
  ASSUME Listing, StreamTypeOK', [StreamNext]_streamVars
  PROVE  Listing'
<1>1. CASE UNCHANGED streamVars
  BY <1>1 DEF streamVars, handler, main, Listing, NoViewerUnlisted,
              FreshComplete, OneRegisters, Registered, Live
<1>2. CASE StreamNext
  BY <1>2, BuildLists, PublishLists, HandlersList, MainLists
     DEF StreamNext, Handle
<1> QED BY <1>1, <1>2

(* No viewer that is served and alive is ever missing from the published   *)
(* list, whatever registrations, departures and Stop interleave: the lock  *)
(* held from the load of the list to its publication suffices, although    *)
(* readers and markDead take none.                                         *)
THEOREM NobodyUnlisted == StreamSafety => []NoViewerUnlisted
<1>1. StreamInit => Listing
  BY StreamTypeInit DEF StreamInit, Listing, NoViewerUnlisted, FreshComplete,
                  OneRegisters, Registered
<1>2. Listing /\ StreamTypeOK' /\ [StreamNext]_streamVars => Listing'
  BY ListingStep
<1>3. Listing => NoViewerUnlisted
  BY DEF Listing
<1> QED BY <1>1, <1>2, <1>3, StreamTypeCorrect, PTL DEF StreamSafety

-----------------------------------------------------------------------------
(* A handler that has entered its loop, whether or not it has left it.     *)
Entered == {v \in Viewers : hpc[v] \in {"serving", "writing", "gone"}}

(* Nobody is listed before its handler enters the loop, which is what      *)
(* publishes it, and nobody is alive after it has left; a list being built *)
(* names, beside the one that builds it, only those that have entered.     *)
Placed ==
    /\ clients \subseteq Entered
    /\ \A v \in Viewers : alive[v] => hpc[v] = "registering" \/ v \in Registered
    /\ \A v \in Viewers : hpc[v] = "registering" => fresh[v] \subseteq Entered \union {v}

(* A step that lists nobody, starts no registration, revives nobody and    *)
(* lets nobody out of its loop alive keeps the places.                     *)
LEMMA NoPlaceTaken ==
  ASSUME Placed, StreamTypeOK, UNCHANGED <<clients, fresh>>, Entered \subseteq Entered',
         \A w \in Viewers : hpc'[w] = "registering" => hpc[w] = "registering",
         \A w \in Viewers : alive'[w] => alive[w] /\ (w \in Registered' \/ hpc'[w] = hpc[w])
  PROVE  Placed'
<1>1. clients' \subseteq Entered'
  BY DEF Placed
<1>2. \A w \in Viewers : alive'[w] => hpc'[w] = "registering" \/ w \in Registered'
  BY DEF Placed, Registered
<1>3. \A w \in Viewers : hpc'[w] = "registering" => fresh'[w] \subseteq Entered' \union {w}
  BY DEF Placed
<1> QED BY <1>1, <1>2, <1>3 DEF Placed

(* registerClient lists the new client and those that have entered before, *)
(* and its handler enters the loop as the list is published.               *)
LEMMA RegistrationPlaces ==
  ASSUME Placed, StreamTypeOK, NEW v \in Viewers, Build(v) \/ Publish(v)
  PROVE  Placed'
<1>1. CASE Build(v)
  <2>1. /\ hpc[v] = "passed" /\ clients' = clients
        /\ \A w \in Viewers : hpc'[w] = IF w = v THEN "registering" ELSE hpc[w]
        /\ \A w \in Viewers : alive'[w] = IF w = v THEN TRUE ELSE alive[w]
        /\ \A w \in Viewers : fresh'[w] = IF w = v THEN Live \union {v} ELSE fresh[w]
    BY <1>1 DEF StreamTypeOK, Build
  <2>2. Entered' = Entered /\ Registered' = Registered
    BY <2>1 DEF Entered, Registered
  <2>3. Live \subseteq Entered
    BY DEF Placed, Live
  <2> QED BY <2>1, <2>2, <2>3 DEF Placed
<1>2. CASE Publish(v)
  <2>1. /\ hpc[v] = "registering" /\ clients' = fresh[v] /\ alive' = alive
        /\ \A w \in Viewers : hpc'[w] = IF w = v THEN "serving" ELSE hpc[w]
        /\ \A w \in Viewers : w /= v => fresh'[w] = fresh[w]
    BY <1>2 DEF StreamTypeOK, Publish
  <2>2. Entered' = Entered \union {v} /\ Registered' = Registered \union {v}
    BY <2>1 DEF Entered, Registered
  <2> QED BY <2>1, <2>2 DEF Placed
<1> QED BY <1>1, <1>2

(* Every step keeps the places: the returns of handleStream mark the       *)
(* client dead, except the one that finds it marked.                       *)
LEMMA PlacedStep ==
  ASSUME Placed, StreamTypeOK, [StreamNext]_streamVars
  PROVE  Placed'
<1>1. CASE UNCHANGED streamVars
  BY <1>1 DEF streamVars, handler, Placed, Entered, Registered
<1>2. ASSUME NEW v \in Viewers, Request(v) PROVE Placed'
  <2>1. /\ hpc[v] = "away" /\ UNCHANGED <<alive, clients, fresh>>
        /\ \A w \in Viewers : w /= v => hpc'[w] = hpc[w]
        /\ hpc'[v] \in {"passed", "gone"} /\ ~alive[v]
    BY <1>2 DEF StreamTypeOK, Request, Placed, Registered
  <2> QED BY <2>1, NoPlaceTaken DEF Entered
<1>3. ASSUME NEW v \in Viewers, Take(v) \/ Written(v) PROVE Placed'
  <2>1. /\ v \in Registered' /\ UNCHANGED <<alive, clients, fresh>>
        /\ \A w \in Viewers : w /= v => hpc'[w] = hpc[w]
    BY <1>3 DEF StreamTypeOK, Take, Written, Registered
  <2> QED BY <2>1, NoPlaceTaken DEF Entered, Registered
<1>4. ASSUME NEW v \in Viewers, Leave(v) PROVE Placed'
  <2>1. /\ hpc'[v] = "gone" /\ UNCHANGED <<clients, fresh>>
        /\ \A w \in Viewers : w /= v => hpc'[w] = hpc[w]
        /\ \A w \in Viewers : alive'[w] = IF w = v THEN FALSE ELSE alive[w]
    BY <1>4 DEF StreamTypeOK, Leave, MarkedDead
  <2> QED BY <2>1, NoPlaceTaken DEF Entered
<1>5. ASSUME NEW v \in Viewers, Mark(v) PROVE Placed'
  BY <1>5, NoPlaceTaken DEF StreamTypeOK, Mark, MarkedDead, Entered
<1>6. CASE Broadcast \/ Cancel \/ LoopEnds \/ StopLoads \/ StopReturns \/ Exit
           \/ \E v \in Viewers : HangUp(v)
  BY <1>6, NoPlaceTaken DEF Broadcast, Cancel, LoopEnds, StopLoads, StopReturns,
                            Exit, HangUp, handler, Entered
<1> QED BY <1>1, <1>2, <1>3, <1>4, <1>5, <1>6, RegistrationPlaces
        DEF StreamNext, Handle, StopStep

(* No viewer that has gone counts against the cap: whoever is listed and   *)
(* alive has its handler in its loop, although lists are built from a copy *)
(* read while other handlers leave, and Stop marks them from outside.      *)
THEOREM NoGhosts == StreamSafety => []NoGhostViewer
<1>1. StreamInit => Placed
  BY DEF StreamInit, Placed
<1>2. Placed /\ StreamTypeOK /\ [StreamNext]_streamVars => Placed'
  BY PlacedStep
<1>3. Placed /\ StreamTypeOK => NoGhostViewer
  BY DEF Placed, StreamTypeOK, NoGhostViewer, Live, Entered, Registered
<1> QED BY <1>1, <1>2, <1>3, StreamTypeCorrect, PTL DEF StreamSafety

-----------------------------------------------------------------------------
(* CapOnlyByRace.  The cap holds for the viewers that are living or on     *)
(* their way into the list, the raced ones left out: whoever gets in       *)
(* without having raced found nobody else on the way.                      *)
Passing == {v \in Viewers : hpc[v] \in {"passed", "registering"}}
Admitted == Live \union Passing
AdmittedInCap ==
    IsFiniteSet(Admitted) /\ Cardinality(Admitted \ raced) <= MaxClients

(* A list being built holds no living viewer that is not listed already,   *)
(* except the one that builds it.                                          *)
FreshSound ==
    \A v \in Viewers :
       hpc[v] = "registering" => {w \in fresh[v] : alive[w]} \subseteq Live \union {v}
Capping == Listing /\ FreshSound /\ AdmittedInCap

(* Letting nobody in, and forgetting no race of those inside, keeps the    *)
(* cap.                                                                    *)
LEMMA NobodyAdmitted ==
  ASSUME AdmittedInCap, Admitted' \subseteq Admitted,
         (Admitted \ raced)' \subseteq Admitted \ raced
  PROVE  AdmittedInCap'
<1>1. IsFiniteSet(Admitted')
  BY FS_Subset DEF AdmittedInCap
<1>2. IsFiniteSet(Admitted \ raced)
  BY FS_Subset DEF AdmittedInCap
<1>3. Cardinality((Admitted \ raced)') <= Cardinality(Admitted \ raced)
  BY <1>2, FS_Subset
<1>4. /\ Cardinality((Admitted \ raced)') \in Int
      /\ Cardinality(Admitted \ raced) \in Int
  <2>1. IsFiniteSet((Admitted \ raced)')
    BY <1>2, FS_Subset
  <2> QED BY <1>2, <2>1, FS_CardinalityType
<1> QED BY <1>1, <1>3, <1>4, StreamBounds DEF AdmittedInCap

(* The check of the cap: with nobody on the way the living are all there   *)
(* is to count, and with somebody on the way the newcomer has raced.       *)
LEMMA RequestInCap ==
  ASSUME Capping, NEW v \in Viewers, Request(v)
  PROVE  AdmittedInCap'
<1>t. StreamTypeOK
  BY DEF Capping, Listing
<1>1. Live' = Live
  BY DEF Request, Live
<1>2. CASE ~HasRoom
  <2>1. Passing' = Passing /\ raced' = raced
    BY <1>t, <1>2 DEF Request, Passing, StreamTypeOK
  <2> QED BY <1>1, <2>1 DEF Capping, AdmittedInCap, Admitted
<1>3. CASE HasRoom
  <2>1. Passing' = Passing \union {v}
    BY <1>t, <1>3 DEF Request, Passing, StreamTypeOK
  <2>2. Admitted' = Admitted \union {v}
    BY <1>1, <2>1 DEF Admitted
  <2>3. IsFiniteSet(Admitted')
    BY <2>2, FS_AddElement DEF Capping, AdmittedInCap
  <2>4. CASE Passing = {}
    <3>1. Admitted = Live /\ raced' = raced
      BY <1>3, <2>4 DEF Request, Passing, Admitted
    <3>2. IsFiniteSet(Live)
      BY <3>1 DEF Capping, AdmittedInCap
    <3>3. /\ Cardinality(Live \union {v}) <= Cardinality(Live) + 1
          /\ Cardinality(Live) \in Nat
          /\ IsFiniteSet(Live \union {v})
      <4>1. Cardinality(Live) \in Nat
        BY <3>2, FS_CardinalityType
      <4>2. /\ IsFiniteSet(Live \union {v})
            /\ Cardinality(Live \union {v}) =
                 IF v \in Live THEN Cardinality(Live) ELSE Cardinality(Live) + 1
        BY <3>2, FS_AddElement
      <4> QED BY <4>1, <4>2
    <3>4. Cardinality(Live) + 1 <= MaxClients
      BY <1>3, <3>3, StreamBounds DEF HasRoom
    <3>5. /\ Cardinality((Admitted \ raced)') <= Cardinality(Live \union {v})
          /\ IsFiniteSet((Admitted \ raced)')
      BY <2>2, <3>1, <3>3, FS_Subset
    <3>6. /\ Cardinality((Admitted \ raced)') \in Nat
          /\ Cardinality(Live \union {v}) \in Nat
      BY <3>3, <3>5, FS_CardinalityType
    <3> QED BY <2>3, <3>3, <3>4, <3>5, <3>6, StreamBounds DEF AdmittedInCap
  <2>5. CASE Passing /= {}
    <3>1. raced' = raced \union {v}
      BY <1>3, <2>5 DEF Request, Passing
    <3>2. (Admitted \ raced)' \subseteq Admitted \ raced
      BY <2>2, <3>1
    <3>3. IsFiniteSet(Admitted \ raced)
      BY FS_Subset DEF Capping, AdmittedInCap
    <3>4. /\ IsFiniteSet((Admitted \ raced)')
          /\ Cardinality((Admitted \ raced)') <= Cardinality(Admitted \ raced)
      BY <3>2, <3>3, FS_Subset
    <3>5. /\ Cardinality((Admitted \ raced)') \in Nat
          /\ Cardinality(Admitted \ raced) \in Nat
      BY <3>3, <3>4, FS_CardinalityType
    <3> QED BY <2>3, <3>4, <3>5, StreamBounds DEF Capping, AdmittedInCap
  <2> QED BY <2>4, <2>5
<1> QED BY <1>2, <1>3

(* A step that lets nobody on the way or into the list, revives nobody and *)
(* forgets no race but that of a viewer that has gone.                     *)
LEMMA NothingBuilt ==
  ASSUME Capping, UNCHANGED <<clients, fresh>>,
         \A w \in Viewers : hpc'[w] = "registering" => hpc[w] = "registering",
         \A w \in Viewers : hpc'[w] = "passed" => hpc[w] = "passed",
         \A w \in Viewers : alive'[w] => alive[w],
         \A w \in raced \ raced' : w \notin Admitted'
  PROVE  FreshSound' /\ AdmittedInCap'
<1>t. clients \subseteq Viewers /\ fresh \in [Viewers -> SUBSET Viewers]
  BY DEF Capping, Listing, StreamTypeOK
<1>1. Live' \subseteq Live
  BY <1>t DEF Live
<1>2. Passing' \subseteq Passing
  BY DEF Passing
<1>3. Admitted' \subseteq Admitted
  BY <1>1, <1>2 DEF Admitted
<1>4. (Admitted \ raced)' \subseteq Admitted \ raced
  BY <1>3
<1>5. FreshSound'
  BY <1>t DEF Capping, FreshSound, Live
<1> QED BY <1>3, <1>4, <1>5, NobodyAdmitted DEF Capping

(* registerClient keeps the cap: it lists nobody who was not on the way.   *)
LEMMA RegistrationInCap ==
  ASSUME Capping, NEW v \in Viewers, Build(v) \/ Publish(v)
  PROVE  FreshSound' /\ AdmittedInCap'
<1>t. StreamTypeOK
  BY DEF Capping, Listing
<1>1. CASE Build(v)
  <2>1. /\ \A w \in Viewers : hpc[w] # "registering"
        /\ hpc[v] = "passed" /\ clients' = clients /\ raced' = raced
        /\ \A w \in Viewers : hpc'[w] = IF w = v THEN "registering" ELSE hpc[w]
        /\ \A w \in Viewers : alive'[w] = IF w = v THEN TRUE ELSE alive[w]
        /\ fresh'[v] = Live \union {v}
    BY <1>t, <1>1 DEF StreamTypeOK, Build, LockFree
  <2>2. Live \subseteq Live' /\ Live' \subseteq Live \union {v}
    BY <1>t, <2>1 DEF StreamTypeOK, Live
  <2>3. Passing' = Passing /\ v \in Passing
    BY <2>1 DEF Passing
  <2>4. Admitted' = Admitted
    BY <2>2, <2>3 DEF Admitted
  <2>5. FreshSound'
    BY <2>1, <2>2 DEF FreshSound
  <2> QED BY <2>1, <2>4, <2>5 DEF Capping, AdmittedInCap
<1>2. CASE Publish(v)
  <2>1. /\ hpc[v] = "registering" /\ clients' = fresh[v]
        /\ alive' = alive /\ raced' = raced
        /\ \A w \in Viewers : hpc'[w] = IF w = v THEN "serving" ELSE hpc[w]
    BY <1>t, <1>2 DEF StreamTypeOK, Publish
  <2>2. \A w \in Viewers : hpc'[w] # "registering"
    BY <2>1 DEF Capping, Listing, OneRegisters
  <2>3. Live' \subseteq Live \union {v}
    BY <2>1 DEF Capping, FreshSound, Live
  <2>4. Passing' \subseteq Passing /\ v \in Passing
    BY <2>1 DEF Passing
  <2>5. Admitted' \subseteq Admitted
    BY <2>3, <2>4 DEF Admitted
  <2>6. FreshSound'
    BY <2>2 DEF FreshSound
  <2> QED BY <2>1, <2>5, <2>6, NobodyAdmitted DEF Capping
<1> QED BY <1>1, <1>2

(* So do the other steps of a handler or a viewer.                         *)
LEMMA HandlersInCap ==
  ASSUME Capping, NEW v \in Viewers,
         Request(v) \/ Take(v) \/ Written(v) \/ Leave(v) \/ HangUp(v)
  PROVE  FreshSound' /\ AdmittedInCap'
<1>t. StreamTypeOK
  BY DEF Capping, Listing
<1>1. CASE Request(v)
  <2>1. FreshSound'
    <3>1. \A w \in Viewers : hpc'[w] = "registering" => hpc[w] = "registering"
      BY <1>t, <1>1 DEF StreamTypeOK, Request
    <3>2. UNCHANGED <<alive, fresh, Live>>
      BY <1>1 DEF Request, Live
    <3> QED BY <3>1, <3>2 DEF Capping, FreshSound
  <2> QED BY <1>1, <2>1, RequestInCap
<1>2. CASE Take(v)
  BY <1>t, <1>2, NothingBuilt DEF StreamTypeOK, Take
<1>3. CASE Written(v)
  BY <1>t, <1>3, NothingBuilt DEF StreamTypeOK, Written
<1>4. CASE Leave(v)
  <2>1. /\ UNCHANGED <<clients, fresh>> /\ raced' = raced \ {v}
        /\ \A w \in Viewers : hpc'[w] = IF w = v THEN "gone" ELSE hpc[w]
        /\ \A w \in Viewers : alive'[w] = IF w = v THEN FALSE ELSE alive[w]
    BY <1>t, <1>4 DEF StreamTypeOK, Leave, MarkedDead
  <2>2. v \notin Admitted'
    BY <2>1 DEF Admitted, Live, Passing
  <2> QED BY <2>1, <2>2, NothingBuilt
<1>5. CASE HangUp(v)
  BY <1>5, NothingBuilt DEF HangUp, handler
<1> QED BY <1>1, <1>2, <1>3, <1>4, <1>5

(* And the main goroutine, which can only take viewers away.               *)
LEMMA MainInCap ==
  ASSUME Capping, Broadcast \/ Cancel \/ StopStep
  PROVE  FreshSound' /\ AdmittedInCap'
<1>1. CASE Broadcast
  BY <1>1, NothingBuilt DEF Broadcast
<1>2. CASE Cancel \/ LoopEnds \/ StopLoads \/ StopReturns \/ Exit
  BY <1>2, NothingBuilt
     DEF Cancel, LoopEnds, StopLoads, StopReturns, Exit, handler
<1>3. ASSUME NEW v \in Viewers, Mark(v) PROVE FreshSound' /\ AdmittedInCap'
  BY <1>3, NothingBuilt DEF Capping, Listing, StreamTypeOK, Mark, MarkedDead
<1> QED BY <1>1, <1>2, <1>3 DEF StopStep

(* Counting those inside: the ones that did not race are within the cap.   *)
LEMMA CapCounts ==
  ASSUME AdmittedInCap
  PROVE  CapOnlyByRace
<1>1. IsFiniteSet(Live)
  BY FS_Subset DEF AdmittedInCap, Admitted
<1>2. /\ Cardinality(Live \ raced) = Cardinality(Live) - Cardinality(Live \intersect raced)
      /\ IsFiniteSet(Live \ raced)
  BY <1>1, FS_Difference
<1>3. IsFiniteSet(Admitted \ raced) /\ Live \ raced \subseteq Admitted \ raced
  BY FS_Subset DEF AdmittedInCap, Admitted
<1>4. Cardinality(Live \ raced) <= Cardinality(Admitted \ raced)
  BY <1>3, FS_Subset
<1>5. /\ Cardinality(Live) \in Nat /\ Cardinality(Live \ raced) \in Nat
      /\ Cardinality(Admitted \ raced) \in Nat
      /\ Cardinality(Live \intersect raced) \in Nat
  <2>1. IsFiniteSet(Live \intersect raced)
    BY <1>1, FS_Intersection
  <2> QED BY <1>1, <1>2, <1>3, <2>1, FS_CardinalityType
<1>6. Cardinality(raced \intersect Live) = Cardinality(Live \intersect raced)
  <2>1. raced \intersect Live = Live \intersect raced
    OBVIOUS
  <2> QED BY <2>1
<1>7. Cardinality(Admitted \ raced) <= MaxClients
  BY DEF AdmittedInCap
<1>8. Cardinality(Live) <= MaxClients + Cardinality(Live \intersect raced)
  BY <1>2, <1>4, <1>5, <1>7, StreamBounds
<1> QED BY <1>6, <1>8 DEF CapOnlyByRace

(* There are never more living viewers in the list than the cap allows,    *)
(* beyond those that were let in while another one was between the check   *)
(* of the cap, which takes no lock, and its place in the list.             *)
THEOREM CapBrokenOnlyByRace == StreamSafety => []CapOnlyByRace
<1>1. StreamInit => Capping
  <2> SUFFICES ASSUME StreamInit PROVE Capping
    OBVIOUS
  <2>1. Listing
    BY StreamTypeInit DEF StreamInit, Listing, NoViewerUnlisted, FreshComplete,
                    OneRegisters, Registered
  <2>2. Admitted = {} /\ Admitted \ raced = {} /\ FreshSound
    BY DEF StreamInit, Admitted, Live, Passing, FreshSound
  <2> QED BY <2>1, <2>2, FS_EmptySet, StreamBounds DEF Capping, AdmittedInCap
<1>2. Capping /\ StreamTypeOK' /\ [StreamNext]_streamVars => Capping'
  <2> SUFFICES ASSUME Capping, StreamTypeOK', [StreamNext]_streamVars
               PROVE  Capping'
    OBVIOUS
  <2>1. Listing'
    BY ListingStep DEF Capping
  <2>2. CASE UNCHANGED streamVars
    BY <2>2, NothingBuilt, <2>1 DEF streamVars, handler, main, Capping
  <2>3. CASE StreamNext
    BY <2>1, <2>3, RegistrationInCap, HandlersInCap, MainInCap
       DEF StreamNext, Handle, Capping
  <2> QED BY <2>2, <2>3
<1>3. Capping => CapOnlyByRace
  BY CapCounts DEF Capping
<1> QED BY <1>1, <1>2, <1>3, StreamTypeCorrect, PTL DEF StreamSafety

-----------------------------------------------------------------------------
(* CameraControl *)

USE DEF Cameras, NoCameraPreference, Idle, Lights, Stories

(* What a command leaves behind is a camera.                               *)
LEMMA CommandKeepsType ==
  ASSUME camera \in Cameras, NEW id, NEW reached \in BOOLEAN,
         Command(id, reached)
  PROVE  camera' \in Cameras
  BY DEF Command

(* telemetry.Run and the world keep the types.                             *)
LEMMA CameraTypeWorld ==
  ASSUME CameraTypeOK,
         TelConnect \/ Report \/ TelBreak \/ LightChanges \/ RawRestarts
  PROVE  CameraTypeOK'
<1>1. CASE TelConnect \/ Report \/ TelBreak
  BY <1>1 DEF CameraTypeOK, TelConnect, Report, TelBreak, world, luxState,
              requests, reconcile
<1>2. CASE LightChanges \/ RawRestarts
  BY <1>2 DEF CameraTypeOK, LightChanges, RawRestarts, Disturb, luxState,
              requests, reconcile
<1> QED BY <1>1, <1>2

(* So does the light switch, which decides on a camera or on nothing.      *)
LEMMA CameraTypeLux ==
  ASSUME CameraTypeOK, NEW reached \in BOOLEAN,
         LuxDecides \/ LuxCommand(reached) \/ CooldownOver \/ SetLux
  PROVE  CameraTypeOK'
<1>1. CASE LuxDecides
  BY <1>1 DEF CameraTypeOK, LuxDecides, decideSwitch, world, requests, reconcile
<1>2. CASE LuxCommand(reached)
  BY <1>2, CommandKeepsType
     DEF CameraTypeOK, LuxCommand, Disturb, requests, reconcile
<1>3. CASE CooldownOver \/ SetLux
  BY <1>3 DEF CameraTypeOK, CooldownOver, SetLux, world, requests, reconcile
<1> QED BY <1>1, <1>2, <1>3

(* So do the handlers.                                                     *)
LEMMA CameraTypeHandler ==
  ASSUME CameraTypeOK, NEW h \in Handlers, NEW reached \in BOOLEAN,
         NEW id \in Cameras \union {BadCamera},
         Ask(h, id) \/ HandlerCommand(h, reached) \/ SetActiveCamera(h)
  PROVE  CameraTypeOK'
<1>1. CASE Ask(h, id)
  BY <1>1 DEF CameraTypeOK, Ask, Disturb, world, luxState, reconcile
<1>2. CASE HandlerCommand(h, reached)
  BY <1>2, CommandKeepsType
     DEF CameraTypeOK, HandlerCommand, Disturb, luxState, reconcile
<1>3. CASE SetActiveCamera(h)
  <2>1. pref' \in Cameras \union {NoCameraPreference, BadCamera}
    BY <1>3 DEF CameraTypeOK, SetActiveCamera, Saved
  <2> QED BY <1>3, <2>1 DEF CameraTypeOK, SetActiveCamera, world, luxState, reconcile
<1> QED BY <1>1, <1>2, <1>3

(* And so does the restore.                                                *)
LEMMA CameraTypeRestore ==
  ASSUME CameraTypeOK, NEW reached \in BOOLEAN,
         RecStart \/ RecTimeout \/ RecConnected \/ RecRead \/ RecCommand(reached)
  PROVE  CameraTypeOK'
<1>1. CASE RecStart \/ RecTimeout \/ RecConnected
  BY <1>1 DEF CameraTypeOK, RecStart, RecTimeout, RecConnected, Finish, Disturb,
              world, luxState, requests
<1>2. CASE RecRead
  BY <1>2 DEF CameraTypeOK, RecRead, Finish, world, luxState, requests
<1>3. CASE RecCommand(reached)
  BY <1>3, CommandKeepsType
     DEF CameraTypeOK, RecCommand, Finish, Disturb, luxState, requests
<1> QED BY <1>1, <1>2, <1>3

(* Every variable keeps its type: nobody sends, saves or restores anything *)
(* but a camera, an index some user asked for, or no preference.           *)
THEOREM CameraTypeCorrect == CameraSafety => []CameraTypeOK
<1>1. ASSUME CameraInit PROVE CameraTypeOK
  <2>1. /\ {luxOn, cooling, switched} \subseteq BOOLEAN
        /\ tel \in [connected : BOOLEAN, light : Lights, camera : Cameras]
    BY <1>1 DEF CameraInit
  <2>2. /\ cpc \in [Handlers -> {"idle", "command", "save"}]
        /\ asked \in [Handlers -> Cameras \union {BadCamera}]
    BY <1>1 DEF CameraInit
  <2>3. /\ {pref, recWant} \subseteq Cameras \union {NoCameraPreference, BadCamera}
        /\ luxWant \in Cameras \union {Idle}
        /\ camera \in Cameras /\ light \in Lights /\ story \in Stories
        /\ rec \in {"start", "waiting", "reading", "command", "done"}
    BY <1>1 DEF CameraInit
  <2> QED BY <2>1, <2>2, <2>3 DEF CameraTypeOK
<1>2. CameraTypeOK /\ [CameraNext]_camVars => CameraTypeOK'
  <2> SUFFICES ASSUME CameraTypeOK, [CameraNext]_camVars PROVE CameraTypeOK'
    OBVIOUS
  <2>1. CASE UNCHANGED camVars
    BY <2>1 DEF CameraTypeOK, camVars, world, luxState, requests, reconcile
  <2>2. CASE CameraNext
    <3>1. TRUE \in BOOLEAN /\ 0 \in Cameras \union {BadCamera}
      OBVIOUS
    <3> QED BY <2>2, <3>1, CameraTypeWorld, CameraTypeLux, CameraTypeHandler, CameraTypeRestore
            DEF CameraNext
  <2> QED BY <2>1, <2>2
<1> QED BY <1>1, <1>2, PTL DEF CameraSafety

-----------------------------------------------------------------------------
(* While nothing has disturbed the choices: a request under way is the     *)
(* only one and comes after the restore; once its command is done it is    *)
(* about to save the live camera, and before that the live camera is the   *)
(* saved one; a restore under way is about to set what is saved, and knows *)
(* the live camera as soon as telemetry has reported.                      *)
Undisturbed == story \in {"unreported", "plain"}
Choice ==
    Undisturbed =>
      /\ rec /= "done" => \A h \in Handlers : cpc[h] = "idle"
      /\ \A g, h \in Handlers : cpc[g] /= "idle" /\ cpc[h] /= "idle" => g = h
      /\ rec = "done" /\ (\A h \in Handlers : cpc[h] /= "save") =>
            pref \in {camera, NoCameraPreference}
      /\ \A h \in Handlers : cpc[h] = "save" => asked[h] = camera
      /\ rec \notin {"start", "done"} => recWant = pref /\ pref /= NoCameraPreference
      /\ rec /= "done" /\ story = "plain" => tel.camera = camera
      /\ rec = "command" => story = "plain"

(* The world disturbs the choice only by saying so.                        *)
LEMMA ChoiceWorld ==
  ASSUME Choice, CameraTypeOK,
         TelConnect \/ Report \/ TelBreak \/ LightChanges \/ RawRestarts
  PROVE  Choice'
<1>1. CASE TelConnect \/ TelBreak
  BY <1>1 DEF CameraTypeOK, Choice, Undisturbed, TelConnect, TelBreak, world,
              luxState, requests, reconcile
<1>2. CASE Report
  <2>1. tel'.camera = camera /\ UNCHANGED <<camera, cpc, asked, pref, rec, recWant>>
    BY <1>2 DEF CameraTypeOK, Report, world, requests, reconcile
  <2>2. story' = IF story = "unreported" THEN "plain" ELSE story
    BY <1>2 DEF Report
  <2> QED BY <2>1, <2>2 DEF Choice, Undisturbed
<1>3. CASE LightChanges
  BY <1>3 DEF Choice, Undisturbed, LightChanges, luxState, requests, reconcile
<1>4. CASE RawRestarts
  BY <1>4 DEF Choice, Undisturbed, RawRestarts, Disturb
<1> QED BY <1>1, <1>2, <1>3, <1>4

(* An automatic switch that changes the camera is a disturbance.           *)
LEMMA ChoiceLux ==
  ASSUME Choice, NEW reached \in BOOLEAN,
         LuxDecides \/ LuxCommand(reached) \/ CooldownOver \/ SetLux
  PROVE  Choice'
<1>1. CASE LuxDecides \/ CooldownOver \/ SetLux
  BY <1>1 DEF Choice, Undisturbed, LuxDecides, CooldownOver, SetLux, world,
              requests, reconcile
<1>2. CASE LuxCommand(reached)
  BY <1>2 DEF Choice, Undisturbed, LuxCommand, Disturb, requests, reconcile
<1> QED BY <1>1, <1>2

(* GET /camera: the command and the save are one choice.                   *)
LEMMA ChoiceHandler ==
  ASSUME Choice, CameraTypeOK, NEW h \in Handlers, NEW reached \in BOOLEAN,
         NEW id \in Cameras \union {BadCamera},
         Ask(h, id) \/ HandlerCommand(h, reached) \/ SetActiveCamera(h)
  PROVE  Choice'
<1> SUFFICES ASSUME Undisturbed' PROVE Choice'
  BY DEF Choice
<1>1. CASE Ask(h, id)
  <2>1. /\ rec = "done" /\ \A g \in Handlers : cpc[g] = "idle"
        /\ UNCHANGED <<story, camera, tel, pref, rec, recWant>>
    BY <1>1 DEF Ask, Disturb, Undisturbed, world, reconcile
  <2>2. /\ \A g \in Handlers : cpc'[g] = IF g = h THEN "command" ELSE "idle"
    BY <1>1, <2>1 DEF CameraTypeOK, Ask
  <2> QED BY <2>1, <2>2 DEF Choice, Undisturbed
<1>2. CASE HandlerCommand(h, reached)
  <2>1. /\ cpc[h] = "command" /\ asked[h] \in Cameras
        /\ UNCHANGED <<story, tel, pref, rec, recWant>>
        /\ reached \/ camera' = camera
    BY <1>2 DEF HandlerCommand, Disturb, Undisturbed, reconcile
  <2>2. /\ rec = "done" /\ \A g \in Handlers : g /= h => cpc[g] = "idle"
        /\ pref \in {camera, NoCameraPreference}
    BY <2>1 DEF Choice, Undisturbed
  <2>3. /\ \A g \in Handlers : cpc'[g] = IF g = h
              THEN IF reached THEN "save" ELSE "idle" ELSE "idle"
        /\ reached => asked'[h] = asked[h]
    BY <1>2, <2>2 DEF CameraTypeOK, HandlerCommand
  <2>4. reached => camera' = asked[h]
    BY <1>2, <2>1 DEF HandlerCommand, Command
  <2>5. CASE reached
    BY <2>1, <2>2, <2>3, <2>4, <2>5 DEF Choice
  <2>6. CASE ~reached
    BY <2>1, <2>2, <2>3, <2>6 DEF Choice
  <2> QED BY <2>5, <2>6
<1>3. CASE SetActiveCamera(h)
  <2>1. /\ cpc[h] = "save" /\ pref' = asked[h]
        /\ UNCHANGED <<story, camera, tel, rec, recWant>>
    BY <1>3 DEF SetActiveCamera, Saved, world, reconcile
  <2>2. /\ rec = "done" /\ \A g \in Handlers : g /= h => cpc[g] = "idle"
        /\ asked[h] = camera
    BY <2>1 DEF Choice, Undisturbed
  <2>3. \A g \in Handlers : cpc'[g] = "idle"
    BY <1>3, <2>2 DEF CameraTypeOK, SetActiveCamera
  <2> QED BY <2>1, <2>2, <2>3 DEF Choice
<1> QED BY <1>1, <1>2, <1>3

(* The restore ends with the saved camera live, if it read a report.       *)
LEMMA ChoiceRestore ==
  ASSUME Choice, NEW reached \in BOOLEAN,
         RecStart \/ RecTimeout \/ RecConnected \/ RecRead \/ RecCommand(reached)
  PROVE  Choice'
<1> SUFFICES ASSUME Undisturbed' PROVE Choice'
  BY DEF Choice
<1>1. CASE RecStart
  BY <1>1 DEF Choice, Undisturbed, RecStart, world, requests
<1>2. CASE RecTimeout
  BY <1>2 DEF Undisturbed, RecTimeout, Disturb
<1>3. CASE RecConnected
  BY <1>3 DEF Choice, Undisturbed, RecConnected, world, requests
<1>4. CASE RecRead
  BY <1>4 DEF Choice, Undisturbed, RecRead, Finish, world, requests
<1>5. CASE RecCommand(reached)
  <2>1. /\ rec = "command" /\ rec' = "done" /\ recWant \in Cameras /\ reached
        /\ UNCHANGED <<story, cpc, asked, pref>>
    BY <1>5 DEF RecCommand, Finish, Disturb, Undisturbed, requests
  <2>2. camera' = recWant
    BY <1>5, <2>1 DEF RecCommand, Command
  <2> QED BY <2>1, <2>2 DEF Choice, Undisturbed
<1> QED BY <1>1, <1>2, <1>3, <1>4, <1>5

(* Once the restore is over and no request is under way, the live camera   *)
(* is the saved preference: a user's choice outlives telemetry's breaks,   *)
(* the light switch's idle decisions and lost commands, whatever handlers  *)
(* come one after the other.                                               *)
THEOREM ChoiceStaysInForce == CameraSafety => []ChoiceInForce
<1>1. CameraInit => Choice
  BY DEF CameraInit, Choice
<1>2. Choice /\ CameraTypeOK /\ [CameraNext]_camVars => Choice'
  <2> SUFFICES ASSUME Choice, CameraTypeOK, [CameraNext]_camVars PROVE Choice'
    OBVIOUS
  <2>1. CASE UNCHANGED camVars
    BY <2>1 DEF Choice, Undisturbed, camVars, world, requests, reconcile
  <2>2. CASE CameraNext
    <3>1. TRUE \in BOOLEAN /\ 0 \in Cameras \union {BadCamera}
      OBVIOUS
    <3> QED BY <2>2, <3>1, ChoiceWorld, ChoiceLux, ChoiceHandler, ChoiceRestore
            DEF CameraNext
  <2> QED BY <2>1, <2>2
<1>3. Choice /\ CameraTypeOK => ChoiceInForce
  BY DEF Choice, Undisturbed, ChoiceInForce, Settled, CameraTypeOK
<1> QED BY <1>1, <1>2, <1>3, CameraTypeCorrect, PTL DEF CameraSafety

-----------------------------------------------------------------------------
(* A cooldown runs as long as the last switch is fresh, and no command is  *)
(* under way then.                                                         *)
Spaced == switched => cooling /\ luxWant = Idle

(* The light switch changes the camera once per cooldown, except after a   *)
(* command whose answer was lost: coolingDown checks and stamps in one     *)
(* critical section, before the command.                                   *)
THEOREM SwitchesSpaced == CameraSafety => AutoSwitchesSpaced
<1>1. CameraInit => Spaced
  BY DEF CameraInit, Spaced
<1>2. Spaced /\ [CameraNext]_camVars => Spaced'
  <2> SUFFICES ASSUME Spaced, [CameraNext]_camVars PROVE Spaced'
    OBVIOUS
  <2>1. CASE UNCHANGED luxState
    BY <2>1 DEF Spaced, luxState
  <2>2. CASE LuxDecides
    BY <2>2 DEF Spaced, LuxDecides, coolingDown
  <2>3. ASSUME NEW reached \in BOOLEAN, LuxCommand(reached) PROVE Spaced'
    BY <2>3 DEF Spaced, LuxCommand
  <2>4. CASE CooldownOver \/ SetLux
    BY <2>4 DEF Spaced, CooldownOver, SetLux
  <2>5. CASE ~(LuxDecides \/ CooldownOver \/ SetLux)
             /\ (\A reached \in BOOLEAN : ~LuxCommand(reached))
    BY <2>1, <2>5 DEF CameraNext, camVars, TelConnect, Report, TelBreak,
       LightChanges, RawRestarts, Ask, HandlerCommand, SetActiveCamera,
       RecStart, RecTimeout, RecConnected, RecRead, RecCommand
  <2> QED BY <2>2, <2>3, <2>4, <2>5
<1>3. Spaced /\ [CameraNext]_camVars =>
        [luxWant /= Idle /\ luxWant' = Idle /\ camera' /= camera => ~switched]_camVars
  BY DEF Spaced
<1> QED BY <1>1, <1>2, <1>3, PTL DEF CameraSafety, AutoSwitchesSpaced

-----------------------------------------------------------------------------
(* A step of the process is a step of each component or leaves it alone,   *)
(* and it starts each one in one of its initial states.                    *)
LEMMA StepsProject ==
  /\ Init => StreamInit /\ CameraInit
  /\ [Next]_serviceVars => [StreamNext]_streamVars /\ [CameraNext]_camVars
<1>1. Init => StreamInit /\ CameraInit
  BY DEF Init
<1>2. ASSUME [Next]_serviceVars PROVE [StreamNext]_streamVars /\ [CameraNext]_camVars
  BY <1>2 DEF Next, serviceVars
<1> QED BY <1>1, <1>2

(* The specifications that TLC checks, with their fairness, allow no step  *)
(* that the proofs above do not cover.                                     *)
THEOREM ComponentsRun ==
  /\ StreamSpec => StreamSafety
  /\ CameraSpec => CameraSafety
  /\ Spec => StreamSafety /\ CameraSafety
<1>1. StreamSpec => StreamSafety
  BY DEF StreamSpec, StreamSafety
<1>2. CameraSpec => CameraSafety
  BY DEF CameraSpec, CameraSafety
<1>3. Spec => StreamSafety /\ CameraSafety
  BY StepsProject, PTL DEF Spec, StreamSafety, CameraSafety
<1> QED BY <1>1, <1>2, <1>3

(* Both components keep their types while they run in one process.         *)
THEOREM ServiceTyped == Spec => []TypeOK
<1>1. StreamTypeOK /\ CameraTypeOK => TypeOK
  BY DEF TypeOK
<1> QED BY <1>1, ComponentsRun, StreamTypeCorrect, CameraTypeCorrect, PTL

(* And whatever holds of one of them alone holds of it in the process.     *)
THEOREM ServiceSafe ==
  Spec => /\ []NoViewerUnlisted /\ []NoGhostViewer /\ []CapOnlyByRace
          /\ []ChoiceInForce /\ AutoSwitchesSpaced
BY ComponentsRun, NobodyUnlisted, NoGhosts, CapBrokenOnlyByRace,
   ChoiceStaysInForce, SwitchesSpaced, PTL
=============================================================================
