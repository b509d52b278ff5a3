----------------------------- MODULE CameraControl -----------------------------
(***************************************************************************)
(* Who decides which camera picam-raw shows: the user (GET /camera), the   *)
(* light (internal/luxswitch) and, once after a start, the saved           *)
(* preference (internal/uistate, ReconcileActiveCamera).  Each sends       *)
(* one-shot commands (internal/camrpc) and knows the camera and the light  *)
(* only from telemetry (internal/telemetry), whose state is zero until the *)
(* first line of a connection has been applied.                            *)
(*                                                                         *)
(* A telemetry line is applied when it is sent.  A command has its effect  *)
(* and its answer in one step, and either can be lost.  A start of the     *)
(* process is an initial state: any camera may be live, and any preference *)
(* saved.  The file behind the preference is the module SettingsStore's.   *)
(***************************************************************************)
EXTENDS Integers

CONSTANTS
    Handlers,        \* goroutines that serve GET /camera
    BadCamera        \* an index picam-raw refuses

Cameras == {0, 1}
NoCameraPreference == -1
ASSUME BadCameraIsNone == BadCamera \notin Cameras \union {NoCameraPreference}
Lights == {"dark", "between", "bright"}

VARIABLES
    \* picam-raw, and the light outside
    camera, light,
    tel,             \* telemetry.State
    \* luxswitch.State and its loop
    luxOn, cooling, luxWant,
    \* the handlers, and the saved preference
    cpc, asked, pref,
    \* ReconcileActiveCamera
    rec, recWant,
    \* history, read by properties only
    story,           \* what else than well-timed choices had a part so far
    switched         \* the last automatic switch is less than a cooldown ago

Idle == -1
world == <<camera, light>>

\* Before the first line of telemetry; after it; the restore read the camera
\* before it; or something else switched, or failed to switch.
Stories == {"unreported", "plain", "blind", "disturbed"}
Disturb(how) == story' = IF how THEN "disturbed" ELSE story
luxState == <<luxOn, cooling, luxWant, switched>>
requests == <<cpc, asked, pref>>
reconcile == <<rec, recWant>>
camVars == <<world, tel, luxState, requests, reconcile, story>>

CameraInit ==
    /\ camera \in Cameras /\ light \in Lights
    /\ tel = [connected |-> FALSE, light |-> "dark", camera |-> 0]
    /\ luxOn \in BOOLEAN /\ cooling = FALSE /\ luxWant = Idle /\ switched = FALSE
    /\ cpc = [h \in Handlers |-> "idle"] /\ asked = [h \in Handlers |-> 0]
    /\ pref \in Cameras \union {NoCameraPreference, BadCamera}
    /\ rec = "start" /\ recWant = NoCameraPreference /\ story = "unreported"

-----------------------------------------------------------------------------
(* telemetry.Run *)

TelConnect ==
    /\ ~tel.connected /\ tel' = [tel EXCEPT !.connected = TRUE]
    /\ UNCHANGED <<world, luxState, requests, reconcile, story>>

Report ==
    /\ tel.connected /\ tel' = [tel EXCEPT !.light = light, !.camera = camera]
    /\ story' = IF story = "unreported" THEN "plain" ELSE story
    /\ UNCHANGED <<world, luxState, requests, reconcile>>

\* The connection breaks: the readings of the last line stay.
TelBreak ==
    /\ tel.connected /\ tel' = [tel EXCEPT !.connected = FALSE]
    /\ UNCHANGED <<world, luxState, requests, reconcile, story>>

LightChanges ==
    /\ light' \in Lights \ {light}
    /\ UNCHANGED <<camera, tel, luxState, requests, reconcile, story>>

\* picam-raw restarts, with a camera of its own choice.
RawRestarts ==
    /\ camera' \in Cameras /\ tel' = [tel EXCEPT !.connected = FALSE]
    /\ Disturb(TRUE)
    /\ UNCHANGED <<light, luxState, requests, reconcile>>

-----------------------------------------------------------------------------
(* camrpc.SwitchCamera: what becomes of a command, reached being what the  *)
(* caller is told.  A refusal counts as reached.                           *)

Command(id, reached) ==
    \/ id \in Cameras /\ camera' = id                 \* done, answered or not
    \/ (id \notin Cameras \/ ~reached) /\ UNCHANGED camera   \* refused, or lost

-----------------------------------------------------------------------------
(* internal/luxswitch *)

\* Bad: the cameras are exchanged (LightDecides).
BadDecideSwitch ==
    CASE tel.light = "bright" /\ tel.camera /= 1 -> 1
      [] tel.light = "dark" /\ tel.camera /= 0 -> 0
      [] OTHER -> Idle
decideSwitch ==
    CASE tel.light = "bright" /\ tel.camera /= 0 -> 0
      [] tel.light = "dark" /\ tel.camera /= 1 -> 1
      [] OTHER -> Idle

\* Bad: the cooldown is not looked at (AutoSwitchesSpaced).
BadCoolingDown == FALSE
coolingDown == cooling

\* tick, up to its command; otherwise it changes nothing.
LuxDecides ==
    /\ luxWant = Idle /\ luxOn /\ tel.connected
    /\ decideSwitch /= Idle /\ ~coolingDown
    /\ luxWant' = decideSwitch /\ cooling' = TRUE
    /\ UNCHANGED <<world, tel, luxOn, switched, requests, reconcile, story>>

\* The command; undoLastSwitch takes the cooldown back if it failed.
LuxCommand(reached) ==
    /\ luxWant /= Idle /\ Command(luxWant, reached)
    /\ luxWant' = Idle /\ cooling' = reached /\ switched' = reached
    /\ Disturb(camera' /= camera)
    /\ UNCHANGED <<light, tel, luxOn, requests, reconcile>>

CooldownOver ==
    /\ cooling /\ luxWant = Idle /\ cooling' = FALSE /\ switched' = FALSE
    /\ UNCHANGED <<world, tel, luxOn, luxWant, requests, reconcile, story>>

\* GET /lux-switch.  A new threshold shows as a change of light: light is the
\* reading's place above, in or below the deadband around the threshold.
SetLux ==
    /\ luxOn' = ~luxOn
    /\ UNCHANGED <<world, tel, cooling, luxWant, switched, requests,
                   reconcile, story>>

-----------------------------------------------------------------------------
(* GET /camera *)

\* A request that overlaps another one, or the restore, is not well-timed.
Ask(h, id) ==
    /\ cpc[h] = "idle" /\ cpc' = [cpc EXCEPT ![h] = "command"]
    /\ asked' = [asked EXCEPT ![h] = id]
    /\ Disturb(rec /= "done" \/ \E g \in Handlers : cpc[g] /= "idle")
    /\ UNCHANGED <<world, tel, luxState, pref, reconcile>>

HandlerCommand(h, reached) ==
    /\ cpc[h] = "command" /\ Command(asked[h], reached)
    /\ cpc' = [cpc EXCEPT ![h] = IF reached THEN "save" ELSE "idle"]
    /\ asked' = [asked EXCEPT ![h] = IF reached THEN @ ELSE 0]
    /\ Disturb((~reached /\ camera' /= camera) \/ asked[h] \notin Cameras)
    /\ UNCHANGED <<light, tel, luxState, pref, reconcile>>

\* Bad: the camera is remembered the first time only (ChoiceInForce).
BadSaved(id) == IF pref = NoCameraPreference THEN id ELSE pref
Saved(id) == id
SetActiveCamera(h) ==
    /\ cpc[h] = "save" /\ pref' = Saved(asked[h])
    /\ cpc' = [cpc EXCEPT ![h] = "idle"] /\ asked' = [asked EXCEPT ![h] = 0]
    /\ UNCHANGED <<world, tel, luxState, reconcile, story>>

-----------------------------------------------------------------------------
(* ReconcileActiveCamera *)

Finish == rec' = "done" /\ recWant' = NoCameraPreference

RecStart ==
    /\ rec = "start" /\ recWant' = pref
    /\ rec' = IF pref = NoCameraPreference THEN "done" ELSE "waiting"
    /\ UNCHANGED <<world, tel, luxState, requests, story>>

RecTimeout ==
    /\ rec = "waiting" /\ ~tel.connected /\ Finish /\ Disturb(TRUE)
    /\ UNCHANGED <<world, tel, luxState, requests>>

\* Telemetry was seen connected: the camera it shows is compared.
RecConnected ==
    /\ rec = "waiting" /\ tel.connected /\ rec' = "reading"
    /\ UNCHANGED <<world, tel, luxState, requests, recWant, story>>

\* decideCameraRestore
RecRead ==
    /\ rec = "reading"
    /\ IF recWant = tel.camera THEN Finish
       ELSE rec' = "command" /\ UNCHANGED recWant
    /\ story' = IF story = "unreported" THEN "blind" ELSE story
    /\ UNCHANGED <<world, tel, luxState, requests>>

RecCommand(reached) ==
    /\ rec = "command" /\ Command(recWant, reached) /\ Finish
    /\ Disturb(~reached \/ recWant \notin Cameras)
    /\ UNCHANGED <<light, tel, luxState, requests>>

CameraNext ==
    \/ TelConnect \/ Report \/ TelBreak \/ LightChanges \/ RawRestarts
    \/ LuxDecides \/ CooldownOver \/ SetLux
    \/ \E reached \in BOOLEAN : LuxCommand(reached) \/ RecCommand(reached)
    \/ \E h \in Handlers :
          \/ \E id \in Cameras \union {BadCamera} : Ask(h, id)
          \/ \E reached \in BOOLEAN : HandlerCommand(h, reached)
          \/ SetActiveCamera(h)
    \/ RecStart \/ RecTimeout \/ RecConnected \/ RecRead

\* The loops run; a connection that is made again and again brings a line in
\* the end; and a switch that is tried again and again succeeds in the end.
CameraFairness ==
    /\ WF_camVars(TelConnect) /\ SF_camVars(Report)
    /\ SF_camVars(LuxDecides) /\ SF_camVars(LuxCommand(TRUE))
    /\ WF_camVars(CooldownOver)

CameraSpec == CameraInit /\ [][CameraNext]_camVars /\ CameraFairness

-----------------------------------------------------------------------------
CameraTypeOK ==
    /\ camera \in Cameras /\ light \in Lights
    /\ tel \in [connected : BOOLEAN, light : Lights, camera : Cameras]
    /\ {luxOn, cooling, switched} \subseteq BOOLEAN /\ story \in Stories
    /\ luxWant \in Cameras \union {Idle}
    /\ cpc \in [Handlers -> {"idle", "command", "save"}]
    /\ asked \in [Handlers -> Cameras \union {BadCamera}]
    /\ {pref, recWant} \subseteq Cameras \union {NoCameraPreference, BadCamera}
    /\ rec \in {"start", "waiting", "reading", "command", "done"}

Settled == rec = "done" /\ \A h \in Handlers : cpc[h] = "idle"

(* Once the restore is over and no request is under way, the camera that   *)
(* is live is the saved preference, if there is one: provided telemetry    *)
(* had reported before the restore read the camera, and nothing else than  *)
(* requests that overlapped neither each other nor the restore, and were   *)
(* answered, has switched it.                                              *)
ChoiceInForce ==
    Settled /\ story \notin {"disturbed", "blind"} => pref \in {camera, NoCameraPreference}

(* With the light switch on and the light steady, the camera for that      *)
(* light is live again and again, whatever the users switch, and however   *)
(* often commands and connections fail before they succeed.                *)
LightDecides ==
    /\ <>[](luxOn /\ light = "bright") => []<>(camera = 0)
    /\ <>[](luxOn /\ light = "dark") => []<>(camera = 1)

(* Two automatic switches that change the camera are a cooldown apart,     *)
(* unless the answer to the first was lost, which undoLastSwitch takes for *)
(* a failure.                                                              *)
AutoSwitchesSpaced ==
    [][luxWant /= Idle /\ luxWant' = Idle /\ camera' /= camera => ~switched]_camVars

(* What the README says of the restore: if a saved preference exists and   *)
(* picam-raw reports something different once telemetry connects, it is    *)
(* restored.  It is not when the restore reads the camera between          *)
(* setConnected and the first line, while the zero value says camera 0.    *)
CameraRestored ==
    Settled /\ story /= "disturbed" => pref \in {camera, NoCameraPreference}
=============================================================================
