-------------------------------- MODULE Service --------------------------------
(***************************************************************************)
(* What the process does for those outside: the viewers (StreamServer) and *)
(* the choice of the camera (CameraControl), side by side.  They share no  *)
(* variable; focus is the one that moves, as in DataPaths.                 *)
(***************************************************************************)
EXTENDS StreamServer, CameraControl

VARIABLE focus
serviceVars == <<focus, streamVars, camVars>>

Init ==
    /\ StreamInit /\ CameraInit /\ focus \in {"stream", "camera"}
    /\ focus /= "camera" => /\ camera = 0 /\ light = "dark" /\ ~luxOn
                            /\ pref = NoCameraPreference

Next ==
    /\ UNCHANGED focus
    /\ \/ focus = "stream" /\ StreamNext /\ UNCHANGED camVars
       \/ focus = "camera" /\ CameraNext /\ UNCHANGED streamVars

\* The fairness of the two, StreamFairness and CameraFairness, for the one
\* that moves.
Stream(A) == focus = "stream" /\ A /\ UNCHANGED focus
Camera(A) == focus = "camera" /\ A /\ UNCHANGED focus
Fairness ==
    /\ WF_streamVars(Stream(Broadcast)) /\ WF_streamVars(Stream(StopStep))
    /\ \A v \in Viewers : WF_streamVars(Stream(Handle(v)))
    /\ WF_camVars(Camera(TelConnect)) /\ SF_camVars(Camera(Report))
    /\ SF_camVars(Camera(LuxDecides)) /\ SF_camVars(Camera(LuxCommand(TRUE)))
    /\ WF_camVars(Camera(CooldownOver))

Spec == Init /\ [][Next]_serviceVars /\ Fairness

(* The state of both components has its type.  No run checks it: the       *)
(* proofs need it, and a theorem states it.                                *)
TypeOK == StreamTypeOK /\ CameraTypeOK
=============================================================================
