------------------------------- MODULE DataPaths -------------------------------
(***************************************************************************)
(* Frames on their way in (Reassembly), to the viewers (FrameAlign), and   *)
(* settings on their way to disk and back (SettingsStore), side by side.   *)
(*                                                                         *)
(* The three share no variable, so a property of the variables of one      *)
(* holds of all behaviours of the three together exactly if it holds of    *)
(* those in which only that one moves.  focus is the one that moves; the   *)
(* others stay in one initial state.                                       *)
(***************************************************************************)
EXTENDS Reassembly, FrameAlign, SettingsStore

VARIABLE focus
dataVars == <<focus, reassemblyVars, alignVars, storeVars>>

Init ==
    /\ ReassemblyInit /\ AlignInit /\ StoreInit
    /\ focus \in {"reassembly", "align", "store"}
    /\ focus /= "align" => ~proxied /\ ~annotated /\ ~osd
    /\ focus /= "store" => kind = "ui"

Next ==
    /\ UNCHANGED focus
    /\ \/ focus = "reassembly" /\ ReassemblyNext /\ UNCHANGED <<alignVars, storeVars>>
       \/ focus = "align" /\ AlignNext /\ UNCHANGED <<reassemblyVars, storeVars>>
       \/ focus = "store" /\ StoreNext /\ UNCHANGED <<reassemblyVars, alignVars>>

Spec == Init /\ [][Next]_dataVars

(* The state of each of the three components has its type; the reassembly  *)
(* table, the queues and the files are no larger than the code lets them.  *)
TypeOK == ReassemblyTypeOK /\ AlignTypeOK /\ StoreTypeOK
=============================================================================
