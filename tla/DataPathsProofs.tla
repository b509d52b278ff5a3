---------------------------- MODULE DataPathsProofs ----------------------------
(***************************************************************************)
(* The three data paths together.  Each behaviour of DataPaths is one of   *)
(* each component, so what is proved of a component, for all values of its *)
(* constants, holds of the composition that the runs check.                *)
(***************************************************************************)
EXTENDS DataPaths, ReassemblyProofs, FrameAlignProofs, SettingsStoreProofs

(* A step of the composition is, for each component, a step of it or none. *)
LEMMA StepsProject ==
  ASSUME [Next]_dataVars
  PROVE  /\ [ReassemblyNext]_reassemblyVars
         /\ [AlignNext]_alignVars
         /\ [StoreNext]_storeVars
<1>1. CASE UNCHANGED dataVars
  BY <1>1 DEF dataVars
<1>2. CASE Next
  BY <1>2 DEF Next
<1> QED BY <1>1, <1>2

(* Every behaviour of the composition is a behaviour of each component:    *)
(* frames coming in, frames going out and settings share no state.         *)
THEOREM ComponentsRun ==
  Spec => ReassemblySpec /\ AlignSpec /\ StoreSpec
<1>1. Init => ReassemblyInit /\ AlignInit /\ StoreInit
  BY DEF Init
<1> QED BY <1>1, StepsProject, PTL DEF Spec, ReassemblySpec, AlignSpec, StoreSpec

(* The state of all three keeps its type: table, queues and files are      *)
(* never larger than the code lets them.                                   *)
THEOREM DataPathsTyped == Spec => []TypeOK
<1>1. ReassemblyTypeOK /\ AlignTypeOK /\ StoreTypeOK => TypeOK
  BY DEF TypeOK
<1> QED BY ComponentsRun, ReassemblyTypeCorrect, AlignTypeCorrect,
           StoreTypeCorrect, <1>1, PTL

(* All that was proved of the components holds of the composition: whole   *)
(* frames come through, once; a stalled table stays stalled; the delay     *)
(* buffer is bounded and boxes are drawn on their own frame; settings      *)
(* agree after a request that ran alone, and what it set survives a kill.  *)
THEOREM DataPathsSafe ==
  Spec => /\ []WholeFramesDelivered /\ PiecesShownOnce /\ StallLasts
          /\ []DelayBufferBounded /\ OwnBoxesShown
          /\ []QuietAgrees /\ SettledSurvives
<1> QED BY ComponentsRun, WholeFramesAlwaysDelivered, PiecesAlwaysShownOnce,
           StallAlwaysLasts, DelayBufferAlwaysBounded, OwnBoxesAlwaysShown,
           QuietAlwaysAgrees, SettledAlwaysSurvives
=============================================================================
