----------------------------------- MODULE MCTools -----------------------------------
(***************************************************************************)
(* The sequential parts of the collection tool for TLC: one command of it, *)
(* or the DPLL collector by itself, which goes through its steps.          *)
(***************************************************************************)
EXTENDS Selection, Detection, Verification, DPLLReader

toolVars == <<collect, detect, verify, dpll, board>>

Init == CollectInit /\ DetectInit /\ VerifyInit /\ DPLLInit /\ BoardInit

Off == {collect.at, detect.at, verify.at, dpll.at} = {"off"}

Next ==
  \/ /\ Off /\ CollectBegin
     /\ UNCHANGED <<detect, verify, dpll, board>>
  \/ /\ (Off /\ DetectBegin) \/ DetectNext
     /\ UNCHANGED <<collect, verify, dpll, board>>
  \/ /\ (Off /\ VerifyBegin) \/ VerifyNext
     /\ UNCHANGED <<collect, detect, dpll, board>>
  \/ /\ (Off /\ DPLLBegin) \/ DPLLNext
     /\ UNCHANGED <<collect, detect, verify>>

Spec == Init /\ [][Next]_toolVars
=======================================================================================
