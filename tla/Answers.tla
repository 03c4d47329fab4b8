------------------------------ MODULE Answers ------------------------------
(***************************************************************************)
(* How a search is answered, from what it retrieves to the screen: the     *)
(* ranking, the floors that a calibration proposes for it, and the client. *)
(* The parts share no state.                                               *)
(***************************************************************************)
EXTENDS SearchRanking, Calibration, WebClient

ASSUME AnswersAssumption == RankingAssumption /\ CalibrationAssumption

(* A child that neither lane puts behind another comes before it, the      *)
(* evidence is the best sections, whole, a strict search has the children  *)
(* of both lanes with their ranks in the whole of each, and the floors of  *)
(* a calibration separate its cases if any floors do (rrf.py, evidence.py, *)
(* service.py; calibrate_search.py).                                       *)
AnswersAreBest ==
    FusionRespectsLanes /\ BestSectionsAreKept /\ StrictOnlyRemoves /\ FloorsSeparate
===========================================================================
