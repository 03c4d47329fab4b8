---------------------------- MODULE Calibration ----------------------------
(***************************************************************************)
(* The calibration script: it retrieves the lanes of every smoke case      *)
(* without a floor, takes the best acceptable evidence of the known ones   *)
(* and the maxima of the unknown one, and proposes the floors just above   *)
(* these maxima if some pair of floors can tell the cases apart.           *)
(*                                                                         *)
(* Scores are the floats of 0.0 .. 1.0, numbered in order.                 *)
(***************************************************************************)
EXTENDS Naturals, Sequences, SequencesExt, FiniteSetsExt

CONSTANTS
    One,            \* the score 1.0
    Shown,          \* TOP_EVIDENCE_PER_LANE
    Cases,          \* of the fixture, in order: "ok" or "no_evidence"
    Batches         \* what may be retrieved for each case: [keyword, vector],
                    \* lanes of [score, acceptable], best first

CalibrationAssumption ==
    /\ One \in Nat /\ Shown \in Nat
    /\ Cases \in Seq({"ok", "no_evidence"}) /\ Len(Batches) = Len(Cases)
    /\ \A i \in DOMAIN Batches : \A batch \in Batches[i] :
         \A lane \in {batch.keyword, batch.vector} : \A k \in DOMAIN lane :
            /\ lane[k].score \in 0..One
            /\ \A j \in 1..k : lane[j].score >= lane[k].score
    /\ \E i \in DOMAIN Cases : Cases[i] = "ok"
    /\ \E i \in DOMAIN Cases : \A j \in DOMAIN Cases : Cases[j] = "no_evidence" <=> j = i

VARIABLES
    retrieved,      \* the batches of the cases done
    known,          \* KnownEvidenceScores: of each lane, at most one score
    unknown,        \* unknown_batch, at most one
    report          \* [status, keyword, vector], the floors it proposes

calibrationVars == <<retrieved, known, unknown, report>>

CalibrationInit ==
    /\ retrieved = <<>>
    /\ known = <<>>
    /\ unknown = {}
    /\ report = [status |-> "running"]

---------------------------------------------------------------------------
ScoresOf(found) == {c.score : c \in found}

(* The acceptable candidates of a lane, among those the report shows. *)
Acceptable(lane) == {lane[k] : k \in {k \in DOMAIN lane : k <= Shown /\ lane[k].acceptable}}

(* _best_acceptable. *)
BestAcceptable(lane) ==
    LET matches == ScoresOf(Acceptable(lane))
    IN IF matches = {} THEN {} ELSE {Max(matches)}

Retrieve ==
    LET i == Len(retrieved) + 1
    IN /\ i \in DOMAIN Cases
       /\ \E batch \in Batches[i] :
            /\ retrieved' = Append(retrieved, batch)
            /\ IF Cases[i] = "no_evidence"
               THEN unknown' = {batch} /\ UNCHANGED known
               ELSE /\ known' = Append(known, [keyword |-> BestAcceptable(batch.keyword),
                                               vector |-> BestAcceptable(batch.vector)])
                    /\ UNCHANGED unknown
       /\ UNCHANGED report

Maximum(lane) == Max({0} \cup ScoresOf(ToSet(lane)))

(* assess_calibration: every case has a positive margin in some lane. *)
Calibratable(keyword, vector) ==
    \A i \in DOMAIN known :
        \/ \E score \in known[i].keyword : score > keyword
        \/ \E score \in known[i].vector : score > vector

(* nextafter. *)
StrictFloorAbove(score) == score + 1

Failed == [status |-> "unavailable"]

(* Of no known case, or no unknown one, or of a maximum of 1.0 there is    *)
(* nothing to propose, and the script fails.                               *)
Assess ==
    /\ Len(retrieved) = Len(Cases)
    /\ report.status = "running"
    /\ LET keyword(batch) == Maximum(batch.keyword)
           vector(batch) == Maximum(batch.vector)
       IN report' =
            IF known = <<>> \/ unknown = {} THEN Failed
            ELSE LET batch == CHOOSE b \in unknown : TRUE
                 IN IF ~Calibratable(keyword(batch), vector(batch)) THEN [status |-> "blocked"]
                    ELSE IF One \in {keyword(batch), vector(batch)} THEN Failed
                    ELSE [status |-> "calibratable",
                          keyword |-> StrictFloorAbove(keyword(batch)),
                          vector |-> StrictFloorAbove(vector(batch))]
    /\ UNCHANGED <<retrieved, known, unknown>>

CalibrationNext == Retrieve \/ Assess

CalibrationSpec == CalibrationInit /\ [][CalibrationNext]_calibrationVars

---------------------------------------------------------------------------
(* retain_at_or_above, as a search does with the floors of its policy. *)
Retained(found, floor) == {c \in found : c.score >= floor}

(* What a search has of the candidates of both lanes. *)
Evidence(keyword, vector, floors) ==
    Retained(keyword, floors.keyword) \cup Retained(vector, floors.vector)

(* With these floors the unknown query has no evidence, and every known    *)
(* one has acceptable evidence, among what the report shows of the case.   *)
Separates(floors) ==
    \A i \in DOMAIN Cases :
        LET keyword == retrieved[i].keyword
            vector == retrieved[i].vector
        IN IF Cases[i] = "no_evidence" THEN Evidence(ToSet(keyword), ToSet(vector), floors) = {}
           ELSE Evidence(Acceptable(keyword), Acceptable(vector), floors) # {}

(* The floors of the report separate the cases when a search applies them, *)
(* and when it proposes none no positive floors of a policy would          *)
(* (calibration.py: assess_calibration; calibrate_search.py:               *)
(* _strict_floor_above; policy.py: retain_at_or_above).                    *)
FloorsSeparate ==
    /\ report.status = "calibratable" => Separates(report)
    /\ report.status \in {"blocked", "unavailable"} =>
         \A floors \in [keyword : 1..One, vector : 1..One] : ~Separates(floors)
===========================================================================
