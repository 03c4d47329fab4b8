------------------------------ MODULE MCAnswers -----------------------------
(***************************************************************************)
(* Beside the parts of source reading, those that answer with what was     *)
(* read: the ranking of what a search retrieves, the calibration of its    *)
(* floors, and the web client.  A behaviour is one of one part; the others *)
(* stay in one initial state.                                              *)
(***************************************************************************)
EXTENDS MCSourceReading, Answers

readingVars == <<part, gitVars, tarVars, patternVars>>
answerVars == <<rankingVars, calibrationVars, vars>>
allVars == <<readingVars, answerVars>>

---------------------------------------------------------------------------
(* Four children of three sections, whose order is not theirs, and lanes   *)
(* that have no room for all of them.                                      *)
MCParentOf == [c \in 1..4 |-> CASE c = 2 -> 1 [] c = 3 -> 3 [] OTHER -> 2]
MCPolicies == {[k |-> 60, keyword |-> 1, vector |-> 1], [k |-> 1, keyword |-> 1, vector |-> 2]}

MCChunks == 1..4
MCSimilarities == {1, 2}
MCLimits == {1, 2}

---------------------------------------------------------------------------
(* Three smoke cases: lanes of up to two candidates, one of them shown.    *)
ScoredLanes(n, acceptable) ==
    {lane \in UNION {[1..k -> [score : 0..2, acceptable : acceptable]] : k \in 0..n} :
        \A j, k \in DOMAIN lane : j < k => lane[j].score >= lane[k].score}

MCBatches == <<
    [keyword : ScoredLanes(2, BOOLEAN), vector : ScoredLanes(1, BOOLEAN)],
    [keyword : ScoredLanes(2, {FALSE}), vector : ScoredLanes(1, {FALSE})],
    [keyword : ScoredLanes(1, {TRUE}), vector : ScoredLanes(0, {TRUE})]>>

MCCases == <<"ok", "no_evidence", "ok">>

---------------------------------------------------------------------------
CONSTANTS t1, t2

---------------------------------------------------------------------------
RankingIdle ==
    /\ policy = [k |-> 1, keyword |-> 1, vector |-> 2] /\ level = "default" /\ limit = 1
    /\ keyword = <<>> /\ vector = <<>>

AllInit ==
    /\ \/ ReadingPart /\ RankingIdle
       \/ part = "ranking" /\ ReadingIdle
       \/ part \in {"calibration", "browser"} /\ RankingIdle /\ ReadingIdle
    /\ TarInit /\ RankingInit /\ CalibrationInit /\ Init /\ GitInit /\ PatternInit

OnlyBrowser(action) ==
    part = "browser" /\ action /\ UNCHANGED <<readingVars, rankingVars, calibrationVars>>

AllNext ==
    \/ ReadingNext /\ UNCHANGED answerVars
    \/ part = "ranking" /\ RankingNext /\ UNCHANGED <<readingVars, calibrationVars, vars>>
    \/ part = "calibration" /\ CalibrationNext /\ UNCHANGED <<readingVars, rankingVars, vars>>
    \/ OnlyBrowser(Next)

(* What GitProcess and WebClient assume of their schedulers. *)
AllSpec ==
    /\ AllInit /\ [][AllNext]_allVars
    /\ WF_allVars(Proceeds(Narrow!Git) /\ UNCHANGED answerVars)
    /\ WF_allVars(Proceeds(Narrow!Reader) /\ UNCHANGED answerVars)
    /\ WF_allVars(OnlyBrowser(Render))
    /\ \A r \in 1..MaxRequests : WF_allVars(OnlyBrowser(TimerFires(r)))

---------------------------------------------------------------------------
(* git commands end, and every request of the web client ends. *)
RequestsEnd == NarrowCommandEnds /\ EveryRequestEnds
===========================================================================
