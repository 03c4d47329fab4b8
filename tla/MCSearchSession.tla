-------------------------- MODULE MCSearchSession -------------------------
EXTENDS SearchSession, TLC

CONSTANTS p, q, s1, s2, a1, a2, a3, b1, b2, b3, x, y

MCSourceOf == [r \in Runs |-> IF r \in {b1, b2, b3} THEN s2 ELSE s1]

(* Two runs of the searched source, and one of the other, share x; the     *)
(* last two of the other have dropped every document.                      *)
MCSnapshot ==
    [r \in Runs |-> CASE r \in {a1, a3} -> {x} [] r = a2 -> {y} [] r = b1 -> {x, y}
                      [] OTHER -> {}]

(* The database where the runs stand at these stages and nobody is at work. *)
SettledInit(stages) ==
    /\ status = stages
    /\ pointer = [s \in Sources |->
           IF \E r \in Runs : SourceOf[r] = s /\ stages[r] = "active"
           THEN CHOOSE r \in Runs : SourceOf[r] = s /\ stages[r] = "active" ELSE NoRun]
    /\ occurrences = [r \in Runs |->
           IF stages[r] \in Generations!Retained THEN Snapshot[r] ELSE {}]
    /\ contents = UNION {occurrences[r] : r \in Runs}
    /\ switching = FALSE
    /\ client = "active"
    /\ expired = FALSE
    /\ session = [w \in Searchers |-> NoRequest]

(* Nothing has been built but what failed. *)
FirstInit == SettledInit([r \in Runs |-> IF r \in {a1, a3} THEN "absent" ELSE "failed"])

(* The next activation of the searched source, or of the other one, collects *)
(* what only its fallback links.                                            *)
CollectingInit ==
    \/ SettledInit([r \in Runs |-> CASE r = a1 -> "active" [] r = a2 -> "previous"
                                     [] r = a3 -> "ready" [] OTHER -> "failed"])
    \/ SettledInit([r \in Runs |-> CASE r \in {a1, b2} -> "active" [] r = b1 -> "previous"
                                     [] r = b3 -> "ready" [] OTHER -> "failed"])

(* The searched source serves its first run; the second one is built. *)
ServingInit ==
    SettledInit([r \in Runs |-> CASE r = a1 -> "active" [] r = a2 -> "ready"
                                  [] OTHER -> "absent"])

MCSpec == (FirstInit \/ CollectingInit) /\ [][Next]_vars /\ Fairness
ServingSpec == ServingInit /\ [][Next]_vars /\ Fairness
===========================================================================
