----------------------- MODULE MCIndexTransactions ------------------------
EXTENDS IndexTransactions, TLC

CONSTANTS u, v, s1, s2, a1, a2, a3, b1, b2, b3, x, y

(* Runs a1 to a3 belong to s1, runs b1 to b3 to s2, in the order they are  *)
(* built.                                                                  *)
MCSourceOf == [r \in Runs |-> IF r \in {a1, a2, a3} THEN s1 ELSE s2]

(* Documents are added, removed and shared between the two sources. *)
TwoSnapshot == (a1 :> {x, y}) @@ (a2 :> {y}) @@ (a3 :> {}) @@ (b1 :> {x, y})

(* A database whose runs are in the statuses that stages gives them: they  *)
(* were built and activated before, and transactions died.  A worker has   *)
(* the transaction it has begun, and no lock yet.                          *)
SettledInit(stages, begun, died) ==
    /\ status = stages
    /\ failure = [r \in Runs |-> IF stages[r] = "failed" THEN "snapshot" ELSE "none"]
    /\ pointer = [s \in Sources |->
           IF \E r \in Runs : SourceOf[r] = s /\ stages[r] = "active"
           THEN CHOOSE r \in Runs : SourceOf[r] = s /\ stages[r] = "active"
           ELSE NoRun]
    /\ occurrences = [r \in Runs |->
           IF stages[r] \in Generations!Retained THEN Snapshot[r] ELSE {}]
    /\ contents = UNION {occurrences[r] : r \in Runs}
    /\ owner = [s \in Sources |-> NoWorker]
    /\ tx = begun
    /\ crashes = died

Activating(s, r, a) ==
    [NoTransaction EXCEPT !.stage = "lock", !.kind = "activate",
                          !.source = s, !.run = r, !.observed = a]

(* The third activation of s1 prunes x and y while s2, where two other   *)
(* builds failed, builds a run of them.                                    *)
PruningInit ==
    SettledInit([r \in Runs |-> CASE r = a1 -> "previous" [] r = a2 -> "active"
                                  [] r = a3 -> "ready"    [] r = b1 -> "absent"
                                  [] OTHER -> "failed"],
                [w \in Workers |-> NoTransaction], 0)

(* Both sources are about to retire a run that links the contents, the     *)
(* last two runs to do so; they have read their pointers, and no more      *)
(* transaction dies.                                                       *)
RetiringInit ==
    SettledInit([r \in Runs |-> CASE r \in {a1, b1} -> "previous"
                                  [] r \in {a2, b2} -> "active"
                                  [] r \in {a3, b3} -> "ready"],
                (u :> Activating(s1, a3, a2)) @@ (v :> Activating(s2, b3, b2)), MaxCrashes)

(* Later commits of s1 lack the contents, those of s2 keep only x. *)
OldSnapshot ==
    [r \in Runs |-> CASE r \in {a1, b1} -> Contents
                      [] r \in {b2, b3} -> {x} \cap Contents
                      [] OTHER -> {}]

RetiringSpec == RetiringInit /\ [][Next]_vars
PruningSpec == (PruningInit \/ RetiringInit) /\ [][Next]_vars /\ Fairness
===========================================================================
