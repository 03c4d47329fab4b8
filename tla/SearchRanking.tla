--------------------------- MODULE SearchRanking ---------------------------
(***************************************************************************)
(* How SearchService turns the two lanes of candidates that PostgreSQL     *)
(* returns, each ordered and numbered on its own, into ranked evidence:    *)
(* reciprocal rank fusion of the children, the strict level that keeps     *)
(* those of both lanes, and groups by parent section up to a limit.        *)
(*                                                                         *)
(* Ids are numbers, as their UUIDs are compared as integers.  A fused      *)
(* score is kept exactly, as a number of 1/Denominator.                    *)
(***************************************************************************)
EXTENDS Naturals, Sequences, FiniteSets, SequencesExt, FiniteSetsExt

CONSTANTS
    Chunks,         \* children, by id
    ParentOf,       \* the section of each child
    LaneLimit,      \* keyword_candidate_limit and vector_candidate_limit
    Similarities,   \* raw scores at or above the floor
    Policies,       \* [k, keyword, vector]: rrf_k and the weights of the lanes
    Limits          \* of a request, in sections

RankingAssumption ==
    /\ Chunks \subseteq Nat /\ IsFiniteSet(Chunks)
    /\ ParentOf \in [Chunks -> Nat]
    /\ LaneLimit \in Nat \ {0}
    /\ Similarities \subseteq Nat
    /\ \A p \in Policies : {p.k, p.keyword, p.vector} \subseteq Nat \ {0}
    /\ Limits \subseteq Nat \ {0}

VARIABLES
    policy, level, limit,   \* of the request
    keyword, vector,        \* the lanes, as sequences of children
    stage,                  \* "retrieved", "fused", "grouped"
    fused,                  \* [chunk, keyword, vector, score], best first; rank 0 is None
    evidence                \* [parent, score, matches], best first

rankingVars == <<policy, level, limit, keyword, vector, stage, fused, evidence>>

(* sorted: the elements of S, each behind those that are before it. *)
Sorted(S, Before(_, _)) ==
    [i \in 1..Cardinality(S) |-> CHOOSE x \in S : Cardinality({y \in S : Before(y, x)}) = i - 1]

First(n, s) == SubSeq(s, 1, Min({n, Len(s)}))

(* What ORDER BY raw_score DESC, chunk_id LIMIT may return. *)
Lane(found, raw) ==
    First(LaneLimit, Sorted(found, LAMBDA c, d :
              raw[c] > raw[d] \/ (raw[c] = raw[d] /\ c < d)))

Lanes == {Lane(found, raw) : found \in SUBSET Chunks, raw \in [Chunks -> Similarities]}

RankingInit ==
    /\ policy \in Policies
    /\ level \in {"default", "strict"}
    /\ limit \in Limits
    /\ keyword \in Lanes
    /\ vector \in Lanes
    /\ stage = "retrieved"
    /\ fused = <<>>
    /\ evidence = <<>>

---------------------------------------------------------------------------
(* enumerate(lane, start=1), and 0 for a child that is not in the lane. *)
Rank(lane, c) == IF \E i \in DOMAIN lane : lane[i] = c
                 THEN CHOOSE i \in DOMAIN lane : lane[i] = c ELSE 0

Denominator ==
    LET product[n \in 0..LaneLimit] == IF n = 0 THEN 1 ELSE (policy.k + n) * product[n - 1]
    IN product[LaneLimit]

(* Mutant: a lane without the child counts with rank 0. *)
ShareOfAny(weight, rank) == weight * (Denominator \div (policy.k + rank))

Share(weight, rank) == IF rank = 0 THEN 0 ELSE weight * (Denominator \div (policy.k + rank))

Fused(first, second, c) ==
    LET i == Rank(first, c)
        j == Rank(second, c)
    IN [chunk |-> c, keyword |-> i, vector |-> j,
        score |-> Share(policy.keyword, i) + Share(policy.vector, j)]

Better(a, b) == a.score > b.score \/ (a.score = b.score /\ a.chunk < b.chunk)

(* reciprocal_rank_fusion *)
Fusion(first, second) ==
    Sorted({Fused(first, second, c) : c \in ToSet(first) \cup ToSet(second)}, Better)

(* relevance_level "strict": the children found by both lanes, in their order. *)
Strict(items) ==
    LET kept == Sorted({i \in DOMAIN items : items[i].keyword # 0 /\ items[i].vector # 0}, <)
    IN [n \in DOMAIN kept |-> items[kept[n]]]

Fuse ==
    /\ stage = "retrieved"
    /\ LET all == Fusion(keyword, vector)
       IN fused' = IF level = "strict" THEN Strict(all) ELSE all
    /\ stage' = "fused"
    /\ UNCHANGED <<policy, level, limit, keyword, vector, evidence>>

---------------------------------------------------------------------------
MatchesOf(q, items) == Sorted({f \in ToSet(items) : ParentOf[f.chunk] = q}, Better)

Group(q, items) ==
    LET matches == MatchesOf(q, items)
    IN [parent |-> q, score |-> Head(matches).score, matches |-> matches]

Ahead(g, h) == g.score > h.score \/ (g.score = h.score /\ g.parent < h.parent)

Groups(items) ==
    Sorted({Group(ParentOf[f.chunk], items) : f \in ToSet(items)}, Ahead)

(* group_evidence: best child first, then the limit. *)
GroupEvidence(items) == First(limit, Groups(items))

Answer ==
    /\ stage = "fused"
    /\ evidence' = GroupEvidence(fused)
    /\ stage' = "grouped"
    /\ UNCHANGED <<policy, level, limit, keyword, vector, fused>>

RankingNext == Fuse \/ Answer

RankingSpec == RankingInit /\ [][RankingNext]_rankingVars

---------------------------------------------------------------------------
(* c is nowhere behind d: a child that a lane lacks is behind all it has. *)
NotBehind(lane, c, d) == Rank(lane, d) = 0 \/ Rank(lane, c) \in 1..Rank(lane, d)

(* A child that neither lane puts behind another comes before it (rrf.py:  *)
(* reciprocal_rank_fusion), whatever the weights.                          *)
FusionRespectsLanes ==
    \A i, j \in DOMAIN fused :
        LET c == fused[i].chunk
            d == fused[j].chunk
        IN c # d /\ NotBehind(keyword, c, d) /\ NotBehind(vector, c, d) => i < j

(* The evidence has the sections with the best children, each once and     *)
(* with all its fused children, and leaves none out for want of room while *)
(* it has fewer than asked for (evidence.py: group_evidence).              *)
BestSectionsAreKept ==
    stage = "grouped" =>
        LET shown == {g.parent : g \in ToSet(evidence)}
            known == {ParentOf[f.chunk] : f \in ToSet(fused)}
        IN /\ Len(evidence) = Cardinality(shown)
           /\ Len(evidence) = Min({limit, Cardinality(known)})
           /\ \A f \in ToSet(fused) :
                IF ParentOf[f.chunk] \in shown
                THEN \E g \in ToSet(evidence) : f \in ToSet(g.matches)
                ELSE \A g \in ToSet(evidence) : g.score >= f.score

(* A strict search has exactly the children that both lanes found, with    *)
(* the ranks and the scores that the default search gives them             *)
(* (service.py: SearchService.search).                                     *)
StrictOnlyRemoves ==
    stage = "fused" /\ level = "strict" =>
        ToSet(fused) = {Fused(keyword, vector, c) : c \in ToSet(keyword) \cap ToSet(vector)}
===========================================================================
