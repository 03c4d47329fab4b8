--------------------------- MODULE ParentContext ---------------------------
(***************************************************************************)
(* How chunker.py's ParentContextBuilder chooses the context of a matched  *)
(* child: the section if it fits the limit, else the blocks the match lies *)
(* in and as many neighbours as fit, else a part of its only block.  The   *)
(* tokenizer is asked for every candidate anew; the search has a budget of *)
(* calls and characters.                                                   *)
(*                                                                         *)
(* A section is its characters, each a line and, in the offsets of its     *)
(* text, a token.  A window of it is measured with a drift from that.      *)
(***************************************************************************)
EXTENDS ChunkNumbers, FiniteSets, SequencesExt, FiniteSetsExt

CONSTANTS
    BlockSizes,         \* numbers of characters a block has
    MaxBlocks,          \* bound on the blocks of a section
    MaxLength,          \* bound on the characters of a section
    GroupSizes,         \* numbers of characters the groups of a text may have
    ContextDrifts,             \* differences between a measured window and its tokens
    Limit,              \* parent_context_max_tokens
    BaseProbes,         \* _CONTEXT_BASE_PROBES
    ProbesPerWindow,    \* _CONTEXT_PROBES_PER_SOURCE_WINDOW
    ContextMultiplier,    \* _CONTEXT_SEARCH_INPUT_MULTIPLIER
    NeighborRadius      \* _CONTEXT_NEIGHBOR_RADIUS

ContextAssumption ==
    /\ BlockSizes \subseteq Nat \ {0} /\ MaxBlocks \in Nat /\ MaxLength \in Nat
    /\ GroupSizes \subseteq Nat \ {0} /\ ContextDrifts \subseteq Int /\ Limit \in Nat \ {0}
    /\ BaseProbes \in Nat /\ ProbesPerWindow \in Nat
    /\ ContextMultiplier \in Nat /\ NeighborRadius \in Nat

VARIABLES
    ends,       \* the last character of each block, 0 before the first
    groups,     \* the last character of each token group of the section
    match,      \* the first and last character of the matched child
    found,      \* its place is known by its ordinal, or its text occurs once
    stage,      \* where the search stands
    best,       \* the window found so far
    probes,     \* the windows still to be probed, in order
    tried,      \* the sides of best that do not fit
    measured,   \* the windows tokenized, and whether each fits the limit
    used,       \* tokenizer calls the search has made
    sent,       \* characters it has sent
    spent       \* the budget has refused a candidate

section == <<ends, groups, match, found>>
spending == <<used, sent, spent>>
contextVars == <<section, stage, best, probes, tried, measured, spending>>

Length == Last(ends)
Size(w) == w[2] - w[1] + 1
Whole == <<1, Length>>
Holds(v, w) == v[1] <= w[1] /\ w[2] <= v[2]

---------------------------------------------------------------------------
(* Blocks                                                                  *)

Blocks == 1..Len(ends) - 1
Touched == {i \in Blocks : ends[i] < match[2] /\ ends[i + 1] >= match[1]}
SeedLeft == Min(Touched)
SeedRight == Max(Touched)
Window(left, right) == <<ends[left] + 1, ends[right + 1]>>
Seed == Window(SeedLeft, SeedRight)

LeftBlock(w) == CHOOSE i \in Blocks : ends[i] + 1 = w[1]
RightBlock(w) == CHOOSE i \in Blocks : ends[i + 1] = w[2]

(* _block_expansion_windows: the seed, then one block more each time, the  *)
(* nearer side first and the left one of two equally near.                 *)
Expansions ==
    LET before == SeedLeft - 1
        after == Len(ends) - 1 - SeedRight
        lefts(k) == Greatest(k - after, Least(before, (k + 1) \div 2))
    IN [k \in 1..before + after + 1 |->
            Window(SeedLeft - lefts(k - 1), SeedRight + (k - 1) - lefts(k - 1))]

(* Mutant: the right side is tried only when there is nothing on the left. *)
SidesLeftFirst == IF best[1] > 1 THEN {"left"} ELSE IF best[2] < Length THEN {"right"} ELSE {}

(* The sides best can grow on, and the window that growing gives.          *)
Sides == {s \in {"left", "right"} :
              IF s = "left" THEN best[1] > 1 ELSE best[2] < Length}

Grown(side) ==
    IF side = "left" THEN Window(LeftBlock(best) - 1, RightBlock(best))
    ELSE Window(LeftBlock(best), RightBlock(best) + 1)

Nearest(sides) ==
    IF sides = {"left", "right"}
    THEN IF SeedLeft - LeftBlock(best) <= RightBlock(best) - SeedRight THEN "left" ELSE "right"
    ELSE CHOOSE s \in sides : TRUE

---------------------------------------------------------------------------
(* Parts of a block: match grows to the ends of the token groups around    *)
(* it, the nearest first (_context_expansion_windows).                     *)
Cuts ==
    LET inside == (groups \cup {0}) \cap (Seed[1] - 1)..Seed[2]
    IN {[far |-> match[1] - 1 - g, side |-> 0, at |-> g + 1] : g \in {g \in inside : g + 1 < match[1]}}
       \cup {[far |-> g - match[2], side |-> 1, at |-> g] : g \in {g \in inside : g > match[2]}}

(* The cuts in their order: the nearer one, and the left one of two.       *)
Nearer(a, b) == a.far < b.far \/ (a.far = b.far /\ a.side < b.side)

Parts ==
    LET first(k) == {c \in Cuts : Cardinality({b \in Cuts : Nearer(b, c)}) < k - 1}
    IN [k \in 1..Cardinality(Cuts) + 1 |->
            <<Min({match[1]} \cup {c.at : c \in {c \in first(k) : c.side = 0}}),
              Max({match[2]} \cup {c.at : c \in {c \in first(k) : c.side = 1}})>>]

---------------------------------------------------------------------------
(* Probes and budget                                                       *)

AddProbe(indices, last, limit, i) ==
    IF i \in 1..last /\ i \notin ToSet(indices) /\ Len(indices) < limit
    THEN Append(indices, i) ELSE indices

(* _block_window_source_token_counts: the tokens of the groups that lie in *)
(* w, wholly or in part.                                                   *)
TokensIn(w) ==
    Min({g \in groups : g >= w[2]}) - Max({0} \cup {g \in groups : g < w[1]})

(* _block_context_probe_indices: the estimate, ever farther from it, and   *)
(* the ends.                                                               *)
BlockProbes ==
    LET last == Len(Expansions)
        estimate == Greatest(1, Cardinality({k \in 1..last : TokensIn(Expansions[k]) <= Limit}))
        add(indices, i) == AddProbe(indices, last, BaseProbes, i)
        around(indices, d) ==
            IF Len(indices) < BaseProbes - 3 /\ d < last
            THEN add(add(indices, estimate - d), estimate + d) ELSE indices
        near[n \in 0..last] ==
            IF n = 0 THEN add(<<>>, estimate) ELSE around(near[n - 1], 2^(n - 1))
    IN add(add(add(near[last], last), last - 1), 1)

(* _context_probe_indices: the last part and the one that the free tokens  *)
(* give, each with its neighbours, and the quarters.                       *)
PartProbes(expected) ==
    LET last == Len(Parts)
        center == Least(expected, last - 1) + 1
        distance(i) == IF i % 2 = 0 THEN - (i \div 2) ELSE i \div 2
        near(c) == [i \in 1..2 * NeighborRadius + 1 |-> c + distance(i)]
        quarters == [q \in 1..3 |-> 1 + (<<2, 1, 3>>[q] * (last - 1)) \div 4]
        candidates == near(last) \o near(center) \o quarters
        probed[n \in 0..Len(candidates)] ==
            IF n = 0 THEN <<>> ELSE AddProbe(probed[n - 1], last, last, candidates[n])
    IN probed[Len(candidates)]

(* _context_search_budget of a text of n characters *)
CallLimit(n) == BaseProbes + ProbesPerWindow * Greatest(1, (n + Limit - 1) \div Limit)
CharLimit(n) == ContextMultiplier * (n + Limit)

(* _can_exhaustively_expand_blocks *)
Exhaustible ==
    LET candidates == Len(Expansions) - 1
    IN /\ 2 * candidates <= CallLimit(Length)
       /\ 2 * candidates * Length <= CharLimit(Length)

(* The text whose length set the budget. *)
Text == IF stage = "parts" THEN Size(Seed) ELSE Length

Affordable(w) == used < CallLimit(Text) /\ sent + Size(w) <= CharLimit(Text)

Spend(w) == used' = used + 1 /\ sent' = sent + Size(w) /\ UNCHANGED spent

(* Whether w fits: what the tokenizer has said before, or some count.      *)
Fit(w, fits) ==
    /\ fits \in IF w \in DOMAIN measured THEN {measured[w]}
                ELSE {Size(w) + d <= Limit : d \in ContextDrifts}
    /\ measured' = [v \in DOMAIN measured \cup {w} |-> IF v = w THEN fits ELSE measured[v]]

(* The better of best and a window that fits or not. *)
Better(w, fits) == IF fits /\ Size(w) > Size(best) THEN w ELSE best

---------------------------------------------------------------------------
Ends(sizes) ==
    LET sum[n \in 0..Len(sizes)] == IF n = 0 THEN 0 ELSE sum[n - 1] + sizes[n]
    IN [i \in 1..Len(sizes) + 1 |-> sum[i - 1]]

Sections == {e \in {Ends(sizes) : sizes \in BoundedSeq(BlockSizes, MaxBlocks) \ {<<>>}} :
                Last(e) <= MaxLength}

GroupsOf(n) == {{i \in 1..n : i % size = 0 \/ i = n} : size \in GroupSizes}

ContextInit ==
    /\ ends \in Sections
    /\ groups \in GroupsOf(Length)
    /\ match \in {w \in (1..Length) \X (1..Length) : w[1] <= w[2]}
    /\ found \in BOOLEAN
    /\ stage = "whole"
    /\ best = match
    /\ probes = <<>> /\ tried = {}
    /\ measured = <<>>
    /\ used = 0 /\ sent = 0 /\ spent = FALSE

(* build: a section that fits is its own context. *)
TakeWhole ==
    /\ stage = "whole"
    /\ \E fits \in BOOLEAN :
         /\ Fit(Whole, fits)
         /\ stage' = IF fits THEN "done" ELSE "seed"
         /\ best' = IF fits THEN Whole ELSE best
    /\ UNCHANGED <<section, probes, tried, spending>>

(* _select_blocks: the blocks the match lies in. *)
TakeSeed ==
    /\ stage = "seed"
    /\ Fit(Seed, TRUE)
    /\ best' = Seed
    /\ stage' = IF Exhaustible THEN "grow" ELSE "bounded"
    /\ probes' = IF Exhaustible THEN <<>> ELSE BlockProbes
    /\ UNCHANGED <<section, tried, spending>>

SeedTooLong ==
    /\ stage = "seed"
    /\ Fit(Seed, FALSE)
    /\ stage' = IF SeedLeft # SeedRight \/ ~ found THEN "failed" ELSE "match"
    /\ UNCHANGED <<section, best, probes, tried, spending>>

(* _select_blocks_bounded: the longest probe that fits, *)
Probe ==
    /\ stage = "bounded" /\ probes # <<>>
    /\ LET w == Expansions[Head(probes)]
       IN IF Affordable(w)
          THEN \E fits \in BOOLEAN :
                 /\ Fit(w, fits)
                 /\ Spend(w)
                 /\ best' = Better(w, fits)
                 /\ probes' = Tail(probes)
          ELSE /\ probes' = <<>>
               /\ spent' = TRUE
               /\ UNCHANGED <<best, measured, used, sent>>
    /\ UNCHANGED <<section, stage, tried>>

(* and from there one block more while one fits, as in _select_blocks      *)
(* without a budget.                                                       *)
Grow ==
    /\ stage = "grow" \/ (stage = "bounded" /\ probes = <<>>)
    /\ Sides \ tried # {}
    /\ LET side == Nearest(Sides \ tried)
           w == Grown(side)
       IN IF stage = "grow" \/ Affordable(w)
          THEN \E fits \in BOOLEAN :
                 /\ Fit(w, fits)
                 /\ Spend(w)
                 /\ best' = IF fits THEN w ELSE best
                 /\ tried' = IF fits THEN {} ELSE tried \cup {side}
                 /\ UNCHANGED stage
          ELSE /\ stage' = "done"
               /\ spent' = TRUE
               /\ UNCHANGED <<best, tried, measured, used, sent>>
    /\ UNCHANGED <<section, probes>>

StopGrowing ==
    /\ stage = "grow" \/ (stage = "bounded" /\ probes = <<>>)
    /\ Sides \ tried = {}
    /\ stage' = "done"
    /\ UNCHANGED <<section, best, probes, tried, measured, spending>>

(* _oversized_block_excerpt: a match that fits grows within its block. *)
TakeMatch ==
    /\ stage = "match"
    /\ \E d \in ContextDrifts :
         /\ Fit(match, Size(match) + d <= Limit)
         /\ IF Size(match) + d <= Limit
            THEN stage' = "parts" /\ probes' = PartProbes(Limit - Size(match) - d)
            ELSE stage' = "failed" /\ UNCHANGED probes
    /\ UNCHANGED <<section, best, tried, spending>>

ProbePart ==
    /\ stage = "parts" /\ probes # <<>>
    /\ LET w == Parts[Head(probes)]
       IN IF Affordable(w)
          THEN \E fits \in BOOLEAN :
                 /\ Fit(w, fits)
                 /\ Spend(w)
                 /\ best' = Better(w, fits)
                 /\ probes' = Tail(probes)
          ELSE /\ probes' = <<>>
               /\ spent' = TRUE
               /\ UNCHANGED <<best, measured, used, sent>>
    /\ UNCHANGED <<section, stage, tried>>

TakePart ==
    /\ stage = "parts" /\ probes = <<>>
    /\ stage' = "done"
    /\ UNCHANGED <<section, best, probes, tried, measured, spending>>

ContextNext ==
    \/ TakeWhole \/ TakeSeed \/ SeedTooLong
    \/ Probe \/ Grow \/ StopGrowing
    \/ TakeMatch \/ ProbePart \/ TakePart

ContextSpec == ContextInit /\ [][ContextNext]_contextVars

---------------------------------------------------------------------------
(* The context returned fits the limit as the tokenizer measures it, not   *)
(* as an estimate or a sum of its parts says, and holds the whole match.   *)
ContextFits == stage = "done" => measured[best] /\ Holds(best, match)

(* A context of whole blocks is as large as it can be: the block on either *)
(* side was tried with it and does not fit, unless the budget was spent.   *)
NothingMoreFits ==
    stage = "done" /\ ~ spent /\ best # Whole /\ measured[Seed]
        => \A l \in Blocks, r \in Blocks :
             l <= r /\ Holds(Window(l, r), best)
                    /\ LeftBlock(best) - l + r - RightBlock(best) = 1
               => Window(l, r) \in DOMAIN measured /\ ~ measured[Window(l, r)]

(* The search is linear in the section, in calls and in characters; the    *)
(* loop that does not count was checked to be within the budget before.    *)
WorkIsBounded == used <= CallLimit(Text) /\ sent <= CharLimit(Text)

(* A search that has found a context only replaces it by a larger one      *)
(* around it, whatever the order of the probes.                            *)
ContextGrows == best' # best => Holds(best', best)

---------------------------------------------------------------------------
(* What the loop without a budget gives if a window measures its tokens.   *)
Greedy ==
    LET left(b) == SeedLeft - b[1]
        right(b) == b[2] - SeedRight
        grow[b \in (1..SeedLeft) \X (SeedRight..Len(ends) - 1)] ==
            LET wider == {c \in {<<b[1] - 1, b[2]>>, <<b[1], b[2] + 1>>} :
                              /\ c[1] >= 1 /\ c[2] < Len(ends)
                              /\ Size(Window(c[1], c[2])) <= Limit}
            IN IF wider = {} THEN Window(b[1], b[2])
               ELSE IF Cardinality(wider) = 1 THEN grow[CHOOSE c \in wider : TRUE]
               ELSE IF left(b) <= right(b) THEN grow[<<b[1] - 1, b[2]>>]
               ELSE grow[<<b[1], b[2] + 1>>]
    IN grow[<<SeedLeft, SeedRight>>]

(* With a tokenizer whose counts add up, the probes change nothing: the    *)
(* bounded search ends where the loop without a budget would, if its       *)
(* budget lasts.                                                           *)
BoundedIsGreedy ==
    stage = "done" /\ ~ spent /\ best # Whole /\ measured[Seed] => best = Greedy

(* With such a tokenizer, and tokens of one character, a part of a block   *)
(* fills the limit to the last token.                                      *)
PartsFillLimit ==
    stage = "done" /\ best # Whole /\ ~ measured[Seed] => Size(best) = Limit
===========================================================================
