---------------------------- MODULE ChildWindows ---------------------------
(***************************************************************************)
(* How chunker.py cuts a text that is too long for one child into windows: *)
(* _split_oversized_normal and _split_oversized_atomic_unit.  The text is  *)
(* its tokens 1..tokens; it may be cut at the boundaries of the groups of  *)
(* tokens that share characters.  A window is measured by tokenizing the   *)
(* heading path and the window anew, which may give more or fewer tokens   *)
(* than the window has in the text: the drift.  Measured twice, a window   *)
(* has the same count.                                                     *)
(*                                                                         *)
(* A character is counted as a token in the budget of input characters.    *)
(***************************************************************************)
EXTENDS ChunkNumbers, Sequences, FiniteSets

CONSTANTS
    MaxTokens,          \* bound on the tokens of the text
    MaxGroup,           \* bound on the tokens that share characters
    HeadingTokens,           \* numbers of tokens a heading path has
    Drifts,             \* differences between a measured window and its tokens
    Modes,              \* "normal" and "atomic"
    Target,             \* target_tokens
    SoftMax,            \* soft_max_tokens
    Overlap,            \* overlap_tokens
    AtomicMax,          \* atomic_max_tokens
    ProbeLimit,         \* _WINDOW_PROBE_LIMIT
    TinyRemainder,      \* _TINY_CORRECTIVE_REMAINDER_TOKENS
    InputMultiplier     \* _WINDOW_SEARCH_INPUT_MULTIPLIER

WindowAssumption ==
    /\ Modes \subseteq {"normal", "atomic"}
    /\ MaxTokens \in Nat /\ HeadingTokens \subseteq Nat /\ Drifts \subseteq Int
    /\ Overlap \in Nat /\ Target \in Nat /\ SoftMax \in Nat /\ AtomicMax \in Nat
    /\ Overlap < Target /\ Target <= SoftMax /\ SoftMax <= AtomicMax
    /\ ProbeLimit \in Nat /\ InputMultiplier \in Nat

VARIABLES
    mode,       \* which of the two loops runs
    tokens,     \* len(offsets)
    boundaries, \* token_group_boundaries
    prefix,     \* tokens of the heading path
    step,       \* where the loop stands
    cursor,     \* where the next window starts
    covered,    \* covered_end
    piece,      \* the last child cut, as its first and past-last token
    size,       \* its measured tokens
    search,     \* the limit and the tokens of the window looked for
    counted,    \* the windows from cursor measured so far, by their end
    calls,      \* calls_left of the search budget
    chars,      \* input_chars_left
    drifted     \* some window was measured longer than its tokens

text == <<mode, tokens, boundaries, prefix>>
loop == <<cursor, covered, piece, size>>
searchBudget == <<calls, chars>>
windowVars == <<text, step, loop, search, counted, searchBudget, drifted>>

Floor(index) == CHOOSE b \in boundaries : b <= index /\ \A c \in boundaries : c <= index => c <= b
Ceil(index) == CHOOSE b \in boundaries : b >= index /\ \A c \in boundaries : c >= index => c >= b

---------------------------------------------------------------------------
(* Limits and budgets                                                      *)

UseTarget == Target - prefix >= Greatest(1, 2 * Overlap)

SoftWindow == [tokens |-> SoftMax - prefix, limit |-> SoftMax, reduced |-> TRUE]

(* The limit of a window, and whether it may be shorter than configured.   *)
NormalWindow ==
    IF UseTarget
    THEN [tokens |-> Target - prefix, limit |-> Target, reduced |-> Target = SoftMax]
    ELSE SoftWindow

AtomicWindow == [tokens |-> AtomicMax - prefix, limit |-> AtomicMax, reduced |-> TRUE]

ConfiguredProgress(source, overlap) ==
    Least(source, Greatest(1, IF overlap > 0 THEN 2 * overlap ELSE (source + 1) \div 2))

(* _bounded_corrective_amplification *)
AmplificationBounded(remaining, source, length, overlap) ==
    LET advance(n) == Greatest(1, n - Least(overlap, n \div 2))
    IN CeilDiv(remaining, advance(length)) <= ProbeLimit * CeilDiv(remaining, advance(source))

(* _window_search_budget *)
ExpectedWindows(n, source) ==
    LET progress == ConfiguredProgress(source, Overlap)
        advance == Greatest(1, progress - Least(Overlap, progress \div 2))
    IN CeilDiv(n, advance) + 1

SourceTokens(m, p) ==
    IF m = "atomic" THEN AtomicMax - p
    ELSE IF Target - p >= Greatest(1, 2 * Overlap) THEN Target - p ELSE SoftMax - p

(* _window_probe_ends: the estimate, the bounds and the quarters between   *)
(* them, then ever farther from the estimate; the first so many that are   *)
(* within the bounds.                                                      *)
ProbeEnds(minimum, estimated, maximum) ==
    LET centers == <<estimated, minimum, maximum, (minimum + maximum) \div 2,
                     minimum + (maximum - minimum) \div 4,
                     minimum + (3 * (maximum - minimum)) \div 4>>
        around(i) == LET distance == 2^(i \div 2)
                     IN IF i % 2 = 0 THEN estimated - distance ELSE estimated + distance
        end(i) == IF i <= Len(centers) THEN centers[i] ELSE around(i - Len(centers) - 1)
        ends(i) == {end(j) : j \in 1..i} \cap minimum..maximum
    IN {end(i) : i \in {i \in 1..(Len(centers) + maximum) :
            end(i) \in minimum..maximum /\ Cardinality(ends(i)) < ProbeLimit}}

---------------------------------------------------------------------------
Windows == {w \in (0..MaxTokens) \X (0..MaxTokens) : w[1] <= w[2]}
NoSearch == [tokens |-> 0, limit |-> 0, reduced |-> FALSE]

(* Tokens, windows and budgets have their types. *)
WindowTypeOK ==
    /\ mode \in Modes /\ tokens \in 0..MaxTokens /\ prefix \in HeadingTokens
    /\ boundaries \subseteq 0..tokens /\ {0, tokens} \subseteq boundaries
    /\ step \in {"head", "search", "done", "failed"}
    /\ cursor \in boundaries /\ covered \in boundaries
    /\ piece \in Windows /\ size \in Nat
    /\ search \in [tokens : Int, limit : Nat, reduced : BOOLEAN]
    /\ calls \in Nat /\ chars \in Nat
    /\ drifted \in BOOLEAN

WindowInit ==
    /\ mode \in Modes
    /\ tokens \in 1..MaxTokens
    /\ boundaries \in {b \cup {0, tokens} : b \in SUBSET (1..tokens - 1)}
    /\ \A b \in boundaries \ {tokens} : \E c \in boundaries : c > b /\ c - b <= MaxGroup
    /\ prefix \in HeadingTokens
    /\ step = IF SourceTokens(mode, prefix) <= 0 THEN "failed" ELSE "head"
    /\ cursor = 0 /\ covered = 0
    /\ piece = <<0, 0>> /\ size = 0
    /\ search = NoSearch
    /\ counted = [end \in {} |-> 0]
    /\ LET windows == ExpectedWindows(tokens, SourceTokens(mode, prefix)) IN
       /\ calls = IF step = "failed" THEN 0 ELSE 2 * ProbeLimit * windows
       /\ chars = IF step = "failed" THEN 0 ELSE InputMultiplier * (tokens + windows * prefix)
    /\ drifted = FALSE

(* What the window from cursor to end is measured to have, with this drift *)
(* unless it has been measured before.                                     *)
Count(end, drift) ==
    IF end \in DOMAIN counted THEN counted[end] ELSE Greatest(1, prefix + end - cursor + drift)

Counts(end) == {Count(end, drift) : drift \in Drifts}

(* These windows have now been measured. *)
Measured(count) ==
    /\ counted' = [end \in DOMAIN counted \cup DOMAIN count |->
                      IF end \in DOMAIN counted THEN counted[end] ELSE count[end]]
    /\ drifted' = (drifted \/ \E end \in DOMAIN count : count[end] > prefix + end - cursor)

Once(end, count) == [e \in {end} |-> count]

(* Each probe takes a call and the characters of its window. *)
Cost(ends) == Cardinality(UNION {{end} \X (1..prefix + end - cursor) : end \in ends})

CanPay(n, cost) == n <= calls /\ cost <= chars

Pay(n, cost) == calls' = calls - n /\ chars' = chars - cost

---------------------------------------------------------------------------
(* _bounded_window_end, for the window looked for                          *)

OverlapOfMode == IF mode = "normal" THEN Overlap ELSE 0

(* The window the configuration asks for. *)
CandidateEnd == Floor(Least(cursor + search.tokens, tokens))

(* The tokens that fit, judged by the measured excess. *)
Capacity(count) == Greatest(1, CandidateEnd - cursor - Greatest(0, count - search.limit))

Progress == ConfiguredProgress(search.tokens, OverlapOfMode)

(* The window would be so short that the text falls into too many. *)
GivesUp(count) ==
    /\ Capacity(count) < Progress
    /\ tokens - cursor > TinyRemainder
    /\ search.reduced =>
          ~ AmplificationBounded(tokens - cursor, search.tokens, Capacity(count), OverlapOfMode)

(* The shorter windows that are measured. *)
ProbedEnds(count) ==
    {end \in {Floor(e) : e \in ProbeEnds(
                 cursor + Least(CandidateEnd - cursor, Least(Capacity(count), Progress)),
                 cursor + Capacity(count), CandidateEnd)} : end > cursor}

---------------------------------------------------------------------------
Unmeasured == [end \in {} |-> 0]

(* Mutant: a window that adds nothing is a child all the same. *)
TakeAny(end, count) ==
    /\ step' = "head"
    /\ counted' = Unmeasured
    /\ piece' = <<cursor, end>>
    /\ size' = count
    /\ covered' = end
    /\ cursor' = IF mode = "atomic" THEN end
                 ELSE Ceil(end - Least(Overlap, (end - cursor) \div 2))

(* The window becomes a child, unless it adds nothing to those before; the *)
(* next one of a normal text starts with the overlap.                      *)
Take(end, count) ==
    /\ step' = "head"
    /\ counted' = Unmeasured
    /\ IF mode = "normal" /\ end <= covered
       THEN cursor' = covered /\ UNCHANGED <<covered, piece, size>>
       ELSE /\ piece' = <<cursor, end>>
            /\ size' = count
            /\ covered' = end
            /\ cursor' = IF mode = "atomic" THEN end
                         ELSE Ceil(end - Least(Overlap, (end - cursor) \div 2))

(* The target cannot be met; the soft maximum may. *)
FallBack ==
    /\ IF mode = "normal" /\ search.limit < SoftMax
       THEN search' = SoftWindow /\ UNCHANGED step
       ELSE step' = "failed" /\ UNCHANGED search
    /\ UNCHANGED loop

(* Mutant: the rest is a child whatever it measures. *)
KeepAnyRest ==
    /\ step = "head" /\ mode = "normal"
    /\ tokens - cursor <= SoftMax - prefix
    /\ \E count \in Counts(tokens) :
          /\ Measured(Once(tokens, count))
          /\ piece' = <<cursor, tokens>> /\ size' = count
    /\ covered' = tokens
    /\ step' = "done"
    /\ UNCHANGED <<text, cursor, search, searchBudget>>

(* The rest fits into one child. *)
KeepRest ==
    /\ step = "head" /\ mode = "normal"
    /\ tokens - cursor <= SoftMax - prefix
    /\ \E count \in Counts(tokens) :
          /\ count <= SoftMax
          /\ Measured(Once(tokens, count))
          /\ piece' = <<cursor, tokens>> /\ size' = count
    /\ covered' = tokens
    /\ step' = "done"
    /\ UNCHANGED <<text, cursor, search, searchBudget>>

(* It should fit, and measures too long. *)
SplitRest ==
    /\ step = "head" /\ mode = "normal"
    /\ tokens - cursor <= SoftMax - prefix
    /\ \E count \in Counts(tokens) : count > SoftMax /\ Measured(Once(tokens, count))
    /\ search' = SoftWindow
    /\ step' = "search"
    /\ UNCHANGED <<text, loop, searchBudget>>

SeekWindow ==
    /\ step = "head"
    /\ IF mode = "normal" THEN tokens - cursor > SoftMax - prefix ELSE cursor < tokens
    /\ search' = IF mode = "normal" THEN NormalWindow ELSE AtomicWindow
    /\ step' = "search"
    /\ UNCHANGED <<text, loop, counted, searchBudget, drifted>>

EndAtomic ==
    /\ step = "head" /\ mode = "atomic" /\ cursor = tokens
    /\ step' = "done"
    /\ UNCHANGED <<text, loop, search, counted, searchBudget, drifted>>

(* A group of tokens that cannot be cut is longer than the window. *)
FindNothing ==
    /\ step = "search"
    /\ CandidateEnd <= cursor
    /\ FallBack
    /\ UNCHANGED <<text, counted, searchBudget, drifted>>

TakeCandidate ==
    /\ step = "search"
    /\ CandidateEnd > cursor
    /\ CanPay(1, Cost({CandidateEnd}))
    /\ \E count \in Counts(CandidateEnd) :
          /\ count <= search.limit
          /\ drifted' = (drifted \/ count > prefix + CandidateEnd - cursor)
          /\ Take(CandidateEnd, count)
    /\ Pay(1, Cost({CandidateEnd}))
    /\ UNCHANGED <<text, search>>

GiveUp ==
    /\ step = "search"
    /\ CandidateEnd > cursor
    /\ CanPay(1, Cost({CandidateEnd}))
    /\ \E count \in Counts(CandidateEnd) :
          /\ count > search.limit
          /\ GivesUp(count)
          /\ Measured(Once(CandidateEnd, count))
    /\ Pay(1, Cost({CandidateEnd}))
    /\ FallBack
    /\ UNCHANGED text

(* The longest of the probed windows that fits, if one does. *)
TakeProbed ==
    /\ step = "search"
    /\ CandidateEnd > cursor
    /\ \E first \in Counts(CandidateEnd) :
        LET ends == ProbedEnds(first)
            probes == 1 + Cardinality(ends)
            cost == Cost({CandidateEnd}) + Cost(ends)
        IN /\ first > search.limit
           /\ ~ GivesUp(first)
           /\ CanPay(probes, cost)
           /\ Pay(probes, cost)
           /\ \E drift \in [ends \ {CandidateEnd} -> Drifts] :
                 LET count == [end \in ends |-> IF end = CandidateEnd THEN first
                                                ELSE Count(end, drift[end])]
                     fitting == {end \in ends : count[end] <= search.limit}
                     longest == CHOOSE end \in fitting : \A e \in fitting : e <= end
                 IN IF fitting # {}
                    THEN Take(longest, count[longest]) /\ UNCHANGED search /\ drifted' = TRUE
                    ELSE FallBack /\ Measured([end \in ends \cup {CandidateEnd} |->
                                                   IF end \in ends THEN count[end] ELSE first])
    /\ UNCHANGED text

(* The budget of the search is used up. *)
Exhaust ==
    /\ step = "search"
    /\ CandidateEnd > cursor
    /\ \E first \in Counts(CandidateEnd) :
          \/ ~ CanPay(1, Cost({CandidateEnd}))
          \/ /\ first > search.limit /\ ~ GivesUp(first)
             /\ ~ CanPay(1 + Cardinality(ProbedEnds(first)),
                         Cost({CandidateEnd}) + Cost(ProbedEnds(first)))
    /\ step' = "failed"
    /\ UNCHANGED <<text, loop, search, counted, searchBudget, drifted>>

WindowNext ==
    \/ KeepRest \/ SplitRest \/ SeekWindow \/ EndAtomic
    \/ FindNothing \/ TakeCandidate \/ GiveUp \/ TakeProbed \/ Exhaust

WindowSpec == WindowInit /\ [][WindowNext]_windowVars

---------------------------------------------------------------------------
(* Every child is measured to fit the limit of its kind. *)
ChildrenFit == size <= IF mode = "normal" THEN SoftMax ELSE AtomicMax

(* No text is left out and no child repeats what the ones before it hold:  *)
(* a child starts in the one before it or at its end, at most the overlap  *)
(* before, and ends beyond.                                                *)
Follows ==
    piece' # piece => piece'[1] \in piece[2] - OverlapOfMode .. piece[2] /\ piece'[2] > piece[2]

(* When the loop ends, all of the text is in children. *)
TextIsCovered == step = "done" => piece[2] = tokens

(* Only a tokenizer that counts more when it counts anew, tokens that      *)
(* share characters beyond what fits a child, or a heading path that       *)
(* leaves no room make the text impossible to cut.                         *)
FailureHasCause ==
    step = "failed" =>
        \/ drifted
        \/ SourceTokens(mode, prefix) <= 0
        \/ \E b \in boundaries \ {tokens} : \A c \in boundaries :
              c > b => c - b > IF mode = "normal" THEN SoftMax - prefix ELSE AtomicMax - prefix

Stage ==
    CASE step = "head" -> 0
      [] step = "search" -> IF search.limit < SoftMax THEN 1 ELSE 2
      [] OTHER -> 3

(* A tokenizer that counts at most one token more than there are never     *)
(* makes a text impossible to cut, unless the heading path leaves room for *)
(* one token only.                                                         *)
SmallDriftIsHarmless == step = "failed" => SourceTokens(mode, prefix) <= 1

(* The loop ends, whatever the tokenizer counts: each step covers more of  *)
(* the text, or moves on in it, or comes nearer to the end of its search.  *)
NearsEnd ==
    \/ covered' > covered
    \/ covered' = covered /\ cursor' > cursor
    \/ covered' = covered /\ cursor' = cursor /\ Stage' > Stage
===========================================================================
