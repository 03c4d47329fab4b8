-------------------------- MODULE ProfilePatterns --------------------------
(***************************************************************************)
(* How profiles.py decides whether a pattern of a source profile matches a *)
(* path: _match_segments searches pairs of positions in pattern and path,  *)
(* each once, instead of trying every way "**" may divide the path.        *)
(*                                                                         *)
(* A segment of a path is a model value; fnmatchcase, which matches one    *)
(* segment with one segment of a pattern, is a constant.                   *)
(***************************************************************************)
EXTENDS Naturals, Sequences, FiniteSets, SequencesExt

CONSTANTS
    Segments,           \* the segments of paths; "." and "" say nothing, ".." is refused
    PatternSegments,    \* the segments of patterns, "**" among them
    MaxSegments,        \* bound on the segments of a path and of a pattern
    SegmentMatches(_, _) \* fnmatchcase(segment of a path, segment of a pattern)

PatternAssumption == "**" \in PatternSegments /\ MaxSegments \in Nat

VARIABLES
    pattern,    \* pattern_segments
    given,      \* the path as it was given
    path,       \* path_segments
    states,     \* pending_states
    visited,    \* visited_states
    result,     \* "unknown", "yes", "no", or "refused"
    popped      \* states taken from them so far

patternVars == <<pattern, given, path, states, visited, result, popped>>

---------------------------------------------------------------------------
(* canonical_source_path *)
Canonical(p) ==
    LET parts[n \in 0..Len(p)] ==
            IF n = 0 THEN <<>>
            ELSE IF p[n] \in {"", "."} THEN parts[n - 1]
            ELSE Append(parts[n - 1], p[n])
    IN parts[Len(p)]

Refused(p) ==
    \/ p = <<>> \/ p[1] = ""
    \/ Canonical(p) = <<>> \/ ".." \in ToSet(Canonical(p))

PatternInit ==
    /\ pattern \in BoundedSeq(PatternSegments, MaxSegments) \ {<<>>}
    /\ given \in BoundedSeq(Segments, MaxSegments)
    /\ path = Canonical(given)
    /\ result = IF Refused(given) THEN "refused" ELSE "unknown"
    /\ states = <<<<1, 1>>>>
    /\ visited = {<<1, 1>>}
    /\ popped = 0

Literal(p, s) == s <= Len(path) /\ SegmentMatches(path[s], pattern[p])

(* What is appended of a state. *)
NotSeen(t) == IF t \in visited THEN <<>> ELSE <<t>>

(* Mutant: "**" takes at least one segment. *)
FollowingOnePlus(p, s) ==
    IF pattern[p] = "**"
    THEN IF s <= Len(path) THEN NotSeen(<<p + 1, s + 1>>) \o NotSeen(<<p, s + 1>>) ELSE <<>>
    ELSE IF Literal(p, s) THEN NotSeen(<<p + 1, s + 1>>) ELSE <<>>

(* The states that a state leads to, in the order they are appended.       *)
Following(p, s) ==
    IF pattern[p] = "**"
    THEN NotSeen(<<p + 1, s>>) \o IF s <= Len(path) THEN NotSeen(<<p, s + 1>>) ELSE <<>>
    ELSE IF Literal(p, s) THEN NotSeen(<<p + 1, s + 1>>) ELSE <<>>

Pop ==
    /\ result = "unknown" /\ states # <<>>
    /\ LET top == Last(states)
           new == IF top[1] > Len(pattern) THEN <<>> ELSE Following(top[1], top[2])
       IN /\ states' = Front(states) \o new
          /\ visited' = visited \cup ToSet(new)
          /\ result' = IF top = <<Len(pattern) + 1, Len(path) + 1>> THEN "yes" ELSE result
    /\ popped' = popped + 1
    /\ UNCHANGED <<pattern, given, path>>

Exhausted ==
    /\ result = "unknown" /\ states = <<>>
    /\ result' = "no"
    /\ UNCHANGED <<pattern, given, path, states, visited, popped>>

PatternNext == Pop \/ Exhausted

PatternSpec == PatternInit /\ [][PatternNext]_patternVars

---------------------------------------------------------------------------
(* What a pattern means: the path is cut into one stretch for each segment *)
(* of the pattern, of any length for "**" and of one matching segment for  *)
(* any other.                                                              *)
Means ==
    \E start \in [1..Len(pattern) + 1 -> 1..Len(path) + 1] :
        /\ start[1] = 1 /\ start[Len(pattern) + 1] = Len(path) + 1
        /\ \A p \in 1..Len(pattern) :
             IF pattern[p] = "**" THEN start[p] <= start[p + 1]
             ELSE start[p + 1] = start[p] + 1 /\ SegmentMatches(path[start[p]], pattern[p])

(* The search says what the pattern means. *)
ResultIsRight == (result = "yes" => Means) /\ (result = "no" => ~ Means)

(* It looks at no pair of positions twice, and so it is linear in pattern  *)
(* times path however many "**" there are.                                 *)
EachStateOnce ==
    /\ Cardinality(ToSet(states)) = Len(states)
    /\ popped + Len(states) = Cardinality(visited)
    /\ visited \subseteq (1..Len(pattern) + 1) \X (1..Len(path) + 1)

(* A pattern matches exactly the paths it means, at a bounded cost         *)
(* (profiles.py: _match_segments).                                         *)
SearchIsRight == ResultIsRight /\ EachStateOnce
===========================================================================
