-------------------------- MODULE Chunking_proofs -------------------------
(***************************************************************************)
(* The windows of a text are all of it and fit, and the context of a match *)
(* holds it, fits, and stays within its budget, for every text, section,   *)
(* match, limit and whatever the tokenizer counts.                         *)
(*                                                                         *)
(* The invariant of the windows (WindowInv): the last child reaches to     *)
(* where the text is covered, the next one starts at most the overlap      *)
(* before, and a window is looked for only in a text that does not fit as  *)
(* a whole.  That of the context (ContextInv): what has been found was     *)
(* measured to fit and is a window of whole blocks, in the order of the    *)
(* expansions while they are probed, or a part of the match's block; the   *)
(* sides that were tried are too long; a loop without a budget has called  *)
(* at most twice for each block it could add.                              *)
(***************************************************************************)
EXTENDS Chunking, FiniteSetTheorems, SequenceTheorems, WellFoundedInduction, TLAPS

(* A set of numbers that is not empty has a least one: what holds of 0 and *)
(* passes from each number to the next holds of all.                       *)
LEMMA LeastNumber ==
    ASSUME NEW A, A \subseteq Nat, A # {}
    PROVE  \E m \in A : \A k \in A : m <= k
<1> DEFINE Below == {0..m : m \in A}
<1>1. \A m \in A : 0..m \in FiniteSubsetsOf(Nat)
  BY FS_Interval DEF FiniteSubsetsOf
<1>2. Below \subseteq FiniteSubsetsOf(Nat) /\ Below # {}
  BY <1>1
<1>3. PICK T \in Below : \A U \in Below : ~(<<U, T>> \in StrictSubsetOrdering(Nat))
  <2> HIDE DEF Below
  <2> QED BY <1>2, WFMin, FS_StrictSubsetOrderingWellFounded
<1>4. PICK m \in A : T = 0..m
  OBVIOUS
<1>5. ASSUME NEW k \in A, k < m PROVE FALSE
  <2>1. 0..k \in Below /\ 0..k \subseteq 0..m /\ 0..k # 0..m
    BY <1>4, <1>5
  <2>2. <<0..k, T>> \in StrictSubsetOrdering(Nat)
    BY <1>4, <2>1, <1>5 DEF StrictSubsetOrdering
  <2> QED BY <1>3, <2>1, <2>2
<1> QED BY <1>5

(* A set of numbers with a bound that is not empty has a greatest one. *)
LEMMA GreatestNumber ==
    ASSUME NEW n \in Nat, NEW A, A \subseteq 0..n, A # {}
    PROVE  \E m \in A : \A k \in A : k <= m
<1> DEFINE B == {n - k : k \in A}
<1>1. B \subseteq Nat /\ B # {}
  <2>1. \A k \in A : k \in 0..n
    OBVIOUS
  <2>2. \A k \in A : n - k \in Nat
    BY <2>1
  <2> QED BY <2>2
<1>2. PICK b \in B : \A c \in B : b <= c
  <2> HIDE DEF B
  <2> QED BY <1>1, LeastNumber
<1>3. PICK m \in A : b = n - m
  OBVIOUS
<1>4. ASSUME NEW k \in A PROVE k <= m
  <2>1. n - k \in B
    OBVIOUS
  <2>2. n - m <= n - k
    BY <1>2, <1>3, <2>1
  <2> QED BY <2>2
<1> QED BY <1>4


(* What a chain of steps from x computes, the n-th step next[n]. *)
Steps(m, X) == [1..m -> [X -> X]]

Chains(m, X, x, next) ==
    {g \in [0..m -> X] : g[0] = x /\ \A n \in 1..m : g[n] = next[n][g[n - 1]]}

LEMMA RecursionExists ==
    ASSUME NEW m \in Nat, NEW X, NEW x \in X, NEW next \in Steps(m, X)
    PROVE  Chains(m, X, x, next) # {}
<1> DEFINE Good(k, g) == g[0] = x /\ \A n \in 1..k : g[n] = next[n][g[n - 1]]
           Made(k) == \E g \in [0..k -> X] : Good(k, g)
           A == {k \in 0..m : ~ Made(k)}
<1> SUFFICES A = {}
  <2> HIDE DEF Made
  <2>1. A = {} => Made(m)
    OBVIOUS
  <2> USE DEF Made
  <2> QED BY <2>1 DEF Chains
<1> SUFFICES ASSUME A # {} PROVE FALSE
  OBVIOUS
<1>1. PICK k \in A : \A j \in A : k <= j
  <2>1. A \subseteq Nat
    OBVIOUS
  <2> HIDE DEF A
  <2> QED BY <2>1, LeastNumber
<1>9. k \in 0..m /\ ~ Made(k) /\ \A j \in 0..m : j < k => Made(j)
  <2> HIDE DEF Made
  <2>1. k \in 0..m /\ ~ Made(k)
    BY <1>1
  <2>2. ASSUME NEW j \in 0..m, j < k PROVE Made(j)
    BY <1>1, <2>1, <2>2
  <2> QED BY <2>1, <2>2 DEF Steps
<1>2. CASE k = 0
  <2>1. Good(0, [n \in 0..0 |-> x]) /\ [n \in 0..0 |-> x] \in [0..0 -> X]
    OBVIOUS
  <2> QED BY <1>9, <1>2, <2>1
<1>3. CASE k # 0
  <2>0. k - 1 \in 0..m /\ k - 1 < k /\ k \in 1..m
    BY <1>9, <1>3 DEF Steps
  <2>1. k - 1 \in 0..m /\ Made(k - 1) /\ k \in 1..m
    <3> HIDE DEF Made
    <3> QED BY <1>9, <2>0
  <2>2. PICK g \in [0..k - 1 -> X] : Good(k - 1, g)
    BY <2>1
  <2> DEFINE h == [n \in 0..k |-> IF n = k THEN next[k][g[k - 1]] ELSE g[n]]
  <2>3. g[k - 1] \in X /\ next[k][g[k - 1]] \in X
    BY <2>1, <2>2 DEF Steps
  <2>4. h \in [0..k -> X]
    BY <2>1, <2>2, <2>3
  <2>5. Good(k, h)
    <3>1. h[0] = x /\ h[k] = next[k][h[k - 1]]
      BY <1>3, <2>1, <2>2
    <3>2. ASSUME NEW n \in 1..k - 1 PROVE h[n] = next[n][h[n - 1]]
      BY <2>1, <2>2 DEF Steps
    <3>3. \A n \in 1..k : n = k \/ n \in 1..k - 1
      BY <2>1
    <3> HIDE DEF h
    <3> QED BY <3>1, <3>2, <3>3
  <2> HIDE DEF h, Good
  <2> QED BY <1>9, <2>4, <2>5
<1> QED BY <1>2, <1>3

---------------------------------------------------------------------------
(* The windows of a long text. *)
Looping == step \in {"head", "search"}

(* A child reaches to where the text is covered, and the next one starts   *)
(* no more than the overlap before.                                        *)
Placed ==
    /\ piece[2] = covered
    /\ Looping => /\ cursor \in covered - OverlapOfMode .. covered
                  /\ mode = "normal" => covered < tokens

(* A window is only looked for in a text that does not fit as a whole.     *)
Sought ==
    step = "search" =>
        /\ search.tokens >= 1
        /\ mode = "atomic" => search.limit = AtomicMax
        /\ mode = "normal" =>
             /\ search.limit <= SoftMax /\ search.tokens <= SoftMax - prefix
             /\ \/ tokens - cursor > SoftMax - prefix
                \/ tokens \in DOMAIN counted /\ counted[tokens] > SoftMax

HasRoom == step # "failed" => SourceTokens(mode, prefix) > 0

WindowInv ==
    /\ WindowTypeOK /\ tokens >= 1 /\ \A end \in DOMAIN counted : counted[end] \in Nat
    /\ ChildrenFit /\ TextIsCovered
    /\ Placed /\ Sought /\ HasRoom

(* What the limits are for. *)
LEMMA Limits ==
    /\ Modes \subseteq {"normal", "atomic"}
    /\ MaxTokens \in Nat /\ HeadingTokens \subseteq Nat /\ Drifts \subseteq Int
    /\ Overlap \in Nat /\ Target \in Nat /\ SoftMax \in Nat /\ AtomicMax \in Nat
    /\ Overlap < Target /\ Target <= SoftMax /\ SoftMax <= AtomicMax
    /\ ProbeLimit \in Nat /\ InputMultiplier \in Nat
BY ChunkingAssumption DEF WindowAssumption

LEMMA TextShape ==
    ASSUME WindowTypeOK
    PROVE  /\ mode \in {"normal", "atomic"} /\ tokens \in Nat /\ tokens <= MaxTokens /\ prefix \in Nat
           /\ boundaries \subseteq 0..tokens /\ 0 \in boundaries /\ tokens \in boundaries
           /\ cursor \in boundaries /\ covered \in boundaries
           /\ cursor \in Nat /\ covered \in Nat /\ cursor <= tokens /\ covered <= tokens
           /\ search.tokens \in Int /\ search.limit \in Nat
           /\ calls \in Nat /\ chars \in Nat /\ size \in Nat /\ drifted \in BOOLEAN
           /\ OverlapOfMode \in Nat
BY Limits DEF WindowTypeOK, OverlapOfMode

LEMMA FloorIs ==
    ASSUME WindowTypeOK, NEW index \in Nat
    PROVE  /\ Floor(index) \in boundaries /\ Floor(index) <= index
           /\ \A c \in boundaries : c <= index => c <= Floor(index)
<1> DEFINE A == {b \in boundaries : b <= index}
<1>1. A \subseteq 0..tokens /\ A # {} /\ tokens \in Nat
  BY TextShape
<1>2. PICK m \in A : \A k \in A : k <= m
  <2> HIDE DEF A
  <2> QED BY <1>1, GreatestNumber
<1>3. m \in boundaries /\ m <= index /\ \A c \in boundaries : c <= index => c <= m
  BY <1>2
<1> QED BY <1>3 DEF Floor

LEMMA CeilIs ==
    ASSUME WindowTypeOK, NEW index \in Nat, index <= tokens
    PROVE  /\ Ceil(index) \in boundaries /\ Ceil(index) >= index
           /\ \A c \in boundaries : c >= index => c >= Ceil(index)
<1> DEFINE A == {b \in boundaries : b >= index}
<1>1. A \subseteq Nat /\ A # {}
  BY TextShape
<1>2. PICK m \in A : \A k \in A : m <= k
  <2> HIDE DEF A
  <2> QED BY <1>1, LeastNumber
<1>3. m \in boundaries /\ m >= index /\ \A c \in boundaries : c >= index => c >= m
  BY <1>2, TextShape
<1> QED BY <1>3 DEF Ceil

(* What is sent is a number. *)
LEMMA CostIsNumber ==
    ASSUME WindowTypeOK, NEW windows \in SUBSET boundaries
    PROVE  IsFiniteSet(windows) /\ Cardinality(windows) \in Nat /\ Cost(windows) \in Nat
<1> DEFINE n == prefix + tokens
           all == windows \X (1..n)
           sent_ == UNION {{end} \X (1..prefix + end - cursor) : end \in windows}
<1>0. n \in Nat /\ tokens \in Nat
  BY TextShape
<1>1. n \in Nat /\ IsFiniteSet(0..tokens) /\ IsFiniteSet(1..n)
  <2> HIDE DEF n
  <2> QED BY <1>0, FS_Interval
<1>2. IsFiniteSet(windows)
  BY <1>1, TextShape, FS_Subset
<1>3. IsFiniteSet(all)
  BY <1>1, <1>2, FS_Product
<1>4. ASSUME NEW end \in windows, NEW k \in 1..prefix + end - cursor PROVE k \in 1..n
  BY TextShape
<1>5. sent_ \subseteq all
  BY <1>4
<1>6. IsFiniteSet(sent_)
  <2> HIDE DEF all, sent_
  <2> QED BY <1>3, <1>5, FS_Subset
<1> QED BY <1>2, <1>6, FS_CardinalityType DEF Cost

LEMMA CountIsNumber ==
    ASSUME WindowInv, NEW end \in boundaries, NEW drift \in Drifts
    PROVE  Count(end, drift) \in Nat
BY TextShape, Limits DEF WindowInv, Count, Greatest

(* A window that fits becomes a child, or shows where the text goes on.    *)
LEMMA TakeKeeps ==
    ASSUME WindowInv, step = "search", NEW end \in boundaries, NEW count \in Nat,
           end > cursor, count <= search.limit, mode = "normal" => end # tokens,
           Take(end, count), UNCHANGED <<text, search>>,
           drifted' \in BOOLEAN, calls' \in Nat, chars' \in Nat
    PROVE  WindowInv' /\ Follows /\ NearsEnd
<1>1. /\ end \in Nat /\ end <= tokens /\ piece[2] = covered
      /\ cursor \in covered - OverlapOfMode .. covered /\ (mode = "normal" => covered < tokens)
      /\ mode = "normal" => end < tokens
  BY TextShape DEF WindowInv, Placed, Looping
<1>2. /\ step' = "head" /\ DOMAIN counted' = {} /\ search' = search
      /\ mode' = mode /\ tokens' = tokens /\ boundaries' = boundaries /\ prefix' = prefix
      /\ OverlapOfMode' = OverlapOfMode
  BY DEF Take, Unmeasured, text, OverlapOfMode
<1>3. Sought' /\ HasRoom' /\ TextIsCovered' /\ tokens' >= 1 /\ \A e \in DOMAIN counted' : counted'[e] \in Nat
  BY <1>2 DEF WindowInv, Sought, HasRoom, TextIsCovered, SourceTokens
<1>4. CASE mode = "normal" /\ end <= covered
  <2>1. cursor' = covered /\ covered' = covered /\ piece' = piece /\ size' = size
    BY <1>4 DEF Take
  <2>2. WindowTypeOK'
    BY <1>2, <2>1 DEF WindowInv, WindowTypeOK
  <2>3. ChildrenFit' /\ Follows
    BY <1>2, <2>1 DEF WindowInv, ChildrenFit, Follows
  <2>4. Placed'
    BY <1>1, <1>2, <2>1, <1>4, TextShape DEF WindowInv, Placed, Looping
  <2>5. NearsEnd
    BY <1>1, <1>4, <2>1, TextShape DEF NearsEnd, WindowInv
  <2> QED BY <1>3, <2>2, <2>3, <2>4, <2>5 DEF WindowInv
<1>5. CASE ~ (mode = "normal" /\ end <= covered)
  <2>1. /\ piece' = <<cursor, end>> /\ size' = count /\ covered' = end
        /\ cursor' = IF mode = "atomic" THEN end ELSE Ceil(end - Least(Overlap, (end - cursor) \div 2))
    BY <1>5 DEF Take
  <2>2. end > covered
    BY <1>1, <1>5, TextShape DEF OverlapOfMode, WindowInv
  <2>3. /\ cursor' \in boundaries /\ cursor' \in end - OverlapOfMode .. end
    <3>1. CASE mode = "atomic"
      BY <1>1, <2>1, <3>1 DEF OverlapOfMode
    <3>2. CASE mode = "normal"
      <4> DEFINE back == Least(Overlap, (end - cursor) \div 2)
      <4>1. back \in Nat /\ back <= Overlap /\ back <= end
        BY <1>1, Limits, TextShape DEF WindowInv, Least
      <4>2. cursor' = Ceil(end - back) /\ OverlapOfMode = Overlap
        BY <2>1, <3>2 DEF OverlapOfMode
      <4> HIDE DEF back
      <4>3. end - back \in Nat /\ end - back <= tokens /\ end >= end - back
        BY <1>1, <4>1, TextShape DEF WindowInv
      <4>4. Ceil(end - back) \in boundaries /\ Ceil(end - back) >= end - back /\ Ceil(end - back) <= end
        BY <4>3, CeilIs DEF WindowInv
      <4>5. Ceil(end - back) \in Int
        BY <4>4, TextShape DEF WindowInv
      <4> QED BY <1>1, <4>1, <4>2, <4>4, <4>5, Limits
    <3> QED BY <3>1, <3>2, TextShape DEF WindowInv
  <2>4. WindowTypeOK'
    <3>1. piece' \in Windows
      BY <1>1, <2>1, TextShape, Limits DEF Windows, WindowInv
    <3> QED BY <1>2, <2>1, <2>3, <3>1 DEF WindowInv, WindowTypeOK
  <2>5. ChildrenFit'
    <3> DEFINE most == IF mode = "normal" THEN SoftMax ELSE AtomicMax
    <3>1. search.limit <= most
      BY Limits, TextShape DEF WindowInv, Sought
    <3>2. size' <= search.limit /\ size' \in Int /\ mode' = mode
      BY <1>2, <2>1
    <3>3. search.limit \in Int /\ most \in Int
      BY Limits, TextShape DEF WindowInv
    <3> HIDE DEF most
    <3>4. size' <= most
      BY <3>1, <3>2, <3>3
    <3> QED BY <3>2, <3>4 DEF ChildrenFit, most
  <2>6. Follows /\ NearsEnd
    BY <1>1, <1>2, <2>1, <2>2 DEF Follows, NearsEnd
  <2>7. Placed'
    BY <1>1, <1>2, <2>1, <2>3 DEF Placed, Looping
  <2> QED BY <1>3, <2>4, <2>5, <2>6, <2>7 DEF WindowInv
<1> QED BY <1>4, <1>5

(* A window that is not found is looked for with the soft maximum, or the  *)
(* text cannot be cut.                                                     *)
LEMMA FallBackKeeps ==
    ASSUME WindowInv, step = "search", FallBack, UNCHANGED text,
           drifted' \in BOOLEAN, calls' \in Nat, chars' \in Nat,
           \A e \in DOMAIN counted' : counted'[e] \in Nat,
           \A e \in DOMAIN counted : e \in DOMAIN counted' /\ counted'[e] = counted[e]
    PROVE  WindowInv' /\ Follows /\ NearsEnd
<1>1. /\ cursor' = cursor /\ covered' = covered /\ piece' = piece /\ size' = size
      /\ mode' = mode /\ tokens' = tokens /\ boundaries' = boundaries /\ prefix' = prefix
      /\ OverlapOfMode' = OverlapOfMode
  BY DEF FallBack, loop, text, OverlapOfMode
<1>2. ChildrenFit' /\ Follows /\ tokens' >= 1
  BY <1>1 DEF WindowInv, ChildrenFit, Follows
<1>3. CASE mode = "normal" /\ search.limit < SoftMax
  <2>1. search' = SoftWindow /\ step' = step
    BY <1>3 DEF FallBack
  <2>2. search' \in [tokens : Int, limit : Nat, reduced : BOOLEAN] /\ search'.limit = SoftMax
        /\ search'.tokens = SoftMax - prefix
    BY <2>1, Limits, TextShape DEF SoftWindow, WindowInv
  <2>3. WindowTypeOK'
    BY <1>1, <2>1, <2>2 DEF WindowInv, WindowTypeOK
  <2>4. SoftMax - prefix >= 1
    BY Limits, TextShape, <1>3 DEF WindowInv, HasRoom, SourceTokens
  <2>5. Sought'
    BY <1>1, <1>3, <2>1, <2>2, <2>4, Limits, TextShape DEF WindowInv, Sought
  <2>6. Placed' /\ HasRoom' /\ TextIsCovered'
    BY <1>1, <2>1 DEF WindowInv, Placed, HasRoom, TextIsCovered, SourceTokens, Looping
  <2>7. NearsEnd
    BY <1>1, <1>3, <2>1, <2>2, Limits, TextShape DEF NearsEnd, Stage, WindowInv
  <2> QED BY <1>2, <2>3, <2>5, <2>6, <2>7 DEF WindowInv
<1>4. CASE ~ (mode = "normal" /\ search.limit < SoftMax)
  <2>1. search' = search /\ step' = "failed"
    BY <1>4 DEF FallBack
  <2>2. WindowTypeOK'
    BY <1>1, <2>1 DEF WindowInv, WindowTypeOK
  <2>3. Sought' /\ Placed' /\ HasRoom' /\ TextIsCovered'
    BY <1>1, <2>1 DEF WindowInv, Sought, Placed, HasRoom, TextIsCovered, Looping
  <2>4. NearsEnd
    BY <1>1, <2>1 DEF NearsEnd, Stage
  <2> QED BY <1>2, <2>2, <2>3, <2>4 DEF WindowInv
<1> QED BY <1>3, <1>4

LEMMA CandidateIs ==
    ASSUME WindowInv, step = "search"
    PROVE  /\ CandidateEnd \in boundaries /\ CandidateEnd \in Nat
           /\ CandidateEnd <= cursor + search.tokens
           /\ mode = "normal" /\ CandidateEnd = tokens =>
                tokens \in DOMAIN counted /\ counted[tokens] > search.limit
<1> DEFINE index == Least(cursor + search.tokens, tokens)
<1>1. index \in Nat /\ index <= cursor + search.tokens
  BY TextShape DEF WindowInv, Sought, Least
<1>2. CandidateEnd = Floor(index)
  BY DEF CandidateEnd
<1> HIDE DEF index
<1>3. CandidateEnd \in boundaries /\ CandidateEnd <= index
  BY <1>1, <1>2, FloorIs DEF WindowInv
<1>4. CandidateEnd \in Nat /\ CandidateEnd <= cursor + search.tokens
  BY <1>1, <1>3, TextShape DEF WindowInv
<1>5. ASSUME mode = "normal", CandidateEnd = tokens
      PROVE  tokens \in DOMAIN counted /\ counted[tokens] > search.limit
  <2>1. tokens - cursor <= SoftMax - prefix
    BY <1>4, <1>5, Limits, TextShape DEF WindowInv, Sought
  <2>2. tokens \in DOMAIN counted /\ counted[tokens] > SoftMax /\ search.limit <= SoftMax
    BY <1>5, <2>1, Limits, TextShape DEF WindowInv, Sought
  <2> QED BY <2>2, Limits, TextShape DEF WindowInv
<1> QED BY <1>3, <1>4, <1>5

LEMMA ProbesAreWithin ==
    ASSUME NEW minimum, NEW estimated, NEW maximum
    PROVE  ProbeEnds(minimum, estimated, maximum) \subseteq minimum..maximum
BY DEF ProbeEnds

LEMMA ProbedAre ==
    ASSUME WindowInv, step = "search", CandidateEnd > cursor, NEW first \in Nat
    PROVE  /\ ProbedEnds(first) \in SUBSET boundaries
           /\ \A end \in ProbedEnds(first) : end > cursor /\ end <= CandidateEnd
<1> DEFINE lowest == cursor + Least(CandidateEnd - cursor, Least(Capacity(first), Progress))
           tried_ == ProbeEnds(lowest, cursor + Capacity(first), CandidateEnd)
<1>1. CandidateEnd \in boundaries /\ CandidateEnd \in Nat /\ cursor \in Nat
  BY CandidateIs, TextShape DEF WindowInv
<1>2. Capacity(first) \in Nat /\ Capacity(first) >= 1
  BY <1>1, TextShape DEF Capacity, Greatest, WindowInv
<1>3. Progress \in Nat /\ Progress >= 1
  BY TextShape DEF Progress, ConfiguredProgress, Least, Greatest, WindowInv, Sought
<1>4. lowest \in Nat
  BY <1>1, <1>2, <1>3 DEF Least
<1>5. tried_ \subseteq lowest..CandidateEnd
  BY ProbesAreWithin
<1>6. ProbedEnds(first) = {end \in {Floor(e) : e \in tried_} : end > cursor}
  BY DEF ProbedEnds
<1> HIDE DEF lowest, tried_
<1>7. ASSUME NEW e \in tried_ PROVE Floor(e) \in boundaries /\ Floor(e) <= CandidateEnd
  <2>1. e \in Nat /\ e <= CandidateEnd
    BY <1>1, <1>4, <1>5
  <2>2. Floor(e) \in boundaries /\ Floor(e) <= e /\ Floor(e) \in Int
    BY <2>1, FloorIs, TextShape DEF WindowInv
  <2> QED BY <1>1, <2>1, <2>2
<1> QED BY <1>6, <1>7

---------------------------------------------------------------------------
LEMMA RestKeeps == ASSUME WindowInv, KeepRest PROVE WindowInv' /\ Follows /\ NearsEnd
<1>1. PICK count \in Counts(tokens) :
          count <= SoftMax /\ Measured(Once(tokens, count)) /\ piece' = <<cursor, tokens>> /\ size' = count
  BY DEF KeepRest
<1>2. count \in Nat
  BY <1>1, CountIsNumber, TextShape DEF Counts, WindowInv
<1>3. /\ step = "head" /\ mode = "normal" /\ step' = "done" /\ covered' = tokens /\ cursor' = cursor
      /\ search' = search /\ calls' = calls /\ chars' = chars
      /\ mode' = mode /\ tokens' = tokens /\ boundaries' = boundaries /\ prefix' = prefix
      /\ OverlapOfMode' = OverlapOfMode
  BY DEF KeepRest, text, searchBudget, OverlapOfMode
<1>4. drifted' \in BOOLEAN /\ \A e \in DOMAIN counted' : counted'[e] \in Nat
  <2>1. \A e \in DOMAIN Once(tokens, count) : Once(tokens, count)[e] \in Nat
    BY <1>2 DEF Once
  <2> QED BY <1>1, <2>1, TextShape DEF Measured, WindowInv
<1>5. covered < tokens /\ cursor \in covered - OverlapOfMode .. covered /\ piece[2] = covered
  BY <1>3 DEF WindowInv, Placed, Looping
<1>6. WindowTypeOK'
  <2>1. piece' \in Windows
    BY <1>1, TextShape, Limits DEF Windows, WindowInv
  <2> QED BY <1>1, <1>2, <1>3, <1>4, <2>1, TextShape DEF WindowInv, WindowTypeOK
<1>7. ChildrenFit' /\ TextIsCovered' /\ Placed' /\ Sought' /\ HasRoom' /\ tokens' >= 1
  BY <1>1, <1>2, <1>3 DEF ChildrenFit, TextIsCovered, Placed, Looping, Sought, HasRoom, SourceTokens, WindowInv
<1>8. Follows /\ NearsEnd
  BY <1>1, <1>3, <1>5, TextShape DEF Follows, NearsEnd, WindowInv
<1> QED BY <1>4, <1>6, <1>7, <1>8 DEF WindowInv

LEMMA SplitKeeps == ASSUME WindowInv, SplitRest PROVE WindowInv' /\ Follows /\ NearsEnd
<1>1. PICK count \in Counts(tokens) : count > SoftMax /\ Measured(Once(tokens, count))
  BY DEF SplitRest
<1>2. count \in Nat
  BY <1>1, CountIsNumber, TextShape DEF Counts, WindowInv
<1>3. /\ step = "head" /\ mode = "normal" /\ step' = "search" /\ search' = SoftWindow
      /\ cursor' = cursor /\ covered' = covered /\ piece' = piece /\ size' = size
      /\ calls' = calls /\ chars' = chars
      /\ mode' = mode /\ tokens' = tokens /\ boundaries' = boundaries /\ prefix' = prefix
      /\ OverlapOfMode' = OverlapOfMode
  BY DEF SplitRest, text, loop, searchBudget, OverlapOfMode
<1>4. /\ drifted' \in BOOLEAN /\ \A e \in DOMAIN counted' : counted'[e] \in Nat
      /\ tokens \in DOMAIN counted' /\ counted'[tokens] > SoftMax
  <2>1. DOMAIN Once(tokens, count) = {tokens} /\ Once(tokens, count)[tokens] = count
    BY DEF Once
  <2>2. tokens \in DOMAIN counted => counted[tokens] = count
    BY <1>1 DEF Counts, Count
  <2> QED BY <1>1, <1>2, <2>1, <2>2, TextShape DEF Measured, WindowInv
<1>5. search' \in [tokens : Int, limit : Nat, reduced : BOOLEAN] /\ search'.limit = SoftMax
      /\ search'.tokens = SoftMax - prefix
  BY <1>3, Limits, TextShape DEF SoftWindow, WindowInv
<1>6. WindowTypeOK'
  BY <1>3, <1>4, <1>5 DEF WindowInv, WindowTypeOK
<1>7. SoftMax - prefix >= 1
  BY <1>3, Limits, TextShape DEF WindowInv, HasRoom, SourceTokens
<1>8. Sought'
  BY <1>3, <1>4, <1>5, <1>7, Limits, TextShape DEF WindowInv, Sought
<1>9. ChildrenFit' /\ TextIsCovered' /\ Placed' /\ HasRoom' /\ tokens' >= 1 /\ Follows
  BY <1>3 DEF ChildrenFit, TextIsCovered, Placed, Looping, HasRoom, SourceTokens, WindowInv, Follows
<1>10. NearsEnd
  BY <1>3, <1>5, Limits DEF NearsEnd, Stage
<1> QED BY <1>4, <1>6, <1>8, <1>9, <1>10 DEF WindowInv

LEMMA SeekKeeps == ASSUME WindowInv, SeekWindow PROVE WindowInv' /\ Follows /\ NearsEnd
<1>1. /\ step = "head" /\ step' = "search" /\ counted' = counted /\ drifted' = drifted
      /\ search' = IF mode = "normal" THEN NormalWindow ELSE AtomicWindow
      /\ mode = "normal" => tokens - cursor > SoftMax - prefix
      /\ cursor' = cursor /\ covered' = covered /\ piece' = piece /\ size' = size
      /\ calls' = calls /\ chars' = chars
      /\ mode' = mode /\ tokens' = tokens /\ boundaries' = boundaries /\ prefix' = prefix
      /\ OverlapOfMode' = OverlapOfMode
  BY DEF SeekWindow, text, loop, searchBudget, OverlapOfMode
<1>2. SourceTokens(mode, prefix) > 0
  BY <1>1 DEF WindowInv, HasRoom
<1>3. /\ search' \in [tokens : Int, limit : Nat, reduced : BOOLEAN] /\ search'.tokens >= 1
      /\ mode = "normal" => search'.limit <= SoftMax /\ search'.tokens <= SoftMax - prefix
      /\ mode = "atomic" => search'.limit = AtomicMax
  BY <1>1, <1>2, Limits, TextShape
     DEF NormalWindow, AtomicWindow, SoftWindow, UseTarget, SourceTokens, Greatest, WindowInv
<1>4. WindowTypeOK'
  BY <1>1, <1>3 DEF WindowInv, WindowTypeOK
<1>5. Sought'
  BY <1>1, <1>3 DEF Sought
<1>6. /\ ChildrenFit' /\ TextIsCovered' /\ Placed' /\ HasRoom' /\ tokens' >= 1 /\ Follows
      /\ \A e \in DOMAIN counted' : counted'[e] \in Nat
  BY <1>1 DEF ChildrenFit, TextIsCovered, Placed, Looping, HasRoom, SourceTokens, WindowInv, Follows
<1>7. NearsEnd
  BY <1>1 DEF NearsEnd, Stage
<1> QED BY <1>4, <1>5, <1>6, <1>7 DEF WindowInv

LEMMA EndAtomicKeeps == ASSUME WindowInv, EndAtomic PROVE WindowInv' /\ Follows /\ NearsEnd
<1>1. /\ step = "head" /\ mode = "atomic" /\ cursor = tokens /\ step' = "done"
      /\ counted' = counted /\ drifted' = drifted /\ search' = search
      /\ cursor' = cursor /\ covered' = covered /\ piece' = piece /\ size' = size
      /\ calls' = calls /\ chars' = chars
      /\ mode' = mode /\ tokens' = tokens /\ boundaries' = boundaries /\ prefix' = prefix
      /\ OverlapOfMode' = OverlapOfMode
  BY DEF EndAtomic, text, loop, searchBudget, OverlapOfMode
<1>2. WindowTypeOK'
  BY <1>1 DEF WindowInv, WindowTypeOK
<1>3. piece[2] = tokens
  BY <1>1, TextShape DEF WindowInv, Placed, Looping, OverlapOfMode
<1>4. /\ ChildrenFit' /\ TextIsCovered' /\ Placed' /\ Sought' /\ HasRoom' /\ tokens' >= 1 /\ Follows
      /\ \A e \in DOMAIN counted' : counted'[e] \in Nat
  BY <1>1, <1>3 DEF ChildrenFit, TextIsCovered, Placed, Looping, Sought, HasRoom, SourceTokens, WindowInv, Follows
<1>5. NearsEnd
  BY <1>1 DEF NearsEnd, Stage
<1> QED BY <1>2, <1>4, <1>5 DEF WindowInv

LEMMA PayKeeps ==
    ASSUME WindowInv, NEW n \in Nat, NEW cost \in Nat, CanPay(n, cost), Pay(n, cost)
    PROVE  calls' \in Nat /\ chars' \in Nat
BY TextShape DEF WindowInv, CanPay, Pay

LEMMA FindNothingKeeps == ASSUME WindowInv, FindNothing PROVE WindowInv' /\ Follows /\ NearsEnd
<1>1. /\ step = "search" /\ FallBack /\ UNCHANGED text /\ drifted' = drifted /\ counted' = counted
      /\ calls' = calls /\ chars' = chars
  BY DEF FindNothing, searchBudget
<1> QED BY <1>1, FallBackKeeps, TextShape DEF WindowInv

LEMMA TakeCandidateKeeps == ASSUME WindowInv, TakeCandidate PROVE WindowInv' /\ Follows /\ NearsEnd
<1>1. /\ step = "search" /\ CandidateEnd > cursor /\ UNCHANGED <<text, search>>
      /\ CanPay(1, Cost({CandidateEnd})) /\ Pay(1, Cost({CandidateEnd}))
  BY DEF TakeCandidate
<1>2. PICK count \in Counts(CandidateEnd) :
          /\ count <= search.limit /\ Take(CandidateEnd, count)
          /\ drifted' = (drifted \/ count > prefix + CandidateEnd - cursor)
  BY DEF TakeCandidate
<1>3. CandidateEnd \in boundaries
  BY <1>1, CandidateIs
<1>4. Cost({CandidateEnd}) \in Nat
  BY <1>3, CostIsNumber DEF WindowInv
<1>5. calls' \in Nat /\ chars' \in Nat
  BY <1>1, <1>4, PayKeeps
<1>6. count \in Nat
  BY <1>2, <1>3, CountIsNumber DEF Counts
<1>7. mode = "normal" => CandidateEnd # tokens
  <2> SUFFICES ASSUME mode = "normal", CandidateEnd = tokens PROVE FALSE
    OBVIOUS
  <2>1. tokens \in DOMAIN counted /\ counted[tokens] > search.limit
    BY <1>1, CandidateIs
  <2>2. count = counted[tokens]
    BY <1>2, <2>1 DEF Counts, Count
  <2> QED BY <1>2, <1>6, <2>1, <2>2, TextShape DEF WindowInv
<1>8. drifted' \in BOOLEAN
  BY <1>2
<1> QED BY <1>1, <1>2, <1>3, <1>5, <1>6, <1>7, <1>8, TakeKeeps

LEMMA GiveUpKeeps == ASSUME WindowInv, GiveUp PROVE WindowInv' /\ Follows /\ NearsEnd
<1>1. /\ step = "search" /\ CandidateEnd > cursor /\ UNCHANGED text /\ FallBack
      /\ CanPay(1, Cost({CandidateEnd})) /\ Pay(1, Cost({CandidateEnd}))
  BY DEF GiveUp
<1>2. PICK count \in Counts(CandidateEnd) : Measured(Once(CandidateEnd, count))
  BY DEF GiveUp
<1>3. CandidateEnd \in boundaries
  BY <1>1, CandidateIs
<1>4. Cost({CandidateEnd}) \in Nat
  BY <1>3, CostIsNumber DEF WindowInv
<1>5. calls' \in Nat /\ chars' \in Nat
  BY <1>1, <1>4, PayKeeps
<1>6. count \in Nat
  BY <1>2, <1>3, CountIsNumber DEF Counts
<1>7. /\ drifted' \in BOOLEAN /\ \A e \in DOMAIN counted' : counted'[e] \in Nat
      /\ \A e \in DOMAIN counted : e \in DOMAIN counted' /\ counted'[e] = counted[e]
  <2>1. \A e \in DOMAIN Once(CandidateEnd, count) : Once(CandidateEnd, count)[e] \in Nat
    BY <1>6 DEF Once
  <2> QED BY <1>2, <2>1, TextShape DEF Measured, WindowInv
<1> QED BY <1>1, <1>5, <1>7, FallBackKeeps

LEMMA TakeProbedKeeps == ASSUME WindowInv, TakeProbed PROVE WindowInv' /\ Follows /\ NearsEnd
<1>1. step = "search" /\ CandidateEnd > cursor /\ UNCHANGED text
  BY DEF TakeProbed
<1> DEFINE Count_(first, drift) ==
               [end \in ProbedEnds(first) |-> IF end = CandidateEnd THEN first ELSE Count(end, drift[end])]
           Fitting(first, drift) ==
               {end \in ProbedEnds(first) : Count_(first, drift)[end] <= search.limit}
           Longest(first, drift) ==
               CHOOSE end \in Fitting(first, drift) : \A e \in Fitting(first, drift) : e <= end
           Cost_(first) == Cost({CandidateEnd}) + Cost(ProbedEnds(first))
<1>2. PICK first \in Counts(CandidateEnd) :
          /\ first > search.limit
          /\ CanPay(1 + Cardinality(ProbedEnds(first)), Cost_(first))
          /\ Pay(1 + Cardinality(ProbedEnds(first)), Cost_(first))
          /\ \E drift \in [ProbedEnds(first) \ {CandidateEnd} -> Drifts] :
                IF Fitting(first, drift) # {}
                THEN /\ Take(Longest(first, drift), Count_(first, drift)[Longest(first, drift)])
                     /\ UNCHANGED search /\ drifted' = TRUE
                ELSE FallBack /\ Measured([end \in ProbedEnds(first) \cup {CandidateEnd} |->
                                   IF end \in ProbedEnds(first) THEN Count_(first, drift)[end] ELSE first])
  BY DEF TakeProbed
<1> DEFINE probed == ProbedEnds(first)
<1>3. PICK drift \in [probed \ {CandidateEnd} -> Drifts] :
                IF Fitting(first, drift) # {}
                THEN /\ Take(Longest(first, drift), Count_(first, drift)[Longest(first, drift)])
                     /\ UNCHANGED search /\ drifted' = TRUE
                ELSE FallBack /\ Measured([end \in probed \cup {CandidateEnd} |->
                                   IF end \in probed THEN Count_(first, drift)[end] ELSE first])
  BY <1>2
<1> DEFINE count == Count_(first, drift)
           fitting == Fitting(first, drift)
           longest == Longest(first, drift)
<1>4. CandidateEnd \in boundaries /\ first \in Nat
  BY <1>1, <1>2, CandidateIs, CountIsNumber DEF Counts
<1>5. probed \in SUBSET boundaries /\ \A end \in probed : end > cursor /\ end <= CandidateEnd
  BY <1>1, <1>4, ProbedAre
<1>6. 1 + Cardinality(probed) \in Nat /\ Cost_(first) \in Nat
  <2>1. Cardinality(probed) \in Nat /\ Cost(probed) \in Nat /\ Cost({CandidateEnd}) \in Nat
    BY <1>4, <1>5, CostIsNumber DEF WindowInv
  <2> QED BY <2>1
<1>7. calls' \in Nat /\ chars' \in Nat
  <2> HIDE DEF Cost_
  <2> QED BY <1>2, <1>6, PayKeeps
<1>8. \A end \in probed : count[end] \in Nat
  <2>1. ASSUME NEW end \in probed PROVE count[end] \in Nat
    <3>1. CASE end = CandidateEnd
      BY <1>4, <3>1
    <3>2. CASE end # CandidateEnd
      <4>1. drift[end] \in Drifts /\ end \in boundaries
        BY <1>5, <3>2
      <4>2. Count(end, drift[end]) \in Nat
        BY <4>1, CountIsNumber
      <4> QED BY <3>2, <4>2
    <3> QED BY <3>1, <3>2
  <2> QED BY <2>1
<1>9. CASE fitting # {}
  <2>1. Take(longest, count[longest]) /\ UNCHANGED search /\ drifted' = TRUE
    BY <1>3, <1>9
  <2>2. longest \in fitting
    <3>1. fitting \subseteq 0..tokens /\ tokens \in Nat
      BY <1>5, TextShape DEF WindowInv
    <3>2. \E m \in fitting : \A k \in fitting : k <= m
      <4> HIDE DEF fitting
      <4> QED BY <1>9, <3>1, GreatestNumber
    <3> QED BY <3>2
  <2>3. longest \in probed /\ count[longest] <= search.limit
    BY <2>2
  <2>4. longest # CandidateEnd
    <3>1. CandidateEnd \in probed => count[CandidateEnd] = first
      OBVIOUS
    <3> HIDE DEF longest, count
    <3> QED BY <1>2, <1>4, <2>3, <3>1, TextShape DEF WindowInv
  <2> HIDE DEF longest, count, probed
  <2>5. mode = "normal" => longest # tokens
    BY <1>4, <1>5, <2>3, <2>4, TextShape DEF WindowInv
  <2>6. longest \in boundaries /\ longest > cursor /\ count[longest] \in Nat
    BY <1>5, <1>8, <2>3
  <2> QED BY <1>1, <1>7, <2>1, <2>3, <2>5, <2>6, TakeKeeps
<1>10. CASE fitting = {}
  <2> DEFINE new == [end \in probed \cup {CandidateEnd} |-> IF end \in probed THEN count[end] ELSE first]
  <2>1. FallBack /\ Measured(new)
    BY <1>3, <1>10
  <2>2. \A e \in DOMAIN new : new[e] \in Nat
    BY <1>4, <1>8
  <2> HIDE DEF new
  <2>3. /\ drifted' \in BOOLEAN /\ \A e \in DOMAIN counted' : counted'[e] \in Nat
        /\ \A e \in DOMAIN counted : e \in DOMAIN counted' /\ counted'[e] = counted[e]
    BY <2>1, <2>2, TextShape DEF Measured, WindowInv
  <2> QED BY <1>1, <1>7, <2>1, <2>3, FallBackKeeps
<1> QED BY <1>9, <1>10

LEMMA ExhaustKeeps == ASSUME WindowInv, Exhaust PROVE WindowInv' /\ Follows /\ NearsEnd
<1>1. /\ step = "search" /\ step' = "failed" /\ counted' = counted /\ drifted' = drifted /\ search' = search
      /\ cursor' = cursor /\ covered' = covered /\ piece' = piece /\ size' = size
      /\ calls' = calls /\ chars' = chars
      /\ mode' = mode /\ tokens' = tokens /\ boundaries' = boundaries /\ prefix' = prefix
  BY DEF Exhaust, text, loop, searchBudget
<1>2. WindowTypeOK'
  BY <1>1 DEF WindowInv, WindowTypeOK
<1>3. /\ ChildrenFit' /\ TextIsCovered' /\ Placed' /\ Sought' /\ HasRoom' /\ tokens' >= 1 /\ Follows
      /\ \A e \in DOMAIN counted' : counted'[e] \in Nat
  BY <1>1 DEF ChildrenFit, TextIsCovered, Placed, Looping, Sought, HasRoom, WindowInv, Follows
<1>4. NearsEnd
  BY <1>1 DEF NearsEnd, Stage
<1> QED BY <1>2, <1>3, <1>4 DEF WindowInv

LEMMA WindowStep == ASSUME WindowInv, WindowNext PROVE WindowInv' /\ Follows /\ NearsEnd
BY RestKeeps, SplitKeeps, SeekKeeps, EndAtomicKeeps, FindNothingKeeps, TakeCandidateKeeps,
   GiveUpKeeps, TakeProbedKeeps, ExhaustKeeps DEF WindowNext

LEMMA WindowStays == ASSUME WindowInv, UNCHANGED windowVars PROVE WindowInv'
<1>1. /\ step' = step /\ counted' = counted /\ drifted' = drifted /\ search' = search
      /\ cursor' = cursor /\ covered' = covered /\ piece' = piece /\ size' = size
      /\ calls' = calls /\ chars' = chars
      /\ mode' = mode /\ tokens' = tokens /\ boundaries' = boundaries /\ prefix' = prefix
  BY DEF windowVars, text, loop, searchBudget
<1>2. WindowTypeOK'
  BY <1>1 DEF WindowInv, WindowTypeOK
<1> QED BY <1>1, <1>2 DEF WindowInv, ChildrenFit, TextIsCovered, Placed, Looping, Sought, HasRoom, OverlapOfMode, SourceTokens

LEMMA TimesIsNumber == \A a, b \in Nat : a * b \in Nat
OBVIOUS

LEMMA WindowInitially == WindowInit => WindowInv
<1> SUFFICES ASSUME WindowInit PROVE WindowInv
  OBVIOUS
<1>1. /\ mode \in Modes /\ tokens \in 1..MaxTokens /\ prefix \in HeadingTokens
      /\ boundaries \subseteq 0..tokens /\ 0 \in boundaries /\ tokens \in boundaries
      /\ step = (IF SourceTokens(mode, prefix) <= 0 THEN "failed" ELSE "head")
      /\ cursor = 0 /\ covered = 0 /\ piece = <<0, 0>> /\ size = 0 /\ search = NoSearch
      /\ DOMAIN counted = {} /\ drifted = FALSE
  <2>1. tokens \in 1..MaxTokens
    BY DEF WindowInit
  <2>2. PICK b \in SUBSET (1..tokens - 1) : boundaries = b \cup {0, tokens}
    BY DEF WindowInit
  <2>3. boundaries \subseteq 0..tokens
    BY <2>1, <2>2, Limits
  <2> QED BY <2>2, <2>3 DEF WindowInit
<1>2. SourceTokens(mode, prefix) \in Int /\ prefix \in Nat /\ tokens \in Nat
  BY <1>1, Limits DEF SourceTokens, Greatest
<1>3. calls \in Nat /\ chars \in Nat
  <2> DEFINE source == SourceTokens(mode, prefix)
             progress == ConfiguredProgress(source, Overlap)
             advance == Greatest(1, progress - Least(Overlap, progress \div 2))
             windows == ExpectedWindows(tokens, source)
  <2>1. CASE source <= 0
    BY <1>1, <2>1 DEF WindowInit
  <2>2. CASE source > 0
    <3>1. calls = 2 * ProbeLimit * windows /\ chars = InputMultiplier * (tokens + windows * prefix)
      BY <1>1, <1>2, <2>2 DEF WindowInit
    <3>2. source \in Nat \ {0}
      BY <1>2, <2>2
    <3> HIDE DEF source
    <3>3. progress \in Nat \ {0}
      BY <3>2, Limits DEF ConfiguredProgress, Least, Greatest
    <3>4. advance \in Nat \ {0}
      <4> HIDE DEF progress
      <4> QED BY <3>3, Limits DEF Least, Greatest
    <3>5. windows = CeilDiv(tokens, advance) + 1
      BY DEF ExpectedWindows
    <3>6. windows \in Nat
      <4> HIDE DEF advance
      <4>1. (tokens + advance - 1) \div advance \in Nat
        BY <1>1, <1>2, <3>4
      <4> HIDE DEF windows
      <4> QED BY <3>5, <4>1 DEF CeilDiv
    <3> HIDE DEF windows
    <3>7. 2 * ProbeLimit \in Nat /\ windows * prefix \in Nat
      BY <1>2, <3>6, Limits, TimesIsNumber
    <3>8. tokens + windows * prefix \in Nat
      BY <1>2, <3>7
    <3> DEFINE a == 2 * ProbeLimit
               b == tokens + windows * prefix
    <3>9. calls = a * windows /\ chars = InputMultiplier * b
      BY <3>1
    <3> HIDE DEF a, b
    <3>10. a \in Nat /\ b \in Nat
      BY <3>7, <3>8 DEF a, b
    <3> QED BY <3>6, <3>9, <3>10, Limits, TimesIsNumber
  <2> QED BY <1>2, <2>1, <2>2
<1>4. WindowTypeOK
  <2>1. tokens \in 0..MaxTokens /\ size \in Nat
    BY <1>1, Limits
  <2>2. piece \in Windows
    <3>1. 0 \in 0..MaxTokens
      BY Limits
    <3> QED BY <1>1, <3>1 DEF Windows
  <2>3. search \in [tokens : Int, limit : Nat, reduced : BOOLEAN]
    BY <1>1 DEF NoSearch
  <2>4. step \in {"head", "search", "done", "failed"}
    BY <1>1
  <2> QED BY <1>1, <1>3, <2>1, <2>2, <2>3, <2>4 DEF WindowTypeOK
<1>5. Placed
  BY <1>1, Limits DEF Placed, OverlapOfMode
<1>6. ChildrenFit /\ TextIsCovered /\ Sought /\ HasRoom /\ tokens >= 1
  BY <1>1, <1>2, Limits DEF ChildrenFit, TextIsCovered, Sought, HasRoom
<1> QED BY <1>1, <1>4, <1>5, <1>6 DEF WindowInv

LEMMA WindowInvariant == WindowSpec => []WindowInv
<1>1. ASSUME WindowInv, [WindowNext]_windowVars PROVE WindowInv'
  BY <1>1, WindowStep, WindowStays
<1> QED BY <1>1, WindowInitially, PTL DEF WindowSpec

(* Every child cut from a long text fits as it was measured, and together  *)
(* they are all of the text: the splitting of chunker.py.                  *)
THEOREM WindowsHold == WindowSpec => []WindowsAreRight
<1>1. WindowInv => WindowsAreRight
  BY DEF WindowInv, WindowsAreRight
<1> QED BY <1>1, WindowInvariant, PTL

---------------------------------------------------------------------------
(* The context of a match. *)
(* A section: its blocks follow each other from its first character, and   *)
(* the match lies in it.                                                   *)
SectionOK ==
    /\ ends \in Seq(Nat) /\ Len(ends) > 1 /\ ends[1] = 0
    /\ \A i, j \in 1..Len(ends) : i < j => ends[i] < ends[j]
    /\ match \in (1..Length) \X (1..Length) /\ match[1] <= match[2]

Fitting(w) == w \in DOMAIN measured /\ measured[w] = TRUE
TooLong(w) == w \in DOMAIN measured /\ measured[w] = FALSE

(* Before the search, *)
Unbegun ==
    stage \in {"whole", "seed", "match", "failed"} =>
        best = match /\ tried = {} /\ used = 0 /\ sent = 0

(* in the match's only block, *)
InParts ==
    /\ stage \in {"match", "parts"} => TooLong(Seed)
    /\ stage = "parts" =>
          /\ Fitting(best)
          /\ probes \in Seq(DOMAIN Parts)
          /\ \E k \in DOMAIN Parts : best = Parts[k]

(* in whole blocks, of which it knows which sides are too long, *)
InBlocks ==
    stage \in {"grow", "bounded"} =>
        /\ Fitting(best)
        /\ \E l \in 1..SeedLeft, r \in SeedRight..Len(ends) - 1 : best = Window(l, r)
        /\ tried \subseteq Sides
        /\ \A s \in tried : TooLong(Grown(s))

(* first by probes, *)
InProbes ==
    stage = "bounded" =>
        /\ probes \in Seq(DOMAIN Expansions)
        /\ probes # <<>> => tried = {} /\ \E k \in DOMAIN Expansions : best = Expansions[k]

(* or without a budget: each block more takes two calls at most. *)
Extra == SeedLeft - LeftBlock(best) + RightBlock(best) - SeedRight
TriedOnes == (IF "left" \in tried THEN 1 ELSE 0) + (IF "right" \in tried THEN 1 ELSE 0)

InGrowth ==
    stage = "grow" =>
        /\ Exhaustible
        /\ used <= 2 * Extra + TriedOnes
        /\ sent <= used * Length

ContextInv ==
    /\ SectionOK
    /\ stage \in {"whole", "seed", "match", "failed", "grow", "bounded", "parts", "done"}
    /\ used \in Nat /\ sent \in Nat
    /\ Unbegun /\ InParts /\ InBlocks /\ InProbes /\ InGrowth
    /\ stage = "done" => Fitting(best) /\ Holds(best, match)
    /\ NothingMoreFits /\ WorkIsBounded

(* What the limits of a context are for. *)
LEMMA ContextLimits ==
    /\ BlockSizes \subseteq Nat \ {0} /\ MaxBlocks \in Nat /\ MaxLength \in Nat
    /\ GroupSizes \subseteq Nat \ {0} /\ ContextDrifts \subseteq Int /\ Limit \in Nat \ {0}
    /\ BaseProbes \in Nat /\ ProbesPerWindow \in Nat
    /\ ContextMultiplier \in Nat /\ NeighborRadius \in Nat
BY ChunkingAssumption DEF ContextAssumption

LEMMA SectionShape ==
    ASSUME SectionOK
    PROVE  /\ Len(ends) \in Nat /\ Len(ends) > 1 /\ Blocks = 1..Len(ends) - 1
           /\ Length = ends[Len(ends)] /\ Length \in Nat
           /\ \A i \in 1..Len(ends) : ends[i] \in Nat
           /\ \A i, j \in 1..Len(ends) : i <= j => ends[i] <= ends[j]
           /\ match[1] \in Nat /\ match[2] \in Nat
           /\ 1 <= match[1] /\ match[1] <= match[2] /\ match[2] <= Length
           /\ match = <<match[1], match[2]>>
<1> DEFINE n == Len(ends)
<1>1. n \in Nat /\ n > 1 /\ Blocks = 1..n - 1 /\ Length = ends[n]
  BY DEF SectionOK, Blocks, Length, Last
<1>2. \A i \in 1..n : ends[i] \in Nat
  BY DEF SectionOK
<1>3. \A i, j \in 1..n : i < j => ends[i] < ends[j]
  BY DEF SectionOK
<1>9. match \in (1..Length) \X (1..Length) /\ match[1] <= match[2]
  BY DEF SectionOK
<1> HIDE DEF n
<1>4. \A i, j \in 1..n : i <= j => ends[i] <= ends[j]
  BY <1>1, <1>2, <1>3
<1>5. Length \in Nat
  BY <1>1, <1>2
<1>6. /\ match[1] \in Nat /\ match[2] \in Nat
      /\ 1 <= match[1] /\ match[1] <= match[2] /\ match[2] <= Length
      /\ match = <<match[1], match[2]>>
  BY <1>5, <1>9
<1> QED BY <1>1, <1>2, <1>4, <1>5, <1>6 DEF n

(* The blocks the match lies in hold it. *)
LEMMA SeedIs ==
    ASSUME SectionOK
    PROVE  /\ SeedLeft \in Blocks /\ SeedRight \in Blocks /\ SeedLeft <= SeedRight
           /\ Holds(Seed, match)
<1> DEFINE n == Len(ends)
<1>1. /\ n \in Nat /\ n > 1 /\ Blocks = 1..n - 1 /\ Length = ends[n]
      /\ \A i \in 1..n : ends[i] \in Nat
      /\ \A i, j \in 1..n : i <= j => ends[i] <= ends[j]
      /\ match[1] \in Nat /\ match[2] \in Nat
      /\ 1 <= match[1] /\ match[1] <= match[2] /\ match[2] <= ends[n]
  BY SectionShape
<1>2. ends[1] = 0
  BY DEF SectionOK
<1>3. Touched = {i \in 1..n - 1 : ends[i] < match[2] /\ ends[i + 1] >= match[1]}
  BY <1>1 DEF Touched
<1> HIDE DEF n
<1>4. PICK i \in Touched : ends[i] < match[1]
  <2> DEFINE A == {i \in 1..n - 1 : ends[i + 1] >= match[1]}
  <2>1. A \subseteq Nat /\ A # {}
    <3>1. n - 1 \in A
      BY <1>1
    <3> QED BY <3>1
  <2>2. PICK i \in A : \A k \in A : i <= k
    <3> HIDE DEF A
    <3> QED BY <2>1, LeastNumber
  <2>3. i \in 1..n - 1 /\ ends[i + 1] >= match[1]
    OBVIOUS
  <2>4. ends[i] < match[1]
    <3>1. CASE i = 1
      BY <1>1, <1>2, <3>1
    <3>2. CASE i # 1
      <4>1. i - 1 \in 1..n - 1 /\ i - 1 < i /\ i \in 1..n
        BY <1>1, <2>3, <3>2
      <4>2. i - 1 \notin A
        BY <2>2, <4>1
      <4>3. ~ (ends[i] >= match[1])
        BY <4>1, <4>2, <2>3
      <4> QED BY <1>1, <4>1, <4>3
    <3> QED BY <3>1, <3>2
  <2>5. i \in 1..n
    BY <1>1, <2>3
  <2>6. ends[i] < match[2]
    BY <1>1, <2>4, <2>5
  <2> QED BY <1>3, <2>3, <2>4, <2>6
<1>5. PICK j \in Touched : ends[j + 1] >= match[2]
  <2> DEFINE A == {j \in 1..n - 1 : ends[j] < match[2]}
  <2>1. A \subseteq 0..n /\ A # {}
    <3>1. 1 \in A
      BY <1>1, <1>2
    <3> QED BY <1>1, <3>1
  <2>2. PICK j \in A : \A k \in A : k <= j
    <3> HIDE DEF A
    <3> QED BY <1>1, <2>1, GreatestNumber
  <2>3. j \in 1..n - 1 /\ ends[j] < match[2]
    OBVIOUS
  <2>4. ends[j + 1] >= match[2]
    <3>1. CASE j = n - 1
      BY <1>1, <3>1
    <3>2. CASE j # n - 1
      <4>1. j + 1 \in 1..n - 1 /\ j + 1 > j /\ j + 1 \in 1..n
        BY <1>1, <2>3, <3>2
      <4>2. j + 1 \notin A
        BY <2>2, <2>3, <4>1
      <4>3. ~ (ends[j + 1] < match[2])
        BY <4>1, <4>2
      <4> QED BY <1>1, <4>1, <4>3
    <3> QED BY <3>1, <3>2
  <2>5. j + 1 \in 1..n
    BY <1>1, <2>3
  <2>6. ends[j + 1] >= match[1]
    BY <1>1, <2>4, <2>5
  <2> QED BY <1>3, <2>3, <2>4, <2>6
<1>6. Touched \subseteq Nat /\ Touched \subseteq 0..n /\ Touched # {}
  <2>1. \A k \in Touched : k \in 1..n - 1
    BY <1>3
  <2> QED BY <1>1, <1>4, <2>1
<1>7. SeedLeft \in Touched /\ \A k \in Touched : SeedLeft <= k
  <2>1. PICK m \in Touched : \A k \in Touched : m <= k
    BY <1>6, LeastNumber
  <2> QED BY <2>1 DEF SeedLeft, Min
<1>8. SeedRight \in Touched /\ \A k \in Touched : k <= SeedRight
  <2>1. PICK m \in Touched : \A k \in Touched : k <= m
    BY <1>1, <1>6, GreatestNumber
  <2>2. \A y \in Touched : m >= y
    BY <2>1, <1>6
  <2>3. SeedRight \in Touched /\ \A y \in Touched : SeedRight >= y
    BY <2>1, <2>2 DEF SeedRight, Max
  <2> QED BY <2>3, <1>6
<1>9. SeedLeft \in 1..n - 1 /\ SeedRight \in 1..n - 1 /\ i \in 1..n - 1 /\ j \in 1..n - 1
  BY <1>3, <1>7, <1>8
<1>10. SeedLeft <= i /\ j <= SeedRight /\ SeedLeft <= SeedRight
  BY <1>7, <1>8
<1>11. ends[SeedLeft] <= ends[i] /\ ends[SeedLeft] \in Nat /\ ends[i] \in Nat
  <2>1. SeedLeft \in 1..n /\ i \in 1..n
    BY <1>1, <1>9
  <2> QED BY <1>1, <1>10, <2>1
<1>12. ends[j + 1] <= ends[SeedRight + 1] /\ ends[SeedRight + 1] \in Nat /\ ends[j + 1] \in Nat
  <2>1. SeedRight + 1 \in 1..n /\ j + 1 \in 1..n /\ j + 1 <= SeedRight + 1
    BY <1>1, <1>9, <1>10
  <2> QED BY <1>1, <2>1
<1>13. ends[SeedLeft] + 1 <= match[1] /\ match[2] <= ends[SeedRight + 1]
  BY <1>1, <1>4, <1>5, <1>11, <1>12
<1>14. Seed[1] = ends[SeedLeft] + 1 /\ Seed[2] = ends[SeedRight + 1]
  BY DEF Seed, Window
<1> QED BY <1>1, <1>9, <1>10, <1>13, <1>14 DEF Holds

(* A window of whole blocks says which they are. *)
LEMMA WindowIs ==
    ASSUME SectionOK, NEW l \in Blocks, NEW r \in Blocks, l <= r
    PROVE  /\ Window(l, r) = <<ends[l] + 1, ends[r + 1]>>
           /\ Window(l, r)[1] = ends[l] + 1 /\ Window(l, r)[2] = ends[r + 1]
           /\ ends[l] \in Nat /\ ends[r + 1] \in Nat
           /\ LeftBlock(Window(l, r)) = l /\ RightBlock(Window(l, r)) = r
           /\ Size(Window(l, r)) \in Nat /\ Size(Window(l, r)) <= Length
<1> DEFINE n == Len(ends)
           w == Window(l, r)
<1>1. /\ n \in Nat /\ n > 1 /\ Blocks = 1..n - 1 /\ Length = ends[n]
      /\ \A i \in 1..n : ends[i] \in Nat
      /\ \A i, j \in 1..n : i <= j => ends[i] <= ends[j]
  BY SectionShape
<1>2. \A i, j \in 1..n : i < j => ends[i] < ends[j]
  BY DEF SectionOK
<1>3. w = <<ends[l] + 1, ends[r + 1]>> /\ w[1] = ends[l] + 1 /\ w[2] = ends[r + 1]
  BY DEF Window
<1> HIDE DEF n, w
<1>4. \A i \in Blocks : i \in 1..n /\ i + 1 \in 1..n
  BY <1>1
<1>5. ends[l] \in Nat /\ ends[r + 1] \in Nat /\ ends[l] < ends[r + 1] /\ ends[r + 1] <= Length
  <2>1. l \in 1..n /\ r + 1 \in 1..n /\ l < r + 1 /\ n \in 1..n /\ r + 1 <= n
    BY <1>1, <1>4
  <2> QED BY <1>1, <1>2, <2>1
<1>6. \A i \in Blocks : ends[i] + 1 = w[1] <=> i = l
  <2> TAKE i \in Blocks
  <2>1. i \in 1..n /\ l \in 1..n
    BY <1>4
  <2>2. i < l => ends[i] < ends[l]
    BY <1>2, <2>1
  <2>3. l < i => ends[l] < ends[i]
    BY <1>2, <2>1
  <2>4. ends[i] \in Nat
    BY <1>1, <2>1
  <2> QED BY <1>3, <1>5, <2>1, <2>2, <2>3, <2>4
<1>7. \A i \in Blocks : ends[i + 1] = w[2] <=> i = r
  <2> TAKE i \in Blocks
  <2>1. i + 1 \in 1..n /\ r + 1 \in 1..n /\ i \in Int /\ r \in Int
    BY <1>1, <1>4
  <2>2. i + 1 < r + 1 => ends[i + 1] < ends[r + 1]
    BY <1>2, <2>1
  <2>3. r + 1 < i + 1 => ends[r + 1] < ends[i + 1]
    BY <1>2, <2>1
  <2>4. ends[i + 1] \in Nat
    BY <1>1, <2>1
  <2> QED BY <1>3, <1>5, <2>1, <2>2, <2>3, <2>4
<1>8. LeftBlock(w) = l
  BY <1>6 DEF LeftBlock
<1>9. RightBlock(w) = r
  BY <1>7 DEF RightBlock
<1>10. Size(w) \in Nat /\ Size(w) <= Length
  <2>1. Size(w) = ends[r + 1] - (ends[l] + 1) + 1
    BY <1>3 DEF Size
  <2>2. Length \in Nat
    BY SectionShape
  <2> QED BY <1>5, <2>1, <2>2
<1> QED BY <1>3, <1>5, <1>8, <1>9, <1>10 DEF w

(* One that holds another's blocks holds it and is no shorter. *)
LEMMA WiderWindow ==
    ASSUME SectionOK, NEW l \in Blocks, NEW r \in Blocks, NEW a \in Blocks, NEW b \in Blocks,
           l <= r, a <= l, r <= b
    PROVE  /\ Holds(Window(a, b), Window(l, r))
           /\ Size(Window(l, r)) <= Size(Window(a, b))
<1>0. a <= b
  BY SectionShape
<1>1. /\ Window(l, r)[1] = ends[l] + 1 /\ Window(l, r)[2] = ends[r + 1]
      /\ Window(a, b)[1] = ends[a] + 1 /\ Window(a, b)[2] = ends[b + 1]
      /\ ends[l] \in Nat /\ ends[r + 1] \in Nat /\ ends[a] \in Nat /\ ends[b + 1] \in Nat
  BY <1>0, WindowIs
<1>2. ends[a] <= ends[l] /\ ends[r + 1] <= ends[b + 1]
  <2>1. /\ a \in 1..Len(ends) /\ l \in 1..Len(ends)
        /\ r + 1 \in 1..Len(ends) /\ b + 1 \in 1..Len(ends) /\ r + 1 <= b + 1
    BY SectionShape
  <2> QED BY <2>1, SectionShape
<1> QED BY <1>1, <1>2 DEF Holds, Size

(* The k-th expansion: so many blocks on the left, the rest on the right. *)
Before == SeedLeft - 1
After == Len(ends) - 1 - SeedRight
LeftsOf(before, after, k) == Greatest(k - after, Least(before, (k + 1) \div 2))
Lefts(k) == LeftsOf(Before, After, k)

LEMMA LeftsRise ==
    ASSUME NEW before \in Nat, NEW after \in Nat, NEW j \in Nat, NEW k \in Nat, j <= k,
           k <= before + after
    PROVE  /\ LeftsOf(before, after, k) \in 0..before
           /\ k - LeftsOf(before, after, k) \in 0..after
           /\ LeftsOf(before, after, j) <= LeftsOf(before, after, k)
           /\ j - LeftsOf(before, after, j) <= k - LeftsOf(before, after, k)
           /\ LeftsOf(before, after, 0) = 0
BY DEF Greatest, Least, LeftsOf

LEMMA ExpansionsAre ==
    ASSUME SectionOK
    PROVE  /\ Before \in Nat /\ After \in Nat
           /\ Len(Expansions) = Before + After + 1 /\ Len(Expansions) \in Nat
           /\ DOMAIN Expansions = 1..Before + After + 1
           /\ \A k \in DOMAIN Expansions :
                /\ Lefts(k - 1) \in 0..Before /\ k - 1 - Lefts(k - 1) \in 0..After
                /\ Expansions[k] = Window(SeedLeft - Lefts(k - 1),
                                          SeedRight + (k - 1) - Lefts(k - 1))
           /\ 1 \in DOMAIN Expansions /\ Expansions[1] = Seed
<1>1. Before \in Nat /\ After \in Nat /\ SeedLeft \in Nat /\ SeedRight \in Nat
  BY SeedIs, SectionShape DEF Before, After
<1>2. Expansions = [k \in 1..Before + After + 1 |->
             Window(SeedLeft - Lefts(k - 1), SeedRight + (k - 1) - Lefts(k - 1))]
  BY DEF Expansions, Before, After, Lefts, LeftsOf
<1>3. DOMAIN Expansions = 1..Before + After + 1
  BY <1>2
<1>4. Len(Expansions) = Before + After + 1
  <2>1. Before + After + 1 \in Nat
    BY <1>1
  <2> QED BY <1>3, <2>1
<1>5. ASSUME NEW k \in 1..Before + After + 1
      PROVE  /\ Lefts(k - 1) \in 0..Before /\ k - 1 - Lefts(k - 1) \in 0..After
             /\ Expansions[k] = Window(SeedLeft - Lefts(k - 1),
                                       SeedRight + (k - 1) - Lefts(k - 1))
  <2>1. k - 1 \in Nat /\ k - 1 <= Before + After
    BY <1>1
  <2>2. Lefts(k - 1) \in 0..Before /\ k - 1 - Lefts(k - 1) \in 0..After
    <3> DEFINE m == k - 1
    <3>1. m \in Nat /\ m <= m /\ m <= Before + After
      BY <2>1
    <3> HIDE DEF m
    <3>2. LeftsOf(Before, After, m) \in 0..Before /\ m - LeftsOf(Before, After, m) \in 0..After
      BY <1>1, <3>1, LeftsRise
    <3> QED BY <3>2 DEF Lefts, m
  <2>3. Expansions[k] = Window(SeedLeft - Lefts(k - 1), SeedRight + (k - 1) - Lefts(k - 1))
    BY <1>2
  <2> QED BY <2>2, <2>3
<1>6. 1 \in 1..Before + After + 1 /\ Lefts(1 - 1) = 0
  <2>1. 0 \in Nat /\ 0 <= Before + After /\ 1 - 1 = 0
    BY <1>1
  <2> QED BY <1>1, <2>1, LeftsRise DEF Lefts
<1>7. Expansions[1] = Seed
  <2>1. SeedLeft - Lefts(1 - 1) = SeedLeft /\ SeedRight + (1 - 1) - Lefts(1 - 1) = SeedRight
    BY <1>1, <1>6
  <2> QED BY <1>5, <1>6, <2>1 DEF Seed
<1>8. Len(Expansions) \in Nat /\ 1 \in DOMAIN Expansions
  <2>1. Before + After + 1 \in Nat /\ 1 \in 1..Before + After + 1
    BY <1>1
  <2> QED BY <1>3, <1>4, <2>1
<1>9. \A k \in DOMAIN Expansions :
                /\ Lefts(k - 1) \in 0..Before /\ k - 1 - Lefts(k - 1) \in 0..After
                /\ Expansions[k] = Window(SeedLeft - Lefts(k - 1),
                                          SeedRight + (k - 1) - Lefts(k - 1))
  BY <1>3, <1>5
<1> QED BY <1>1, <1>3, <1>4, <1>7, <1>8, <1>9

LEMMA ExpansionIs ==
    ASSUME SectionOK, NEW k \in DOMAIN Expansions
    PROVE  \E l \in 1..SeedLeft, r \in SeedRight..Len(ends) - 1 : Expansions[k] = Window(l, r)
<1> DEFINE l == SeedLeft - Lefts(k - 1)
           r == SeedRight + (k - 1) - Lefts(k - 1)
<1>1. /\ Before \in Nat /\ After \in Nat /\ k \in 1..Before + After + 1
      /\ Lefts(k - 1) \in 0..Before /\ k - 1 - Lefts(k - 1) \in 0..After
      /\ Expansions[k] = Window(l, r)
  BY ExpansionsAre
<1>2. SeedLeft \in Nat /\ SeedRight \in Nat /\ Len(ends) \in Nat
  BY SeedIs, SectionShape
<1>3. l \in 1..SeedLeft /\ r \in SeedRight..Len(ends) - 1
  BY <1>1, <1>2 DEF Before, After
<1> QED BY <1>1, <1>3

(* Each holds the ones before it. *)
LEMMA ExpansionsGrow ==
    ASSUME SectionOK, NEW j \in DOMAIN Expansions, NEW k \in DOMAIN Expansions, j <= k
    PROVE  /\ Holds(Expansions[k], Expansions[j])
           /\ Size(Expansions[j]) <= Size(Expansions[k])
<1> DEFINE L(i) == SeedLeft - Lefts(i - 1)
           R(i) == SeedRight + (i - 1) - Lefts(i - 1)
<1>1. /\ Before \in Nat /\ After \in Nat
      /\ j \in 1..Before + After + 1 /\ k \in 1..Before + After + 1
      /\ Expansions[j] = Window(L(j), R(j)) /\ Expansions[k] = Window(L(k), R(k))
      /\ Lefts(j - 1) \in 0..Before /\ j - 1 - Lefts(j - 1) \in 0..After
      /\ Lefts(k - 1) \in 0..Before /\ k - 1 - Lefts(k - 1) \in 0..After
  BY ExpansionsAre
<1>2. Lefts(j - 1) <= Lefts(k - 1) /\ j - 1 - Lefts(j - 1) <= k - 1 - Lefts(k - 1)
  <2>1. j - 1 \in Nat /\ k - 1 \in Nat /\ j - 1 <= k - 1 /\ k - 1 <= Before + After
    BY <1>1
  <2> QED BY <1>1, <2>1, LeftsRise DEF Lefts
<1> DEFINE n == Len(ends)
           a == Lefts(j - 1)
           b == Lefts(k - 1)
<1>3. /\ n \in Nat /\ SeedLeft \in 1..n - 1 /\ SeedRight \in 1..n - 1 /\ SeedLeft <= SeedRight
      /\ Before = SeedLeft - 1 /\ After = n - 1 - SeedRight
      /\ a \in 0..Before /\ j - 1 - a \in 0..After /\ b \in 0..Before /\ k - 1 - b \in 0..After
      /\ a <= b /\ j - 1 - a <= k - 1 - b
      /\ L(j) = SeedLeft - a /\ R(j) = SeedRight + (j - 1) - a
      /\ L(k) = SeedLeft - b /\ R(k) = SeedRight + (k - 1) - b
      /\ j \in Nat /\ k \in Nat
  <2>1. n \in Nat /\ SeedLeft \in 1..n - 1 /\ SeedRight \in 1..n - 1 /\ SeedLeft <= SeedRight
    BY SeedIs, SectionShape
  <2>2. Before = SeedLeft - 1 /\ After = n - 1 - SeedRight
    BY DEF Before, After
  <2>3. a <= b /\ j - 1 - a <= k - 1 - b
    BY <1>2
  <2>4. /\ a \in 0..Before /\ j - 1 - a \in 0..After /\ b \in 0..Before /\ k - 1 - b \in 0..After
        /\ j \in Nat /\ k \in Nat
    BY <1>1
  <2> QED BY <2>1, <2>2, <2>3, <2>4
<1> HIDE DEF n, a, b, L, R
<1>4. L(j) \in 1..n - 1 /\ R(j) \in 1..n - 1 /\ L(j) <= R(j)
  BY <1>3
<1>5. L(k) \in 1..n - 1 /\ R(k) \in 1..n - 1
  BY <1>3
<1>6. L(k) <= L(j) /\ R(j) <= R(k)
  BY <1>3
<1>7. L(j) \in Blocks /\ R(j) \in Blocks /\ L(k) \in Blocks /\ R(k) \in Blocks
  BY <1>4, <1>5 DEF Blocks, n
<1> QED BY <1>1, <1>4, <1>6, <1>7, WiderWindow

(* The better of two expansions is the one around the other. *)
LEMMA BetterExpansion ==
    ASSUME SectionOK, NEW j \in DOMAIN Expansions, NEW k \in DOMAIN Expansions,
           Size(Expansions[k]) > Size(Expansions[j])
    PROVE  Holds(Expansions[k], Expansions[j])
<1>1. j \in Nat /\ k \in Nat
  BY ExpansionsAre
<1>2. CASE j <= k
  BY <1>2, ExpansionsGrow
<1>3. CASE k <= j
  <2>1. Size(Expansions[k]) <= Size(Expansions[j])
    BY <1>3, ExpansionsGrow
  <2>2. Size(Expansions[j]) \in Int /\ Size(Expansions[k]) \in Int
    <3>1. ASSUME NEW i \in DOMAIN Expansions PROVE Size(Expansions[i]) \in Int
      <4>1. PICK l \in 1..SeedLeft, r \in SeedRight..Len(ends) - 1 : Expansions[i] = Window(l, r)
        BY ExpansionIs
      <4>2. l \in Blocks /\ r \in Blocks /\ l <= r
        BY SeedIs, SectionShape
      <4> QED BY <4>1, <4>2, WindowIs
    <3> QED BY <3>1
  <2> QED BY <2>1, <2>2
<1> QED BY <1>1, <1>2, <1>3

---------------------------------------------------------------------------
(* The cuts of the match's block are finitely many, all before the end of  *)
(* the section.                                                            *)
LEMMA CutsAre ==
    ASSUME SectionOK
    PROVE  /\ IsFiniteSet(Cuts) /\ Cardinality(Cuts) \in Nat
           /\ \A c \in Cuts : c.at \in 0..Length
<1> DEFINE inside == (groups \cup {0}) \cap (Seed[1] - 1)..Seed[2]
<1>1. /\ Seed[1] - 1 \in Nat /\ Seed[2] \in Nat /\ Seed[2] <= Length /\ Length \in Nat
      /\ match[1] \in Nat /\ match[2] \in Nat /\ match[1] <= Length
  <2>1. Seed = Window(SeedLeft, SeedRight)
    BY DEF Seed
  <2>2. /\ Seed[1] = ends[SeedLeft] + 1 /\ Seed[2] = ends[SeedRight + 1]
        /\ ends[SeedLeft] \in Nat /\ ends[SeedRight + 1] \in Nat
    BY <2>1, SeedIs, WindowIs
  <2>3. ends[SeedRight + 1] <= ends[Len(ends)]
    <3>1. /\ SeedRight + 1 \in 1..Len(ends) /\ Len(ends) \in 1..Len(ends)
          /\ SeedRight + 1 <= Len(ends)
      BY SeedIs, SectionShape
    <3> QED BY <3>1, SectionShape
  <2>4. match[1] <= Length /\ Length = ends[Len(ends)] /\ Length \in Nat
    BY SectionShape
  <2> QED BY <2>2, <2>3, <2>4, SectionShape
<1>2. Cuts = {[far |-> match[1] - 1 - g, side |-> 0, at |-> g + 1] :
                  g \in {g \in inside : g + 1 < match[1]}}
             \cup {[far |-> g - match[2], side |-> 1, at |-> g] :
                  g \in {g \in inside : g > match[2]}}
  BY DEF Cuts
<1>3. \A g \in inside : g \in Nat /\ g <= Length
  BY <1>1
<1> HIDE DEF inside
<1>4. ASSUME NEW c \in Cuts
      PROVE  /\ c = [far |-> c.far, side |-> c.side, at |-> c.at]
             /\ c.at \in 0..Length
             /\ \/ c.side = 0 /\ c.far = match[1] - c.at
                \/ c.side = 1 /\ c.far = c.at - match[2]
  <2>1. CASE \E g \in inside :
               g + 1 < match[1] /\ c = [far |-> match[1] - 1 - g, side |-> 0, at |-> g + 1]
    <3>1. PICK g \in inside :
               g + 1 < match[1] /\ c = [far |-> match[1] - 1 - g, side |-> 0, at |-> g + 1]
      BY <2>1
    <3>2. g \in Nat /\ g + 1 \in 0..Length
      BY <1>1, <1>3, <3>1
    <3>3. match[1] - 1 - g = match[1] - (g + 1)
      BY <1>1, <3>2
    <3> QED BY <3>1, <3>2, <3>3
  <2>2. CASE \E g \in inside :
               g > match[2] /\ c = [far |-> g - match[2], side |-> 1, at |-> g]
    <3>1. PICK g \in inside :
               g > match[2] /\ c = [far |-> g - match[2], side |-> 1, at |-> g]
      BY <2>2
    <3>2. g \in 0..Length
      BY <1>1, <1>3
    <3> QED BY <3>1, <3>2
  <2> QED BY <1>2, <2>1, <2>2
<1> DEFINE T == {0, 1} \X (0..Length)
           f == [c \in Cuts |-> <<c.side, c.at>>]
<1>5. IsFiniteSet(T)
  <2>1. IsFiniteSet(0..Length) /\ IsFiniteSet(0..1)
    <3>1. 0 \in Int /\ 1 \in Int /\ Length \in Int
      BY <1>1
    <3> QED BY <3>1, FS_Interval
  <2>2. {0, 1} = 0..1
    OBVIOUS
  <2> QED BY <2>1, <2>2, FS_Product
<1>6. f \in Injection(Cuts, T)
  <2>1. f \in [Cuts -> T]
    BY <1>4
  <2>2. ASSUME NEW a \in Cuts, NEW b \in Cuts, f[a] = f[b] PROVE a = b
    <3>1. a.side = b.side /\ a.at = b.at
      BY <2>2
    <3>2. a.far = b.far
      BY <1>4, <3>1
    <3> QED BY <1>4, <3>1, <3>2
  <2> HIDE DEF f, T
  <2> QED BY <2>1, <2>2 DEF Injection, IsInjective
<1>7. IsFiniteSet(Cuts)
  <2> HIDE DEF f, T
  <2> QED BY <1>5, <1>6, FS_Injection
<1>8. Cardinality(Cuts) \in Nat
  BY <1>7, FS_CardinalityType
<1> QED BY <1>4, <1>7, <1>8

First(k) == {c \in Cuts : Cardinality({b \in Cuts : Nearer(b, c)}) < k - 1}
Begins(k) == {match[1]} \cup {c.at : c \in {c \in First(k) : c.side = 0}}
Finishes(k) == {match[2]} \cup {c.at : c \in {c \in First(k) : c.side = 1}}

LEMMA PartsAre ==
    ASSUME SectionOK
    PROVE  /\ DOMAIN Parts = 1..Cardinality(Cuts) + 1 /\ Len(Parts) = Cardinality(Cuts) + 1
           /\ Len(Parts) \in Nat
           /\ \A k \in DOMAIN Parts :
                /\ Parts[k] = <<Min(Begins(k)), Max(Finishes(k))>>
                /\ Min(Begins(k)) \in Begins(k) /\ Max(Finishes(k)) \in Finishes(k)
                /\ \A m \in Begins(k) : m \in Nat /\ Min(Begins(k)) <= m
                /\ \A m \in Finishes(k) : m \in Nat /\ m <= Max(Finishes(k))
<1>1. Cardinality(Cuts) \in Nat /\ \A c \in Cuts : c.at \in 0..Length
  BY CutsAre
<1>2. match[1] \in Nat /\ match[2] \in Nat /\ match[2] <= Length /\ Length \in Nat
  BY SectionShape
<1>3. Parts = [k \in 1..Cardinality(Cuts) + 1 |-> <<Min(Begins(k)), Max(Finishes(k))>>]
  BY DEF Parts, Begins, Finishes, First
<1>4. ASSUME NEW k \in 1..Cardinality(Cuts) + 1
      PROVE  /\ Parts[k] = <<Min(Begins(k)), Max(Finishes(k))>>
             /\ Min(Begins(k)) \in Begins(k) /\ Max(Finishes(k)) \in Finishes(k)
             /\ \A m \in Begins(k) : m \in Nat /\ Min(Begins(k)) <= m
             /\ \A m \in Finishes(k) : m \in Nat /\ m <= Max(Finishes(k))
  <2>0. First(k) \subseteq Cuts /\ (\A c \in Cuts : c.at \in Nat) /\ match[2] \in 0..Length
    <3>1. First(k) \subseteq Cuts
      BY DEF First
    <3> QED BY <1>1, <1>2, <3>1
  <2>1. \A m \in Begins(k) : m \in Nat
    <3>1. ASSUME NEW m \in Begins(k), m # match[1] PROVE m \in Nat
      <4>1. PICK c \in First(k) : m = c.at
        BY <3>1 DEF Begins
      <4> QED BY <2>0, <4>1
    <3> QED BY <1>2, <3>1
  <2>2. \A m \in Finishes(k) : m \in 0..Length
    <3>1. ASSUME NEW m \in Finishes(k), m # match[2] PROVE m \in 0..Length
      <4>1. PICK c \in First(k) : m = c.at
        BY <3>1 DEF Finishes
      <4> QED BY <1>1, <2>0, <4>1
    <3> QED BY <2>0, <3>1
  <2>3. match[1] \in Begins(k) /\ match[2] \in Finishes(k)
    BY DEF Begins, Finishes
  <2> DEFINE B == Begins(k)
             F == Finishes(k)
  <2>4. B \subseteq Nat /\ B # {} /\ F \subseteq 0..Length /\ F # {}
    BY <2>1, <2>2, <2>3
  <2> HIDE DEF B, F
  <2>5. Min(B) \in B /\ \A m \in B : m \in Nat /\ Min(B) <= m
    <3>1. PICK m \in B : \A x \in B : m <= x
      BY <2>4, LeastNumber
    <3> QED BY <2>4, <3>1 DEF Min
  <2>6. Max(F) \in F /\ \A m \in F : m \in Nat /\ m <= Max(F)
    <3>1. PICK m \in F : \A x \in F : x <= m
      BY <1>2, <2>4, GreatestNumber
    <3>2. F \subseteq Nat
      BY <2>4
    <3>3. \A x \in F : m >= x
      BY <3>1, <3>2
    <3>4. Max(F) \in F /\ \A x \in F : Max(F) >= x
      BY <3>1, <3>3 DEF Max
    <3> QED BY <3>2, <3>4
  <2>7. Parts[k] = <<Min(B), Max(F)>>
    BY <1>3 DEF B, F
  <2> QED BY <2>5, <2>6, <2>7 DEF B, F
<1>5. DOMAIN Parts = 1..Cardinality(Cuts) + 1
  BY <1>3
<1>6. Len(Parts) = Cardinality(Cuts) + 1 /\ Len(Parts) \in Nat
  <2>1. Cardinality(Cuts) + 1 \in Nat
    BY <1>1
  <2> QED BY <1>5, <2>1
<1> QED BY <1>4, <1>5, <1>6

(* The first part is the match; each part holds the ones before it. *)
LEMMA PartsGrow ==
    ASSUME SectionOK
    PROVE  /\ 1 \in DOMAIN Parts /\ Parts[1] = match
           /\ \A k \in DOMAIN Parts :
                k \in Nat /\ Holds(Parts[k], match)
                /\ Parts[k][1] \in Nat /\ Parts[k][2] \in Nat
           /\ \A j, k \in DOMAIN Parts :
                j <= k => Holds(Parts[k], Parts[j]) /\ Size(Parts[j]) <= Size(Parts[k])
<1> DEFINE n == Cardinality(Cuts)
<1>1. IsFiniteSet(Cuts) /\ n \in Nat /\ DOMAIN Parts = 1..n + 1
  BY CutsAre, PartsAre
<1> HIDE DEF n
<1>2. \A c \in Cuts : Cardinality({b \in Cuts : Nearer(b, c)}) \in Nat
  <2> TAKE c \in Cuts
  <2> DEFINE S == {b \in Cuts : Nearer(b, c)}
  <2>1. S \in SUBSET Cuts
    OBVIOUS
  <2> HIDE DEF S
  <2>2. IsFiniteSet(S)
    BY <1>1, <2>1, FS_Subset
  <2>3. Cardinality(S) \in Nat
    BY <2>2, FS_CardinalityType
  <2> QED BY <2>3 DEF S
<1>3. 1 \in DOMAIN Parts /\ \A k \in DOMAIN Parts : k \in Nat
  BY <1>1
<1>4. Parts[1] = match
  <2>1. First(1) = {}
    <3>1. \A c \in Cuts : ~ (Cardinality({b \in Cuts : Nearer(b, c)}) < 1 - 1)
      BY <1>2
    <3> QED BY <3>1 DEF First
  <2>2. Begins(1) = {match[1]} /\ Finishes(1) = {match[2]}
    BY <2>1 DEF Begins, Finishes
  <2>3. Parts[1] = <<match[1], match[2]>>
    BY <1>3, <2>2, PartsAre
  <2> QED BY <2>3, SectionShape
<1>5. ASSUME NEW k \in DOMAIN Parts
      PROVE  Parts[k][1] \in Nat /\ Parts[k][2] \in Nat
  BY PartsAre
<1>6. ASSUME NEW j \in DOMAIN Parts, NEW k \in DOMAIN Parts, j <= k
      PROVE  Holds(Parts[k], Parts[j]) /\ Size(Parts[j]) <= Size(Parts[k])
  <2>1. First(j) \subseteq First(k)
    <3>1. \A c \in Cuts : Cardinality({b \in Cuts : Nearer(b, c)}) < j - 1
                            => Cardinality({b \in Cuts : Nearer(b, c)}) < k - 1
      BY <1>2, <1>3, <1>6
    <3> QED BY <3>1 DEF First
  <2>2. Begins(j) \subseteq Begins(k) /\ Finishes(j) \subseteq Finishes(k)
    BY <2>1 DEF Begins, Finishes
  <2>3. /\ Parts[j][1] = Min(Begins(j)) /\ Parts[k][1] = Min(Begins(k))
        /\ Parts[j][2] = Max(Finishes(j)) /\ Parts[k][2] = Max(Finishes(k))
    BY PartsAre
  <2>4. Parts[k][1] <= Parts[j][1] /\ Parts[j][2] <= Parts[k][2]
    <3>1. Min(Begins(j)) \in Begins(k) /\ Max(Finishes(j)) \in Finishes(k)
      BY <2>2, PartsAre
    <3>2. Min(Begins(k)) <= Min(Begins(j)) /\ Max(Finishes(j)) <= Max(Finishes(k))
      BY <3>1, PartsAre
    <3> QED BY <2>3, <3>2
  <2> QED BY <1>5, <2>4 DEF Holds, Size
<1>7. ASSUME NEW k \in DOMAIN Parts PROVE Holds(Parts[k], match)
  <2>1. 1 <= k
    BY <1>1
  <2> QED BY <1>3, <1>4, <1>6, <2>1
<1> QED BY <1>3, <1>4, <1>5, <1>6, <1>7

LEMMA BetterPart ==
    ASSUME SectionOK, NEW j \in DOMAIN Parts, NEW k \in DOMAIN Parts,
           Size(Parts[k]) > Size(Parts[j])
    PROVE  Holds(Parts[k], Parts[j])
<1>1. j \in Nat /\ k \in Nat
  BY PartsGrow
<1>2. CASE j <= k
  BY <1>2, PartsGrow
<1>3. CASE k <= j
  <2>1. Size(Parts[k]) <= Size(Parts[j])
    BY <1>3, PartsGrow
  <2>2. /\ Parts[j][1] \in Nat /\ Parts[j][2] \in Nat
        /\ Parts[k][1] \in Nat /\ Parts[k][2] \in Nat
    BY PartsGrow
  <2>3. Size(Parts[j]) \in Int /\ Size(Parts[k]) \in Int
    BY <2>2 DEF Size
  <2> QED BY <2>1, <2>3
<1> QED BY <1>1, <1>2, <1>3

---------------------------------------------------------------------------
(* Probes are windows that there are. *)
LEMMA ProbeIsAdded ==
    ASSUME NEW last \in Nat, NEW limit, NEW indices \in Seq(1..last), NEW i
    PROVE  AddProbe(indices, last, limit, i) \in Seq(1..last)
<1>1. CASE i \in 1..last /\ i \notin ToSet(indices) /\ Len(indices) < limit
  <2>1. Append(indices, i) \in Seq(1..last)
    BY <1>1, AppendProperties
  <2> QED BY <1>1, <2>1 DEF AddProbe
<1>2. CASE ~ (i \in 1..last /\ i \notin ToSet(indices) /\ Len(indices) < limit)
  BY <1>2 DEF AddProbe
<1> QED BY <1>1, <1>2

LEMMA BlockProbesAre ==
    ASSUME SectionOK
    PROVE  BlockProbes \in Seq(DOMAIN Expansions)
<1> DEFINE last == Len(Expansions)
           estimate == Greatest(1, Cardinality({k \in 1..last : TokensIn(Expansions[k]) <= Limit}))
           add(indices, i) == AddProbe(indices, last, BaseProbes, i)
           around(indices, d) ==
               IF Len(indices) < BaseProbes - 3 /\ d < last
               THEN add(add(indices, estimate - d), estimate + d) ELSE indices
           Rule(g) == [n \in 0..last |->
               IF n = 0 THEN add(<<>>, estimate) ELSE around(g[n - 1], 2^(n - 1))]
           near == CHOOSE g : g = Rule(g)
           X == Seq(1..last)
           next == [n \in 1..last |-> [s \in X |-> around(s, 2^(n - 1))]]
<1>1. last \in Nat /\ DOMAIN Expansions = 1..last
  BY ExpansionsAre
<1>2. BlockProbes = add(add(add(near[last], last), last - 1), 1)
  BY DEF BlockProbes
<1>3. \A s \in X : \A i : add(s, i) \in X
  <2> HIDE DEF last
  <2> QED BY <1>1, ProbeIsAdded
<1> HIDE DEF last, estimate, add, X
<1>4. add(<<>>, estimate) \in X
  <2>1. <<>> \in X
    BY EmptySeq DEF X
  <2> QED BY <1>3, <2>1
<1>5. next \in Steps(last, X)
  <2>1. \A s \in X : \A d : around(s, d) \in X
    BY <1>3
  <2> HIDE DEF around
  <2> QED BY <2>1 DEF Steps
<1>6. \E g \in [0..last -> X] : g = Rule(g)
  <2>1. PICK g \in Chains(last, X, add(<<>>, estimate), next) : TRUE
    <3> HIDE DEF next
    <3> QED BY <1>1, <1>4, <1>5, RecursionExists
  <2>2. g \in [0..last -> X] /\ g[0] = add(<<>>, estimate)
        /\ \A n \in 1..last : g[n] = next[n][g[n - 1]]
    <3> HIDE DEF next
    <3> QED BY <2>1 DEF Chains
  <2> HIDE DEF around
  <2>3. ASSUME NEW n \in 0..last
        PROVE  g[n] = IF n = 0 THEN add(<<>>, estimate) ELSE around(g[n - 1], 2^(n - 1))
    <3>1. CASE n = 0
      BY <2>2, <3>1
    <3>2. CASE n # 0
      <4>1. n \in 1..last /\ n - 1 \in 0..last
        BY <1>1, <3>2
      <4>2. g[n - 1] \in X
        BY <2>2, <4>1
      <4> QED BY <2>2, <3>2, <4>1, <4>2
    <3> QED BY <3>1, <3>2
  <2>4. g = Rule(g)
    BY <2>2, <2>3
  <2> QED BY <2>2, <2>4
<1>7. near = Rule(near)
  <2> HIDE DEF Rule
  <2> QED BY <1>6
<1>8. near[last] \in X
  <2> DEFINE A == {n \in 0..last : near[n] \notin X}
  <2> SUFFICES A = {}
    BY <1>1
  <2> SUFFICES ASSUME A # {} PROVE FALSE
    OBVIOUS
  <2>1. \A n \in 0..last : near[n] = IF n = 0 THEN add(<<>>, estimate) ELSE around(near[n - 1], 2^(n - 1))
    <3> HIDE DEF near, around
    <3> QED BY <1>7
  <2> HIDE DEF near
  <2>2. PICK n \in A : \A j \in A : n <= j
    <3>1. A \subseteq Nat
      BY <1>1
    <3> HIDE DEF A
    <3> QED BY <3>1, LeastNumber
  <2>3. n \in 0..last /\ near[n] \notin X
    OBVIOUS
  <2>4. n # 0
    <3> HIDE DEF around
    <3> QED BY <1>4, <2>1, <2>3
  <2>5. n - 1 \in 0..last /\ n - 1 \notin A
    BY <1>1, <2>2, <2>3, <2>4
  <2>6. near[n - 1] \in X
    BY <2>5
  <2>7. around(near[n - 1], 2^(n - 1)) \in X
    BY <1>3, <2>6
  <2> HIDE DEF around
  <2> QED BY <2>1, <2>3, <2>4, <2>7
<1>9. BlockProbes \in X
  <2> HIDE DEF near
  <2> QED BY <1>2, <1>3, <1>8
<1> QED BY <1>1, <1>9 DEF X

LEMMA PartProbesAre ==
    ASSUME SectionOK, NEW expected \in Int
    PROVE  PartProbes(expected) \in Seq(DOMAIN Parts)
<1> DEFINE last == Len(Parts)
           center == Least(expected, last - 1) + 1
           distance(i) == IF i % 2 = 0 THEN - (i \div 2) ELSE i \div 2
           near(c) == [i \in 1..2 * NeighborRadius + 1 |-> c + distance(i)]
           quarters == [q \in 1..3 |-> 1 + (<<2, 1, 3>>[q] * (last - 1)) \div 4]
           candidates == near(last) \o near(center) \o quarters
           Rule(g) == [n \in 0..Len(candidates) |->
               IF n = 0 THEN <<>> ELSE AddProbe(g[n - 1], last, last, candidates[n])]
           probed == CHOOSE g : g = Rule(g)
           m == Len(candidates)
           X == Seq(1..last)
           next == [n \in 1..m |-> [s \in X |-> AddProbe(s, last, last, candidates[n])]]
<1>1. last \in Nat /\ DOMAIN Parts = 1..last
  BY PartsAre
<1>2. PartProbes(expected) = probed[m]
  BY DEF PartProbes
<1>3. m \in Nat
  <2>1. center \in Int
    <3> HIDE DEF last
    <3> QED BY <1>1 DEF Least
  <2>2. \A i \in Nat : distance(i) \in Int
    OBVIOUS
  <2>3. 2 * NeighborRadius + 1 \in Nat
    BY ContextLimits
  <2> DEFINE k == 2 * NeighborRadius + 1
  <2>4. ASSUME NEW c \in Int PROVE near(c) \in Seq(Int)
    <3> HIDE DEF distance
    <3>1. \A i \in 1..k : c + distance(i) \in Int
      <4>1. \A i \in 1..k : i \in Nat
        BY <2>3
      <4> HIDE DEF k
      <4> QED BY <2>2, <4>1
    <3>2. near(c) \in [1..k -> Int]
      BY <3>1
    <3> QED BY <2>3, <3>2, SeqDef
  <2>5. quarters \in Seq(Int)
    <3> HIDE DEF last
    <3>1. \A q \in 1..3 : <<2, 1, 3>>[q] \in Nat
      OBVIOUS
    <3>2. \A a \in Nat : 1 + (a * (last - 1)) \div 4 \in Int
      BY <1>1
    <3>3. \A q \in 1..3 : 1 + (<<2, 1, 3>>[q] * (last - 1)) \div 4 \in Int
      BY <3>1, <3>2
    <3>4. quarters \in [1..3 -> Int]
      BY <3>3
    <3> QED BY <3>4, SeqDef
  <2> HIDE DEF near, center, quarters
  <2>6. near(last) \o near(center) \in Seq(Int)
    <3>1. near(last) \in Seq(Int) /\ near(center) \in Seq(Int)
      BY <1>1, <2>1, <2>4
    <3> QED BY <3>1, ConcatProperties
  <2>7. candidates \in Seq(Int)
    BY <2>5, <2>6, ConcatProperties
  <2> QED BY <2>7, LenProperties
<1>4. \A s \in X : \A i : AddProbe(s, last, last, i) \in X
  <2> HIDE DEF last
  <2> QED BY <1>1, ProbeIsAdded
<1> HIDE DEF last, candidates, m, X
<1>5. <<>> \in X
  BY EmptySeq DEF X
<1>6. next \in Steps(m, X)
  BY <1>4 DEF Steps
<1>7. \E g \in [0..m -> X] : g = Rule(g)
  <2>1. PICK g \in Chains(m, X, <<>>, next) : TRUE
    <3> HIDE DEF next
    <3> QED BY <1>3, <1>5, <1>6, RecursionExists
  <2>2. g \in [0..m -> X] /\ g[0] = <<>>
        /\ \A n \in 1..m : g[n] = next[n][g[n - 1]]
    <3> HIDE DEF next
    <3> QED BY <2>1 DEF Chains
  <2>3. ASSUME NEW n \in 0..m
        PROVE  g[n] = IF n = 0 THEN <<>> ELSE AddProbe(g[n - 1], last, last, candidates[n])
    <3>1. CASE n = 0
      BY <2>2, <3>1
    <3>2. CASE n # 0
      <4>1. n \in 1..m /\ n - 1 \in 0..m
        BY <1>3, <3>2
      <4>2. g[n - 1] \in X
        BY <2>2, <4>1
      <4> QED BY <2>2, <3>2, <4>1, <4>2
    <3> QED BY <3>1, <3>2
  <2>4. g = Rule(g)
    BY <2>2, <2>3 DEF m
  <2> QED BY <2>2, <2>4
<1>8. probed = Rule(probed)
  <2> HIDE DEF Rule
  <2> QED BY <1>7
<1>9. probed[m] \in X
  <2> DEFINE A == {n \in 0..m : probed[n] \notin X}
  <2> SUFFICES A = {}
    BY <1>3
  <2> SUFFICES ASSUME A # {} PROVE FALSE
    OBVIOUS
  <2>1. \A n \in 0..m : probed[n] = IF n = 0 THEN <<>>
                                    ELSE AddProbe(probed[n - 1], last, last, candidates[n])
    <3> HIDE DEF probed
    <3> QED BY <1>8 DEF m
  <2> HIDE DEF probed
  <2>2. PICK n \in A : \A j \in A : n <= j
    <3>1. A \subseteq Nat
      BY <1>3
    <3> HIDE DEF A
    <3> QED BY <3>1, LeastNumber
  <2>3. n \in 0..m /\ probed[n] \notin X
    OBVIOUS
  <2>4. n # 0
    BY <1>5, <2>1, <2>3
  <2>5. n - 1 \in 0..m /\ n - 1 \notin A
    BY <1>3, <2>2, <2>3, <2>4
  <2>6. probed[n - 1] \in X
    BY <2>5
  <2> QED BY <1>4, <2>1, <2>3, <2>4, <2>6
<1>10. PartProbes(expected) \in X
  <2> HIDE DEF probed
  <2> QED BY <1>2, <1>9
<1> QED BY <1>1, <1>10 DEF X

---------------------------------------------------------------------------
(* A search in a longer text may take no less. *)
LEMMA TimesRises ==
    ASSUME NEW a \in Nat, NEW b \in Nat, NEW c \in Nat, b <= c
    PROVE  a * b \in Nat /\ a * b <= a * c
<1>1. PICK d \in Nat : c = b + d
  <2>1. c - b \in Nat /\ c = b + (c - b)
    OBVIOUS
  <2> QED BY <2>1
<1>2. a * c = a * b + a * d /\ a * b \in Nat /\ a * d \in Nat
  BY <1>1
<1> QED BY <1>2

LEMMA DivisionRises ==
    ASSUME NEW a \in Nat, NEW b \in Nat, NEW c \in Nat \ {0}, a <= b
    PROVE  a \div c \in Nat /\ b \div c \in Nat /\ a \div c <= b \div c
<1> DEFINE q == a \div c
           p == b \div c
<1>1. q \in Nat /\ p \in Nat
  OBVIOUS
<1>2. c * q <= a /\ b < c * (p + 1)
  OBVIOUS
<1> HIDE DEF q, p
<1>3. c * q < c * (p + 1)
  <2>1. c * q \in Int /\ c * (p + 1) \in Int
    BY <1>1
  <2> QED BY <1>2, <2>1
<1>4. ASSUME p < q PROVE FALSE
  <2>1. p + 1 \in Nat /\ q \in Nat /\ p + 1 <= q
    BY <1>1, <1>4
  <2>2. c * (p + 1) <= c * q
    BY <2>1, TimesRises
  <2>3. c * q \in Int /\ c * (p + 1) \in Int
    BY <1>1
  <2> QED BY <1>3, <2>2, <2>3
<1>5. q <= p
  BY <1>1, <1>4
<1> QED BY <1>1, <1>5 DEF p, q

LEMMA BudgetsAre ==
    ASSUME NEW m \in Nat, NEW n \in Nat, m <= n
    PROVE  /\ CallLimit(m) \in Nat /\ CharLimit(m) \in Nat
           /\ CallLimit(m) <= CallLimit(n) /\ CharLimit(m) <= CharLimit(n)
<1>1. /\ BaseProbes \in Nat /\ ProbesPerWindow \in Nat /\ ContextMultiplier \in Nat
      /\ Limit \in Nat /\ Limit > 0 /\ Limit \in Nat \ {0}
  BY ContextLimits
<1> DEFINE p == (m + Limit - 1) \div Limit
           q == (n + Limit - 1) \div Limit
<1>2. p \in Nat /\ q \in Nat /\ p <= q
  <2> DEFINE a == m + Limit - 1
             b == n + Limit - 1
  <2>1. a \in Nat /\ b \in Nat /\ a <= b
    BY <1>1
  <2> HIDE DEF a, b
  <2>2. a \div Limit \in Nat /\ b \div Limit \in Nat /\ a \div Limit <= b \div Limit
    BY <1>1, <2>1, DivisionRises
  <2> QED BY <2>2 DEF a, b
<1> DEFINE x == Greatest(1, p)
           y == Greatest(1, q)
<1>3. x \in Nat /\ y \in Nat /\ x <= y
  <2> HIDE DEF p, q
  <2> QED BY <1>2 DEF Greatest
<1>4. CallLimit(m) = BaseProbes + ProbesPerWindow * x /\ CallLimit(n) = BaseProbes + ProbesPerWindow * y
  BY DEF CallLimit
<1> HIDE DEF x, y
<1>5. ProbesPerWindow * x \in Nat /\ ProbesPerWindow * y \in Nat /\ ProbesPerWindow * x <= ProbesPerWindow * y
  BY <1>1, <1>3, TimesRises
<1>6. CallLimit(m) \in Nat /\ CallLimit(m) <= CallLimit(n)
  BY <1>1, <1>4, <1>5
<1>7. m + Limit \in Nat /\ n + Limit \in Nat /\ m + Limit <= n + Limit
  BY <1>1
<1>8. CharLimit(m) \in Nat /\ CharLimit(m) <= CharLimit(n)
  BY <1>1, <1>7, TimesRises DEF CharLimit
<1> QED BY <1>6, <1>8

(* The ends of blocks of some sizes. *)
LEMMA EndsRise ==
    ASSUME NEW sizes \in BoundedSeq(BlockSizes, MaxBlocks), sizes # <<>>
    PROVE  /\ Ends(sizes) \in Seq(Nat) /\ Len(Ends(sizes)) > 1 /\ Ends(sizes)[1] = 0
           /\ \A i, j \in 1..Len(Ends(sizes)) : i < j => Ends(sizes)[i] < Ends(sizes)[j]
<1> DEFINE m == Len(sizes)
           Rule(g) == [n \in 0..Len(sizes) |-> IF n = 0 THEN 0 ELSE g[n - 1] + sizes[n]]
           sum == CHOOSE g : g = Rule(g)
           next == [n \in 1..m |-> [s \in Nat |-> s + sizes[n]]]
<1>1. /\ m \in Nat /\ m # 0 /\ sizes \in [1..m -> BlockSizes]
      /\ \A n \in 1..m : sizes[n] \in Nat /\ sizes[n] > 0
  <2>1. PICK k \in 0..MaxBlocks : sizes \in [1..k -> BlockSizes]
    BY DEF BoundedSeq, SeqOf
  <2>2. k \in Nat
    BY ContextLimits
  <2>3. sizes \in Seq(BlockSizes)
    BY <2>1, <2>2, SeqDef
  <2>4. m \in Nat \ {0} /\ sizes \in [1..m -> BlockSizes]
    BY <2>3, EmptySeq, LenProperties
  <2>5. \A n \in 1..m : sizes[n] \in Nat /\ sizes[n] > 0
    <3> HIDE DEF m
    <3>1. \A s \in BlockSizes : s \in Nat /\ s > 0
      BY ContextLimits
    <3> QED BY <2>4, <3>1
  <2> QED BY <2>4, <2>5
<1>2. Ends(sizes) = [i \in 1..m + 1 |-> sum[i - 1]]
  BY DEF Ends
<1> HIDE DEF m
<1>3. next \in Steps(m, Nat)
  BY <1>1 DEF Steps
<1>4. \E g : g = Rule(g) /\ g \in [0..m -> Nat]
  <2>1. PICK g \in Chains(m, Nat, 0, next) : TRUE
    <3> HIDE DEF next
    <3> QED BY <1>1, <1>3, RecursionExists
  <2>2. g \in [0..m -> Nat] /\ g[0] = 0 /\ \A n \in 1..m : g[n] = next[n][g[n - 1]]
    <3> HIDE DEF next
    <3> QED BY <2>1 DEF Chains
  <2>3. ASSUME NEW n \in 0..m
        PROVE  g[n] = IF n = 0 THEN 0 ELSE g[n - 1] + sizes[n]
    <3>1. CASE n = 0
      BY <2>2, <3>1
    <3>2. CASE n # 0
      <4>1. n \in 1..m /\ n - 1 \in 0..m
        BY <1>1, <3>2
      <4>2. g[n - 1] \in Nat
        BY <2>2, <4>1
      <4> QED BY <2>2, <3>2, <4>1, <4>2
    <3> QED BY <3>1, <3>2
  <2>4. g = Rule(g)
    BY <2>2, <2>3 DEF m
  <2> QED BY <2>2, <2>4
<1>5. sum = Rule(sum)
  <2> HIDE DEF Rule
  <2> QED BY <1>4
<1>6. \A n \in 0..m : sum[n] = IF n = 0 THEN 0 ELSE sum[n - 1] + sizes[n]
  <2> HIDE DEF sum
  <2> QED BY <1>5 DEF m
<1> HIDE DEF sum, Rule
<1>7. sum[0] = 0
  BY <1>1, <1>6
<1> DEFINE Rises(n) == sum[n] \in Nat /\ \A k \in 0..n - 1 : sum[k] < sum[n]
           A == {n \in 0..m : ~ Rises(n)}
<1>8. A = {}
  <2> SUFFICES ASSUME A # {} PROVE FALSE
    OBVIOUS
  <2>1. PICK n \in A : \A j \in A : n <= j
    <3>1. A \subseteq Nat
      BY <1>1
    <3> HIDE DEF A
    <3> QED BY <3>1, LeastNumber
  <2>2. n \in 0..m /\ ~ Rises(n)
    OBVIOUS
  <2>3. n # 0
    <3>1. 0..0 - 1 = {}
      OBVIOUS
    <3> QED BY <1>7, <2>2, <3>1
  <2>4. n \in 1..m /\ n - 1 \in 0..m /\ n - 1 \notin A
    BY <1>1, <2>1, <2>2, <2>3
  <2>5. Rises(n - 1)
    <3> HIDE DEF Rises
    <3> QED BY <2>4
  <2>6. sum[n] = sum[n - 1] + sizes[n]
    BY <1>6, <2>2, <2>3
  <2>7. sum[n] \in Nat /\ sum[n - 1] < sum[n]
    BY <1>1, <2>4, <2>5, <2>6
  <2>8. ASSUME NEW k \in 0..n - 1 PROVE sum[k] < sum[n]
    <3>1. CASE k = n - 1
      BY <2>7, <3>1
    <3>2. CASE k # n - 1
      <4>1. k \in 0..n - 1 - 1
        BY <2>4, <3>2
      <4>2. k \in 0..m /\ ~ (n <= k)
        BY <1>1, <2>4, <4>1
      <4>3. Rises(k)
        <5>1. k \notin A
          <6> HIDE DEF A
          <6> QED BY <2>1, <4>2
        <5> HIDE DEF Rises
        <5> QED BY <4>2, <5>1
      <4>4. sum[k] \in Nat
        BY <4>3
      <4> QED BY <2>5, <2>7, <4>1, <4>4
    <3> QED BY <3>1, <3>2
  <2> QED BY <2>2, <2>7, <2>8
<1>9. \A n \in 0..m : Rises(n)
  <2> HIDE DEF Rises
  <2> QED BY <1>8
<1>10. Ends(sizes) \in [1..m + 1 -> Nat] /\ m + 1 \in Nat
  <2>1. \A i \in 1..m + 1 : sum[i - 1] \in Nat
    <3> TAKE i \in 1..m + 1
    <3>1. i - 1 \in 0..m
      BY <1>1
    <3> QED BY <1>9, <3>1
  <2> QED BY <1>1, <1>2, <2>1
<1>11. Ends(sizes) \in Seq(Nat) /\ Len(Ends(sizes)) = m + 1
  BY <1>10, SeqDef
<1>12. Ends(sizes)[1] = 0
  BY <1>1, <1>2, <1>7
<1>13. ASSUME NEW i \in 1..m + 1, NEW j \in 1..m + 1, i < j
       PROVE  Ends(sizes)[i] < Ends(sizes)[j]
  <2>1. i - 1 \in 0..j - 1 - 1 /\ j - 1 \in 0..m
    BY <1>1, <1>13
  <2>2. sum[i - 1] < sum[j - 1]
    BY <1>9, <2>1
  <2> QED BY <1>2, <2>2
<1> QED BY <1>1, <1>11, <1>12, <1>13

LEMMA ContextInitially == ContextInit => ContextInv
<1> SUFFICES ASSUME ContextInit PROVE ContextInv
  OBVIOUS
<1>1. /\ stage = "whole" /\ best = match /\ probes = <<>> /\ tried = {}
      /\ used = 0 /\ sent = 0
  BY DEF ContextInit
<1>2. SectionOK
  <2>1. ends \in Sections
    BY DEF ContextInit
  <2>2. PICK sizes \in BoundedSeq(BlockSizes, MaxBlocks) \ {<<>>} : ends = Ends(sizes)
    BY <2>1 DEF Sections
  <2>3. match \in (1..Length) \X (1..Length) /\ match[1] <= match[2]
    BY DEF ContextInit
  <2> QED BY <2>2, <2>3, EndsRise DEF SectionOK
<1>3. Unbegun /\ InParts /\ InBlocks /\ InProbes /\ InGrowth /\ NothingMoreFits
  BY <1>1 DEF Unbegun, InParts, InBlocks, InProbes, InGrowth, NothingMoreFits
<1>4. WorkIsBounded
  <2>1. Length \in Nat /\ Text = Length
    BY <1>1, <1>2, SectionShape DEF Text
  <2>2. CallLimit(Length) \in Nat /\ CharLimit(Length) \in Nat
    BY <2>1, BudgetsAre
  <2> QED BY <1>1, <2>1, <2>2 DEF WorkIsBounded
<1> QED BY <1>1, <1>2, <1>3, <1>4 DEF ContextInv

---------------------------------------------------------------------------
(* What a step does to what has been measured, and to the section. *)
LEMMA FitKeeps ==
    ASSUME NEW w, NEW fits, Fit(w, fits)
    PROVE  /\ w \in DOMAIN measured' /\ measured'[w] = fits
           /\ \A v \in DOMAIN measured : v \in DOMAIN measured' /\ measured'[v] = measured[v]
<1>1. /\ fits \in IF w \in DOMAIN measured THEN {measured[w]}
                  ELSE {Size(w) + d <= Limit : d \in ContextDrifts}
      /\ measured' = [v \in DOMAIN measured \cup {w} |-> IF v = w THEN fits ELSE measured[v]]
  BY DEF Fit
<1>2. w \in DOMAIN measured' /\ measured'[w] = fits
  BY <1>1
<1>3. ASSUME NEW v \in DOMAIN measured
      PROVE  v \in DOMAIN measured' /\ measured'[v] = measured[v]
  BY <1>1, <1>3
<1> QED BY <1>2, <1>3

LEMMA SectionStays ==
    ASSUME UNCHANGED section
    PROVE  /\ SectionOK' = SectionOK /\ Length' = Length /\ Seed' = Seed
           /\ SeedLeft' = SeedLeft /\ SeedRight' = SeedRight /\ Len(ends)' = Len(ends)
           /\ Blocks' = Blocks /\ match' = match
           /\ \A l, r : Window(l, r)' = Window(l, r)
           /\ \A w : LeftBlock(w)' = LeftBlock(w) /\ RightBlock(w)' = RightBlock(w)
           /\ Expansions' = Expansions /\ Parts' = Parts /\ Exhaustible' = Exhaustible
<1>1. ends' = ends /\ groups' = groups /\ match' = match
  BY DEF section
<1>2. Length' = Length /\ Len(ends)' = Len(ends) /\ Blocks' = Blocks /\ match' = match
  BY <1>1 DEF Length, Blocks
<1>3. SectionOK' = SectionOK
  BY <1>1, <1>2 DEF SectionOK
<1>4. Touched' = Touched
  BY <1>1, <1>2 DEF Touched
<1>5. SeedLeft' = SeedLeft /\ SeedRight' = SeedRight
  BY <1>4 DEF SeedLeft, SeedRight
<1>6. \A l, r : Window(l, r)' = Window(l, r)
  BY <1>1 DEF Window
<1>7. Seed' = Seed
  BY <1>1, <1>5 DEF Seed, Window
<1>8. \A w : LeftBlock(w)' = LeftBlock(w)
  BY <1>1, <1>2 DEF LeftBlock
<1>9. \A w : RightBlock(w)' = RightBlock(w)
  BY <1>1, <1>2 DEF RightBlock
<1>10. Expansions' = Expansions
  BY <1>1, <1>2, <1>5 DEF Expansions, Window
<1>11. Parts' = Parts
  <2>1. Cuts' = Cuts
    BY <1>1, <1>7 DEF Cuts
  <2> QED BY <1>1, <2>1 DEF Parts
<1>12. Exhaustible' = Exhaustible
  BY <1>2, <1>10 DEF Exhaustible
<1> QED BY <1>2, <1>3, <1>5, <1>6, <1>7, <1>8, <1>9, <1>10, <1>11, <1>12

(* The length that sets the budget. *)
LEMMA TextIs ==
    ASSUME SectionOK
    PROVE  Text \in Nat /\ Text <= Length
<1>1. Seed = Window(SeedLeft, SeedRight) /\ Length \in Nat
  BY SectionShape DEF Seed
<1>2. Size(Seed) \in Nat /\ Size(Seed) <= Length
  BY <1>1, SeedIs, WindowIs
<1> QED BY <1>1, <1>2 DEF Text

(* A step that sends nothing keeps the budget, also when it leaves the     *)
(* block for the section,                                                  *)
LEMMA BudgetStays ==
    ASSUME SectionOK, used \in Nat, sent \in Nat, WorkIsBounded, UNCHANGED section,
           used' = used, sent' = sent, stage' # "parts" \/ (used = 0 /\ sent = 0) \/ stage = "parts"
    PROVE  WorkIsBounded'
<1>1. Text \in Nat /\ Text <= Length /\ SectionOK' /\ Length' = Length /\ Seed' = Seed
  BY TextIs, SectionStays
<1>2. Text' \in Nat
  <2>1. Text' = IF stage' = "parts" THEN Size(Seed) ELSE Length
    BY <1>1 DEF Text
  <2>2. Size(Seed) \in Nat /\ Length \in Nat
    BY SeedIs, WindowIs, SectionShape DEF Seed
  <2> QED BY <2>1, <2>2
<1>3. /\ CallLimit(Text) \in Nat /\ CharLimit(Text) \in Nat
      /\ used <= CallLimit(Text) /\ sent <= CharLimit(Text)
  BY <1>1, BudgetsAre DEF WorkIsBounded
<1>4. CallLimit(Text') \in Nat /\ CharLimit(Text') \in Nat
  BY <1>2, BudgetsAre
<1>5. used <= CallLimit(Text') /\ sent <= CharLimit(Text')
  <2>1. CASE stage' # "parts"
    <3>1. Text' = Length /\ Length \in Nat
      BY <1>1, <2>1, SectionShape DEF Text
    <3>2. CallLimit(Text) <= CallLimit(Length) /\ CharLimit(Text) <= CharLimit(Length)
      BY <1>1, <3>1, BudgetsAre
    <3> QED BY <1>3, <1>4, <3>1, <3>2
  <2>2. CASE used = 0 /\ sent = 0
    BY <1>4, <2>2
  <2>3. CASE stage' = "parts" /\ stage = "parts"
    <3>1. Text' = Text
      BY <1>1, <2>3 DEF Text
    <3> QED BY <1>3, <3>1
  <2> QED BY <2>1, <2>2, <2>3
<1>6. WorkIsBounded' = (used' <= CallLimit(Text') /\ sent' <= CharLimit(Text'))
  BY DEF WorkIsBounded, CallLimit, CharLimit
<1> QED BY <1>5, <1>6

(* and what was checked to be affordable is. *)
LEMMA AffordableStays ==
    ASSUME SectionOK, used \in Nat, sent \in Nat, UNCHANGED section, stage' = stage,
           NEW w, Size(w) \in Nat, Affordable(w), Spend(w)
    PROVE  WorkIsBounded' /\ used' \in Nat /\ sent' \in Nat
<1>1. Text \in Nat /\ Length' = Length /\ Seed' = Seed
  BY TextIs, SectionStays
<1>2. Text' = Text
  BY <1>1 DEF Text
<1>3. CallLimit(Text) \in Nat /\ CharLimit(Text) \in Nat
  BY <1>1, BudgetsAre
<1>4. used < CallLimit(Text) /\ sent + Size(w) <= CharLimit(Text)
  BY DEF Affordable
<1>5. used' = used + 1 /\ sent' = sent + Size(w)
  BY DEF Spend
<1>6. used' <= CallLimit(Text) /\ sent' <= CharLimit(Text)
  BY <1>3, <1>4, <1>5
<1>7. WorkIsBounded' = (used' <= CallLimit(Text') /\ sent' <= CharLimit(Text'))
  BY DEF WorkIsBounded, CallLimit, CharLimit
<1>8. used' \in Nat /\ sent' \in Nat
  BY <1>5
<1>9. used' <= CallLimit(Text') /\ sent' <= CharLimit(Text')
  BY <1>2, <1>6
<1> QED BY <1>7, <1>8, <1>9

LEMMA WindowSizes ==
    ASSUME SectionOK
    PROVE  /\ \A k \in DOMAIN Expansions : Size(Expansions[k]) \in Nat
           /\ \A k \in DOMAIN Parts : Size(Parts[k]) \in Nat
<1>1. ASSUME NEW k \in DOMAIN Expansions PROVE Size(Expansions[k]) \in Nat
  <2>1. PICK l \in 1..SeedLeft, r \in SeedRight..Len(ends) - 1 : Expansions[k] = Window(l, r)
    BY ExpansionIs
  <2>2. l \in Blocks /\ r \in Blocks /\ l <= r
    BY SeedIs, SectionShape
  <2> QED BY <2>1, <2>2, WindowIs
<1>2. ASSUME NEW k \in DOMAIN Parts PROVE Size(Parts[k]) \in Nat
  <2>1. /\ Parts[k][1] \in Nat /\ Parts[k][2] \in Nat
        /\ Parts[k][1] <= match[1] /\ match[2] <= Parts[k][2]
    BY PartsGrow DEF Holds
  <2>2. match[1] \in Nat /\ match[2] \in Nat /\ match[1] <= match[2]
    BY SectionShape
  <2> QED BY <2>1, <2>2 DEF Size
<1> QED BY <1>1, <1>2

LEMMA HoldsItself ==
    ASSUME NEW w, w[1] \in Int, w[2] \in Int
    PROVE  Holds(w, w)
BY DEF Holds

LEMMA MatchHoldsItself == SectionOK => Holds(match, match)
BY SectionShape, HoldsItself

LEMMA TakeWholeStep == ASSUME ContextInv, TakeWhole PROVE ContextInv' /\ ContextGrows
<1>1. PICK fits \in BOOLEAN :
        /\ Fit(Whole, fits)
        /\ stage' = IF fits THEN "done" ELSE "seed"
        /\ best' = IF fits THEN Whole ELSE best
  BY DEF TakeWhole
<1>2. /\ stage = "whole" /\ probes' = probes /\ tried' = tried /\ UNCHANGED section
      /\ used' = used /\ sent' = sent
  BY DEF TakeWhole, spending
<1>3. /\ SectionOK /\ used \in Nat /\ sent \in Nat /\ WorkIsBounded
      /\ best = match /\ tried = {} /\ used = 0 /\ sent = 0
  BY <1>2 DEF ContextInv, Unbegun
<1>4. SectionOK' /\ match' = match /\ Whole' = Whole
  BY <1>2, <1>3, SectionStays DEF Whole
<1>5. Holds(Whole, match) /\ Holds(match, match)
  <2>1. Whole[1] = 1 /\ Whole[2] = Length
    BY DEF Whole
  <2> QED BY <1>3, <2>1, SectionShape, MatchHoldsItself DEF Holds
<1>6. WorkIsBounded'
  BY <1>1, <1>2, <1>3, BudgetStays
<1>7. CASE fits = TRUE
  <2>1. stage' = "done" /\ best' = Whole
    BY <1>1, <1>7
  <2>2. Fitting(best)'
    BY <1>1, <1>7, <2>1, FitKeeps DEF Fitting
  <2>3. Holds(best, match)'
    BY <1>4, <1>5, <2>1 DEF Holds
  <2>4. NothingMoreFits'
    BY <1>4, <2>1 DEF NothingMoreFits
  <2>5. (Unbegun /\ InParts /\ InBlocks /\ InProbes /\ InGrowth)'
    BY <2>1 DEF Unbegun, InParts, InBlocks, InProbes, InGrowth
  <2>6. used' \in Nat /\ sent' \in Nat
    BY <1>2, <1>3
  <2>7. ContextGrows
    BY <1>3, <1>5, <2>1 DEF ContextGrows
  <2> QED BY <1>4, <1>6, <2>1, <2>2, <2>3, <2>4, <2>5, <2>6, <2>7 DEF ContextInv
<1>8. CASE fits = FALSE
  <2>1. stage' = "seed" /\ best' = match
    BY <1>1, <1>3, <1>8
  <2>2. (Unbegun /\ InParts /\ InBlocks /\ InProbes /\ InGrowth /\ NothingMoreFits)'
    BY <1>2, <1>3, <1>4, <2>1
       DEF Unbegun, InParts, InBlocks, InProbes, InGrowth, NothingMoreFits
  <2>3. used' \in Nat /\ sent' \in Nat
    BY <1>2, <1>3
  <2>4. ContextGrows
    BY <1>3, <1>5, <2>1 DEF ContextGrows
  <2> QED BY <1>4, <1>6, <2>1, <2>2, <2>3, <2>4 DEF ContextInv
<1> QED BY <1>7, <1>8

LEMMA TakeSeedStep == ASSUME ContextInv, TakeSeed PROVE ContextInv' /\ ContextGrows
<1>1. /\ Fit(Seed, TRUE) /\ best' = Seed
      /\ stage' = IF Exhaustible THEN "grow" ELSE "bounded"
      /\ probes' = IF Exhaustible THEN <<>> ELSE BlockProbes
      /\ stage = "seed" /\ tried' = tried /\ UNCHANGED section /\ used' = used /\ sent' = sent
  BY DEF TakeSeed, spending
<1>2. /\ SectionOK /\ used \in Nat /\ sent \in Nat /\ WorkIsBounded
      /\ best = match /\ tried = {} /\ used = 0 /\ sent = 0
  BY <1>1 DEF ContextInv, Unbegun
<1>3. /\ SectionOK' /\ Seed' = Seed /\ SeedLeft' = SeedLeft /\ SeedRight' = SeedRight
      /\ Len(ends)' = Len(ends) /\ Expansions' = Expansions /\ Exhaustible' = Exhaustible
      /\ \A l, r : Window(l, r)' = Window(l, r)
      /\ \A w : LeftBlock(w)' = LeftBlock(w) /\ RightBlock(w)' = RightBlock(w)
  BY <1>1, <1>2, SectionStays
<1>4. stage' \in {"grow", "bounded"}
  BY <1>1
<1>5. WorkIsBounded'
  BY <1>1, <1>2, <1>4, BudgetStays
<1>6. Fitting(best)'
  BY <1>1, FitKeeps DEF Fitting
<1>7. /\ SeedLeft \in 1..SeedLeft /\ SeedRight \in SeedRight..Len(ends) - 1
      /\ SeedLeft \in Nat /\ SeedRight \in Nat
      /\ Seed = Window(SeedLeft, SeedRight)
      /\ LeftBlock(Seed) = SeedLeft /\ RightBlock(Seed) = SeedRight
  BY <1>2, SeedIs, SectionShape, WindowIs DEF Seed
<1>8. InBlocks'
  <2>1. best' = Window(SeedLeft, SeedRight)'
    BY <1>1, <1>3, <1>7
  <2>2. \E l \in 1..SeedLeft', r \in SeedRight'..Len(ends)' - 1 : best' = Window(l, r)'
    BY <1>3, <1>7, <2>1
  <2> QED BY <1>1, <1>2, <1>6, <2>2 DEF InBlocks
<1>9. InProbes'
  <2>1. 1 \in DOMAIN Expansions /\ Expansions[1] = Seed
    BY <1>2, ExpansionsAre
  <2>2. BlockProbes \in Seq(DOMAIN Expansions)
    BY <1>2, BlockProbesAre
  <2> QED BY <1>1, <1>2, <1>3, <2>1, <2>2 DEF InProbes
<1>10. InGrowth'
  <2>1. Extra' = SeedLeft - SeedLeft + SeedRight - SeedRight
    BY <1>1, <1>3, <1>7 DEF Extra
  <2>2. Extra' = 0
    BY <1>7, <2>1
  <2>3. TriedOnes' = 0
    BY <1>1, <1>2 DEF TriedOnes
  <2>4. Length' \in Nat
    BY <1>1, <1>2, SectionShape, SectionStays
  <2>5. used' <= 2 * Extra' + TriedOnes'
    BY <1>1, <1>2, <2>2, <2>3
  <2>6. sent' <= used' * Length'
    <3>1. \A x \in Nat : 0 <= 0 * x
      OBVIOUS
    <3> QED BY <1>1, <1>2, <2>4, <3>1
  <2>7. stage' = "grow" => Exhaustible'
    BY <1>1, <1>3
  <2> QED BY <2>5, <2>6, <2>7 DEF InGrowth
<1>11. (Unbegun /\ InParts /\ NothingMoreFits)'
  BY <1>4 DEF Unbegun, InParts, NothingMoreFits
<1>12. used' \in Nat /\ sent' \in Nat /\ stage' # "done"
  BY <1>1, <1>2
<1>13. ContextGrows
  BY <1>1, <1>2, SeedIs DEF ContextGrows
<1> QED BY <1>3, <1>4, <1>5, <1>8, <1>9, <1>10, <1>11, <1>12, <1>13 DEF ContextInv

LEMMA SeedTooLongStep == ASSUME ContextInv, SeedTooLong PROVE ContextInv' /\ ContextGrows
<1>1. /\ Fit(Seed, FALSE) /\ stage' \in {"failed", "match"} /\ stage = "seed"
      /\ UNCHANGED section /\ best' = best /\ tried' = tried /\ used' = used /\ sent' = sent
  BY DEF SeedTooLong, spending
<1>2. /\ SectionOK /\ used \in Nat /\ sent \in Nat /\ WorkIsBounded
      /\ best = match /\ tried = {} /\ used = 0 /\ sent = 0
  BY <1>1 DEF ContextInv, Unbegun
<1>3. SectionOK' /\ Seed' = Seed /\ match' = match
  BY <1>1, <1>2, SectionStays
<1>4. WorkIsBounded'
  BY <1>1, <1>2, BudgetStays
<1>5. TooLong(Seed)'
  BY <1>1, <1>3, FitKeeps DEF TooLong
<1>6. (Unbegun /\ InParts /\ InBlocks /\ InProbes /\ InGrowth /\ NothingMoreFits)'
  BY <1>1, <1>2, <1>3, <1>5 DEF Unbegun, InParts, InBlocks, InProbes, InGrowth, NothingMoreFits
<1>7. ContextGrows
  BY <1>1, <1>2, MatchHoldsItself DEF ContextGrows
<1> QED BY <1>1, <1>2, <1>3, <1>4, <1>6, <1>7 DEF ContextInv

LEMMA HoldsAll ==
    ASSUME NEW u, NEW v, NEW w, Holds(u, v), Holds(v, w),
           u[1] \in Int, u[2] \in Int, v[1] \in Int, v[2] \in Int, w[1] \in Int, w[2] \in Int
    PROVE  Holds(u, w)
BY DEF Holds

(* Windows with the blocks of the match. *)
LEMMA AroundSeed ==
    ASSUME SectionOK, NEW l \in 1..SeedLeft, NEW r \in SeedRight..Len(ends) - 1
    PROVE  /\ l \in Blocks /\ r \in Blocks /\ l <= r /\ l \in Nat /\ r \in Nat
           /\ Holds(Window(l, r), match)
<1>1. /\ SeedLeft \in Blocks /\ SeedRight \in Blocks /\ SeedLeft <= SeedRight
      /\ Len(ends) \in Nat /\ Blocks = 1..Len(ends) - 1
  BY SeedIs, SectionShape
<1>2. l \in Blocks /\ r \in Blocks /\ l <= r /\ l <= SeedLeft /\ SeedRight <= r /\ l \in Nat /\ r \in Nat
  BY <1>1
<1>3. Holds(Window(l, r), Seed)
  BY <1>1, <1>2, WiderWindow DEF Seed
<1>4. Holds(Seed, match)
  BY SeedIs
<1>5. /\ Seed[1] = ends[SeedLeft] + 1 /\ Seed[2] = ends[SeedRight + 1]
      /\ ends[SeedLeft] \in Nat /\ ends[SeedRight + 1] \in Nat
      /\ Window(l, r)[1] = ends[l] + 1 /\ Window(l, r)[2] = ends[r + 1]
      /\ ends[l] \in Nat /\ ends[r + 1] \in Nat
  BY <1>1, <1>2, WindowIs DEF Seed
<1>6. match[1] \in Nat /\ match[2] \in Nat
  BY SectionShape
<1>7. Holds(Window(l, r), match)
  <2>1. /\ Window(l, r)[1] \in Int /\ Window(l, r)[2] \in Int
        /\ Seed[1] \in Int /\ Seed[2] \in Int /\ match[1] \in Int /\ match[2] \in Int
    <3>1. Window(l, r)[1] \in Int /\ Window(l, r)[2] \in Int
      BY <1>5
    <3>2. Seed[1] \in Int /\ Seed[2] \in Int
      BY <1>5
    <3> QED BY <1>6, <3>1, <3>2
  <2> QED BY <1>3, <1>4, <2>1, HoldsAll
<1> QED BY <1>2, <1>7

(* Where a context of whole blocks can grow. *)
LEMMA SidesAre ==
    ASSUME SectionOK, NEW l \in Blocks, NEW r \in Blocks, l <= r, best = Window(l, r)
    PROVE  /\ Sides \subseteq {"left", "right"}
           /\ "left" \in Sides <=> l > 1
           /\ "right" \in Sides <=> r < Len(ends) - 1
           /\ Grown("left") = Window(l - 1, r) /\ Grown("right") = Window(l, r + 1)
           /\ LeftBlock(best) = l /\ RightBlock(best) = r
<1> DEFINE n == Len(ends)
<1>1. /\ n \in Nat /\ n > 1 /\ l \in 1..n - 1 /\ r \in 1..n - 1 /\ Length = ends[n]
      /\ \A i \in 1..n : ends[i] \in Nat
  BY SectionShape
<1>2. ends[1] = 0 /\ \A i, j \in 1..n : i < j => ends[i] < ends[j]
  BY DEF SectionOK
<1>3. best[1] = ends[l] + 1 /\ best[2] = ends[r + 1] /\ LeftBlock(best) = l /\ RightBlock(best) = r
  BY WindowIs
<1> HIDE DEF n
<1>4. l \in 1..n /\ 1 \in 1..n /\ r + 1 \in 1..n /\ n \in 1..n
  BY <1>1
<1>5. best[1] > 1 <=> l > 1
  <2>1. CASE l = 1
    BY <1>2, <1>3, <2>1
  <2>2. CASE l # 1
    <3>1. 1 < l
      BY <1>1, <2>2
    <3>2. ends[1] < ends[l] /\ ends[l] \in Nat
      BY <1>1, <1>2, <1>4, <3>1
    <3> QED BY <1>2, <1>3, <3>1, <3>2
  <2> QED BY <2>1, <2>2
<1>6. best[2] < Length <=> r < n - 1
  <2>1. CASE r = n - 1
    <3>1. r + 1 = n /\ ends[n] \in Nat
      BY <1>1, <1>4, <2>1
    <3> QED BY <1>1, <1>3, <2>1, <3>1
  <2>2. CASE r # n - 1
    <3>1. r + 1 < n /\ r < n - 1
      BY <1>1, <2>2
    <3> QED BY <1>1, <1>2, <1>3, <1>4, <3>1
  <2> QED BY <2>1, <2>2
<1>7. Grown("left") = Window(l - 1, r) /\ Grown("right") = Window(l, r + 1)
  BY <1>3 DEF Grown
<1> QED BY <1>3, <1>5, <1>6, <1>7 DEF Sides, n

LEMMA NearestIs ==
    ASSUME NEW S, S \subseteq {"left", "right"}, S # {}
    PROVE  Nearest(S) \in S
<1>1. CASE S = {"left", "right"}
  BY <1>1 DEF Nearest
<1>2. CASE S # {"left", "right"}
  <2>1. Nearest(S) = CHOOSE s \in S : TRUE
    BY <1>2 DEF Nearest
  <2> QED BY <2>1
<1> QED BY <1>1, <1>2

(* The context with one block more on a side. *)
LEMMA GrownIs ==
    ASSUME SectionOK, NEW l \in 1..SeedLeft, NEW r \in SeedRight..Len(ends) - 1,
           best = Window(l, r), NEW side \in Sides
    PROVE  \E a \in 1..SeedLeft, b \in SeedRight..Len(ends) - 1 :
              Grown(side) = Window(a, b) /\ a <= l /\ r <= b /\ l - a + b - r = 1
<1>1. /\ l \in Blocks /\ r \in Blocks /\ l <= r /\ l \in Nat /\ r \in Nat
      /\ SeedLeft \in Nat /\ SeedRight \in Nat /\ Len(ends) \in Nat
  BY AroundSeed, SeedIs, SectionShape
<1>2. /\ side \in {"left", "right"}
      /\ side = "left" => l > 1 /\ Grown(side) = Window(l - 1, r)
      /\ side = "right" => r < Len(ends) - 1 /\ Grown(side) = Window(l, r + 1)
  BY <1>1, SidesAre
<1>3. CASE side = "left"
  <2>1. l - 1 \in 1..SeedLeft /\ l - 1 <= l /\ r <= r /\ l - (l - 1) + r - r = 1
    BY <1>1, <1>2, <1>3
  <2> QED BY <1>2, <1>3, <2>1
<1>4. CASE side = "right"
  <2>1. r + 1 \in SeedRight..Len(ends) - 1 /\ l <= l /\ r <= r + 1 /\ l - l + (r + 1) - r = 1
    BY <1>1, <1>2, <1>4
  <2> QED BY <1>2, <1>4, <2>1
<1> QED BY <1>2, <1>3, <1>4

LEMMA ProbeStep == ASSUME ContextInv, Probe PROVE ContextInv' /\ ContextGrows
<1> DEFINE i == Head(probes)
           w == Expansions[i]
<1>1. /\ stage = "bounded" /\ probes # <<>> /\ UNCHANGED section
      /\ stage' = stage /\ tried' = tried
  BY DEF Probe
<1>2. /\ SectionOK /\ used \in Nat /\ sent \in Nat /\ WorkIsBounded
      /\ Fitting(best) /\ tried = {} /\ probes \in Seq(DOMAIN Expansions)
  BY <1>1 DEF ContextInv, InBlocks, InProbes
<1>3. PICK j \in DOMAIN Expansions : best = Expansions[j]
  BY <1>1 DEF ContextInv, InProbes
<1>4. /\ i \in DOMAIN Expansions /\ Tail(probes) \in Seq(DOMAIN Expansions)
      /\ <<>> \in Seq(DOMAIN Expansions)
  BY <1>1, <1>2, HeadTailProperties, EmptySeq
<1>5. /\ SectionOK' /\ SeedLeft' = SeedLeft /\ SeedRight' = SeedRight
      /\ Len(ends)' = Len(ends) /\ Expansions' = Expansions
      /\ \A l, r : Window(l, r)' = Window(l, r)
  BY <1>1, <1>2, SectionStays
<1>6. Holds(best, best) /\ best[1] \in Int /\ best[2] \in Int
  <2>1. PICK l \in 1..SeedLeft, r \in SeedRight..Len(ends) - 1 : best = Window(l, r)
    BY <1>2, <1>3, ExpansionIs
  <2>2. l \in Blocks /\ r \in Blocks /\ l <= r
    BY <1>2, AroundSeed
  <2>3. best[1] = ends[l] + 1 /\ best[2] = ends[r + 1] /\ ends[l] \in Nat /\ ends[r + 1] \in Nat
    BY <1>2, <2>1, <2>2, WindowIs
  <2>4. best[1] \in Int /\ best[2] \in Int
    BY <2>3
  <2> QED BY <2>4, HoldsItself
<1>7. CASE Affordable(w)
  <2>1. PICK fits \in BOOLEAN :
          Fit(w, fits) /\ Spend(w) /\ best' = Better(w, fits) /\ probes' = Tail(probes)
    BY <1>1, <1>7 DEF Probe
  <2>2. /\ \E k \in DOMAIN Expansions : best' = Expansions[k]
        /\ Fitting(best)' /\ Holds(best', best)
    <3>1. CASE fits = TRUE /\ Size(w) > Size(best)
      <4>1. best' = w
        BY <2>1, <3>1 DEF Better
      <4>2. Holds(w, best)
        BY <1>2, <1>3, <1>4, <3>1, BetterExpansion
      <4>3. Fitting(best)'
        BY <2>1, <3>1, <4>1, FitKeeps DEF Fitting
      <4> QED BY <1>4, <4>1, <4>2, <4>3
    <3>2. CASE ~ (fits = TRUE /\ Size(w) > Size(best))
      <4>1. best' = best
        BY <2>1, <3>2 DEF Better
      <4>2. Fitting(best)'
        BY <1>2, <2>1, <4>1, FitKeeps DEF Fitting
      <4> QED BY <1>3, <1>6, <4>1, <4>2
    <3> QED BY <3>1, <3>2
  <2>3. WorkIsBounded' /\ used' \in Nat /\ sent' \in Nat
    BY <1>1, <1>2, <1>4, <1>7, <2>1, WindowSizes, AffordableStays
  <2>4. InBlocks'
    <3>1. PICK k \in DOMAIN Expansions : best' = Expansions[k]
      BY <2>2
    <3>2. \E l \in 1..SeedLeft, r \in SeedRight..Len(ends) - 1 : best' = Window(l, r)
      BY <1>2, <3>1, ExpansionIs
    <3>3. \E l \in 1..SeedLeft', r \in SeedRight'..Len(ends)' - 1 : best' = Window(l, r)'
      BY <1>5, <3>2
    <3> QED BY <1>1, <1>2, <2>2, <3>3 DEF InBlocks
  <2>5. InProbes'
    BY <1>1, <1>2, <1>4, <1>5, <2>1, <2>2 DEF InProbes
  <2>6. (Unbegun /\ InParts /\ InGrowth /\ NothingMoreFits)'
    BY <1>1 DEF Unbegun, InParts, InGrowth, NothingMoreFits
  <2> QED BY <1>1, <1>5, <2>2, <2>3, <2>4, <2>5, <2>6 DEF ContextInv, ContextGrows
<1>8. CASE ~ Affordable(w)
  <2>1. /\ probes' = <<>> /\ best' = best /\ measured' = measured
        /\ used' = used /\ sent' = sent
    BY <1>1, <1>8 DEF Probe
  <2>2. WorkIsBounded'
    BY <1>1, <1>2, <2>1, BudgetStays
  <2>3. Fitting(best)'
    BY <1>2, <2>1 DEF Fitting
  <2>4. InBlocks'
    <3>1. \E l \in 1..SeedLeft, r \in SeedRight..Len(ends) - 1 : best' = Window(l, r)
      BY <1>1, <2>1 DEF ContextInv, InBlocks
    <3>2. \E l \in 1..SeedLeft', r \in SeedRight'..Len(ends)' - 1 : best' = Window(l, r)'
      BY <1>5, <3>1
    <3> QED BY <1>1, <1>2, <2>3, <3>2 DEF InBlocks
  <2>5. InProbes'
    BY <1>4, <1>5, <2>1 DEF InProbes
  <2>6. (Unbegun /\ InParts /\ InGrowth /\ NothingMoreFits)'
    BY <1>1 DEF Unbegun, InParts, InGrowth, NothingMoreFits
  <2> QED BY <1>1, <1>2, <1>5, <1>6, <2>1, <2>2, <2>4, <2>5, <2>6 DEF ContextInv, ContextGrows
<1> QED BY <1>7, <1>8

(* A loop that calls at most twice for each block more is within a budget  *)
(* of two calls for each block there is.                                   *)
LEMMA WithinBudget ==
    ASSUME NEW n \in Nat, NEW m \in Nat, NEW k \in Nat, NEW length \in Nat,
           NEW callLimit \in Nat, NEW charLimit \in Nat,
           n <= 2 * k, m <= n * length,
           2 * k <= callLimit, 2 * k * length <= charLimit
    PROVE  n <= callLimit /\ m <= charLimit
<1> DEFINE b == 2 * k
<1>1. b \in Nat /\ n <= b /\ b <= callLimit /\ b * length <= charLimit
  OBVIOUS
<1> HIDE DEF b
<1>2. length * n <= length * b /\ length * n \in Nat
  BY <1>1, TimesRises
<1>3. length * n = n * length /\ length * b = b * length /\ b * length \in Nat
  BY <1>1
<1>4. m <= charLimit
  BY <1>1, <1>2, <1>3
<1> QED BY <1>1, <1>4

LEMMA GrowStep == ASSUME ContextInv, Grow PROVE ContextInv' /\ ContextGrows
<1> DEFINE side == Nearest(Sides \ tried)
           w == Grown(side)
<1>1. /\ stage = "grow" \/ (stage = "bounded" /\ probes = <<>>)
      /\ Sides \ tried # {} /\ UNCHANGED section /\ probes' = probes
  BY DEF Grow
<1>2. /\ SectionOK /\ used \in Nat /\ sent \in Nat /\ WorkIsBounded
      /\ Fitting(best) /\ tried \subseteq Sides /\ \A s \in tried : TooLong(Grown(s))
  BY <1>1 DEF ContextInv, InBlocks
<1>3. PICK l \in 1..SeedLeft, r \in SeedRight..Len(ends) - 1 : best = Window(l, r)
  BY <1>1 DEF ContextInv, InBlocks
<1>4. /\ l \in Blocks /\ r \in Blocks /\ l <= r /\ l \in Nat /\ r \in Nat
      /\ Holds(best, match)
      /\ SeedLeft \in Nat /\ SeedRight \in Nat /\ Len(ends) \in Nat /\ Length \in Nat
  BY <1>2, <1>3, AroundSeed, SeedIs, SectionShape
<1>5. /\ Sides \subseteq {"left", "right"} /\ LeftBlock(best) = l /\ RightBlock(best) = r
      /\ best[1] \in Int /\ best[2] \in Int
  BY <1>2, <1>3, <1>4, SidesAre, WindowIs
<1>6. side \in Sides /\ side \notin tried
  <2> DEFINE S == Sides \ tried
  <2>1. S \subseteq {"left", "right"} /\ S # {}
    BY <1>1, <1>5
  <2> HIDE DEF S
  <2>2. Nearest(S) \in S
    BY <2>1, NearestIs
  <2> QED BY <2>2 DEF S
<1>7. PICK a \in 1..SeedLeft, b \in SeedRight..Len(ends) - 1 :
        w = Window(a, b) /\ a <= l /\ r <= b /\ l - a + b - r = 1
  <2> HIDE DEF side
  <2> QED BY <1>2, <1>3, <1>6, GrownIs
<1>8. /\ a \in Blocks /\ b \in Blocks /\ a <= b /\ a \in Nat /\ b \in Nat
      /\ Size(w) \in Nat /\ Size(w) <= Length
      /\ LeftBlock(w) = a /\ RightBlock(w) = b
      /\ Holds(w, best) /\ Holds(best, best)
  <2>1. a \in Blocks /\ b \in Blocks /\ a <= b /\ a \in Nat /\ b \in Nat
    BY <1>2, AroundSeed
  <2>2. /\ Size(w) \in Nat /\ Size(w) <= Length
        /\ LeftBlock(w) = a /\ RightBlock(w) = b
    BY <1>2, <1>7, <2>1, WindowIs
  <2>3. Holds(w, best)
    BY <1>2, <1>3, <1>4, <1>7, <2>1, WiderWindow
  <2> QED BY <1>5, <2>1, <2>2, <2>3, HoldsItself
<1>9. /\ SectionOK' /\ SeedLeft' = SeedLeft /\ SeedRight' = SeedRight /\ Length' = Length
      /\ Len(ends)' = Len(ends) /\ match' = match /\ Exhaustible' = Exhaustible
      /\ \A x, y : Window(x, y)' = Window(x, y)
      /\ \A v : LeftBlock(v)' = LeftBlock(v) /\ RightBlock(v)' = RightBlock(v)
      /\ Expansions' = Expansions
  BY <1>1, <1>2, SectionStays
<1> HIDE DEF side, w
<1>10. CASE stage = "grow" \/ Affordable(w)
  <2>1. PICK fits \in BOOLEAN :
          /\ Fit(w, fits) /\ Spend(w)
          /\ best' = IF fits THEN w ELSE best
          /\ tried' = IF fits THEN {} ELSE tried \cup {side}
          /\ stage' = stage
    BY <1>1, <1>10 DEF Grow, side, w
  <2>2. used' = used + 1 /\ sent' = sent + Size(w) /\ used' \in Nat /\ sent' \in Nat
    BY <1>2, <1>8, <2>1 DEF Spend
  <2>3. /\ \E x \in 1..SeedLeft, y \in SeedRight..Len(ends) - 1 : best' = Window(x, y)
        /\ Fitting(best)' /\ ContextGrows
    <3>1. CASE fits = TRUE
      BY <1>7, <1>8, <2>1, <3>1, FitKeeps DEF Fitting, ContextGrows
    <3>2. CASE fits = FALSE
      <4>1. best' = best
        BY <2>1, <3>2
      <4>2. Fitting(best)'
        BY <1>2, <2>1, <4>1, FitKeeps DEF Fitting
      <4> QED BY <1>3, <1>8, <4>1, <4>2 DEF ContextGrows
    <3> QED BY <3>1, <3>2
  <2>4. tried' \subseteq Sides' /\ \A s \in tried' : TooLong(Grown(s))'
    <3>1. CASE fits = TRUE
      BY <2>1, <3>1
    <3>2. CASE fits = FALSE
      <4>1. best' = best /\ tried' = tried \cup {side}
        BY <2>1, <3>2
      <4>2. Sides' = Sides
        BY <1>9, <4>1 DEF Sides
      <4>3. \A s : Grown(s)' = Grown(s)
        BY <1>9, <4>1 DEF Grown
      <4>4. /\ w \in DOMAIN measured' /\ measured'[w] = FALSE
            /\ \A v \in DOMAIN measured : v \in DOMAIN measured' /\ measured'[v] = measured[v]
        BY <2>1, <3>2, FitKeeps
      <4>5. ASSUME NEW s \in tried' PROVE TooLong(Grown(s))'
        <5>1. s = side \/ s \in tried
          BY <4>1
        <5>2. CASE s = side
          <6>1. Grown(s) = w
            BY <5>2 DEF w
          <6>2. Grown(s)' = w
            BY <4>3, <6>1
          <6> QED BY <4>4, <6>2 DEF TooLong
        <5>3. CASE s \in tried
          <6>1. TooLong(Grown(s))
            BY <1>2, <5>3
          <6>2. Grown(s)' = Grown(s)
            BY <4>3
          <6> QED BY <4>4, <6>1, <6>2 DEF TooLong
        <5> QED BY <5>1, <5>2, <5>3
      <4> QED BY <1>2, <1>6, <4>1, <4>2, <4>5
    <3> QED BY <3>1, <3>2
  <2>5. InBlocks'
    <3>1. \E x \in 1..SeedLeft', y \in SeedRight'..Len(ends)' - 1 : best' = Window(x, y)'
      BY <1>9, <2>3
    <3> QED BY <2>3, <2>4, <3>1 DEF InBlocks
  <2>6. InProbes'
    <3>1. stage = "bounded" => probes = <<>> /\ probes \in Seq(DOMAIN Expansions)
      BY <1>1 DEF ContextInv, InProbes
    <3> QED BY <1>1, <1>9, <2>1, <3>1 DEF InProbes
  <2>7. /\ stage = "grow" => used' <= 2 * Extra' + TriedOnes' /\ sent' <= used' * Length'
        /\ stage = "grow" => used' <= 2 * (SeedLeft - a + b - SeedRight)
    <3> SUFFICES ASSUME stage = "grow"
                 PROVE  /\ used' <= 2 * Extra' + TriedOnes' /\ sent' <= used' * Length'
                        /\ used' <= 2 * (SeedLeft - a + b - SeedRight)
      OBVIOUS
    <3>1. used <= 2 * Extra + TriedOnes /\ sent <= used * Length
      BY DEF ContextInv, InGrowth
    <3>2. Extra = SeedLeft - l + r - SeedRight
      BY <1>5 DEF Extra
    <3>3. TriedOnes \in 0..1
      BY <1>2, <1>5, <1>6 DEF TriedOnes
    <3>4. SeedLeft - a + b - SeedRight = Extra + 1 /\ Extra \in Int
      BY <1>4, <1>7, <1>8, <3>2
    <3>5. sent' <= used' * Length'
      <4>1. used' * Length = used * Length + Length /\ used * Length \in Nat
        BY <1>2, <1>4, <2>2
      <4>2. sent' <= used * Length + Length
        BY <1>2, <1>4, <1>8, <2>2, <3>1, <4>1
      <4> QED BY <1>9, <4>1, <4>2
    <3>6. used' <= 2 * Extra' + TriedOnes'
      <4>1. CASE fits = TRUE
        <5>1. best' = w /\ tried' = {}
          BY <2>1, <4>1
        <5>2. Extra' = SeedLeft - a + b - SeedRight
          BY <1>8, <1>9, <5>1 DEF Extra
        <5>3. TriedOnes' = 0
          BY <5>1 DEF TriedOnes
        <5> QED BY <1>2, <2>2, <3>1, <3>3, <3>4, <5>2, <5>3
      <4>2. CASE fits = FALSE
        <5>1. best' = best /\ tried' = tried \cup {side}
          BY <2>1, <4>2
        <5>2. Extra' = Extra
          BY <1>9, <5>1 DEF Extra
        <5>3. TriedOnes' = TriedOnes + 1
          BY <1>5, <1>6, <5>1 DEF TriedOnes
        <5> QED BY <1>2, <2>2, <3>1, <3>3, <3>4, <5>2, <5>3
      <4> QED BY <4>1, <4>2
    <3>7. used' <= 2 * (SeedLeft - a + b - SeedRight)
      BY <1>2, <2>2, <3>1, <3>3, <3>4
    <3> QED BY <3>5, <3>6, <3>7
  <2>8. InGrowth'
    <3>1. stage = "grow" => Exhaustible'
      BY <1>9 DEF ContextInv, InGrowth
    <3> QED BY <2>1, <2>7, <3>1 DEF InGrowth
  <2>9. WorkIsBounded'
    <3>1. CASE stage = "grow"
      <4> DEFINE n == Len(ends)
                 candidates == Len(Expansions) - 1
      <4>1. candidates = SeedLeft - 1 + (n - 1 - SeedRight) /\ candidates \in Nat
        <5> DEFINE e == Len(Expansions)
        <5>1. /\ Before \in Nat /\ After \in Nat /\ e = Before + After + 1 /\ candidates = e - 1
              /\ Before = SeedLeft - 1 /\ After = n - 1 - SeedRight
          BY <1>2, ExpansionsAre DEF Before, After
        <5> HIDE DEF e, candidates, n
        <5>2. candidates = Before + After
          BY <5>1
        <5>3. SeedLeft \in Nat /\ SeedRight \in Nat /\ n \in Nat
          BY <1>4 DEF n
        <5>4. candidates \in Nat
          <6>1. \A x, y \in Nat : x + y \in Nat
            OBVIOUS
          <6>2. Before \in Nat /\ After \in Nat
            BY <5>1
          <6> QED BY <5>2, <6>1, <6>2
        <5>5. candidates = SeedLeft - 1 + (n - 1 - SeedRight)
          BY <5>1, <5>2, <5>3
        <5> QED BY <5>4, <5>5
      <4>2. 2 * candidates <= CallLimit(Length) /\ 2 * candidates * Length <= CharLimit(Length)
        BY <3>1 DEF ContextInv, InGrowth, Exhaustible
      <4>3. n \in Nat /\ a >= 1 /\ b <= n - 1
        BY <1>4, <1>7
      <4> HIDE DEF n, candidates
      <4>4. used' <= 2 * candidates
        BY <1>4, <1>8, <2>2, <2>7, <3>1, <4>1, <4>3
      <4>5. CallLimit(Length) \in Nat /\ CharLimit(Length) \in Nat
        <5>1. Length \in Nat /\ Length <= Length
          BY <1>4
        <5> QED BY <5>1, BudgetsAre
      <4>6. sent' <= used' * Length
        BY <1>9, <2>7, <3>1
      <4>7. used' <= CallLimit(Length) /\ sent' <= CharLimit(Length)
        <5>1. used' \in Nat /\ sent' \in Nat /\ candidates \in Nat /\ Length \in Nat
          BY <1>4, <2>2, <4>1
        <5> QED BY <4>2, <4>4, <4>5, <4>6, <5>1, WithinBudget
      <4>8. Text' = Length
        BY <1>9, <2>1, <3>1 DEF Text
      <4>9. WorkIsBounded' = (used' <= CallLimit(Text') /\ sent' <= CharLimit(Text'))
        BY DEF WorkIsBounded, CallLimit, CharLimit
      <4> QED BY <4>7, <4>8, <4>9
    <3>2. CASE Affordable(w)
      BY <1>1, <1>2, <1>8, <2>1, <3>2, AffordableStays
    <3> QED BY <1>10, <3>1, <3>2
  <2>10. (Unbegun /\ InParts /\ NothingMoreFits)' /\ stage' # "done" /\ stage' \in {"grow", "bounded"}
    BY <1>1, <2>1 DEF Unbegun, InParts, NothingMoreFits
  <2> QED BY <1>9, <2>2, <2>3, <2>5, <2>6, <2>8, <2>9, <2>10 DEF ContextInv
<1>11. CASE ~ (stage = "grow" \/ Affordable(w))
  <2>1. /\ stage' = "done" /\ spent' = TRUE /\ best' = best /\ measured' = measured
        /\ used' = used /\ sent' = sent
    BY <1>1, <1>11 DEF Grow, side, w
  <2>2. WorkIsBounded'
    BY <1>1, <1>2, <2>1, BudgetStays
  <2>3. Fitting(best)' /\ Holds(best, match)'
    BY <1>2, <1>4, <1>9, <2>1 DEF Fitting, Holds
  <2>4. (Unbegun /\ InParts /\ InBlocks /\ InProbes /\ InGrowth /\ NothingMoreFits)'
    BY <2>1 DEF Unbegun, InParts, InBlocks, InProbes, InGrowth, NothingMoreFits
  <2> QED BY <1>2, <1>8, <1>9, <2>1, <2>2, <2>3, <2>4 DEF ContextInv, ContextGrows
<1> QED BY <1>10, <1>11

LEMMA StopGrowingStep == ASSUME ContextInv, StopGrowing PROVE ContextInv' /\ ContextGrows
<1>1. /\ stage \in {"grow", "bounded"} /\ Sides \ tried = {} /\ stage' = "done"
      /\ UNCHANGED section /\ best' = best /\ measured' = measured
      /\ used' = used /\ sent' = sent /\ spent' = spent
  BY DEF StopGrowing, spending
<1>2. /\ SectionOK /\ used \in Nat /\ sent \in Nat /\ WorkIsBounded
      /\ Fitting(best) /\ tried \subseteq Sides /\ \A s \in tried : TooLong(Grown(s))
  BY <1>1 DEF ContextInv, InBlocks
<1>3. PICK l \in 1..SeedLeft, r \in SeedRight..Len(ends) - 1 : best = Window(l, r)
  BY <1>1 DEF ContextInv, InBlocks
<1>4. /\ l \in Blocks /\ r \in Blocks /\ l <= r /\ l \in Nat /\ r \in Nat
      /\ Holds(best, match)
  BY <1>2, <1>3, AroundSeed
<1>5. /\ "left" \in Sides <=> l > 1
      /\ "right" \in Sides <=> r < Len(ends) - 1
      /\ Grown("left") = Window(l - 1, r) /\ Grown("right") = Window(l, r + 1)
      /\ LeftBlock(best) = l /\ RightBlock(best) = r
      /\ best[1] \in Int /\ best[2] \in Int
      /\ best[1] = ends[l] + 1 /\ best[2] = ends[r + 1] /\ ends[l] \in Nat /\ ends[r + 1] \in Nat
  BY <1>2, <1>3, <1>4, SidesAre, WindowIs
<1>6. \A s \in Sides : TooLong(Grown(s))
  BY <1>1, <1>2
<1>7. ASSUME NEW a \in Blocks, NEW b \in Blocks, a <= b, Holds(Window(a, b), best),
             l - a + b - r = 1
      PROVE  TooLong(Window(a, b))
  <2> DEFINE n == Len(ends)
  <2>1. /\ n \in Nat /\ Blocks = 1..n - 1 /\ a \in 1..n - 1 /\ b \in 1..n - 1
        /\ \A i \in 1..n : ends[i] \in Nat
    BY <1>2, SectionShape
  <2>2. \A i, j \in 1..n : i < j => ends[i] < ends[j]
    BY <1>2 DEF SectionOK
  <2>3. ends[a] <= ends[l] /\ ends[r + 1] <= ends[b + 1] /\ ends[a] \in Nat /\ ends[b + 1] \in Nat
    <3>1. /\ Window(a, b)[1] = ends[a] + 1 /\ Window(a, b)[2] = ends[b + 1]
          /\ ends[a] \in Nat /\ ends[b + 1] \in Nat
      BY <1>2, <1>7, WindowIs
    <3>2. ends[a] + 1 <= ends[l] + 1 /\ ends[r + 1] <= ends[b + 1]
      BY <1>5, <1>7, <3>1 DEF Holds
    <3> QED BY <1>5, <3>1, <3>2
  <2> HIDE DEF n
  <2>4. l \in 1..n - 1 /\ r \in 1..n - 1
    BY <1>4, <2>1
  <2>5. a <= l
    <3>1. a \in 1..n /\ l \in 1..n
      BY <2>1, <2>4
    <3>2. l < a => ends[l] < ends[a]
      BY <2>2, <3>1
    <3> QED BY <1>5, <2>3, <3>1, <3>2
  <2>6. r <= b
    <3>1. b + 1 \in 1..n /\ r + 1 \in 1..n /\ b \in Int /\ r \in Int
      BY <2>1, <2>4
    <3>2. b + 1 < r + 1 => ends[b + 1] < ends[r + 1]
      BY <2>2, <3>1
    <3>3. ends[r + 1] <= ends[b + 1] /\ ends[r + 1] \in Int /\ ends[b + 1] \in Int
      BY <1>5, <2>3
    <3>4. ~ (b + 1 < r + 1)
      <4> DEFINE x == ends[r + 1]
                 y == ends[b + 1]
      <4>1. x <= y /\ x \in Int /\ y \in Int /\ (b + 1 < r + 1 => y < x)
        BY <3>2, <3>3
      <4> HIDE DEF x, y
      <4> QED BY <4>1
    <3> QED BY <3>1, <3>4
  <2>7. (a = l - 1 /\ b = r) \/ (a = l /\ b = r + 1)
    BY <1>7, <2>1, <2>4, <2>5, <2>6
  <2>8. CASE a = l - 1 /\ b = r
    <3>1. l > 1
      BY <2>1, <2>4, <2>8
    <3> QED BY <1>5, <1>6, <2>8, <3>1
  <2>9. CASE a = l /\ b = r + 1
    <3>1. r < n - 1
      BY <2>1, <2>4, <2>9
    <3> QED BY <1>5, <1>6, <2>9, <3>1 DEF n
  <2> QED BY <2>7, <2>8, <2>9
<1>8. /\ SectionOK' /\ match' = match /\ Blocks' = Blocks
      /\ \A x, y : Window(x, y)' = Window(x, y)
      /\ \A v : LeftBlock(v)' = LeftBlock(v) /\ RightBlock(v)' = RightBlock(v)
  BY <1>1, <1>2, SectionStays
<1>9. NothingMoreFits'
  <2>1. LeftBlock(best)' = l /\ RightBlock(best)' = r
    BY <1>1, <1>5, <1>8
  <2>2. ASSUME NEW a \in Blocks', NEW b \in Blocks', a <= b, Holds(Window(a, b), best)',
               LeftBlock(best)' - a + b - RightBlock(best)' = 1
        PROVE  (Window(a, b) \in DOMAIN measured /\ ~ measured[Window(a, b)])'
    <3>1. Holds(Window(a, b), best)
      BY <1>1, <1>8, <2>2 DEF Holds
    <3>2. TooLong(Window(a, b))
      BY <1>7, <1>8, <2>1, <2>2, <3>1
    <3>3. Window(a, b) \in DOMAIN measured /\ measured[Window(a, b)] = FALSE
      BY <3>2 DEF TooLong
    <3>4. Window(a, b)' = Window(a, b)
      BY <1>8
    <3> QED BY <1>1, <3>3, <3>4
  <2> QED BY <2>2 DEF NothingMoreFits
<1>10. WorkIsBounded'
  BY <1>1, <1>2, BudgetStays
<1>11. Fitting(best)' /\ Holds(best, match)'
  BY <1>1, <1>2, <1>4, <1>8 DEF Fitting, Holds
<1>12. (Unbegun /\ InParts /\ InBlocks /\ InProbes /\ InGrowth)'
  BY <1>1 DEF Unbegun, InParts, InBlocks, InProbes, InGrowth
<1>13. ContextGrows
  BY <1>1, <1>5, HoldsItself DEF ContextGrows
<1> QED BY <1>1, <1>2, <1>8, <1>9, <1>10, <1>11, <1>12, <1>13 DEF ContextInv

LEMMA TakeMatchStep == ASSUME ContextInv, TakeMatch PROVE ContextInv' /\ ContextGrows
<1>1. PICK d \in ContextDrifts :
        /\ Fit(match, Size(match) + d <= Limit)
        /\ IF Size(match) + d <= Limit
           THEN stage' = "parts" /\ probes' = PartProbes(Limit - Size(match) - d)
           ELSE stage' = "failed" /\ UNCHANGED probes
  BY DEF TakeMatch
<1>2. /\ stage = "match" /\ UNCHANGED section /\ best' = best /\ tried' = tried
      /\ used' = used /\ sent' = sent
  BY DEF TakeMatch, spending
<1>3. /\ SectionOK /\ used \in Nat /\ sent \in Nat /\ WorkIsBounded
      /\ best = match /\ tried = {} /\ used = 0 /\ sent = 0 /\ TooLong(Seed)
  BY <1>2 DEF ContextInv, Unbegun, InParts
<1>4. SectionOK' /\ Seed' = Seed /\ match' = match /\ Parts' = Parts
  BY <1>2, <1>3, SectionStays
<1>5. WorkIsBounded' /\ ContextGrows
  BY <1>2, <1>3, BudgetStays, MatchHoldsItself DEF ContextGrows
<1>6. TooLong(Seed)'
  BY <1>1, <1>3, <1>4, FitKeeps DEF TooLong
<1>7. stage' \in {"parts", "failed"}
  BY <1>1
<1>8. stage' = "parts" =>
        /\ Fitting(best)' /\ probes' \in Seq(DOMAIN Parts') /\ \E k \in DOMAIN Parts' : best' = Parts'[k]
  <2> SUFFICES ASSUME stage' = "parts"
               PROVE  /\ Fitting(best)' /\ probes' \in Seq(DOMAIN Parts')
                      /\ \E k \in DOMAIN Parts' : best' = Parts'[k]
    OBVIOUS
  <2>1. Size(match) + d <= Limit /\ probes' = PartProbes(Limit - Size(match) - d)
    BY <1>1
  <2>2. Fit(match, TRUE)
    BY <1>1, <2>1
  <2>3. Fitting(best)'
    BY <1>2, <1>3, <2>2, FitKeeps DEF Fitting
  <2>4. Limit - Size(match) - d \in Int
    <3>1. match[1] \in Nat /\ match[2] \in Nat /\ Limit \in Nat /\ d \in Int
      BY <1>3, SectionShape, ContextLimits
    <3> QED BY <3>1 DEF Size
  <2>5. probes' \in Seq(DOMAIN Parts)
    <3> DEFINE e == Limit - Size(match) - d
    <3>1. e \in Int /\ probes' = PartProbes(e)
      BY <2>1, <2>4
    <3> HIDE DEF e
    <3> QED BY <1>3, <3>1, PartProbesAre
  <2>6. \E k \in DOMAIN Parts : best' = Parts[k]
    BY <1>2, <1>3, PartsGrow
  <2> QED BY <1>4, <2>3, <2>5, <2>6
<1>9. (Unbegun /\ InParts /\ InBlocks /\ InProbes /\ InGrowth /\ NothingMoreFits)'
  BY <1>2, <1>3, <1>4, <1>6, <1>7, <1>8
     DEF Unbegun, InParts, InBlocks, InProbes, InGrowth, NothingMoreFits
<1>10. used' \in Nat /\ sent' \in Nat
  BY <1>2, <1>3
<1> QED BY <1>4, <1>5, <1>7, <1>9, <1>10 DEF ContextInv

LEMMA ProbePartStep == ASSUME ContextInv, ProbePart PROVE ContextInv' /\ ContextGrows
<1> DEFINE i == Head(probes)
           w == Parts[i]
<1>1. /\ stage = "parts" /\ probes # <<>> /\ UNCHANGED section
      /\ stage' = stage /\ tried' = tried
  BY DEF ProbePart
<1>2. /\ SectionOK /\ used \in Nat /\ sent \in Nat /\ WorkIsBounded
      /\ Fitting(best) /\ TooLong(Seed) /\ probes \in Seq(DOMAIN Parts)
  BY <1>1 DEF ContextInv, InParts
<1>3. PICK j \in DOMAIN Parts : best = Parts[j]
  BY <1>1 DEF ContextInv, InParts
<1>4. /\ i \in DOMAIN Parts /\ Tail(probes) \in Seq(DOMAIN Parts)
      /\ <<>> \in Seq(DOMAIN Parts)
  BY <1>1, <1>2, HeadTailProperties, EmptySeq
<1>5. SectionOK' /\ Seed' = Seed /\ Parts' = Parts
  BY <1>1, <1>2, SectionStays
<1>6. Holds(best, best)
  <2>1. best[1] \in Int /\ best[2] \in Int
    BY <1>2, <1>3, PartsGrow
  <2> QED BY <2>1, HoldsItself
<1>7. (Unbegun /\ InBlocks /\ InProbes /\ InGrowth /\ NothingMoreFits)' /\ stage' # "done"
  BY <1>1 DEF Unbegun, InBlocks, InProbes, InGrowth, NothingMoreFits
<1>8. CASE Affordable(w)
  <2>1. PICK fits \in BOOLEAN :
          Fit(w, fits) /\ Spend(w) /\ best' = Better(w, fits) /\ probes' = Tail(probes)
    BY <1>1, <1>8 DEF ProbePart
  <2>2. /\ \E k \in DOMAIN Parts : best' = Parts[k]
        /\ Fitting(best)' /\ ContextGrows
    <3>1. CASE fits = TRUE /\ Size(w) > Size(best)
      <4>1. best' = w
        BY <2>1, <3>1 DEF Better
      <4>2. Holds(w, best)
        BY <1>2, <1>3, <1>4, <3>1, BetterPart
      <4>3. Fitting(best)'
        BY <2>1, <3>1, <4>1, FitKeeps DEF Fitting
      <4> QED BY <1>4, <4>1, <4>2, <4>3 DEF ContextGrows
    <3>2. CASE ~ (fits = TRUE /\ Size(w) > Size(best))
      <4>1. best' = best
        BY <2>1, <3>2 DEF Better
      <4>2. Fitting(best)'
        BY <1>2, <2>1, <4>1, FitKeeps DEF Fitting
      <4> QED BY <1>3, <1>6, <4>1, <4>2 DEF ContextGrows
    <3> QED BY <3>1, <3>2
  <2>3. WorkIsBounded' /\ used' \in Nat /\ sent' \in Nat
    BY <1>1, <1>2, <1>4, <1>8, <2>1, WindowSizes, AffordableStays
  <2>4. TooLong(Seed)'
    BY <1>2, <1>5, <2>1, FitKeeps DEF TooLong
  <2>5. InParts'
    BY <1>1, <1>4, <1>5, <2>1, <2>2, <2>4 DEF InParts
  <2> QED BY <1>1, <1>5, <1>7, <2>2, <2>3, <2>5 DEF ContextInv
<1>9. CASE ~ Affordable(w)
  <2>1. /\ probes' = <<>> /\ best' = best /\ measured' = measured
        /\ used' = used /\ sent' = sent
    BY <1>1, <1>9 DEF ProbePart
  <2>2. WorkIsBounded'
    BY <1>1, <1>2, <2>1, BudgetStays
  <2>3. Fitting(best)' /\ TooLong(Seed)'
    BY <1>2, <1>5, <2>1 DEF Fitting, TooLong
  <2>4. InParts'
    BY <1>1, <1>3, <1>4, <1>5, <2>1, <2>3 DEF InParts
  <2> QED BY <1>1, <1>2, <1>5, <1>6, <1>7, <2>1, <2>2, <2>4 DEF ContextInv, ContextGrows
<1> QED BY <1>8, <1>9

LEMMA TakePartStep == ASSUME ContextInv, TakePart PROVE ContextInv' /\ ContextGrows
<1>1. /\ stage = "parts" /\ stage' = "done"
      /\ UNCHANGED section /\ best' = best /\ measured' = measured
      /\ used' = used /\ sent' = sent
  BY DEF TakePart, spending
<1>2. /\ SectionOK /\ used \in Nat /\ sent \in Nat /\ WorkIsBounded
      /\ Fitting(best) /\ TooLong(Seed)
  BY <1>1 DEF ContextInv, InParts
<1>3. PICK j \in DOMAIN Parts : best = Parts[j]
  BY <1>1 DEF ContextInv, InParts
<1>4. Holds(best, match) /\ Holds(best, best)
  <2>1. Holds(best, match) /\ best[1] \in Int /\ best[2] \in Int
    BY <1>2, <1>3, PartsGrow
  <2> QED BY <2>1, HoldsItself
<1>5. SectionOK' /\ Seed' = Seed /\ match' = match
  BY <1>1, <1>2, SectionStays
<1>6. WorkIsBounded'
  BY <1>1, <1>2, BudgetStays
<1>7. Fitting(best)' /\ Holds(best, match)'
  BY <1>1, <1>2, <1>4, <1>5 DEF Fitting, Holds
<1>8. NothingMoreFits'
  <2>1. measured'[Seed'] = FALSE
    BY <1>1, <1>2, <1>5 DEF TooLong
  <2> QED BY <2>1 DEF NothingMoreFits
<1>9. (Unbegun /\ InParts /\ InBlocks /\ InProbes /\ InGrowth)'
  BY <1>1 DEF Unbegun, InParts, InBlocks, InProbes, InGrowth
<1> QED BY <1>1, <1>2, <1>4, <1>5, <1>6, <1>7, <1>8, <1>9 DEF ContextInv, ContextGrows

LEMMA ContextStep == ASSUME ContextInv, ContextNext PROVE ContextInv' /\ ContextGrows
BY TakeWholeStep, TakeSeedStep, SeedTooLongStep, ProbeStep, GrowStep, StopGrowingStep,
   TakeMatchStep, ProbePartStep, TakePartStep DEF ContextNext


LEMMA ContextStays == ASSUME ContextInv, UNCHANGED contextVars PROVE ContextInv'
<1>1. /\ UNCHANGED section /\ stage' = stage /\ best' = best /\ probes' = probes
      /\ tried' = tried /\ measured' = measured /\ used' = used /\ sent' = sent /\ spent' = spent
      /\ ends' = ends /\ groups' = groups /\ match' = match
  BY DEF contextVars, section, spending
<1>2. SectionOK
  BY DEF ContextInv
<1>3. /\ SectionOK' /\ Length' = Length /\ Seed' = Seed
      /\ SeedLeft' = SeedLeft /\ SeedRight' = SeedRight /\ Len(ends)' = Len(ends)
      /\ Blocks' = Blocks
      /\ \A l, r : Window(l, r)' = Window(l, r)
      /\ \A w : LeftBlock(w)' = LeftBlock(w) /\ RightBlock(w)' = RightBlock(w)
      /\ Expansions' = Expansions /\ Parts' = Parts /\ Exhaustible' = Exhaustible
  BY <1>1, <1>2, SectionStays
<1>4. Unbegun'
  BY <1>1 DEF ContextInv, Unbegun
<1>5. Fitting(best)' = Fitting(best) /\ TooLong(Seed)' = TooLong(Seed)
  BY <1>1, <1>3 DEF Fitting, TooLong
<1>6. InParts'
  BY <1>1, <1>3, <1>5 DEF ContextInv, InParts
<1>7. Sides' = Sides /\ \A s : Grown(s)' = Grown(s)
  BY <1>1, <1>3 DEF Sides, Grown
<1>8. \A s : TooLong(Grown(s))' = TooLong(Grown(s))
  BY <1>1, <1>7 DEF TooLong
<1>9. InBlocks'
  <2>1. stage \in {"grow", "bounded"} =>
          \E l \in 1..SeedLeft', r \in SeedRight'..Len(ends)' - 1 : best' = Window(l, r)'
    BY <1>1, <1>3 DEF ContextInv, InBlocks
  <2> QED BY <1>1, <1>5, <1>7, <1>8, <2>1 DEF ContextInv, InBlocks
<1>10. InProbes'
  BY <1>1, <1>3 DEF ContextInv, InProbes
<1>11. InGrowth'
  <2>1. Extra' = Extra /\ TriedOnes' = TriedOnes
    BY <1>1, <1>3 DEF Extra, TriedOnes
  <2> QED BY <1>1, <1>3, <2>1 DEF ContextInv, InGrowth
<1>12. WorkIsBounded'
  <2>1. Text' = Text
    BY <1>1, <1>3 DEF Text
  <2> QED BY <1>1, <2>1 DEF ContextInv, WorkIsBounded, CallLimit, CharLimit
<1>13. NothingMoreFits'
  <2>1. NothingMoreFits
    BY DEF ContextInv
  <2> QED BY <1>1, <1>3, <2>1 DEF NothingMoreFits, Holds, Whole
<1>14. (stage = "done" => Fitting(best) /\ Holds(best, match))'
  BY <1>1, <1>5 DEF ContextInv, Holds
<1> QED BY <1>1, <1>3, <1>4, <1>6, <1>9, <1>10, <1>11, <1>12, <1>13, <1>14 DEF ContextInv

LEMMA ContextInvariant == ContextSpec => []ContextInv
<1>1. ASSUME ContextInv, [ContextNext]_contextVars PROVE ContextInv'
  BY <1>1, ContextStep, ContextStays
<1> QED BY <1>1, ContextInitially, PTL DEF ContextSpec

(* A context holds its match and fits, no block could be added, and the    *)
(* search stays within its calls and characters: ParentContextBuilder.     *)
THEOREM ContextsHold == ContextSpec => []ContextsAreBest
<1>1. ContextInv => ContextsAreBest
  BY DEF ContextInv, ContextsAreBest, ContextFits, Fitting
<1> QED BY <1>1, ContextInvariant, PTL

(* A child starts in the one before it or at its end and goes beyond, a    *)
(* step of the splitting is nearer its end, and a context is only replaced *)
(* by one around it: the loops of chunker.py.                              *)
THEOREM LoopsProceed == WindowSpec /\ ContextSpec => LoopsAdvance
<1>1. ASSUME WindowInv, [WindowNext]_windowVars, ContextInv, [ContextNext]_contextVars
      PROVE  (UNCHANGED windowVars \/ (Follows /\ NearsEnd)) /\ ContextGrows
  <2>1. UNCHANGED windowVars \/ (Follows /\ NearsEnd)
    BY <1>1, WindowStep
  <2>2. ContextGrows
    <3>1. CASE ContextNext
      BY <1>1, <3>1, ContextStep
    <3>2. CASE UNCHANGED contextVars
      BY <3>2 DEF contextVars, ContextGrows
    <3> QED BY <1>1, <3>1, <3>2
  <2> QED BY <2>1, <2>2
<1> QED BY <1>1, WindowInvariant, ContextInvariant, PTL DEF WindowSpec, ContextSpec, LoopsAdvance
===========================================================================
