---------------------------- MODULE ChildBlocks ----------------------------
(***************************************************************************)
(* How chunker.py makes the children of a section from its blocks: texts   *)
(* are joined while they fit, tables, lists and quotes stay apart and are  *)
(* cut between their rows or items, blank lines at the edge of a child are *)
(* dropped.                                                                *)
(*                                                                         *)
(* A block is its lines, each of one token; an excerpt is the positions of *)
(* its tokens in the section.  A text measures the tokens of the heading   *)
(* path and its own; ChildWindows has the texts that measure otherwise.    *)
(***************************************************************************)
EXTENDS ChunkNumbers, SequencesExt

CONSTANTS
    Shapes,         \* the blocks a section is made of
    MaxBlocks,      \* bound on the blocks of a section
    HeadingTokens,  \* numbers of tokens a heading path has
    Target,         \* target_tokens
    SoftMax,        \* soft_max_tokens
    Overlap,        \* overlap_tokens
    AtomicMax       \* atomic_max_tokens

ConfigAssumption ==
    /\ HeadingTokens \subseteq Nat /\ \A n \in HeadingTokens : n < SoftMax
    /\ Overlap \in Nat /\ Target \in Nat /\ SoftMax \in Nat /\ AtomicMax \in Nat
    /\ Overlap < Target /\ Target <= SoftMax /\ SoftMax <= AtomicMax

VARIABLES
    blocks,     \* the blocks of the section
    prefix,     \* tokens of the heading path
    at,         \* the block looked at
    texts,      \* normal_blocks
    separators, \* separator_blocks
    children    \* the children made so far

input == <<blocks, prefix>>
vars == <<input, at, texts, separators, children>>

---------------------------------------------------------------------------
(* Excerpts                                                                *)

Positions(i) ==
    LET before == FoldLeft(LAMBDA n, b : n + Len(b.lines), 0, SubSeq(blocks, 1, i - 1))
    IN [k \in 1..Len(blocks[i].lines) |-> before + k]

Whole == FlattenSeq([i \in 1..Len(blocks) |-> Positions(i)])

Lines == FlattenSeq([i \in 1..Len(blocks) |-> blocks[i].lines])

Fits(excerpt, limit) == prefix + Len(excerpt) <= limit

IsBlank(excerpt) == \A k \in DOMAIN excerpt : Lines[excerpt[k]] = "blank"

(* _trim_excerpt_whitespace_lines *)
Trim(excerpt, leading, trailing) ==
    LET written == {k \in DOMAIN excerpt : Lines[excerpt[k]] # "blank"}
    IN SelectSeq(excerpt, LAMBDA p :
           /\ leading => \E k \in written : excerpt[k] <= p
           /\ trailing => \E k \in written : excerpt[k] >= p)

Suffix(s, n) == SubSeq(s, Len(s) - n + 1, Len(s))

---------------------------------------------------------------------------
(* Texts                                                                   *)

UseTarget == Target - prefix >= IF Overlap > 0 THEN 2 * Overlap ELSE 1
WindowLimit == IF UseTarget THEN Target ELSE SoftMax

(* _split_oversized_normal, no window drifting: full windows that overlap, *)
(* and a last one.                                                         *)
Windows(excerpt) ==
    LET size == WindowLimit - prefix
        advance == size - Least(Overlap, size \div 2)
        last == IF Fits(excerpt, SoftMax) THEN 0
                ELSE CHOOSE n \in 1..Len(excerpt) :
                       /\ Fits(SubSeq(excerpt, n * advance + 1, Len(excerpt)), SoftMax)
                       /\ ~ Fits(SubSeq(excerpt, (n - 1) * advance + 1, Len(excerpt)), SoftMax)
    IN [n \in 1..last |-> SubSeq(excerpt, (n - 1) * advance + 1, (n - 1) * advance + size)]
       \o <<SubSeq(excerpt, last * advance + 1, Len(excerpt))>>

(* _overlap_suffix *)
OverlapSuffix(excerpt) == Suffix(excerpt, Least(Overlap, Len(excerpt) \div 2))

(* The children so far, the last of them still open, and one text more. *)
AddText(done, text) ==
    IF done = <<>> THEN Windows(text)
    ELSE IF Fits(Last(done) \o text, WindowLimit) THEN Front(done) \o <<Last(done) \o text>>
    ELSE done \o Windows(OverlapSuffix(Last(done)) \o text)

(* _split_normal_blocks *)
SplitTexts(excerpts) == FoldLeft(AddText, <<>>, excerpts)

---------------------------------------------------------------------------
(* Tables, lists and quotes                                                *)

(* _atomic_units: a unit begins with a row, an item or a child; what comes *)
(* before the first belongs to it.  Only the edges of the block lose their *)
(* blank lines.                                                            *)
Units(i) ==
    LET starts == SetToSortSeq(blocks[i].starts, <)
        n == Len(starts)
        unit(k) == SubSeq(Positions(i), IF k = 1 THEN 1 ELSE starts[k],
                          IF k = n THEN Len(blocks[i].lines) ELSE starts[k + 1] - 1)
    IN IF n = 0 THEN <<Trim(Positions(i), TRUE, TRUE)>>
       ELSE SelectSeq([k \in 1..n |-> Trim(unit(k), k = 1, k = n)], LAMBDA u : u # <<>>)

(* _split_oversized_atomic_unit, no window drifting. *)
Pieces(unit) ==
    LET size == AtomicMax - prefix
    IN [n \in 1..((Len(unit) + size - 1) \div size) |->
            SubSeq(unit, (n - 1) * size + 1, Least(n * size, Len(unit)))]

(* The children so far, whether the last is open to another unit, and the  *)
(* unit.                                                                   *)
AddUnit(made, unit) ==
    IF ~ Fits(unit, AtomicMax)
    THEN [done |-> made.done \o Pieces(unit), open |-> FALSE]
    ELSE IF made.open /\ Fits(Last(made.done) \o unit, AtomicMax)
    THEN [done |-> Front(made.done) \o <<Last(made.done) \o unit>>, open |-> TRUE]
    ELSE [done |-> Append(made.done, unit), open |-> TRUE]

(* _split_atomic_block *)
SplitAtomic(i) ==
    LET whole == Trim(Positions(i), TRUE, TRUE)
    IN IF whole = <<>> THEN <<>>
       ELSE IF Fits(whole, AtomicMax) THEN <<whole>>
       ELSE FoldLeft(AddUnit, [done |-> <<>>, open |-> FALSE], Units(i)).done

---------------------------------------------------------------------------
Init ==
    /\ blocks \in BoundedSeq(Shapes, MaxBlocks)
    /\ prefix \in HeadingTokens
    /\ at = 0
    /\ texts = <<>> /\ separators = <<>> /\ children = <<>>

(* _split_drafts_with_excerpts: no child, one child, or the blocks. *)
Begin ==
    /\ at = 0
    /\ IF IsBlank(Whole)
       THEN at' = Len(blocks) + 1 /\ UNCHANGED children
       ELSE IF Fits(Whole, SoftMax)
       THEN at' = Len(blocks) + 1 /\ children' = <<Whole>>
       ELSE at' = 1 /\ UNCHANGED children
    /\ UNCHANGED <<input, texts, separators>>

At(kind) == at \in DOMAIN blocks /\ blocks[at].kind = kind /\ at' = at + 1

SkipBlank ==
    /\ At("blank")
    /\ separators' = IF texts = <<>> THEN <<>> ELSE Append(separators, Positions(at))
    /\ UNCHANGED <<input, texts, children>>

AddToTexts ==
    /\ At("text")
    /\ separators = <<>>
    /\ texts' = Append(texts, Positions(at))
    /\ UNCHANGED <<input, separators, children>>

Joined == FlattenSeq(texts \o separators \o <<Positions(at)>>)

(* Mutant: the blank lines between two texts are lost. *)
JoinTextsOnly ==
    /\ At("text")
    /\ separators # <<>>
    /\ Fits(Joined, WindowLimit)
    /\ texts' = Append(texts, Positions(at))
    /\ separators' = <<>>
    /\ UNCHANGED <<input, children>>

(* Texts with blank lines between them become one child if they fit, *)
JoinTexts ==
    /\ At("text")
    /\ separators # <<>>
    /\ Fits(Joined, WindowLimit)
    /\ texts' = texts \o Append(separators, Positions(at))
    /\ separators' = <<>>
    /\ UNCHANGED <<input, children>>

(* and are parted there if they do not. *)
PartTexts ==
    /\ At("text")
    /\ separators # <<>>
    /\ ~ Fits(Joined, WindowLimit)
    /\ children' = children \o SplitTexts(texts)
    /\ texts' = <<Positions(at)>>
    /\ separators' = <<>>
    /\ UNCHANGED input

AddAtomic ==
    /\ At("atomic")
    /\ children' = children \o SplitTexts(texts) \o SplitAtomic(at)
    /\ texts' = <<>>
    /\ separators' = <<>>
    /\ UNCHANGED input

End ==
    /\ at = Len(blocks) + 1
    /\ texts # <<>>
    /\ children' = children \o SplitTexts(texts)
    /\ texts' = <<>>
    /\ UNCHANGED <<input, at, separators>>

Next ==
    \/ Begin \/ SkipBlank \/ AddToTexts \/ JoinTexts \/ PartTexts \/ AddAtomic \/ End

Spec == Init /\ [][Next]_vars

---------------------------------------------------------------------------
Atomic(position) ==
    \E i \in DOMAIN blocks : blocks[i].kind = "atomic" /\ Contains(Positions(i), position)

(* Every child fits the limit of its kind. *)
ChildrenFit ==
    \A c \in ToSet(children) :
        Fits(c, IF Atomic(c[1]) THEN AtomicMax ELSE SoftMax)

(* A child is a piece of the source without gaps: what a search matched is *)
(* found again in the document by its first and last character.            *)
ChildrenAreSlices ==
    \A c \in ToSet(children) : c # <<>> /\ \A k \in DOMAIN c : c[k] = c[1] + k - 1

(* Children follow the source and each brings something new; they share at *)
(* most the overlap, and only texts share any.                             *)
ChildrenFollow ==
    \A n \in 1..Len(children) - 1 :
        LET this == children[n]
            next == children[n + 1]
            shared == Last(this) - next[1] + 1
        IN /\ Last(next) > Last(this)
           /\ next[1] > this[1]
           /\ shared <= Overlap
           /\ shared > 0 => ~ Atomic(next[1])

(* No line that says something is lost, and a table, list or quote shares  *)
(* a child with nothing else.                                              *)
NothingIsLost ==
    LET made == UNION {ToSet(c) : c \in ToSet(children)}
        open == UNION {ToSet(t) : t \in ToSet(texts)}
    IN /\ at > 0 => \A i \in 1..at - 1 : \A k \in DOMAIN blocks[i].lines :
             blocks[i].lines[k] = "text" => Positions(i)[k] \in made \cup open
       /\ Len(children) > 1 => \A c \in ToSet(children) :
             Atomic(c[1]) => \A k \in DOMAIN c : Atomic(c[k])
===========================================================================
