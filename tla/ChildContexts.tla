--------------------------- MODULE ChildContexts ---------------------------
(***************************************************************************)
(* Whether the children that ChildBlocks makes can be given the context    *)
(* that chunker.py's ParentContextBuilder looks for: ParentContext has the *)
(* search, this module where it can start from for a real child.           *)
(***************************************************************************)
EXTENDS ChildBlocks, FiniteSets, FiniteSetsExt

CONSTANT ParentMax      \* parent_context_max_tokens

ParentAssumption == ParentMax \in Nat \ {0}

(* _select_blocks: the blocks a child has lines of. *)
SeedOf(child) == {i \in DOMAIN blocks : ToSet(child) \cap ToSet(Positions(i)) # {}}

SeedTokens(child) == FoldSet(LAMBDA i, n : n + Len(blocks[i].lines), 0, SeedOf(child))

(* build and _select_blocks, for a child that is found by its ordinal: the *)
(* section fits, its blocks fit, or they are one block and it fits itself. *)
HasContext(child) ==
    \/ Len(Whole) <= ParentMax
    \/ SeedTokens(child) <= ParentMax
    \/ Cardinality(SeedOf(child)) = 1 /\ Len(child) <= ParentMax

Split == at = Len(blocks) + 1 /\ texts = <<>>

(* Every child of a section whose texts each fit a child has a context, if *)
(* two of them fit the context: a child lies in no more than the text it   *)
(* repeats the end of and those it holds.                                  *)
ShortTextsHaveContexts ==
    /\ Split
    /\ 2 * SoftMax <= ParentMax
    /\ \A i \in DOMAIN blocks : blocks[i].kind = "text" => Len(blocks[i].lines) <= SoftMax
    => \A c \in ToSet(children) : HasContext(c)
===========================================================================
