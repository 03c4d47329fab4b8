------------------------------ MODULE Chunking -----------------------------
(***************************************************************************)
(* How a section is read: its long texts are cut into windows, and a match *)
(* in one of its children is given a context.  The parts share no state.   *)
(***************************************************************************)
EXTENDS ChildWindows, ParentContext

ASSUME ChunkingAssumption == WindowAssumption /\ ContextAssumption

(* Every child cut from a long text is measured to fit, and together they  *)
(* are all of the text (chunker.py: the splitting of texts and of atomic   *)
(* blocks into windows).                                                   *)
WindowsAreRight == WindowTypeOK /\ ChildrenFit /\ TextIsCovered

(* A context holds the match and fits as it is measured, the search for it *)
(* stays within its calls and characters, and no block could be added      *)
(* (chunker.py: the parent context).                                       *)
ContextsAreBest == ContextFits /\ NothingMoreFits /\ WorkIsBounded

(* Children leave nothing out and repeat at most the overlap, each step of *)
(* a loop brings it nearer to its end, and a context that has been found   *)
(* is only replaced by one around it.                                      *)
LoopsAdvance ==
    [][(UNCHANGED windowVars \/ (Follows /\ NearsEnd)) /\ ContextGrows]_<<windowVars, best>>
===========================================================================
