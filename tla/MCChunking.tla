----------------------------- MODULE MCChunking -----------------------------
(***************************************************************************)
(* The parts of chunking side by side, for model checking: the windows of  *)
(* a long text, the children of a section, the context of a match.  A      *)
(* behaviour is one of one part; the others stay in one initial state.     *)
(***************************************************************************)
EXTENDS Chunking

VARIABLES
    part,
    blocks, heading, at, texts, separators, children    \* of ChildBlocks

blockVars == <<blocks, heading, at, texts, separators, children>>
allVars == <<part, windowVars, blockVars, contextVars>>

---------------------------------------------------------------------------
(* Texts of up to seven tokens, counted anew with any of three drifts, and *)
(* of up to ten when the counts differ by one at most.                     *)

AnyMode == {"normal", "atomic"}
AnyHeading == {0, 2, 3}
AnyDrift == {0, 1, 3}

Steady == INSTANCE ChildWindows WITH MaxGroup <- 1, Drifts <- -1..1

---------------------------------------------------------------------------
(* Sections of up to five blocks.                                          *)

Lines(n) == [kind |-> "text", lines |-> [k \in 1..n |-> "text"], starts |-> {}]
Blank == [kind |-> "blank", lines |-> <<"blank">>, starts |-> {}]
Quote == [kind |-> "atomic", lines |-> <<"text", "text">>, starts |-> {}]
Items == [kind |-> "atomic", lines |-> [k \in 1..8 |-> "text"], starts |-> {1, 3}]

\* A list whose third item is too long for one child, with blank lines around.
List == [kind |-> "atomic",
         lines |-> <<"text", "text", "blank", "text", "text", "text", "text", "text",
                     "text", "text", "text", "blank">>,
         starts |-> {1, 2, 4, 11}]

Sectioned == INSTANCE ChildContexts WITH
    Shapes <- {Lines(1), Lines(3), Lines(9), Blank, Quote, List}, MaxBlocks <- 5,
    HeadingTokens <- {0, 2, 3}, Target <- 4, SoftMax <- 5, Overlap <- 1, AtomicMax <- 6,
    ParentMax <- 12, prefix <- heading
Short == INSTANCE ChildContexts WITH
    Shapes <- {Lines(n) : n \in 1..4} \cup {Blank, Items}, MaxBlocks <- 5,
    HeadingTokens <- {0, 1}, Target <- 3, SoftMax <- 4, Overlap <- 1, AtomicMax <- 5,
    ParentMax <- 8, prefix <- heading

---------------------------------------------------------------------------
(* Sections of up to six blocks and matches anywhere in them: with windows *)
(* whose counts drift, and with counts that add up.                        *)

AnySize == {1, 2, 6}
AnyGroup == {1, 2}
AnyContextDrift == -1..1

Added == INSTANCE ParentContext WITH
    MaxLength <- 13, GroupSizes <- {1}, ContextDrifts <- {0}

---------------------------------------------------------------------------
ASSUME PartsAssumption ==
    /\ Steady!WindowAssumption /\ Added!ContextAssumption
    /\ Sectioned!ConfigAssumption /\ Sectioned!ParentAssumption
    /\ Short!ConfigAssumption /\ Short!ParentAssumption

WindowIdle == mode = "normal" /\ tokens = 1 /\ prefix = 0 /\ WindowInit
ContextIdle ==
    ends = <<0, 1>> /\ groups = {1} /\ match = <<1, 1>> /\ found = FALSE /\ ContextInit
BlockIdle ==
    /\ blocks = <<>> /\ heading = 0 /\ at = 1
    /\ texts = <<>> /\ separators = <<>> /\ children = <<>>

AllInit ==
    \/ part = "windows" /\ BlockIdle /\ ContextIdle /\ tokens \in 1..7 /\ WindowInit
    \/ part = "steady" /\ BlockIdle /\ ContextIdle /\ Steady!WindowInit
    \/ part = "blocks" /\ WindowIdle /\ ContextIdle /\ Sectioned!Init
    \/ part = "short" /\ WindowIdle /\ ContextIdle /\ Short!Init
    \/ part = "context" /\ WindowIdle /\ BlockIdle /\ ContextInit
    \/ part = "added" /\ WindowIdle /\ BlockIdle /\ Added!ContextInit

AllNext ==
    \/ part = "windows" /\ WindowNext /\ UNCHANGED <<part, blockVars, contextVars>>
    \/ part = "steady" /\ Steady!WindowNext /\ UNCHANGED <<part, blockVars, contextVars>>
    \/ part = "blocks" /\ Sectioned!Next /\ UNCHANGED <<part, windowVars, contextVars>>
    \/ part = "short" /\ Short!Next /\ UNCHANGED <<part, windowVars, contextVars>>
    \/ part = "context" /\ ContextNext /\ UNCHANGED <<part, windowVars, blockVars>>
    \/ part = "added" /\ Added!ContextNext /\ UNCHANGED <<part, windowVars, blockVars>>

AllSpec == AllInit /\ [][AllNext]_allVars

---------------------------------------------------------------------------
(* The children of a section fit, are slices of the source in its order,   *)
(* each with something new, and lose no written line; those of short texts *)
(* all have a context.  And what the limits of the configuration are for:  *)
(* a text that cannot be cut has a drift, a group or a heading to blame,   *)
(* and a drift of one is never enough; where counts add up, the search for *)
(* a context finds what it would without bounds, and a part of a block     *)
(* fills the limit (chunker.py: the chunks of a section).                  *)
ChunksAreWhole ==
    /\ part = "blocks" =>
          /\ Sectioned!ChildrenFit
          /\ Sectioned!ChildrenAreSlices
          /\ Sectioned!ChildrenFollow
          /\ Sectioned!NothingIsLost
    /\ part = "short" => Short!ShortTextsHaveContexts
    /\ part = "windows" => FailureHasCause
    /\ part = "steady" => SmallDriftIsHarmless
    /\ part = "added" => BoundedIsGreedy /\ PartsFillLimit
===========================================================================
