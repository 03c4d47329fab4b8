---------------------------- MODULE MCEmbeddings ----------------------------
(***************************************************************************)
(* The calculation of embeddings and their reuse, for model checking: the  *)
(* runtime of the model, and builds that share what it has calculated.  A  *)
(* behaviour is one of the runtime or of builds; the other stays idle.     *)
(***************************************************************************)
EXTENDS EmbeddingRuntime, ArtifactReuse, TLC

CONSTANTS b1, b2, b3, x, y, z, e, h1, h2, v1, v2

VARIABLE part

allVars == <<part, vars, reuseVars>>

---------------------------------------------------------------------------
(* Texts repeat within a content and between contents, one content has     *)
(* none.  Builds with faults, and a circle of three builds that end.       *)

FewChunks == x :> <<h1, h2>> @@ y :> <<h2>> @@ z :> <<h1, h1>> @@ e :> <<>>
OneAnswer == h1 :> {v1} @@ h2 :> {v2}
TwoFiles == b1 :> <<x, z>> @@ b2 :> <<z, x>> @@ b3 :> <<e, e>>
Circle == b1 :> <<x, y>> @@ b2 :> <<y, z>> @@ b3 :> <<z, x>>

Finish == INSTANCE ArtifactReuse WITH Files <- Circle, MaxFaults <- 0

ASSUME PartsAssumption == ReuseAssumption /\ SingleAnswers /\ Finish!ReuseAssumption

---------------------------------------------------------------------------
Nothing == contents = {} /\ parses = {}

MCInit ==
    /\ Init
    /\ \/ part = "runtime" /\ ReuseInit /\ Nothing
       \/ part = "share" /\ ReuseInit /\ contents \subseteq {x, z, e}
       \/ part = "finish" /\ Finish!ReuseInit /\ Nothing

MCNext ==
    \/ part = "runtime" /\ Next /\ UNCHANGED <<part, reuseVars>>
    \/ part = "share" /\ ReuseNext /\ UNCHANGED <<part, vars>>
    \/ part = "finish" /\ Finish!ReuseNext /\ UNCHANGED <<part, vars>>

(* What the two modules assume of their schedulers. *)
MCSpec ==
    /\ MCInit /\ [][MCNext]_allVars
    /\ \A t \in Threads :
         WF_allVars(part = "runtime" /\ Progress(t) /\ UNCHANGED <<part, reuseVars>>)
    /\ \A b \in Builds :
         WF_allVars(part = "finish" /\ Finish!Build(b) /\ UNCHANGED <<part, vars>>)

---------------------------------------------------------------------------
(* Every call of the runtime and every build end, those that wait for each *)
(* other included, and a failed load lets other calls try again.           *)
WorkEnds ==
    /\ CallsEnd
    /\ FailureIsTransient
    /\ part = "finish" => BuildsEnd
===========================================================================
