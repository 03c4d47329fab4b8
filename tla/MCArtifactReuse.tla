-------------------------- MODULE MCArtifactReuse --------------------------
(* Two contents that share a text, and a model whose answers differ.       *)
EXTENDS ArtifactReuse, TLC

CONSTANTS b1, b2, x, z, h1, h2, v1, v2

ApartBuilds == {b1, b2}
ApartFiles == b1 :> <<x>> @@ b2 :> <<z>>
ApartChunks == x :> <<h1, h2>> @@ z :> <<h1, h1>>
AnyAnswer == h1 :> {v1, v2} @@ h2 :> {v1, v2}
===========================================================================
