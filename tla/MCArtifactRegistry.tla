------------------------- MODULE MCArtifactRegistry -------------------------
(* Instances of ArtifactRegistry for TLC.  Requests are interchangeable.   *)
EXTENDS ArtifactRegistry, TLC

Symmetric == Permutations(Workers)
=============================================================================
