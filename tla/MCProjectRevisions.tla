------------------------- MODULE MCProjectRevisions -------------------------
(***************************************************************************)
(* Instances of ProjectRevisions for TLC.                                  *)
(***************************************************************************)
EXTENDS ProjectRevisions, TLC

\* Requests are interchangeable: only equality of names is used.
RequestSymmetry == Permutations(Requests)
=============================================================================
