------------------------- MODULE MCKeycapGeneration -------------------------
(***************************************************************************)
(* Instances of KeycapGeneration for TLC.                                  *)
(***************************************************************************)
EXTENDS KeycapGeneration, TLC

\* Requests are interchangeable.
RequestSymmetry == Permutations(Requests)

\* So are tasks, while none of them is special in the initial state.
GenerationSymmetry == RequestSymmetry \cup Permutations(Tasks)
=============================================================================
