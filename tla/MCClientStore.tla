--------------------------- MODULE MCClientStore ---------------------------
(***************************************************************************)
(* Instances of ClientStore for TLC.                                       *)
(***************************************************************************)
EXTENDS ClientStore, TLC

\* Tabs, marks and slots are interchangeable; so are projects.
StoreSymmetry ==
    Permutations(Tabs) \cup Permutations(Marks) \cup Permutations(Slots)
        \cup Permutations(Projects)
=============================================================================
