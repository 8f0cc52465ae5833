--------------------------- MODULE DurableOutputs ---------------------------
(***************************************************************************)
(* What the artifact registry promises of one project, without requests,   *)
(* transactions or files: outputs are registered while the project lives,  *)
(* an output that is registered stays registered, an export bundle is      *)
(* never registered without its validation report, and deleting the        *)
(* project takes every output with it, once and for all.                   *)
(***************************************************************************)
CONSTANTS
    Outputs,        \* what may be registered
    Bundles,        \* those that are export bundles
    ReportOf(_)     \* the validation report a bundle names

VARIABLES
    alive,          \* the project exists
    registered      \* its outputs

vars == <<alive, registered>>

Init == alive = TRUE /\ registered = {}

Register ==
    /\ alive
    /\ registered \subseteq registered' /\ registered' \subseteq Outputs
    /\ \A b \in registered' \cap Bundles : ReportOf(b) \in registered'
    /\ UNCHANGED alive

Delete ==
    /\ alive
    /\ alive' = FALSE
    /\ registered' = {}

Next == Register \/ Delete

Spec == Init /\ [][Next]_vars
=============================================================================
