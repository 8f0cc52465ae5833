-------------------------- MODULE RevisionHistory --------------------------
(***************************************************************************)
(* What `project_revisions` promises ("immutable snapshots for every       *)
(* committed spec mutation", docs/BACKEND_ARCHITECTURE.md): a log that     *)
(* starts with the created project, in which every further revision is its *)
(* predecessor with exactly one more edit applied, where no entry ever     *)
(* changes, until the project is deleted with all of it.                   *)
(***************************************************************************)
EXTENDS Naturals, Sequences

CONSTANT Edits      \* the edits a revision can add

VARIABLES
    open,           \* BOOLEAN: the project exists
    log             \* a function from revision to the edits it contains

historyVars == <<open, log>>

Init ==
    /\ open = TRUE
    /\ log = [n \in {1} |-> <<>>]

\* One more revision, built on the latest one.
Extend(n, e) ==
    /\ open
    /\ n \in DOMAIN log
    /\ n + 1 \notin DOMAIN log
    /\ log' = [m \in DOMAIN log \cup {n + 1} |->
                  IF m = n + 1 THEN Append(log[n], e) ELSE log[m]]
    /\ UNCHANGED open

Remove ==
    /\ open
    /\ open' = FALSE
    /\ log' = [n \in {} |-> <<>>]

Next ==
    \/ \E n \in DOMAIN log, e \in Edits : Extend(n, e)
    \/ Remove

Spec == Init /\ [][Next]_historyVars
=============================================================================
