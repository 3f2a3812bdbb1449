------------------------------ MODULE ArtifactBoard ------------------------------
(***************************************************************************)
(* What `publishArtifact` (src/pr/publish.ts) promises its callers,        *)
(* stated without git: a board with at most one artifact per pull request, *)
(* on which every publish is one atomic upsert of its own entry.  A caller *)
(* is told "ok" only for an upsert that happened; being told "error", or   *)
(* being killed, says nothing about whether it happened.                   *)
(***************************************************************************)
EXTENDS FiniteSets

CONSTANTS
    PRs,        \* pull requests of the base repository
    Requests,   \* runs of publishArtifact, by any process on any machine
    PrOf,       \* the pull request each run publishes for
    NoArtifact  \* a pull request without an artifact on the branch

VARIABLES
    board,    \* the artifact the branch serves for each pull request
    landed,   \* the runs whose artifact has reached the branch
    outcome   \* what each run's caller has been told

boardVars == <<board, landed, outcome>>

BoardInit ==
    /\ board = [p \in PRs |-> NoArtifact]
    /\ landed = {}
    /\ outcome = [r \in Requests |-> "pending"]

(* One atomic upsert: the run's own entry changes, every other is kept. *)
Upsert(r) ==
    /\ outcome[r] = "pending"
    /\ r \notin landed
    /\ board' = [board EXCEPT ![PrOf[r]] = r]
    /\ landed' = landed \cup {r}
    /\ UNCHANGED outcome

(* The caller learns of success only after the upsert. *)
ReportOk(r) ==
    /\ outcome[r] = "pending"
    /\ r \in landed
    /\ outcome' = [outcome EXCEPT ![r] = "ok"]
    /\ UNCHANGED <<board, landed>>

(* A failed or killed run may or may not have landed before it stopped. *)
GiveUp(r) ==
    /\ outcome[r] = "pending"
    /\ \E o \in {"error", "crashed"} : outcome' = [outcome EXCEPT ![r] = o]
    /\ UNCHANGED <<board, landed>>

BoardNext == \E r \in Requests : Upsert(r) \/ ReportOk(r) \/ GiveUp(r)

BoardSpec == BoardInit /\ [][BoardNext]_boardVars
================================================================================
