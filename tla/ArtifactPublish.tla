----------------------------- MODULE ArtifactPublish -----------------------------
(***************************************************************************)
(* Concurrent runs of `publishArtifact` (src/pr/publish.ts) against one    *)
(* base repository's `aireceipts/artifacts` branch.                        *)
(*                                                                         *)
(* A run reads the remote tip (`remoteTip`), fetches the tip's tree and    *)
(* commits it with its own file upserted (`baseEntries`, `buildCommit`),   *)
(* and pushes `<sha>:refs/heads/aireceipts/artifacts` without force.  The  *)
(* push is the only write to shared state; everything else lives in the    *)
(* run's own object database.  A push whose stderr looks like a lost race  *)
(* is retried once, from a freshly read tip.                               *)
(*                                                                         *)
(* Commits are named by their position on the branch, because the branch   *)
(* only ever grows by fast-forward; position 0 is "no such branch".        *)
(***************************************************************************)
EXTENDS Integers, Sequences, FiniteSets

CONSTANTS
    PRs,        \* pull requests of the base repository
    Requests,   \* runs of publishArtifact, by any process on any machine
    PrOf,       \* the pull request each run publishes for
    NoArtifact, \* a pull request without an artifact on the branch
    FaultSets   \* the sets of faults that may be met together

ASSUME PublishAssumption ==
    /\ PrOf \in [Requests -> PRs]
    /\ NoArtifact \notin Requests
    /\ FaultSets \subseteq SUBSET {"network", "declined", "crash"}

VARIABLES
    objectFormat, \* object names of the remote: 40 or 64 hex digits
    faults,       \* what may go wrong in this behaviour
    history,      \* the remote branch, oldest commit first
    pc,           \* where each run stands in publishArtifact
    attempt,      \* the loop counter of publishArtifact
    tip,          \* the remote tip each run has read, 0 for `null`
    commit,       \* the tree of the commit each run has built
    outcome       \* the PublishOutcome returned to the caller

fixed == <<objectFormat, faults>>
vars == <<fixed, history, pc, attempt, tip, commit, outcome>>

Trees == [PRs -> Requests \cup {NoArtifact}]
EmptyTree == [p \in PRs |-> NoArtifact]
Commits == [by : Requests, tree : Trees]

(* The tree of a commit of the branch; the absent branch has no entries. *)
TreeAt(n) == IF n = 0 THEN EmptyTree ELSE history[n].tree
TipNow == Len(history)

Init ==
    /\ objectFormat \in {"sha1", "sha256"}
    /\ faults \in FaultSets
    /\ history = <<>>
    /\ pc = [r \in Requests |-> "idle"]
    /\ attempt = [r \in Requests |-> 0]
    /\ tip = [r \in Requests |-> 0]
    /\ commit = [r \in Requests |-> EmptyTree]
    /\ outcome = [r \in Requests |-> "pending"]

-----------------------------------------------------------------------------
(* Ending a run with `{ ok: false, error }`. *)
Fail(r) ==
    /\ pc' = [pc EXCEPT ![r] = "done"]
    /\ outcome' = [outcome EXCEPT ![r] = "error"]

(* publishAndLink has resolved the PR and calls publishArtifact. *)
Start(r) ==
    /\ pc[r] = "idle"
    /\ pc' = [pc EXCEPT ![r] = "tip"]
    /\ UNCHANGED <<fixed, history, attempt, tip, commit, outcome>>

(* `git ls-remote`: only a 40-digit object name is taken for a tip. *)
RemoteTip == IF objectFormat = "sha1" THEN TipNow ELSE 0

ReadTip(r) ==
    /\ pc[r] = "tip"
    /\ tip' = [tip EXCEPT ![r] = RemoteTip]
    /\ pc' = [pc EXCEPT ![r] = "build"]
    /\ UNCHANGED <<fixed, history, attempt, commit, outcome>>

(* ls-remote, the fetch, or a plumbing command of buildCommit failed. *)
GitFails(r) ==
    /\ "network" \in faults
    /\ pc[r] \in {"tip", "build"}
    /\ Fail(r)
    /\ UNCHANGED <<fixed, history, attempt, tip, commit>>

(* The tip's entries without our own path; none when there is no branch. *)
BaseEntries(r) == [TreeAt(tip[r]) EXCEPT ![PrOf[r]] = NoArtifact]

(* fetch, ls-tree, mktree and commit-tree -p tip, all on private objects. *)
BuildCommit(r) ==
    /\ pc[r] = "build"
    /\ commit' = [commit EXCEPT ![r] = [BaseEntries(r) EXCEPT ![PrOf[r]] = r]]
    /\ pc' = [pc EXCEPT ![r] = "push"]
    /\ UNCHANGED <<fixed, history, attempt, tip, outcome>>

(* Mutation: the push is forced. *)
FastForward_Forced(r) == TRUE

(* The server takes an unforced push only when the commit's parent is the *)
(* branch's current commit.                                               *)
FastForward(r) == tip[r] = TipNow

PushAccepted(r) ==
    /\ pc[r] = "push"
    /\ FastForward(r)
    /\ history' = Append(history, [by |-> r, tree |-> commit[r]])
    /\ pc' = [pc EXCEPT ![r] = "accepted"]
    /\ UNCHANGED <<fixed, attempt, tip, commit, outcome>>

(* `push.code === 0`. *)
PushReturnsOk(r) ==
    /\ pc[r] = "accepted"
    /\ pc' = [pc EXCEPT ![r] = "done"]
    /\ outcome' = [outcome EXCEPT ![r] = "ok"]
    /\ UNCHANGED <<fixed, history, attempt, tip, commit>>

(* Mutation: a lost race is not retried. *)
MayRetry_Never(r) == FALSE

(* Whether a rejected push is tried again: only on the first attempt. *)
MayRetry(r) == attempt[r] = 0

(* Mutation: a second loss falls out of the loop into success. *)
PushRejected_SecondIsOk(r) ==
    /\ pc[r] = "push" /\ ~FastForward(r)
    /\ pc' = [pc EXCEPT ![r] = IF MayRetry(r) THEN "tip" ELSE "done"]
    /\ attempt' = [attempt EXCEPT ![r] = 1]
    /\ outcome' = [outcome EXCEPT ![r] = IF MayRetry(r) THEN @ ELSE "ok"]
    /\ UNCHANGED <<fixed, history, tip, commit>>

(* Mutation: the retry does not count as an attempt. *)
PushRejected_Uncounted(r) ==
    /\ pc[r] = "push" /\ (~FastForward(r) \/ "declined" \in faults)
    /\ pc' = [pc EXCEPT ![r] = "tip"]
    /\ UNCHANGED <<fixed, history, attempt, tip, commit, outcome>>

(* The push is refused with a message that /rejected|fetch first|.../ *)
(* matches: a lost race, or a server that declines the update.        *)
PushRejected(r) ==
    /\ pc[r] = "push"
    /\ ~FastForward(r) \/ "declined" \in faults
    /\ IF MayRetry(r)
         THEN /\ attempt' = [attempt EXCEPT ![r] = @ + 1]
              /\ pc' = [pc EXCEPT ![r] = "tip"]
              /\ UNCHANGED outcome
         ELSE /\ Fail(r)
              /\ UNCHANGED attempt
    /\ UNCHANGED <<fixed, history, tip, commit>>

(* The push fails otherwise, before or after the server applied it.  The *)
(* run cannot tell which, and does not retry.                            *)
PushFails(r) ==
    /\ "network" \in faults
    /\ pc[r] \in {"push", "accepted"}
    /\ Fail(r)
    /\ UNCHANGED <<fixed, history, attempt, tip, commit>>

(* The process is killed; what the server accepted stays accepted. *)
Crash(r) ==
    /\ "crash" \in faults
    /\ pc[r] \notin {"idle", "done"}
    /\ pc' = [pc EXCEPT ![r] = "done"]
    /\ outcome' = [outcome EXCEPT ![r] = "crashed"]
    /\ UNCHANGED <<fixed, history, attempt, tip, commit>>

Step(r) ==
    \/ Start(r) \/ ReadTip(r) \/ GitFails(r) \/ BuildCommit(r)
    \/ PushAccepted(r) \/ PushReturnsOk(r) \/ PushRejected(r) \/ PushFails(r)

Next == \E r \in Requests : Step(r) \/ Crash(r)

Spec == Init /\ [][Next]_vars

(* Every git command returns; only then does a synchronous run proceed. *)
Fairness == \A r \in Requests : WF_vars(Step(r))
FairSpec == Spec /\ Fairness

-----------------------------------------------------------------------------
(* The runs whose commit is on the branch, and what the branch serves. *)
Landed == {history[i].by : i \in 1..TipNow}
Board == TreeAt(TipNow)

TypeOK ==
    /\ objectFormat \in {"sha1", "sha256"} /\ faults \in FaultSets
    /\ history \in Seq(Commits)
    /\ pc \in [Requests -> {"idle", "tip", "build", "push", "accepted", "done"}]
    /\ attempt \in [Requests -> 0..1]
    /\ tip \in [Requests -> Nat]
    /\ commit \in [Requests -> Trees]
    /\ outcome \in [Requests -> {"pending", "ok", "error", "crashed"}]

(* publish.ts:4-6, "every other PR's artifact survives every publish (an   *)
(* old comment's link must never die)": a step that moves the branch       *)
(* changes the entry of one pull request only, and removes none.           *)
OthersSurvive ==
    [][\A p, q \in PRs :
          /\ Board[p] # NoArtifact => Board'[p] # NoArtifact
          /\ Board[p] # Board'[p] /\ Board[q] # Board'[q] => p = q]_vars

(* A caller told "ok" can link the artifact for good: the branch serves its *)
(* pull request this run's artifact, or one that landed after it.           *)
OkIsDurable ==
    \A r \in Requests : outcome[r] = "ok" =>
        \E i \in 1..TipNow :
            /\ history[i].by = r
            /\ \E j \in i..TipNow : history[j].by = Board[PrOf[r]]

(* A run lands at most once, whatever it is told of its pushes: the retry  *)
(* follows refused pushes only, so it can never bury a newer artifact of   *)
(* the same pull request under a second copy of its own.                   *)
LandsOnce ==
    \A i, j \in 1..TipNow : history[i].by = history[j].by => i = j

(* Without faults a run gives up only after losing two races, each to a    *)
(* different run: two concurrent publishers always both land.              *)
LosersLostTwice ==
    faults = {} /\ objectFormat = "sha1" =>
        \A r \in Requests : outcome[r] = "error" =>
            Cardinality(Landed \ {r}) >= 2

(* One bounded retry: every run that starts ends, and while git commands   *)
(* return none waits on another run.                                       *)
EveryRunEnds ==
    \A r \in Requests : pc[r] = "tip" ~> pc[r] = "done"

(* The detailed runs implement the atomic board. *)
AbstractBoard == INSTANCE ArtifactBoard
    WITH board <- Board, landed <- Landed
ImplementsBoard == AbstractBoard!BoardSpec
================================================================================
