-------------------------------- MODULE PrCommand --------------------------------
(***************************************************************************)
(* The command `aireceipts pr` after its sessions are chosen               *)
(* (`runPrDetailed`, src/pr/index.ts): publish the artifact, render the    *)
(* one body, store it on the receipt ref, print it, upsert the comment,    *)
(* and advertise it.  Each step may fail or be the last one.  The pull     *)
(* request is asked for twice, for the artifact and for the comment, and   *)
(* what `gh pr view` answers may change in between, as may the visibility  *)
(* of the repository.  The CI check posts whatever body the ref holds.     *)
(*                                                                         *)
(* The components below are used by what they promise: publishing is the   *)
(* upsert of ArtifactBoard, a comment is one cell per pull request         *)
(* (CommentUpsert), and so is the branch's ref on the remote (ReceiptRef). *)
(***************************************************************************)
EXTENDS FiniteSets

CONSTANTS
    Runs,     \* runs of the command for one branch
    Options,  \* the flags a run may be given
    PRs,      \* pull requests that `gh pr view` may name
    RepoOf,   \* the base repository of each
    NumberOf, \* and its number there
    None

Repos == {RepoOf[p] : p \in PRs}
Bodies == [run : Runs, link : PRs \cup {None}]
Publishes == [run : Runs, pr : PRs]
ExitCodes == {0, 1, 137}

ASSUME PrCommandAssumption ==
    /\ Options \subseteq [post : BOOLEAN, artifact : BOOLEAN, share : BOOLEAN, store : BOOLEAN]
    /\ \A p, q \in PRs : RepoOf[p] = RepoOf[q] /\ NumberOf[p] = NumberOf[q] => p = q
    /\ None \notin PRs \cup Bodies \cup Publishes \cup ExitCodes

VARIABLES
    view,     \* what `gh pr view` answers now, None if there is no pull request
    public,   \* the repositories everybody can read
    board,    \* the artifact branches: what is served for each pull request
    landed,   \* the publishes that reached one
    comment,  \* the receipt comment of each pull request
    ref,      \* the body behind the branch's receipt ref on the remote
    pc,       \* where each run stands
    opts,     \* its flags
    target,   \* the pull request its artifact is for
    artifact, \* what publishArtifact has told it
    link,     \* the pull request whose artifact its body links to
    printed,  \* the body on its stdout
    posted,   \* the upserts that succeeded: where, and which body
    hint,     \* the pull request whose artifact it advertised
    code      \* its exit code

shared == <<view, public, board, landed, comment, ref>>
run == <<opts, target, artifact, link, printed, posted, hint, code>>
vars == <<shared, pc, run>>

Init ==
    /\ view \in PRs \cup {None}
    /\ public \in SUBSET Repos
    /\ board = [p \in PRs |-> None]
    /\ landed = {}
    /\ comment = [p \in PRs |-> None]
    /\ ref = None
    /\ pc = [r \in Runs |-> "idle"]
    /\ opts \in [Runs -> Options]
    /\ target = [r \in Runs |-> None]
    /\ artifact = [r \in Runs |-> "pending"]
    /\ link = [r \in Runs |-> None]
    /\ printed = [r \in Runs |-> None]
    /\ posted = {}
    /\ hint = [r \in Runs |-> None]
    /\ code = [r \in Runs |-> None]

Go(r, from, to) == pc[r] = from /\ pc' = [pc EXCEPT ![r] = to]

Exit(r, c) ==
    /\ pc' = [pc EXCEPT ![r] = "done"]
    /\ code' = [code EXCEPT ![r] = c]

Body(r) == [run |-> r, link |-> link[r]]

-----------------------------------------------------------------------------
InvalidArgs(o) == (o.artifact /\ ~o.post) \/ (o.share /\ ~o.artifact)

(* Flags that make no sense together, no session, or none to be counted. *)
Refuse(r) ==
    /\ pc[r] = "idle"
    /\ Exit(r, 1)
    /\ UNCHANGED <<shared, opts, target, artifact, link, printed, posted, hint>>

(* resolveContributors and the views of what it chose. *)
Collect(r) ==
    /\ ~InvalidArgs(opts[r])
    /\ Go(r, "idle", IF opts[r].artifact THEN "resolve" ELSE "store")
    /\ UNCHANGED <<shared, run>>

(* publishAndLink: the artifact is for the pull request `gh` names now. *)
ResolveArtifact(r) ==
    /\ view # None
    /\ Go(r, "resolve", "push")
    /\ target' = [target EXCEPT ![r] = view]
    /\ UNCHANGED <<shared, opts, artifact, link, printed, posted, hint, code>>

(* No pull request, or gh failed. *)
SkipArtifact(r) ==
    /\ Go(r, "resolve", "store")
    /\ UNCHANGED <<shared, run>>

(* publishArtifact's upsert takes effect. *)
ArtifactLands(r) ==
    LET it == [run |-> r, pr |-> target[r]]
    IN /\ Go(r, "push", "pushed")
       /\ board' = [board EXCEPT ![target[r]] = it]
       /\ landed' = landed \cup {it}
       /\ UNCHANGED <<view, public, comment, ref, run>>

(* Mutation: the answer to the push is not waited for. *)
ArtifactConfirmed_Early(r) ==
    /\ pc[r] \in {"push", "pushed"}
    /\ pc' = [pc EXCEPT ![r] = "store"]
    /\ artifact' = [artifact EXCEPT ![r] = "ok"]
    /\ link' = [link EXCEPT ![r] = target[r]]
    /\ UNCHANGED <<shared, opts, target, printed, posted, hint, code>>

(* outcome.ok: the link is confirmed. *)
ArtifactConfirmed(r) ==
    /\ Go(r, "pushed", "store")
    /\ artifact' = [artifact EXCEPT ![r] = "ok"]
    /\ link' = [link EXCEPT ![r] = target[r]]
    /\ UNCHANGED <<shared, opts, target, printed, posted, hint, code>>

(* The publish failed, landed or not; the receipt goes on without a link. *)
ArtifactFails(r) ==
    /\ pc[r] \in {"push", "pushed"}
    /\ pc' = [pc EXCEPT ![r] = "store"]
    /\ artifact' = [artifact EXCEPT ![r] = "error"]
    /\ UNCHANGED <<shared, opts, target, link, printed, posted, hint, code>>

(* store=ref with its push; any of it may fail, and nothing depends on it. *)
StoreRef(r) ==
    /\ Go(r, "store", "print")
    /\ ref' \in IF opts[r].store THEN {ref, Body(r)} ELSE {ref}
    /\ UNCHANGED <<view, public, board, landed, comment, run>>

(* The body is on stdout before the comment is touched. *)
PrintBody(r) ==
    /\ pc[r] = "print"
    /\ printed' = [printed EXCEPT ![r] = Body(r)]
    /\ IF opts[r].post THEN pc' = [pc EXCEPT ![r] = "comment"] /\ UNCHANGED code
                       ELSE Exit(r, 0)
    /\ UNCHANGED <<shared, opts, target, artifact, link, posted, hint>>

(* upsertPrComment asks for the pull request again. *)
Upsert(r) ==
    /\ view # None
    /\ Go(r, "comment", "hint")
    /\ comment' = [comment EXCEPT ![view] = Body(r)]
    /\ posted' = posted \cup {[pr |-> view, body |-> Body(r)]}
    /\ UNCHANGED <<view, public, board, landed, ref, opts, target, artifact, link, printed,
                   hint, code>>

(* No pull request, or a call failed, the write applied or not. *)
UpsertFails(r) ==
    /\ pc[r] = "comment"
    /\ \/ UNCHANGED comment
       \/ view # None /\ comment' = [comment EXCEPT ![view] = Body(r)]
    /\ Exit(r, 1)
    /\ UNCHANGED <<view, public, board, landed, ref, opts, target, artifact, link, printed,
                   posted, hint>>

(* Mutation: the exit code is the comment's alone. *)
ExitCode_Comment(r) == 0

(* artifactFailed *)
ExitCode(r) == IF opts[r].artifact /\ link[r] = None THEN 1 ELSE 0

(* Mutation: only the file names are compared. *)
SamePr_Number(p, q) == NumberOf[p] = NumberOf[q]

(* The artifact's pull request and the comment's are one, repository too. *)
SamePr(p, q) == p = q

(* What may be advertised: repoVisibility gave a positive "public". *)
Advertised(r) ==
    {p \in {link[r]} \ {None} :
        /\ opts[r].share /\ RepoOf[p] \in public
        /\ \E q \in posted : q.body = Body(r) /\ SamePr(p, q.pr)}

(* The share hint, if all is right and the call succeeds, and the end. *)
Hint(r) ==
    /\ pc[r] = "hint"
    /\ hint' \in {hint} \cup {[hint EXCEPT ![r] = p] : p \in Advertised(r)}
    /\ Exit(r, ExitCode(r))
    /\ UNCHANGED <<shared, opts, target, artifact, link, printed, posted>>

(* The process is killed (SIGKILL, to its shell). *)
Die(r) ==
    /\ pc[r] \notin {"idle", "done"}
    /\ Exit(r, 137)
    /\ artifact' = [artifact EXCEPT ![r] = IF pc[r] \in {"push", "pushed"} THEN "crashed" ELSE @]
    /\ UNCHANGED <<shared, opts, target, link, printed, posted, hint>>

-----------------------------------------------------------------------------
(* A pull request is opened, closed or reopened elsewhere; a repository is *)
(* published or made private.                                              *)
ViewChanges ==
    /\ view' \in PRs \cup {None}
    /\ UNCHANGED <<public, board, landed, comment, ref, pc, run>>

VisibilityChanges ==
    /\ public' \in SUBSET Repos
    /\ UNCHANGED <<view, board, landed, comment, ref, pc, run>>

(* pr-check renders the ref's payload and posts it. *)
CiPosts(p) ==
    /\ ref # None
    /\ comment' = [comment EXCEPT ![p] = ref]
    /\ UNCHANGED <<view, public, board, landed, ref, pc, run>>

Publish(r) ==
    \/ ResolveArtifact(r) \/ SkipArtifact(r)
    \/ ArtifactLands(r) \/ ArtifactConfirmed(r) \/ ArtifactFails(r)

Step(r) ==
    \/ Refuse(r) \/ Collect(r) \/ Publish(r) \/ StoreRef(r) \/ PrintBody(r)
    \/ Upsert(r) \/ UpsertFails(r) \/ Hint(r) \/ Die(r)

Next ==
    \/ \E r \in Runs : Step(r)
    \/ ViewChanges \/ VisibilityChanges
    \/ \E p \in PRs : CiPosts(p)

Spec == Init /\ [][Next]_vars

-----------------------------------------------------------------------------
(* Every variable keeps its type. *)
TypeOK ==
    /\ view \in PRs \cup {None} /\ public \subseteq Repos
    /\ board \in [PRs -> Publishes \cup {None}] /\ landed \subseteq Publishes
    /\ comment \in [PRs -> Bodies \cup {None}] /\ ref \in Bodies \cup {None}
    /\ pc \in [Runs -> {"idle", "resolve", "push", "pushed", "store", "print", "comment",
                        "hint", "done"}]
    /\ opts \in [Runs -> Options]
    /\ target \in [Runs -> PRs \cup {None}]
    /\ artifact \in [Runs -> {"pending", "ok", "error", "crashed"}]
    /\ link \in [Runs -> PRs \cup {None}]
    /\ printed \in [Runs -> Bodies \cup {None}]
    /\ posted \subseteq [pr : PRs, body : Bodies]
    /\ hint \in [Runs -> PRs \cup {None}]
    /\ code \in [Runs -> ExitCodes \cup {None}]

(* SPEC-0027 R3, "a link can never outrun its artifact": wherever a body    *)
(* is read -- on a terminal, in the comment of any pull request, behind the *)
(* ref, posted by the CI check later on -- its link leads to an artifact,   *)
(* whatever failed or was killed on the way.                                *)
LinksLeadSomewhere ==
    LET read == {printed[r] : r \in Runs} \cup {comment[p] : p \in PRs} \cup {ref}
    IN  \A body \in read \ {None} : body.link # None => board[body.link] # None

(* SPEC-0035 R5 and its reviews: a run advertises an artifact only when it  *)
(* has itself published it, and has itself posted the body that links to it *)
(* on the same pull request of the same repository, which is public when    *)
(* it asks.                                                                 *)
HintsAreTrue ==
    [][\A r \in Runs : hint[r] = None /\ hint'[r] # None =>
          LET p == hint'[r]
          IN  /\ [run |-> r, pr |-> p] \in landed
              /\ [pr |-> p, body |-> [run |-> r, link |-> p]] \in posted
              /\ RepoOf[p] \in public]_vars

(* Exit code 0 of `pr --post` is what a script relies on: the very body on  *)
(* stdout was posted, and with --artifact it links to what this run has     *)
(* published.                                                               *)
ZeroMeansDone ==
    \A r \in Runs : code[r] = 0 /\ opts[r].post =>
        /\ \E q \in posted : q.body = printed[r]
        /\ opts[r].artifact => [run |-> r, pr |-> printed[r].link] \in landed

(* What a run leaves behind for its readers and for scripts, whatever      *)
(* failed: no dead link, and no exit code 0 that is not borne out.         *)
OutcomeIsTrue == LinksLeadSomewhere /\ ZeroMeansDone

(* To the artifact branch a command is a publisher that keeps the board's   *)
(* contract, whichever pull request it turns out to publish for.            *)
Board == INSTANCE ArtifactBoard WITH
    Requests <- Publishes,
    PrOf <- [q \in Publishes |-> q.pr],
    NoArtifact <- None,
    outcome <- [q \in Publishes |-> IF target[q.run] = q.pr THEN artifact[q.run] ELSE "pending"]
PublishesOnBoard == Board!BoardSpec
================================================================================
