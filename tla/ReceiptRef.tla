------------------------------- MODULE ReceiptRef -------------------------------
(***************************************************************************)
(* How a receipt travels from a developer's machine to the pull request    *)
(* without a local `gh`: a run of `pr --store ref` renders it, stores it   *)
(* on refs/aireceipts/<slug> (src/pr/store.ts) and, with --push-ref,       *)
(* force-pushes that ref.  An agent's pre-push hook                        *)
(* (src/cli/commands/hook-pre-push.ts) is such a run, and only then lets   *)
(* the branch push go on; people start others by hand, as the failing      *)
(* check tells them to.  Nothing orders them: any number run at a time,    *)
(* of one branch too, from one clone or from several.  The branch push     *)
(* triggers `pr-check` (src/cli/commands/pr-check.ts), which fetches the   *)
(* ref, renders it and upserts the comment, or gives a verdict about the   *)
(* comment already there.                                                  *)
(*                                                                         *)
(* A receipt is abstracted to its branch, the clone it was rendered in and *)
(* how much of that clone's sessions on the branch it accounts for; the    *)
(* comment of a pull request to whether there is one (CommentUpsert models *)
(* how it is found and written).                                           *)
(***************************************************************************)
EXTENDS Integers, FiniteSets, FiniteSetsExt

CONSTANTS
    Branches,
    SlugOf,    \* receiptRefSlug, by branch: not injective in general
    Writers,   \* bound: the runs of `pr --store ref` there may be at a time
    CloneOf,   \* the clone of the repository in which each of them runs
    CiRuns,    \* bound: pull_request events handled by pr-check
    MaxWork,   \* bound: how often sessions grow, all together
    Strict,    \* same-repo PR, enforcement on, head not exempt
    Faults,    \* which calls may fail: "local", "push", "fetch", "write", "read"
    None

Clones == {CloneOf[w] : w \in Writers}
Slugs == {SlugOf[b] : b \in Branches}

(* A payload on a ref; the ways to run the writer; a verdict of pr-check. *)
Receipts == [branch : Branches, clone : Clones, version : Nat]
Kinds == {"hook", "manual"}
Verdicts == {"found", "error", "missing-required", "missing-notice"}

ASSUME ReceiptRefAssumption ==
    /\ None \notin Receipts \cup Verdicts \cup Branches
    /\ MaxWork \in Nat /\ Strict \in BOOLEAN
    /\ Faults \subseteq {"local", "push", "fetch", "write", "read"}

VARIABLES
    work,    \* what the sessions of each clone and branch account for, 0: none
    writer,  \* the runs of `pr --store ref`
    local,   \* refs/aireceipts/* of each clone
    remote,  \* refs/aireceipts/* of the head repository
    comment, \* whether each branch's pull request has a receipt comment
    ci       \* the runs of pr-check

vars == <<work, writer, local, remote, comment, ci>>

OwnSlug(b) == \A q \in Branches : SlugOf[q] = SlugOf[b] => q = b

(* built: the version it has rendered; sent: what its `git push` of the    *)
(* ref carries while that runs; attached: what its push has put on the     *)
(* remote; alone: see Unrivalled.                                          *)
IdleRun == [pc |-> "idle", kind |-> "hook", branch |-> None, built |-> 0,
            sent |-> None, attached |-> 0, alone |-> FALSE]

IdleCi == [pc |-> "idle", branch |-> None, clone |-> None, payload |-> None,
           promised |-> 0, alone |-> FALSE, failed |-> {}, verdict |-> None]

Init ==
    /\ work = [k \in Clones |-> [b \in Branches |-> 0]]
    /\ writer = [w \in Writers |-> IdleRun]
    /\ local = [k \in Clones |-> [s \in Slugs |-> None]]
    /\ remote = [s \in Slugs |-> None]
    /\ comment = [b \in Branches |-> FALSE]
    /\ ci = [c \in CiRuns |-> IdleCi]

-----------------------------------------------------------------------------
(* The developers' side. *)

(* An agent works on the branch in a clone. *)
Work(k, b) ==
    /\ MapThenSumSet(LAMBDA p : work[p[1]][p[2]], Clones \X Branches) < MaxWork
    /\ work' = [work EXCEPT ![k][b] = @ + 1]
    /\ UNCHANGED <<writer, local, remote, comment, ci>>

(* The command has ended, for better or worse: a hook's push goes on, with *)
(* what has been attached, if anything.                                    *)
Ended(r) ==
    IF r.kind = "hook"
    THEN [r EXCEPT !.pc = "push", !.built = 0, !.alone = @ /\ r.attached > 0]
    ELSE [IdleRun EXCEPT !.sent = r.sent]

(* The run holds a receipt of this slug and clone that it has not put      *)
(* where it belongs; one that is pushing may outlive its command.          *)
InHand(v, k, s) ==
    /\ CloneOf[v] = k
    /\ \/ writer[v].pc \in {"store", "refpush"} /\ SlugOf[writer[v].branch] = s
       \/ writer[v].sent # None /\ SlugOf[writer[v].sent.branch] = s

(* No run of the clone holds a receipt, which could become an older one. *)
Unrivalled(k, b) == \A v \in Writers : ~InHand(v, k, SlugOf[b])

(* An agent issues a git push, and PreToolUse starts the hook, which has   *)
(* nothing to do if `shouldAttach` does not recognise the command; or      *)
(* somebody runs the command by hand.  runPrDetailed reads the sessions    *)
(* and renders, and stops if none matches.                                 *)
Start(w, b) ==
    LET k == CloneOf[w]
    IN /\ writer[w].pc = "idle" /\ writer[w].sent = None
       /\ \E kind \in Kinds :
             LET run == [IdleRun EXCEPT !.kind = kind, !.branch = b]
             IN \/ kind = "hook" /\ writer' = [writer EXCEPT ![w] = Ended(run)]
                \/ /\ work[k][b] > 0
                   /\ writer' = [writer EXCEPT ![w] =
                          [run EXCEPT !.pc = "store", !.built = work[k][b],
                                      !.alone = Unrivalled(k, b)]]
       /\ UNCHANGED <<work, local, remote, comment, ci>>

(* Mutation: a failed write is ignored and whatever the ref holds pushed. *)
AfterFailedWrite_Continue(r) == [r EXCEPT !.pc = "refpush"]

AfterFailedWrite(r) == Ended(r)

(* writeReceiptRef: hash-object, mktree, commit-tree, update-ref.  Without *)
(* --push-ref the command ends here.                                       *)
StoreRef(w) ==
    LET r == writer[w]
        receipt == [branch |-> r.branch, clone |-> CloneOf[w], version |-> r.built]
    IN /\ r.pc = "store"
       /\ \/ /\ local' = [local EXCEPT ![CloneOf[w]][SlugOf[r.branch]] = receipt]
             /\ \/ writer' = [writer EXCEPT ![w].pc = "refpush"]
                \/ r.kind = "manual" /\ writer' = [writer EXCEPT ![w] = Ended(r)]
          \/ /\ "local" \in Faults
             /\ writer' = [writer EXCEPT ![w] = AfterFailedWrite(r)]
             /\ UNCHANGED local
       /\ UNCHANGED <<work, remote, comment, ci>>

(* pushReceiptRef: `git push origin +ref:ref` reads the clone's ref, ...   *)
SendRef(w) ==
    LET r == writer[w]
    IN /\ r.pc = "refpush"
       /\ writer' = [writer EXCEPT ![w] =
              [r EXCEPT !.pc = "sending", !.sent = local[CloneOf[w]][SlugOf[r.branch]]]]
       /\ UNCHANGED <<work, local, remote, comment, ci>>

(* ... and forces the remote's to it, or fails. *)
RefArrives(w) ==
    LET r == [writer[w] EXCEPT !.sent = None]
    IN /\ writer[w].sent # None
       /\ \/ /\ remote' = [remote EXCEPT ![SlugOf[writer[w].sent.branch]] = writer[w].sent]
             /\ writer' = [writer EXCEPT ![w] =
                    IF r.pc = "sending" THEN Ended([r EXCEPT !.attached = r.built]) ELSE r]
          \/ /\ "push" \in Faults
             /\ writer' = [writer EXCEPT ![w] = IF r.pc = "sending" THEN Ended(r) ELSE r]
             /\ UNCHANGED remote
       /\ UNCHANGED <<work, local, comment, ci>>

(* Anything thrown in the hook is swallowed, and an agent kills a hook     *)
(* that takes too long: the push goes on, and so may a `git push` of the   *)
(* ref.                                                                    *)
Dies(w) ==
    /\ writer[w].pc \in {"store", "refpush", "sending"}
    /\ writer' = [writer EXCEPT ![w] = Ended(writer[w])]
    /\ UNCHANGED <<work, local, remote, comment, ci>>

(* The branch push itself: refused, or accepted and then seen by CI. *)
BranchPushed(w) ==
    LET r == writer[w]
    IN /\ r.pc = "push"
       /\ writer' = [writer EXCEPT ![w] = [IdleRun EXCEPT !.sent = r.sent]]
       /\ \/ UNCHANGED ci
          \/ \E c \in CiRuns :
                /\ ci[c].pc = "idle"
                /\ ci' = [ci EXCEPT ![c] =
                       [@ EXCEPT !.pc = "fetch", !.branch = r.branch, !.clone = CloneOf[w],
                                 !.promised = r.attached, !.alone = r.alone]]
       /\ UNCHANGED <<work, local, remote, comment>>

(* `pr --post` writes the comment at the end of the command. *)
Post(b) ==
    /\ \E k \in Clones : work[k][b] > 0
    /\ comment' = [comment EXCEPT ![b] = TRUE]
    /\ UNCHANGED <<work, writer, local, remote, ci>>

-----------------------------------------------------------------------------
(* The CI side: pr-check. *)

(* A run that has ended holds no more than its verdict, and what failed in *)
(* it if that is that the receipt is missing.                              *)
Verdict(c, v, failed) ==
    ci' = [ci EXCEPT ![c] = [IdleCi EXCEPT !.pc = "done", !.failed = failed, !.verdict = v]]

LookAgain(c, call) ==
    ci' = [ci EXCEPT ![c] = [@ EXCEPT !.pc = "check", !.payload = None,
                                      !.failed = ci[c].failed \cup {call}]]

FetchSlug(c) == SlugOf[ci[c].branch]

(* fetchAndRenderReceipt: code 0 with a body, or 2 / 3 without.  A failed  *)
(* fetch is the same to it as a ref that does not exist.                   *)
CiFetch(c) ==
    /\ ci[c].pc = "fetch"
    /\ \/ /\ remote[FetchSlug(c)] # None
          /\ ci' = [ci EXCEPT ![c] =
                 [@ EXCEPT !.pc = "upsert", !.payload = remote[FetchSlug(c)]]]
       \/ remote[FetchSlug(c)] = None /\ ci' = [ci EXCEPT ![c].pc = "check"]
       \/ "fetch" \in Faults /\ LookAgain(c, "fetch")
    /\ UNCHANGED <<work, writer, local, remote, comment>>

(* upsertMarkerComment. *)
CiUpsert(c) ==
    /\ ci[c].pc = "upsert"
    /\ comment' = [comment EXCEPT ![ci[c].branch] = TRUE]
    /\ Verdict(c, "found", {})
    /\ UNCHANGED <<work, writer, local, remote>>

Missing == IF Strict THEN "missing-required" ELSE "missing-notice"

(* Mutation: a comment that could not be written is a missing receipt. *)
CiUpsertFails_Missing(c) ==
    /\ ci[c].pc = "upsert" /\ "write" \in Faults
    /\ Verdict(c, Missing, ci[c].failed \cup {"write"})
    /\ UNCHANGED <<work, writer, local, remote, comment>>

(* Listing or writing failed (403 for a fork's token, 5xx): look again. *)
CiUpsertFails(c) ==
    /\ ci[c].pc = "upsert"
    /\ \E call \in {"read", "write"} \cap Faults : LookAgain(c, call)
    /\ UNCHANGED <<work, writer, local, remote, comment>>

(* No temporary repository, or a request that throws: exit code 1. *)
CiDies(c) ==
    /\ ci[c].pc \in {"fetch", "upsert", "check"}
    /\ Verdict(c, "error", {})
    /\ UNCHANGED <<work, writer, local, remote, comment>>

(* missingVerdict.  findMarkerComment answers null both when there is no   *)
(* receipt comment and when the comments could not be listed.              *)
CiCheck(c) ==
    /\ ci[c].pc = "check"
    /\ \/ comment[ci[c].branch] /\ Verdict(c, "found", {})
       \/ ~comment[ci[c].branch] /\ Verdict(c, Missing, ci[c].failed)
       \/ "read" \in Faults /\ Verdict(c, Missing, ci[c].failed \cup {"read"})
    /\ UNCHANGED <<work, writer, local, remote, comment>>

-----------------------------------------------------------------------------
WriterStep(w) ==
    StoreRef(w) \/ SendRef(w) \/ RefArrives(w) \/ Dies(w) \/ BranchPushed(w)
CiStep(c) ==
    CiFetch(c) \/ CiUpsert(c) \/ CiUpsertFails(c) \/ CiCheck(c) \/ CiDies(c)

Next ==
    \/ \E k \in Clones, b \in Branches : Work(k, b)
    \/ \E w \in Writers, b \in Branches : Start(w, b)
    \/ \E w \in Writers : WriterStep(w)
    \/ \E b \in Branches : Post(b)
    \/ \E c \in CiRuns : CiStep(c)

Spec == Init /\ [][Next]_vars

-----------------------------------------------------------------------------
(* The order of the hook (attach first, then push): the check run of a     *)
(* push renders a receipt of that push's branch.  It renders the receipt   *)
(* which this push's hook has attached or a newer one of the clone, or     *)
(* another clone's, whatever failed before, if no other run in the clone   *)
(* had rendered this branch's receipt and not yet delivered it when the    *)
(* hook rendered.  Such a run may put an older receipt back; the code has  *)
(* no lock, and the remote takes whatever is forced on it.                 *)
FreshAfterPush ==
    \A c \in CiRuns :
        LET run == ci[c]
        IN run.pc = "upsert" /\ OwnSlug(run.branch) =>
              /\ run.payload.branch = run.branch
              /\ run.alone /\ run.payload.clone = run.clone =>
                    run.payload.version >= run.promised

(* A run of pr-check says that the receipt is missing only for want of     *)
(* one, or of the calls it needs: a comment that is there, it overlooks    *)
(* only if the comments could not be listed (docs/pr-receipts.md:353-356   *)
(* promises so for a write that fails), and a receipt that its push has    *)
(* attached only if one of its own calls has failed, whichever hooks,      *)
(* manual runs and kills came before or in between.                        *)
NoFalseAlarm ==
    [][\A c \in CiRuns :
          ci[c].verdict = None /\ ci'[c].verdict = Missing =>
             \/ "read" \in ci'[c].failed
             \/ /\ ~comment[ci[c].branch]
                /\ ci[c].promised = 0 \/ ci'[c].failed # {}]_vars
================================================================================
