# A TLA+ model of aireceipts

`aireceipts` is a local command-line program. It reads the transcripts that AI
coding agents leave on disk, reconstructs what a session used at list price, and
prints receipts: for one session, for a week, in a status bar, and for a pull
request. Nothing of it is a server. What makes it hard all the same is that its
commands run beside each other, beside agents that are still writing, and beside
git, GitHub, editors and CI jobs, and share files, refs, a branch and a comment
with them, mostly without locks.

This directory holds the TLA+ modules that model those parts, the TLC
configurations that check them on small instances, and proofs, checked by TLAPS,
of what must hold for any number of runs, files and pull requests.
`PROJECT.json` names for each definition the source lines it models, and for
each property a mutation of the code that the property catches.

    tlc -workers 2 -config ArtifactPublish.cfg MCArtifactPublish
    tlapm ArtifactPublishProofs.tla

Paths are relative to the repository; `pr/publish.ts` is `src/pr/publish.ts`.

## 1. Inventory

| Part (source) | State it keeps | Operations | Shared with | Module |
| --- | --- | --- | --- | --- |
| Artifact publishing (`pr/publish.ts`) | branch `aireceipts/artifacts` on the remote | `publishArtifact` | other machines' runs | `ArtifactPublish`, `ArtifactBoard` |
| Receipt comment (`pr/comment.ts`, `pr/commentApi.ts`) | one comment of the pull request | `upsertPrComment`, `upsertMarkerComment`, `findMarkerComment` | other runs, the CI check, people | `CommentUpsert` |
| Receipt ref, pre-push hook, presence check (`pr/store.ts`, `pr/postRef.ts`, `cli/commands/hook-pre-push.ts`, `pr-check.ts`) | `refs/aireceipts/<slug>`, local and remote | write, push, fetch, render, verdict | agents, manual runs, other clones, git, CI | `ReceiptRef` |
| Git evidence and slices (`pr/slice.ts`, `pr/messageAnchor.ts`, `pr/anchorRecovery.ts`, `pr/gitWrite.ts`) | none; reads a transcript | anchors, amend lineage, slice, claims | the agent that writes the transcript | `GitEvidence`, `PrSlice` |
| Contributors (`pr/contributors.ts`, `pr/confidence.ts`, `pr/select.ts`) | none; reads many transcripts | `selectContributors` | load failures | `PrContributors` |
| Composition of a receipt (`pr/index.ts` 505-613, `pr/nested.ts`, `pr/rollup.ts`, `pr/promote.ts`, `parse/children.ts`) | `covered`, exclusions | nested candidates, rollups, promotion | agents that start subagents | `PrReceipt` |
| The `pr` command (`pr/index.ts` 491-797, `pr/share.ts`) | link, body, exit code | publish, store, print, upsert, hint | all of the above | `PrCommand` |
| Command lines in transcripts (`pr/gitWrite.ts`, `cli/commands/hook-pre-push.ts` `shouldAttach`) | none | git writes, pushes that carry a receipt | the shell, git | `PushCommand` |
| Per-commit table (`pr/perCommit.ts`) | none | `segmentSlice` | - | `PerCommit` |
| Telemetry state (`telemetry/state.ts`, notes of `telemetry/index.ts`) | `~/.aireceipts/state.json` | five kinds of note | every other command | `TelemetryState` |
| Life of a command (`cli/index.ts`, `telemetry/notice.ts`, `sender.ts`, `config.ts`) | `telemetry.json`, the queue | notice, events, flush, exit | other commands, the network | `Command` |
| Session list (`parse/load.ts`, `parse/summaryCache.ts`) | `~/.aireceipts/cache.json` | `listFullSessions` | other commands, agents | `SummaryCache` |
| SessionEnd hook (`hook/install.ts`, `hook/settings.ts`) | Claude Code's `settings.json` and its backup | install, uninstall | Claude Code, editors | `HookSettings` |
| Statusline (`cli/commands/statusline.ts`, `cli/statuslineSegments.ts`, `cli/quotaWindow.ts`, `parse/cwdScope.ts`) | the last reading of the quota | one poll | other status bars, the account | `Statusline` |
| Backfill (`cli/commands/backfill.ts`, `aggregate/backfill.ts`) | a directory of receipts and its `index.txt` | one run | other runs, the user | `Backfill` |
| Transcript adapters (`parse/*.ts`) | none | summary, load | the agents' files and databases | `Transcript`, `CodexTranscript`, `ClaudeTranscript`, `OpenCodeDb`, `GeminiTranscript`, `CursorDb`, `Transcripts` |
| Pricing (`pricing/resolve.ts`, `attribution.ts`, `netCache.ts`) | none | rates, floors, shares | price tables | `Pricing` |
| Waste and verification (`pricing/waste.ts`, `costShape.ts`, `analysis/verification.ts`) | none | detectors, last check | - | `Waste` |
| Receipt model (`receipt/model.ts`, `subagents.ts`, `format.ts`, `pricingCoverage.ts`) | none | receipt, part, subagents, ledger | - | `ReceiptModel` |
| Week, budget (`aggregate/week.ts`, `waste.ts`, `budget/*`) | none | digest, sums, verdict | agents that write | `Week`, `Costs` |
| Renderers, setup report, argument tables, benchmark, site, scripts | none | formatting | - | left out |

How they interact. `aireceipts pr` lists the sessions (`SummaryCache`), asks what
each proves about the branch (`GitEvidence` in `PrSlice` and `PrContributors`),
decides which transcript is counted where (`PrReceipt`), and then publishes,
stores, prints, posts and advertises (`PrCommand`, over `ArtifactPublish`,
`ReceiptRef` and `CommentUpsert`). The pre-push hook runs the same command
without posting and leaves the comment to CI (`ReceiptRef`). Every command leaves
a note in the telemetry state (`TelemetryState`) and may send it with the rest of
what it recorded (`Command`). `HookSettings` is how the SessionEnd hook comes into
an agent's settings. Under all of them the adapters (`Transcripts`) turn records
into sessions, and `Pricing`, `Waste`, `ReceiptModel` and `Week` turn sessions into
dollars (`Costs` puts agents and commands around these four).

Which behaviours are hard, and what correctness means for each part:

- *Publishing*: the tip read at the start is stale when the push arrives. No
  publish may remove another pull request's artifact; a run told "ok" is there
  for good; a run lands once; two concurrent publishers both land; a run ends.
- *Comment*: list, then write, against other writers, deletions and pages that
  shift. People's comments are never touched; a second receipt comment needs a
  race; a run that met nobody is what the thread shows.
- *Ref and check*: order of ref push, branch push and CI job; anything may fail
  and the developer's push goes on; the check never reports a receipt missing
  that is there while it can list the comments; the check run of a push shows what
  that push attached or newer, unless another run in the clone was under way.
- *Evidence*: a slice holds the branch's printed commits, only real ancestors by
  amend, no turn of a branch finished earlier; commits' ranges tile it; a command
  line counts as a git write only if the shell runs that.
- *Contributors*: nothing vanishes without an event.
- *Composition*: no transcript counts twice, none is lost between two rollups.
- *Command*: no dead link, no false hint, no false exit code 0; nothing is sent
  before the user was told.
- *Telemetry state*: never torn, identity kept, milestones and hours once.
- *Session list*: never older than the command; no readable session vanishes from it,
  and a degraded one only where it was not asked for.
- *Hook settings*: only ours is changed, theirs is kept. *Backfill directory*: theirs
  is kept but for names a later run plans to write where a backfill has been.
- *Statusline*: the line is about the session it claims; an ETA comes from a rise
  that took place in the window it is about.
- *Adapters*: a request counts once, at a usage it had; gaps are told on the receipt,
  with the exceptions that section 6 names.
- *Dollars*: never more than was charged; exact where coverage is "full"; every
  division adds up; a session is in one week once.

`PROJECT.json` lists every hazard with its line and the properties for it.

## 2. Plan

The order was: first what cannot be repaired when it is lost (`ArtifactBoard`,
`ArtifactPublish`), then the way of a receipt to its pull request (`CommentUpsert`,
`ReceiptRef`, `GitEvidence`, `PrSlice`, `PrContributors`, `PrReceipt`, `PrCommand`),
then the files that commands share (`TelemetryState`, `SummaryCache`,
`HookSettings`, `Statusline`, `Backfill`, `Command`), and then what a receipt says
(`Transcripts` with its five adapters, `Pricing`, `Waste`, `ReceiptModel`, `Week`,
`Costs`, `PushCommand`, `PerCommit`). All of these are written.

What is left:

1. Proofs of what a receipt says: the folds of `Transcripts`, and the sums of `Costs`
   other than the ledger's, by induction along the transcript (`AllSequences`) and with
   the lemmas about sums of `CostsProofs`.
   `PushCommand` declares a RECURSIVE operator (a quoted script within a script) and
   stays with TLC.
2. The candidate pools of `pr/select.ts`, here an input (a candidate's place).
3. The sanitizer of shared text and the JSON validators, if a property about
   strings is ever wanted.

## 3. Modules

### ArtifactBoard, ArtifactPublish, MCArtifactPublish

`ArtifactBoard` is the abstract specification: a board with one artifact per
pull request; a publish is one atomic upsert; "ok" is only said after it.

`ArtifactPublish` is `publishArtifact` by any number of processes on any
machines. One action per git command that reads or writes shared state: `ReadTip`
(`ls-remote`, which only takes 40-digit names, so a SHA-256 repository always
looks empty), `BuildCommit` (fetch, `ls-tree`, `mktree`, `commit-tree`: private
objects, hence one step), `PushAccepted` / `PushRejected` / `PushFails`, and
`PushReturnsOk` apart from `PushAccepted`, because the answer may get lost or the
process be killed in between. `history` is the remote branch; a commit is named by
its position in it because nothing but fast-forwards reaches it. `attempt` is the
loop counter.

Run `publish`: three runs, two of them of one pull request, with every fault or with
none (`faults` is fixed per behaviour): `OkIsDurable`,
`LosersLostTwice` (without faults only a run that lost two races gives up, so two
publishers always both land), `EveryRunEnds`, and `ImplementsBoard`, the refinement
with `board <- Board`, `landed <- Landed`. Three runs are the fewest with which the
single retry can be lost too.

### CommentUpsert

The thread of one pull request, the runs that upsert a receipt comment (`gh`, which
reads all pages first, and the CI check, which stops at the marker), and people.
One action per HTTP call. `solo` and `disturbed` record who overlapped whom, for
the properties only. In the run: an upsert of each kind, a page per comment, four
comments: every listing spans pages, and a deletion shifts them.

### ReceiptRef, MCReceiptRef

Local work, any number of writers in any number of clones, the branch push a hook
precedes, the check run that this triggers, and `pr --post` at any time. A writer is
`pr --store ref`, started by an agent's pre-push hook or by hand, as the failing check
recommends (`pr-check.ts:144`, `docs/pr-receipts.md`): `Start` (read the sessions,
render), `StoreRef`, `SendRef` (git reads the clone's ref) and `RefArrives` (the forced
update of the remote's), since nothing orders two of them, and a `git push` may outlive
the command that started it (`Dies`, then `RefArrives`). A receipt is its branch, its
clone and how much of that clone's work it accounts for. Every step of the hook leads
on to the branch push, also its failures and its death by the agent's time limit: that
the hook never blocks a push is how the code is, and no property. `alone` records, for
the property only, that when a hook rendered no other run of its clone had a receipt of
the branch in hand.

Run `receipt_ref`: two branches of different slugs, two writers in one clone and one in
another, one check run at any of the pushes, sessions that grow twice, and every fault.
Two writers of a clone are what an older receipt over a newer one takes; the third
shows what another clone does. Bounds besides the constants: a writer starts no second
command before its orphaned push has ended; a command by hand without `--push-ref` ends
after `StoreRef`; and a check run that has ended holds only its verdict and, if that is
"missing", what failed.

### GitEvidence, PrSlice, PerCommit, PrContributors, PushCommand, MCEvidence

`GitEvidence` holds the operators: which invocation owns which printed line
(`RunsOf`), which anchors are the branch's (`OwnAnchors` with `AmendsPrevious`), the
`Slice`, the claims. `Names` says of which commits a printed hex run is a prefix, so
ambiguity is data. `PerCommit` divides a slice among the branch's commits.

`PrSlice` runs a session against real git history (`log`, `preimages`, `madeAt`):
commits, amends, quiet commits, two commits in a call, a commit on each of two
branches in a call, pushes, switches. Its invariants compare the slice computed
from the transcript with what happened. One worktree, two branches, four commits,
five turns; amend chains across branches need four.

`PrContributors` lets candidates load or fail in any order, then decides. Its
instances choose each of three sessions from 38 candidates (place, source,
transcript), which include orphans with equal diffs, an ambiguous abbreviation, a
quiet commit, and an amend of an orphan.

`PushCommand` is the reader of shell lines. Its operators have the names of
`gitWrite.ts`; `Executed` and `UpdatesOrigin` are the shell and git, external. A
line is a sequence of words, grown one at a time from nine openings over 29 words
to five; a quoted script is a word that is read as a line again. Letters of options
and sides of refspecs are constants.

`MCEvidence` EXTENDS the three and checks them side by side, one part per behaviour;
the others stay as they were.

### PrReceipt, MCPrReceipt

Which session has proof is any choice here; `NestedCandidates`, `Select`, `Descend`,
`RollUpContributor`, `Promote` and `RollUpPromoted` are the awaits of
`runPrDetailed`, and `Appear` may add a file between any two of them. `covered` only
decides about sidechains, as in the code. The instance has a parent with a child, a
grandchild and a grandchild that appears, and a sidechain with a child.

### PrCommand, MCPrCommand

The same command from its collected sessions to its exit. It uses the components by
their promises: `ArtifactLands` is `ArtifactBoard`'s upsert (checked:
`PublishesOnBoard`), a comment is one cell, the ref is one cell that CI may post at
any time. `ResolveArtifact` and `Upsert` ask for the pull request separately, as the
code does, and `ViewChanges` may come between. Run `pr_command`: two overlapping runs,
each with all flags (a step that fails stands for a flag left out), the hook's, a plain
`--post` or refused ones; two pull requests of the same number in two repositories.

### TelemetryState, MCTelemetryState

Each note is `Read`, perhaps `MoveAside`, `WriteTmp`, `Land` (the rename), `Report`,
one action per file operation; a note may fail or die at each. `Meddle` damages,
deletes, edits or replaces the file from outside. Run `telemetry_state`: two processes
with three notes if any overlap (`MaxBeside`) and four if none do, one touch from
outside, two hours and a clock that moves freely: a settled identity takes one note
and the race two more, an hour counted twice takes four. `ReportedOnce`
is about notes that do not overlap, because the lock-free update loses
increments by design (state.ts:150-156).

### SummaryCache

`Begin` (load the cache, walk), `Lazy`, `Skip`, `StatHit`, `StatMiss`, `LoadFull`,
`LoadNull`, `Save`: one per await of a worker. A transcript is the number of writes
it has seen, and a parse may end with any version since its stamp. Stamps are unique
per version: a write that keeps size and mtime is not distinguished by the code
either. `Answer` chooses whether the command asked for degraded rows, and drops them if
not (`load.ts:84`), as nothing before it depends on that. The pull request commands (`pr/index.ts:105`), the week
(`week.ts:392`), the budget (`budget/compute.ts:59`) and the backfill (`backfill.ts:33`)
ask; `list`, `compare`, `handoff`, the choice of a session and the setup report do not.
Two listers, one transcript with three writes and one fault; a stale entry
needs a writer, a first lister and a second one.

### HookSettings

`ReadToInstall`, the prompt (`Accept`, `Decline`), `backupOnce`, `atomicWrite`, and the
uninstaller, which does not ask. Settings are the foreign keys, the shape of `hooks`
and the list of entries with the commands in each. Two of each beside one save of
another program.

### Statusline

`Start` (format, host payload), `FromPayload`, `List`, `LoadNext`, `NoSession`,
`Render`, `EndPoll`: one per await of a poll. The environment moves the clock or sets it
back, uses the account, renews its window, adds, breaks and removes transcripts, and
loses the reading. A reading carries the state of the account it came from, so that
`EtaSound` can say that an ETA is drawn from a rise that took place within one window.
It is checked in two parts, because the reading and the choice of a session do not
meet: the account stands still in one of them, the sessions in the other. Paths are
absolute and made of words (drives and UNC are left out).

### Backfill

`ListSessions`, `Look`, `MakeDir`, then for each session of the plan `LoadFails` or
`OpenReceipt`, `WriteReceipt`, and last `OpenIndex` and `WriteIndex`: a file is opened
(and so emptied) and written apart. Runs die anywhere and fail anywhere; sessions
begin meanwhile and renumber the rest. The user puts, changes and removes files: notes,
an `index.txt` of their own, and files by the names of receipts (`Taken`; in the run the
name of a first session with slug "a"), which may be receipts they have edited.
`ours` records, for the property only, that a run has finished in the directory and that
the user left its manifest alone.

### Command

`BeginCommand` (selection), the notice's two file operations, the events, `Return` or
`Throw`, the race of the request against its timer (`Settle`, `Resolve`), `Exit` when
nothing holds the process. Environments switch telemetry off and on, are a
development checkout, or have a malformed connection string. That Node waits for
timers and sockets is external. `--telemetry-show` always prints an empty queue (it
runs before anything is recorded); the model has it so.

`MCShared` EXTENDS `SummaryCache`, `CommentUpsert`, `HookSettings`, `Statusline`,
`Backfill` and `Command`, whose names are therefore distinct (`HookNext`,
`BackfillSpec`, ...): they share nothing with each other, so one of them is chosen at
the beginning of a behaviour and the others stay in an initial state. Their
properties are checked, and proved, under the names they have in their own modules.

### Transcript, its five adapters, Transcripts, MCTranscripts

An agent acts and writes records; the adapter folds over the records so far, because
it may be run at any time. `truth` is what the agent did and is seen by no adapter:
per request every usage that was truthfully reported, what is clean, what no record
tells. `Transcript` has the usage arithmetic (`util.ts`) and the shared shape;
`Codex...` the cumulative counter with repeats, restarts, resumes and legacy records;
`Claude...` fragments of a response, forks, records without an id; `OpenCodeDb` and
`CursorDb` a database read with several queries while it is written; `Gemini...` an
edit history with rewinds and checkpoints. A session is `told` what its receipt prints
(`droppedRecords`, `usageReconciliationFailed`, unattributed and conflicting usage);
what it is only `flagged` with, the shape of a failure, is telemetry, and leaves the
receipt as it is (`types.ts:225`). `Transcripts` states what receipts rely
on, for all. Three records (Claude Code), four (Codex, Gemini, Cursor) or five
(opencode) suffice for one of each fault between two requests.

### Pricing, Waste, ReceiptModel, Week, Costs, MCCosts

The pure modules, in layers: `Pricing` (which rates, the floor of a request, a turn, a
session; shares of tools and models; cache savings), `Waste` (five detectors, cost
shape, the last check), `ReceiptModel` (the receipt of a session, of a range of turns,
with subagents; coverage, caveats; the rounding of printed rows), `Week` (digest,
windows, budgets). `Costs` has the sessions that grow, become unreadable, and a
clock, around the commands that list and then load. What the vendor charges is
`Charged`, for any choice (`uncited`) of the rates the table does not cite: a floor
must be a floor for all of them.

`MCCosts` chooses a view at the beginning, each with sessions that one question needs:
prices (two turns of 22 shapes, under seven kinds of table and model), children (two of
seven kinds), waste (five turns of three kinds, two compactions), refills (six turns of
two kinds, four compactions; the refill constants are 2 and 2 where the code has 5 and
25), checks (three calls with times), the ledger (four rows of eight values, where
2, 4 or up to 6 decimals are printed), and the week (two sessions, one of which is
written; a day is two ticks and a week four).

## 4. Checked with TLC

| Run | Module | What it shows |
| --- | --- | --- |
| `publish` | `ArtifactPublish` | `OkIsDurable`, `LosersLostTwice` (without faults only a run that lost two races gives up), `ImplementsBoard`, `EveryRunEnds` |
| `receipt_ref` | `ReceiptRef` | `FreshAfterPush`: the check run of a push shows what that push attached or newer, unless another run of the clone was under way; `NoFalseAlarm`: a receipt is reported missing only for want of one or of a call |
| `evidence` | `PrContributors`, `PrSlice`, `PushCommand` | `NothingVanishes`; `OwnCommitsAreSliced`, `LineageIsReal`, `SequentialBranchesAreDisjoint`, `SegmentsTile`; `ReadLikeTheShell` |
| `receipt` | `PrReceipt` | `SettledCountedOnce`, `NoChildForgotten` |
| `pr_command` | `PrCommand` | `OutcomeIsTrue` (no dead link, exit 0 means done), `HintsAreTrue`, `PublishesOnBoard` |
| `telemetry_state` | `TelemetryState` | `IdentityKept`, `ReportedOnce` (milestones and hours, where no two notes overlap) |
| `shared` | `MCShared` | `ListingIsRight`; `DuplicatesNeedARace`, `SoloRunIsCurrent`; `NothingOfTheirsIsLost`; `FinishedMeansIndexed`, `NeverClobbers`; `EtaSound`, `RightSession`; `OnlyTheToldIsSent` |
| `transcripts` | `Transcripts` | `PricedOnce`, `CleanIsExact`, `Accounted`, `GapsAreTold`, `NeverForgets` |
| `costs` | `Costs` | `FloorHolds`, `SharesAddUp`, `ComparisonsAreExact`, `WasteIsSpent`, `EvidenceIsTheLast`, `LedgerNeverOverstates`, `WeekCountsOnce` |
| `contributors_message`, `receipt_live`, `telemetry_exit` | | a counterexample each, see section 6 |

All passing runs have `CHECK_DEADLOCK FALSE`: each is a bounded number of commands,
which end, so the system stops when all have. Every other bound is a CONSTANT with
the word "bound" in its comment.

Fairness. Only `publish` needs it: `publishArtifact` is synchronous (`spawnSync`), so
as long as git commands return, each run takes its next step: weak fairness of a run's
steps; a crash, where it may happen, ends the run too. It does not say that a call
succeeds. The other runs check safety. They ask nothing of time: either nothing in the
code promises progress (a lost comment is lost), or the step after is the code's next
line.

Type invariants are checked by TLC while a module is written and by TLAPS where it
has proofs; no run spends a property on one.

The whole suite is kept to a dozen runs and forty properties, so that it stays a check
one runs before every change. A new module's run therefore comes with a decision which
property has become implied by another one, or proved, and need not be run any more.

## 5. Proved with TLAPS

For any number of runs, files, pull requests and any values of the constants that
satisfy the named assumptions of the modules (`PublishAssumption`, `CommentAssumption`,
...: sets are disjoint, bounds are naturals, what is above a transcript is a chain). TLC
evaluates each of them on the instances of section 4. A theorem about a property of a run
states that property, by its name.

- `ArtifactPublishProofs`: `TypeOK`, `LandsOnce`, `OkIsDurable`, `OthersSurvive`,
  `LosersLostTwice`, and `PublishImplementsBoard`, the refinement. The inductive
  invariant adds to `TypeOK` that a commit built on the present tip is that tip's tree
  with one's own entry (`BuiltOnTip`), that a run that has not pushed has not landed,
  that what was reported is on the branch, and that the branch serves for each pull
  request the latest publish of it. `BuiltOnTip` is the crux: nothing is known of a
  commit built on an older tip, and the fast-forward rule lets none of them through.
  `LosersLostTwice` counts: without faults each attempt that lost saw a longer branch
  than it had read (`Losses`), and its first two commits are of two runs.
- `CommentUpsertProofs`: `DuplicatesNeedARace` and `SoloRunIsCurrent`, for any thread,
  page size and number of upserts. The invariant orders the comments by id (`Ordered`);
  says of a run that nothing has disturbed that the pages it has read hold no receipt,
  or that its target is the first one there is (`Listed`); and that a run that counts
  as solo is the only active one (`Alone`).
- `ReceiptRefProofs`: `FreshAfterPush` and `NoFalseAlarm` for any branches, clones,
  writers and faults. A ref holds receipts of its slug, and a clone's ref its own
  (`Right`). The crux is `Floor`: if no run of the clone holds a receipt of the branch
  when a hook renders version n, then from there on none of them holds one older than n,
  whether it is not yet stored, stored, or on its way, since sessions only grow and
  whoever renders later renders no less. So what the clone's runs force on the remote
  after the hook's push is no older either (`Fresh`), until the check run of its push has
  fetched (`Promised`). `NoFalseAlarm` needs that a ref once set stays set, which hooks
  and manual runs keep, so that a check run with a promise that has nothing to post has
  seen a call of its own fail (`Excused`).
- `PrReceiptProofs`: a transcript that was there from the start is counted once
  (`SettledCountedOnce`), and none is lost (`NoChildForgotten`). The invariant says
  that what was found under a credited child includes all its settled descendants, that
  a rollup's considered files avoid its exclusions, that `covered` has everything a
  contributor's rollup shows, and that a rollup has looked at every settled file below
  it that its exclusions leave (`LookedAt`). That no file is lost then follows from the
  innermost credited session above it: the exclusions of its rollup come from
  sessions below it, and none of these is above the file. The same module has
  `NothingVanishes` of `PrContributors`: for any candidates and failures, who matters is
  credited or has an event.
  Its last part is about slices, for any length of session and any branches
  (`SlicedWell`). A call adds its events behind those there are (`FlattenAppend`, by
  induction along the transcript), so events are in the order of their turns
  (`InOrder`) and a commit that was shown has its event (`Traced`). As a slice is drawn
  around the branch's own events, `OwnCommitsAreSliced` follows; as it starts after the
  last foreign one before them, so does `SequentialBranchesAreDisjoint`. `LineageIsReal`
  needs `Lineage`: an amend that nothing separates from the commit printed before it
  replaced the tip, and the tip was that commit. It assumes one worktree
  (`OneWorktree`), as the run does: with two the code is wrong (section 6).
  `SegmentsTile` needs that a turn shows only what was made in it (`Booked`) and that
  an amend replaces the latest commit of its branch (`Stacked`); then the
  turns that end a row are in the order of the branch (`FreshOrder`), and the k-th row
  ends at the k-th of them (`NthIs`).
- `PrCommandProofs`: `NoDeadLinks`, `ZeroIsTrue`, both at once (`OutcomeIsTrue`),
  `HintsAreTrue`, and `PublishesOnBoard`. The invariant ties a run's `link`,
  `artifact` and `target` together by its place in the command, and says that what
  landed is served or was replaced, so that no board entry ever becomes empty.
- `TelemetryStateProofs`: `IdentityKept` and `ReportedOnce`. An install id
  settles once it is on disk and in every copy in memory; whatever is written is one of
  these copies, and each later copy is read from that file. The second assumes nothing of the notes' order but
  `~overlapped`; its invariant says that only one process has an open note (`OneByOne`)
  and that the history of reports, the file and the copy in memory tell the same
  milestones, hours and counts, or differ by the note that has landed and is not
  reported yet (`Following`).
- `SharedProofs`, one part per component:
  - `SummaryCache`: `ListingsAreFresh`, `ListingsAreComplete`, and both at once
    (`ListingIsRight`). The invariant says of every cache entry, in a file or in a
    process, that the version it summarises is at least the version of its stamp;
    serving an entry of the present stamp then never serves an older text.
  - `Command`: `OnlyTheToldIsSent`. A run that may send has passed the notice, so
    `printed` holds (`Told`), and its queue has no verdict until it returns or throws,
    which adds the only one (`Judged`).
  - `Statusline`: `EtaSound`. Every reading in the file, in a poll or on a bar is one
    that the account really had, with its window's time. `RightSession`: a session that
    is eligible since the poll began is either still to be tried, or older than all
    that are and preceded by too many others (`Tries`). Underneath, a normalized path
    is a path (`NormalizedPath`, by induction along the path) and the prefix test of
    `cwdMatchesForAttribution` says what `Belongs` says with quantifiers
    (`Attributed`).
  - `Backfill`: `NeverClobbers`. A manifest in the directory is a run's own, as the user
    only puts files of theirs (`MarkedIsOurs`), so that a run which passed `Look`, and
    after whose look the user changed nothing, writes where no file is theirs, or beside
    a manifest of `ours` (`Accepted`). `FinishedMeansIndexed`:
    a run that nothing has disturbed has written, in order, a whole receipt for each
    entry before its cursor that loaded (`Underway`, `Undisturbed`), and the index of
    the last one that finished is still that one's (`Manifest`).
  - `HookSettings`: `NothingOfTheirsIsLost`. For the backup: as long as nobody else
    saves, it is what the first write replaced (`HookInv`). For the settings: what a run
    is about to write differs from what it read in our command alone (`SurgicalInv`).
    That removal is surgical is shown for entries of any number and length, by induction
    along the list: dropping the entries that become empty drops nothing of theirs
    (`RebuiltRest`).
- `CostsProofs`: `EvidenceIsTheLast` and `LedgerNeverOverstates`, for transcripts of any
  length, any times, and any number of rows. Something is said of the checks only where
  each began after the one before it had ended; by induction any earlier one ended before
  any later one began (`OneAfterAnother`), so the last recorded is the last in time. In a
  ledger the floors of the rows may sum to more than the floor of the raw figure, and
  the rows give the excess back in the order of their size. What they give is exactly the
  excess, as it is at most the sum of all rows (`TakenTogether`). A row that the finest
  precision shows survives because with `raw` not below the sum there is no excess
  (`SumOfFloors`). The module first proves what the prover lacks: that sums over finite
  sets exist, do not depend on the order, and grow by one summand at a time
  (`SumsAnother`). `CostsAssumption` says that times are numbers and that the agents of
  the view record turns of its alphabet; `ReceiptModelAssumption`, that precisions are
  listed in ascending order. The unit of a precision is a recursive function, because no
  prover here knows what a power is (`UnitIsPositive`).

The library's induction theorems take an operator as a parameter, which no prover here
can instantiate; but a set of numbers that has 0 and is closed under the next one has all of
them (`AllOf`, from the well-foundedness of `<`), and from this follow, for sets
instead of predicates, induction along a sequence (`AllSequences`) and the existence
of a recursive function (`Iterated`). The filters and `normalizeCwd` are treated so.

`RunsLandOnce`, `EveryPublishKeepsOthers`, `NoDeadLinks`, `ZeroIsTrue`,
`BackupIsTheOriginal` and the type invariants are proved and not among the runs.

Only model-checked:

- liveness: `EveryRunEnds` (no fairness in the prover);
- what the adapters, the prices and the detectors compute (`transcripts`, and of `costs`
  `FloorHolds`, `SharesAddUp`, `ComparisonsAreExact`, `WasteIsSpent`, `WeekCountsOnce`):
  folds over records whose invariant ties together all that was recorded so far;
  `SharesAddUp` holds only for calls among which a turn's amount divides evenly, since
  the models count in whole units;
- `ReadLikeTheShell`, whose module declares a RECURSIVE operator.

## 6. Where the code and its documents differ

Three runs end with a counterexample.

- `receipt_live`: `pr/index.ts:545` reads the descendants of credited children
  once, and the rollups read the disk again later; a subagent that starts in
  between under a credited child is counted in its parent's and its
  grandparent's rollup. `promote.ts:7` and `rollup.ts:84` say it never is.
- `contributors_message`: of a call with a quiet commit and a push only the first
  write's output is read, so another session may be credited by message for a commit
  that this one printed. `contributors.ts:191` says any write verb claims.
- `telemetry_exit`: the request and its timer are raced and neither is ended, and
  `cli.ts` only sets an exit code; a slow request keeps the process, and a quick one
  leaves the timer, so that every command that sends lasts 300 ms.
  `sender.ts:67-70` and `docs/telemetry.md:372` say that nothing keeps it alive.

The models allow the following too; the properties are worded so that they say what
holds beside them, and no run is spent on them.

Sharing:

- Two upserts that list before either posts leave two receipt comments
  (`comment.ts:3`, "one receipt comment per PR"): `DuplicatesNeedARace`.
- `feat/x` and `feat-x` share a slug, so a ref, so a comment (`payloadTypes.ts:31`):
  `OwnSlug` in `FreshAfterPush`; the run has one slug per branch.
- CI posts an older ref over a newer `pr --post` comment (`comment.ts:4`, "always
  current"): `FreshAfterPush` speaks of the ref only.
- The remote takes whatever a writer forces on it (`store.ts:131-134`), and there is no
  lock: a second hook, another agent's, or a run by hand that rendered earlier and
  pushes between a hook's push and the fetch of its check puts an older receipt back,
  and another clone puts one that accounts for its own sessions only. `FreshAfterPush`
  speaks of hooks that were `alone` in their clone, and of receipts of that clone.
- A comment list that cannot be read counts as no comment (`commentApi.ts:126`), and a
  request that throws, as on a network error, ends the check with exit code 1: a strict
  check goes red although the receipt is there, where `docs/pr-receipts.md:353-356`
  promises that it never does so on a transient write. `NoFalseAlarm` has the first as
  its exemption and is not about the second, whose verdict is "error".
- Between reading garbage and renaming it, or reading an old file and replacing it,
  another command may have repaired it or a newer CLI may have written it
  (`state.ts:119`, `state.ts:148`): `IdentityKept` starts from `Settled`.
- What is written after the consent prompt was computed before it; a save of the
  settings meanwhile is lost (`install.ts:92`): `NothingOfTheirsIsLost` speaks of
  what the run has read.
- A backfill that is killed before `index.txt` makes the next one refuse the directory
  (as documented); a second run renumbers and leaves the first one's files; a run killed
  within a file leaves the old index naming a torn one.
- A directory with a manifest is taken for a backfill's as a whole (`backfill.ts:141`,
  SPEC-0056 R4): a file of the user's there, or a receipt they have edited, whose name the
  next run plans to write is overwritten (`backfill.ts:179`), and so is one created between
  the check and the write, by such a name or as `index.txt`. `NeverClobbers` says that
  nothing else is lost.
- The time base of an ETA may be wrong when hosts hand over old payloads: `EtaSound`
  speaks of the rise, not of the rate. After falling back to the disk the `context`
  segment is still the payload's, although `statuslineSegments.ts` says that a stale
  payload must never sit beside another session's numbers.

Evidence:

- An amend in another worktree is taken for one of the commit printed before it
  (`slice.ts:197`): `PrSlice` is instantiated with one worktree.
- The quiet commit and push of one call hide a claim from the diff guard as well
  (`messageAnchor.ts:91`): the candidates of `evidence` have no call with two writes.
- `git push --repo=origin upstream`: the hook follows `--repo`, git the argument
  (`NoRepo`). What counts as a git write knows neither redirections nor
  here-documents, and a here-document in a quoted script is read as commands
  (`Plain`). A change of directory in parentheses or by `command cd` is not seen.
  `&&` and `||` are taken to go on. `git push origin other-branch`, and a tag pushed by
  its bare name, attach a receipt, where a comment says that only pushes of the current
  branch do. These words are left out of the run, or exempt where named.

Adapters:

- Codex: the first snapshot of a resumed rollout is taken at its word (`codex.ts:413`),
  a stale one is not modelled; where the witness is missing the parent's tokens are
  counted as unattributed, and told. A counter that starts over and reaches the last
  value again looks like a repeat (`truth.silent`).
- Claude Code: records without an id keep one usage, so an agent that repeats them is
  counted low. Gemini: a message without a model is priced as the session's first.
- Gemini's garbled token counts, checkpoint entries and messages without an id (the
  last not modelled), and everything that goes wrong in Cursor's rows, are kept as
  shapes for the telemetry only: the receipt shows less and does not say so
  (`gemini.ts:435`, `cursor.ts:295`; tests pin it, `parse-failure-shapes.test.ts:236`,
  `258`, `374`). A Cursor row whose token count is one number has no tokens, and is not
  even flagged (`cursor.ts:141`). `GapsAreTold` exempts exactly these (`truth.unsaid`,
  `truth.silent`); a torn line of Gemini's must be told on the receipt.
- opencode reads its tables without a transaction and keeps `turnCount` from the older
  row; Cursor likewise. `Moments` allows any moment of the reading.
- What a source may forget by its design is `MayForget`: an upgrade of Codex within a
  rollout, a fork, a rewind, rows that were reverted or torn.

Dollars:

- `netCache.ts` looks reuse up under today's name of a model, whatever window its
  alias has. The comment on `ContextPriceTier` in `types.ts` says that an omitted rate
  falls back to the base one; the code lets it contribute nothing, which is a floor too.
- Conflicting or excluded aggregate usage does not lower a receipt's coverage from "full",
  and the digest and the budgets may call a session full whose receipt is partial;
  a price difference is shown also where writes or dropped records are unknown.
  `FloorHolds` says what "full" is worth: the recorded requests, exactly (`RecordedUsd`).
- `ComparisonsAreExact` covers the cache saving, the cheapest model's price and the
  share before the first edit. The reads at the input rate are shown beside a partial
  total too, as a lower bound (`present.ts:453`), and the re-priced short replies are
  arithmetic on some turns (`waste.ts:270`): no property is about these two.
- A turn with one usage for several requests is taken for one request when a tier is
  chosen; the vendor's bill in `costs` takes it so too.
- The rounding step that preserves tiny amounts may lose one at its last precision.
- A session that ends at or after `now` is outside the weekly window and inside the
  daily one; budgets count empty sessions, which the digest ignores.
- `computeBudgetSum` lists again for every period; one listing is modelled.

## 7. Not modelled

Renderers (SVG, PNG, CSV, markdown, blocks), the sanitizer of shared text, colour and
wording, argument tables, file discovery, titles, JSON shapes and their validation, the
setup report, price data and its file format, the site and the scripts: they are pure
formatting or checks of strings, keep no state, and no property here is about them.
Benchmark contribution sends nothing in this version. `pr/select.ts` enters as the place
of a candidate. In the ledger, dollars are binary fractions of a fixed precision; elsewhere
they are whole numbers of a small unit, fine enough for every even division in the runs.
Characters do not occur: words, paths' segments and models are atomic, and an option's
letters or a refspec's sides are constants. Patch-ids and abbreviations are constants.
Reasoning tokens are part of the output. Disk-full and permission errors appear as "the
call fails", and power loss between a write and its rename only as the death of the
process.

Three hazards are listed without a property, each with its reason: they are
documented losses (`pr-check.ts:187`, `state.ts:148`, `install.ts:92`) that the models
show and nothing in the code is meant to prevent.
