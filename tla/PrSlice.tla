--------------------------------- MODULE PrSlice ---------------------------------
(***************************************************************************)
(* One agent session that commits, amends, pushes and switches branches in *)
(* one or more worktrees, and the slice of it that each branch's receipt   *)
(* is computed from (computeSlice, src/pr/slice.ts).  The transcript shows *)
(* what git printed; `log`, `madeAt`, `preimages` and `diffs` are what git *)
(* did, so that the two can be compared.  Moving between worktrees (`cd`,  *)
(* `git -C`) leaves no trace that the slicer reads.                        *)
(***************************************************************************)
EXTENDS PerCommit

CONSTANTS
    Worktrees,
    Branches,
    FirstBranch, \* the branch each worktree starts on
    MaxCommits,  \* bound: commits the session makes, amends included
    MaxTurns     \* bound: turns of the session

ASSUME PrSliceAssumption ==
    /\ MaxCommits \in Nat /\ MaxTurns \in Nat
    /\ FirstBranch \in [Worktrees -> Branches]
    /\ \A v, w \in Worktrees : FirstBranch[v] = FirstBranch[w] => v = w
    /\ \A s \in 1..MaxCommits : Names[s] = {s}

VARIABLES
    transcript, \* the session so far, one shell call a turn
    head,       \* the branch checked out in each worktree
    log,        \* the session's commits on each branch, oldest first
    madeAt,     \* the turn in which each commit was made, by commit
    preimages,  \* the commits each commit replaced by amending
    diffs       \* the first commit with the same change, by commit

sliceVars == <<transcript, head, log, madeAt, preimages, diffs>>

Commits == 1..MaxCommits

SliceInit ==
    /\ transcript = <<>>
    /\ head = FirstBranch
    /\ log = [b \in Branches |-> <<>>]
    /\ madeAt = <<>>
    /\ preimages = <<>>
    /\ diffs = <<>>

-----------------------------------------------------------------------------
(* One call a turn. *)
Say(invs, commits, pushes) ==
    /\ Len(transcript) < MaxTurns
    /\ transcript' = Append(transcript,
          [turn |-> Len(transcript), invs |-> invs, commits |-> commits, pushes |-> pushes])

Inv(verb, amend) == [verb |-> verb, amend |-> amend, subject |-> None]
NextCommit == Len(madeAt) + 1

(* git commit, git commit --amend, and an amend of nothing but the message. *)
Advance(b, how) ==
    LET new == NextCommit
        old == Last(log[b])
    IN /\ new <= MaxCommits
       /\ madeAt' = Append(madeAt, Len(transcript))
       /\ IF how = "new"
            THEN /\ log' = [log EXCEPT ![b] = Append(@, new)]
                 /\ preimages' = Append(preimages, {})
            ELSE /\ log[b] # <<>>
                 /\ log' = [log EXCEPT ![b] = Append(Front(@), new)]
                 /\ preimages' = Append(preimages, {old} \cup preimages[old])
       /\ diffs' = Append(diffs, IF how = "reword" THEN diffs[old] ELSE new)

(* A quiet commit prints no `[ref sha]` line. *)
Commit(w) ==
    \E how \in {"new", "amend", "reword"}, quiet \in BOOLEAN :
        /\ Advance(head[w], how)
        /\ Say(<<Inv("commit", how # "new")>>, IF quiet THEN <<>> ELSE <<NextCommit>>, {})
        /\ UNCHANGED head

CommitAndPush(w) ==
    \E quiet \in BOOLEAN :
        /\ Advance(head[w], "new")
        /\ Say(<<Inv("commit", FALSE), Inv("push", FALSE)>>,
               IF quiet THEN <<>> ELSE <<NextCommit>>, {NextCommit})
        /\ UNCHANGED head

(* Two commits on one branch or on two, in one call. *)
AdvanceTwice(a, b) ==
    LET one == NextCommit
    IN /\ one + 1 <= MaxCommits
       /\ log' = IF a = b THEN [log EXCEPT ![a] = @ \o <<one, one + 1>>]
                 ELSE [log EXCEPT ![a] = Append(@, one), ![b] = Append(@, one + 1)]
       /\ madeAt' = madeAt \o <<Len(transcript), Len(transcript)>>
       /\ preimages' = preimages \o <<{}, {}>>
       /\ diffs' = diffs \o <<one, one + 1>>

(* Only the first of the two or both are printed. *)
CommitTwice(w) ==
    /\ AdvanceTwice(head[w], head[w])
    /\ \E printed \in {<<NextCommit>>, <<NextCommit, NextCommit + 1>>} :
          Say(<<Inv("commit", FALSE), Inv("commit", FALSE)>>, printed, {})
    /\ UNCHANGED head

(* git commit && git switch b && git commit, in one call. *)
CommitOnTwo(w, b) ==
    /\ \A v \in Worktrees : head[v] # b
    /\ AdvanceTwice(head[w], b)
    /\ Say(<<Inv("commit", FALSE), Inv("barrier", FALSE), Inv("commit", FALSE)>>,
           <<NextCommit, NextCommit + 1>>, {})
    /\ head' = [head EXCEPT ![w] = b]

Push(w) ==
    /\ log[head[w]] # <<>>
    /\ Say(<<Inv("push", FALSE)>>, <<>>, {Last(log[head[w]])})
    /\ UNCHANGED <<head, log, madeAt, preimages, diffs>>

(* A branch is checked out in one worktree at a time. *)
Switch(w) ==
    /\ \E b \in Branches :
          /\ \A v \in Worktrees : head[v] # b
          /\ head' = [head EXCEPT ![w] = b]
    /\ Say(<<Inv("barrier", FALSE)>>, <<>>, {})
    /\ UNCHANGED <<log, madeAt, preimages, diffs>>

(* Anything that is not a git write. *)
OtherCall ==
    /\ Say(<<Inv("other", FALSE)>>, <<>>, {})
    /\ UNCHANGED <<head, log, madeAt, preimages, diffs>>

SliceNext ==
    \/ OtherCall
    \/ \E w \in Worktrees :
          Commit(w) \/ CommitAndPush(w) \/ CommitTwice(w) \/ Push(w) \/ Switch(w)
    \/ \E w \in Worktrees, b \in Branches : CommitOnTwo(w, b)

SliceSpec == SliceInit /\ [][SliceNext]_sliceVars

-----------------------------------------------------------------------------
(* recoverBranchAnchors: a printed commit that is no longer there stands for *)
(* the one commit of the branch with the same change.                        *)
AliasesOf(b) ==
    LET branch == ToSet(log[b])
        orphans == OrphanShas(transcript, branch)
        heirs(o) == {s \in branch : diffs[s] = diffs[o]}
    IN [o \in {o \in orphans :
                 /\ heirs(o) # {}
                 /\ \A p \in orphans \ {o} : diffs[p] # diffs[o]}
          |-> CHOOSE s \in heirs(o) : TRUE]

SliceOf(b) == Slice(transcript, ToSet(log[b]), AliasesOf(b))
OwnOf(b) ==
    LET events == Events(transcript)
    IN {events[k] : k \in OwnAnchors(events, ToSet(log[b]), AliasesOf(b))}
TurnsOf(slice) == slice.start..slice.end
OwnTurns(b) == {e.turn : e \in OwnOf(b)}

SegmentsOf(b) == SegmentSlice(SliceOf(b), transcript, log[b], AliasesOf(b))
ShasOf(segment) == {segment.sha} \cup segment.extra

(* The commits that their call printed, call and line pairing up. *)
Shown(b) ==
    {s \in ToSet(log[b]) : \E c \in ToSet(transcript) :
        /\ s \in ToSet(c.commits)
        /\ Cardinality(WithVerb(c, "commit")) = Len(c.commits)}

(* A commit of the branch that was shown lies in the branch's slice,       *)
(* whatever was amended, pushed or committed elsewhere around it.          *)
OwnCommitsAreSliced ==
    \A b \in Branches : \A s \in Shown(b) :
        SliceOf(b).kind = "slice" /\ madeAt[s] \in TurnsOf(SliceOf(b))

(* slice.ts:210-217: a commit that is the branch's own without being on it *)
(* is one that a commit of the branch did replace.                         *)
LineageIsReal ==
    \A b \in Branches : \A e \in OwnOf(b) :
        e.verb = "commit" =>
            \E s \in e.runs : \E t \in ToSet(log[b]) : s = t \/ s \in preimages[t]

(* A session that finishes with one branch before it turns to the next is  *)
(* split between their receipts: no turn is counted for both.              *)
SequentialBranchesAreDisjoint ==
    \A a, b \in Branches :
        /\ a # b
        /\ SliceOf(a).kind = "slice" /\ SliceOf(b).kind = "slice"
        /\ \A i \in OwnTurns(a), j \in OwnTurns(b) : i < j
        => TurnsOf(SliceOf(a)) \cap TurnsOf(SliceOf(b)) = {}

(* perCommit.ts:4-5 "segments partition the slice completely": every turn  *)
(* of a slice is paid for once; every commit that was shown has one row,   *)
(* which ends where the commit or an earlier version of it was made, and   *)
(* the rows are in the order of the branch.                                *)
SegmentsTile ==
    \A b \in Branches :
        LET segments == SegmentsOf(b)
            turns(k) == segments[k].start..segments[k].end
            shas(k) == ShasOf(segments[k])
        IN SliceOf(b).kind = "slice" =>
             /\ \A t \in TurnsOf(SliceOf(b)) :
                   Cardinality({k \in DOMAIN segments : t \in turns(k)}) = 1
             /\ \A k \in DOMAIN segments : turns(k) \subseteq TurnsOf(SliceOf(b))
             /\ \A s \in Shown(b) :
                   \E k \in DOMAIN segments :
                      /\ s \in shas(k)
                      /\ \A j \in DOMAIN segments \ {k} : s \notin shas(j)
                      /\ k < Len(segments) =>
                            \E v \in {s} \cup preimages[s] : madeAt[v] = segments[k].end
             /\ \A k \in DOMAIN segments :
                   /\ \A s \in segments[k].extra : segments[k].sha < s
                   /\ \A j \in 1..(k - 1) : \A s \in shas(j), t \in shas(k) : s < t
================================================================================
