-------------------------------- MODULE MCEvidence --------------------------------
(* What the evidence of git writes decides: which sessions are credited     *)
(* (PrContributors), and which turns of one session (PrSlice: up to five    *)
(* turns and four commits, in one worktree, on two branches); and how the   *)
(* command lines it rests on are read (PushCommand).                        *)
EXTENDS PrContributors, PrSlice, PushCommand, TLC

VARIABLE part

(* A branch of two commits, b1 and b2; o1 and o2 are orphans with the diff *)
(* of b1, f is on no branch and ab abbreviates both b1 and b2.  1 to 4 are *)
(* the commits of PrSlice.                                                 *)
CONSTANTS s1, s2, s3, b1, b2, o1, o2, f, ab, m1, m2, p1, p2

MCNames == b1 :> {b1} @@ b2 :> {b2} @@ o1 :> {o1} @@ o2 :> {o2} @@ f :> {f} @@ ab :> {b1, b2}
           @@ [s \in 1..4 |-> {s}]
MCSubjectOf == b1 :> m1 @@ b2 :> m2
MCPatchId == b1 :> p1 @@ b2 :> p2 @@ o1 :> p1 @@ o2 :> p1 @@ f :> None @@ ab :> None
Symmetry == Permutations(Sessions)

Call(turn, invs, commits, pushes) ==
    [turn |-> turn, invs |-> invs, commits |-> commits, pushes |-> pushes]
CommitInv(amend, subject) == [verb |-> "commit", amend |-> amend, subject |-> subject]
PushInv == [verb |-> "push", amend |-> FALSE, subject |-> None]
OtherInv == [verb |-> "other", amend |-> FALSE, subject |-> None]

Quiet == <<Call(0, <<CommitInv(FALSE, m1)>>, <<>>, {})>>
Idle == <<Call(0, <<OtherInv>>, <<>>, {})>>
One(run, subject) == <<Call(0, <<CommitInv(FALSE, subject)>>, <<run>>, {})>>
Scripts ==
    {Idle, Quiet, One(b1, m1), One(o1, m1), One(o2, m2), One(f, m1), One(ab, m1),
     <<Call(0, <<PushInv>>, <<>>, {b1})>>,
     <<Call(0, <<CommitInv(FALSE, m1)>>, <<>>, {}), Call(1, <<CommitInv(FALSE, m2)>>, <<>>, {})>>,
     <<Call(0, <<CommitInv(FALSE, m1)>>, <<o1>>, {}), Call(1, <<CommitInv(TRUE, None)>>, <<b1>>, {})>>}

(* One call with two writes: only the first one's output claims a commit. *)
QuietThenPush == <<Call(0, <<CommitInv(FALSE, m1), PushInv>>, <<>>, {b1})>>
PushThenCommit == <<Call(0, <<PushInv, CommitInv(FALSE, m1)>>, <<b1>>, {})>>

At(place, codex, degraded, script) ==
    [place |-> place, codex |-> codex, degraded |-> degraded, transcript |-> script]
Simple ==
    {At(place, FALSE, FALSE, script) : place \in Places, script \in Scripts}
    \cup {At(place, TRUE, FALSE, script) : place \in Places, script \in {Idle, One(f, m1)}}
    \cup {At(place, FALSE, TRUE, Idle) : place \in {"here", "sibling"}}
Compound ==
    {At("here", FALSE, FALSE, script) :
        script \in {Quiet, One(o1, m1), One(b1, m1), QuietThenPush, PushThenCommit}}

-----------------------------------------------------------------------------
MCFirstBranch == [w \in Worktrees |-> "feat"]

Side(src, dst) == [src |-> src, dst |-> dst]
MCWords ==
    {"git", "push", "cd", ";", "newline", "A=1", ">", ">out", "origin", "upstream", "feat",
     "tag", "+feat", ":feat", "HEAD:refs/heads/feat", "refs/tags/v1", "refs/aireceipts/feat",
     "-n", "-C", "-uo", "--repo", "--repo=origin", "--repo=upstream", "--", "--tags", "--all",
     "--push-option", "--bogus", "<<"}
MCOpenings ==
    {<<"git", "push">>, <<"git", "-C">>, <<"git", "-c", "k=v", "push">>,
     <<"cat", "<<", "EOF", "newline">>, <<"A=1", "cd", "dir", ";">>,
     <<"codex", "exec", "'git push'">>, <<"bash", "-lc", "'git push'">>,
     <<"bash", "-c", "'cd dir; git push'">>, <<"git", "--git-dir=x", "push">>}
MCFlags ==
    "-n" :> <<"n">> @@ "-C" :> <<"C">> @@ "-c" :> <<"c">> @@ "-lc" :> <<"l", "c">>
    @@ "-uo" :> <<"u", "o">>
MCRepoIs == "--repo=origin" :> "origin" @@ "--repo=upstream" :> "upstream"
MCLong == {"--", "--repo", "--tags", "--all", "--push-option", "--bogus", "--git-dir=x"}
MCRefspec ==
    "+feat" :> Side("feat", "") @@ ":feat" :> Side("", "feat")
    @@ "HEAD:refs/heads/feat" :> Side("HEAD", "refs/heads/feat")
    @@ "refs/tags/v1" :> Side("refs/tags/v1", "")
MCQuoted == "'git push'" :> <<"git", "push">> @@ "'cd dir; git push'" :> <<"cd", "dir", ";", "git", "push">>

-----------------------------------------------------------------------------
(* One of the three at a time; the others stay as they were.               *)
MCInit ==
    /\ part \in {"contributors", "slice", "line"}
    /\ SelectionInit
    /\ part # "contributors" => candidate = [s \in Sessions |-> At("here", FALSE, FALSE, Idle)]
    /\ SliceInit
    /\ LineInit /\ (part # "line" => line = <<"git", "push">>)

MCNext ==
    /\ UNCHANGED part
    /\ \/ part = "contributors" /\ SelectionNext /\ UNCHANGED <<sliceVars, line>>
       \/ part = "slice" /\ SliceNext /\ UNCHANGED <<selectionVars, line>>
       \/ part = "line" /\ LineNext /\ UNCHANGED <<selectionVars, sliceVars>>

MCSpec == MCInit /\ [][MCNext]_<<part, selectionVars, sliceVars, line>>
================================================================================
