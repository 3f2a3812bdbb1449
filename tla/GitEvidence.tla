------------------------------- MODULE GitEvidence -------------------------------
(***************************************************************************)
(* What a transcript's shell calls prove about a branch: the operators of  *)
(* src/pr/slice.ts, src/pr/messageAnchor.ts and src/pr/anchorRecovery.ts.  *)
(*                                                                         *)
(* A transcript is the sequence of its shell calls.  A call has a `turn`,  *)
(* the invocations of its command line (`invs`, each with a verb, --amend  *)
(* and the first -m subject) and what its output confirms in git's own     *)
(* line grammar: `commits`, one hex run per `[ref sha]` line in order, and *)
(* `pushes`, the new tips of its update lines.  A hex run is an abbreviated *)
(* name: Names says of which commits it is a prefix.                       *)
(***************************************************************************)
EXTENDS Integers, Sequences, FiniteSets, SequencesExt

CONSTANTS
    Names,   \* hex run -> the full names it is a prefix of
    None

Writes == {"commit", "push"}
NoAliases == [r \in {} |-> None]
FullSlice == [kind |-> "full"]

-----------------------------------------------------------------------------
(* One call. *)

(* branchShaForRun, as a set of at most one commit. *)
BranchSha(run, branch, aliases) ==
    LET direct == Names[run] \cap branch
    IN IF direct # {}
         THEN IF Cardinality(direct) = 1 THEN direct ELSE {}
         ELSE {aliases[r] : r \in {run} \cap DOMAIN aliases} \cap branch

WithVerb(call, verb) == {i \in DOMAIN call.invs : call.invs[i].verb = verb}

(* writeRunsByInvocation: commits pair up with the printed lines when there *)
(* are as many; a push owns its lines when it is alone.                     *)
RunsOf(call, i) ==
    CASE /\ call.invs[i].verb = "commit"
         /\ Cardinality(WithVerb(call, "commit")) = Len(call.commits)
           -> {call.commits[Cardinality({j \in WithVerb(call, "commit") : j <= i})]}
      [] /\ call.invs[i].verb = "push"
         /\ Cardinality(WithVerb(call, "push")) = 1
           -> call.pushes
      [] OTHER -> {}

(* toolCallGitVerb: the first write of the call, and what its grammar reads. *)
CallVerb(call) ==
    LET writes == {i \in DOMAIN call.invs : call.invs[i].verb \in Writes}
    IN IF writes = {} THEN None ELSE call.invs[Min(writes)].verb

Printed(call) ==
    CASE CallVerb(call) = "commit" -> ToSet(call.commits)
      [] CallVerb(call) = "push" -> call.pushes
      [] OTHER -> {}

-----------------------------------------------------------------------------
(* The slice. *)

(* Every invocation of the transcript, in order. *)
Events(transcript) ==
    FlattenSeq([c \in DOMAIN transcript |->
        [i \in DOMAIN transcript[c].invs |->
            [turn |-> transcript[c].turn, verb |-> transcript[c].invs[i].verb,
             amend |-> transcript[c].invs[i].amend,
             runs |-> RunsOf(transcript[c], i)]]])

IsAnchor(e) == e.verb \in Writes /\ e.runs # {}
Direct(e, branch, aliases) ==
    \E r \in e.runs : BranchSha(r, branch, aliases) # {}

(* Mutation: whatever moved HEAD in between is not looked at. *)
AmendsPrevious_Blind(events, k) ==
    LET before == {j \in 1..(k - 1) : events[j].verb = "commit"}
    IN events[k].amend /\ before # {} /\ events[Max(before)].runs # {}

(* classifyAnchors' amendFrom: the amend replaces the commit just before   *)
(* it, if that printed its name and nothing visible moved HEAD since.      *)
AmendsPrevious(events, k) ==
    LET before == {j \in 1..(k - 1) : events[j].verb = "commit"}
        previous == Max(before)
    IN /\ events[k].amend
       /\ before # {}
       /\ events[previous].runs # {}
       /\ \A j \in (previous + 1)..(k - 1) : events[j].verb # "barrier"

(* applyAmendLineage: an anchor is the branch's own directly, or because   *)
(* every commit from it to an own one replaced the one before.             *)
OwnAnchors(events, branch, aliases) ==
    LET direct == {k \in DOMAIN events :
                     IsAnchor(events[k]) /\ Direct(events[k], branch, aliases)}
        replacedBy(k, j) ==
            /\ k < j /\ events[k].verb = "commit" /\ events[j].verb = "commit"
            /\ \A i \in (k + 1)..j :
                  events[i].verb = "commit" => AmendsPrevious(events, i)
    IN direct \cup {k \in DOMAIN events : \E j \in direct : replacedBy(k, j)}

(* Mutation: the turn of the foreign anchor itself is counted. *)
StartTurn_Inclusive(foreign, first) ==
    IF foreign = {} THEN 0 ELSE Max({e.turn : e \in foreign})

(* Turns start after the last foreign anchor, or with the first own one   *)
(* when both are in one turn.                                             *)
StartTurn(foreign, first) ==
    IF foreign = {} THEN 0
    ELSE Min({Max({e.turn : e \in foreign}) + 1, first.turn})

(* Mutation: the slice ends with the first anchor of the branch. *)
EndTurn_First(own) == Min({e.turn : e \in own})

EndTurn(own) == Max({e.turn : e \in own})

FirstOwn(own) == Min(own)

(* computeSlice. *)
Slice(transcript, branch, aliases) ==
    LET events == Events(transcript)
        own == OwnAnchors(events, branch, aliases)
        first == FirstOwn(own)
        foreign == {events[k] : k \in {j \in 1..(first - 1) : IsAnchor(events[j])}}
    IN IF \A k \in own : events[k].verb # "commit"
         THEN FullSlice
         ELSE [kind |-> "slice",
               start |-> StartTurn(foreign, events[first]),
               end |-> EndTurn({events[k] : k \in own})]

-----------------------------------------------------------------------------
(* The evidence of a whole transcript. *)

(* classifyBranchAnchors. *)
HasOwn(transcript, branch) ==
    \E call \in ToSet(transcript) : \E i \in DOMAIN call.invs :
        \E r \in RunsOf(call, i) : BranchSha(r, branch, NoAliases) # {}

WritesGit(transcript) == \E call \in ToSet(transcript) : CallVerb(call) # None

(* claimedBranchShas, hasForeignShaWrites, orphanCommitOutputShas,         *)
(* sessionCommitSubjects.                                                  *)
ClaimedShas(transcript, branch) ==
    {sha \in branch : \E call \in ToSet(transcript) : \E r \in Printed(call) :
        Names[r] \cap branch = {sha}}

HasForeignShaWrites(transcript, branch) ==
    \E call \in ToSet(transcript) : \E r \in Printed(call) :
        Names[r] \cap branch = {}

OrphanShas(transcript, branch) ==
    UNION {{r \in Printed(call) : Names[r] \cap branch = {}} :
             call \in {c \in ToSet(transcript) : CallVerb(c) = "commit"}}

CommitSubjects(transcript) ==
    (UNION {{call.invs[i].subject : i \in WithVerb(call, "commit")} :
             call \in ToSet(transcript)}) \ {None}
================================================================================
