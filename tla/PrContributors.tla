------------------------------ MODULE PrContributors ------------------------------
(***************************************************************************)
(* Which sessions a pull request's receipt credits: selectContributors     *)
(* (src/pr/contributors.ts).  Candidates are loaded one by one and may     *)
(* fail to load; when all have been tried, everything is decided at once   *)
(* from what their transcripts prove (GitEvidence): a branch commit that   *)
(* they printed, an orphaned commit with the same diff as one, or, for     *)
(* sessions of this worktree, the subject they committed with or having    *)
(* done no git write at all.                                               *)
(***************************************************************************)
EXTENDS GitEvidence

CONSTANTS
    Sessions,    \* the candidates
    Candidate,   \* what a candidate can be: place, source and transcript
    Branch,      \* the commits of the branch
    SubjectOf,   \* the subject of each of them
    TooShort,    \* subjects shorter than MSG_MIN
    PatchId,     \* stable patch-id by commit or hex run, None if git has none
    MayFail      \* may a candidate fail to load?

Places == {"here", "sibling", "anchor"}

ASSUME PrContributorsAssumption ==
    /\ MayFail \in BOOLEAN
    /\ \A c \in Candidate :
          /\ c.place \in Places /\ c.codex \in BOOLEAN /\ c.degraded \in BOOLEAN
          /\ c.degraded => c.place # "anchor"

VARIABLES
    candidate,    \* the facts of each session
    loaded,       \* the sessions whose transcript was read
    failed,       \* those that could not be read
    credited,     \* what the receipt counts: session, basis, kind of slice
    events,       \* the ConfidenceEvents
    done

selectionVars == <<candidate, loaded, failed, credited, events, done>>

SelectionInit ==
    /\ candidate \in [Sessions -> Candidate]
    /\ loaded = {} /\ failed = {}
    /\ credited = {} /\ events = {}
    /\ done = FALSE

(* Pass 1; a transcript that discovery could not parse does not load. *)
Load(s) ==
    /\ s \notin loaded \cup failed
    /\ \/ ~candidate[s].degraded /\ loaded' = loaded \cup {s} /\ UNCHANGED failed
       \/ /\ candidate[s].degraded \/ MayFail
          /\ failed' = failed \cup {s} /\ UNCHANGED loaded
    /\ UNCHANGED <<candidate, credited, events, done>>

-----------------------------------------------------------------------------
Script(s) == candidate[s].transcript
Here(s) == candidate[s].place = "here"

(* recoverBranchAnchors: an orphan's diff names one branch commit, and is  *)
(* no other orphan's.                                                      *)
SameDiff(orphan) == {b \in Branch : PatchId[b] # None /\ PatchId[b] = PatchId[orphan]}
OrphanCandidates == UNION {{<<s, o>> : o \in OrphanShas(Script(s), Branch)} : s \in loaded}
Recoverable(orphan) ==
    /\ Cardinality(SameDiff(orphan)) = 1
    /\ Cardinality({c \in OrphanCandidates : PatchId[c[2]] = PatchId[orphan]}) = 1

(* The authorship guard: nobody else directly claims the commit. *)
MayRecover(s, sha) ==
    \A t \in loaded \ {s} : sha \notin ClaimedShas(Script(t), Branch)

(* aliasesByLoaded, recoveredByLoaded *)
Aliases(s) ==
    [o \in {o \in OrphanShas(Script(s), Branch) :
              Recoverable(o) /\ \A b \in SameDiff(o) : MayRecover(s, b)}
        |-> CHOOSE b \in SameDiff(o) : TRUE]
RecoveredShas(s) == {Aliases(s)[o] : o \in DOMAIN Aliases(s)}

ClaimedBySomeone ==
    UNION {ClaimedShas(Script(s), Branch) \cup RecoveredShas(s) : s \in loaded}

(* eligibleSubjects *)
EligibleSubjects ==
    {SubjectOf[b] : b \in {c \in Branch \ ClaimedBySomeone :
        /\ SubjectOf[c] \notin TooShort
        /\ \A other \in Branch \ {c} : SubjectOf[other] # SubjectOf[c]}}

OwnEvidence(s) == HasOwn(Script(s), Branch) \/ RecoveredShas(s) # {}
Helper(s) == candidate[s].codex /\ ~WritesGit(Script(s)) /\ Here(s)

(* Claims are counted before a claimant is disqualified. *)
MatchedSubjects(s) ==
    IF Here(s) /\ ~OwnEvidence(s) /\ ~Helper(s)
      THEN CommitSubjects(Script(s)) \cap EligibleSubjects
      ELSE {}
MessageCredited(s) ==
    /\ Cardinality(MatchedSubjects(s)) = 1
    /\ \A t \in loaded \ {s} : MatchedSubjects(s) \cap MatchedSubjects(t) = {}
    /\ ~HasForeignShaWrites(Script(s), Branch)

SliceFor(s) == Slice(Script(s), Branch, Aliases(s))

TooUncertain(s) == candidate[s].place = "anchor" /\ SliceFor(s) = FullSlice

Credit(s, basis) == [session |-> s, basis |-> basis, slice |-> SliceFor(s).kind]
Event(s, kind) == [session |-> s, kind |-> kind]

(* Mutation: a load failure outside this worktree is not ours to report. *)
FailureEvent_HereOnly(s) ==
    IF Here(s) THEN {Event(s, "silenced-git-write")} ELSE {}

FailureEvent(s) ==
    {Event(s, IF Here(s) /\ ~candidate[s].degraded
                THEN "silenced-git-write" ELSE "unreadable-session")}

(* Pass 2. *)
Credits ==
    {Credit(s, IF OwnEvidence(s) THEN "anchor" ELSE "helper") :
        s \in {t \in loaded : (OwnEvidence(t) \/ Helper(t)) /\ ~TooUncertain(t)}}
    \cup {Credit(s, "message") : s \in {t \in loaded :
        ~OwnEvidence(t) /\ ~Helper(t) /\ MessageCredited(t)}}

Drops ==
    (UNION {FailureEvent(s) : s \in failed})
    \cup {Event(s, "unattributable-anchor-pool") :
            s \in {t \in loaded : OwnEvidence(t) /\ TooUncertain(t)}}
    \cup {Event(s, IF WritesGit(Script(s)) THEN "unanchored-git-write" ELSE "silenced-git-write") :
            s \in {t \in loaded : Here(t) /\ ~OwnEvidence(t) /\ ~Helper(t) /\ ~MessageCredited(t)}}

Decide ==
    /\ ~done
    /\ loaded \cup failed = Sessions
    /\ credited' = Credits
    /\ events' = Drops
    /\ done' = TRUE
    /\ UNCHANGED <<candidate, loaded, failed>>

SelectionNext == Decide \/ \E s \in Sessions : Load(s)

SelectionSpec == SelectionInit /\ [][SelectionNext]_selectionVars

-----------------------------------------------------------------------------
CreditedSessions == {c.session : c \in credited}
Surfaced == {e.session : e \in events}

(* What a transcript shows beyond doubt: the commit of a line that belongs *)
(* to one invocation of its call.                                          *)
ProvedShas(s) ==
    UNION {UNION {UNION {BranchSha(r, Branch, NoAliases) : r \in RunsOf(call, i)} :
             i \in DOMAIN call.invs} : call \in ToSet(Script(s))}

(* SPEC-0044 (confidence.ts:1-5): a candidate that could not be read, that *)
(* ran in this worktree, or that printed a commit of the branch, is either *)
(* counted or its absence is an event, never both and never neither.       *)
NothingVanishes ==
    done => \A s \in Sessions :
        /\ s \in failed \/ Here(s) \/ ProvedShas(s) # {} => s \in CreditedSessions \cup Surfaced
        /\ s \notin CreditedSessions \cap Surfaced

(* SPEC-0032 R3, R4: a commit message credits one session, for a commit    *)
(* that no session printed.                                                *)
MessageCreditIsUnclaimed ==
    \A c \in credited : c.basis = "message" =>
        \E sha \in Branch :
            /\ SubjectOf[sha] \in CommitSubjects(Script(c.session))
            /\ \A t \in loaded : sha \notin ProvedShas(t)
            /\ \A d \in credited \ {c} :
                  d.basis = "message" => SubjectOf[sha] \notin CommitSubjects(Script(d.session))
================================================================================
