-------------------------- MODULE ArtifactPublishProofs --------------------------
(***************************************************************************)
(* Proofs about ArtifactPublish, for any pull requests, runs and faults.   *)
(*                                                                         *)
(* The argument: every commit of the branch is its predecessor with its    *)
(* own entry upserted (Chained), because a commit that can be pushed was   *)
(* built on the tip it names as its parent (BuiltOnTip) and the server     *)
(* takes it only while that tip is current.  A run that is not past its    *)
(* push has not landed (NotLandedBeforePush), so the retry cannot land it  *)
(* twice; and a landed entry is replaced by later landings only            *)
(* (LatestServed).  Where nothing fails, a push is refused only because    *)
(* the branch has grown past the tip it was built on, so every attempt     *)
(* lost is a commit of another run (Losses).                               *)
(***************************************************************************)
EXTENDS ArtifactPublish, FiniteSetTheorems, TLAPS

BuiltOnTip ==
    \A r \in Requests :
        /\ pc[r] \in {"build", "push"} => tip[r] \in 0..TipNow
        /\ pc[r] = "push" =>
              commit[r] = [TreeAt(tip[r]) EXCEPT ![PrOf[r]] = r]

NotLandedBeforePush ==
    \A i \in 1..TipNow : pc[history[i].by] \in {"accepted", "done"}

ReportsAreTrue ==
    \A r \in Requests :
        /\ pc[r] = "accepted" \/ outcome[r] = "ok" => r \in Landed
        /\ outcome[r] = "pending" <=> pc[r] # "done"

LatestServed ==
    \A i \in 1..TipNow : \E j \in i..TipNow :
        history[j].by = Board[PrOf[history[i].by]]

IInv ==
    /\ TypeOK
    /\ BuiltOnTip
    /\ NotLandedBeforePush
    /\ ReportsAreTrue
    /\ LandsOnce
    /\ LatestServed

-----------------------------------------------------------------------------
LEMMA EmptyTreeIsTree == EmptyTree \in Trees
  BY DEF EmptyTree, Trees

(* Every tree of the branch has one entry per pull request. *)
LEMMA TreeAtType ==
  ASSUME TypeOK, NEW n \in 0..TipNow
  PROVE  TreeAt(n) \in Trees
  <1>1. CASE n = 0
    BY <1>1, EmptyTreeIsTree DEF TreeAt
  <1>2. CASE n # 0
    <2>1. n \in 1..Len(history)
      BY <1>2 DEF TipNow, TypeOK
    <2>2. history[n] \in Commits
      BY <2>1 DEF TypeOK
    <2>3. QED
      BY <1>2, <2>2 DEF TreeAt, Commits
  <1>3. QED
    BY <1>1, <1>2

(* Steps other than an accepted push leave the branch as it was. *)
LEMMA AppendFacts ==
  ASSUME TypeOK, NEW r \in Requests, PushAccepted(r)
  PROVE  /\ TipNow \in Nat
         /\ TipNow' = TipNow + 1
         /\ \A i \in 1..TipNow : history'[i] = history[i]
         /\ history'[TipNow + 1] = [by |-> r, tree |-> commit[r]]
         /\ Board' = commit[r]
         /\ Landed' = Landed \cup {r}
  <1>1. history \in Seq(Commits) /\ commit[r] \in Trees
    BY DEF TypeOK
  <1>2. [by |-> r, tree |-> commit[r]] \in Commits
    BY <1>1 DEF Commits
  <1>3. /\ TipNow \in Nat
        /\ TipNow' = TipNow + 1
        /\ \A i \in 1..TipNow : history'[i] = history[i]
        /\ history'[TipNow + 1] = [by |-> r, tree |-> commit[r]]
    BY <1>1, <1>2 DEF PushAccepted, TipNow
  <1>4. Board' = commit[r]
    BY <1>3 DEF Board, TreeAt
  <1>5. Landed' = Landed \cup {r}
    <2>1. 1..(TipNow + 1) = (1..TipNow) \cup {TipNow + 1}
      BY <1>3
    <2>2. QED
      BY <1>3, <2>1 DEF Landed
  <1>6. QED
    BY <1>3, <1>4, <1>5

-----------------------------------------------------------------------------
(* TypeOK is inductive, given that a run's tip is on the branch. *)
LEMMA TypeStep ==
  ASSUME TypeOK, BuiltOnTip, [Next]_vars
  PROVE  TypeOK'
  <1> USE PublishAssumption DEF TypeOK, fixed
  <1>1. CASE UNCHANGED vars
    BY <1>1 DEF vars, fixed
  <1>2. ASSUME NEW r \in Requests, Start(r) PROVE TypeOK'
    BY <1>2 DEF Start
  <1>3. ASSUME NEW r \in Requests, ReadTip(r) PROVE TypeOK'
    <2>1. RemoteTip \in Nat
      BY DEF RemoteTip, TipNow
    <2>2. QED
      BY <1>3, <2>1 DEF ReadTip
  <1>4. ASSUME NEW r \in Requests, GitFails(r) PROVE TypeOK'
    BY <1>4 DEF GitFails, Fail
  <1>5. ASSUME NEW r \in Requests, BuildCommit(r) PROVE TypeOK'
    <2>1. TreeAt(tip[r]) \in Trees
      BY <1>5, TreeAtType DEF BuildCommit, BuiltOnTip
    <2>2. [BaseEntries(r) EXCEPT ![PrOf[r]] = r] \in Trees
      BY <2>1 DEF BaseEntries, Trees
    <2>3. QED
      BY <1>5, <2>2 DEF BuildCommit
  <1>6. ASSUME NEW r \in Requests, PushAccepted(r) PROVE TypeOK'
    <2>1. [by |-> r, tree |-> commit[r]] \in Commits
      BY DEF Commits
    <2>2. QED
      BY <1>6, <2>1 DEF PushAccepted
  <1>7. ASSUME NEW r \in Requests, PushReturnsOk(r) PROVE TypeOK'
    BY <1>7 DEF PushReturnsOk
  <1>8. ASSUME NEW r \in Requests, PushRejected(r) PROVE TypeOK'
    <2>1. CASE MayRetry(r)
      <3>1. attempt' = [attempt EXCEPT ![r] = 1]
        BY <1>8, <2>1 DEF PushRejected, MayRetry
      <3>2. /\ pc' = [pc EXCEPT ![r] = "tip"]
            /\ UNCHANGED <<fixed, history, tip, commit, outcome>>
        BY <1>8, <2>1 DEF PushRejected
      <3>3. QED
        BY <3>1, <3>2
    <2>2. CASE ~MayRetry(r)
      BY <1>8, <2>2 DEF PushRejected, Fail
    <2>3. QED
      BY <2>1, <2>2
  <1>9. ASSUME NEW r \in Requests, PushFails(r) PROVE TypeOK'
    BY <1>9 DEF PushFails, Fail
  <1>10. ASSUME NEW r \in Requests, Crash(r) PROVE TypeOK'
    BY <1>10 DEF Crash
  <1>11. QED
    BY <1>1, <1>2, <1>3, <1>4, <1>5, <1>6, <1>7, <1>8, <1>9, <1>10 DEF Next, Step

LEMMA TypeInit == Init => TypeOK
  BY EmptyTreeIsTree DEF Init, TypeOK

-----------------------------------------------------------------------------
(* A step that does not push moves one run's control and nothing the       *)
(* branch serves.                                                          *)
QuietStep(r) ==
    \/ Start(r) \/ ReadTip(r) \/ GitFails(r) \/ BuildCommit(r)
    \/ PushReturnsOk(r) \/ PushRejected(r) \/ PushFails(r) \/ Crash(r)

LEMMA QuietKeepsBranch ==
  ASSUME NEW r \in Requests, QuietStep(r)
  PROVE  /\ history' = history /\ TipNow' = TipNow /\ Landed' = Landed
         /\ Board' = Board
         /\ \A n : TreeAt(n)' = TreeAt(n)
  <1>1. history' = history
    BY DEF QuietStep, Start, ReadTip, GitFails, BuildCommit, PushReturnsOk,
           PushRejected, PushFails, Crash
  <1>2. QED
    BY <1>1 DEF TipNow, Landed, Board, TreeAt, EmptyTree

LEMMA QuietKeepsBuilt ==
  ASSUME IInv, NEW r \in Requests, QuietStep(r)
  PROVE  BuiltOnTip'
  <1> USE DEF IInv, TypeOK
  <1>0. /\ TipNow' = TipNow /\ TipNow \in Nat
        /\ \A n : TreeAt(n)' = TreeAt(n)
    BY QuietKeepsBranch DEF TipNow
  <1> SUFFICES ASSUME NEW q \in Requests
               PROVE  /\ pc'[q] \in {"build", "push"} => tip'[q] \in 0..TipNow
                      /\ pc'[q] = "push" =>
                           commit'[q] = [TreeAt(tip'[q]) EXCEPT ![PrOf[q]] = q]
    BY <1>0 DEF BuiltOnTip
  <1>1. CASE q # r
    <2>1. pc'[q] = pc[q] /\ tip'[q] = tip[q] /\ commit'[q] = commit[q]
      BY <1>1 DEF QuietStep, Start, ReadTip, GitFails, BuildCommit,
           PushReturnsOk, PushRejected, PushFails, Crash, Fail
    <2>2. QED
      BY <2>1 DEF BuiltOnTip
  <1>2. CASE q = r
    <2>1. CASE ReadTip(r)
      <3>1. RemoteTip \in 0..TipNow
        BY <1>0 DEF RemoteTip
      <3>2. QED
        BY <2>1, <3>1, <1>2 DEF ReadTip
    <2>2. CASE BuildCommit(r)
      <3>1. /\ pc[r] = "build" /\ pc'[r] = "push" /\ tip'[r] = tip[r]
            /\ commit'[r] = [BaseEntries(r) EXCEPT ![PrOf[r]] = r]
        BY <2>2 DEF BuildCommit
      <3>2. tip[r] \in 0..TipNow
        BY <3>1 DEF BuiltOnTip
      <3>3. TreeAt(tip[r]) \in Trees
        BY <3>2, TreeAtType
      <3>4. [BaseEntries(r) EXCEPT ![PrOf[r]] = r]
              = [TreeAt(tip[r]) EXCEPT ![PrOf[r]] = r]
        BY <3>3, PublishAssumption DEF BaseEntries, Trees
      <3>5. QED
        BY <3>1, <3>2, <3>4, <1>2
    <2>3. CASE ~ReadTip(r) /\ ~BuildCommit(r)
      <3>1. pc'[r] \in {"tip", "done"}
        BY <2>3 DEF QuietStep, Start, GitFails, PushReturnsOk, PushRejected,
             PushFails, Crash, Fail
      <3>2. QED
        BY <3>1, <1>2
    <2>4. QED
      BY <2>1, <2>2, <2>3
  <1>3. QED
    BY <1>1, <1>2

LEMMA QuietKeepsReports ==
  ASSUME IInv, NEW r \in Requests, QuietStep(r)
  PROVE  NotLandedBeforePush' /\ ReportsAreTrue'
  <1> USE DEF IInv, TypeOK
  <1>0. /\ history' = history /\ TipNow' = TipNow /\ Landed' = Landed
        /\ \A i \in 1..TipNow : history[i].by \in Requests
    <2>1. \A i \in 1..TipNow : history[i] \in Commits
      BY DEF TipNow
    <2>2. QED
      BY <2>1, QuietKeepsBranch DEF Commits
  <1>1. ASSUME NEW q \in Requests, q # r
        PROVE  pc'[q] = pc[q] /\ outcome'[q] = outcome[q]
    BY <1>1 DEF QuietStep, Start, ReadTip, GitFails, BuildCommit,
         PushReturnsOk, PushRejected, PushFails, Crash, Fail
  <1>2. pc[r] \in {"accepted", "done"} => pc'[r] = "done"
    BY DEF QuietStep, Start, ReadTip, GitFails, BuildCommit,
         PushReturnsOk, PushRejected, PushFails, Crash, Fail
  <1>3. /\ outcome'[r] = "ok" => pc[r] = "accepted"
        /\ pc'[r] # "accepted"
        /\ outcome'[r] = "pending" <=> pc'[r] # "done"
    BY DEF QuietStep, Start, ReadTip, GitFails, BuildCommit,
         PushReturnsOk, PushRejected, PushFails, Crash, Fail, ReportsAreTrue
  <1>4. NotLandedBeforePush'
    BY <1>0, <1>1, <1>2 DEF NotLandedBeforePush
  <1>5. ReportsAreTrue'
    BY <1>0, <1>1, <1>3 DEF ReportsAreTrue
  <1>6. QED
    BY <1>4, <1>5

(* The step that moves the branch. *)
LEMMA PushKeepsIInv ==
  ASSUME IInv, NEW r \in Requests, PushAccepted(r), TypeOK'
  PROVE  IInv'
  <1>0. /\ TipNow \in Nat
        /\ TipNow' = TipNow + 1
        /\ \A i \in 1..TipNow : history'[i] = history[i]
        /\ history'[TipNow + 1] = [by |-> r, tree |-> commit[r]]
        /\ Board' = commit[r]
        /\ Landed' = Landed \cup {r}
    BY AppendFacts DEF IInv
  <1>1. /\ TipNow \in Nat /\ TipNow' = TipNow + 1
        /\ \A i \in 1..TipNow : history'[i] = history[i]
        /\ history'[TipNow + 1].by = r
        /\ Board' = commit[r]
        /\ Landed' = Landed \cup {r}
    BY <1>0
  <1> USE DEF IInv, TypeOK
  <1>2. /\ pc[r] = "push" /\ pc' = [pc EXCEPT ![r] = "accepted"]
        /\ UNCHANGED <<tip, commit, outcome>>
        /\ tip[r] = TipNow
    BY DEF PushAccepted, FastForward
  <1>3. Board' = [Board EXCEPT ![PrOf[r]] = r]
    BY <1>1, <1>2 DEF BuiltOnTip, Board
  <1>4. \A i \in 1..TipNow : history[i].by \in Requests /\ history[i].by # r
    <2>1. \A i \in 1..TipNow : history[i] \in Commits
      BY DEF TipNow
    <2>2. QED
      BY <2>1, <1>2 DEF Commits, NotLandedBeforePush
  <1>5. BuiltOnTip'
    <2> SUFFICES ASSUME NEW q \in Requests
                 PROVE  /\ pc'[q] \in {"build", "push"} => tip[q] \in 0..TipNow'
                        /\ pc'[q] = "push" =>
                             commit[q] = [TreeAt(tip[q])' EXCEPT ![PrOf[q]] = q]
      BY <1>2 DEF BuiltOnTip, TreeAt, EmptyTree
    <2>1. CASE pc[q] \in {"build", "push"} /\ q # r
      <3>1. tip[q] \in 0..TipNow /\ pc'[q] = pc[q]
        BY <2>1, <1>2 DEF BuiltOnTip
      <3>2. TreeAt(tip[q])' = TreeAt(tip[q])
        <4>1. CASE tip[q] = 0
          BY <4>1, <1>2 DEF TreeAt, EmptyTree
        <4>2. CASE tip[q] \in 1..TipNow
          BY <4>2, <1>1, <1>2 DEF TreeAt, EmptyTree
        <4>3. QED
          BY <4>1, <4>2, <3>1, <1>1
      <3>3. QED
        BY <2>1, <3>1, <3>2, <1>1 DEF BuiltOnTip
    <2>2. CASE pc[q] \notin {"build", "push"} \/ q = r
      BY <2>2, <1>2
    <2>3. QED
      BY <2>1, <2>2
  <1>6. NotLandedBeforePush'
    <2> SUFFICES ASSUME NEW i \in 1..TipNow'
                 PROVE  pc'[history'[i].by] \in {"accepted", "done"}
      BY DEF NotLandedBeforePush
    <2>1. CASE i = TipNow + 1
      BY <2>1, <1>1, <1>2
    <2>2. CASE i \in 1..TipNow
      BY <2>2, <1>1, <1>2, <1>4 DEF NotLandedBeforePush
    <2>3. QED
      BY <2>1, <2>2, <1>1
  <1>7. ReportsAreTrue'
    BY <1>1, <1>2 DEF ReportsAreTrue
  <1>8. LandsOnce'
    <2> SUFFICES ASSUME NEW i \in 1..TipNow', NEW j \in 1..TipNow',
                        history'[i].by = history'[j].by
                 PROVE  i = j
      BY DEF LandsOnce
    <2>1. CASE i \in 1..TipNow /\ j \in 1..TipNow
      BY <2>1, <1>1 DEF LandsOnce
    <2>2. \A k \in 1..TipNow : history'[k].by # history'[TipNow + 1].by
      BY <1>1, <1>4
    <2>3. i \in 1..TipNow \/ i = TipNow + 1
      BY <1>1
    <2>4. j \in 1..TipNow \/ j = TipNow + 1
      BY <1>1
    <2>5. QED
      BY <2>1, <2>2, <2>3, <2>4
  <1>9. LatestServed'
    <2> SUFFICES ASSUME NEW i \in 1..TipNow'
                 PROVE  \E j \in i..TipNow' :
                          history'[j].by = Board'[PrOf[history'[i].by]]
      BY DEF LatestServed
    <2>0. Board \in [PRs -> Requests \cup {NoArtifact}]
      BY <1>1, TreeAtType DEF Board, Trees
    <2>1. CASE i = TipNow + 1
      BY <2>1, <2>0, <1>1, <1>3, PublishAssumption
    <2>2. CASE i \in 1..TipNow /\ PrOf[history[i].by] = PrOf[r]
      <3>1. TipNow + 1 \in i..TipNow'
        BY <2>2, <1>1
      <3>2. history'[TipNow + 1].by = Board'[PrOf[history'[i].by]]
        BY <2>2, <2>0, <1>1, <1>3, PublishAssumption
      <3>3. QED
        BY <3>1, <3>2
    <2>3. CASE i \in 1..TipNow /\ PrOf[history[i].by] # PrOf[r]
      <3>1. PICK j \in i..TipNow : history[j].by = Board[PrOf[history[i].by]]
        BY <2>3 DEF LatestServed
      <3>2. j \in i..TipNow' /\ j \in 1..TipNow
        BY <2>3, <1>1
      <3>3. Board'[PrOf[history[i].by]] = Board[PrOf[history[i].by]]
        BY <2>3, <2>0, <1>3, <1>4, PublishAssumption
      <3>4. QED
        BY <3>1, <3>2, <3>3, <2>3, <1>1
    <2>4. QED
      BY <2>1, <2>2, <2>3, <1>1
  <1>10. QED
    BY <1>5, <1>6, <1>7, <1>8, <1>9

LEMMA QuietKeepsIInv ==
  ASSUME IInv, NEW r \in Requests, QuietStep(r), TypeOK'
  PROVE  IInv'
  <1>1. /\ history' = history /\ TipNow' = TipNow /\ Board' = Board
    BY QuietKeepsBranch
  <1>2. LandsOnce' /\ LatestServed'
    BY <1>1 DEF IInv, LandsOnce, LatestServed
  <1>3. QED
    BY <1>2, QuietKeepsBuilt, QuietKeepsReports DEF IInv

LEMMA IInvStep ==
  ASSUME IInv, [Next]_vars
  PROVE  IInv'
  <1>1. TypeOK'
    BY TypeStep DEF IInv
  <1>2. CASE UNCHANGED vars
    BY <1>2 DEF vars, fixed, IInv, TypeOK, BuiltOnTip, NotLandedBeforePush,
         ReportsAreTrue, LandsOnce, LatestServed, TipNow, Landed, Board,
         TreeAt, EmptyTree
  <1>3. ASSUME NEW r \in Requests, QuietStep(r) PROVE IInv'
    BY <1>1, <1>3, QuietKeepsIInv
  <1>4. ASSUME NEW r \in Requests, PushAccepted(r) PROVE IInv'
    BY <1>1, <1>4, PushKeepsIInv
  <1>5. QED
    BY <1>2, <1>3, <1>4 DEF Next, Step, QuietStep

(* The conjunction of the invariants below is inductive. *)
THEOREM IInvHolds == Spec => []IInv
  <1>1. Init => IInv
    BY TypeInit DEF Init, IInv, BuiltOnTip, NotLandedBeforePush,
         ReportsAreTrue, LandsOnce, LatestServed, TipNow
  <1>2. IInv /\ [Next]_vars => IInv'
    BY IInvStep
  <1>3. QED
    BY <1>1, <1>2, PTL DEF Spec

(* Typing: the branch is a sequence of commits with one entry per pull     *)
(* request, and each run's locals have the shape publishArtifact gives     *)
(* them; in particular no run counts past one retry.                       *)
THEOREM Typing == Spec => []TypeOK
  <1>1. IInv => TypeOK
    BY DEF IInv
  <1>2. QED
    BY <1>1, IInvHolds, PTL

(* A run lands at most once, whatever its pushes were answered: the single *)
(* retry of publishArtifact can never re-publish what already landed.      *)
THEOREM RunsLandOnce == Spec => []LandsOnce
  <1>1. IInv => LandsOnce
    BY DEF IInv
  <1>2. QED
    BY <1>1, IInvHolds, PTL

(* What publishArtifact reported as published stays published: the branch  *)
(* keeps serving that artifact, or a later one of the same pull request.   *)
THEOREM ReportedOkIsDurable == Spec => []OkIsDurable
  <1>1. IInv => OkIsDurable
    <2> SUFFICES ASSUME IInv, NEW r \in Requests, outcome[r] = "ok"
                 PROVE  \E i \in 1..TipNow :
                          /\ history[i].by = r
                          /\ \E j \in i..TipNow : history[j].by = Board[PrOf[r]]
      BY DEF OkIsDurable
    <2>1. PICK i \in 1..TipNow : history[i].by = r
      BY DEF IInv, ReportsAreTrue, Landed
    <2>2. QED
      BY <2>1 DEF IInv, LatestServed
  <1>2. QED
    BY <1>1, IInvHolds, PTL

(* An accepted push upserts the pusher's entry in what the branch serves. *)
LEMMA PushUpserts ==
  ASSUME IInv, NEW r \in Requests, PushAccepted(r)
  PROVE  /\ Board' = [Board EXCEPT ![PrOf[r]] = r]
         /\ Board \in Trees
  <1>1. Board' = commit[r] /\ TipNow \in Nat
    BY AppendFacts DEF IInv
  <1>2. commit[r] = [TreeAt(tip[r]) EXCEPT ![PrOf[r]] = r] /\ tip[r] = TipNow
    BY DEF PushAccepted, FastForward, IInv, BuiltOnTip
  <1>3. QED
    BY <1>1, <1>2, TreeAtType DEF Board, IInv

(* "every other PR's artifact survives every publish" (publish.ts:4-6),    *)
(* for any number of concurrent runs, races, failures and crashes.         *)
THEOREM EveryPublishKeepsOthers == Spec => OthersSurvive
  <1> DEFINE Kept == \A p, q \in PRs :
          /\ Board[p] # NoArtifact => Board'[p] # NoArtifact
          /\ Board[p] # Board'[p] /\ Board[q] # Board'[q] => p = q
  <1>1. ASSUME IInv, [Next]_vars PROVE [Kept]_vars
    <2>1. CASE UNCHANGED vars
      BY <2>1
    <2>2. ASSUME NEW r \in Requests, QuietStep(r) PROVE Kept
      <3>1. Board' = Board
        BY <2>2, QuietKeepsBranch
      <3>2. QED
        BY <3>1
    <2>3. ASSUME NEW r \in Requests, PushAccepted(r) PROVE Kept
      <3>1. /\ Board' = [Board EXCEPT ![PrOf[r]] = r]
            /\ Board \in Trees
        BY <1>1, <2>3, PushUpserts
      <3>2. QED
        BY <3>1, PublishAssumption DEF Trees
    <2>4. QED
      BY <1>1, <2>1, <2>2, <2>3 DEF Next, Step, QuietStep
  <1>2. QED
    BY <1>1, IInvHolds, PTL DEF Spec, OthersSurvive

-----------------------------------------------------------------------------
(* Every run of publishArtifact is one atomic upsert of the artifact board,*)
(* reported "ok" only after it happened.                                   *)
THEOREM PublishImplementsBoard == Spec => ImplementsBoard
  <1> USE DEF AbstractBoard!BoardInit, AbstractBoard!boardVars
  <1>1. Init => AbstractBoard!BoardInit
    BY DEF Init, Board, Landed, TreeAt, EmptyTree, TipNow
  <1>2. ASSUME IInv, [Next]_vars
        PROVE  [AbstractBoard!BoardNext]_<<Board, Landed, outcome>>
    <2>1. CASE UNCHANGED vars
      BY <2>1 DEF vars, fixed, Board, Landed, TreeAt, EmptyTree, TipNow
    <2>2. ASSUME NEW r \in Requests, QuietStep(r)
          PROVE  [AbstractBoard!BoardNext]_<<Board, Landed, outcome>>
      <3>1. Board' = Board /\ Landed' = Landed
        BY <2>2, QuietKeepsBranch
      <3>2. CASE PushReturnsOk(r)
        <4>1. AbstractBoard!ReportOk(r)
          BY <1>2, <3>1, <3>2 DEF PushReturnsOk, AbstractBoard!ReportOk, IInv,
               ReportsAreTrue
        <4>2. QED
          BY <4>1 DEF AbstractBoard!BoardNext
      <3>3. CASE GitFails(r) \/ PushFails(r) \/ Crash(r) \/ PushRejected(r)
        <4>1. AbstractBoard!GiveUp(r) \/ outcome' = outcome
          BY <1>2, <3>1, <3>3 DEF GitFails, PushFails, Crash, PushRejected,
               Fail, AbstractBoard!GiveUp, IInv, ReportsAreTrue
        <4>2. QED
          BY <4>1, <3>1 DEF AbstractBoard!BoardNext
      <3>4. CASE Start(r) \/ ReadTip(r) \/ BuildCommit(r)
        BY <3>1, <3>4 DEF Start, ReadTip, BuildCommit
      <3>5. QED
        BY <2>2, <3>2, <3>3, <3>4 DEF QuietStep
    <2>3. ASSUME NEW r \in Requests, PushAccepted(r)
          PROVE  [AbstractBoard!BoardNext]_<<Board, Landed, outcome>>
      <3>1. Board' = [Board EXCEPT ![PrOf[r]] = r]
        BY <1>2, <2>3, PushUpserts
      <3>2. Landed' = Landed \cup {r}
        BY <1>2, <2>3, AppendFacts DEF IInv
      <3>3. r \notin Landed /\ outcome[r] = "pending" /\ outcome' = outcome
        BY <1>2, <2>3 DEF PushAccepted, IInv, NotLandedBeforePush, Landed,
             ReportsAreTrue
      <3>4. AbstractBoard!Upsert(r)
        BY <3>1, <3>2, <3>3 DEF AbstractBoard!Upsert
      <3>5. QED
        BY <3>4 DEF AbstractBoard!BoardNext
    <2>4. QED
      BY <1>2, <2>1, <2>2, <2>3 DEF Next, Step, QuietStep
  <1>3. QED
    BY <1>1, <1>2, IInvHolds, PTL
       DEF Spec, ImplementsBoard, AbstractBoard!BoardSpec

-----------------------------------------------------------------------------
NoFaults == faults = {} /\ objectFormat = "sha1"

(* Without faults, each attempt that a run has lost is a commit more that  *)
(* is on the branch when it reads the tip again.                           *)
Losses ==
    NoFaults => \A r \in Requests :
        /\ pc[r] = "idle" => attempt[r] = 0
        /\ pc[r] = "tip" => attempt[r] <= TipNow
        /\ pc[r] \in {"build", "push"} => attempt[r] <= tip[r]
        /\ outcome[r] = "error" => TipNow >= 2 /\ r \notin Landed /\ pc[r] = "done"

LEMMA LossesStep ==
  ASSUME IInv, Losses, [Next]_vars
  PROVE  Losses'
  <1> SUFFICES ASSUME NoFaults', NEW q \in Requests
               PROVE  (/\ pc[q] = "idle" => attempt[q] = 0
                       /\ pc[q] = "tip" => attempt[q] <= TipNow
                       /\ pc[q] \in {"build", "push"} => attempt[q] <= tip[q]
                       /\ outcome[q] = "error" =>
                             TipNow >= 2 /\ q \notin Landed /\ pc[q] = "done")'
    BY DEF Losses
  <1>1. CASE UNCHANGED vars
    BY <1>1 DEF Losses, NoFaults, vars, fixed, TipNow, Landed
  <1>2. ASSUME NEW r \in Requests, PushAccepted(r)
        PROVE  (/\ pc[q] = "idle" => attempt[q] = 0
                /\ pc[q] = "tip" => attempt[q] <= TipNow
                /\ pc[q] \in {"build", "push"} => attempt[q] <= tip[q]
                /\ outcome[q] = "error" =>
                      TipNow >= 2 /\ q \notin Landed /\ pc[q] = "done")'
    <2>1. TipNow \in Nat /\ TipNow' = TipNow + 1 /\ Landed' = Landed \cup {r}
      BY <1>2, AppendFacts DEF IInv
    <2> QED
      BY <1>2, <2>1 DEF IInv, TypeOK, Losses, NoFaults, fixed, PushAccepted
  <1>3. ASSUME NEW r \in Requests, QuietStep(r)
        PROVE  (/\ pc[q] = "idle" => attempt[q] = 0
                /\ pc[q] = "tip" => attempt[q] <= TipNow
                /\ pc[q] \in {"build", "push"} => attempt[q] <= tip[q]
                /\ outcome[q] = "error" =>
                      TipNow >= 2 /\ q \notin Landed /\ pc[q] = "done")'
    <2>1. TipNow \in Nat /\ TipNow' = TipNow /\ Landed' = Landed
      BY <1>3, QuietKeepsBranch DEF IInv, TypeOK, TipNow
    <2>2. NoFaults /\ attempt[r] \in 0..1 /\ tip[r] \in Nat
      BY <1>3 DEF IInv, TypeOK, NoFaults, fixed, QuietStep, Start, ReadTip, GitFails, BuildCommit,
         PushReturnsOk, PushRejected, PushFails, Crash
    <2>3. CASE PushRejected(r)
      <3>1. tip[r] \in 0..TipNow /\ attempt[r] <= tip[r] /\ tip[r] # TipNow
        BY <2>2, <2>3 DEF IInv, BuiltOnTip, Losses, NoFaults, PushRejected, FastForward
      <3>2. r \notin Landed
        BY <2>3 DEF IInv, NotLandedBeforePush, Landed, PushRejected
      <3>3. CASE MayRetry(r)
        <4>1. pc' = [pc EXCEPT ![r] = "tip"] /\ attempt' = [attempt EXCEPT ![r] = 1]
              /\ UNCHANGED <<tip, outcome>>
          BY <2>3, <3>3 DEF PushRejected, MayRetry
        <4> QED
          BY <2>1, <2>2, <3>1, <3>2, <4>1, <2>3 DEF IInv, TypeOK, Losses, PushRejected
      <3>4. CASE ~MayRetry(r)
        <4>1. TipNow >= 2
          BY <2>1, <2>2, <3>1, <3>4 DEF MayRetry
        <4> QED
          BY <2>1, <2>2, <2>3, <3>2, <3>4, <4>1 DEF IInv, TypeOK, Losses, PushRejected, Fail
      <3> QED  BY <3>3, <3>4
    <2>4. CASE ReadTip(r)
      BY <2>1, <2>2, <2>4 DEF IInv, TypeOK, Losses, NoFaults, ReadTip, RemoteTip, ReportsAreTrue
    <2>5. CASE Start(r) \/ BuildCommit(r) \/ PushReturnsOk(r)
      BY <2>1, <2>2, <2>5 DEF IInv, TypeOK, Losses, Start, BuildCommit, PushReturnsOk
    <2>6. ~GitFails(r) /\ ~PushFails(r) /\ ~Crash(r)
      BY <2>2 DEF NoFaults, GitFails, PushFails, Crash
    <2> QED
      BY <1>3, <2>3, <2>4, <2>5, <2>6 DEF QuietStep
  <1> QED
    BY <1>1, <1>2, <1>3 DEF Next, Step, QuietStep

LEMMA LandedIsFinite == TypeOK => IsFiniteSet(Landed)
  <1> SUFFICES ASSUME TypeOK PROVE IsFiniteSet(Landed)
    OBVIOUS
  <1> DEFINE by == [i \in 1..TipNow |-> history[i].by]
  <1>1. TipNow \in Nat /\ IsFiniteSet(1..TipNow)
    BY FS_Interval DEF TypeOK, TipNow
  <1>2. by \in Surjection(1..TipNow, Landed)
    BY DEF Surjection, Landed
  <1> HIDE DEF by
  <1> QED
    BY <1>1, <1>2, FS_Surjection

(* However many publishers there are: when nothing fails, a run gives up   *)
(* only after two others have landed, so two publishers always both land.  *)
THEOREM LosersLostToTwo == Spec => []LosersLostTwice
  <1>1. Init => Losses
    BY DEF Init, Losses
  <1>2. IInv /\ Losses => LosersLostTwice
    <2> SUFFICES ASSUME IInv, Losses, NoFaults, NEW r \in Requests, outcome[r] = "error"
                 PROVE  Cardinality(Landed \ {r}) >= 2
      BY DEF LosersLostTwice, NoFaults
    <2> DEFINE a == history[1].by
               b == history[2].by
    <2>1. TipNow >= 2 /\ TipNow \in Nat /\ r \notin Landed
      BY DEF Losses, IInv, TypeOK, TipNow
    <2>2. a # b /\ {a, b} \subseteq Landed \ {r}
      BY <2>1 DEF IInv, LandsOnce, Landed
    <2> HIDE DEF a, b
    <2>3. IsFiniteSet(Landed \ {r})
      BY LandedIsFinite, FS_Subset DEF IInv
    <2>4. IsFiniteSet({a}) /\ Cardinality({a}) = 1
      BY FS_Singleton
    <2>5. IsFiniteSet({a} \cup {b}) /\ Cardinality({a} \cup {b}) = 2
      BY <2>2, <2>4, FS_AddElement
    <2>6. {a} \cup {b} \in SUBSET (Landed \ {r})
      BY <2>2
    <2>7. Cardinality({a} \cup {b}) <= Cardinality(Landed \ {r})
      BY <2>3, <2>6, FS_Subset
    <2> QED
      BY <2>3, <2>5, <2>7, FS_CardinalityType
  <1> QED
    BY <1>1, <1>2, IInvHolds, LossesStep, PTL DEF Spec
================================================================================
