----------------------------- MODULE PrCommandProofs -----------------------------
(***************************************************************************)
(* For any number of runs and pull requests, whatever fails: no link is    *)
(* dead, no hint is false, exit code 0 means done, and a run publishes by  *)
(* the board's contract.                                                   *)
(***************************************************************************)
EXTENDS PrCommand, TLAPS

(* What is known of a run by where it stands. *)
Aimed(r) ==
    /\ pc[r] \in {"idle", "resolve"} => target[r] = None
    /\ pc[r] \in {"push", "pushed"} => target[r] # None
    /\ pc[r] \in {"idle", "resolve", "push", "pushed"} =>
          artifact[r] = "pending" /\ link[r] = None

Landing(r) ==
    /\ pc[r] \in {"idle", "resolve", "push"} =>
          \A p \in PRs : [run |-> r, pr |-> p] \notin landed
    /\ pc[r] = "pushed" \/ artifact[r] = "ok" => [run |-> r, pr |-> target[r]] \in landed
    /\ link[r] # None => link[r] = target[r] /\ artifact[r] = "ok"

Telling(r) ==
    /\ pc[r] \in {"comment", "hint"} => printed[r] = Body(r)
    /\ pc[r] = "hint" => \E q \in posted : q.body = Body(r)
    /\ code[r] # None => pc[r] = "done"
    /\ code[r] = 0 => printed[r] = Body(r)
    /\ code[r] = 0 /\ opts[r].post =>
          /\ \E q \in posted : q.body = Body(r)
          /\ opts[r].artifact => link[r] # None

Placed(r) == Aimed(r) /\ Landing(r) /\ Telling(r)

(* What landed is served, or something newer is. *)
Served == \A q \in landed : board[q.pr] # None

(* Nothing links to an artifact that is not served. *)
Alive(body) == body # None /\ body.link # None => board[body.link] # None
AllAlive ==
    /\ \A r \in Runs : Alive(printed[r])
    /\ \A p \in PRs : Alive(comment[p])
    /\ Alive(ref)

IInv == TypeOK /\ (\A r \in Runs : Placed(r)) /\ Served /\ AllAlive

-----------------------------------------------------------------------------
(* A run's own body has its type, and its link, if any, is alive. *)
LEMMA BodyAlive ==
  ASSUME IInv, NEW r \in Runs
  PROVE  Body(r) \in Bodies /\ Alive(Body(r))
  <1>1. Body(r) \in Bodies
    BY DEF Body, Bodies, IInv, TypeOK
  <1>2. ASSUME link[r] # None
        PROVE  board[link[r]] # None
    <2>1. link[r] = target[r] /\ [run |-> r, pr |-> target[r]] \in landed
      BY <1>2 DEF IInv, Placed, Landing
    <2>2. [run |-> r, pr |-> target[r]].pr = target[r]
      OBVIOUS
    <2>3. QED BY <2>1, <2>2 DEF IInv, Served
  <1>3. QED BY <1>1, <1>2 DEF Alive, Body

(* A step of one run, as the others see it. *)
Moves(r) ==
    /\ \A s \in Runs \ {r} :
          /\ pc'[s] = pc[s] /\ target'[s] = target[s] /\ artifact'[s] = artifact[s]
          /\ link'[s] = link[s] /\ printed'[s] = printed[s] /\ code'[s] = code[s]
    /\ opts' = opts
    /\ landed \subseteq landed' /\ \A q \in landed' \ landed : q.run = r
    /\ posted \subseteq posted'

LEMMA StepMoves ==
  ASSUME TypeOK, NEW r \in Runs, Step(r)
  PROVE  Moves(r)
  <1> USE DEF TypeOK, Moves, shared, run, Go, Exit
  <1>1. CASE Refuse(r) BY <1>1 DEF Refuse
  <1>2. CASE Collect(r) BY <1>2 DEF Collect
  <1>3. CASE ResolveArtifact(r) BY <1>3 DEF ResolveArtifact
  <1>4. CASE SkipArtifact(r) BY <1>4 DEF SkipArtifact
  <1>5. CASE ArtifactLands(r) BY <1>5 DEF ArtifactLands
  <1>6. CASE ArtifactConfirmed(r) BY <1>6 DEF ArtifactConfirmed
  <1>7. CASE ArtifactFails(r) BY <1>7 DEF ArtifactFails
  <1>8. CASE StoreRef(r) BY <1>8 DEF StoreRef
  <1>9. CASE PrintBody(r)
    <2>1. \/ pc' = [pc EXCEPT ![r] = "comment"] /\ code' = code
          \/ pc' = [pc EXCEPT ![r] = "done"] /\ code' = [code EXCEPT ![r] = 0]
      BY <1>9 DEF PrintBody
    <2>2. QED BY <1>9, <2>1 DEF PrintBody
  <1>10. CASE Upsert(r) BY <1>10 DEF Upsert
  <1>11. CASE UpsertFails(r) BY <1>11 DEF UpsertFails
  <1>12. CASE Hint(r) BY <1>12 DEF Hint
  <1>13. CASE Die(r) BY <1>13 DEF Die
  <1>14. QED
    BY <1>1, <1>2, <1>3, <1>4, <1>5, <1>6, <1>7, <1>8, <1>9, <1>10, <1>11, <1>12, <1>13
    DEF Step, Publish

LEMMA OthersPlaced ==
  ASSUME NEW r \in Runs, Moves(r), NEW s \in Runs \ {r}, Placed(s)
  PROVE  Placed(s)'
  <1>1. Aimed(s)'
    BY DEF Moves, Placed, Aimed
  <1>2. Landing(s)'
    <2>1. \A p \in PRs : [run |-> s, pr |-> p] \in landed' => [run |-> s, pr |-> p] \in landed
      BY DEF Moves
    <2>2. QED BY <2>1 DEF Moves, Placed, Landing
  <1>3. Telling(s)'
    BY DEF Moves, Placed, Telling, Body
  <1>4. QED BY <1>1, <1>2, <1>3 DEF Placed

-----------------------------------------------------------------------------
LEMMA TypeStep ==
  ASSUME IInv, [Next]_vars
  PROVE  TypeOK'
  <1> USE DEF TypeOK, shared, run, Go, Exit, ExitCodes
  <1>0. TypeOK /\ \A r \in Runs : Body(r) \in Bodies
    BY BodyAlive DEF IInv
  <1>1. ASSUME NEW r \in Runs, Refuse(r) PROVE TypeOK'
    BY <1>0, <1>1 DEF Refuse
  <1>2. ASSUME NEW r \in Runs, Collect(r) PROVE TypeOK'
    BY <1>0, <1>2 DEF Collect
  <1>3. ASSUME NEW r \in Runs, Publish(r) PROVE TypeOK'
    <2>1. CASE ResolveArtifact(r) BY <1>0, <2>1 DEF ResolveArtifact
    <2>2. CASE SkipArtifact(r) BY <1>0, <2>2 DEF SkipArtifact
    <2>3. CASE ArtifactLands(r)
      <3>1. target[r] \in PRs
        BY <2>3 DEF IInv, Placed, Aimed, ArtifactLands
      <3>2. [run |-> r, pr |-> target[r]] \in Publishes
        BY <3>1 DEF Publishes
      <3>3. QED BY <1>0, <2>3, <3>2 DEF ArtifactLands
    <2>4. CASE ArtifactConfirmed(r) BY <1>0, <2>4 DEF ArtifactConfirmed
    <2>5. CASE ArtifactFails(r) BY <1>0, <2>5 DEF ArtifactFails
    <2>6. QED BY <1>3, <2>1, <2>2, <2>3, <2>4, <2>5 DEF Publish
  <1>4. ASSUME NEW r \in Runs, StoreRef(r) PROVE TypeOK'
    <2>1. ref' \in {ref, Body(r)}
      BY <1>4 DEF StoreRef
    <2>2. QED BY <1>0, <1>4, <2>1 DEF StoreRef
  <1>5. ASSUME NEW r \in Runs, PrintBody(r) PROVE TypeOK'
    <2>1. \/ pc' = [pc EXCEPT ![r] = "comment"] /\ code' = code
          \/ pc' = [pc EXCEPT ![r] = "done"] /\ code' = [code EXCEPT ![r] = 0]
      BY <1>5 DEF PrintBody
    <2>2. QED BY <1>0, <1>5, <2>1 DEF PrintBody
  <1>6. ASSUME NEW r \in Runs, Upsert(r) PROVE TypeOK'
    BY <1>0, <1>6 DEF Upsert
  <1>7. ASSUME NEW r \in Runs, UpsertFails(r) PROVE TypeOK'
    <2>1. comment' \in [PRs -> Bodies \cup {None}]
      BY <1>0, <1>7 DEF UpsertFails
    <2>2. QED BY <1>0, <1>7, <2>1 DEF UpsertFails
  <1>8. ASSUME NEW r \in Runs, Hint(r) PROVE TypeOK'
    <2>1. \A p \in Advertised(r) : p \in PRs
      BY <1>0 DEF Advertised
    <2>2. hint' \in [Runs -> PRs \cup {None}]
      BY <1>0, <1>8, <2>1 DEF Hint
    <2>3. QED BY <1>0, <1>8, <2>2 DEF Hint, ExitCode
  <1>9. ASSUME NEW r \in Runs, Die(r) PROVE TypeOK'
    BY <1>0, <1>9 DEF Die
  <1>10. CASE ViewChanges BY <1>0, <1>10 DEF ViewChanges
  <1>11. CASE VisibilityChanges BY <1>0, <1>11 DEF VisibilityChanges
  <1>12. ASSUME NEW p \in PRs, CiPosts(p) PROVE TypeOK'
    BY <1>0, <1>12 DEF CiPosts
  <1>13. CASE UNCHANGED vars BY <1>0, <1>13 DEF vars
  <1>14. QED
    BY <1>1, <1>2, <1>3, <1>4, <1>5, <1>6, <1>7, <1>8, <1>9, <1>10, <1>11, <1>12, <1>13
    DEF Next, Step

-----------------------------------------------------------------------------
(* A run's own step leaves it where the invariant says. *)
LEMMA OwnPlaced ==
  ASSUME IInv, NEW r \in Runs, Step(r)
  PROVE  Placed(r)'
  <1> USE PrCommandAssumption DEF TypeOK, shared, run, Go, Exit, ExitCodes
  <1>0. TypeOK /\ Aimed(r) /\ Landing(r) /\ Telling(r)
    BY DEF IInv, Placed
  <1>1. CASE Refuse(r)
    BY <1>0, <1>1 DEF Refuse, Placed, Aimed, Landing, Telling, Body
  <1>2. CASE Collect(r)
    BY <1>0, <1>2 DEF Collect, Placed, Aimed, Landing, Telling, Body
  <1>3. CASE ResolveArtifact(r)
    BY <1>0, <1>3 DEF ResolveArtifact, Placed, Aimed, Landing, Telling, Body
  <1>4. CASE SkipArtifact(r)
    BY <1>0, <1>4 DEF SkipArtifact, Placed, Aimed, Landing, Telling, Body
  <1>5. CASE ArtifactLands(r)
    BY <1>0, <1>5 DEF ArtifactLands, Placed, Aimed, Landing, Telling, Body
  <1>6. CASE ArtifactConfirmed(r)
    BY <1>0, <1>6 DEF ArtifactConfirmed, Placed, Aimed, Landing, Telling, Body
  <1>7. CASE ArtifactFails(r)
    BY <1>0, <1>7 DEF ArtifactFails, Placed, Aimed, Landing, Telling, Body
  <1>8. CASE StoreRef(r)
    BY <1>0, <1>8 DEF StoreRef, Placed, Aimed, Landing, Telling, Body
  <1>9. CASE PrintBody(r)
    <2>1. Body(r)' = Body(r) /\ printed'[r] = Body(r) /\ opts'[r] = opts[r]
      BY <1>0, <1>9 DEF PrintBody, Body
    <2>2. CASE opts[r].post
      BY <1>0, <1>9, <2>1, <2>2 DEF PrintBody, Placed, Aimed, Landing, Telling
    <2>3. CASE ~opts[r].post
      BY <1>0, <1>9, <2>1, <2>3 DEF PrintBody, Placed, Aimed, Landing, Telling
    <2>4. QED BY <2>2, <2>3
  <1>10. CASE Upsert(r)
    <2>1. Body(r)' = Body(r)
      BY <1>10 DEF Upsert, Body
    <2>2. \E q \in posted' : q.body = Body(r)
      <3>1. [pr |-> view, body |-> Body(r)] \in posted'
        BY <1>10 DEF Upsert
      <3>2. [pr |-> view, body |-> Body(r)].body = Body(r)
        OBVIOUS
      <3>3. QED BY <3>1, <3>2
    <2>3. QED
      BY <1>0, <1>10, <2>1, <2>2 DEF Upsert, Placed, Aimed, Landing, Telling
  <1>11. CASE UpsertFails(r)
    BY <1>0, <1>11 DEF UpsertFails, Placed, Aimed, Landing, Telling, Body
  <1>12. CASE Hint(r)
    <2>1. Body(r)' = Body(r) /\ posted' = posted
      BY <1>12 DEF Hint, Body
    <2>2. code'[r] = 0 => (opts[r].artifact => link[r] # None)
      BY <1>0, <1>12 DEF Hint, ExitCode
    <2>3. QED
      BY <1>0, <1>12, <2>1, <2>2 DEF Hint, Placed, Aimed, Landing, Telling
  <1>13. CASE Die(r)
    BY <1>0, <1>13 DEF Die, Placed, Aimed, Landing, Telling, Body
  <1>14. QED
    BY <1>1, <1>2, <1>3, <1>4, <1>5, <1>6, <1>7, <1>8, <1>9, <1>10, <1>11, <1>12, <1>13
    DEF Step, Publish

(* What is served may be replaced, but is never taken away. *)
LEMMA BoardOnlyGrows ==
  ASSUME IInv, [Next]_vars
  PROVE  /\ Served'
         /\ \A p \in PRs : board[p] # None => board'[p] # None
  <1> USE DEF shared, run
  <1>1. ASSUME NEW r \in Runs, ArtifactLands(r)
        PROVE  /\ Served'
               /\ \A p \in PRs : board[p] # None => board'[p] # None
    <2> DEFINE it == [run |-> r, pr |-> target[r]]
    <2>1. target[r] \in PRs
      BY <1>1 DEF IInv, TypeOK, Placed, Aimed, ArtifactLands, Go
    <2>2. it \in Publishes /\ it # None /\ it.pr = target[r]
      BY <2>1, PrCommandAssumption DEF Publishes
    <2>3. board' = [board EXCEPT ![target[r]] = it] /\ landed' = landed \cup {it}
      BY <1>1 DEF ArtifactLands
    <2>4. \A p \in PRs : board[p] # None => board'[p] # None
      BY <2>1, <2>2, <2>3 DEF IInv, TypeOK
    <2>5. \A q \in landed : q.pr \in PRs
      BY DEF IInv, TypeOK, Publishes
    <2>6. board'[target[r]] # None
      BY <2>1, <2>2, <2>3 DEF IInv, TypeOK
    <2>7. QED BY <2>2, <2>3, <2>4, <2>5, <2>6 DEF IInv, Served
  <1>2. CASE board' = board /\ landed' = landed
    BY <1>2 DEF IInv, Served
  <1>3. ASSUME NEW r \in Runs, Step(r), ~ArtifactLands(r)
        PROVE  board' = board /\ landed' = landed
    BY <1>3 DEF Step, Publish, Refuse, Collect, ResolveArtifact, SkipArtifact,
       ArtifactConfirmed, ArtifactFails, StoreRef, PrintBody, Upsert, UpsertFails, Hint, Die
  <1>4. CASE \/ ViewChanges \/ VisibilityChanges \/ \E p \in PRs : CiPosts(p)
             \/ UNCHANGED vars
    BY <1>2, <1>4 DEF ViewChanges, VisibilityChanges, CiPosts, vars
  <1>5. QED BY <1>1, <1>2, <1>3, <1>4 DEF Next

(* A body that was alive still is, and so is the one a step writes down. *)
LEMMA AliveStep ==
  ASSUME IInv, [Next]_vars
  PROVE  AllAlive'
  <1> USE DEF shared, run, Go, Exit
  <1>0. \A body \in Bodies \cup {None} : Alive(body) => Alive(body)'
    <2> SUFFICES ASSUME NEW body \in Bodies \cup {None}, Alive(body),
                        body # None, body.link # None
                 PROVE  board'[body.link] # None
      BY DEF Alive
    <2>1. body.link \in PRs
      BY DEF Bodies
    <2>2. QED BY <2>1, BoardOnlyGrows DEF Alive
  <1>1. \A r \in Runs : Body(r) \in Bodies /\ Alive(Body(r))
    BY BodyAlive
  <1>2. TypeOK /\ AllAlive
    BY DEF IInv
  <1>3. ASSUME NEW r \in Runs, Step(r)
        PROVE  /\ \A s \in Runs : printed'[s] \in {printed[s], Body(r)}
               /\ \A p \in PRs : comment'[p] \in {comment[p], Body(r)}
               /\ ref' \in {ref, Body(r)}
    <2> USE <1>2 DEF TypeOK
    <2>1. CASE StoreRef(r) BY <2>1 DEF StoreRef
    <2>2. CASE PrintBody(r) BY <2>2 DEF PrintBody
    <2>3. CASE Upsert(r) BY <2>3 DEF Upsert
    <2>4. CASE UpsertFails(r) BY <2>4 DEF UpsertFails
    <2>5. CASE /\ printed' = printed /\ comment' = comment /\ ref' = ref
      BY <2>5
    <2>6. ASSUME Refuse(r) \/ Collect(r) \/ Publish(r) \/ Hint(r) \/ Die(r)
          PROVE  printed' = printed /\ comment' = comment /\ ref' = ref
      BY <2>6 DEF Refuse, Collect, Publish, ResolveArtifact, SkipArtifact, ArtifactLands,
         ArtifactConfirmed, ArtifactFails, Hint, Die
    <2>7. QED BY <1>3, <2>1, <2>2, <2>3, <2>4, <2>5, <2>6 DEF Step
  <1>4. ASSUME NEW r \in Runs, Step(r) PROVE AllAlive'
    <2> DEFINE Still(body) == body # None /\ body.link # None => board'[body.link] # None
    <2>1. \A body \in Bodies \cup {None} : Alive(body) => Still(body)
      BY <1>0 DEF Alive
    <2>2. Body(r) \in Bodies /\ Alive(Body(r))
      BY <1>1
    <2>3. ASSUME NEW s \in Runs PROVE Still(printed'[s])
      BY <1>2, <1>3, <1>4, <2>1, <2>2 DEF AllAlive, TypeOK
    <2>4. ASSUME NEW p \in PRs PROVE Still(comment'[p])
      BY <1>2, <1>3, <1>4, <2>1, <2>2 DEF AllAlive, TypeOK
    <2>5. Still(ref')
      BY <1>2, <1>3, <1>4, <2>1, <2>2 DEF AllAlive, TypeOK
    <2>6. QED BY <2>3, <2>4, <2>5 DEF AllAlive, Alive
  <1>5. ASSUME NEW p \in PRs, CiPosts(p) PROVE AllAlive'
    BY <1>2, <1>5 DEF CiPosts, AllAlive, Alive, TypeOK
  <1>6. CASE ViewChanges \/ VisibilityChanges \/ UNCHANGED vars
    BY <1>2, <1>6 DEF ViewChanges, VisibilityChanges, vars, AllAlive, Alive
  <1>7. QED BY <1>4, <1>5, <1>6 DEF Next

LEMMA IInvStep ==
  ASSUME IInv, [Next]_vars
  PROVE  IInv'
  <1>1. TypeOK' /\ Served' /\ AllAlive'
    BY TypeStep, BoardOnlyGrows, AliveStep
  <1>2. ASSUME NEW r \in Runs, Step(r), NEW s \in Runs PROVE Placed(s)'
    <2>1. CASE s = r BY <1>2, <2>1, OwnPlaced
    <2>2. CASE s # r
      <3>1. Moves(r) BY <1>2, StepMoves DEF IInv
      <3>2. Placed(s) BY DEF IInv
      <3>3. QED BY <2>2, <3>1, <3>2, OthersPlaced
    <2>3. QED BY <2>1, <2>2
  <1>3. ASSUME ~\E r \in Runs : Step(r), NEW s \in Runs PROVE Placed(s)'
    <2>1. UNCHANGED <<landed, pc, run>>
      BY <1>3 DEF Next, ViewChanges, VisibilityChanges, CiPosts, vars, shared
    <2>2. Placed(s) BY DEF IInv
    <2>3. QED BY <2>1, <2>2 DEF Placed, Aimed, Landing, Telling, Body, run
  <1>4. QED BY <1>1, <1>2, <1>3 DEF IInv

LEMMA InitIInv == Init => IInv
  <1> SUFFICES ASSUME Init PROVE IInv
    OBVIOUS
  <1>1. TypeOK
    BY DEF Init, TypeOK
  <1>2. \A r \in Runs : Placed(r)
    BY PrCommandAssumption DEF Init, Placed, Aimed, Landing, Telling, ExitCodes
  <1>3. Served /\ AllAlive
    BY DEF Init, Served, AllAlive, Alive
  <1>4. QED BY <1>1, <1>2, <1>3 DEF IInv

(* The inductive invariant: a run's link is what it was told of its own     *)
(* publish, and what was published once is served for good.                 *)
THEOREM IInvHolds == Spec => []IInv
  <1>1. IInv /\ [Next]_vars => IInv'
    BY IInvStep
  <1>2. QED BY InitIInv, <1>1, PTL DEF Spec

-----------------------------------------------------------------------------
(* No link is dead: what a body anywhere links to is on the artifact branch *)
(* (publishAndLink, the body, the ref, the comment and the CI check's copy).*)
THEOREM NoDeadLinks == Spec => []LinksLeadSomewhere
  <1>1. IInv => LinksLeadSomewhere
    BY DEF IInv, AllAlive, Alive, LinksLeadSomewhere
  <1>2. QED BY IInvHolds, <1>1, PTL

(* Exit code 0 of `pr --post` means posted, and linked to its own publish   *)
(* if an artifact was asked for.                                            *)
THEOREM ZeroIsTrue == Spec => []ZeroMeansDone
  <1>1. IInv => ZeroMeansDone
    <2> SUFFICES ASSUME IInv, NEW r \in Runs, code[r] = 0, opts[r].post
                 PROVE  /\ \E q \in posted : q.body = printed[r]
                        /\ opts[r].artifact => [run |-> r, pr |-> printed[r].link] \in landed
      BY DEF ZeroMeansDone
    <2>1. /\ printed[r] = Body(r) /\ \E q \in posted : q.body = Body(r)
          /\ opts[r].artifact => link[r] # None
      BY DEF IInv, Placed, Telling
    <2>2. Body(r).link = link[r]
      BY DEF Body
    <2>3. link[r] # None => [run |-> r, pr |-> link[r]] \in landed
      BY DEF IInv, Placed, Landing
    <2>4. QED BY <2>1, <2>2, <2>3
  <1>2. QED BY IInvHolds, <1>1, PTL

(* What a reader of the PR and a caller of the command are told is true: no *)
(* link is dead, and exit code 0 means posted and linked.                   *)
THEOREM OutcomesAreTrue == Spec => []OutcomeIsTrue
  BY NoDeadLinks, ZeroIsTrue, PTL DEF OutcomeIsTrue

(* A share hint is only given by a run that published that artifact and     *)
(* posted the body that links to it there, in a repository public by then.  *)
THEOREM NoFalseHints == Spec => HintsAreTrue
  <1> DEFINE Honest == \A r \in Runs : hint[r] = None /\ hint'[r] # None =>
          LET p == hint'[r]
          IN  /\ [run |-> r, pr |-> p] \in landed
              /\ [pr |-> p, body |-> [run |-> r, link |-> p]] \in posted
              /\ RepoOf[p] \in public
  <1>1. IInv /\ [Next]_vars => [Honest]_vars
    <2> SUFFICES ASSUME IInv, [Next]_vars, NEW r \in Runs, hint[r] = None, hint'[r] # None
                 PROVE  LET p == hint'[r]
                        IN  /\ [run |-> r, pr |-> p] \in landed
                            /\ [pr |-> p, body |-> [run |-> r, link |-> p]] \in posted
                            /\ RepoOf[p] \in public
      OBVIOUS
    <2>1. PICK s \in Runs : Hint(s)
      BY DEF Next, Step, Publish, Refuse, Collect, ResolveArtifact, SkipArtifact,
         ArtifactLands, ArtifactConfirmed, ArtifactFails, StoreRef, PrintBody, Upsert, UpsertFails,
         Die, ViewChanges, VisibilityChanges, CiPosts, vars, shared, run
    <2>2. PICK p \in Advertised(s) : hint' = [hint EXCEPT ![s] = p]
      BY <2>1 DEF Hint
    <2>3. s = r /\ hint'[r] = p
      BY <2>2 DEF IInv, TypeOK
    <2>4. p = link[r] /\ p # None /\ RepoOf[p] \in public
      BY <2>2, <2>3 DEF Advertised
    <2>5. PICK q \in posted : q.body = Body(r) /\ p = q.pr
      BY <2>2, <2>3 DEF Advertised, SamePr
    <2>6. q = [pr |-> p, body |-> [run |-> r, link |-> p]]
      BY <2>4, <2>5 DEF IInv, TypeOK, Body
    <2>7. [run |-> r, pr |-> p] \in landed
      BY <2>4 DEF IInv, Placed, Landing
    <2>8. QED BY <2>3, <2>4, <2>5, <2>6, <2>7
  <1>2. QED BY IInvHolds, <1>1, PTL DEF Spec, HintsAreTrue

(* What the caller of each publish has been told: the board's outcome. *)
Told == [q \in Publishes |-> IF target[q.run] = q.pr THEN artifact[q.run] ELSE "pending"]

(* An answer to a run is one to the publish it is at, and to no other. *)
LEMMA OneIsTold ==
  ASSUME TypeOK, NEW r \in Runs, target[r] \in PRs, target' = target,
         NEW o, artifact' = [artifact EXCEPT ![r] = o]
  PROVE  Told' = [Told EXCEPT ![[run |-> r, pr |-> target[r]]] = o]
  <1> DEFINE it == [run |-> r, pr |-> target[r]]
  <1>1. it \in Publishes /\ it.run = r /\ it.pr = target[r]
    BY DEF Publishes
  <1>2. ASSUME NEW q \in Publishes PROVE Told'[q] = IF q = it THEN o ELSE Told[q]
    <2>1. Told'[q] = (IF target[q.run] = q.pr THEN artifact'[q.run] ELSE "pending")
      BY DEF Told
    <2>2. Told[q] = (IF target[q.run] = q.pr THEN artifact[q.run] ELSE "pending")
      BY DEF Told
    <2>3. q.run \in Runs
      BY DEF Publishes
    <2>4. CASE q = it
      <3>1. artifact'[r] = o
        BY DEF TypeOK
      <3>2. QED BY <1>1, <2>1, <2>4, <3>1
    <2>5. CASE q # it
      <3>1. q.run # r \/ q.pr # target[r]
        BY <2>5 DEF Publishes
      <3>2. q.run # r => artifact'[q.run] = artifact[q.run]
        BY <2>3 DEF TypeOK
      <3>3. QED BY <2>1, <2>2, <2>5, <3>1, <3>2
    <2>6. QED BY <2>4, <2>5
  <1> HIDE DEF it
  <1>3. Told' = [Told EXCEPT ![it] = o]
    <2>1. Told' = [q \in Publishes |-> Told'[q]] /\ Told = [q \in Publishes |-> Told[q]]
      BY DEF Told
    <2> HIDE DEF Told
    <2>2. QED BY <1>2, <2>1
  <1>4. QED BY <1>3 DEF it

(* The command publishes by the board's contract: every step of any run is  *)
(* one step of ArtifactBoard or none.                                       *)
THEOREM CommandImplementsBoard == Spec => PublishesOnBoard
  <1> USE DEF shared, run
  <1>1. Init => Board!BoardInit
    BY PrCommandAssumption DEF Init, Board!BoardInit, Publishes
  <1>2. IInv /\ [Next]_vars => [Board!BoardNext]_(Board!boardVars)
    <2> SUFFICES ASSUME IInv, [Next]_vars
                 PROVE  Board!BoardNext \/ UNCHANGED Board!boardVars
      OBVIOUS
    <2> USE DEF Go, Exit
    <2>0. ASSUME NEW q \in Publishes, Board!Upsert(q) \/ Board!ReportOk(q) \/ Board!GiveUp(q)
          PROVE  Board!BoardNext
      BY <2>0 DEF Board!BoardNext
    <2>1. ASSUME NEW r \in Runs, ArtifactLands(r) PROVE Board!BoardNext
      <3> DEFINE it == [run |-> r, pr |-> target[r]]
      <3>1. target[r] \in PRs /\ artifact[r] = "pending" /\ it \notin landed
        BY <2>1 DEF ArtifactLands, IInv, TypeOK, Placed, Aimed, Landing
      <3>2. it \in Publishes /\ it.run = r /\ it.pr = target[r]
        BY <3>1 DEF Publishes
      <3>3. Told[it] = "pending" /\ Told' = Told
        BY <2>1, <3>1, <3>2 DEF ArtifactLands, Told
      <3>4. Board!Upsert(it)
        BY <2>1, <3>1, <3>2, <3>3 DEF ArtifactLands, Board!Upsert, Told
      <3>5. QED BY <3>2, <3>4, <2>0
    <2>2. ASSUME NEW r \in Runs, ArtifactConfirmed(r) PROVE Board!BoardNext
      <3>1. PICK p \in PRs : target[r] = p
        BY <2>2 DEF ArtifactConfirmed, IInv, TypeOK, Placed, Aimed
      <3> DEFINE it == [run |-> r, pr |-> p]
      <3>2. it \in Publishes /\ it \in landed /\ artifact[r] = "pending"
        BY <2>2, <3>1 DEF ArtifactConfirmed, IInv, Placed, Aimed, Landing, Publishes
      <3>3. Told[it] = "pending" /\ Told' = [Told EXCEPT ![it] = "ok"]
        BY <2>2, <3>1, <3>2, OneIsTold DEF ArtifactConfirmed, IInv, Told
      <3>4. Board!ReportOk(it)
        BY <2>2, <3>2, <3>3 DEF ArtifactConfirmed, Board!ReportOk, Told
      <3>5. QED BY <3>2, <3>4, <2>0
    <2>3. ASSUME NEW r \in Runs, pc[r] \in {"push", "pushed"}, board' = board, landed' = landed,
                 target' = target,
                 NEW o \in {"error", "crashed"}, artifact' = [artifact EXCEPT ![r] = o]
          PROVE  Board!BoardNext
      <3>1. PICK p \in PRs : target[r] = p
        BY <2>3 DEF IInv, TypeOK, Placed, Aimed
      <3> DEFINE it == [run |-> r, pr |-> p]
      <3>2. it \in Publishes /\ artifact[r] = "pending"
        BY <2>3 DEF IInv, Placed, Aimed, Publishes
      <3>3. Told[it] = "pending" /\ Told' = [Told EXCEPT ![it] = o]
        BY <2>3, <3>1, <3>2, OneIsTold DEF IInv, Told
      <3>4. Board!GiveUp(it)
        BY <2>3, <3>3 DEF Board!GiveUp, Told
      <3>5. QED BY <3>2, <3>4, <2>0
    <2>4. ASSUME NEW r \in Runs, ArtifactFails(r) PROVE Board!BoardNext
      BY <2>3, <2>4 DEF ArtifactFails
    <2>5. ASSUME NEW r \in Runs, Die(r) PROVE Board!BoardNext \/ UNCHANGED Board!boardVars
      <3>1. CASE pc[r] \in {"push", "pushed"}
        <4>1. artifact' = [artifact EXCEPT ![r] = "crashed"]
          BY <2>5, <3>1 DEF Die
        <4>2. QED BY <2>3, <2>5, <3>1, <4>1 DEF Die
      <3>2. CASE pc[r] \notin {"push", "pushed"}
        <4>1. artifact' = artifact
          BY <2>5, <3>2 DEF Die, IInv, TypeOK
        <4>2. QED BY <2>5, <4>1 DEF Die, Board!boardVars
      <3>3. QED BY <3>1, <3>2
    <2>6. ASSUME NEW r \in Runs, ResolveArtifact(r) PROVE UNCHANGED Board!boardVars
      <3>1. target[r] = None /\ artifact[r] = "pending"
        BY <2>6 DEF ResolveArtifact, IInv, Placed, Aimed
      <3>2. Told' = Told
        <4>1. \A q \in Publishes : q.run \in Runs
          BY DEF Publishes
        <4>2. \A q \in Publishes : Told'[q] = Told[q]
          BY <2>6, <3>1, <4>1 DEF ResolveArtifact, IInv, TypeOK, Told
        <4>3. QED BY <4>2 DEF Told
      <3>3. QED BY <2>6, <3>2 DEF ResolveArtifact, Board!boardVars, Told
    <2>7. ASSUME UNCHANGED <<board, landed, target, artifact>>
          PROVE  UNCHANGED Board!boardVars
      BY <2>7 DEF Board!boardVars
    <2>8. ASSUME NEW r \in Runs, \/ Refuse(r) \/ Collect(r) \/ SkipArtifact(r) \/ StoreRef(r)
                                 \/ PrintBody(r) \/ Upsert(r) \/ UpsertFails(r) \/ Hint(r)
          PROVE  UNCHANGED <<board, landed, target, artifact>>
      BY <2>8 DEF Refuse, Collect, SkipArtifact, StoreRef, PrintBody, Upsert, UpsertFails, Hint
    <2>9. CASE \/ ViewChanges \/ VisibilityChanges \/ \E p \in PRs : CiPosts(p)
               \/ UNCHANGED vars
      BY <2>7, <2>9 DEF ViewChanges, VisibilityChanges, CiPosts, vars
    <2>10. QED
      BY <2>1, <2>2, <2>4, <2>5, <2>6, <2>7, <2>8, <2>9 DEF Next, Step, Publish
  <1>3. QED BY <1>1, <1>2, IInvHolds, PTL DEF Spec, PublishesOnBoard, Board!BoardSpec
================================================================================
