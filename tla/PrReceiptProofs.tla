----------------------------- MODULE PrReceiptProofs -----------------------------
(***************************************************************************)
(* Proofs about what the receipt of a pull request counts: PrReceipt, for  *)
(* any tree of transcripts; PrContributors, for any transcripts and any    *)
(* branch; and PrSlice, for any session, branches and worktrees.           *)
(*                                                                         *)
(* PrReceipt.  Two sessions whose rollups both reach f are both above f, *)
(* hence one above the other, g above h.  Then h is a child path, so it    *)
(* was credited by selection and its subtree was listed before the first   *)
(* rollup (Descended), f included if it was there from the start; all of   *)
(* that is kept out of g's rows (Excluded).                                *)
(*                                                                         *)
(* And none is lost: what is excluded from g's rollup is credited, or was  *)
(* found under a credited session below g (Descended), so the innermost    *)
(* credited session above a transcript is never kept from looking at it    *)
(* (LookedAt).  There is an innermost one as a path is finite.             *)
(*                                                                         *)
(* PrSlice.  One more call adds its events behind those there are, so they *)
(* stay in the order of the turns (InOrder), and a commit that was shown   *)
(* has its event (Traced); that event is the branch's own, and the slice   *)
(* is drawn around all of those.  What starts a slice is the last write of *)
(* another branch before it.  A printed amend that nothing separates from  *)
(* the commit before it replaced the tip, and that was this commit (Tip).  *)
(*                                                                         *)
(* PerCommit.  A boundary is the first turn to show a commit of the branch *)
(* (FreshOrder: boundaries are in the order of the branch, as an amend     *)
(* only ever replaces the tip, Stacked), and the k-th row ends at the k-th *)
(* boundary (NthIs).  What a turn showed was made in it (Booked).          *)
(***************************************************************************)
EXTENDS PrReceipt, PrContributors, PrSlice, SequenceTheorems, FiniteSetTheorems,
        WellFoundedInduction, TLAPS

-----------------------------------------------------------------------------
(* Induction, for sets of numbers. *)
Below == {ss \in Nat \X Nat : ss[1] < ss[2]}

LEMMA LeastOf ==
  ASSUME NEW T, T \subseteq Nat, T # {}
  PROVE  \E n \in T : \A m \in T : n <= m
  <1>1. IsWellFoundedOn(Below, Nat)
    BY NatLessThanWellFounded DEF OpToRel, Below
  <1>2. PICK n \in T : \A m \in T : <<m, n>> \notin Below
    BY <1>1, WFMin
  <1>3. n \in Nat /\ \A m \in T : m \in Nat /\ ~(m < n)
    BY <1>2 DEF Below
  <1> QED
    BY <1>3

LEMMA AllOf ==
  ASSUME NEW T, 0 \in T, \A n \in Nat : n \in T => n + 1 \in T
  PROVE  Nat \subseteq T
  <1> SUFFICES ASSUME Nat \ T # {} PROVE FALSE
    OBVIOUS
  <1>1. PICK n \in Nat \ T : \A m \in Nat \ T : n <= m
    BY LeastOf
  <1>2. n # 0 /\ n - 1 \in Nat /\ ~(n <= n - 1)
    BY <1>1
  <1>3. n - 1 \in T
    BY <1>1, <1>2
  <1> QED
    BY <1>1, <1>2, <1>3

(* A recursive function along a sequence exists, whatever its step.         *)
Iterable(V, v, len, step) ==
    \E f \in [0..len -> V] : f[0] = v /\ \A i \in 1..len : f[i] = step[i][f[i - 1]]

LEMMA Iterated ==
  ASSUME NEW V, NEW v \in V, NEW len \in Nat, NEW step \in [1..len -> [V -> V]]
  PROVE  Iterable(V, v, len, step)
  <1> DEFINE upto(n) == {f \in [0..n -> V] :
                            f[0] = v /\ \A i \in 1..n : f[i] = step[i][f[i - 1]]}
             T == {n \in Nat : n <= len => upto(n) # {}}
  <1>1. 0 \in T
    <2>1. [i \in 0..0 |-> v] \in upto(0)
      OBVIOUS
    <2> HIDE DEF upto
    <2> QED  BY <2>1
  <1>2. ASSUME NEW n \in Nat, n \in T PROVE n + 1 \in T
    <2> SUFFICES ASSUME n + 1 <= len PROVE upto(n + 1) # {}
      <3> HIDE DEF upto
      <3> QED  OBVIOUS
    <2>1. PICK f \in [0..n -> V] : f[0] = v /\ \A i \in 1..n : f[i] = step[i][f[i - 1]]
      BY <1>2
    <2> DEFINE g == [i \in 0..(n + 1) |-> IF i = n + 1 THEN step[n + 1][f[n]] ELSE f[i]]
    <2>2. step[n + 1][f[n]] \in V
      BY <2>1
    <2>3. g \in [0..(n + 1) -> V] /\ g[0] = v
      BY <2>1, <2>2
    <2>4. ASSUME NEW i \in 1..(n + 1) PROVE g[i] = step[i][g[i - 1]]
      <3>1. CASE i = n + 1
        <4>1. g[i - 1] = f[n] /\ g[i] = step[n + 1][f[n]]
          BY <3>1
        <4> QED  BY <3>1, <4>1
      <3>2. CASE i \in 1..n
        <4>1. g[i] = f[i] /\ g[i - 1] = f[i - 1]
          BY <3>2
        <4> QED  BY <2>1, <3>2, <4>1
      <3> QED  BY <3>1, <3>2
    <2> HIDE DEF g
    <2>5. g \in upto(n + 1)
      BY <2>3, <2>4
    <2> QED  BY <2>5
  <1>3. upto(len) # {}
    <2> HIDE DEF upto
    <2>1. Nat \subseteq T
      <3> HIDE DEF T
      <3> QED  BY <1>1, <1>2, AllOf
    <2> QED  BY <2>1
  <1> QED
    BY <1>3 DEF Iterable

-----------------------------------------------------------------------------

Phased ==
    /\ AtStart \subseteq onDisk
    /\ phase = "nested" => contributors = {}
    /\ phase \in {"nested", "descend"} => DOMAIN rows = {} /\ covered = {}
    /\ phase \in {"nested", "descend", "rollup"} => promoted = {}

Descended ==
    /\ phase \notin {"nested", "descend"} => promotedChildPaths \subseteq DOMAIN descendants
    /\ \A g \in DOMAIN descendants : \A f \in AtStart :
          g \in Above[f] => f \in descendants[g]
    /\ \A g \in DOMAIN descendants : \A f \in descendants[g] : g \in Above[f]

Excluded ==
    \A g \in DOMAIN rows : \A f \in rows[g] :
        g \in Above[f] /\ f \notin exclusionsFor(g)

CoveredOnce ==
    /\ phase = "rollup" => contributors \cap DOMAIN rows \subseteq covered
    /\ contributors \cap promoted = {}

(* A rollup looks at all it is not kept from, and none of them is skipped. *)
LookedAt ==
    /\ \A g \in DOMAIN considered : \A f \in AtStart :
          g \in Above[f] /\ f \notin exclusionsFor(g) => f \in considered[g]
    /\ phase \in {"promoted", "done"} => contributors \subseteq DOMAIN rows
    /\ phase = "done" => promoted \subseteq DOMAIN rows

IInv == TypeOK /\ Phased /\ Descended /\ Excluded /\ CoveredOnce /\ LookedAt

-----------------------------------------------------------------------------
LEMMA InitIInv == Init => IInv
  BY PrReceiptAssumption DEF Init, IInv, TypeOK, Phased, Descended, Excluded, CoveredOnce,
     LookedAt, promotedChildPaths

LEMMA AppearKeeps == IInv /\ Appear => IInv'
  <1> SUFFICES ASSUME IInv, Appear PROVE IInv'
    OBVIOUS
  <1>1. PICK f \in Files : onDisk' = onDisk \cup {f}
    BY DEF Appear
  <1>2. TypeOK'
    BY <1>1 DEF Appear, IInv, TypeOK, Credited, promotedChildPaths
  <1>3. Excluded'
    BY DEF Appear, IInv, Excluded, promotedChildPaths, exclusionsFor
  <1>4. LookedAt'
    BY DEF Appear, IInv, LookedAt, promotedChildPaths, exclusionsFor
  <1>5. QED
    BY <1>1, <1>2, <1>3, <1>4 DEF Appear, IInv, Phased, Descended, CoveredOnce, promotedChildPaths

LEMMA NestedKeeps ==
  ASSUME IInv, NEW parent \in Files, NestedCandidates(parent)
  PROVE  IInv'
  <1>1. \A f \in DirectChildren(parent) : f \in onDisk /\ Above[f] = {parent}
    BY DEF NestedCandidates, DirectChildren, discoverChildFiles, TopLevel
  <1>2. TypeOK'
    BY <1>1 DEF NestedCandidates, IInv, TypeOK, Credited, promotedChildPaths
  <1>3. QED
    BY <1>2 DEF NestedCandidates, IInv, Phased, Descended, Excluded, CoveredOnce, LookedAt,
       promotedChildPaths, exclusionsFor

LEMMA SelectKeeps == IInv /\ Select => IInv'
  <1> SUFFICES ASSUME IInv, Select PROVE IInv'
    OBVIOUS
  <1>1. DOMAIN descendants = {} /\ DOMAIN rows = {} /\ promoted = {} /\ covered = {}
    BY DEF Select, IInv, TypeOK, Phased, promotedChildPaths
  <1>2. contributors' \subseteq onDisk /\ sidechains' \subseteq Sidechains \cap parents
    <2>1. Nameable \subseteq onDisk
      BY PrReceiptAssumption DEF Nameable, TopLevel, discoverChildFiles, IInv, Phased, TypeOK
    <2>2. parents \subseteq onDisk /\ nested \subseteq onDisk
      BY DEF IInv, TypeOK, Phased
    <2>3. QED
      BY <2>1, <2>2 DEF Select
  <1>3. TypeOK'
    BY <1>1, <1>2 DEF Select, IInv, TypeOK, promotedChildPaths
  <1>4. QED
    BY <1>1, <1>3 DEF Select, IInv, TypeOK, Phased, Descended, Excluded, CoveredOnce, LookedAt

LEMMA DescendKeeps ==
  ASSUME IInv, NEW g \in Files, Descend(g)
  PROVE  IInv'
  <1>1. DOMAIN rows = {} /\ promotedChildPaths' = promotedChildPaths
    BY DEF Descend, IInv, Phased, promotedChildPaths
  <1>2. /\ DOMAIN descendants' = DOMAIN descendants \cup {g}
        /\ \A h \in DOMAIN descendants : h # g => descendants'[h] = descendants[h]
        /\ descendants'[g] = discoverChildFiles(g)
    BY DEF Descend, Append1
  <1>3. TypeOK'
    BY <1>1, <1>2 DEF Descend, IInv, TypeOK
  <1>4. Descended'
    <2>1. /\ \A f \in AtStart : g \in Above[f] => f \in discoverChildFiles(g)
          /\ \A f \in discoverChildFiles(g) : g \in Above[f]
      BY DEF discoverChildFiles, IInv, Phased
    <2>2. \A h \in DOMAIN descendants' :
            /\ \A f \in AtStart : h \in Above[f] => f \in descendants'[h]
            /\ \A f \in descendants'[h] : h \in Above[f]
      BY <1>2, <2>1 DEF IInv, Descended
    <2>3. QED
      BY <2>2 DEF Descend, Descended
  <1>5. QED
    BY <1>1, <1>3, <1>4 DEF Descend, IInv, TypeOK, Phased, Excluded, CoveredOnce, LookedAt

LEMMA AllDescendedKeeps == IInv /\ AllDescended => IInv'
  BY DEF AllDescended, IInv, TypeOK, Phased, Descended, Excluded, CoveredOnce, LookedAt,
     promotedChildPaths, exclusionsFor

(* A rollup's rows are under the session it rolls up, none of them excluded. *)
LEMMA RollUpKeeps ==
  ASSUME IInv, NEW g \in Credited \ DOMAIN rows, RollUp(g),
         phase \in {"rollup", "promoted"}, phase = "promoted" => g \notin contributors,
         UNCHANGED <<onDisk, phase, nested, parents, contributors, sidechains,
                     descendants, promoted>>
  PROVE  IInv'
  <1> DEFINE found == discoverChildFiles(g) \ exclusionsFor(g)
  <1>1. PICK shown \in SUBSET found :
          /\ rows' = Append1(rows, g, shown)
          /\ covered' = IF phase = "rollup" THEN covered \cup {g} \cup shown ELSE covered
    BY DEF RollUp
  <1>2. considered' = Append1(considered, g, found)
    BY DEF RollUp
  <1>3. /\ DOMAIN rows' = DOMAIN rows \cup {g} /\ rows'[g] = shown
        /\ \A h \in DOMAIN rows : rows'[h] = rows[h]
    BY <1>1 DEF Append1
  <1>4. /\ DOMAIN considered' = DOMAIN considered \cup {g} /\ considered'[g] = found
        /\ \A h \in DOMAIN rows : considered'[h] = considered[h]
    BY <1>2 DEF Append1, IInv, TypeOK
  <1>5. found \subseteq onDisk /\ g \in Credited /\ Credited \subseteq onDisk
    BY DEF discoverChildFiles, Credited, IInv, TypeOK, Phased
  <1>6. TypeOK'
    BY <1>1, <1>3, <1>4, <1>5 DEF IInv, TypeOK, Credited, promotedChildPaths
  <1>7. Excluded'
    <2>1. \A h : exclusionsFor(h)' = exclusionsFor(h)
      BY DEF exclusionsFor, promotedChildPaths
    <2>2. \A f \in shown : g \in Above[f] /\ f \notin exclusionsFor(g)
      BY DEF discoverChildFiles
    <2>3. QED
      BY <1>3, <2>1, <2>2 DEF IInv, Excluded
  <1>8. CoveredOnce'
    BY <1>1, <1>3 DEF IInv, CoveredOnce
  <1>9. Phased' /\ Descended'
    BY <1>1 DEF IInv, Phased, Descended, promotedChildPaths
  <1>10. LookedAt'
    <2>1. \A h : exclusionsFor(h)' = exclusionsFor(h)
      BY DEF exclusionsFor, promotedChildPaths
    <2>2. \A f \in AtStart : g \in Above[f] /\ f \notin exclusionsFor(g) => f \in found
      BY DEF discoverChildFiles, IInv, Phased
    <2>3. QED
      BY <1>3, <1>4, <2>1, <2>2 DEF IInv, TypeOK, LookedAt
  <1>11. QED
    BY <1>6, <1>7, <1>8, <1>9, <1>10 DEF IInv

LEMMA PromoteKeeps == IInv /\ Promote => IInv'
  <1> SUFFICES ASSUME IInv, Promote PROVE IInv'
    OBVIOUS
  <1>1. promoted = {} /\ contributors \subseteq covered
    BY DEF Promote, IInv, Phased, CoveredOnce
  <1>2. TypeOK'
    BY <1>1 DEF Promote, IInv, TypeOK, Credited, promotedChildPaths
  <1>3. CoveredOnce'
    BY <1>1 DEF Promote, CoveredOnce
  <1>4. QED
    BY <1>2, <1>3 DEF Promote, IInv, Phased, Descended, Excluded, LookedAt,
       promotedChildPaths, exclusionsFor

LEMMA FinishKeeps == IInv /\ Finish => IInv'
  BY DEF Finish, IInv, TypeOK, Phased, Descended, Excluded, CoveredOnce, LookedAt, Credited,
     promotedChildPaths, exclusionsFor

LEMMA StutterKeeps == IInv /\ UNCHANGED vars => IInv'
  BY DEF vars, IInv, TypeOK, Phased, Descended, Excluded, CoveredOnce, LookedAt, Credited,
     promotedChildPaths, exclusionsFor

(* The inductive invariant holds in every reachable state.                 *)
THEOREM IInvHolds == Spec => []IInv
  <1>1. IInv /\ [Next]_vars => IInv'
    <2> SUFFICES ASSUME IInv, [Next]_vars PROVE IInv'
      OBVIOUS
    <2>1. ASSUME NEW g \in Files, RollUpContributor(g) PROVE IInv'
      BY <2>1, RollUpKeeps DEF RollUpContributor, Credited
    <2>2. ASSUME NEW g \in Files, RollUpPromoted(g) PROVE IInv'
      BY <2>2, RollUpKeeps DEF RollUpPromoted, Credited, IInv, CoveredOnce
    <2>3. QED
      BY <2>1, <2>2, AppearKeeps, NestedKeeps, SelectKeeps, DescendKeeps,
         AllDescendedKeeps, PromoteKeeps, FinishKeeps, StutterKeeps DEF Next
  <1>2. QED
    BY <1>1, InitIInv, PTL DEF Spec

(* Every value keeps its type, and what is covered, nested or promoted is   *)
(* where the command found it.                                             *)
THEOREM Typing == Spec => []TypeOK
  <1>1. IInv => TypeOK
    BY DEF IInv
  <1>2. QED
    BY <1>1, IInvHolds, PTL

-----------------------------------------------------------------------------
LEMMA RowsAreNotCredited ==
  ASSUME IInv, NEW g \in DOMAIN rows, NEW f \in rows[g]
  PROVE  f \notin Credited
  <1>1. g \in Above[f] /\ f \notin exclusionsFor(g)
    BY DEF IInv, Excluded
  <1>2. f \notin contributors
    BY <1>1 DEF exclusionsFor, promotedChildPaths, isChildPath
  <1>3. f \notin promoted
    BY <1>1, PrReceiptAssumption DEF IInv, TypeOK, TopLevel
  <1>4. QED
    BY <1>2, <1>3 DEF Credited

LEMMA InnerRollUpOwns ==
  ASSUME IInv, NEW g \in DOMAIN rows, NEW h \in DOMAIN rows, g \in Above[h],
         NEW f \in AtStart, f \in rows[g], f \in rows[h]
  PROVE  FALSE
  <1>1. h \in Above[f] /\ f \notin exclusionsFor(g)
    BY DEF IInv, Excluded
  <1>2. h \in promotedChildPaths
    BY PrReceiptAssumption
       DEF IInv, TypeOK, Credited, TopLevel, promotedChildPaths, isChildPath
  <1>3. h \in DOMAIN descendants
    BY <1>2 DEF IInv, Phased, Descended, TypeOK
  <1>4. f \in descendants[h]
    BY <1>1, <1>3 DEF IInv, Descended
  <1>5. h # g
    BY <1>2, PrReceiptAssumption DEF promotedChildPaths, IInv, TypeOK
  <1>6. QED
    BY <1>1, <1>2, <1>4, <1>5 DEF exclusionsFor, isDescendantOfContributor

(* Whatever appears while the command runs, a transcript that was there    *)
(* when it started counts once: for any tree of subagents, any selection   *)
(* and any promotion.                                                      *)
THEOREM SettledFilesCountOnce == Spec => []SettledCountedOnce
  <1>1. IInv => SettledCountedOnce
    <2> SUFFICES ASSUME IInv, NEW f \in AtStart, CountedTwice(f) PROVE FALSE
      BY DEF SettledCountedOnce
    <2>1. f \notin contributors \cap promoted
      BY DEF IInv, CoveredOnce
    <2>2. ~(f \in Credited /\ \E g \in DOMAIN rows : f \in rows[g])
      BY RowsAreNotCredited
    <2>3. PICK g \in DOMAIN rows, h \in DOMAIN rows : g # h /\ f \in rows[g] /\ f \in rows[h]
      BY <2>1, <2>2 DEF CountedTwice
    <2>4. g \in Above[f] /\ h \in Above[f]
      BY <2>3 DEF IInv, Excluded
    <2>5. g \in Above[h] \/ h \in Above[g]
      BY <2>3, <2>4, PrReceiptAssumption
    <2>6. QED
      BY <2>3, <2>5, InnerRollUpOwns
  <1>2. QED
    BY <1>1, IInvHolds, PTL

-----------------------------------------------------------------------------
(* Of some sessions above a transcript one is the innermost. *)
LEMMA Innermost ==
  ASSUME NEW f \in Files, NEW S, S \subseteq Above[f], S # {}
  PROVE  \E g \in S : \A h \in S : g \notin Above[h]
  <1> DEFINE depth(g) == Cardinality(Above[g])
             left(g) == depth(f) - depth(g)
             T == {left(g) : g \in S}
  <1>1. \A g \in S : g \in Files /\ Above[g] \subseteq Above[f]
    BY PrReceiptAssumption
  <1>2. \A g \in S : depth(g) \in Nat /\ depth(f) \in Nat /\ depth(g) <= depth(f)
    BY <1>1, PrReceiptAssumption, FS_Subset, FS_CardinalityType
  <1>3. T \subseteq Nat /\ T # {}
    <2> HIDE DEF depth
    <2> QED  BY <1>2
  <1> HIDE DEF T
  <1>4. PICK n \in T : \A m \in T : n <= m
    BY <1>3, LeastOf
  <1>5. PICK g \in S : n = left(g)
    BY DEF T
  <1>6. ASSUME NEW h \in S, g \in Above[h] PROVE FALSE
    <2>1. /\ IsFiniteSet(Above[h]) /\ IsFiniteSet(Above[g]) /\ g \notin Above[g]
          /\ Above[g] \subseteq Above[h]
      BY <1>1, <1>6, PrReceiptAssumption
    <2>2. IsFiniteSet(Above[g] \cup {g}) /\ Cardinality(Above[g] \cup {g}) = depth(g) + 1
      BY <2>1, FS_AddElement
    <2>3. Above[g] \cup {g} \subseteq Above[h]
      BY <1>6, <2>1
    <2>4. depth(g) + 1 <= depth(h)
      BY <2>1, <2>2, <2>3, FS_Subset
    <2>5. left(g) <= left(h)
      BY <1>4, <1>5 DEF T
    <2> HIDE DEF depth
    <2> QED  BY <1>2, <2>4, <2>5
  <1> QED  BY <1>6

(* However deep the tree, whatever is promoted and whichever transcripts   *)
(* do not load: one that was there when the command started and is under a *)
(* credited session is credited itself or in sight of a rollup.            *)
THEOREM NoTranscriptIsLost == Spec => []NoChildForgotten
  <1>1. IInv => NoChildForgotten
    <2> SUFFICES ASSUME IInv, phase = "done", NEW f \in AtStart,
                        Above[f] \cap Credited # {}, f \notin Credited
                 PROVE  f \in Considered
      BY DEF NoChildForgotten
    <2>1. PICK g \in Above[f] \cap Credited :
             \A h \in Above[f] \cap Credited : g \notin Above[h]
      <3> DEFINE S == Above[f] \cap Credited
      <3>1. f \in Files /\ S \subseteq Above[f] /\ S # {}
        BY PrReceiptAssumption
      <3> HIDE DEF S
      <3> QED  BY <3>1, Innermost DEF S
    <2>2. f \notin promotedChildPaths
      BY DEF promotedChildPaths, Credited
    <2>3. ASSUME NEW h \in promotedChildPaths, isDescendantOfContributor(h, g)
          PROVE  f \notin descendants[h]
      <3>1. h \in DOMAIN descendants /\ h \in Credited
        BY DEF IInv, Descended, promotedChildPaths, Credited
      <3>2. h \notin Above[f]
        BY <2>1, <2>3, <3>1 DEF isDescendantOfContributor
      <3> QED
        BY <3>1, <3>2 DEF IInv, Descended
    <2>4. f \notin exclusionsFor(g)
      BY <2>2, <2>3 DEF exclusionsFor
    <2>5. g \in DOMAIN considered
      BY DEF IInv, TypeOK, LookedAt, Credited
    <2> QED
      BY <2>4, <2>5 DEF IInv, LookedAt, Considered
  <1> QED
    BY <1>1, IInvHolds, PTL

-----------------------------------------------------------------------------
(* PrContributors: each candidate is in one of the cases of the decision.   *)
Tried ==
    /\ loaded \cup failed \subseteq Sessions /\ loaded \cap failed = {}
    /\ done => loaded \cup failed = Sessions

(* What a transcript printed of the branch is evidence.                     *)
LEMMA ProofIsEvidence ==
  ASSUME NEW s, ProvedShas(s) # {}
  PROVE  OwnEvidence(s)
  BY DEF ProvedShas, OwnEvidence, HasOwn

(* A helper ran in this worktree, so its slice is not too uncertain.        *)
LEMMA HereIsCertain ==
  ASSUME NEW s, Here(s) \/ Helper(s)
  PROVE  Here(s) /\ ~TooUncertain(s)
  BY DEF Helper, Here, TooUncertain

LEMMA DecisionExplains ==
  ASSUME Tried, Decide, NEW s \in Sessions
  PROVE  /\ s \in failed \/ Here(s) \/ ProvedShas(s) # {} => s \in CreditedSessions' \cup Surfaced'
         /\ s \notin CreditedSessions' \cap Surfaced'
  <1>1. /\ credited' = Credits /\ events' = Drops
        /\ (s \in loaded) <=> ~(s \in failed)
    BY DEF Tried, Decide
  <1> DEFINE counted == \/ s \in loaded /\ (OwnEvidence(s) \/ Helper(s)) /\ ~TooUncertain(s)
                        \/ s \in loaded /\ ~OwnEvidence(s) /\ ~Helper(s) /\ MessageCredited(s)
             told == \/ s \in failed
                     \/ s \in loaded /\ OwnEvidence(s) /\ TooUncertain(s)
                     \/ /\ s \in loaded /\ Here(s) /\ ~OwnEvidence(s) /\ ~Helper(s)
                        /\ ~MessageCredited(s)
  <1>2. s \in CreditedSessions' <=> counted
    <2>1. \A t, basis : Credit(t, basis).session = t
      BY DEF Credit
    <2>3. CreditedSessions' = {c.session : c \in Credits}
      BY <1>1 DEF CreditedSessions
    <2>4. ASSUME NEW c \in Credits, c.session = s PROVE counted
      BY <2>1, <2>4 DEF Credits
    <2>5. ASSUME counted PROVE \E c \in Credits : c.session = s
      <3>1. CASE (OwnEvidence(s) \/ Helper(s)) /\ ~TooUncertain(s)
        <4> DEFINE c == Credit(s, IF OwnEvidence(s) THEN "anchor" ELSE "helper")
        <4>1. c \in Credits
          BY <2>5, <3>1 DEF Credits
        <4> QED  BY <2>1, <4>1
      <3>2. CASE ~OwnEvidence(s) /\ ~Helper(s) /\ MessageCredited(s)
        <4> DEFINE c == Credit(s, "message")
        <4>1. c \in Credits
          BY <2>5, <3>2 DEF Credits
        <4> QED  BY <2>1, <4>1
      <3> QED  BY <2>5, <3>1, <3>2
    <2> HIDE DEF counted
    <2> QED
      BY <2>3, <2>4, <2>5
  <1>3. s \in Surfaced' <=> told
    <2>1. \A t, kind : Event(t, kind).session = t
      BY DEF Event
    <2>2. \A t : \A e \in FailureEvent(t) : e.session = t
      BY <2>1 DEF FailureEvent
    <2>3. \A t : FailureEvent(t) # {}
      BY DEF FailureEvent
    <2>4. Surfaced' = {e.session : e \in Drops}
      BY <1>1 DEF Surfaced
    <2> DEFINE Failures == UNION {FailureEvent(t) : t \in failed}
               Uncertain == {t \in loaded : OwnEvidence(t) /\ TooUncertain(t)}
               Unproved == {t \in loaded : Here(t) /\ ~OwnEvidence(t) /\ ~Helper(t)
                                           /\ ~MessageCredited(t)}
               kind(t) == IF WritesGit(Script(t)) THEN "unanchored-git-write"
                          ELSE "silenced-git-write"
    <2>5. Drops = Failures
                    \cup {Event(t, "unattributable-anchor-pool") : t \in Uncertain}
                    \cup {Event(t, kind(t)) : t \in Unproved}
      BY Zenon DEF Drops
    <2>6. told <=> s \in failed \/ s \in Uncertain \/ s \in Unproved
      OBVIOUS
    <2>7. s \in failed <=> \E e \in Failures : e.session = s
      <3>1. ASSUME NEW e \in Failures, e.session = s PROVE s \in failed
        <4>1. PICK t \in failed : e \in FailureEvent(t)
          BY <3>1
        <4> QED  BY <2>2, <3>1, <4>1
      <3>2. ASSUME s \in failed PROVE \E e \in Failures : e.session = s
        <4>1. PICK e : e \in FailureEvent(s)
          BY <2>3
        <4>2. e \in Failures /\ e.session = s
          BY <2>2, <3>2, <4>1
        <4> QED  BY <4>2
      <3> HIDE DEF Failures
      <3> QED  BY <3>1, <3>2
    <2> HIDE DEF told, Failures, Uncertain, Unproved, kind
    <2>8. ASSUME NEW e \in Drops, e.session = s PROVE told
      BY <2>1, <2>5, <2>6, <2>7, <2>8
    <2>9. ASSUME told PROVE \E e \in Drops : e.session = s
      <3>1. CASE s \in failed
        BY <2>5, <2>7, <3>1
      <3>2. CASE s \in Uncertain
        <4>1. Event(s, "unattributable-anchor-pool") \in Drops
          BY <2>5, <3>2
        <4> QED  BY <2>1, <4>1
      <3>3. CASE s \in Unproved
        <4>1. Event(s, kind(s)) \in Drops
          BY <2>5, <3>3
        <4> QED  BY <2>1, <4>1
      <3> QED  BY <2>6, <2>9, <3>1, <3>2, <3>3
    <2> QED
      BY <2>4, <2>8, <2>9
  <1>4. counted \/ told \/ ~(s \in failed \/ Here(s) \/ ProvedShas(s) # {})
    BY <1>1, ProofIsEvidence, HereIsCertain
  <1>5. ~(counted /\ told)
    BY <1>1, HereIsCertain
  <1> HIDE DEF counted, told
  <1> QED
    BY <1>2, <1>3, <1>4, <1>5

(* SPEC-0044 (events.ts:1): whatever the transcripts show and whichever *)
(* of them do not load, a candidate that matters is counted or its absence  *)
(* is told, never both and never neither.                                   *)
THEOREM AbsenceIsTold == SelectionSpec => []NothingVanishes
  <1> DEFINE KInv == Tried /\ NothingVanishes
  <1>1. SelectionInit => KInv
    BY DEF SelectionInit, Tried, NothingVanishes
  <1>2. ASSUME KInv, [SelectionNext]_(selectionVars)
        PROVE  KInv'
    <2>1. ASSUME NEW s \in Sessions, Load(s)
          PROVE  KInv'
      BY <1>2, <2>1 DEF Load, Tried, NothingVanishes
    <2>2. CASE Decide
      <3>1. Tried'
        BY <1>2, <2>2 DEF Decide, Tried
      <3>2. candidate' = candidate /\ loaded' = loaded /\ failed' = failed
        BY <2>2 DEF Decide
      <3>3. \A s \in Sessions : (Here(s) <=> Here(s)') /\ ProvedShas(s)' = ProvedShas(s)
        BY <3>2 DEF Here, ProvedShas, Script
      <3>4. NothingVanishes'
        BY <1>2, <2>2, <3>2, <3>3, DecisionExplains DEF NothingVanishes
      <3> QED  BY <3>1, <3>4
    <2>3. CASE UNCHANGED selectionVars
      <3>1. /\ candidate' = candidate /\ loaded' = loaded /\ failed' = failed
            /\ credited' = credited /\ events' = events /\ done' = done
        BY <2>3 DEF selectionVars
      <3>2. Tried'
        BY <1>2, <3>1 DEF Tried
      <3>3. NothingVanishes'
        BY <1>2, <3>1 DEF NothingVanishes, Here, ProvedShas, Script, CreditedSessions, Surfaced
      <3> QED  BY <3>2, <3>3
    <2> QED
      BY <1>2, <2>1, <2>2, <2>3 DEF SelectionNext
  <1>3. KInv => NothingVanishes
    OBVIOUS
  <1> QED
    BY <1>1, <1>2, <1>3, PTL DEF SelectionSpec
-----------------------------------------------------------------------------
(* PrSlice: the events of a longer transcript.                              *)
LEMMA FlattenSteps ==
  ASSUME NEW S, NEW seqs \in Seq(Seq(S))
  PROVE  \E f \in [0..Len(seqs) -> Seq(S)] :
            /\ f[0] = <<>> /\ FlattenSeq(seqs) = f[Len(seqs)]
            /\ \A i \in 1..Len(seqs) : f[i] = f[i - 1] \o seqs[i]
  <1> DEFINE len == Len(seqs)
             V == Seq(S)
             start == <<>>
             Then(i, t) == t \o seqs[i]
             Body(h, i) == IF i = 1 THEN seqs[i] ELSE Then(i, h[i - 1])
             step == [i \in 1..len |-> [t \in V |-> Then(i, t)]]
             F == CHOOSE h : h = [i \in 1..len |-> Body(h, i)]
  <1>1. start \in V /\ len \in Nat
    BY EmptySeq
  <1>2. \A i \in 1..len : seqs[i] \in V /\ Then(i, start) = seqs[i]
    BY ElementOfSeq, ConcatEmptySeq
  <1>3. FlattenSeq(seqs) = IF len = 0 THEN seqs ELSE F[len]
    BY DEF FlattenSeq
  <1>4. ASSUME NEW i \in 1..len, NEW t \in V PROVE Then(i, t) \in V
    BY <1>2, ConcatProperties
  <1>5. len = 0 => seqs = start
    BY EmptySeq
  <1> HIDE DEF len, V, start, Then
  <1>12. step \in [1..len -> [V -> V]]
    BY <1>4
  <1>6. PICK f \in [0..len -> V] : f[0] = start /\ \A i \in 1..len : f[i] = step[i][f[i - 1]]
    <2> HIDE DEF step, F
    <2>1. \E f \in [0..len -> V] : f[0] = start /\ \A i \in 1..len : f[i] = step[i][f[i - 1]]
      <3>1. Iterable(V, start, len, step)
        BY <1>1, <1>12, Iterated, Zenon
      <3> QED  BY <3>1, Zenon DEF Iterable
    <2> QED  BY <2>1
  <1>7. ASSUME NEW i \in 1..len PROVE f[i] = Then(i, f[i - 1])
    <2>1. f[i - 1] \in V
      BY <1>1, <1>6
    <2> QED  BY <1>6, <2>1
  <1> DEFINE h == [i \in 1..len |-> f[i]]
  <1>8. h = [i \in 1..len |-> Body(h, i)]
    <2>1. ASSUME NEW i \in 1..len PROVE f[i] = Body(h, i)
      <3>1. CASE i = 1
        BY <1>1, <1>2, <1>6, <1>7, <3>1
      <3>2. CASE i # 1
        <4>1. i - 1 \in 1..len
          BY <1>1, <3>2
        <4> QED  BY <1>7, <3>2, <4>1
      <3> QED  BY <3>1, <3>2
    <2> HIDE DEF Body
    <2>2. \A i \in 1..len : f[i] = Body(h, i)
      BY <2>1
    <2> DEFINE g == h
    <2>3. \A i \in 1..len : f[i] = Body(g, i)
      BY <2>2
    <2>4. g = [i \in 1..len |-> f[i]]
      OBVIOUS
    <2> HIDE DEF g
    <2>5. g = [i \in 1..len |-> Body(g, i)]
      BY <2>3, <2>4
    <2> QED  BY <2>5 DEF g
  <1> HIDE DEF h
  <1>9. F = [i \in 1..len |-> Body(F, i)]
    <2> HIDE DEF Body
    <2> QED  BY <1>8
  <1> HIDE DEF F
  <1>10. \A i \in 1..len : F[i] = f[i]
    <2> DEFINE T == {n \in Nat : n \in 1..len => F[n] = f[n]}
    <2>1. 0 \in T
      OBVIOUS
    <2>2. ASSUME NEW n \in Nat, n \in T PROVE n + 1 \in T
      <3> SUFFICES ASSUME n + 1 \in 1..len PROVE F[n + 1] = f[n + 1]
        OBVIOUS
      <3>1. f[n + 1] = Then(n + 1, f[n])
        BY <1>7
      <3>2. CASE n = 0
        BY <1>1, <1>2, <1>6, <1>9, <3>1, <3>2
      <3>3. CASE n # 0
        <4>1. F[n] = f[n] /\ n + 1 # 1 /\ n + 1 \in 1..len /\ (n + 1) - 1 = n
          BY <1>1, <2>2, <3>3
        <4>2. F[n + 1] = Then(n + 1, F[n])
          BY <1>9, <4>1
        <4> QED  BY <3>1, <4>1, <4>2
      <3> QED  BY <3>2, <3>3
    <2>3. Nat \subseteq T
      <3> HIDE DEF T
      <3> QED  BY <2>1, <2>2, AllOf
    <2> QED  BY <1>1, <2>3
  <1>11. FlattenSeq(seqs) = f[len]
    <2>1. CASE len = 0
      BY <1>3, <1>5, <1>6, <2>1
    <2>2. CASE len # 0
      BY <1>1, <1>3, <1>10, <2>2
    <2> QED  BY <2>1, <2>2
  <1> QED
    BY <1>6, <1>7, <1>11 DEF len, V, start, Then

LEMMA FlattenAppend ==
  ASSUME NEW S, NEW seqs \in Seq(Seq(S)), NEW s \in Seq(S)
  PROVE  /\ FlattenSeq(seqs) \in Seq(S)
         /\ FlattenSeq(Append(seqs, s)) = FlattenSeq(seqs) \o s
  <1> DEFINE longer == Append(seqs, s)
             len == Len(seqs)
  <1>1. /\ longer \in Seq(Seq(S)) /\ Len(longer) = len + 1 /\ longer[len + 1] = s
        /\ \A i \in 1..len : longer[i] = seqs[i]
    BY AppendProperties
  <1> HIDE DEF longer
  <1>2. PICK f \in [0..Len(seqs) -> Seq(S)] :
            /\ f[0] = <<>> /\ FlattenSeq(seqs) = f[Len(seqs)]
            /\ \A i \in 1..Len(seqs) : f[i] = f[i - 1] \o seqs[i]
    BY FlattenSteps, ZenonT(30)
  <1>3. PICK g \in [0..Len(longer) -> Seq(S)] :
            /\ g[0] = <<>> /\ FlattenSeq(longer) = g[Len(longer)]
            /\ \A i \in 1..Len(longer) : g[i] = g[i - 1] \o longer[i]
    BY <1>1, FlattenSteps, ZenonT(30)
  <1>4. /\ len \in Nat /\ g[len + 1] = FlattenSeq(longer) /\ f[len] = FlattenSeq(seqs)
        /\ \A i \in 1..len : f[i] = f[i - 1] \o seqs[i]
        /\ \A i \in 1..(len + 1) : g[i] = g[i - 1] \o longer[i]
    BY <1>1, <1>2, <1>3, LenProperties
  <1> HIDE DEF len
  <1> DEFINE T == {n \in Nat : n <= len => g[n] = f[n]}
  <1>5. 0 \in T
    BY <1>2, <1>3
  <1>6. ASSUME NEW n \in Nat, n \in T PROVE n + 1 \in T
    <2> SUFFICES ASSUME n + 1 <= len PROVE g[n + 1] = f[n + 1]
      OBVIOUS
    <2>1. g[n] = f[n] /\ n + 1 \in 1..len /\ n + 1 \in 1..(len + 1) /\ (n + 1) - 1 = n
      BY <1>4, <1>6
    <2> QED  BY <1>1, <1>4, <2>1
  <1>7. Nat \subseteq T
    <2> HIDE DEF T
    <2> QED  BY <1>5, <1>6, AllOf
  <1>8. g[len] = f[len] /\ len + 1 \in 1..(len + 1) /\ (len + 1) - 1 = len
    BY <1>4, <1>7
  <1>9. g[len + 1] = g[len] \o longer[len + 1]
    BY <1>4, <1>8
  <1>10. FlattenSeq(seqs) \in Seq(S)
    <2>1. Len(seqs) \in 0..Len(seqs)
      BY LenProperties
    <2> QED  BY <1>2, <2>1
  <1> QED
    BY <1>1, <1>4, <1>8, <1>9, <1>10 DEF longer
-----------------------------------------------------------------------------
Verbs == {"commit", "push", "barrier", "other"}
Invocations == [verb : Verbs, amend : BOOLEAN, subject : {None}]
Calls == [turn : Nat, invs : Seq(Invocations), commits : Seq(Commits), pushes : SUBSET Commits]
GitEvents == [turn : Nat, verb : Verbs, amend : BOOLEAN, runs : SUBSET Commits]
EventsOf(call) ==
    [i \in DOMAIN call.invs |->
        [turn |-> call.turn, verb |-> call.invs[i].verb, amend |-> call.invs[i].amend,
         runs |-> RunsOf(call, i)]]

LEMMA RunsAreCommits ==
  ASSUME NEW c \in Calls, NEW i \in DOMAIN c.invs
  PROVE  /\ RunsOf(c, i) \in SUBSET Commits
         /\ c.invs[i].verb = "commit" => RunsOf(c, i) \subseteq ToSet(c.commits)
  <1>1. CASE /\ c.invs[i].verb = "commit"
             /\ Cardinality(WithVerb(c, "commit")) = Len(c.commits)
    <2> DEFINE all == WithVerb(c, "commit")
               upTo == {j \in all : j <= i}
    <2>1. c.invs \in Seq(Invocations) /\ c.commits \in Seq(Commits)
      BY DEF Calls
    <2>2. i \in 1..Len(c.invs) /\ DOMAIN c.invs = 1..Len(c.invs) /\ Len(c.invs) \in Nat
      BY <2>1, LenProperties
    <2>3. all \subseteq 1..Len(c.invs) /\ i \in all
      BY <1>1, <2>2 DEF WithVerb
    <2>4. IsFiniteSet(all)
      <3>1. IsFiniteSet(1..Len(c.invs))
        BY <2>2, FS_Interval
      <3> HIDE DEF all
      <3> QED  BY <2>3, <3>1, FS_Subset
    <2>5. upTo \in SUBSET all /\ upTo # {}
      BY <2>2, <2>3
    <2> HIDE DEF all, upTo
    <2>6. /\ Cardinality(upTo) \in Nat /\ Cardinality(upTo) # 0
          /\ Cardinality(upTo) <= Cardinality(all)
      BY <2>4, <2>5, FS_Subset, FS_CardinalityType, FS_EmptySet
    <2>7. Cardinality(all) = Len(c.commits) /\ Len(c.commits) \in Nat
      BY <1>1, <2>1, LenProperties DEF all
    <2>8. c.commits[Cardinality(upTo)] \in Commits /\ c.commits[Cardinality(upTo)] \in ToSet(c.commits)
      <3>1. Cardinality(upTo) \in 1..Len(c.commits) /\ DOMAIN c.commits = 1..Len(c.commits)
        BY <2>1, <2>6, <2>7, LenProperties
      <3> QED  BY <2>1, <3>1, ElementOfSeq DEF ToSet
    <2>9. RunsOf(c, i) = {c.commits[Cardinality(upTo)]}
      BY <1>1 DEF RunsOf, all, upTo
    <2> QED  BY <2>8, <2>9
  <1>2. CASE ~(/\ c.invs[i].verb = "commit"
               /\ Cardinality(WithVerb(c, "commit")) = Len(c.commits))
    BY <1>2 DEF RunsOf, Calls
  <1> QED  BY <1>1, <1>2

LEMMA EventsOfCall ==
  ASSUME NEW c \in Calls
  PROVE  /\ EventsOf(c) \in Seq(GitEvents) /\ Len(EventsOf(c)) = Len(c.invs)
         /\ DOMAIN EventsOf(c) = 1..Len(c.invs) /\ Len(c.invs) \in Nat
  <1>1. c.invs \in Seq(Invocations) /\ c.turn \in Nat
    BY DEF Calls
  <1>2. DOMAIN c.invs = 1..Len(c.invs) /\ Len(c.invs) \in Nat
    BY <1>1, LenProperties
  <1>3. ASSUME NEW i \in 1..Len(c.invs)
        PROVE  [turn |-> c.turn, verb |-> c.invs[i].verb, amend |-> c.invs[i].amend,
                runs |-> RunsOf(c, i)] \in GitEvents
    <2>1. c.invs[i] \in Invocations
      BY <1>1, ElementOfSeq
    <2>2. RunsOf(c, i) \in SUBSET Commits
      BY <1>2, RunsAreCommits
    <2> QED
      BY <1>1, <2>1, <2>2 DEF Invocations, GitEvents
  <1>4. EventsOf(c) \in [1..Len(c.invs) -> GitEvents]
    BY <1>2, <1>3 DEF EventsOf
  <1> QED
    BY <1>2, <1>4

LEMMA MoreEvents ==
  ASSUME NEW t \in Seq(Calls), NEW c \in Calls
  PROVE  /\ Events(t) \in Seq(GitEvents)
         /\ Events(Append(t, c)) = Events(t) \o EventsOf(c)
  <1> DEFINE each(u) == [n \in DOMAIN u |-> EventsOf(u[n])]
             V == Seq(GitEvents)
             longer == Append(t, c)
  <1>1. \A u : Events(u) = FlattenSeq(each(u))
    BY DEF Events, EventsOf
  <1>2. /\ longer \in Seq(Calls) /\ Len(longer) = Len(t) + 1 /\ longer[Len(t) + 1] = c
        /\ \A i \in 1..Len(t) : longer[i] = t[i]
        /\ DOMAIN t = 1..Len(t) /\ DOMAIN longer = 1..(Len(t) + 1) /\ Len(t) \in Nat
    BY AppendProperties, LenProperties
  <1>3. EventsOf(c) \in V /\ \A i \in 1..Len(t) : EventsOf(t[i]) \in V
    BY EventsOfCall, ElementOfSeq
  <1> HIDE DEF longer
  <1>4. each(t) \in Seq(V) /\ Len(each(t)) = Len(t)
    BY <1>2, <1>3
  <1>5. each(longer) = Append(each(t), EventsOf(c))
    BY <1>2, <1>3, <1>4
  <1> HIDE DEF each, V
  <1>6. FlattenSeq(each(t)) \in V /\ FlattenSeq(Append(each(t), EventsOf(c))) = FlattenSeq(each(t)) \o EventsOf(c)
    BY <1>3, <1>4, FlattenAppend DEF V
  <1> QED
    BY <1>1, <1>5, <1>6 DEF V, longer

LEMMA NoEvents == Events(<<>>) = <<>>
  BY EmptySeq DEF Events, FlattenSeq
-----------------------------------------------------------------------------
(* The transcript is in the order of the turns, and every commit that it    *)
(* shows has its event.                                                     *)
SliceTyped ==
    /\ transcript \in Seq(Calls)
    /\ head \in [Worktrees -> Branches]
    /\ log \in [Branches -> Seq(Commits)]
    /\ madeAt \in Seq(Nat)
    /\ preimages \in Seq(SUBSET Commits) /\ Len(preimages) = Len(madeAt)
    /\ diffs \in Seq(Commits) /\ Len(diffs) = Len(madeAt)

InOrder ==
    LET trail == Events(transcript)
    IN  \A j \in DOMAIN trail :
          /\ trail[j].turn < Len(transcript)
          /\ \A i \in DOMAIN trail : i <= j => trail[i].turn <= trail[j].turn

Pairs(call) == Cardinality(WithVerb(call, "commit")) = Len(call.commits)

Traced ==
    LET trail == Events(transcript)
    IN  \A n \in DOMAIN transcript : \A s \in ToSet(transcript[n].commits) :
          /\ s \in DOMAIN madeAt
          /\ Pairs(transcript[n]) =>
                \E k \in DOMAIN trail :
                    trail[k].verb = "commit" /\ trail[k].runs = {s} /\ trail[k].turn = madeAt[s]

SliceInv == SliceTyped /\ InOrder /\ Traced

(* What a call says of the commits made in its turn. *)
Truthful(call, made) ==
    \A s \in ToSet(call.commits) :
        /\ s \in DOMAIN made
        /\ Pairs(call) =>
              /\ made[s] = call.turn
              /\ \E i \in WithVerb(call, "commit") : RunsOf(call, i) = {s}

(* The events of one more call come after those there are. *)
LEMMA EventsAfter ==
  ASSUME SliceTyped, NEW c \in Calls, transcript' = Append(transcript, c)
  PROVE  LET old == Events(transcript)
             own == EventsOf(c)
             new == Events(transcript)'
         IN  /\ Len(old) \in Nat /\ DOMAIN old = 1..Len(old)
             /\ Len(own) \in Nat /\ DOMAIN own = 1..Len(own) /\ DOMAIN own = DOMAIN c.invs
             /\ DOMAIN new = 1..(Len(old) + Len(own)) /\ Len(new) = Len(old) + Len(own)
             /\ \A k \in 1..Len(old) : new[k] = old[k] /\ old[k] \in GitEvents
             /\ \A i \in 1..Len(own) :
                   new[Len(old) + i] = own[i] /\ Len(old) + i \in DOMAIN new
             /\ \A k \in DOMAIN new : k \in 1..Len(old) \/ \E i \in 1..Len(own) : k = Len(old) + i
             /\ \A i \in 1..Len(own) : /\ own[i].turn = c.turn /\ own[i].verb = c.invs[i].verb
                                       /\ own[i].amend = c.invs[i].amend
                                       /\ own[i].runs = RunsOf(c, i)
  <1> DEFINE old == Events(transcript)
             own == EventsOf(c)
             new == Events(Append(transcript, c))
  <1>1. old \in Seq(GitEvents) /\ own \in Seq(GitEvents) /\ new = old \o own
    BY MoreEvents, EventsOfCall DEF SliceTyped
  <1>2. DOMAIN own = DOMAIN c.invs
    BY DEF EventsOf
  <1>3. \A i \in DOMAIN own : /\ own[i].turn = c.turn /\ own[i].verb = c.invs[i].verb
                              /\ own[i].amend = c.invs[i].amend
                              /\ own[i].runs = RunsOf(c, i)
    BY <1>2 DEF EventsOf
  <1>4. Events(transcript)' = new
    OBVIOUS
  <1> HIDE DEF old, own, new
  <1>5. new \in Seq(GitEvents) /\ Len(new) = Len(old) + Len(own)
    BY <1>1, ConcatProperties
  <1>6. \A i \in 1..Len(old) + Len(own) : new[i] = IF i <= Len(old) THEN old[i] ELSE own[i - Len(old)]
    BY <1>1, ConcatProperties
  <1>7. Len(old) \in Nat /\ DOMAIN old = 1..Len(old) /\ Len(own) \in Nat /\ DOMAIN own = 1..Len(own)
        /\ DOMAIN new = 1..(Len(old) + Len(own))
    BY <1>1, <1>5, LenProperties
  <1>8. ASSUME NEW i \in 1..Len(own)
        PROVE  new[Len(old) + i] = own[i] /\ Len(old) + i \in DOMAIN new
    <2>1. /\ Len(old) + i \in 1..Len(old) + Len(own) /\ ~(Len(old) + i <= Len(old))
          /\ (Len(old) + i) - Len(old) = i
      BY <1>7
    <2> QED  BY <1>6, <1>7, <2>1
  <1>9. \A k \in 1..Len(old) : new[k] = old[k] /\ old[k] \in GitEvents
    <2>1. \A k \in 1..Len(old) : old[k] \in GitEvents
      BY <1>1, ElementOfSeq
    <2> QED  BY <1>6, <1>7, <2>1
  <1>10. \A k \in DOMAIN new : k \in 1..Len(old) \/ \E i \in 1..Len(own) : k = Len(old) + i
    <2> SUFFICES ASSUME NEW k \in 1..(Len(old) + Len(own)), k \notin 1..Len(old)
                 PROVE  \E i \in 1..Len(own) : k = Len(old) + i
      BY <1>7
    <2>1. k - Len(old) \in 1..Len(own) /\ k = Len(old) + (k - Len(old))
      BY <1>7
    <2> QED  BY <2>1
  <1> QED
    BY <1>2, <1>3, <1>4, <1>5, <1>7, <1>8, <1>9, <1>10 DEF old, own, new

LEMMA SayingKeepsOrder ==
  ASSUME SliceTyped, InOrder, Traced, NEW c \in Calls, c.turn = Len(transcript),
         transcript' = Append(transcript, c), Truthful(c, madeAt'),
         DOMAIN madeAt \subseteq DOMAIN madeAt', \A s \in DOMAIN madeAt : madeAt'[s] = madeAt[s]
  PROVE  InOrder' /\ Traced'
  <1> DEFINE t == transcript
             old == Events(t)
             own == EventsOf(c)
             new == Events(transcript)'
  <1>1. /\ t \in Seq(Calls) /\ DOMAIN t = 1..Len(t) /\ Len(t) \in Nat
        /\ DOMAIN transcript' = 1..(Len(t) + 1) /\ Len(transcript') = Len(t) + 1
        /\ transcript'[Len(t) + 1] = c /\ \A n \in 1..Len(t) : transcript'[n] = t[n]
    BY AppendProperties, LenProperties DEF SliceTyped
  <1>3. /\ Len(old) \in Nat /\ DOMAIN old = 1..Len(old)
        /\ Len(own) \in Nat /\ DOMAIN own = 1..Len(own) /\ DOMAIN own = DOMAIN c.invs
        /\ DOMAIN new = 1..(Len(old) + Len(own))
        /\ \A k \in 1..Len(old) : new[k] = old[k] /\ old[k] \in GitEvents
        /\ \A i \in 1..Len(own) : new[Len(old) + i] = own[i] /\ Len(old) + i \in DOMAIN new
    BY EventsAfter
  <1>7. \A k \in DOMAIN new : k \in 1..Len(old) \/ \E i \in 1..Len(own) : k = Len(old) + i
    BY EventsAfter
  <1>5. \A i \in 1..Len(own) : /\ own[i].turn = Len(t) /\ own[i].verb = c.invs[i].verb
                               /\ own[i].runs = RunsOf(c, i)
    BY EventsAfter
  <1>4. /\ \A k \in 1..Len(old) : old[k].turn < Len(t) /\ old[k].turn \in Nat
        /\ \A i, j \in 1..Len(old) : i <= j => old[i].turn <= old[j].turn
    BY <1>3 DEF InOrder, GitEvents
  <1>6. Events(transcript)' = new
    OBVIOUS
  <1> HIDE DEF t, old, own, new
  <1>8. \A k \in DOMAIN new : \/ k \in 1..Len(old) /\ new[k] = old[k]
                              \/ k > Len(old) /\ new[k].turn = Len(t)
    BY <1>3, <1>5, <1>7
  <1>9. InOrder'
    <2>1. \A j \in DOMAIN new : new[j].turn < Len(t) + 1
      BY <1>1, <1>4, <1>8
    <2>2. \A j \in DOMAIN new : \A i \in DOMAIN new : i <= j => new[i].turn <= new[j].turn
      BY <1>1, <1>3, <1>4, <1>8
    <2> QED
      BY <1>1, <1>6, <2>1, <2>2 DEF InOrder
  <1>10. Traced'
    <2>1. ASSUME NEW n \in 1..Len(t), NEW s \in ToSet(t[n].commits)
          PROVE  /\ s \in DOMAIN madeAt'
                 /\ Pairs(t[n]) =>
                      \E k \in DOMAIN new :
                         new[k].verb = "commit" /\ new[k].runs = {s} /\ new[k].turn = madeAt'[s]
      <3>1. /\ s \in DOMAIN madeAt
            /\ Pairs(t[n]) =>
                 \E k \in DOMAIN old :
                    old[k].verb = "commit" /\ old[k].runs = {s} /\ old[k].turn = madeAt[s]
        BY <1>1 DEF Traced, t, old
      <3>2. \A k \in DOMAIN old : k \in DOMAIN new /\ new[k] = old[k]
        BY <1>3
      <3> QED
        BY <3>1, <3>2
    <2>2. ASSUME NEW s \in ToSet(c.commits)
          PROVE  /\ s \in DOMAIN madeAt'
                 /\ Pairs(c) =>
                      \E k \in DOMAIN new :
                         new[k].verb = "commit" /\ new[k].runs = {s} /\ new[k].turn = madeAt'[s]
      <3>1. s \in DOMAIN madeAt'
        BY DEF Truthful
      <3>2. ASSUME Pairs(c)
            PROVE  \E k \in DOMAIN new :
                      new[k].verb = "commit" /\ new[k].runs = {s} /\ new[k].turn = madeAt'[s]
        <4>1. PICK i \in WithVerb(c, "commit") : RunsOf(c, i) = {s} /\ madeAt'[s] = c.turn
          BY <3>2 DEF Truthful
        <4>2. i \in 1..Len(own) /\ c.invs[i].verb = "commit"
          BY <1>3 DEF WithVerb
        <4>3. Len(old) + i \in DOMAIN new /\ new[Len(old) + i] = own[i]
          BY <1>3, <4>2
        <4> QED
          BY <1>5, <4>1, <4>2, <4>3 DEF t
      <3> QED
        BY <3>1, <3>2
    <2>3. ASSUME NEW n \in 1..(Len(t) + 1), NEW s \in ToSet(transcript'[n].commits)
          PROVE  /\ s \in DOMAIN madeAt'
                 /\ Pairs(transcript'[n]) =>
                      \E k \in DOMAIN new :
                         new[k].verb = "commit" /\ new[k].runs = {s} /\ new[k].turn = madeAt'[s]
      <3>1. n \in 1..Len(t) \/ n = Len(t) + 1
        BY <1>1
      <3> QED
        BY <1>1, <2>1, <2>2, <3>1
    <2> QED
      BY <1>1, <1>6, <2>3 DEF Traced
  <1> QED
    BY <1>9, <1>10
-----------------------------------------------------------------------------
(* The commits: a branch lists its own in the order they were made, and what *)
(* has the change of a later commit was replaced by it.                     *)
Increasing(s) == \A i, j \in DOMAIN s : i < j => s[i] < s[j]

(* An amend replaces the tip: what is below a commit is below what it replaced. *)
Stacked ==
    \A b \in Branches : \A s, t \in ToSet(log[b]) : \A p \in preimages[s] : t < s => t < p

LogInv ==
    /\ Len(madeAt) <= MaxCommits
    /\ Stacked
    /\ \A b \in Branches : Increasing(log[b]) /\ ToSet(log[b]) \subseteq 1..Len(madeAt)
    /\ \A a, b \in Branches : a # b => ToSet(log[a]) \cap ToSet(log[b]) = {}
    /\ \A s \in 1..Len(madeAt) :
          /\ diffs[s] \in 1..s
          /\ \A p \in preimages[s] : p \in 1..(s - 1) /\ preimages[p] \subseteq preimages[s]
    /\ \A x, y \in 1..Len(madeAt) :
          x < y /\ diffs[x] = diffs[y] =>
             x \in preimages[y] /\ \A b \in Branches : x \notin ToSet(log[b])

(* A new commit replaces none, or `old` and what `old` replaced. *)
Replaces(old, s) ==
    /\ \E b \in Branches : old \in ToSet(log[b])
    /\ \A b \in Branches : old \notin ToSet(log'[b])
    /\ \A b \in Branches : s \in ToSet(log'[b]) =>
          old \in ToSet(log[b]) /\ \A t \in ToSet(log'[b]) \ {s} : t < old
    /\ preimages'[s] = {old} \cup preimages[old]
    /\ diffs'[s] \in {s, diffs[old]}

Growth ==
    LET n == Len(madeAt)
        m == Len(madeAt')
    IN  /\ n \in Nat /\ m \in {n + 1, n + 2} /\ m <= MaxCommits
        /\ \A b \in Branches : /\ Increasing(log'[b])
                               /\ ToSet(log'[b]) \subseteq ToSet(log[b]) \cup ((n + 1)..m)
        /\ \A a, b \in Branches : a # b =>
              \A s \in (n + 1)..m : s \notin ToSet(log'[a]) \cap ToSet(log'[b])
        /\ \A s \in 1..n : preimages'[s] = preimages[s] /\ diffs'[s] = diffs[s]
        /\ \/ \A s \in (n + 1)..m : preimages'[s] = {} /\ diffs'[s] = s
           \/ (m = n + 1 /\ \E old : Replaces(old, m))

LEMMA CommitsGrow ==
  ASSUME LogInv, Growth
  PROVE  LogInv'
  <1> DEFINE n == Len(madeAt)
             m == Len(madeAt')
  <1>0. /\ n = Len(madeAt) /\ m = Len(madeAt')
        /\ n \in Nat /\ m \in {n + 1, n + 2} /\ m <= MaxCommits
        /\ \A b \in Branches : /\ Increasing(log'[b])
                               /\ ToSet(log'[b]) \subseteq ToSet(log[b]) \cup ((n + 1)..m)
        /\ \A a, b \in Branches : a # b =>
              \A s \in (n + 1)..m : s \notin ToSet(log'[a]) \cap ToSet(log'[b])
        /\ \A s \in 1..n : preimages'[s] = preimages[s] /\ diffs'[s] = diffs[s]
        /\ \/ \A s \in (n + 1)..m : preimages'[s] = {} /\ diffs'[s] = s
           \/ (m = n + 1 /\ \E old : Replaces(old, m))
    BY DEF Growth
  <1> HIDE DEF n, m
  <1> USE <1>0
  <1>1. \A b \in Branches : ToSet(log[b]) \subseteq 1..n
    BY DEF LogInv
  <1>2. \A b \in Branches : ToSet(log'[b]) \subseteq 1..m
    BY <1>1
  <1>3. ASSUME NEW a \in Branches, NEW b \in Branches, a # b
        PROVE  ToSet(log'[a]) \cap ToSet(log'[b]) = {}
    <2>1. ToSet(log[a]) \cap ToSet(log[b]) = {}
      BY <1>3 DEF LogInv
    <2> SUFFICES ASSUME NEW s \in ToSet(log'[a]), s \in ToSet(log'[b]) PROVE FALSE
      OBVIOUS
    <2>2. s \notin (n + 1)..m
      BY <1>3
    <2> QED  BY <2>1, <2>2
  <1>4. \A s \in 1..m : s \in 1..n \/ s \in (n + 1)..m
    OBVIOUS
  <1>5. /\ \A s \in 1..n : diffs[s] \in 1..s
        /\ \A s \in 1..n : \A p \in preimages[s] : p \in 1..(s - 1) /\ preimages[p] \subseteq preimages[s]
        /\ \A x, y \in 1..n : x < y /\ diffs[x] = diffs[y] =>
              x \in preimages[y] /\ \A b \in Branches : x \notin ToSet(log[b])
    BY DEF LogInv
  <1>8. Stacked'
    <2> SUFFICES ASSUME NEW b \in Branches, NEW s \in ToSet(log'[b]), NEW t \in ToSet(log'[b]),
                        NEW p \in preimages'[s], t < s
                 PROVE  t < p
      BY DEF Stacked
    <2>1. /\ s \in 1..m /\ t \in 1..m
          /\ \A x \in ToSet(log'[b]) : x \in 1..n => x \in ToSet(log[b])
      BY <1>2
    <2>2. CASE s \in 1..n
      <3>1. t \in 1..n
        BY <2>1, <2>2
      <3> QED  BY <2>1, <2>2, <3>1 DEF LogInv, Stacked
    <2>3. CASE s \in (n + 1)..m
      <3>1. PICK old : m = n + 1 /\ Replaces(old, m)
        BY <2>3
      <3>2. s = m /\ t \in 1..n
        BY <2>1, <2>3, <3>1
      <3>3. old \in ToSet(log[b]) /\ t < old
        BY <3>1, <3>2 DEF Replaces
      <3>4. p = old \/ p \in preimages[old]
        BY <3>1, <3>2 DEF Replaces
      <3> QED  BY <2>1, <3>2, <3>3, <3>4 DEF LogInv, Stacked
    <2> QED  BY <1>4, <2>1, <2>2, <2>3
  <1>6. CASE \A s \in (n + 1)..m : preimages'[s] = {} /\ diffs'[s] = s
    <2>1. ASSUME NEW s \in 1..m
          PROVE  /\ diffs'[s] \in 1..s
                 /\ \A p \in preimages'[s] :
                       p \in 1..(s - 1) /\ preimages'[p] \subseteq preimages'[s]
      <3>1. CASE s \in 1..n
        <4>1. \A p \in preimages[s] : p \in 1..n
          BY <1>5, <3>1
        <4> QED  BY <1>5, <3>1, <4>1
      <3>2. CASE s \in (n + 1)..m
        BY <1>6, <3>2
      <3> QED  BY <1>4, <3>1, <3>2
    <2>2. ASSUME NEW x \in 1..m, NEW y \in 1..m, x < y, diffs'[x] = diffs'[y]
          PROVE  x \in preimages'[y] /\ \A b \in Branches : x \notin ToSet(log'[b])
      <3>1. y \in 1..n
        <4> SUFFICES ASSUME y \in (n + 1)..m PROVE FALSE
          BY <1>4
        <4>1. diffs'[y] = y /\ diffs'[x] \in 1..x
          BY <1>6, <2>1
        <4> QED  BY <2>2, <4>1
      <3>2. x \in 1..n /\ x \notin (n + 1)..m
        BY <2>2, <3>1
      <3>3. x \in preimages[y] /\ \A b \in Branches : x \notin ToSet(log[b])
        BY <1>5, <2>2, <3>1, <3>2
      <3> QED  BY <3>1, <3>2, <3>3
    <2> QED
      BY <1>2, <1>3, <1>8, <2>1, <2>2 DEF LogInv
  <1>7. ASSUME m = n + 1, NEW old, Replaces(old, m) PROVE LogInv'
    <2>1. PICK home \in Branches : old \in ToSet(log[home])
      BY <1>7 DEF Replaces
    <2>2. /\ old \in 1..n /\ \A b \in Branches : old \notin ToSet(log'[b])
          /\ preimages'[m] = {old} \cup preimages[old]
          /\ diffs'[m] \in {m, diffs[old]}
      BY <1>1, <1>7, <2>1 DEF Replaces
    <2>3. ASSUME NEW s \in 1..m
          PROVE  /\ diffs'[s] \in 1..s
                 /\ \A p \in preimages'[s] :
                       p \in 1..(s - 1) /\ preimages'[p] \subseteq preimages'[s]
      <3>1. CASE s \in 1..n
        <4>1. \A p \in preimages[s] : p \in 1..n
          BY <1>5, <3>1
        <4> QED  BY <1>5, <3>1, <4>1
      <3>2. CASE s = m
        <4>1. diffs[old] \in 1..m
          BY <1>5, <1>7, <2>2
        <4>2. ASSUME NEW p \in preimages'[m]
              PROVE  p \in 1..(m - 1) /\ preimages'[p] \subseteq preimages'[m]
          <5>1. p = old \/ p \in preimages[old]
            BY <2>2
          <5>2. p \in 1..n /\ preimages[p] \subseteq preimages[old]
            <6>1. CASE p = old
              BY <2>2, <6>1
            <6>2. CASE p \in preimages[old]
              BY <1>5, <2>2, <6>2
            <6> QED  BY <5>1, <6>1, <6>2
          <5> QED  BY <1>7, <2>2, <5>2
        <4> QED  BY <1>7, <2>2, <3>2, <4>1, <4>2
      <3> QED  BY <1>7, <3>1, <3>2
    <2>4. ASSUME NEW x \in 1..m, NEW y \in 1..m, x < y, diffs'[x] = diffs'[y]
          PROVE  x \in preimages'[y] /\ \A b \in Branches : x \notin ToSet(log'[b])
      <3>1. x \in 1..n /\ x \notin (n + 1)..m /\ diffs'[x] = diffs[x] /\ diffs[x] \in 1..x
        BY <1>5, <1>7, <2>4
      <3>2. CASE y \in 1..n
        <4>1. x \in preimages[y] /\ \A b \in Branches : x \notin ToSet(log[b])
          BY <1>5, <2>4, <3>1, <3>2
        <4> QED  BY <3>1, <3>2, <4>1
      <3>3. CASE y = m
        <4>1. diffs[x] = diffs[old]
          <5>1. diffs'[m] = diffs[x]
            BY <2>4, <3>1, <3>3
          <5>2. diffs[x] # m
            BY <1>7, <3>1
          <5> QED  BY <2>2, <5>1, <5>2
        <4>2. CASE x = old
          BY <2>2, <3>3, <4>2
        <4>3. CASE x < old
          <5>1. x \in preimages[old] /\ \A b \in Branches : x \notin ToSet(log[b])
            BY <1>5, <2>2, <3>1, <4>1, <4>3
          <5> QED  BY <2>2, <3>1, <3>3, <5>1
        <4>4. CASE old < x
          BY <1>5, <2>1, <2>2, <3>1, <4>1, <4>4
        <4> QED  BY <2>2, <3>1, <4>2, <4>3, <4>4
      <3> QED  BY <1>7, <3>2, <3>3
    <2> QED
      BY <1>2, <1>3, <1>8, <2>3, <2>4 DEF LogInv
  <1> QED
    BY <1>6, <1>7
(* Sequences that grow at the end, or lose their last item first. *)
LEMMA AppendedItem ==
  ASSUME NEW s \in Seq(Nat), NEW x \in Nat
  PROVE  LET t == Append(s, x)
         IN  /\ t \in Seq(Nat) /\ Len(t) = Len(s) + 1 /\ t[Len(s) + 1] = x
             /\ DOMAIN t = 1..(Len(s) + 1) /\ \A i \in 1..Len(s) : t[i] = s[i]
             /\ ToSet(t) = ToSet(s) \cup {x}
             /\ (Increasing(s) /\ \A y \in ToSet(s) : y < x) => Increasing(t)
  <1> DEFINE t == Append(s, x)
  <1>1. /\ t \in Seq(Nat) /\ Len(t) = Len(s) + 1 /\ t[Len(s) + 1] = x
        /\ DOMAIN t = 1..(Len(s) + 1) /\ \A i \in 1..Len(s) : t[i] = s[i]
        /\ DOMAIN s = 1..Len(s) /\ Len(s) \in Nat
    BY AppendProperties, LenProperties
  <1> HIDE DEF t
  <1>2. \A i \in DOMAIN t : (i \in DOMAIN s /\ t[i] = s[i]) \/ (i = Len(s) + 1 /\ t[i] = x)
    BY <1>1
  <1>3. ToSet(t) = ToSet(s) \cup {x}
    BY <1>1, <1>2 DEF ToSet
  <1>4. ASSUME Increasing(s), \A y \in ToSet(s) : y < x PROVE Increasing(t)
    <2>1. \A i \in DOMAIN s : s[i] < x
      BY <1>4 DEF ToSet
    <2>2. ASSUME NEW i \in DOMAIN t, NEW j \in DOMAIN t, i < j PROVE t[i] < t[j]
      <3>1. i \in DOMAIN s /\ t[i] = s[i]
        BY <1>1, <2>2
      <3>2. CASE j \in DOMAIN s
        BY <1>1, <1>4, <2>2, <3>1, <3>2 DEF Increasing
      <3>3. CASE j = Len(s) + 1
        BY <1>1, <2>1, <3>1, <3>3
      <3> QED  BY <1>2, <3>2, <3>3
    <2> QED  BY <2>2 DEF Increasing
  <1> QED
    BY <1>1, <1>3, <1>4 DEF t

LEMMA FrontItems ==
  ASSUME NEW s \in Seq(Nat), s # <<>>, Increasing(s)
  PROVE  /\ Front(s) \in Seq(Nat) /\ Increasing(Front(s))
         /\ Last(s) \in ToSet(s) /\ ToSet(Front(s)) = ToSet(s) \ {Last(s)}
         /\ \A y \in ToSet(Front(s)) : y < Last(s)
  <1> DEFINE t == Front(s)
             len == Len(s)
  <1>1. len \in Nat \ {0} /\ DOMAIN s = 1..len /\ \A i \in 1..len : s[i] \in Nat
    BY EmptySeq, LenProperties, ElementOfSeq
  <1>2. t \in Seq(Nat) /\ DOMAIN t = 1..(len - 1) /\ \A i \in 1..(len - 1) : t[i] = s[i]
    BY <1>1 DEF Front
  <1> HIDE DEF t, len
  <1>8. \A i, j \in 1..len : i < j => s[i] < s[j]
    BY <1>1 DEF Increasing
  <1>3. Last(s) = s[len] /\ \A i \in 1..(len - 1) : s[i] < s[len]
    <2>1. Last(s) = s[len]
      BY DEF Last, len
    <2> QED  BY <1>1, <1>8, <2>1
  <1>4. ToSet(t) = ToSet(s) \ {Last(s)}
    <2>1. \A i \in 1..len : i \in 1..(len - 1) \/ i = len
      BY <1>1
    <2>2. \A i \in 1..(len - 1) : i \in 1..len /\ s[i] # s[len]
      BY <1>1, <1>3
    <2> QED  BY <1>1, <1>2, <1>3, <2>1, <2>2 DEF ToSet
  <1>5. Increasing(t)
    <2>1. \A i \in 1..(len - 1) : i \in 1..len
      BY <1>1
    <2>2. \A i, j \in 1..(len - 1) : i < j => t[i] < t[j]
      BY <1>2, <1>8, <2>1
    <2> QED  BY <1>2, <2>2 DEF Increasing
  <1>6. Last(s) \in ToSet(s)
    BY <1>1, <1>3 DEF ToSet
  <1>7. \A y \in ToSet(t) : y < Last(s)
    BY <1>2, <1>3 DEF ToSet
  <1> QED
    BY <1>2, <1>4, <1>5, <1>6, <1>7 DEF t

(* What one advance does to the commits, the turn of the call included. *)
Grows(made) ==
    /\ \E m \in {Len(madeAt) + 1, Len(madeAt) + 2} :
          /\ Len(made) = m /\ m <= MaxCommits
          /\ \A s \in (Len(madeAt) + 1)..m : made[s] = Len(transcript)
    /\ made \in Seq(Nat) /\ \A s \in 1..Len(madeAt) : made[s] = madeAt[s]

LogTyped ==
    /\ log \in [Branches -> Seq(Commits)]
    /\ preimages \in Seq(SUBSET Commits) /\ Len(preimages) = Len(madeAt)
    /\ diffs \in Seq(Commits) /\ Len(diffs) = Len(madeAt)

LEMMA AdvanceFacts ==
  ASSUME SliceTyped, LogInv, NEW b \in Branches, NEW how \in {"new", "amend", "reword"},
         Advance(b, how)
  PROVE  /\ LogInv' /\ LogTyped' /\ Grows(madeAt')
         /\ Len(madeAt') = NextCommit /\ NextCommit \in Commits
         /\ log'[b] # <<>> /\ Last(log'[b]) = NextCommit
         /\ how # "new" => log[b] # <<>> /\ Last(log[b]) \in preimages'[NextCommit]
         /\ \A s \in 1..Len(madeAt) : preimages'[s] = preimages[s]
  <1> DEFINE n == Len(madeAt)
             m == NextCommit
             old == Last(log[b])
             kept == IF how = "new" THEN log[b] ELSE Front(log[b])
             pre == IF how = "new" THEN {} ELSE {old} \cup preimages[old]
             diff == IF how = "reword" THEN diffs[old] ELSE m
  <1>1. /\ m = n + 1 /\ n \in Nat /\ m \in Nat /\ m <= MaxCommits /\ MaxCommits \in Nat
        /\ m \in Commits /\ Len(transcript) \in Nat
    BY PrSliceAssumption, LenProperties DEF Advance, NextCommit, SliceTyped, Commits
  <1>2. \A c \in Branches : /\ log[c] \in Seq(Commits) /\ log[c] \in Seq(Nat)
                            /\ Increasing(log[c]) /\ ToSet(log[c]) \subseteq 1..n
    <2>1. \A c \in Branches : Increasing(log[c]) /\ ToSet(log[c]) \subseteq 1..n
      BY DEF LogInv
    <2>2. \A c \in Branches : log[c] \in Seq(Commits)
      BY DEF SliceTyped
    <2>3. \A s \in Seq(Commits) : s \in Seq(Nat)
      <3> SUFFICES ASSUME NEW s \in Seq(Commits) PROVE s \in Seq(Nat)
        OBVIOUS
      <3>1. s \in [1..Len(s) -> Commits] /\ Len(s) \in Nat
        BY LenProperties
      <3>2. s \in [1..Len(s) -> Nat]
        BY <3>1 DEF Commits
      <3> QED  BY <3>1, <3>2
    <2> QED  BY <2>1, <2>2, <2>3
  <1>3. how # "new" => log[b] # <<>>
    BY DEF Advance
  <1>4. how # "new" => /\ Front(log[b]) \in Seq(Nat) /\ Increasing(Front(log[b]))
                       /\ old \in ToSet(log[b]) /\ ToSet(Front(log[b])) = ToSet(log[b]) \ {old}
                       /\ \A y \in ToSet(Front(log[b])) : y < old
    BY <1>2, <1>3, FrontItems
  <1>5. /\ kept \in Seq(Nat) /\ Increasing(kept) /\ ToSet(kept) \subseteq ToSet(log[b])
        /\ ToSet(kept) \subseteq 1..n
        /\ how # "new" => old \in ToSet(log[b]) /\ old \notin ToSet(kept) /\ old \in 1..n
        /\ how # "new" => \A y \in ToSet(kept) : y < old
    <2>1. CASE how = "new"  BY <1>2, <2>1
    <2>2. CASE how # "new"  BY <1>2, <1>4, <2>2
    <2> QED  BY <2>1, <2>2
  <1>6. /\ log' = [log EXCEPT ![b] = Append(kept, m)]
        /\ madeAt' = Append(madeAt, Len(transcript))
        /\ preimages' = Append(preimages, pre)
        /\ diffs' = Append(diffs, diff)
    BY DEF Advance
  <1>7. /\ madeAt \in Seq(Nat) /\ preimages \in Seq(SUBSET Commits) /\ Len(preimages) = n
        /\ diffs \in Seq(Commits) /\ Len(diffs) = n
    BY DEF SliceTyped
  <1> HIDE DEF kept, m, old, n, pre, diff
  <1>8. pre \in SUBSET Commits /\ diff \in Commits
    <2>1. how # "new" => preimages[old] \in SUBSET Commits /\ diffs[old] \in Commits
      BY <1>5, <1>7, ElementOfSeq
    <2>2. how # "new" => old \in Commits
      BY <1>1, <1>5 DEF Commits
    <2> QED  BY <1>1, <2>1, <2>2 DEF pre, diff
  <1>9. /\ madeAt' \in Seq(Nat) /\ Len(madeAt') = m /\ madeAt'[m] = Len(transcript)
        /\ \A s \in 1..n : madeAt'[s] = madeAt[s]
    BY <1>1, <1>6, <1>7, AppendProperties DEF n
  <1>10. /\ preimages' \in Seq(SUBSET Commits) /\ Len(preimages') = m /\ preimages'[m] = pre
         /\ \A s \in 1..n : preimages'[s] = preimages[s]
    BY <1>1, <1>6, <1>7, <1>8, AppendProperties
  <1>11. /\ diffs' \in Seq(Commits) /\ Len(diffs') = m /\ diffs'[m] = diff
         /\ \A s \in 1..n : diffs'[s] = diffs[s]
    BY <1>1, <1>6, <1>7, <1>8, AppendProperties
  <1>12. /\ Append(kept, m) \in Seq(Nat) /\ Append(kept, m)[Len(kept) + 1] = m
         /\ Len(Append(kept, m)) = Len(kept) + 1
         /\ ToSet(Append(kept, m)) = ToSet(kept) \cup {m} /\ Increasing(Append(kept, m))
    <2>1. \A y \in ToSet(kept) : y < m
      BY <1>1, <1>5
    <2> QED  BY <1>1, <1>5, <2>1, AppendedItem
  <1>13. \A c \in Branches : log'[c] = IF c = b THEN Append(kept, m) ELSE log[c]
    BY <1>6 DEF SliceTyped
  <1>14. Append(kept, m) \in Seq(Commits)
    <2>1. ToSet(Append(kept, m)) \subseteq Commits
      <3>1. \A y \in 1..n : y \in Commits
        BY <1>1 DEF Commits
      <3> QED  BY <1>1, <1>5, <1>12, <3>1
    <2> DEFINE t == Append(kept, m)
    <2>2. t \in Seq(Nat) /\ \A i \in DOMAIN t : t[i] \in Commits
      BY <1>12, <2>1 DEF ToSet
    <2> HIDE DEF t
    <2>3. t \in Seq(Commits)
      BY <2>2
    <2> QED  BY <2>3 DEF t
  <1>15. log' \in [Branches -> Seq(Commits)]
    BY <1>6, <1>14 DEF SliceTyped
  <1>16. LogInv'
    <2>1. \A c \in Branches : /\ Increasing(log'[c])
                              /\ ToSet(log'[c]) \subseteq ToSet(log[c]) \cup ((n + 1)..m)
      <3> SUFFICES ASSUME NEW c \in Branches
                   PROVE  /\ Increasing(log'[c])
                          /\ ToSet(log'[c]) \subseteq ToSet(log[c]) \cup ((n + 1)..m)
        OBVIOUS
      <3>1. CASE c = b
        <4>1. log'[c] = Append(kept, m)
          BY <1>13, <3>1
        <4>2. m \in (n + 1)..m
          BY <1>1
        <4> QED  BY <1>5, <1>12, <3>1, <4>1, <4>2
      <3>2. CASE c # b
        BY <1>2, <1>13, <3>2
      <3> QED  BY <3>1, <3>2
    <2>2. \A a, c \in Branches : a # c =>
             \A s \in (n + 1)..m : s \notin ToSet(log'[a]) \cap ToSet(log'[c])
      <3>0. \A c \in Branches : ToSet(log[c]) \subseteq 1..n
        BY <1>2
      <3>1. \A c \in Branches : c # b => \A s \in (n + 1)..m : s \notin ToSet(log[c])
        BY <1>1, <3>0
      <3> QED  BY <1>13, <3>1
    <2>3. \/ \A s \in (n + 1)..m : preimages'[s] = {} /\ diffs'[s] = s
          \/ Replaces(old, m)
      <3>1. CASE how = "new"
        BY <1>1, <1>10, <1>11, <3>1 DEF pre, diff
      <3>2. CASE how # "new"
        <4>1. \A c \in Branches : old \notin ToSet(log'[c])
          <5>1. \A c \in Branches : c # b => old \notin ToSet(log[c])
            BY <1>5, <3>2 DEF LogInv
          <5> QED  BY <1>1, <1>5, <1>12, <1>13, <3>2, <5>1
        <4>2. ASSUME NEW c \in Branches, m \in ToSet(log'[c])
              PROVE  old \in ToSet(log[c]) /\ \A t \in ToSet(log'[c]) \ {m} : t < old
          <5>1. c = b
            BY <1>1, <1>2, <1>13, <4>2
          <5>2. ToSet(log'[b]) \ {m} \subseteq ToSet(kept)
            BY <1>12, <1>13
          <5> QED  BY <1>4, <1>5, <3>2, <5>1, <5>2 DEF kept
        <4> QED
          BY <1>5, <1>10, <1>11, <3>2, <4>1, <4>2 DEF Replaces, pre, diff
      <3> QED  BY <3>1, <3>2
    <2>4. \A s \in 1..n : preimages'[s] = preimages[s] /\ diffs'[s] = diffs[s]
      BY <1>10, <1>11
    <2>5. m \in {n + 1, n + 2}
      BY <1>1
    <2>6. \/ \A s \in (n + 1)..m : preimages'[s] = {} /\ diffs'[s] = s
          \/ (m = n + 1 /\ \E p : Replaces(p, m))
      BY <1>1, <2>3
    <2>7. n = Len(madeAt) /\ Len(madeAt') = m
      BY <1>9 DEF n
    <2>8. Growth
      BY <1>1, <2>1, <2>2, <2>4, <2>5, <2>6, <2>7 DEF Growth
    <2> QED
      BY <2>8, CommitsGrow
  <1>17. log'[b] # <<>> /\ Last(log'[b]) = m
    <2>1. log'[b] = Append(kept, m)
      BY <1>13
    <2>2. Len(kept) + 1 # 0
      BY <1>5, LenProperties
    <2>3. Len(<<>>) = 0
      BY EmptySeq
    <2> QED  BY <1>12, <2>1, <2>2, <2>3 DEF Last
  <1>18. Grows(madeAt')
    <2>1. m \in {n + 1, n + 2} /\ \A s \in (n + 1)..m : s = m
      BY <1>1
    <2> QED  BY <1>1, <1>9, <2>1 DEF Grows, n
  <1> QED
    BY <1>1, <1>3, <1>9, <1>10, <1>11, <1>15, <1>16, <1>17, <1>18 DEF LogTyped, pre, old, m, n
LEMMA TwoItems ==
  ASSUME NEW S, NEW s \in Seq(S), NEW x \in S, NEW y \in S
  PROVE  LET t == s \o <<x, y>>
         IN  /\ t \in Seq(S) /\ Len(t) = Len(s) + 2
             /\ t[Len(s) + 1] = x /\ t[Len(s) + 2] = y
             /\ \A i \in 1..Len(s) : t[i] = s[i]
             /\ t = Append(Append(s, x), y)
  <1> DEFINE t == s \o <<x, y>>
             u == Append(Append(s, x), y)
  <1>1. /\ u \in Seq(S) /\ Len(u) = Len(s) + 2
        /\ u[Len(s) + 1] = x /\ u[Len(s) + 2] = y
        /\ \A i \in 1..Len(s) : u[i] = s[i]
    OBVIOUS
  <1>2. t = u
    OBVIOUS
  <1> QED
    BY <1>1, <1>2

LEMMA AdvanceTwiceFacts ==
  ASSUME SliceTyped, LogInv, NEW a \in Branches, NEW b \in Branches, AdvanceTwice(a, b)
  PROVE  /\ LogInv' /\ LogTyped' /\ Grows(madeAt')
         /\ Len(madeAt') = NextCommit + 1 /\ NextCommit \in Commits /\ NextCommit + 1 \in Commits
         /\ log'[b] # <<>> /\ Last(log'[b]) = NextCommit + 1
         /\ \A s \in 1..Len(madeAt) : preimages'[s] = preimages[s]
  <1> DEFINE n == Len(madeAt)
             one == NextCommit
             two == one + 1
             turn == Len(transcript)
             none == {}
  <1>1. /\ one = n + 1 /\ two = n + 2 /\ n \in Nat /\ two <= MaxCommits /\ MaxCommits \in Nat
        /\ one \in Commits /\ two \in Commits /\ turn \in Nat /\ none \in SUBSET Commits
    BY PrSliceAssumption, LenProperties DEF AdvanceTwice, NextCommit, SliceTyped, Commits
  <1>2. \A c \in Branches : log[c] \in Seq(Commits)
    BY DEF SliceTyped
  <1>3. \A c \in Branches : Increasing(log[c]) /\ ToSet(log[c]) \subseteq 1..n
    BY DEF LogInv
  <1>4. \A s \in Seq(Commits) : s \in Seq(Nat)
    <2> SUFFICES ASSUME NEW s \in Seq(Commits) PROVE s \in Seq(Nat)
      OBVIOUS
    <2>1. s \in [1..Len(s) -> Commits] /\ Len(s) \in Nat
      BY LenProperties
    <2>2. s \in [1..Len(s) -> Nat]
      BY <2>1 DEF Commits
    <2> QED  BY <2>1, <2>2
  <1>5. /\ madeAt \in Seq(Nat) /\ preimages \in Seq(SUBSET Commits) /\ Len(preimages) = n
        /\ diffs \in Seq(Commits) /\ Len(diffs) = n
    BY DEF SliceTyped
  <1>6. /\ madeAt' = madeAt \o <<turn, turn>>
        /\ preimages' = preimages \o <<none, none>>
        /\ diffs' = diffs \o <<one, two>>
        /\ log' = IF a = b THEN [log EXCEPT ![a] = @ \o <<one, two>>]
                  ELSE [log EXCEPT ![a] = Append(@, one), ![b] = Append(@, two)]
    BY DEF AdvanceTwice
  <1> HIDE DEF one, two, turn, none
  <1>7. /\ madeAt' \in Seq(Nat) /\ Len(madeAt') = n + 2 /\ madeAt'[n + 1] = turn
        /\ madeAt'[n + 2] = turn /\ \A s \in 1..n : madeAt'[s] = madeAt[s]
    BY <1>1, <1>5, <1>6, TwoItems
  <1>8. /\ preimages' \in Seq(SUBSET Commits) /\ Len(preimages') = n + 2
        /\ preimages'[n + 1] = {} /\ preimages'[n + 2] = {}
        /\ \A s \in 1..n : preimages'[s] = preimages[s]
    BY <1>1, <1>5, <1>6, TwoItems DEF none
  <1>9. /\ diffs' \in Seq(Commits) /\ Len(diffs') = n + 2
        /\ diffs'[n + 1] = n + 1 /\ diffs'[n + 2] = n + 2
        /\ \A s \in 1..n : diffs'[s] = diffs[s]
    <2>1. one \in Commits /\ two \in Commits
      BY <1>1
    <2>2. /\ diffs' \in Seq(Commits) /\ Len(diffs') = n + 2
          /\ diffs'[n + 1] = one /\ diffs'[n + 2] = two
          /\ \A s \in 1..n : diffs'[s] = diffs[s]
      <3>1. diffs \in Seq(Commits) /\ Len(diffs) = n /\ diffs' = diffs \o <<one, two>>
        BY <1>5, <1>6
      <3> HIDE DEF n
      <3> QED  BY <2>1, <3>1, TwoItems
    <2> QED  BY <1>1, <2>2
  <1> HIDE DEF n
  (* One more commit on a branch, or two. *)
  <1>10. ASSUME NEW s \in Seq(Commits), Increasing(s), NEW k \in {n, n + 1}, ToSet(s) \subseteq 1..k
         PROVE  LET t == Append(s, k + 1)
                IN  /\ t \in Seq(Commits) /\ Increasing(t) /\ ToSet(t) = ToSet(s) \cup {k + 1}
                    /\ t # <<>> /\ Last(t) = k + 1
    <2> DEFINE x == k + 1
               t == Append(s, x)
    <2>1. x \in Commits /\ x \in Nat /\ \A y \in ToSet(s) : y < x
      BY <1>1, <1>10
    <2> HIDE DEF x
    <2>2. /\ t \in Seq(Nat) /\ Len(t) = Len(s) + 1 /\ t[Len(s) + 1] = x
          /\ ToSet(t) = ToSet(s) \cup {x} /\ Increasing(t)
      BY <1>4, <1>10, <2>1, AppendedItem
    <2>3. t \in Seq(Commits)
      BY <2>1, AppendProperties
    <2>4. t # <<>>
      BY <2>2, EmptySeq, LenProperties
    <2> QED
      BY <2>2, <2>3, <2>4 DEF Last, x
  <1>11. ASSUME NEW c \in Branches
         PROVE  LET t == Append(Append(log[c], one), two)
                IN  /\ t \in Seq(Commits) /\ Increasing(t) /\ ToSet(t) = ToSet(log[c]) \cup {one, two}
                    /\ t # <<>> /\ Last(t) = two
    <2> DEFINE s == Append(log[c], one)
    <2>1. /\ s \in Seq(Commits) /\ Increasing(s) /\ ToSet(s) = ToSet(log[c]) \cup {one}
      BY <1>1, <1>2, <1>3, <1>10
    <2> HIDE DEF s
    <2>2. ToSet(s) \subseteq 1..(n + 1) /\ n + 1 \in {n, n + 1} /\ (n + 1) + 1 = two
      BY <1>1, <1>3, <2>1
    <2>3. LET t == Append(s, two)
          IN  /\ t \in Seq(Commits) /\ Increasing(t) /\ ToSet(t) = ToSet(s) \cup {two}
              /\ t # <<>> /\ Last(t) = two
      BY <1>10, <2>1, <2>2
    <2> QED
      BY <2>1, <2>3 DEF s
  <1>12. ASSUME NEW c \in Branches, NEW k \in {n, n + 1}
         PROVE  LET t == Append(log[c], k + 1)
                IN  /\ t \in Seq(Commits) /\ Increasing(t) /\ ToSet(t) = ToSet(log[c]) \cup {k + 1}
                    /\ t # <<>> /\ Last(t) = k + 1
    <2>1. ToSet(log[c]) \subseteq 1..k
      BY <1>1, <1>3, <1>12
    <2> QED
      BY <1>2, <1>3, <1>10, <2>1
  <1>13. /\ \A c \in Branches : c \notin {a, b} => log'[c] = log[c]
         /\ a = b => log'[a] = Append(Append(log[a], one), two)
         /\ a # b => log'[a] = Append(log[a], one) /\ log'[b] = Append(log[b], two)
         /\ DOMAIN log' = Branches /\ log' = [c \in Branches |-> log'[c]]
    <2>1. a = b => log[a] \o <<one, two>> = Append(Append(log[a], one), two)
      BY <1>1, <1>2, TwoItems
    <2> QED
      BY <1>6, <2>1 DEF SliceTyped
  <1>14. /\ \A c \in Branches : /\ log'[c] \in Seq(Commits) /\ Increasing(log'[c])
                                /\ ToSet(log'[c]) \subseteq ToSet(log[c]) \cup {n + 1, n + 2}
         /\ \A c \in Branches : n + 1 \in ToSet(log'[c]) => c = a
         /\ \A c \in Branches : n + 2 \in ToSet(log'[c]) => c = b
         /\ log'[b] # <<>> /\ Last(log'[b]) = two
    <2>0. \A c \in Branches : n + 1 \notin ToSet(log[c]) /\ n + 2 \notin ToSet(log[c])
      <3>1. n + 1 \notin 1..n /\ n + 2 \notin 1..n
        BY <1>1
      <3> QED  BY <1>3, <3>1
    <2>1. CASE a = b
      <3>1. /\ log'[b] \in Seq(Commits) /\ Increasing(log'[b])
            /\ ToSet(log'[b]) = ToSet(log[b]) \cup {one, two}
            /\ log'[b] # <<>> /\ Last(log'[b]) = two
        BY <1>11, <1>13, <2>1
      <3>2. \A c \in Branches : c # b => log'[c] = log[c]
        BY <1>13, <2>1
      <3>3. one = n + 1 /\ two = n + 2
        BY <1>1
      <3> QED
        BY <1>2, <1>3, <2>0, <2>1, <3>1, <3>2, <3>3
    <2>2. CASE a # b
      <3>1. /\ log'[a] \in Seq(Commits) /\ Increasing(log'[a]) /\ ToSet(log'[a]) = ToSet(log[a]) \cup {n + 1}
        BY <1>1, <1>12, <1>13, <2>2
      <3>2. /\ log'[b] \in Seq(Commits) /\ Increasing(log'[b]) /\ ToSet(log'[b]) = ToSet(log[b]) \cup {n + 2}
            /\ log'[b] # <<>> /\ Last(log'[b]) = two
        <4>1. n + 1 \in {n, n + 1} /\ (n + 1) + 1 = two /\ two = n + 2
          BY <1>1
        <4> QED  BY <1>12, <1>13, <2>2, <4>1
      <3>3. n + 1 # n + 2
        BY <1>1
      <3>4. \A c \in Branches : c # a /\ c # b => log'[c] = log[c]
        BY <1>13
      <3>5. ASSUME NEW c \in Branches
            PROVE  /\ log'[c] \in Seq(Commits) /\ Increasing(log'[c])
                   /\ ToSet(log'[c]) \subseteq ToSet(log[c]) \cup {n + 1, n + 2}
                   /\ n + 1 \in ToSet(log'[c]) => c = a
                   /\ n + 2 \in ToSet(log'[c]) => c = b
        <4>1. CASE c = a
          BY <2>0, <3>1, <3>3, <4>1
        <4>2. CASE c = b
          BY <2>0, <3>2, <3>3, <4>2
        <4>3. CASE c # a /\ c # b
          BY <1>2, <1>3, <2>0, <3>4, <4>3
        <4> QED  BY <4>1, <4>2, <4>3
      <3> QED
        BY <3>2, <3>5
    <2> QED  BY <2>1, <2>2
  <1>15. LogInv'
    <2>1. \A s \in (n + 1)..(n + 2) : s = n + 1 \/ s = n + 2
      BY <1>1
    <2>2. \A c \in Branches : /\ Increasing(log'[c])
                              /\ ToSet(log'[c]) \subseteq ToSet(log[c]) \cup ((n + 1)..(n + 2))
      <3>1. {n + 1, n + 2} \subseteq (n + 1)..(n + 2)
        BY <1>1
      <3> QED  BY <1>14, <3>1
    <2>3. \A c, d \in Branches : c # d =>
             \A s \in (n + 1)..(n + 2) : s \notin ToSet(log'[c]) \cap ToSet(log'[d])
      BY <1>14, <2>1
    <2>4. \A s \in 1..n : preimages'[s] = preimages[s] /\ diffs'[s] = diffs[s]
      BY <1>8, <1>9
    <2>5. \A s \in (n + 1)..(n + 2) : preimages'[s] = {} /\ diffs'[s] = s
      BY <1>8, <1>9, <2>1
    <2>6. n = Len(madeAt) /\ Len(madeAt') = n + 2 /\ n + 2 \in {n + 1, n + 2} /\ n + 2 <= MaxCommits
      BY <1>1, <1>7 DEF n
    <2>7. Growth
      BY <1>1, <2>2, <2>3, <2>4, <2>5, <2>6 DEF Growth
    <2> QED  BY <2>7, CommitsGrow
  <1>16. Grows(madeAt')
    <2>1. \A s \in (n + 1)..(n + 2) : s = n + 1 \/ s = n + 2
      BY <1>1
    <2>2. n + 2 \in {n + 1, n + 2} /\ n + 2 <= MaxCommits
      BY <1>1
    <2> QED  BY <1>1, <1>7, <2>1, <2>2 DEF Grows, n, turn
  <1>17. LogTyped'
    <2>1. log' \in [Branches -> Seq(Commits)]
      BY <1>13, <1>14
    <2> QED
      BY <1>7, <1>8, <1>9, <2>1 DEF LogTyped
  <1> QED
    BY <1>1, <1>7, <1>8, <1>14, <1>15, <1>16, <1>17 DEF one, two, n
-----------------------------------------------------------------------------
(* What the calls of the session show of the commits made in them.          *)
LEMMA OneCommit ==
  ASSUME NEW c \in Calls, WithVerb(c, "commit") = {1}
  PROVE  /\ Pairs(c) <=> Len(c.commits) = 1
         /\ RunsOf(c, 1) = IF Pairs(c) THEN {c.commits[1]} ELSE {}
  <1>1. Cardinality({1}) = 1
    BY FS_Singleton
  <1>2. Pairs(c) <=> Len(c.commits) = 1
    BY <1>1 DEF Pairs
  <1>3. c.invs[1].verb = "commit"
    BY DEF WithVerb
  <1>4. {j \in {1} : j <= 1} = {1}
    OBVIOUS
  <1> QED
    BY <1>1, <1>2, <1>3, <1>4 DEF RunsOf, Pairs

LEMMA TwoCommits ==
  ASSUME NEW c \in Calls, NEW m \in {2, 3}, WithVerb(c, "commit") = {1, m}
  PROVE  /\ Pairs(c) <=> Len(c.commits) = 2
         /\ RunsOf(c, 1) = IF Pairs(c) THEN {c.commits[1]} ELSE {}
         /\ RunsOf(c, m) = IF Pairs(c) THEN {c.commits[2]} ELSE {}
  <1>1. Cardinality({1}) = 1 /\ IsFiniteSet({1})
    BY FS_Singleton
  <1>2. Cardinality({1, m}) = 2
    <2>1. {1, m} = {1} \cup {m} /\ m \notin {1}
      OBVIOUS
    <2> QED  BY <1>1, <2>1, FS_AddElement
  <1>3. Pairs(c) <=> Len(c.commits) = 2
    BY <1>2 DEF Pairs
  <1>4. c.invs[1].verb = "commit" /\ c.invs[m].verb = "commit"
    BY DEF WithVerb
  <1>5. {j \in {1, m} : j <= 1} = {1} /\ {j \in {1, m} : j <= m} = {1, m}
    OBVIOUS
  <1> QED
    BY <1>1, <1>2, <1>3, <1>4, <1>5 DEF RunsOf, Pairs

(* The amending call is told which commit it replaces; the last commit of a *)
(* call is the tip of the branch that is then checked out in w.             *)
AmendsTip(c, w) ==
    \A i \in DOMAIN c.invs : c.invs[i].amend =>
        /\ i = 1
        /\ \A r \in RunsOf(c, i) : /\ log[head[w]] # <<>>
                                   /\ Last(log[head[w]]) \in preimages'[r]

LeavesTip(c, w) ==
    \/ \E m \in WithVerb(c, "commit") :
          /\ \A j \in WithVerb(c, "commit") : j <= m
          /\ \A r \in RunsOf(c, m) : log'[head'[w]] # <<>> /\ Last(log'[head'[w]]) = r
    \/ /\ WithVerb(c, "commit") = {}
       /\ WithVerb(c, "barrier") # {} \/ UNCHANGED <<log, head>>

Said(c, w) ==
    /\ c.turn = Len(transcript) /\ transcript' = Append(transcript, c)
    /\ Truthful(c, madeAt') /\ AmendsTip(c, w) /\ LeavesTip(c, w)

LEMMA SaidOne ==
  ASSUME NEW c \in Calls, NEW w, WithVerb(c, "commit") = {1}, NEW new,
         c.turn = Len(transcript), transcript' = Append(transcript, c),
         c.commits \in {<<>>, <<new>>}, new \in DOMAIN madeAt', madeAt'[new] = Len(transcript),
         log'[head'[w]] # <<>>, Last(log'[head'[w]]) = new,
         \A i \in DOMAIN c.invs : c.invs[i].amend =>
            i = 1 /\ log[head[w]] # <<>> /\ Last(log[head[w]]) \in preimages'[new]
  PROVE  Said(c, w)
  <1>1. \A s \in ToSet(c.commits) : s = new
    BY DEF ToSet
  <1>2. RunsOf(c, 1) \subseteq {new} /\ (Pairs(c) => RunsOf(c, 1) = {new})
    BY OneCommit
  <1>3. Truthful(c, madeAt')
    BY <1>1, <1>2 DEF Truthful
  <1>4. AmendsTip(c, w)
    BY <1>2 DEF AmendsTip
  <1>5. LeavesTip(c, w)
    BY <1>2 DEF LeavesTip
  <1> QED
    BY <1>3, <1>4, <1>5 DEF Said

LEMMA SaidTwo ==
  ASSUME NEW c \in Calls, NEW w, NEW m \in {2, 3}, WithVerb(c, "commit") = {1, m},
         NEW one, NEW two,
         c.turn = Len(transcript), transcript' = Append(transcript, c),
         c.commits \in {<<one>>, <<one, two>>},
         {one, two} \subseteq DOMAIN madeAt',
         madeAt'[one] = Len(transcript), madeAt'[two] = Len(transcript),
         log'[head'[w]] # <<>>, Last(log'[head'[w]]) = two,
         \A i \in DOMAIN c.invs : ~c.invs[i].amend
  PROVE  Said(c, w)
  <1>1. \A s \in ToSet(c.commits) : s = one \/ s = two
    BY DEF ToSet
  <1>2. /\ Pairs(c) => RunsOf(c, 1) = {one} /\ RunsOf(c, m) = {two}
        /\ RunsOf(c, m) \subseteq {two}
    BY TwoCommits
  <1>3. Truthful(c, madeAt')
    BY <1>1, <1>2 DEF Truthful
  <1>4. AmendsTip(c, w)
    BY DEF AmendsTip
  <1>5. LeavesTip(c, w)
    <2>1. m \in WithVerb(c, "commit") /\ \A j \in WithVerb(c, "commit") : j <= m
      OBVIOUS
    <2>2. \A r \in RunsOf(c, m) : log'[head'[w]] # <<>> /\ Last(log'[head'[w]]) = r
      BY <1>2
    <2> QED  BY <2>1, <2>2 DEF LeavesTip
  <1> QED
    BY <1>3, <1>4, <1>5 DEF Said

LEMMA SaidNone ==
  ASSUME NEW c \in Calls, NEW w, WithVerb(c, "commit") = {}, c.commits = <<>>,
         c.turn = Len(transcript), transcript' = Append(transcript, c),
         \A i \in DOMAIN c.invs : ~c.invs[i].amend,
         WithVerb(c, "barrier") # {} \/ UNCHANGED <<log, head>>
  PROVE  Said(c, w)
  <1>1. ToSet(c.commits) = {}
    BY EmptySeq DEF ToSet
  <1> QED
    BY <1>1 DEF Said, Truthful, AmendsTip, LeavesTip

(* The calls, by their invocations. *)
LEMMA InvFacts ==
  ASSUME NEW verb \in Verbs, NEW amend \in BOOLEAN
  PROVE  /\ Inv(verb, amend) \in Invocations
         /\ Inv(verb, amend).verb = verb /\ Inv(verb, amend).amend = amend
  BY DEF Inv, Invocations

LEMMA CallFacts ==
  ASSUME SliceTyped, NEW invs \in Seq(Invocations), NEW commits \in Seq(Commits),
         NEW pushes \in SUBSET Commits, Say(invs, commits, pushes)
  PROVE  \E c \in Calls :
            /\ c.turn = Len(transcript) /\ transcript' = Append(transcript, c)
            /\ c.invs = invs /\ c.commits = commits
            /\ \A v : WithVerb(c, v) = {i \in 1..Len(invs) : invs[i].verb = v}
            /\ DOMAIN c.invs = 1..Len(invs)
            /\ transcript' \in Seq(Calls)
  <1> DEFINE c == [turn |-> Len(transcript), invs |-> invs, commits |-> commits, pushes |-> pushes]
  <1>1. transcript \in Seq(Calls) /\ Len(transcript) \in Nat
    BY LenProperties DEF SliceTyped
  <1>2. c \in Calls
    BY <1>1 DEF Calls
  <1>3. transcript' = Append(transcript, c)
    BY DEF Say
  <1>4. transcript' \in Seq(Calls)
    BY <1>1, <1>2, <1>3, AppendProperties
  <1>5. DOMAIN invs = 1..Len(invs)
    BY LenProperties
  <1>6. \A v : WithVerb(c, v) = {i \in 1..Len(invs) : invs[i].verb = v}
    BY <1>5 DEF WithVerb
  <1> QED
    BY <1>2, <1>3, <1>4, <1>5, <1>6

LEMMA Grown ==
  ASSUME SliceTyped, Grows(madeAt')
  PROVE  /\ madeAt' \in Seq(Nat) /\ DOMAIN madeAt \subseteq DOMAIN madeAt'
         /\ \A s \in DOMAIN madeAt : madeAt'[s] = madeAt[s]
         /\ \A s \in DOMAIN madeAt' : s \notin DOMAIN madeAt => madeAt'[s] = Len(transcript)
         /\ DOMAIN madeAt' = 1..Len(madeAt')
  <1>1. Len(madeAt) \in Nat /\ DOMAIN madeAt = 1..Len(madeAt)
    BY LenProperties DEF SliceTyped
  <1>2. madeAt' \in Seq(Nat) /\ DOMAIN madeAt' = 1..Len(madeAt') /\ Len(madeAt') \in Nat
    BY LenProperties DEF Grows
  <1> QED
    BY <1>1, <1>2 DEF Grows

(* Every action says something, and leaves the commits in order. *)
StepSays(w) ==
    /\ SliceTyped' /\ LogInv'
    /\ DOMAIN madeAt \subseteq DOMAIN madeAt' /\ \A s \in DOMAIN madeAt : madeAt'[s] = madeAt[s]
    /\ \A s \in DOMAIN madeAt' : s \notin DOMAIN madeAt => madeAt'[s] = Len(transcript)
    /\ \A s \in DOMAIN madeAt : preimages'[s] = preimages[s]
    /\ \E c \in Calls : Said(c, w)

LEMMA CommitSays ==
  ASSUME SliceTyped, LogInv, NEW w \in Worktrees, Commit(w)
  PROVE  StepSays(w)
  <1>1. PICK how \in {"new", "amend", "reword"}, quiet \in BOOLEAN :
          /\ Advance(head[w], how) /\ head' = head
          /\ Say(<<Inv("commit", how # "new")>>, IF quiet THEN <<>> ELSE <<NextCommit>>, {})
    BY DEF Commit
  <1> DEFINE b == head[w]
             amend == how # "new"
             invs == <<Inv("commit", amend)>>
             commits == IF quiet THEN <<>> ELSE <<NextCommit>>
             none == {}
  <1>2. b \in Branches
    BY DEF SliceTyped
  <1>3. /\ LogInv' /\ LogTyped' /\ Grows(madeAt')
        /\ Len(madeAt') = NextCommit /\ NextCommit \in Commits
        /\ log'[b] # <<>> /\ Last(log'[b]) = NextCommit
        /\ how # "new" => log[b] # <<>> /\ Last(log[b]) \in preimages'[NextCommit]
        /\ \A s \in 1..Len(madeAt) : preimages'[s] = preimages[s]
    BY <1>1, <1>2, AdvanceFacts
  <1>4. /\ madeAt' \in Seq(Nat) /\ DOMAIN madeAt \subseteq DOMAIN madeAt'
        /\ \A s \in DOMAIN madeAt : madeAt'[s] = madeAt[s]
        /\ \A s \in DOMAIN madeAt' : s \notin DOMAIN madeAt => madeAt'[s] = Len(transcript)
        /\ DOMAIN madeAt' = 1..Len(madeAt')
    BY <1>3, Grown
  <1>5. DOMAIN madeAt = 1..Len(madeAt) /\ Len(madeAt) \in Nat
    BY LenProperties DEF SliceTyped
  <1>6. /\ NextCommit \in DOMAIN madeAt' /\ NextCommit \notin DOMAIN madeAt
        /\ madeAt'[NextCommit] = Len(transcript)
    <2>1. NextCommit = Len(madeAt) + 1
      BY DEF NextCommit
    <2> QED  BY <1>3, <1>4, <1>5, <2>1
  <1> DEFINE i1 == Inv("commit", amend)
  <1>7. /\ i1 \in Invocations /\ i1.verb = "commit" /\ i1.amend = amend
    BY InvFacts DEF Verbs
  <1>8. /\ invs = <<i1>> /\ commits \in Seq(Commits) /\ none \in SUBSET Commits
        /\ Say(invs, commits, none) /\ commits \in {<<>>, <<NextCommit>>}
    BY <1>1, <1>3
  <1> HIDE DEF i1, commits, none
  <1>9. /\ invs \in Seq(Invocations) /\ Len(invs) = 1 /\ invs[1] = i1
        /\ {i \in 1..Len(invs) : invs[i].verb = "commit"} = {1}
    BY <1>7, <1>8
  <1> HIDE DEF invs
  <1>16. /\ invs \in Seq(Invocations) /\ commits \in Seq(Commits) /\ none \in SUBSET Commits
         /\ Say(invs, commits, none)
    BY <1>8, <1>9
  <1>10. PICK c \in Calls :
            /\ c.turn = Len(transcript) /\ transcript' = Append(transcript, c)
            /\ c.invs = invs /\ c.commits = commits
            /\ \A v : WithVerb(c, v) = {i \in 1..Len(invs) : invs[i].verb = v}
            /\ DOMAIN c.invs = 1..Len(invs)
            /\ transcript' \in Seq(Calls)
    BY <1>16, CallFacts
  <1>11. WithVerb(c, "commit") = {1}
    BY <1>9, <1>10
  <1>12. \A i \in DOMAIN c.invs : c.invs[i].amend =>
            i = 1 /\ log[head[w]] # <<>> /\ Last(log[head[w]]) \in preimages'[NextCommit]
    <2> SUFFICES ASSUME NEW i \in DOMAIN c.invs, c.invs[i].amend
                 PROVE  i = 1 /\ log[head[w]] # <<>> /\ Last(log[head[w]]) \in preimages'[NextCommit]
      OBVIOUS
    <2>1. i = 1 /\ c.invs[i] = i1
      BY <1>9, <1>10
    <2>2. how # "new"
      BY <1>7, <2>1
    <2> QED  BY <1>3, <2>1, <2>2
  <1>13. log'[head'[w]] # <<>> /\ Last(log'[head'[w]]) = NextCommit
    BY <1>1, <1>3
  <1>14. Said(c, w)
    BY <1>6, <1>8, <1>10, <1>11, <1>12, <1>13, SaidOne
  <1>15. SliceTyped'
    BY <1>1, <1>3, <1>4, <1>10 DEF SliceTyped, LogTyped
  <1> QED
    BY <1>3, <1>4, <1>5, <1>14, <1>15 DEF StepSays

LEMMA CommitAndPushSays ==
  ASSUME SliceTyped, LogInv, NEW w \in Worktrees, CommitAndPush(w)
  PROVE  StepSays(w)
  <1>1. PICK quiet \in BOOLEAN :
          /\ Advance(head[w], "new") /\ head' = head
          /\ Say(<<Inv("commit", FALSE), Inv("push", FALSE)>>,
                 IF quiet THEN <<>> ELSE <<NextCommit>>, {NextCommit})
    BY DEF CommitAndPush
  <1> DEFINE b == head[w]
             i1 == Inv("commit", FALSE)
             i2 == Inv("push", FALSE)
             invs == <<i1, i2>>
             commits == IF quiet THEN <<>> ELSE <<NextCommit>>
             pushes == {NextCommit}
  <1>2. b \in Branches
    BY DEF SliceTyped
  <1>3. /\ LogInv' /\ LogTyped' /\ Grows(madeAt')
        /\ Len(madeAt') = NextCommit /\ NextCommit \in Commits
        /\ log'[b] # <<>> /\ Last(log'[b]) = NextCommit
        /\ \A s \in 1..Len(madeAt) : preimages'[s] = preimages[s]
    BY <1>1, <1>2, AdvanceFacts
  <1>4. /\ madeAt' \in Seq(Nat) /\ DOMAIN madeAt \subseteq DOMAIN madeAt'
        /\ \A s \in DOMAIN madeAt : madeAt'[s] = madeAt[s]
        /\ \A s \in DOMAIN madeAt' : s \notin DOMAIN madeAt => madeAt'[s] = Len(transcript)
        /\ DOMAIN madeAt' = 1..Len(madeAt')
    BY <1>3, Grown
  <1>5. DOMAIN madeAt = 1..Len(madeAt) /\ Len(madeAt) \in Nat
    BY LenProperties DEF SliceTyped
  <1>6. /\ NextCommit \in DOMAIN madeAt' /\ NextCommit \notin DOMAIN madeAt
        /\ madeAt'[NextCommit] = Len(transcript)
    <2>1. NextCommit = Len(madeAt) + 1
      BY DEF NextCommit
    <2> QED  BY <1>3, <1>4, <1>5, <2>1
  <1>7. /\ i1 \in Invocations /\ i1.verb = "commit" /\ ~i1.amend
        /\ i2 \in Invocations /\ i2.verb = "push" /\ ~i2.amend
    BY InvFacts DEF Verbs
  <1>8. /\ commits \in Seq(Commits) /\ pushes \in SUBSET Commits
        /\ Say(invs, commits, pushes) /\ commits \in {<<>>, <<NextCommit>>}
    BY <1>1, <1>3
  <1> HIDE DEF i1, i2, commits, pushes
  <1>9. /\ invs \in Seq(Invocations) /\ Len(invs) = 2 /\ invs[1] = i1 /\ invs[2] = i2
        /\ {i \in 1..Len(invs) : invs[i].verb = "commit"} = {1}
        /\ \A i \in 1..Len(invs) : ~invs[i].amend
    BY <1>7
  <1> HIDE DEF invs
  <1>10. PICK c \in Calls :
            /\ c.turn = Len(transcript) /\ transcript' = Append(transcript, c)
            /\ c.invs = invs /\ c.commits = commits
            /\ \A v : WithVerb(c, v) = {i \in 1..Len(invs) : invs[i].verb = v}
            /\ DOMAIN c.invs = 1..Len(invs)
            /\ transcript' \in Seq(Calls)
    BY <1>8, <1>9, CallFacts
  <1>11. WithVerb(c, "commit") = {1} /\ \A i \in DOMAIN c.invs : ~c.invs[i].amend
    BY <1>9, <1>10
  <1>12. log'[head'[w]] # <<>> /\ Last(log'[head'[w]]) = NextCommit
    BY <1>1, <1>3
  <1>13. Said(c, w)
    BY <1>6, <1>8, <1>10, <1>11, <1>12, SaidOne
  <1>14. SliceTyped'
    BY <1>1, <1>3, <1>4, <1>10 DEF SliceTyped, LogTyped
  <1> QED
    BY <1>3, <1>4, <1>5, <1>13, <1>14 DEF StepSays

(* Two commits in a call, the second the tip of the branch it leaves. *)
LEMMA TwoSay ==
  ASSUME SliceTyped, LogInv, NEW w \in Worktrees, NEW a \in Branches, NEW b \in Branches,
         AdvanceTwice(a, b), NEW m \in {2, 3}, NEW invs \in Seq(Invocations), Len(invs) = m,
         {i \in 1..m : invs[i].verb = "commit"} = {1, m}, \A i \in 1..m : ~invs[i].amend,
         NEW printed \in {<<NextCommit>>, <<NextCommit, NextCommit + 1>>},
         Say(invs, printed, {}), head' \in [Worktrees -> Branches], head'[w] = b
  PROVE  StepSays(w)
  <1> DEFINE none == {}
  <1>3. /\ LogInv' /\ LogTyped' /\ Grows(madeAt')
        /\ Len(madeAt') = NextCommit + 1 /\ NextCommit \in Commits /\ NextCommit + 1 \in Commits
        /\ log'[b] # <<>> /\ Last(log'[b]) = NextCommit + 1
        /\ \A s \in 1..Len(madeAt) : preimages'[s] = preimages[s]
    BY AdvanceTwiceFacts
  <1>4. /\ madeAt' \in Seq(Nat) /\ DOMAIN madeAt \subseteq DOMAIN madeAt'
        /\ \A s \in DOMAIN madeAt : madeAt'[s] = madeAt[s]
        /\ \A s \in DOMAIN madeAt' : s \notin DOMAIN madeAt => madeAt'[s] = Len(transcript)
        /\ DOMAIN madeAt' = 1..Len(madeAt')
    BY <1>3, Grown
  <1>5. DOMAIN madeAt = 1..Len(madeAt) /\ Len(madeAt) \in Nat
    BY LenProperties DEF SliceTyped
  <1>6. /\ {NextCommit, NextCommit + 1} \subseteq DOMAIN madeAt'
        /\ madeAt'[NextCommit] = Len(transcript) /\ madeAt'[NextCommit + 1] = Len(transcript)
    <2>1. NextCommit = Len(madeAt) + 1
      BY DEF NextCommit
    <2>2. {NextCommit, NextCommit + 1} \subseteq DOMAIN madeAt'
      BY <1>3, <1>4, <1>5, <2>1
    <2>3. NextCommit \notin DOMAIN madeAt /\ NextCommit + 1 \notin DOMAIN madeAt
      BY <1>5, <2>1
    <2> QED  BY <1>4, <2>2, <2>3
  <1>7. none \in SUBSET Commits /\ Say(invs, printed, none) /\ printed \in Seq(Commits)
    <2>1. <<NextCommit>> \in Seq(Commits) /\ <<NextCommit, NextCommit + 1>> \in Seq(Commits)
      BY <1>3
    <2> QED  BY <2>1
  <1> HIDE DEF none
  <1>8. PICK c \in Calls :
            /\ c.turn = Len(transcript) /\ transcript' = Append(transcript, c)
            /\ c.invs = invs /\ c.commits = printed
            /\ \A v : WithVerb(c, v) = {i \in 1..Len(invs) : invs[i].verb = v}
            /\ DOMAIN c.invs = 1..Len(invs)
            /\ transcript' \in Seq(Calls)
    BY <1>7, CallFacts
  <1>9. WithVerb(c, "commit") = {1, m} /\ \A i \in DOMAIN c.invs : ~c.invs[i].amend
    BY <1>8
  <1>10. log'[head'[w]] # <<>> /\ Last(log'[head'[w]]) = NextCommit + 1
    BY <1>3
  <1>11. Said(c, w)
    BY <1>6, <1>8, <1>9, <1>10, SaidTwo
  <1>12. SliceTyped'
    BY <1>3, <1>4, <1>8 DEF SliceTyped, LogTyped
  <1> QED
    BY <1>3, <1>4, <1>5, <1>11, <1>12 DEF StepSays

LEMMA CommitTwiceSays ==
  ASSUME SliceTyped, LogInv, NEW w \in Worktrees, CommitTwice(w)
  PROVE  StepSays(w)
  <1> DEFINE i1 == Inv("commit", FALSE)
             invs == <<i1, i1>>
             b == head[w]
  <1>1. PICK printed \in {<<NextCommit>>, <<NextCommit, NextCommit + 1>>} :
          AdvanceTwice(b, b) /\ Say(invs, printed, {}) /\ head' = head
    BY DEF CommitTwice
  <1>2. i1 \in Invocations /\ i1.verb = "commit" /\ ~i1.amend
    BY InvFacts DEF Verbs
  <1> HIDE DEF i1
  <1>3. /\ invs \in Seq(Invocations) /\ Len(invs) = 2
        /\ {i \in 1..2 : invs[i].verb = "commit"} = {1, 2} /\ \A i \in 1..2 : ~invs[i].amend
    BY <1>2
  <1> HIDE DEF invs
  <1>4. b \in Branches /\ head' \in [Worktrees -> Branches] /\ head'[w] = b
    BY <1>1 DEF SliceTyped
  <1> QED
    BY <1>1, <1>3, <1>4, TwoSay

LEMMA CommitOnTwoSays ==
  ASSUME SliceTyped, LogInv, NEW w \in Worktrees, NEW b \in Branches, CommitOnTwo(w, b)
  PROVE  StepSays(w)
  <1> DEFINE i1 == Inv("commit", FALSE)
             i2 == Inv("barrier", FALSE)
             invs == <<i1, i2, i1>>
             printed == <<NextCommit, NextCommit + 1>>
             a == head[w]
  <1>1. /\ AdvanceTwice(a, b) /\ Say(invs, printed, {})
        /\ head' = [head EXCEPT ![w] = b]
    BY DEF CommitOnTwo
  <1>2. /\ i1 \in Invocations /\ i1.verb = "commit" /\ ~i1.amend
        /\ i2 \in Invocations /\ i2.verb = "barrier" /\ ~i2.amend
    BY InvFacts DEF Verbs
  <1> HIDE DEF i1, i2
  <1>3. /\ invs \in Seq(Invocations) /\ Len(invs) = 3
        /\ {i \in 1..3 : invs[i].verb = "commit"} = {1, 3} /\ \A i \in 1..3 : ~invs[i].amend
    BY <1>2
  <1> HIDE DEF invs
  <1>4. a \in Branches /\ head' \in [Worktrees -> Branches] /\ head'[w] = b
    BY <1>1 DEF SliceTyped
  <1>5. printed \in {<<NextCommit>>, <<NextCommit, NextCommit + 1>>}
    OBVIOUS
  <1> HIDE DEF printed
  <1> QED
    BY <1>1, <1>3, <1>4, <1>5, TwoSay

(* A call without a commit. *)
LEMMA OneSays ==
  ASSUME SliceTyped, LogInv, NEW w, NEW verb \in Verbs \ {"commit"},
         NEW pushes \in SUBSET Commits, Say(<<Inv(verb, FALSE)>>, <<>>, pushes),
         UNCHANGED <<log, madeAt, preimages, diffs>>, head' \in [Worktrees -> Branches],
         verb = "barrier" \/ UNCHANGED head
  PROVE  StepSays(w)
  <1> DEFINE i1 == Inv(verb, FALSE)
             invs == <<i1>>
             commits == <<>>
  <1>1. i1 \in Invocations /\ i1.verb = verb /\ ~i1.amend
    BY InvFacts
  <1>2. commits \in Seq(Commits) /\ Say(invs, commits, pushes)
    OBVIOUS
  <1> HIDE DEF i1, commits
  <1>0. invs \in Seq(Invocations)
    BY <1>1
  <1>3. /\ Len(invs) = 1 /\ invs[1] = i1
        /\ {i \in 1..Len(invs) : invs[i].verb = "commit"} = {}
        /\ verb = "barrier" => 1 \in {i \in 1..Len(invs) : invs[i].verb = "barrier"}
        /\ \A i \in 1..Len(invs) : ~invs[i].amend
    BY <1>1
  <1> HIDE DEF invs
  <1>4. PICK c \in Calls :
            /\ c.turn = Len(transcript) /\ transcript' = Append(transcript, c)
            /\ c.invs = invs /\ c.commits = commits
            /\ \A v : WithVerb(c, v) = {i \in 1..Len(invs) : invs[i].verb = v}
            /\ DOMAIN c.invs = 1..Len(invs)
            /\ transcript' \in Seq(Calls)
    BY <1>0, <1>2, CallFacts
  <1>5. /\ WithVerb(c, "commit") = {} /\ \A i \in DOMAIN c.invs : ~c.invs[i].amend
        /\ WithVerb(c, "barrier") # {} \/ UNCHANGED <<log, head>>
    BY <1>3, <1>4
  <1>6. Said(c, w)
    BY <1>4, <1>5, SaidNone DEF commits
  <1>7. SliceTyped'
    BY <1>4 DEF SliceTyped
  <1>8. LogInv'
    BY DEF LogInv, Stacked
  <1> QED
    BY <1>6, <1>7, <1>8 DEF StepSays

LEMMA PushSays ==
  ASSUME SliceTyped, LogInv, NEW w \in Worktrees, Push(w)
  PROVE  StepSays(w)
  <1> DEFINE pushes == {Last(log[head[w]])}
  <1>1. /\ Say(<<Inv("push", FALSE)>>, <<>>, pushes)
        /\ UNCHANGED <<head, log, madeAt, preimages, diffs>> /\ log[head[w]] # <<>>
    BY DEF Push
  <1>2. pushes \in SUBSET Commits
    <2>1. log[head[w]] \in Seq(Commits)
      BY DEF SliceTyped
    <2>2. Len(log[head[w]]) \in 1..Len(log[head[w]])
      BY <1>1, <2>1, EmptySeq
    <2> QED
      BY <2>1, <2>2, ElementOfSeq DEF Last
  <1> HIDE DEF pushes
  <1>3. "push" \in Verbs \ {"commit"} /\ head' \in [Worktrees -> Branches]
    BY <1>1 DEF Verbs, SliceTyped
  <1> QED
    BY <1>1, <1>2, <1>3, OneSays

LEMMA SwitchSays ==
  ASSUME SliceTyped, LogInv, NEW w \in Worktrees, Switch(w)
  PROVE  StepSays(w)
  <1> DEFINE none == {}
  <1>1. /\ Say(<<Inv("barrier", FALSE)>>, <<>>, none)
        /\ UNCHANGED <<log, madeAt, preimages, diffs>>
    BY DEF Switch
  <1>2. head' \in [Worktrees -> Branches] /\ none \in SUBSET Commits
    BY DEF Switch, SliceTyped
  <1> HIDE DEF none
  <1>3. "barrier" \in Verbs \ {"commit"}
    BY DEF Verbs
  <1> QED
    BY <1>1, <1>2, <1>3, OneSays

LEMMA OtherSays ==
  ASSUME SliceTyped, LogInv, NEW w, OtherCall
  PROVE  StepSays(w)
  <1> DEFINE none == {}
  <1>1. /\ Say(<<Inv("other", FALSE)>>, <<>>, none)
        /\ UNCHANGED <<head, log, madeAt, preimages, diffs>>
    BY DEF OtherCall
  <1>2. head' \in [Worktrees -> Branches] /\ none \in SUBSET Commits
    BY DEF OtherCall, SliceTyped
  <1> HIDE DEF none
  <1>3. "other" \in Verbs \ {"commit"}
    BY DEF Verbs
  <1> QED
    BY <1>1, <1>2, <1>3, OneSays

LEMMA StepIsSaid ==
  ASSUME SliceTyped, LogInv, SliceNext
  PROVE  \E w : StepSays(w) /\ (Worktrees # {} => w \in Worktrees)
  <1>1. CASE OtherCall
    <2>1. \E w : Worktrees # {} => w \in Worktrees
      OBVIOUS
    <2> QED  BY <1>1, <2>1, OtherSays
  <1>2. ASSUME NEW w \in Worktrees,
               Commit(w) \/ CommitAndPush(w) \/ CommitTwice(w) \/ Push(w) \/ Switch(w)
        PROVE  StepSays(w)
    BY <1>2, CommitSays, CommitAndPushSays, CommitTwiceSays, PushSays, SwitchSays
  <1>3. ASSUME NEW w \in Worktrees, NEW b \in Branches, CommitOnTwo(w, b)
        PROVE  StepSays(w)
    BY <1>3, CommitOnTwoSays
  <1> QED
    BY <1>1, <1>2, <1>3 DEF SliceNext

SlicedWell == SliceInv /\ LogInv

LEMMA InitSlice == SliceInit => SlicedWell
  <1> SUFFICES ASSUME SliceInit PROVE SlicedWell
    OBVIOUS
  <1>1. transcript = <<>> /\ madeAt = <<>> /\ preimages = <<>> /\ diffs = <<>>
        /\ head = FirstBranch /\ log = [b \in Branches |-> <<>>]
    BY DEF SliceInit
  <1>2. Len(<<>>) = 0 /\ DOMAIN <<>> = {} /\ ToSet(<<>>) = {}
    BY EmptySeq DEF ToSet
  <1>3. SliceTyped
    BY <1>1, PrSliceAssumption DEF SliceTyped
  <1>4. InOrder
    BY <1>1, <1>2, NoEvents DEF InOrder
  <1>5. Traced
    BY <1>1, <1>2 DEF Traced
  <1>6. LogInv
    <2>1. \A b \in Branches : log[b] = <<>>
      BY <1>1
    <2>2. Len(madeAt) = 0 /\ 1..0 = {} /\ MaxCommits >= 0
      BY <1>1, <1>2, PrSliceAssumption
    <2> QED
      BY <1>2, <2>1, <2>2 DEF LogInv, Stacked, Increasing
  <1> QED
    BY <1>3, <1>4, <1>5, <1>6 DEF SlicedWell, SliceInv

LEMMA SliceStep == SlicedWell /\ [SliceNext]_sliceVars => SlicedWell'
  <1>1. ASSUME SlicedWell, SliceNext PROVE SlicedWell'
    <2>1. PICK w : StepSays(w)
      BY <1>1, StepIsSaid DEF SlicedWell, SliceInv
    <2>2. PICK c \in Calls : Said(c, w)
      BY <2>1 DEF StepSays
    <2>3. InOrder' /\ Traced'
      BY <1>1, <2>1, <2>2, SayingKeepsOrder DEF SlicedWell, SliceInv, StepSays, Said
    <2> QED
      BY <2>1, <2>3 DEF SlicedWell, SliceInv, StepSays
  <1>2. ASSUME SlicedWell, UNCHANGED sliceVars PROVE SlicedWell'
    BY <1>2 DEF sliceVars, SlicedWell, SliceInv, SliceTyped, InOrder, Traced, LogInv,
       Stacked
  <1> QED
    BY <1>1, <1>2

LEMMA SlicedWellHolds == SliceSpec => []SlicedWell
  BY InitSlice, SliceStep, PTL DEF SliceSpec

-----------------------------------------------------------------------------
(* The slice. *)
LEMMA MinIs ==
  ASSUME NEW T, T \subseteq Nat, T # {}
  PROVE  Min(T) \in T /\ \A m \in T : Min(T) <= m
  <1>1. PICK n \in T : \A m \in T : n <= m
    BY LeastOf
  <1> QED
    BY <1>1 DEF Min

LEMMA MaxIs ==
  ASSUME NEW T, T \subseteq Nat, T # {}, NEW bound \in Nat, \A m \in T : m <= bound
  PROVE  Max(T) \in T /\ \A m \in T : m <= Max(T)
  <1> DEFINE U == {bound - m : m \in T}
  <1>1. U \subseteq Nat /\ U # {}
    <2>1. \A m \in T : bound - m \in Nat
      OBVIOUS
    <2> QED  BY <2>1
  <1>2. PICK n \in U : \A m \in U : n <= m
    <2> HIDE DEF U
    <2> QED  BY <1>1, LeastOf
  <1>3. PICK t \in T : n = bound - t
    BY <1>2
  <1>4. ASSUME NEW m \in T PROVE t >= m
    <2>1. bound - t <= bound - m
      BY <1>2, <1>3
    <2> QED  BY <2>1
  <1>5. \E x \in T : \A y \in T : x >= y
    BY <1>4
  <1>6. Max(T) \in T /\ \A y \in T : Max(T) >= y
    BY <1>5 DEF Max
  <1> QED
    BY <1>6

LEMMA OwnIsEvent ==
  ASSUME SliceTyped, NEW branch, NEW aliases
  PROVE  /\ OwnAnchors(Events(transcript), branch, aliases) \subseteq DOMAIN Events(transcript)
         /\ Len(Events(transcript)) \in Nat
         /\ DOMAIN Events(transcript) = 1..Len(Events(transcript))
         /\ \A k \in DOMAIN Events(transcript) : Events(transcript)[k] \in GitEvents
  <1>1. Events(transcript) \in Seq(GitEvents)
    <2> DEFINE none == {}
               empty == <<>>
               c == [turn |-> 0, invs |-> empty, commits |-> empty, pushes |-> none]
    <2>1. none \in SUBSET Commits /\ \A S : empty \in Seq(S)
      BY EmptySeq
    <2> HIDE DEF none, empty
    <2>2. c \in Calls
      BY <2>1 DEF Calls
    <2> QED  BY <2>2, MoreEvents DEF SliceTyped
  <1>2. /\ Len(Events(transcript)) \in Nat
        /\ DOMAIN Events(transcript) = 1..Len(Events(transcript))
        /\ \A k \in DOMAIN Events(transcript) : Events(transcript)[k] \in GitEvents
    BY <1>1, LenProperties, ElementOfSeq
  <1> QED
    BY <1>2 DEF OwnAnchors

LEMMA SliceIs ==
  ASSUME SliceTyped, InOrder, NEW branch, NEW aliases,
         NEW commit \in OwnAnchors(Events(transcript), branch, aliases),
         Events(transcript)[commit].verb = "commit"
  PROVE  LET trail == Events(transcript)
             own == OwnAnchors(trail, branch, aliases)
             slice == Slice(transcript, branch, aliases)
             first == FirstOwn(own)
         IN  /\ slice.kind = "slice"
             /\ first \in own /\ \A k \in own : first <= k
             /\ slice.start \in Nat /\ slice.end \in Nat
             /\ slice.start <= trail[first].turn
             /\ \A k \in own : trail[k].turn <= slice.end
             /\ \E k \in own : trail[k].turn = slice.end
             /\ \A j \in 1..(first - 1) : IsAnchor(trail[j]) =>
                   trail[j].turn < slice.start \/ slice.start = trail[first].turn
  <1> DEFINE trail == Events(transcript)
             own == OwnAnchors(trail, branch, aliases)
             slice == Slice(transcript, branch, aliases)
             first == FirstOwn(own)
             before == {j \in 1..(first - 1) : IsAnchor(trail[j])}
             foreign == {trail[k] : k \in before}
             ends == {e.turn : e \in {trail[k] : k \in own}}
             starts == {e.turn : e \in foreign}
             bound == Len(transcript)
             start == StartTurn(foreign, trail[first])
             end == EndTurn({trail[k] : k \in own})
  <1>1. /\ own \subseteq 1..Len(trail) /\ Len(trail) \in Nat /\ DOMAIN trail = 1..Len(trail)
        /\ \A k \in 1..Len(trail) : trail[k].turn \in Nat
    BY OwnIsEvent DEF GitEvents
  <1>2. bound \in Nat /\ \A k \in 1..Len(trail) : trail[k].turn <= bound
    <2>1. bound \in Nat
      BY LenProperties DEF SliceTyped
    <2>2. \A k \in 1..Len(trail) : trail[k].turn < bound
      BY <1>1 DEF InOrder
    <2> HIDE DEF trail, bound
    <2> QED  BY <1>1, <2>1, <2>2
  <1>3. slice = [kind |-> "slice", start |-> start, end |-> end]
    BY DEF Slice
  <1> HIDE DEF trail, own, slice, first, start, end, bound
  <1>4. first \in own /\ \A k \in own : first <= k
    <2>1. own \subseteq Nat /\ own # {}
      BY <1>1 DEF own, trail
    <2> QED  BY <2>1, MinIs DEF FirstOwn, first
  <1>5. /\ end \in Nat /\ \A k \in own : trail[k].turn <= end
        /\ \E k \in own : trail[k].turn = end
    <2>1. ends \subseteq Nat /\ ends # {} /\ \A t \in ends : t <= bound
      BY <1>1, <1>2, <1>4
    <2>2. end = Max(ends)
      BY DEF EndTurn, end
    <2>3. end \in ends /\ \A t \in ends : t <= end
      <3> HIDE DEF ends
      <3> QED  BY <1>2, <2>1, <2>2, MaxIs
    <2> QED
      BY <2>1, <2>3
  <1>6. /\ start \in Nat /\ start <= trail[first].turn
        /\ \A j \in 1..(first - 1) : IsAnchor(trail[j]) =>
              trail[j].turn < start \/ start = trail[first].turn
    <2>0. trail[first].turn \in Nat /\ first \in 1..Len(trail)
      BY <1>1, <1>4
    <2>1. CASE foreign = {}
      <3>1. start = 0
        BY <2>1 DEF StartTurn, start
      <3>2. before = {}
        BY <2>1
      <3> QED  BY <2>0, <3>1, <3>2
    <2>2. CASE foreign # {}
      <3>1. starts \subseteq Nat /\ starts # {} /\ \A t \in starts : t <= bound
        <4>1. \A j \in before : j \in 1..Len(trail)
          BY <1>1, <2>0
        <4> HIDE DEF before
        <4> QED  BY <1>1, <1>2, <2>2, <4>1
      <3> DEFINE last == Max(starts)
      <3>2. last \in Nat /\ \A t \in starts : t <= last
        <4> HIDE DEF starts
        <4> QED  BY <1>2, <3>1, MaxIs
      <3> DEFINE two == {last + 1, trail[first].turn}
      <3>3. start = Min(two)
        BY <2>2 DEF StartTurn, start
      <3> HIDE DEF last
      <3>4. two \subseteq Nat /\ two # {}
        BY <2>0, <3>2
      <3>5. start \in two /\ \A t \in two : start <= t
        <4> HIDE DEF two
        <4> QED  BY <3>3, <3>4, MinIs
      <3>6. ASSUME NEW j \in 1..(first - 1), IsAnchor(trail[j])
            PROVE  trail[j].turn < start \/ start = trail[first].turn
        <4>1. trail[j].turn \in starts
          BY <3>6
        <4>2. trail[j].turn \in Nat /\ trail[j].turn <= last
          <5> HIDE DEF starts
          <5> QED  BY <3>1, <3>2, <4>1
        <4> QED  BY <3>2, <3>5, <4>2
      <3> QED
        BY <2>0, <3>4, <3>5, <3>6
    <2> QED  BY <2>1, <2>2
  <1>7. slice.kind = "slice" /\ slice.start = start /\ slice.end = end
    BY <1>3
  <1> QED
    BY <1>4, <1>5, <1>6, <1>7 DEF trail, own, slice, first

(* A commit of the branch stands for itself. *)
LEMMA OwnSha ==
  ASSUME SlicedWell, NEW b \in Branches, NEW s \in ToSet(log[b]), NEW aliases
  PROVE  BranchSha(s, ToSet(log[b]), aliases) = {s}
  <1> DEFINE branch == ToSet(log[b])
  <1>1. Names[s] = {s}
    <2>1. s \in 1..Len(madeAt) /\ Len(madeAt) <= MaxCommits /\ Len(madeAt) \in Nat
      BY LenProperties DEF SlicedWell, LogInv, SliceInv, SliceTyped
    <2> QED  BY <2>1, PrSliceAssumption
  <1>2. Names[s] \cap branch = {s} /\ Cardinality({s}) = 1
    BY <1>1, FS_Singleton
  <1> HIDE DEF branch
  <1> QED
    BY <1>2 DEF BranchSha, branch

LEMMA ShownIsSliced ==
  ASSUME SlicedWell
  PROVE  OwnCommitsAreSliced
  <1> SUFFICES ASSUME NEW b \in Branches, NEW s \in Shown(b)
               PROVE  SliceOf(b).kind = "slice" /\ madeAt[s] \in TurnsOf(SliceOf(b))
    BY DEF OwnCommitsAreSliced
  <1> DEFINE trail == Events(transcript)
             branch == ToSet(log[b])
             aliases == AliasesOf(b)
             own == OwnAnchors(trail, branch, aliases)
             slice == Slice(transcript, branch, aliases)
             first == FirstOwn(own)
  <1>1. SliceTyped /\ InOrder /\ Traced
    BY DEF SlicedWell, SliceInv
  <1>2. PICK n \in DOMAIN transcript :
           s \in ToSet(transcript[n].commits) /\ Pairs(transcript[n])
    BY DEF Shown, ToSet, Pairs
  <1>3. PICK k \in DOMAIN trail :
           trail[k].verb = "commit" /\ trail[k].runs = {s} /\ trail[k].turn = madeAt[s]
    BY <1>1, <1>2 DEF Traced
  <1>5. BranchSha(s, branch, aliases) = {s}
    BY OwnSha DEF Shown
  <1>6. k \in own
    <2> HIDE DEF branch, aliases
    <2>1. IsAnchor(trail[k]) /\ Direct(trail[k], branch, aliases)
      BY <1>3, <1>5 DEF IsAnchor, Writes, Direct
    <2> QED
      BY <1>3, <2>1 DEF OwnAnchors
  <1>7. SliceOf(b) = slice
    BY DEF SliceOf
  <1> HIDE DEF branch, aliases, trail, own, slice, first
  <1>8. /\ slice.kind = "slice"
        /\ first \in own /\ \A j \in own : first <= j
        /\ slice.start \in Nat /\ slice.end \in Nat
        /\ slice.start <= trail[first].turn
        /\ \A j \in own : trail[j].turn <= slice.end
    BY <1>1, <1>3, <1>6, SliceIs DEF trail, own, slice, first
  <1>9. first \in DOMAIN trail /\ trail[first].turn \in Nat /\ trail[k].turn \in Nat
    BY <1>1, <1>3, <1>8, OwnIsEvent DEF trail, own, GitEvents
  <1>10. trail[first].turn <= trail[k].turn
    BY <1>1, <1>3, <1>6, <1>8, <1>9 DEF InOrder, trail
  <1>11. madeAt[s] \in slice.start..slice.end
    BY <1>3, <1>6, <1>8, <1>9, <1>10
  <1> QED
    BY <1>7, <1>8, <1>11 DEF TurnsOf

(* Whatever was amended, pushed, switched or committed elsewhere around it, *)
(* a commit of the branch that a call printed lies in the branch's slice.   *)
THEOREM ShownCommitsAreSliced == SliceSpec => []OwnCommitsAreSliced
  BY SlicedWellHolds, ShownIsSliced, PTL

-----------------------------------------------------------------------------
(* What is a branch's own proves a write: a commit that was amended away    *)
(* was printed, or the amend would not be known to replace it.              *)
LEMMA OwnIsAnchor ==
  ASSUME SliceTyped, NEW branch, NEW aliases,
         NEW k \in OwnAnchors(Events(transcript), branch, aliases)
  PROVE  IsAnchor(Events(transcript)[k])
  <1> DEFINE trail == Events(transcript)
             direct == {j \in DOMAIN trail :
                          IsAnchor(trail[j]) /\ Direct(trail[j], branch, aliases)}
  <1>1. k \in DOMAIN trail /\ DOMAIN trail = 1..Len(trail) /\ Len(trail) \in Nat
    BY OwnIsEvent
  <1>2. CASE k \in direct
    BY <1>2
  <1>3. CASE k \notin direct
    <2>1. PICK j \in direct :
            /\ k < j /\ trail[k].verb = "commit" /\ trail[j].verb = "commit"
            /\ \A i \in (k + 1)..j : trail[i].verb = "commit" => AmendsPrevious(trail, i)
      BY <1>3 DEF OwnAnchors
    <2> DEFINE later == {i \in (k + 1)..j : trail[i].verb = "commit"}
    <2>2. j \in later /\ later \subseteq Nat /\ j \in 1..Len(trail)
      BY <1>1, <2>1
    <2> HIDE DEF trail, direct
    <2>3. PICK next \in later : \A i \in later : next <= i
      <3> HIDE DEF later
      <3> QED  BY <2>2, LeastOf
    <2> DEFINE before == {i \in 1..(next - 1) : trail[i].verb = "commit"}
    <2>4. next \in (k + 1)..j /\ AmendsPrevious(trail, next) /\ next \in Nat
      BY <1>1, <2>1, <2>3
    <2>5. k \in before /\ before \subseteq Nat /\ \A i \in before : i <= k
      BY <1>1, <2>1, <2>2, <2>3, <2>4
    <2>6. Max(before) = k
      <3> HIDE DEF before
      <3>1. k \in Nat
        BY <1>1
      <3>2. Max(before) \in before /\ \A m \in before : m <= Max(before)
        BY <2>5, <3>1, MaxIs
      <3>3. Max(before) \in Nat /\ Max(before) <= k /\ k <= Max(before)
        BY <2>5, <3>2
      <3> QED  BY <3>1, <3>3
    <2>7. trail[k].runs # {}
      BY <2>4, <2>6 DEF AmendsPrevious
    <2> QED
      BY <2>1, <2>7 DEF IsAnchor, Writes, trail
  <1> QED
    BY <1>2, <1>3

LEMMA SlicedByCommit ==
  ASSUME NEW branch, NEW aliases, Slice(transcript, branch, aliases).kind = "slice"
  PROVE  \E k \in OwnAnchors(Events(transcript), branch, aliases) :
            Events(transcript)[k].verb = "commit"
  <1>1. FullSlice.kind = "full"
    BY DEF FullSlice
  <1> QED
    BY <1>1 DEF Slice

LEMMA SlicesAreDisjoint ==
  ASSUME SlicedWell
  PROVE  SequentialBranchesAreDisjoint
  <1> SUFFICES ASSUME NEW a \in Branches, NEW b \in Branches,
                      SliceOf(a).kind = "slice", SliceOf(b).kind = "slice",
                      \A i \in OwnTurns(a), j \in OwnTurns(b) : i < j
               PROVE  TurnsOf(SliceOf(a)) \cap TurnsOf(SliceOf(b)) = {}
    BY DEF SequentialBranchesAreDisjoint
  <1> DEFINE trail == Events(transcript)
             own(c) == OwnAnchors(trail, ToSet(log[c]), AliasesOf(c))
             first == FirstOwn(own(b))
  <1>1. SliceTyped /\ InOrder
    BY DEF SlicedWell, SliceInv
  <1>2. \A c \in Branches : \A k \in own(c) : trail[k].turn \in OwnTurns(c)
    BY DEF OwnTurns, OwnOf
  <1>3. PICK k \in own(a) : trail[k].turn = SliceOf(a).end
    <2>1. SliceOf(a) = Slice(transcript, ToSet(log[a]), AliasesOf(a))
      BY DEF SliceOf
    <2>2. PICK commit \in own(a) : trail[commit].verb = "commit"
      BY <2>1, SlicedByCommit
    <2>3. \E k \in own(a) : trail[k].turn = SliceOf(a).end
      BY <1>1, <2>1, <2>2, SliceIs
    <2> QED  BY <2>3
  <1>4. /\ first \in own(b)
        /\ SliceOf(b).start \in Nat
        /\ \A j \in 1..(first - 1) : IsAnchor(trail[j]) =>
              trail[j].turn < SliceOf(b).start \/ SliceOf(b).start = trail[first].turn
    <2>1. SliceOf(b) = Slice(transcript, ToSet(log[b]), AliasesOf(b))
      BY DEF SliceOf
    <2>2. PICK commit \in own(b) : trail[commit].verb = "commit"
      BY <2>1, SlicedByCommit
    <2> QED  BY <1>1, <2>1, <2>2, SliceIs
  <1>5. /\ DOMAIN trail = 1..Len(trail) /\ Len(trail) \in Nat
        /\ k \in DOMAIN trail /\ first \in DOMAIN trail
        /\ trail[k].turn \in Nat /\ trail[first].turn \in Nat
    BY <1>1, <1>3, <1>4, OwnIsEvent DEF GitEvents
  <1>6. trail[k].turn < trail[first].turn
    BY <1>2, <1>3, <1>4
  <1>7. IsAnchor(trail[k])
    BY <1>1, <1>3, OwnIsAnchor
  <1>8. k \in 1..(first - 1)
    <2>1. first <= k => trail[first].turn <= trail[k].turn
      BY <1>1, <1>5 DEF InOrder
    <2> HIDE DEF trail, first
    <2> QED  BY <1>5, <1>6, <2>1
  <1>9. SliceOf(a).end < SliceOf(b).start
    BY <1>3, <1>4, <1>6, <1>7, <1>8
  <1>10. SliceOf(a).end \in Nat
    BY <1>3, <1>5
  <1> HIDE DEF trail, own, first
  <1>11. \A t \in SliceOf(a).start..SliceOf(a).end : t <= SliceOf(a).end
    BY <1>10
  <1>12. \A t \in SliceOf(b).start..SliceOf(b).end : SliceOf(b).start <= t
    BY <1>4
  <1>13. \A t \in TurnsOf(SliceOf(a)) : t \in Int /\ t <= SliceOf(a).end
    BY <1>11 DEF TurnsOf
  <1>14. \A t \in TurnsOf(SliceOf(b)) : SliceOf(b).start <= t
    BY <1>12 DEF TurnsOf
  <1> QED
    BY <1>4, <1>9, <1>10, <1>13, <1>14

(* A session that finishes with one branch before it turns to the next: no  *)
(* turn of it is counted in the receipts of both.                           *)
THEOREM SequentialSlicesAreDisjoint == SliceSpec => []SequentialBranchesAreDisjoint
  BY SlicedWellHolds, SlicesAreDisjoint, PTL

-----------------------------------------------------------------------------
(* With one worktree, a printed amend names what it replaced.               *)
OneWorktree == \E w : Worktrees = {w}

(* Event p is the last commit before k, and nothing moved HEAD in between. *)
RightBefore(trail, p, k) ==
    /\ p < k /\ trail[p].verb = "commit"
    /\ \A j \in (p + 1)..(k - 1) : trail[j].verb \notin {"commit", "barrier"}

RunsAreMade ==
    LET trail == Events(transcript)
    IN  \A k \in DOMAIN trail :
          trail[k].verb = "commit" => trail[k].runs \subseteq 1..Len(madeAt)

Replaced ==
    LET trail == Events(transcript)
    IN  \A p, k \in DOMAIN trail :
          RightBefore(trail, p, k) /\ trail[k].verb = "commit" /\ trail[k].amend =>
             \A r \in trail[k].runs, q \in trail[p].runs : q \in preimages[r]

Tip ==
    LET trail == Events(transcript)
    IN  \A p \in DOMAIN trail : \A w \in Worktrees :
          RightBefore(trail, p, Len(trail) + 1) =>
             \A q \in trail[p].runs : log[head[w]] # <<>> /\ Last(log[head[w]]) = q

Lineage == RunsAreMade /\ Replaced /\ Tip

LEMMA SayingKeepsLineage ==
  ASSUME SlicedWell, Lineage, NEW w \in Worktrees, OneWorktree, StepSays(w)
  PROVE  Lineage'
  <1> DEFINE old == Events(transcript)
             new == Events(transcript)'
             n == Len(old)
  <1>0. PICK c \in Calls : Said(c, w)
    BY DEF StepSays
  <1> DEFINE own == EventsOf(c)
             m == Len(own)
  <1>1. SliceTyped /\ transcript' = Append(transcript, c) /\ Truthful(c, madeAt')
        /\ AmendsTip(c, w) /\ LeavesTip(c, w)
    BY <1>0 DEF SlicedWell, SliceInv, Said
  <1>2. /\ n \in Nat /\ DOMAIN old = 1..n
        /\ m \in Nat /\ DOMAIN own = 1..m /\ DOMAIN own = DOMAIN c.invs
        /\ DOMAIN new = 1..(n + m)
        /\ \A k \in 1..n : new[k] = old[k]
        /\ \A i \in 1..m : new[n + i] = own[i] /\ n + i \in DOMAIN new
    BY <1>1, EventsAfter
  <1>3. \A k \in DOMAIN new : k \in 1..n \/ \E i \in 1..m : k = n + i
    BY <1>1, EventsAfter
  <1>4. \A i \in 1..m : /\ own[i].verb = c.invs[i].verb /\ own[i].amend = c.invs[i].amend
                        /\ own[i].runs = RunsOf(c, i)
    BY <1>1, EventsAfter
  <1>5. Len(new) = n + m
    BY <1>1, EventsAfter
  <1>6. /\ \A s \in DOMAIN madeAt : preimages'[s] = preimages[s]
        /\ DOMAIN madeAt = 1..Len(madeAt) /\ Len(madeAt) \in Nat
        /\ DOMAIN madeAt' = 1..Len(madeAt') /\ DOMAIN madeAt \subseteq DOMAIN madeAt'
    BY <1>1, LenProperties DEF StepSays, SliceTyped
  <1>7. /\ \A k \in 1..n : old[k].verb = "commit" => old[k].runs \subseteq DOMAIN madeAt
        /\ \A p, k \in 1..n :
              RightBefore(old, p, k) /\ old[k].verb = "commit" /\ old[k].amend =>
                 \A r \in old[k].runs, q \in old[p].runs : q \in preimages[r]
        /\ \A p \in 1..n : RightBefore(old, p, n + 1) =>
              \A q \in old[p].runs : log[head[w]] # <<>> /\ Last(log[head[w]]) = q
    BY <1>2, <1>6 DEF Lineage, RunsAreMade, Replaced, Tip
  <1>8. Events(transcript)' = new
    OBVIOUS
  <1> HIDE DEF old, new, own, n, m
  <1>9. ASSUME NEW p \in 1..n, NEW k \in (p + 1)..(n + 1), RightBefore(new, p, k)
        PROVE  RightBefore(old, p, k)
    <2>1. \A j \in (p + 1)..(k - 1) : j \in 1..n
      BY <1>2
    <2> QED
      BY <1>2, <1>9, <2>1 DEF RightBefore
  <1>10. RunsAreMade'
    <2>1. ASSUME NEW i \in 1..m, own[i].verb = "commit"
          PROVE  own[i].runs \subseteq DOMAIN madeAt'
      <3>1. own[i].runs \subseteq ToSet(c.commits)
        BY <1>2, <1>4, <2>1, RunsAreCommits
      <3> QED
        BY <1>1, <3>1 DEF Truthful
    <2>2. \A k \in DOMAIN new : new[k].verb = "commit" => new[k].runs \subseteq DOMAIN madeAt'
      <3> SUFFICES ASSUME NEW k \in DOMAIN new, new[k].verb = "commit"
                   PROVE  new[k].runs \subseteq DOMAIN madeAt'
        OBVIOUS
      <3>1. CASE k \in 1..n
        BY <1>2, <1>6, <1>7, <3>1
      <3>2. ASSUME NEW i \in 1..m, k = n + i PROVE new[k].runs \subseteq DOMAIN madeAt'
        BY <1>2, <2>1, <3>2
      <3> QED
        BY <1>3, <3>1, <3>2
    <2> QED
      BY <1>6, <1>8, <2>2 DEF RunsAreMade
  <1>11. ASSUME NEW p \in DOMAIN new, NEW k \in DOMAIN new, RightBefore(new, p, k),
                new[k].verb = "commit", new[k].amend,
                NEW r \in new[k].runs, NEW q \in new[p].runs
         PROVE  q \in preimages'[r]
    <2>1. p \in Nat /\ k \in Nat /\ 1 <= p /\ p < k
      BY <1>2, <1>11 DEF RightBefore
    <2>2. CASE k \in 1..n
      <3>1. p \in 1..n /\ k \in (p + 1)..(n + 1)
        BY <1>2, <2>1, <2>2
      <3>2. q \in preimages[r] /\ r \in DOMAIN madeAt
        BY <1>2, <1>7, <1>9, <1>11, <2>2, <3>1
      <3> QED
        BY <1>6, <3>2
    <2>3. ASSUME NEW i \in 1..m, k = n + i
          PROVE  q \in preimages'[r]
      <3>1. own[i] = new[k] /\ i \in DOMAIN c.invs /\ c.invs[i].amend /\ r \in RunsOf(c, i)
        BY <1>2, <1>4, <1>11, <2>3
      <3>2. i = 1 /\ Last(log[head[w]]) \in preimages'[r]
        BY <1>1, <3>1 DEF AmendsTip
      <3>3. p \in 1..n /\ k = n + 1 /\ k \in (p + 1)..(n + 1)
        BY <1>2, <2>1, <2>3, <3>2
      <3>4. Last(log[head[w]]) = q
        BY <1>2, <1>7, <1>9, <1>11, <3>3
      <3> QED
        BY <3>2, <3>4
    <2> QED
      BY <1>3, <2>2, <2>3
  <1>12. Replaced'
    BY <1>8, <1>11 DEF Replaced
  <1>13. ASSUME NEW p \in DOMAIN new, RightBefore(new, p, n + m + 1), NEW q \in new[p].runs
         PROVE  log'[head'[w]] # <<>> /\ Last(log'[head'[w]]) = q
    <2>1. /\ p \in Nat /\ 1 <= p /\ new[p].verb = "commit"
          /\ \A j \in (p + 1)..(n + m) : new[j].verb \notin {"commit", "barrier"}
      BY <1>2, <1>13 DEF RightBefore
    <2>2. \A i \in 1..m : p < n + i => own[i].verb \notin {"commit", "barrier"}
      <3>1. \A i \in 1..m : p < n + i => n + i \in (p + 1)..(n + m)
        BY <1>2, <2>1
      <3> QED
        BY <1>2, <2>1, <3>1
    <2>3. ASSUME NEW i \in WithVerb(c, "commit"), \A j \in WithVerb(c, "commit") : j <= i,
                 \A r \in RunsOf(c, i) : log'[head'[w]] # <<>> /\ Last(log'[head'[w]]) = r
          PROVE  log'[head'[w]] # <<>> /\ Last(log'[head'[w]]) = q
      <3>1. i \in 1..m /\ own[i].verb = "commit"
        BY <1>2, <1>4 DEF WithVerb
      <3>2. p >= n + i
        BY <1>2, <2>1, <2>2, <3>1
      <3>3. PICK j \in 1..m : p = n + j
        <4>1. p \notin 1..n
          BY <1>2, <3>1, <3>2
        <4> QED  BY <1>3, <1>13, <4>1
      <3>4. j \in WithVerb(c, "commit")
        BY <1>2, <1>4, <2>1, <3>3 DEF WithVerb
      <3>5. p = n + i
        BY <1>2, <2>3, <3>1, <3>2, <3>3, <3>4
      <3> QED
        BY <1>2, <1>4, <1>13, <2>3, <3>1, <3>5
    <2>4. ASSUME WithVerb(c, "commit") = {},
                 WithVerb(c, "barrier") # {} \/ UNCHANGED <<log, head>>
          PROVE  log'[head'[w]] # <<>> /\ Last(log'[head'[w]]) = q
      <3>1. \A i \in 1..m : own[i].verb # "commit"
        BY <1>2, <1>4, <2>4 DEF WithVerb
      <3>2. p \in 1..n
        <4>1. \A i \in 1..m : new[n + i] = own[i]
          BY <1>2, <1>3
        <4>2. \A i \in 1..m : p # n + i
          BY <2>1, <3>1, <4>1
        <4> QED  BY <1>3, <1>13, <4>2
      <3>3. \A i \in 1..m : own[i].verb # "barrier"
        BY <1>2, <2>2, <3>2
      <3>4. UNCHANGED <<log, head>>
        BY <1>2, <1>4, <2>4, <3>3 DEF WithVerb
      <3>5. RightBefore(new, p, n + 1) /\ n + 1 \in (p + 1)..(n + 1)
        <4>1. p < n + 1 /\ \A j \in (p + 1)..((n + 1) - 1) : j \in (p + 1)..(n + m)
          BY <1>2, <3>2
        <4> QED  BY <1>2, <2>1, <3>2, <4>1 DEF RightBefore
      <3>6. log[head[w]] # <<>> /\ Last(log[head[w]]) = q
        BY <1>2, <1>7, <1>9, <1>13, <3>2, <3>5
      <3> QED
        BY <3>4, <3>6
    <2> QED
      BY <1>1, <2>3, <2>4 DEF LeavesTip
  <1>14. Tip'
    <2>1. \A v \in Worktrees : v = w
      BY DEF OneWorktree
    <2>2. Len(Events(transcript))' + 1 = n + m + 1
      BY <1>5, <1>8
    <2> QED
      BY <1>8, <1>13, <2>1, <2>2 DEF Tip
  <1> QED
    BY <1>10, <1>12, <1>14 DEF Lineage
-----------------------------------------------------------------------------
LEMMA InitLineage == SliceInit => Lineage
  <1> SUFFICES ASSUME SliceInit PROVE Lineage
    OBVIOUS
  <1>1. Events(transcript) = <<>> /\ DOMAIN <<>> = {}
    BY NoEvents DEF SliceInit
  <1> QED
    BY <1>1 DEF Lineage, RunsAreMade, Replaced, Tip

LEMMA LineageStep ==
  ASSUME OneWorktree
  PROVE  SlicedWell /\ Lineage /\ [SliceNext]_sliceVars => Lineage'
  <1>1. ASSUME SlicedWell, Lineage, SliceNext PROVE Lineage'
    <2>1. PICK w \in Worktrees : StepSays(w)
      BY <1>1, StepIsSaid DEF SlicedWell, SliceInv, OneWorktree
    <2> QED
      BY <1>1, <2>1, SayingKeepsLineage
  <1>2. ASSUME Lineage, UNCHANGED sliceVars PROVE Lineage'
    BY <1>2 DEF sliceVars, Lineage, RunsAreMade, Replaced, Tip, RightBefore
  <1> QED
    BY <1>1, <1>2

(* A commit of the branch, or one that a commit of the branch replaced. *)
DescendsTo(r, b) == \E t \in ToSet(log[b]) : r = t \/ r \in preimages[t]

(* What a written commit stands for on a branch: itself, or what replaced it. *)
LEMMA StandsFor ==
  ASSUME SlicedWell, NEW b \in Branches, NEW r \in 1..Len(madeAt),
         NEW s \in BranchSha(r, ToSet(log[b]), AliasesOf(b))
  PROVE  s \in ToSet(log[b]) /\ (s = r \/ r \in preimages[s])
  <1> DEFINE branch == ToSet(log[b])
             aliases == AliasesOf(b)
  <1>0. s \in BranchSha(r, branch, aliases)
    OBVIOUS
  <1>1. branch \subseteq 1..Len(madeAt) /\ Len(madeAt) <= MaxCommits /\ Len(madeAt) \in Nat
    BY LenProperties DEF SlicedWell, LogInv, SliceInv, SliceTyped
  <1>2. Names[r] = {r}
    BY <1>1, PrSliceAssumption
  <1>3. CASE r \in branch
    <2>1. Names[r] \cap branch = {r}
      BY <1>2, <1>3
    <2>2. s = r
      <3> HIDE DEF branch, aliases
      <3> QED  BY <1>0, <2>1 DEF BranchSha
    <2> QED  BY <1>3, <2>2
  <1>4. CASE r \notin branch
    <2>1. r \in DOMAIN aliases /\ aliases[r] \in branch /\ s = aliases[r]
      <3>1. Names[r] \cap branch = {}
        BY <1>2, <1>4
      <3> HIDE DEF branch, aliases
      <3> QED  BY <1>0, <3>1 DEF BranchSha
    <2> DEFINE heirs == {t \in branch : diffs[t] = diffs[r]}
    <2>2. heirs # {} /\ aliases[r] = CHOOSE t \in heirs : TRUE
      BY <2>1 DEF AliasesOf
    <2>3. aliases[r] \in heirs
      <3> HIDE DEF heirs, aliases
      <3> QED  BY <2>2
    <2>4. s \in branch /\ s \in 1..Len(madeAt) /\ diffs[s] = diffs[r] /\ s # r
      BY <1>1, <1>4, <2>1, <2>3
    <2>5. ~(s < r)
      BY <2>4 DEF SlicedWell, LogInv
    <2>6. r < s
      BY <1>1, <2>4, <2>5
    <2>7. r \in preimages[s]
      BY <2>4, <2>6 DEF SlicedWell, LogInv
    <2> QED
      BY <2>4, <2>7
  <1> QED
    BY <1>3, <1>4

LEMMA DirectDescends ==
  ASSUME SlicedWell, Lineage, NEW b \in Branches, NEW k \in DOMAIN Events(transcript),
         Events(transcript)[k].verb = "commit",
         Direct(Events(transcript)[k], ToSet(log[b]), AliasesOf(b))
  PROVE  \E r \in Events(transcript)[k].runs : DescendsTo(r, b)
  <1> DEFINE e == Events(transcript)[k]
             branch == ToSet(log[b])
             aliases == AliasesOf(b)
  <1>1. PICK r \in e.runs : BranchSha(r, branch, aliases) # {}
    BY DEF Direct
  <1>2. PICK s \in BranchSha(r, branch, aliases) : TRUE
    BY <1>1
  <1>3. r \in 1..Len(madeAt)
    BY DEF Lineage, RunsAreMade
  <1>4. s \in branch /\ (s = r \/ r \in preimages[s])
    BY <1>2, <1>3, StandsFor
  <1> QED
    BY <1>4 DEF DescendsTo

LEMMA OwnDescends ==
  ASSUME SlicedWell, Lineage
  PROVE  LineageIsReal
  <1> DEFINE trail == Events(transcript)
  <1> SUFFICES ASSUME NEW b \in Branches,
                      NEW k \in OwnAnchors(trail, ToSet(log[b]), AliasesOf(b)),
                      trail[k].verb = "commit"
               PROVE  \E s \in trail[k].runs : DescendsTo(s, b)
    BY DEF LineageIsReal, OwnOf, DescendsTo
  <1> DEFINE branch == ToSet(log[b])
             aliases == AliasesOf(b)
             direct == {j \in DOMAIN trail :
                          IsAnchor(trail[j]) /\ Direct(trail[j], branch, aliases)}
             fine(m) == \E s \in trail[m].runs : DescendsTo(s, b)
  <1>1. k \in DOMAIN trail /\ DOMAIN trail = 1..Len(trail) /\ Len(trail) \in Nat
    BY OwnIsEvent DEF SlicedWell, SliceInv
  <1>2. \A j \in direct : trail[j].verb = "commit" => fine(j)
    BY DirectDescends
  <1>3. CASE k \in direct
    BY <1>2, <1>3
  <1>4. CASE k \notin direct
    <2>1. PICK j \in direct :
            /\ k < j /\ trail[j].verb = "commit"
            /\ \A i \in (k + 1)..j : trail[i].verb = "commit" => AmendsPrevious(trail, i)
      BY <1>4 DEF OwnAnchors
    <2>2. j \in 1..Len(trail) /\ fine(j)
      BY <1>1, <1>2, <2>1
    <2> HIDE DEF fine
    <2> DEFINE bad == {m \in k..j : trail[m].verb = "commit" /\ ~fine(m)}
    <2> SUFFICES ASSUME ~fine(k) PROVE FALSE
      BY DEF fine
    <2>3. k \in bad /\ bad \subseteq Nat /\ \A m \in bad : m <= j
      BY <1>1, <2>1, <2>2
    <2> DEFINE m == Max(bad)
    <2>4. m \in bad /\ \A i \in bad : i <= m
      <3>1. j \in Nat
        BY <1>1, <2>2
      <3> HIDE DEF bad
      <3> QED  BY <2>3, <3>1, MaxIs
    <2> HIDE DEF m
    <2>5. m \in k..j /\ trail[m].verb = "commit" /\ ~fine(m) /\ m < j
      BY <1>1, <2>2, <2>4
    <2> DEFINE later == {i \in (m + 1)..j : trail[i].verb = "commit"}
    <2>6. later \subseteq Nat /\ later # {}
      BY <1>1, <2>1, <2>2, <2>5
    <2>7. PICK next \in later : \A i \in later : next <= i
      <3> HIDE DEF later
      <3> QED  BY <2>6, LeastOf
    <2>8. next \in (m + 1)..j /\ trail[next].verb = "commit" /\ next \notin bad
          /\ \A i \in (m + 1)..(next - 1) : trail[i].verb # "commit"
      BY <1>1, <2>2, <2>4, <2>5, <2>7
    <2>9. fine(next) /\ AmendsPrevious(trail, next) /\ next \in 1..Len(trail) /\ m \in 1..Len(trail)
      BY <1>1, <2>1, <2>2, <2>5, <2>8
    <2> DEFINE before == {i \in 1..(next - 1) : trail[i].verb = "commit"}
    <2>10. Max(before) = m
      <3>1. m \in before /\ before \subseteq Nat /\ \A i \in before : i <= m
        BY <1>1, <2>5, <2>8, <2>9
      <3> HIDE DEF before
      <3>2. m \in Nat
        BY <2>9
      <3>3. Max(before) \in before /\ \A i \in before : i <= Max(before)
        BY <3>1, <3>2, MaxIs
      <3>4. Max(before) \in Nat /\ m <= Max(before) /\ Max(before) <= m
        BY <3>1, <3>3
      <3> QED  BY <3>2, <3>4
    <2>11. /\ trail[next].amend /\ trail[m].runs # {}
           /\ \A i \in (m + 1)..(next - 1) : trail[i].verb # "barrier"
      BY <2>9, <2>10 DEF AmendsPrevious
    <2>12. RightBefore(trail, m, next)
      BY <2>5, <2>8, <2>9, <2>11 DEF RightBefore
    <2>13. PICK q \in trail[m].runs : \A r \in trail[next].runs : q \in preimages[r]
      BY <1>1, <2>8, <2>9, <2>11, <2>12 DEF Lineage, Replaced
    <2>14. PICK r \in trail[next].runs, t \in ToSet(log[b]) : r = t \/ r \in preimages[t]
      BY <2>9 DEF fine, DescendsTo
    <2>15. q \in preimages[t]
      <3>1. t \in 1..Len(madeAt)
        BY DEF SlicedWell, LogInv
      <3>2. q \in preimages[r]
        BY <2>13
      <3>3. r \in preimages[t] => preimages[r] \subseteq preimages[t]
        BY <3>1 DEF SlicedWell, LogInv
      <3> QED
        BY <2>14, <3>2, <3>3
    <2> QED
      BY <2>5, <2>15 DEF fine, DescendsTo
  <1> QED
    BY <1>3, <1>4

(* In one worktree no chain of amends carries the ownership of a commit to  *)
(* one that the branch's commits did not replace.                           *)
THEOREM AmendLineageIsReal ==
  ASSUME OneWorktree
  PROVE  SliceSpec => []LineageIsReal
  <1>1. SliceInit => Lineage
    BY InitLineage
  <1>2. SlicedWell /\ Lineage /\ [SliceNext]_sliceVars => Lineage'
    BY LineageStep
  <1>3. SlicedWell /\ Lineage => LineageIsReal
    BY OwnDescends
  <1> QED
    BY <1>1, <1>2, <1>3, SlicedWellHolds, PTL DEF SliceSpec

-----------------------------------------------------------------------------
(* PerCommit: the boundaries, in the order of the turns.                    *)
Rank(turns, t) == Cardinality({u \in turns : u <= t})

LEMMA RankGrows ==
  ASSUME NEW turns, turns \subseteq Nat, IsFiniteSet(turns), NEW t \in turns
  PROVE  /\ Rank(turns, t) \in 1..Cardinality(turns)
         /\ \A u \in turns : t < u => Rank(turns, t) < Rank(turns, u)
  <1> DEFINE upto(u) == {v \in turns : v <= u}
  <1>1. \A u \in turns : u \in Nat
    OBVIOUS
  <1>2. ASSUME NEW u \in turns
        PROVE  /\ IsFiniteSet(upto(u)) /\ Cardinality(upto(u)) \in 1..Cardinality(turns)
    <2>1. upto(u) \in SUBSET turns /\ u \in upto(u)
      BY <1>1
    <2> HIDE DEF upto
    <2>2. IsFiniteSet(upto(u)) /\ Cardinality(upto(u)) <= Cardinality(turns)
      BY <2>1, FS_Subset
    <2>3. Cardinality(upto(u)) \in Nat /\ Cardinality(turns) \in Nat /\ Cardinality(upto(u)) # 0
      BY <2>1, <2>2, FS_CardinalityType, FS_EmptySet
    <2> QED  BY <2>2, <2>3
  <1>3. ASSUME NEW u \in turns, t < u PROVE Cardinality(upto(t)) < Cardinality(upto(u))
    <2>1. u \notin upto(t) /\ upto(t) \cup {u} \in SUBSET upto(u)
      <3>1. t \in Nat /\ u \in Nat /\ ~(u <= t) /\ \A v \in turns : v \in Nat /\ (v <= t => v <= u)
        BY <1>1, <1>3
      <3>2. u \notin upto(t)
        BY <3>1
      <3>3. \A v \in upto(t) \cup {u} : v \in turns /\ v <= u
        BY <3>1
      <3> QED  BY <3>2, <3>3
    <2> HIDE DEF upto
    <2>2. Cardinality(upto(t) \cup {u}) = Cardinality(upto(t)) + 1
      BY <1>2, <2>1, FS_AddElement
    <2>3. Cardinality(upto(t) \cup {u}) <= Cardinality(upto(u))
      BY <1>2, <2>1, FS_Subset
    <2>4. Cardinality(upto(t)) \in Nat /\ Cardinality(upto(u)) \in Nat
      BY <1>2, FS_CardinalityType
    <2> QED  BY <2>2, <2>3, <2>4
  <1> QED
    BY <1>2, <1>3 DEF Rank

LEMMA BoundedIsFinite ==
  ASSUME NEW bound \in Nat, NEW turns \in SUBSET (0..bound)
  PROVE  turns \subseteq Nat /\ IsFiniteSet(turns)
  <1> DEFINE all == 0..bound
  <1>1. IsFiniteSet(all) /\ turns \in SUBSET all /\ all \subseteq Nat
    BY FS_Interval
  <1> HIDE DEF all
  <1> QED
    BY <1>1, FS_Subset

LEMMA RankOnto ==
  ASSUME NEW bound \in Nat, NEW turns \in SUBSET (0..bound), NEW k \in 1..Cardinality(turns)
  PROVE  \E t \in turns : Rank(turns, t) = k
  <1> DEFINE Full(S) == \A j \in 1..Cardinality(S) : \E t \in S : Rank(S, t) = j
             T == {n \in Nat : \A S \in SUBSET (0..bound) : Cardinality(S) = n => Full(S)}
  <1>0. \A S \in SUBSET (0..bound) : IsFiniteSet(S)
    BY BoundedIsFinite
  <1>1. 0 \in T
    OBVIOUS
  <1>2. ASSUME NEW n \in Nat, n \in T PROVE n + 1 \in T
    <2> SUFFICES ASSUME NEW S \in SUBSET (0..bound), Cardinality(S) = n + 1
                 PROVE  Full(S)
      OBVIOUS
    <2>1. S # {} /\ IsFiniteSet(S)
      BY <1>0, FS_EmptySet
    <2>2. PICK top \in S : \A u \in S : u <= top
      <3>1. S \subseteq Nat /\ \A u \in S : u <= bound
        OBVIOUS
      <3>2. Max(S) \in S /\ \A u \in S : u <= Max(S)
        BY <2>1, <3>1, MaxIs
      <3> QED  BY <3>2
    <2> DEFINE rest == S \ {top}
    <2>3. IsFiniteSet(rest) /\ Cardinality(rest) = n /\ rest \in SUBSET (0..bound)
      BY <2>1, FS_RemoveElement
    <2>4. Full(rest)
      <3> HIDE DEF Full, rest
      <3> QED  BY <1>2, <2>3
    <2>5. ASSUME NEW t \in rest PROVE Rank(S, t) = Rank(rest, t)
      <3>1. {u \in S : u <= t} = {u \in rest : u <= t}
        BY <2>2
      <3> QED  BY <3>1 DEF Rank
    <2>6. Rank(S, top) = n + 1
      <3>1. {u \in S : u <= top} = S
        BY <2>2
      <3> QED  BY <3>1 DEF Rank
    <2>7. ASSUME NEW j \in 1..(n + 1) PROVE \E t \in S : Rank(S, t) = j
      <3>1. CASE j = n + 1
        BY <2>6, <3>1
      <3>2. CASE j \in 1..n
        <4>1. PICK t \in rest : Rank(rest, t) = j
          BY <2>3, <2>4, <3>2
        <4> QED  BY <2>5, <4>1
      <3> QED  BY <3>1, <3>2
    <2> QED  BY <2>7
  <1>3. Nat \subseteq T
    <2> HIDE DEF T
    <2> QED  BY <1>1, <1>2, AllOf
  <1>4. Cardinality(turns) \in T
    BY <1>0, <1>3, FS_CardinalityType
  <1>5. Full(turns)
    <2> HIDE DEF Full
    <2> QED  BY <1>4
  <1> QED
    BY <1>5

LEMMA NthIs ==
  ASSUME NEW bound \in Nat, NEW turns \in SUBSET (0..bound)
  PROVE  /\ IsFiniteSet(turns)
         /\ \A k \in 1..Cardinality(turns) : Nth(turns, k) \in turns
         /\ \A t \in turns : \E k \in 1..Cardinality(turns) : t = Nth(turns, k)
         /\ \A j, k \in 1..Cardinality(turns) : j < k => Nth(turns, j) < Nth(turns, k)
  <1>0. turns \subseteq Nat /\ IsFiniteSet(turns)
    BY BoundedIsFinite
  <1>1. ASSUME NEW k \in 1..Cardinality(turns)
        PROVE  Nth(turns, k) \in turns /\ Rank(turns, Nth(turns, k)) = k
    <2>1. \E t \in turns : Rank(turns, t) = k
      BY RankOnto
    <2> QED  BY <2>1 DEF Nth, Rank
  <1>2. \A t, u \in turns : t \in Nat /\ u \in Nat /\ (Rank(turns, t) = Rank(turns, u) => t = u)
    <2> SUFFICES ASSUME NEW t \in turns, NEW u \in turns, Rank(turns, t) = Rank(turns, u)
                 PROVE  t = u
      BY <1>0
    <2>1. t \in Nat /\ u \in Nat /\ Rank(turns, t) \in Int
      <3>1. Rank(turns, t) \in 1..Cardinality(turns)
        BY <1>0, RankGrows
      <3> QED  BY <1>0, <3>1
    <2>2. ~(t < u) /\ ~(u < t)
      <3>1. t < u => Rank(turns, t) < Rank(turns, u)
        BY <1>0, RankGrows
      <3>2. u < t => Rank(turns, u) < Rank(turns, t)
        BY <1>0, RankGrows
      <3> QED  BY <2>1, <3>1, <3>2
    <2> QED  BY <2>1, <2>2
  <1>3. ASSUME NEW t \in turns PROVE \E k \in 1..Cardinality(turns) : t = Nth(turns, k)
    <2>1. Rank(turns, t) \in 1..Cardinality(turns)
      BY <1>0, RankGrows
    <2> QED  BY <1>1, <1>2, <2>1
  <1>5. Cardinality(turns) \in Nat
    BY <1>0, FS_CardinalityType
  <1>4. ASSUME NEW j \in 1..Cardinality(turns), NEW k \in 1..Cardinality(turns), j < k
        PROVE  Nth(turns, j) < Nth(turns, k)
    <2>1. /\ Nth(turns, j) \in turns /\ Nth(turns, k) \in turns
          /\ Rank(turns, Nth(turns, j)) = j /\ Rank(turns, Nth(turns, k)) = k
      BY <1>1
    <2>2. Nth(turns, k) < Nth(turns, j) => k < j
      BY <1>0, <2>1, RankGrows
    <2>3. Nth(turns, j) \in Nat /\ Nth(turns, k) \in Nat
      BY <1>0, <2>1
    <2>4. Nth(turns, j) # Nth(turns, k)
      BY <1>4, <1>5, <2>1
    <2> QED  BY <1>4, <1>5, <2>2, <2>3, <2>4
  <1> QED
    BY <1>0, <1>1, <1>3, <1>4

-----------------------------------------------------------------------------
(* Every event is one of a call's, and what a call pairs with a printed     *)
(* commit was made in its turn.                                             *)
MadeInOrder ==
    \A s \in DOMAIN madeAt :
        /\ madeAt[s] < Len(transcript)
        /\ \A r \in DOMAIN madeAt : r <= s => madeAt[r] <= madeAt[s]

MadeThen ==
    \A n \in DOMAIN transcript : \A i \in WithVerb(transcript[n], "commit") :
        \A r \in RunsOf(transcript[n], i) :
            r \in DOMAIN madeAt /\ madeAt[r] = transcript[n].turn

Recorded ==
    \A k \in DOMAIN Events(transcript) : \E n \in DOMAIN transcript :
        \E i \in DOMAIN transcript[n].invs :
            LET e == Events(transcript)[k]
            IN  /\ e.turn = transcript[n].turn /\ e.verb = transcript[n].invs[i].verb
                /\ e.runs = RunsOf(transcript[n], i)

Booked == MadeInOrder /\ MadeThen /\ Recorded

LEMMA InitBooked == SliceInit => Booked
  <1> SUFFICES ASSUME SliceInit PROVE Booked
    OBVIOUS
  <1>1. transcript = <<>> /\ madeAt = <<>> /\ Events(transcript) = <<>> /\ DOMAIN <<>> = {}
    BY NoEvents DEF SliceInit
  <1> QED
    BY <1>1 DEF Booked, MadeInOrder, MadeThen, Recorded

LEMMA SayingKeepsBooks ==
  ASSUME SlicedWell, Booked, NEW w, StepSays(w)
  PROVE  Booked'
  <1> DEFINE t == transcript
             u == transcript'
             old == Events(t)
             new == Events(transcript)'
  <1>1. PICK c \in Calls : Said(c, w)
    BY DEF StepSays
  <1> DEFINE own == EventsOf(c)
  <1>2. SliceTyped /\ transcript' = Append(transcript, c) /\ Truthful(c, madeAt') /\ c.turn = Len(t)
    BY <1>1 DEF SlicedWell, SliceInv, Said
  <1>3. /\ DOMAIN t = 1..Len(t) /\ Len(t) \in Nat /\ DOMAIN u = 1..(Len(t) + 1)
        /\ Len(u) = Len(t) + 1 /\ u[Len(t) + 1] = c /\ \A n \in 1..Len(t) : u[n] = t[n]
    BY <1>2, AppendProperties, LenProperties DEF SliceTyped
  <1>4. /\ Len(old) \in Nat /\ DOMAIN old = 1..Len(old)
        /\ DOMAIN own = 1..Len(own) /\ DOMAIN own = DOMAIN c.invs
        /\ \A k \in 1..Len(old) : new[k] = old[k]
        /\ \A i \in 1..Len(own) : new[Len(old) + i] = own[i]
        /\ \A i \in 1..Len(own) : /\ own[i].turn = c.turn /\ own[i].verb = c.invs[i].verb
                                  /\ own[i].runs = RunsOf(c, i)
    BY <1>2, EventsAfter
  <1>5. \A k \in DOMAIN new : k \in 1..Len(old) \/ \E i \in 1..Len(own) : k = Len(old) + i
    BY <1>2, EventsAfter
  <1>6. /\ madeAt \in Seq(Nat) /\ DOMAIN madeAt = 1..Len(madeAt) /\ Len(madeAt) \in Nat
        /\ \A s \in DOMAIN madeAt : madeAt[s] \in Nat
    BY <1>2, LenProperties, ElementOfSeq DEF SliceTyped
  <1>7. DOMAIN madeAt' = 1..Len(madeAt') /\ Len(madeAt') \in Nat
    BY LenProperties DEF StepSays, SliceTyped
  <1>8. /\ DOMAIN madeAt \subseteq DOMAIN madeAt' /\ \A s \in DOMAIN madeAt : madeAt'[s] = madeAt[s]
        /\ \A s \in DOMAIN madeAt' : s \notin DOMAIN madeAt => madeAt'[s] = Len(t)
    BY DEF StepSays
  <1>9. Events(transcript)' = new
    OBVIOUS
  <1> HIDE DEF t, u, old, own, new
  <1>10. MadeInOrder'
    <2>1. ASSUME NEW s \in DOMAIN madeAt'
          PROVE  madeAt'[s] \in Nat /\ madeAt'[s] <= Len(t)
                 /\ (s \in DOMAIN madeAt => madeAt'[s] < Len(t))
      <3>1. CASE s \in DOMAIN madeAt
        BY <1>3, <1>6, <1>8, <3>1 DEF Booked, MadeInOrder, t
      <3>2. CASE s \notin DOMAIN madeAt
        BY <1>3, <1>8, <3>2
      <3> QED  BY <3>1, <3>2
    <2>2. ASSUME NEW s \in DOMAIN madeAt', NEW r \in DOMAIN madeAt', r <= s
          PROVE  madeAt'[r] <= madeAt'[s]
      <3>1. CASE s \in DOMAIN madeAt
        <4>1. r \in DOMAIN madeAt
          BY <1>6, <1>7, <2>2, <3>1
        <4> QED  BY <1>8, <2>2, <3>1, <4>1 DEF Booked, MadeInOrder
      <3>2. CASE s \notin DOMAIN madeAt
        BY <1>8, <2>1, <3>2
      <3> QED  BY <3>1, <3>2
    <2>3. \A s \in DOMAIN madeAt' : madeAt'[s] < Len(u)
      BY <1>3, <2>1
    <2> QED  BY <2>2, <2>3 DEF MadeInOrder, u
  <1>11. MadeThen'
    <2>1. ASSUME NEW n \in 1..Len(t), NEW i \in WithVerb(t[n], "commit"), NEW r \in RunsOf(t[n], i)
          PROVE  r \in DOMAIN madeAt' /\ madeAt'[r] = t[n].turn
      BY <1>3, <1>8 DEF Booked, MadeThen, t
    <2>2. ASSUME NEW i \in WithVerb(c, "commit"), NEW r \in RunsOf(c, i)
          PROVE  r \in DOMAIN madeAt' /\ madeAt'[r] = c.turn
      <3>1. i \in DOMAIN c.invs /\ c.invs[i].verb = "commit"
        BY DEF WithVerb
      <3>2. r \in ToSet(c.commits)
        BY <3>1, RunsAreCommits
      <3>3. Pairs(c)
        BY <3>1 DEF RunsOf, Pairs
      <3> QED
        BY <1>2, <3>2, <3>3 DEF Truthful
    <2>3. ASSUME NEW n \in DOMAIN u, NEW i \in WithVerb(u[n], "commit"), NEW r \in RunsOf(u[n], i)
          PROVE  r \in DOMAIN madeAt' /\ madeAt'[r] = u[n].turn
      <3>1. n \in 1..Len(t) \/ n = Len(t) + 1
        BY <1>3
      <3>2. CASE n \in 1..Len(t)
        <4>1. u[n] = t[n]
          BY <1>3, <3>2
        <4> QED  BY <2>1, <2>3, <3>2, <4>1
      <3>3. CASE n = Len(t) + 1
        <4>1. u[n] = c
          BY <1>3, <3>3
        <4> QED  BY <2>2, <2>3, <4>1
      <3> QED  BY <3>1, <3>2, <3>3
    <2> QED  BY <2>3 DEF MadeThen, u
  <1>12. Recorded'
    <2>1. ASSUME NEW k \in DOMAIN new
          PROVE  \E n \in DOMAIN u : \E i \in DOMAIN u[n].invs :
                    /\ new[k].turn = u[n].turn /\ new[k].verb = u[n].invs[i].verb
                    /\ new[k].runs = RunsOf(u[n], i)
      <3>1. CASE k \in 1..Len(old)
        <4>0. \A j \in DOMAIN old : \E n \in DOMAIN t : \E i \in DOMAIN t[n].invs :
                 /\ old[j].turn = t[n].turn /\ old[j].verb = t[n].invs[i].verb
                 /\ old[j].runs = RunsOf(t[n], i)
          BY DEF Booked, Recorded, old, t
        <4>3. k \in DOMAIN old
          BY <1>4, <3>1
        <4>1. PICK n \in DOMAIN t : \E i \in DOMAIN t[n].invs :
                 /\ old[k].turn = t[n].turn /\ old[k].verb = t[n].invs[i].verb
                 /\ old[k].runs = RunsOf(t[n], i)
          BY <4>0, <4>3
        <4>2. n \in DOMAIN u /\ u[n] = t[n] /\ new[k] = old[k]
          BY <1>3, <1>4, <3>1
        <4> QED  BY <4>1, <4>2
      <3>2. ASSUME NEW i \in 1..Len(own), k = Len(old) + i
            PROVE  \E n \in DOMAIN u : \E j \in DOMAIN u[n].invs :
                      /\ new[k].turn = u[n].turn /\ new[k].verb = u[n].invs[j].verb
                      /\ new[k].runs = RunsOf(u[n], j)
        <4>1. Len(t) + 1 \in DOMAIN u /\ u[Len(t) + 1] = c /\ new[k] = own[i] /\ i \in DOMAIN c.invs
          BY <1>3, <1>4, <3>2
        <4> QED  BY <1>4, <4>1
      <3> QED  BY <1>5, <3>1, <3>2
    <2> QED  BY <1>9, <2>1 DEF Recorded, u
  <1> QED
    BY <1>10, <1>11, <1>12 DEF Booked

LEMMA BooksStep == SlicedWell /\ Booked /\ [SliceNext]_sliceVars => Booked'
  <1>1. ASSUME SlicedWell, Booked, SliceNext PROVE Booked'
    <2>1. PICK w : StepSays(w)
      BY <1>1, StepIsSaid DEF SlicedWell, SliceInv
    <2> QED
      BY <1>1, <2>1, SayingKeepsBooks
  <1>2. ASSUME Booked, UNCHANGED sliceVars PROVE Booked'
    BY <1>2 DEF sliceVars, Booked, MadeInOrder, MadeThen, Recorded
  <1> QED
    BY <1>1, <1>2

-----------------------------------------------------------------------------
(* The rows of the table. *)
Committed(b, turn) == CommittedIn(turn, transcript, ToSet(log[b]), AliasesOf(b))
FreshOf(b, turn) == Fresh(turn, SliceOf(b), transcript, ToSet(log[b]), AliasesOf(b))

(* What a turn is said to have committed was made in it, or replaced what was. *)
LEMMA CommittedIs ==
  ASSUME SlicedWell, Booked, NEW b \in Branches, NEW turn, NEW s \in Committed(b, turn)
  PROVE  /\ s \in ToSet(log[b])
         /\ \E r \in {s} \cup preimages[s] : r \in 1..s /\ madeAt[r] = turn
  <1> DEFINE branch == ToSet(log[b])
             aliases == AliasesOf(b)
  <1>1. PICK call \in {c \in ToSet(transcript) : c.turn = turn} :
           s \in UNION {UNION {BranchSha(r, branch, aliases) : r \in RunsOf(call, i)} :
                          i \in WithVerb(call, "commit")}
    <2> HIDE DEF branch, aliases
    <2> QED  BY DEF CommittedIn, Committed, branch, aliases
  <1>2. PICK i \in WithVerb(call, "commit") :
           s \in UNION {BranchSha(r, branch, aliases) : r \in RunsOf(call, i)}
    BY <1>1
  <1>8. PICK r \in RunsOf(call, i) : s \in BranchSha(r, branch, aliases)
    BY <1>2
  <1>9. PICK n \in DOMAIN transcript : call = transcript[n] /\ call.turn = turn
    BY <1>1 DEF ToSet
  <1>3. r \in DOMAIN madeAt /\ madeAt[r] = turn /\ DOMAIN madeAt = 1..Len(madeAt)
        /\ Len(madeAt) \in Nat
    BY <1>9, LenProperties DEF Booked, MadeThen, SlicedWell, SliceInv, SliceTyped
  <1>4. s \in branch /\ (s = r \/ r \in preimages[s])
    BY <1>3, <1>8, StandsFor
  <1>5. s \in 1..Len(madeAt)
    BY <1>4 DEF SlicedWell, LogInv
  <1>6. r \in preimages[s] => r \in 1..(s - 1)
    BY <1>5 DEF SlicedWell, LogInv
  <1>7. r \in 1..s
    BY <1>3, <1>4, <1>5, <1>6
  <1> QED
    BY <1>3, <1>4, <1>7

LEMMA EventCommits ==
  ASSUME Booked, NEW b \in Branches, NEW k \in DOMAIN Events(transcript),
         Events(transcript)[k].verb = "commit", NEW r \in Events(transcript)[k].runs,
         NEW s \in BranchSha(r, ToSet(log[b]), AliasesOf(b))
  PROVE  s \in Committed(b, Events(transcript)[k].turn)
  <1> DEFINE e == Events(transcript)[k]
             branch == ToSet(log[b])
             aliases == AliasesOf(b)
  <1>1. PICK n \in DOMAIN transcript : \E i \in DOMAIN transcript[n].invs :
           /\ e.turn = transcript[n].turn /\ e.verb = transcript[n].invs[i].verb
           /\ e.runs = RunsOf(transcript[n], i)
    BY DEF Booked, Recorded
  <1>2. PICK i \in DOMAIN transcript[n].invs :
           /\ e.turn = transcript[n].turn /\ e.verb = transcript[n].invs[i].verb
           /\ e.runs = RunsOf(transcript[n], i)
    BY <1>1
  <1>3. i \in WithVerb(transcript[n], "commit") /\ r \in RunsOf(transcript[n], i)
    BY <1>2 DEF WithVerb
  <1>4. transcript[n] \in {c \in ToSet(transcript) : c.turn = e.turn}
    BY <1>2 DEF ToSet
  <1> HIDE DEF e, branch, aliases
  <1>5. s \in BranchSha(r, branch, aliases)
    BY DEF branch, aliases
  <1>6. s \in CommittedIn(e.turn, transcript, branch, aliases)
    BY <1>3, <1>4, <1>5 DEF CommittedIn
  <1> QED
    BY <1>6 DEF Committed, e, branch, aliases

(* What is first shown later comes later on the branch. *)
LEMMA FreshOrder ==
  ASSUME SlicedWell, Booked, NEW b \in Branches, NEW i \in Nat, NEW j \in Nat, i < j,
         SliceOf(b).start \in Nat, SliceOf(b).start <= i,
         NEW s \in FreshOf(b, i), NEW t \in FreshOf(b, j)
  PROVE  s < t
  <1>1. s \in Committed(b, i) /\ t \in Committed(b, j)
    BY DEF FreshOf, Fresh, Committed
  <1>2. s # t
    <2>1. i \in SliceOf(b).start..(j - 1)
      OBVIOUS
    <2>2. t \notin Committed(b, i)
      BY <2>1 DEF FreshOf, Fresh, Committed
    <2> QED  BY <1>1, <2>2
  <1>3. /\ s \in ToSet(log[b]) /\ t \in ToSet(log[b])
        /\ \E r \in {s} \cup preimages[s] : r \in 1..s /\ madeAt[r] = i
        /\ \E r \in {t} \cup preimages[t] : r \in 1..t /\ madeAt[r] = j
    BY <1>1, CommittedIs
  <1>4. PICK p \in {s} \cup preimages[s] : p \in 1..s /\ madeAt[p] = i
    BY <1>3
  <1>5. PICK q \in {t} \cup preimages[t] : q \in 1..t /\ madeAt[q] = j
    BY <1>3
  <1>6. /\ s \in 1..Len(madeAt) /\ t \in 1..Len(madeAt)
        /\ DOMAIN madeAt = 1..Len(madeAt) /\ Len(madeAt) \in Nat
    BY <1>3, LenProperties DEF SlicedWell, LogInv, SliceInv, SliceTyped
  <1>7. ASSUME t < s PROVE FALSE
    <2>1. t < p
      BY <1>3, <1>4, <1>7 DEF SlicedWell, LogInv, Stacked
    <2>2. q <= p /\ p \in DOMAIN madeAt /\ q \in DOMAIN madeAt
      BY <1>4, <1>5, <1>6, <2>1
    <2>3. madeAt[q] <= madeAt[p]
      BY <2>2 DEF Booked, MadeInOrder
    <2> QED  BY <1>4, <1>5, <2>3
  <1> QED
    BY <1>2, <1>6, <1>7

(* The owner of a row is the first of its commits on the branch. *)
LEMMA EarliestIs ==
  ASSUME SliceTyped, NEW b \in Branches, Increasing(log[b]),
         NEW shas, shas \subseteq ToSet(log[b]), shas # {}
  PROVE  Earliest(shas, log[b]) \in shas /\ \A s \in shas : s # Earliest(shas, log[b]) =>
            Earliest(shas, log[b]) < s
  <1> DEFINE at == {i \in DOMAIN log[b] : log[b][i] \in shas}
             first == Min(at)
  <1>1. DOMAIN log[b] = 1..Len(log[b]) /\ Len(log[b]) \in Nat
    BY LenProperties DEF SliceTyped
  <1>2. at \subseteq Nat /\ at # {}
    BY <1>1 DEF ToSet
  <1>3. first \in at /\ \A i \in at : first <= i
    <2> HIDE DEF at
    <2> QED  BY <1>2, MinIs
  <1>4. Earliest(shas, log[b]) = log[b][first]
    BY DEF Earliest
  <1>5. ASSUME NEW s \in shas, s # log[b][first] PROVE log[b][first] < s
    <2>1. PICK i \in DOMAIN log[b] : s = log[b][i]
      BY DEF ToSet
    <2>2. i \in at
      BY <2>1
    <2>3. first < i /\ first \in DOMAIN log[b]
      <3>1. first <= i /\ first # i /\ first \in Nat /\ i \in Nat
        BY <1>2, <1>3, <1>5, <2>1, <2>2
      <3> QED  BY <1>3, <3>1
    <2> QED  BY <2>1, <2>3 DEF Increasing
  <1> QED
    BY <1>3, <1>4, <1>5

(* The table of a branch whose slice is one, with its boundaries. *)
LEMMA RowsAre ==
  ASSUME SlicedWell, Booked, NEW b \in Branches, SliceOf(b).kind = "slice"
  PROVE  LET slice == SliceOf(b)
             segments == SegmentsOf(b)
             last == Len(segments)
         IN  /\ slice.start \in Nat /\ slice.end \in Nat
             /\ last \in Nat \ {0} /\ DOMAIN segments = 1..last
             /\ \E bound \in [1..last -> slice.start..slice.end] :
                   /\ \A j, k \in 1..last : j < k => bound[j] < bound[k]
                   /\ \A t \in slice.start..slice.end :
                         FreshOf(b, t) # {} <=> \E k \in 1..last : t = bound[k]
                   /\ \A k \in 1..last :
                         /\ segments[k].start = IF k = 1 THEN slice.start ELSE bound[k - 1] + 1
                         /\ segments[k].end = IF k = last THEN slice.end ELSE bound[k]
                         /\ segments[k].sha = Earliest(FreshOf(b, bound[k]), log[b])
                         /\ segments[k].extra = FreshOf(b, bound[k]) \ {segments[k].sha}
  <1> DEFINE slice == SliceOf(b)
             branch == ToSet(log[b])
             aliases == AliasesOf(b)
             fresh(t) == FreshOf(b, t)
             turns == {t \in slice.start..slice.end : fresh(t) # {}}
             last == Cardinality(turns)
             segments == SegmentsOf(b)
             bound == [k \in 1..last |-> Nth(turns, k)]
  <1>1. PICK k \in OwnAnchors(Events(transcript), branch, aliases) :
           Events(transcript)[k].verb = "commit"
    BY SlicedByCommit DEF SliceOf
  <1>2. /\ slice.start \in Nat /\ slice.end \in Nat
        /\ \A j \in OwnAnchors(Events(transcript), branch, aliases) :
              Events(transcript)[j].turn \in slice.start..slice.end
    <2> DEFINE own == OwnAnchors(Events(transcript), branch, aliases)
               first == FirstOwn(own)
               trail == Events(transcript)
    <2>1. SliceTyped /\ InOrder
      BY DEF SlicedWell, SliceInv
    <2>2. /\ slice.start \in Nat /\ slice.end \in Nat
          /\ first \in own /\ \A j \in own : first <= j
          /\ slice.start <= trail[first].turn
          /\ \A j \in own : trail[j].turn <= slice.end
      BY <1>1, <2>1, SliceIs DEF SliceOf
    <2>3. /\ own \subseteq DOMAIN trail /\ DOMAIN trail = 1..Len(trail) /\ Len(trail) \in Nat
          /\ \A j \in DOMAIN trail : trail[j].turn \in Nat
      BY <2>1, OwnIsEvent DEF GitEvents
    <2>4. \A i, j \in DOMAIN trail : i <= j => trail[i].turn <= trail[j].turn
      BY <2>1 DEF InOrder
    <2> HIDE DEF own, first, trail, slice
    <2>5. \A j \in own : trail[j].turn \in slice.start..slice.end
      BY <2>2, <2>3, <2>4
    <2> QED  BY <2>2, <2>5 DEF own, trail
  <1>3. turns \in SUBSET (0..slice.end)
    BY <1>2
  <1>4. \E t \in slice.start..slice.end : Committed(b, t) # {}
    <2> DEFINE trail == Events(transcript)
    <2>1. PICK j \in DOMAIN trail : trail[j].verb = "commit" /\ Direct(trail[j], branch, aliases)
             /\ trail[j].turn \in slice.start..slice.end
      <3> DEFINE direct == {j \in DOMAIN trail :
                              IsAnchor(trail[j]) /\ Direct(trail[j], branch, aliases)}
      <3>1. \A j \in direct : j \in OwnAnchors(trail, branch, aliases)
        BY DEF OwnAnchors
      <3>2. CASE k \in direct
        BY <1>1, <1>2, <3>1, <3>2
      <3>3. CASE k \notin direct
        <4>1. PICK j \in direct : trail[j].verb = "commit"
          BY <3>3 DEF OwnAnchors
        <4> QED  BY <1>2, <3>1, <4>1
      <3> QED  BY <3>2, <3>3
    <2>2. PICK r \in trail[j].runs : BranchSha(r, branch, aliases) # {}
      BY <2>1 DEF Direct
    <2>3. Committed(b, trail[j].turn) # {}
      BY <2>1, <2>2, EventCommits
    <2> QED  BY <2>1, <2>3
  <1>5. turns # {}
    <2> DEFINE T == {t \in slice.start..slice.end : Committed(b, t) # {}}
    <2>1. T \subseteq Nat /\ T # {}
      BY <1>2, <1>4
    <2>2. PICK t \in T : \A u \in T : t <= u
      <3> HIDE DEF T
      <3> QED  BY <2>1, LeastOf
    <2>3. t \in slice.start..slice.end /\ Committed(b, t) # {} /\ t \in Nat
      BY <2>1, <2>2
    <2>4. \A u \in slice.start..(t - 1) : Committed(b, u) = {}
      <3> SUFFICES ASSUME NEW u \in slice.start..(t - 1), Committed(b, u) # {} PROVE FALSE
        OBVIOUS
      <3>1. u \in slice.start..slice.end /\ ~(t <= u)
        BY <1>2, <2>3
      <3> QED  BY <2>2, <3>1
    <2>5. fresh(t) = Committed(b, t)
      BY <2>4 DEF FreshOf, Fresh, Committed
    <2> QED  BY <2>3, <2>5
  <1>6. /\ IsFiniteSet(turns)
        /\ \A j \in 1..last : Nth(turns, j) \in turns
        /\ \A t \in turns : \E j \in 1..last : t = Nth(turns, j)
        /\ \A i, j \in 1..last : i < j => Nth(turns, i) < Nth(turns, j)
    <2> HIDE DEF turns
    <2> QED  BY <1>2, <1>3, NthIs
  <1>7. last \in Nat \ {0}
    <2> HIDE DEF turns
    <2> QED  BY <1>5, <1>6, FS_CardinalityType, FS_EmptySet
  <1>8. segments = [j \in 1..last |->
                      [sha |-> Earliest(fresh(Nth(turns, j)), log[b]),
                       extra |-> fresh(Nth(turns, j)) \ {Earliest(fresh(Nth(turns, j)), log[b])},
                       start |-> IF j = 1 THEN slice.start ELSE Nth(turns, j - 1) + 1,
                       end |-> IF j = last THEN slice.end ELSE Nth(turns, j)]]
    BY DEF SegmentsOf, SegmentSlice, FreshOf
  <1>9. Len(segments) = last /\ DOMAIN segments = 1..last
    <2> HIDE DEF last, turns, fresh, slice, segments
    <2> QED  BY <1>7, <1>8
  <1> HIDE DEF segments, last, turns, slice, fresh, branch, aliases
  <1>10. bound \in [1..last -> slice.start..slice.end]
    BY <1>6 DEF turns
  <1>11. \A j, i \in 1..last : j < i => bound[j] < bound[i]
    BY <1>6
  <1>12. \A t \in slice.start..slice.end : fresh(t) # {} <=> \E j \in 1..last : t = bound[j]
    <2>1. \A t \in slice.start..slice.end : fresh(t) # {} <=> t \in turns
      BY DEF turns
    <2> QED  BY <1>6, <2>1
  <1>13. ASSUME NEW j \in 1..last
         PROVE  /\ segments[j].start = IF j = 1 THEN slice.start ELSE bound[j - 1] + 1
                /\ segments[j].end = IF j = last THEN slice.end ELSE bound[j]
                /\ segments[j].sha = Earliest(fresh(bound[j]), log[b])
                /\ segments[j].extra = fresh(bound[j]) \ {segments[j].sha}
    <2>1. j # 1 => j - 1 \in 1..last
      BY <1>7
    <2> QED  BY <1>8, <2>1
  <1> HIDE DEF bound
  <1>14. bound \in [1..Len(segments) -> slice.start..slice.end]
    BY <1>9, <1>10
  <1>15. /\ \A j, i \in 1..Len(segments) : j < i => bound[j] < bound[i]
         /\ \A t \in slice.start..slice.end :
               fresh(t) # {} <=> \E j \in 1..Len(segments) : t = bound[j]
         /\ \A j \in 1..Len(segments) :
               /\ segments[j].start = IF j = 1 THEN slice.start ELSE bound[j - 1] + 1
               /\ segments[j].end = IF j = Len(segments) THEN slice.end ELSE bound[j]
               /\ segments[j].sha = Earliest(fresh(bound[j]), log[b])
               /\ segments[j].extra = fresh(bound[j]) \ {segments[j].sha}
    BY <1>9, <1>11, <1>12, <1>13
  <1>16. Len(segments) \in Nat \ {0} /\ DOMAIN segments = 1..Len(segments)
    BY <1>7, <1>9
  <1> QED
    BY <1>2, <1>14, <1>15, <1>16, Zenon DEF segments, slice, fresh

(* A commit of the branch that was shown is committed in its turn. *)
LEMMA ShownIsCommitted ==
  ASSUME SlicedWell, Booked, NEW b \in Branches, NEW s \in Shown(b)
  PROVE  s \in Committed(b, madeAt[s])
  <1> DEFINE trail == Events(transcript)
             branch == ToSet(log[b])
             aliases == AliasesOf(b)
  <1>1. PICK n \in DOMAIN transcript :
           s \in ToSet(transcript[n].commits) /\ Pairs(transcript[n])
    BY DEF Shown, ToSet, Pairs
  <1>2. PICK k \in DOMAIN trail :
           trail[k].verb = "commit" /\ trail[k].runs = {s} /\ trail[k].turn = madeAt[s]
    BY <1>1 DEF SlicedWell, SliceInv, Traced
  <1>3. s \in BranchSha(s, branch, aliases)
    BY OwnSha DEF Shown
  <1> QED
    BY <1>2, <1>3, EventCommits

LEMMA RowsTile ==
  ASSUME SlicedWell, Booked
  PROVE  SegmentsTile
  <1> SUFFICES ASSUME NEW b \in Branches, SliceOf(b).kind = "slice"
               PROVE  LET segments == SegmentsOf(b)
                          turns(k) == segments[k].start..segments[k].end
                          shas(k) == ShasOf(segments[k])
                      IN  /\ \A t \in TurnsOf(SliceOf(b)) :
                                Cardinality({k \in DOMAIN segments : t \in turns(k)}) = 1
                          /\ \A k \in DOMAIN segments : turns(k) \subseteq TurnsOf(SliceOf(b))
                          /\ \A s \in Shown(b) :
                                \E k \in DOMAIN segments :
                                   /\ s \in shas(k)
                                   /\ \A j \in DOMAIN segments \ {k} : s \notin shas(j)
                                   /\ k < Len(segments) =>
                                         \E v \in {s} \cup preimages[s] : madeAt[v] = segments[k].end
                          /\ \A k \in DOMAIN segments :
                                /\ \A s \in segments[k].extra : segments[k].sha < s
                                /\ \A j \in 1..(k - 1) : \A s \in shas(j), t \in shas(k) : s < t
    BY DEF SegmentsTile
  <1> DEFINE slice == SliceOf(b)
             start == slice.start
             end == slice.end
             segments == SegmentsOf(b)
             last == Len(segments)
             fresh(t) == FreshOf(b, t)
             turns(k) == segments[k].start..segments[k].end
             shas(k) == ShasOf(segments[k])
  <1>1. start \in Nat /\ end \in Nat /\ last \in Nat \ {0} /\ DOMAIN segments = 1..last
    BY RowsAre
  <1>2. PICK bound \in [1..last -> start..end] :
           /\ \A j, k \in 1..last : j < k => bound[j] < bound[k]
           /\ \A t \in start..end : fresh(t) # {} <=> \E k \in 1..last : t = bound[k]
           /\ \A k \in 1..last :
                 /\ segments[k].start = IF k = 1 THEN start ELSE bound[k - 1] + 1
                 /\ segments[k].end = IF k = last THEN end ELSE bound[k]
                 /\ segments[k].sha = Earliest(fresh(bound[k]), log[b])
                 /\ segments[k].extra = fresh(bound[k]) \ {segments[k].sha}
    BY RowsAre
  <1>3. \A k \in 1..last : bound[k] \in start..end /\ fresh(bound[k]) # {}
    BY <1>2
  <1>4. TurnsOf(slice) = start..end
    BY DEF TurnsOf
  <1>5. SliceTyped /\ Increasing(log[b])
    BY DEF SlicedWell, SliceInv, LogInv
  <1>6. \A t : fresh(t) \subseteq Committed(b, t)
    BY DEF FreshOf, Fresh, Committed
  <1>7. \A t : \A s \in Committed(b, t) :
           /\ s \in ToSet(log[b])
           /\ \E r \in {s} \cup preimages[s] : r \in 1..s /\ madeAt[r] = t
    BY CommittedIs
  <1>8. ASSUME NEW k \in 1..last
        PROVE  /\ segments[k].sha \in fresh(bound[k])
               /\ \A s \in segments[k].extra : segments[k].sha < s
               /\ shas(k) = fresh(bound[k])
    <2> DEFINE all == fresh(bound[k])
    <2>1. all \subseteq ToSet(log[b]) /\ all # {}
      BY <1>3, <1>6, <1>7
    <2>2. segments[k].sha = Earliest(all, log[b]) /\ segments[k].extra = all \ {segments[k].sha}
      BY <1>2
    <2> HIDE DEF all, segments
    <2>3. /\ Earliest(all, log[b]) \in all
          /\ \A s \in all : s # Earliest(all, log[b]) => Earliest(all, log[b]) < s
      BY <1>5, <2>1, EarliestIs
    <2>4. ShasOf(segments[k]) = all
      BY <2>2, <2>3 DEF ShasOf
    <2> QED  BY <2>2, <2>3, <2>4 DEF all, segments
  <1>9. ASSUME NEW j \in 1..last, NEW k \in 1..last, j < k,
               NEW s \in shas(j), NEW t \in shas(k)
        PROVE  s < t
    <2>1. s \in fresh(bound[j]) /\ t \in fresh(bound[k])
      BY <1>8, <1>9
    <2>2. bound[j] \in Nat /\ bound[k] \in Nat /\ bound[j] < bound[k] /\ start <= bound[j]
      <3>1. bound[j] \in start..end /\ bound[k] \in start..end
        BY <1>3
      <3>2. bound[j] < bound[k]
        BY <1>2, <1>9
      <3> HIDE DEF start, end
      <3> QED  BY <1>1, <3>1, <3>2
    <2> HIDE DEF shas, fresh
    <2> QED  BY <1>1, <2>1, <2>2, FreshOrder DEF fresh
  <1> HIDE DEF segments, last, fresh, start, end, slice
  <1>10. ASSUME NEW t \in start..end
         PROVE  Cardinality({k \in DOMAIN segments : t \in turns(k)}) = 1
    <2> DEFINE T == {k \in 1..last : k = last \/ t <= bound[k]}
    <2>1. T \subseteq Nat /\ last \in T
      BY <1>1
    <2>2. PICK k \in T : \A j \in T : k <= j
      <3> HIDE DEF T
      <3> QED  BY <2>1, LeastOf
    <2>3. k \in 1..last /\ (k = last \/ t <= bound[k])
      BY <2>2
    <2>4. \A j \in 1..last : j < k => j # last /\ bound[j] < t /\ bound[j] \in Nat
      <3> SUFFICES ASSUME NEW j \in 1..last, j < k PROVE j # last /\ bound[j] < t /\ bound[j] \in Nat
        OBVIOUS
      <3>1. j \notin T
        BY <1>1, <2>2, <2>3
      <3> QED  BY <1>1, <1>3, <3>1
    <2>5. t \in turns(k)
      <3>1. segments[k].start \in Nat /\ segments[k].start <= t
        <4>1. CASE k = 1
          BY <1>1, <1>2, <4>1
        <4>2. CASE k # 1
          <5>1. k - 1 \in 1..last /\ k - 1 < k
            BY <1>1, <2>3, <4>2
          <5>2. segments[k].start = bound[k - 1] + 1
            BY <1>2, <2>3, <4>2
          <5> QED  BY <1>1, <2>4, <5>1, <5>2
        <4> QED  BY <4>1, <4>2
      <3>2. segments[k].end \in Nat /\ t <= segments[k].end
        BY <1>1, <1>2, <1>3, <2>3
      <3> QED  BY <1>1, <3>1, <3>2
    <2>6. ASSUME NEW j \in 1..last, t \in turns(j) PROVE j = k
      <3>1. CASE j < k
        <4>1. segments[j].end = bound[j] /\ bound[j] < t
          BY <1>2, <2>4, <3>1
        <4> QED  BY <1>1, <1>3, <2>4, <2>6, <3>1, <4>1
      <3>2. CASE k < j
        <4>1. j - 1 \in 1..last /\ k <= j - 1 /\ j # 1 /\ k # last
          BY <1>1, <2>3, <3>2
        <4>2. segments[j].start = bound[j - 1] + 1 /\ t <= bound[k]
          BY <1>2, <2>3, <4>1
        <4>3. bound[k] <= bound[j - 1] /\ bound[k] \in Nat /\ bound[j - 1] \in Nat
          <5>1. bound[k] \in Nat /\ bound[j - 1] \in Nat
            BY <1>1, <1>3, <2>3, <4>1
          <5>2. CASE k = j - 1
            BY <5>1, <5>2
          <5>3. CASE k < j - 1
            BY <1>2, <2>3, <4>1, <5>1, <5>3
          <5> QED  BY <1>1, <2>3, <4>1, <5>1, <5>2, <5>3
        <4> QED  BY <1>1, <2>6, <4>2, <4>3
      <3> QED  BY <1>1, <2>3, <3>1, <3>2
    <2>7. {j \in DOMAIN segments : t \in turns(j)} = {k}
      BY <1>1, <2>3, <2>5, <2>6
    <2> QED  BY <2>7, FS_Singleton
  <1>11. ASSUME NEW k \in 1..last PROVE turns(k) \subseteq start..end
    <2>1. segments[k].start \in Nat /\ start <= segments[k].start
      <3>1. CASE k = 1
        BY <1>1, <1>2, <3>1
      <3>2. CASE k # 1
        <4>1. k - 1 \in 1..last
          BY <1>1, <3>2
        <4>2. bound[k - 1] \in start..end
          BY <1>3, <4>1
        <4>3. segments[k].start = bound[k - 1] + 1
          BY <1>2, <3>2
        <4> QED  BY <1>1, <4>2, <4>3
      <3> QED  BY <3>1, <3>2
    <2>2. segments[k].end \in Nat /\ segments[k].end <= end
      BY <1>1, <1>2, <1>3
    <2> QED  BY <1>1, <2>1, <2>2
  <1>12. ASSUME NEW s \in Shown(b)
         PROVE  \E k \in DOMAIN segments :
                   /\ s \in shas(k)
                   /\ \A j \in DOMAIN segments \ {k} : s \notin shas(j)
                   /\ k < last => \E v \in {s} \cup preimages[s] : madeAt[v] = segments[k].end
    <2>1. madeAt[s] \in start..end /\ s \in Committed(b, madeAt[s])
      <3>1. madeAt[s] \in start..end
        BY <1>4, ShownIsSliced DEF OwnCommitsAreSliced, slice
      <3> QED  BY <3>1, ShownIsCommitted
    <2> DEFINE T == {t \in start..end : s \in Committed(b, t)}
    <2>2. T \subseteq Nat /\ T # {}
      BY <1>1, <2>1
    <2>3. PICK t \in T : \A u \in T : t <= u
      <3> HIDE DEF T
      <3> QED  BY <2>2, LeastOf
    <2>4. t \in start..end /\ t \in Nat /\ s \in Committed(b, t)
      BY <2>2, <2>3
    <2>5. s \in fresh(t)
      <3>1. ASSUME NEW u \in start..(t - 1) PROVE s \notin Committed(b, u)
        <4>1. u \in start..end /\ ~(t <= u)
          BY <1>1, <2>4
        <4> QED  BY <2>3, <4>1
      <3> QED  BY <2>4, <3>1 DEF fresh, FreshOf, Fresh, Committed, start, slice
    <2>6. PICK k \in 1..last : t = bound[k]
      BY <1>2, <2>4, <2>5
    <2>7. s \in shas(k)
      BY <1>8, <2>5, <2>6
    <2>8. ASSUME NEW j \in 1..last, j # k PROVE s \notin shas(j)
      <3>1. s \in Nat
        BY <1>6, <1>7, <2>5 DEF SlicedWell, LogInv
      <3> HIDE DEF shas
      <3>2. j < k => ~(s \in shas(j))
        BY <1>9, <2>7, <3>1
      <3>3. k < j => ~(s \in shas(j))
        BY <1>9, <2>7, <3>1
      <3> QED  BY <1>1, <2>8, <3>2, <3>3
    <2>9. k < last => \E v \in {s} \cup preimages[s] : madeAt[v] = segments[k].end
      <3>1. k < last => segments[k].end = t
        BY <1>1, <1>2, <2>6
      <3> QED  BY <1>7, <2>4, <3>1
    <2> QED  BY <1>1, <2>7, <2>8, <2>9
  <1>13. ASSUME NEW k \in 1..last
         PROVE  /\ \A s \in segments[k].extra : segments[k].sha < s
                /\ \A j \in 1..(k - 1) : \A s \in shas(j), t \in shas(k) : s < t
    <2>1. \A j \in 1..(k - 1) : j \in 1..last /\ j < k
      BY <1>1
    <2> HIDE DEF shas
    <2> QED  BY <1>8, <1>9, <2>1
  <1> QED
    BY <1>1, <1>4, <1>10, <1>11, <1>12, <1>13 DEF segments, last, slice

(* Whatever is amended, shown again or pushed: every turn of a slice is in  *)
(* one row, every commit that was shown has one row, and the rows are in    *)
(* the order of the branch.                                                 *)
THEOREM RowsTileTheSlice == SliceSpec => []SegmentsTile
  BY InitBooked, BooksStep, SlicedWellHolds, RowsTile, PTL DEF SliceSpec
================================================================================
