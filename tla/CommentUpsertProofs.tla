--------------------------- MODULE CommentUpsertProofs ---------------------------
(***************************************************************************)
(* Proofs about CommentUpsert, for any runs, any thread and any page size. *)
(*                                                                         *)
(* The argument: a thread only grows at its end, and a comment never turns *)
(* into a receipt or out of one.  So while nobody deletes a comment, there *)
(* is no receipt on the pages that a run has read without finding one, and *)
(* the one it has found is the first of the thread (Listed).  A run that   *)
(* posts has seen the whole thread as it was when its listing began, so    *)
(* the receipts before its own came later; a run that was alone has seen   *)
(* it as it is.                                                            *)
(***************************************************************************)
EXTENDS CommentUpsert, SequenceTheorems, WellFoundedInduction, TLAPS

Comment == [id : Nat \ {0}, body : Runs \cup {Human}, creator : Runs \cup {Human}]

TypeOK ==
    /\ thread \in Seq(Comment)
    /\ nextId \in Nat \ {0}
    /\ pc \in [Runs -> Active \cup {"idle", "done"}]
    /\ page \in [Runs -> Nat \ {0}]
    /\ target \in [Runs -> Nat]
    /\ outcome \in [Runs -> Outcomes \cup {None}]
    /\ began \in [Runs -> Nat]
    /\ solo \subseteq Runs /\ disturbed \subseteq Runs

(* Ids grow along the thread; a comment is a receipt iff a run posted it,  *)
(* and that run is over.                                                   *)
Ordered ==
    \A i \in 1..Len(thread) :
        /\ thread[i].id < nextId
        /\ thread[i].body = Human <=> thread[i].creator = Human
        /\ thread[i].creator # Human => pc[thread[i].creator] = "done"
        /\ \A j \in 1..Len(thread) : i < j => thread[i].id < thread[j].id

(* The places a listing has read. *)
Seen(r) == (page[r] - 1) * PerPage

(* What a run knows of the thread, if no comment was deleted under it. *)
Listed(r) ==
    /\ began[r] <= nextId
    /\ pc[r] = "idle" => page[r] = 1 /\ target[r] = 0
    /\ target[r] # 0 =>
          /\ target[r] < nextId
          /\ \A i \in 1..Len(thread) : thread[i].id = target[r] => IsMarker(thread[i])
    /\ r \notin disturbed =>
          /\ pc[r] = "list" /\ target[r] = 0 =>
                Seen(r) <= Len(thread) /\ \A i \in Markers : i > Seen(r)
          /\ pc[r] \in {"list", "patch"} /\ target[r] # 0 =>
                \A i \in Markers : thread[i].id >= target[r]
          /\ pc[r] = "post" => \A i \in Markers : thread[i].id >= began[r] /\ r \notin solo

(* A run that is still called solo is the only one in progress. *)
Alone == \A r \in solo, q \in Runs : pc[r] \in Active /\ pc[q] \in Active => q = r

IInv ==
    /\ TypeOK
    /\ Ordered
    /\ \A r \in Runs : Listed(r)
    /\ Alone
    /\ DuplicatesNeedARace

-----------------------------------------------------------------------------
Below == {ss \in Nat \X Nat : ss[1] < ss[2]}

(* What Min is of a set of natural numbers. *)
LEMMA MinFacts ==
  ASSUME NEW T, T \subseteq Nat, T # {}
  PROVE  Min(T) \in T /\ \A m \in T : Min(T) <= m
  <1>1. IsWellFoundedOn(Below, Nat)
    BY NatLessThanWellFounded DEF OpToRel, Below
  <1>2. PICK n \in T : \A m \in T : <<m, n>> \notin Below
    BY <1>1, WFMin
  <1>3. n \in Nat /\ \A m \in T : m \in Nat /\ ~(m < n)
    BY <1>2 DEF Below
  <1>4. \E m \in T : \A k \in T : m <= k
    BY <1>3
  <1> QED
    BY <1>4 DEF Min

LEMMA RemoveAtFacts ==
  ASSUME NEW S, NEW s \in Seq(S), NEW i \in 1..Len(s)
  PROVE  /\ RemoveAt(s, i) \in Seq(S)
         /\ Len(RemoveAt(s, i)) = Len(s) - 1
         /\ \A j \in 1..(Len(s) - 1) : RemoveAt(s, i)[j] = s[IF j < i THEN j ELSE j + 1]
  <1> DEFINE a == SubSeq(s, 1, i - 1)
             b == SubSeq(s, i + 1, Len(s))
  <1>1. /\ a \in Seq(S) /\ Len(a) = i - 1
        /\ \A j \in 1..(i - 1) : a[j] = s[j]
    BY SubSeqProperties
  <1>2. /\ b \in Seq(S) /\ Len(b) = Len(s) - i
        /\ \A j \in 1..(Len(s) - i) : b[j] = s[i + j]
    BY SubSeqProperties
  <1>3. RemoveAt(s, i) = a \o b
    BY DEF RemoveAt
  <1> HIDE DEF a, b
  <1>4. /\ a \o b \in Seq(S) /\ Len(a \o b) = Len(a) + Len(b)
        /\ \A j \in 1..(Len(a) + Len(b)) :
              (a \o b)[j] = IF j <= Len(a) THEN a[j] ELSE b[j - Len(a)]
    BY <1>1, <1>2, ConcatProperties
  <1>5. Len(a) + Len(b) = Len(s) - 1 /\ i \in Nat /\ Len(s) \in Nat
    BY <1>1, <1>2
  <1>6. ASSUME NEW j \in 1..(Len(s) - 1) PROVE (a \o b)[j] = s[IF j < i THEN j ELSE j + 1]
    <2>1. CASE j < i
      BY <1>1, <1>4, <1>5, <2>1
    <2>2. CASE ~(j < i)
      <3>1. (a \o b)[j] = b[j - (i - 1)]
        BY <1>1, <1>4, <1>5, <2>2
      <3>2. j - (i - 1) \in 1..(Len(s) - i) /\ i + (j - (i - 1)) = j + 1
        BY <1>5, <2>2
      <3>3. b[j - (i - 1)] = s[i + (j - (i - 1))]
        BY <1>2, <3>2
      <3> QED
        BY <2>2, <3>1, <3>2, <3>3
    <2> QED  BY <2>1, <2>2
  <1> QED
    BY <1>3, <1>4, <1>5, <1>6

(* The pages of a thread. *)
LEMMA Pages ==
  ASSUME TypeOK, NEW r \in Runs
  PROVE  LET n == page[r]
         IN  /\ Seen(r) \in Nat /\ n * PerPage \in Nat
             /\ Seen(r) + PerPage = n * PerPage
             /\ ((n + 1) - 1) * PerPage = n * PerPage
             /\ PageOf(n) = {i \in 1..Len(thread) : Seen(r) < i /\ i <= n * PerPage}
  <1> DEFINE n == page[r]
  <1>1. n \in Nat \ {0} /\ PerPage \in Nat \ {0} /\ Len(thread) \in Nat
    BY CommentAssumption DEF TypeOK
  <1> HIDE DEF n
  <1>2. (n - 1) * PerPage \in Nat /\ n * PerPage \in Nat /\ (n - 1) * PerPage + PerPage = n * PerPage
    BY <1>1
  <1>3. ((n + 1) - 1) * PerPage = n * PerPage
    BY <1>1
  <1> DEFINE m == Min({n * PerPage, Len(thread)})
  <1>4. m \in {n * PerPage, Len(thread)} /\ m <= n * PerPage /\ m <= Len(thread)
    BY <1>1, <1>2, MinFacts
  <1>5. PageOf(n) = ((n - 1) * PerPage + 1)..m
    BY DEF PageOf
  <1> HIDE DEF m
  <1>6. PageOf(n) = {i \in 1..Len(thread) : (n - 1) * PerPage < i /\ i <= n * PerPage}
    BY <1>1, <1>2, <1>4, <1>5
  <1> QED
    BY <1>2, <1>3, <1>6 DEF n, Seen

-----------------------------------------------------------------------------
LEMMA InitIInv ==
  ASSUME CommentInit
  PROVE  IInv
  <1>1. thread = <<>> /\ Len(thread) = 0 /\ Markers = {}
    BY DEF CommentInit, Markers
  <1>2. TypeOK
    BY DEF CommentInit, TypeOK, Active
  <1>3. Ordered /\ Alone /\ DuplicatesNeedARace
    BY <1>1 DEF CommentInit, Ordered, Alone, DuplicatesNeedARace, Active
  <1>4. \A r \in Runs : Listed(r)
    BY DEF CommentInit, Listed
  <1> QED
    BY <1>2, <1>3, <1>4 DEF IInv

LEMMA Appended ==
  ASSUME TypeOK, NEW c \in Comment
  PROVE  LET t == Append(thread, c)
         IN  /\ t \in Seq(Comment) /\ Len(t) = Len(thread) + 1
             /\ \A i \in 1..Len(thread) : t[i] = thread[i]
             /\ t[Len(thread) + 1] = c
  BY DEF TypeOK

(* Where each comment that is still there was before the step. *)
Through(f) ==
    /\ f \in [1..Len(thread') -> 1..Len(thread)]
    /\ \A k \in 1..Len(thread') :
          /\ thread'[k].id = thread[f[k]].id
          /\ thread'[k].creator = thread[f[k]].creator
          /\ IsMarker(thread'[k]) <=> IsMarker(thread[f[k]])
    /\ \A k, l \in 1..Len(thread') : k < l => f[k] < f[l]

(* A PATCH leaves every comment in its place, and a receipt one. *)
LEMMA Patched ==
  ASSUME IInv, NEW r \in Runs,
         thread' = [i \in 1..Len(thread) |->
                      IF thread[i].id = target[r] THEN [thread[i] EXCEPT !.body = r] ELSE thread[i]]
  PROVE  /\ thread' \in Seq(Comment) /\ Len(thread') = Len(thread)
         /\ Through([i \in 1..Len(thread) |-> i])
         /\ \A i \in 1..Len(thread) : thread[i].id = target[r] => thread'[i].body = r
  <1>1. Len(thread) \in Nat /\ \A i \in 1..Len(thread) : thread[i] \in Comment
    BY DEF IInv, TypeOK
  <1>2. \A i \in 1..Len(thread) : [thread[i] EXCEPT !.body = r] \in Comment
    BY <1>1 DEF Comment
  <1>3. thread' \in Seq(Comment) /\ Len(thread') = Len(thread)
    BY <1>1, <1>2
  <1>4. ASSUME NEW i \in 1..Len(thread)
        PROVE  /\ thread'[i].id = thread[i].id /\ thread'[i].creator = thread[i].creator
               /\ IsMarker(thread'[i]) <=> IsMarker(thread[i])
               /\ thread[i].id = target[r] => thread'[i].body = r
    <2>1. thread[i].id = target[r] => IsMarker(thread[i])
      BY <1>1 DEF IInv, Listed, Comment
    <2>2. r # Human
      BY CommentAssumption
    <2> QED
      BY <1>1, <2>1, <2>2 DEF Comment, IsMarker
  <1> QED
    BY <1>3, <1>4 DEF Through

LEMMA Deleted ==
  ASSUME IInv, NEW i \in 1..Len(thread), HumanDeletes(i)
  PROVE  thread' \in Seq(Comment) /\ \E f : Through(f)
  <1>1. Len(thread) \in Nat /\ thread \in Seq(Comment)
    BY DEF IInv, TypeOK
  <1>2. /\ thread' \in Seq(Comment) /\ Len(thread') = Len(thread) - 1
        /\ \A j \in 1..(Len(thread) - 1) : thread'[j] = thread[IF j < i THEN j ELSE j + 1]
    BY <1>1, RemoveAtFacts DEF HumanDeletes
  <1> DEFINE f == [j \in 1..(Len(thread) - 1) |-> IF j < i THEN j ELSE j + 1]
  <1>3. Through(f)
    BY <1>1, <1>2 DEF Through
  <1> QED
    BY <1>2, <1>3

-----------------------------------------------------------------------------
LEMMA TypeStep ==
  ASSUME IInv, [CommentNext]_commentVars
  PROVE  TypeOK'
  <1> USE DEF TypeOK, EndUpsert, Forget, Active, Outcomes
  <1>0. TypeOK
    BY DEF IInv
  <1>1. ASSUME NEW r \in Runs, BeginUpsert(r) PROVE TypeOK'
    BY <1>0, <1>1 DEF BeginUpsert
  <1>2. ASSUME NEW r \in Runs, ListPage(r) PROVE TypeOK'
    <2> DEFINE found == MarkersIn(page[r])
               first == IF target[r] = 0 /\ found # {} THEN thread[Min(found)].id ELSE target[r]
    <2>1. first \in Nat
      <3>1. found \subseteq 1..Len(thread) /\ Len(thread) \in Nat
        BY <1>0 DEF MarkersIn, Markers
      <3>2. CASE target[r] = 0 /\ found # {}
        <4>1. Min(found) \in 1..Len(thread)
          BY <3>1, <3>2, MinFacts
        <4>2. thread[Min(found)] \in Comment
          BY <1>0, <4>1
        <4> HIDE DEF found
        <4> QED
          BY <3>2, <4>2 DEF Comment
      <3>3. CASE ~(target[r] = 0 /\ found # {})
        BY <1>0, <3>3
      <3> QED  BY <3>2, <3>3
    <2> HIDE DEF first
    <2>2. /\ target' = [target EXCEPT ![r] = first]
          /\ UNCHANGED <<thread, nextId, outcome, began, solo, disturbed>>
      BY <1>2 DEF ListPage, first
    <2>3. page' \in [Runs -> Nat \ {0}]
      <3>1. page' = page \/ page' = [page EXCEPT ![r] = page[r] + 1]
        BY <1>2 DEF ListPage
      <3>2. page \in [Runs -> Nat \ {0}] /\ page[r] + 1 \in Nat \ {0}
        BY <1>0
      <3> QED
        BY <3>1, <3>2
    <2>4. pc' \in [Runs -> Active \cup {"idle", "done"}]
      BY <1>0, <1>2 DEF ListPage
    <2>5. target' \in [Runs -> Nat]
      BY <1>0, <2>1, <2>2
    <2> QED
      BY <1>0, <2>2, <2>3, <2>4, <2>5
  <1>3. ASSUME NEW r \in Runs, GarbledListing(r) PROVE TypeOK'
    BY <1>0, <1>3 DEF GarbledListing
  <1>4. ASSUME NEW r \in Runs, Patch(r) PROVE TypeOK'
    <2>1. thread' \in Seq(Comment)
      BY <1>0, <1>4, Patched DEF Patch
    <2>2. EndUpsert(r, "updated") \/ EndUpsert(r, "error")
      BY <1>4 DEF Patch
    <2>3. nextId' = nextId /\ Forget(r)
      BY <1>4 DEF Patch
    <2>4. /\ pc' \in [Runs -> Active \cup {"idle", "done"}]
          /\ outcome' \in [Runs -> Outcomes \cup {None}]
      BY <1>0, <2>2
    <2>5. /\ page' = [page EXCEPT ![r] = 1] /\ target' = [target EXCEPT ![r] = 0]
          /\ solo' = solo \ {r}
      BY <2>2
    <2>7. page' \in [Runs -> Nat \ {0}]
      BY <1>0, <2>5
    <2>8. target' \in [Runs -> Nat]
      BY <1>0, <2>5
    <2>9. solo' \subseteq Runs
      BY <1>0, <2>5
    <2>6. began' \in [Runs -> Nat] /\ disturbed' \subseteq Runs
      BY <1>0, <2>3
    <2> QED
      BY <1>0, <2>1, <2>3, <2>4, <2>6, <2>7, <2>8, <2>9
  <1>5. ASSUME NEW r \in Runs, NEW acked \in BOOLEAN, Post(r, acked) PROVE TypeOK'
    <2>1. [id |-> nextId, body |-> r, creator |-> r] \in Comment
      BY <1>0 DEF Comment
    <2> QED
      BY <1>0, <1>5, <2>1 DEF Post
  <1>6. ASSUME NEW r \in Runs, CallFails(r) PROVE TypeOK'
    BY <1>0, <1>6 DEF CallFails
  <1>7. ASSUME HumanComments PROVE TypeOK'
    <2>1. [id |-> nextId, body |-> Human, creator |-> Human] \in Comment
      BY <1>0 DEF Comment
    <2> QED
      BY <1>0, <1>7, <2>1 DEF HumanComments
  <1>8. ASSUME NEW i \in 1..Len(thread), HumanDeletes(i) PROVE TypeOK'
    <2>1. thread' \in Seq(Comment)
      BY <1>8, Deleted
    <2> QED
      BY <1>0, <1>8, <2>1 DEF HumanDeletes
  <1>9. CASE UNCHANGED commentVars
    BY <1>0, <1>9 DEF commentVars
  <1> QED
    BY <1>1, <1>2, <1>3, <1>4, <1>5, <1>6, <1>7, <1>8, <1>9 DEF CommentNext, RunStep, HumanStep

(* What a step of a run does to the others. *)
LEMMA OwnStep ==
  ASSUME IInv, NEW r \in Runs, RunStep(r)
  PROVE  /\ \A q \in Runs \ {r} :
               /\ pc'[q] = pc[q] /\ page'[q] = page[q] /\ target'[q] = target[q]
               /\ began'[q] = began[q] /\ outcome'[q] = outcome[q]
               /\ q \in disturbed' <=> q \in disturbed
         /\ solo' \subseteq solo /\ pc[r] # "done"
         /\ BeginUpsert(r) \/ pc[r] \in Active
  BY DEF IInv, TypeOK, RunStep, BeginUpsert, ListPage, GarbledListing, Patch, Post, CallFails, EndUpsert,
     Forget, Active

LEMMA AloneStep ==
  ASSUME IInv, [CommentNext]_commentVars
  PROVE  Alone'
  <1>1. ASSUME NEW r \in Runs, RunStep(r) PROVE Alone'
    <2>1. CASE BeginUpsert(r)
      <3>1. /\ pc' = [pc EXCEPT ![r] = "list"] /\ pc[r] = "idle"
            /\ solo' = IF Ongoing = {} THEN solo ELSE solo \ (Ongoing \cup {r})
        BY <2>1 DEF BeginUpsert
      <3>2. CASE Ongoing = {}
        BY <3>1, <3>2 DEF IInv, TypeOK, Alone, Ongoing
      <3>3. CASE Ongoing # {}
        BY <3>1, <3>3 DEF IInv, TypeOK, Alone, Ongoing
      <3> QED  BY <3>2, <3>3
    <2>2. CASE pc[r] \in Active
      <3>1. /\ \A q \in Runs \ {r} : pc'[q] = pc[q]
            /\ solo' \subseteq solo /\ solo \subseteq Runs
        BY <1>1, OwnStep DEF IInv, TypeOK
      <3> QED
        BY <2>2, <3>1 DEF IInv, Alone
    <2> QED
      BY <1>1, <2>1, <2>2, OwnStep
  <1>2. CASE HumanStep \/ UNCHANGED commentVars
    BY <1>2 DEF IInv, Alone, HumanStep, HumanComments, HumanDeletes, commentVars
  <1> QED
    BY <1>1, <1>2 DEF CommentNext

-----------------------------------------------------------------------------
(* A step that adds no comment and takes no receipt for what it is not. *)
LEMMA ThroughKeeps ==
  ASSUME IInv, TypeOK', NEW f, Through(f), nextId' = nextId,
         \A r \in Runs : pc[r] = "done" =>
             pc'[r] = "done" /\ began'[r] = began[r] /\ (r \in disturbed => r \in disturbed')
  PROVE  Ordered' /\ DuplicatesNeedARace'
  <1>1. ASSUME NEW k \in 1..Len(thread')
        PROVE  /\ f[k] \in 1..Len(thread)
               /\ thread'[k].id = thread[f[k]].id
               /\ thread'[k].creator = thread[f[k]].creator
               /\ thread'[k].body = Human <=> thread[f[k]].body = Human
               /\ thread[f[k]] \in Comment
    <2>1. f[k] \in 1..Len(thread) /\ thread \in Seq(Comment)
      BY DEF Through, IInv, TypeOK
    <2>2. /\ thread'[k].id = thread[f[k]].id
          /\ thread'[k].creator = thread[f[k]].creator
          /\ IsMarker(thread'[k]) <=> IsMarker(thread[f[k]])
      BY DEF Through
    <2> QED
      BY <2>1, <2>2 DEF IsMarker
  <1>2. \A k, l \in 1..Len(thread') : k < l => f[k] < f[l]
    BY DEF Through
  <1>3. Ordered'
    <2> SUFFICES ASSUME NEW k \in 1..Len(thread')
                 PROVE  /\ thread'[k].id < nextId'
                        /\ thread'[k].body = Human <=> thread'[k].creator = Human
                        /\ thread'[k].creator # Human => pc'[thread'[k].creator] = "done"
                        /\ \A l \in 1..Len(thread') : k < l => thread'[k].id < thread'[l].id
      BY DEF Ordered
    <2>1. /\ thread[f[k]].id < nextId
          /\ thread[f[k]].body = Human <=> thread[f[k]].creator = Human
          /\ thread[f[k]].creator # Human => pc[thread[f[k]].creator] = "done"
          /\ \A j \in 1..Len(thread) : f[k] < j => thread[f[k]].id < thread[j].id
      BY <1>1 DEF IInv, Ordered
    <2>2. thread[f[k]].creator # Human => thread[f[k]].creator \in Runs
      BY <1>1 DEF Comment
    <2> QED
      BY <1>1, <1>2, <2>1, <2>2
  <1>4. DuplicatesNeedARace'
    <2> SUFFICES ASSUME NEW k \in Markers', NEW l \in Markers', k < l
                 PROVE  \/ thread'[k].id >= began'[thread'[l].creator]
                        \/ thread'[l].creator \in disturbed'
      BY DEF DuplicatesNeedARace
    <2>1. f[k] \in Markers /\ f[l] \in Markers /\ f[k] < f[l]
      BY <1>1, <1>2 DEF Markers, IsMarker
    <2>2. thread[f[k]].id >= began[thread[f[l]].creator] \/ thread[f[l]].creator \in disturbed
      BY <2>1 DEF IInv, DuplicatesNeedARace
    <2>3. thread[f[l]].creator \in Runs /\ pc[thread[f[l]].creator] = "done"
      BY <1>1, <2>1 DEF IInv, Ordered, Markers, IsMarker, Comment
    <2> QED
      BY <1>1, <2>2, <2>3 DEF Markers
  <1> QED  BY <1>3, <1>4

(* A new comment, at the end of the thread. *)
LEMMA AppendKeeps ==
  ASSUME IInv, TypeOK', NEW c \in Comment, thread' = Append(thread, c),
         c.id = nextId, nextId' = nextId + 1, c.body = Human <=> c.creator = Human,
         c.creator # Human => /\ pc'[c.creator] = "done"
                              /\ \/ \A i \in Markers : thread[i].id >= began'[c.creator]
                                 \/ c.creator \in disturbed',
         \A r \in Runs : pc[r] = "done" =>
             pc'[r] = "done" /\ began'[r] = began[r] /\ (r \in disturbed => r \in disturbed')
  PROVE  Ordered' /\ DuplicatesNeedARace'
  <1>1. /\ Len(thread) \in Nat /\ Len(thread') = Len(thread) + 1
        /\ \A i \in 1..Len(thread) : thread'[i] = thread[i] /\ thread[i] \in Comment
        /\ thread'[Len(thread) + 1] = c
    BY Appended DEF IInv, TypeOK
  <1>2. nextId \in Nat
    BY DEF IInv, TypeOK
  <1>3. ASSUME NEW i \in 1..Len(thread), NEW r, r = thread[i].creator, r # Human
        PROVE  /\ r \in Runs /\ pc[r] = "done" /\ pc'[r] = "done" /\ began'[r] = began[r]
               /\ r \in disturbed => r \in disturbed'
    BY <1>1, <1>3 DEF IInv, Ordered, Comment
  <1>4. Ordered'
    <2> SUFFICES ASSUME NEW k \in 1..Len(thread')
                 PROVE  /\ thread'[k].id < nextId'
                        /\ thread'[k].body = Human <=> thread'[k].creator = Human
                        /\ thread'[k].creator # Human => pc'[thread'[k].creator] = "done"
                        /\ \A l \in 1..Len(thread') : k < l => thread'[k].id < thread'[l].id
      BY DEF Ordered
    <2>1. CASE k = Len(thread) + 1
      BY <1>1, <1>2, <2>1
    <2>2. CASE k \in 1..Len(thread)
      <3>1. /\ thread[k].id \in Nat /\ thread[k].id < nextId
            /\ thread[k].body = Human <=> thread[k].creator = Human
            /\ \A j \in 1..Len(thread) : k < j => thread[k].id < thread[j].id
        BY <1>1, <2>2 DEF IInv, Ordered, Comment
      <3>2. \A l \in 1..Len(thread') : l \in 1..Len(thread) \/ l = Len(thread) + 1
        BY <1>1
      <3> QED
        BY <1>1, <1>2, <1>3, <2>2, <3>1, <3>2
    <2> QED  BY <1>1, <2>1, <2>2
  <1>5. DuplicatesNeedARace'
    <2> SUFFICES ASSUME NEW k \in Markers', NEW l \in Markers', k < l
                 PROVE  \/ thread'[k].id >= began'[thread'[l].creator]
                        \/ thread'[l].creator \in disturbed'
      BY DEF DuplicatesNeedARace
    <2>1. k \in Markers /\ thread'[k] = thread[k]
      BY <1>1 DEF Markers
    <2>2. CASE l = Len(thread) + 1
      BY <1>1, <2>1, <2>2 DEF Markers, IsMarker
    <2>3. CASE l \in 1..Len(thread)
      <3>1. l \in Markers /\ thread'[l] = thread[l]
        BY <1>1, <2>3 DEF Markers
      <3>2. thread[k].id >= began[thread[l].creator] \/ thread[l].creator \in disturbed
        BY <2>1, <3>1 DEF IInv, DuplicatesNeedARace
      <3>3. thread[l].creator # Human
        BY <2>3, <3>1 DEF IInv, Ordered, Markers, IsMarker
      <3> QED
        BY <1>3, <2>1, <2>3, <3>1, <3>2, <3>3
    <2>4. l \in DOMAIN thread' /\ DOMAIN thread' = 1..(Len(thread) + 1)
      BY <1>1 DEF Markers
    <2>5. l = Len(thread) + 1 \/ l \in 1..Len(thread)
      BY <1>1, <2>4
    <2> QED
      BY <2>2, <2>3, <2>5
  <1> QED  BY <1>4, <1>5

(* What a run knows outlives the steps of others. *)
LEMMA ListedThrough ==
  ASSUME IInv, NEW q \in Runs, NEW f, Through(f), nextId' = nextId, solo' \subseteq solo,
         pc'[q] = pc[q], page'[q] = page[q], target'[q] = target[q], began'[q] = began[q],
         q \in disturbed => q \in disturbed',
         pc[q] = "list" /\ q \notin disturbed' =>
             Len(thread') = Len(thread) /\ \A k \in 1..Len(thread') : f[k] = k
  PROVE  Listed(q)'
  <1>1. Listed(q)
    BY DEF IInv
  <1>2. \A k \in 1..Len(thread') : f[k] \in 1..Len(thread) /\ thread'[k].id = thread[f[k]].id
    BY DEF Through
  <1>3. \A k \in Markers' : f[k] \in Markers /\ thread'[k].id = thread[f[k]].id
    BY DEF Through, Markers
  <1>4. \A k \in 1..Len(thread') : IsMarker(thread'[k]) <=> IsMarker(thread[f[k]])
    BY DEF Through
  <1>5. pc[q] = "list" /\ q \notin disturbed' => \A k \in Markers' : f[k] = k
    BY DEF Markers
  <1>6. Seen(q)' = Seen(q)
    BY DEF Seen
  <1> QED
    BY <1>1, <1>2, <1>3, <1>4, <1>5, <1>6 DEF Listed

LEMMA ListedAppended ==
  ASSUME IInv, NEW q \in Runs, NEW c \in Comment,
         thread' = Append(thread, c), c.id = nextId, nextId' = nextId + 1,
         solo' \subseteq solo, q \in disturbed => q \in disturbed',
         pc'[q] = pc[q], page'[q] = page[q], target'[q] = target[q], began'[q] = began[q],
         IsMarker(c) /\ pc[q] = "post" => q \notin solo'
  PROVE  Listed(q)'
  <1>1. Listed(q)
    BY DEF IInv
  <1>2. /\ Len(thread) \in Nat /\ Len(thread') = Len(thread) + 1
        /\ \A i \in 1..Len(thread) : thread'[i] = thread[i]
        /\ thread'[Len(thread) + 1] = c
    BY Appended DEF IInv, TypeOK
  <1>3. nextId \in Nat /\ began[q] \in Nat /\ target[q] \in Nat
    BY DEF IInv, TypeOK
  <1>4. \A k \in 1..Len(thread') : k \in 1..Len(thread) \/ k = Len(thread) + 1
    BY <1>2
  <1>5. ASSUME NEW k \in Markers'
        PROVE  \/ k \in Markers /\ thread'[k] = thread[k]
               \/ k = Len(thread) + 1 /\ thread'[k].id = nextId /\ IsMarker(c)
    BY <1>2, <1>4 DEF Markers
  <1>6. Seen(q)' = Seen(q) /\ Seen(q) \in Nat
    BY Pages DEF Seen, IInv
  <1>7. \A k \in 1..Len(thread') : thread'[k].id = target[q] /\ target[q] < nextId =>
           k \in 1..Len(thread) /\ thread'[k] = thread[k]
    BY <1>2, <1>3, <1>4
  <1>8. began'[q] <= nextId' /\ (target'[q] # 0 => target'[q] < nextId')
    BY <1>1, <1>3 DEF Listed
  <1>9. target'[q] # 0 => \A k \in 1..Len(thread') : thread'[k].id = target'[q] => IsMarker(thread'[k])
    BY <1>1, <1>7 DEF Listed
  <1>10. (pc[q] = "list" /\ target[q] = 0 /\ q \notin disturbed) =>
            Seen(q)' <= Len(thread') /\ \A k \in Markers' : k > Seen(q)'
    BY <1>1, <1>2, <1>5, <1>6 DEF Listed
  <1>11. (pc[q] \in {"list", "patch"} /\ target[q] # 0 /\ q \notin disturbed) =>
            \A k \in Markers' : thread'[k].id >= target[q]
    <2> SUFFICES ASSUME pc[q] \in {"list", "patch"}, target[q] # 0, q \notin disturbed,
                        NEW k \in Markers'
                 PROVE  thread'[k].id >= target[q]
      OBVIOUS
    <2>1. CASE k \in Markers /\ thread'[k] = thread[k]
      BY <1>1, <2>1 DEF Listed
    <2>2. CASE k = Len(thread) + 1 /\ thread'[k].id = nextId /\ IsMarker(c)
      <3>1. target[q] < nextId
        BY <1>1 DEF Listed
      <3> QED
        BY <1>3, <2>2, <3>1
    <2> QED  BY <1>5, <2>1, <2>2
  <1>12. (pc[q] = "post" /\ q \notin disturbed) =>
            \A k \in Markers' : thread'[k].id >= began[q] /\ q \notin solo'
    <2> SUFFICES ASSUME pc[q] = "post", q \notin disturbed, NEW k \in Markers'
                 PROVE  thread'[k].id >= began[q] /\ q \notin solo'
      OBVIOUS
    <2>1. CASE k \in Markers /\ thread'[k] = thread[k]
      BY <1>1, <2>1 DEF Listed
    <2>2. CASE k = Len(thread) + 1 /\ thread'[k].id = nextId /\ IsMarker(c)
      BY <1>1, <1>3, <2>2 DEF Listed
    <2> QED  BY <1>5, <2>1, <2>2
  <1> QED
    BY <1>1, <1>8, <1>9, <1>10, <1>11, <1>12 DEF Listed

-----------------------------------------------------------------------------
(* The receipt that a run has found when it has read its page. *)
First(r) ==
    LET found == MarkersIn(page[r])
    IN  IF target[r] = 0 /\ found # {} THEN thread[Min(found)].id ELSE target[r]

(* It reads the next page in the listing it knows of: the first receipt of *)
(* the page is the first of the thread, and after the last page there is   *)
(* none.                                                                   *)
LEMMA ListPageKnows ==
  ASSUME IInv, NEW r \in Runs, ListPage(r)
  PROVE  Listed(r)'
  <1>1. /\ pc[r] = "list" /\ target'[r] = First(r)
        /\ UNCHANGED <<thread, nextId, began, solo, disturbed>>
        /\ \/ First(r) # 0 /\ pc'[r] = "patch"
           \/ First(r) = 0 /\ IsLastPage(page[r]) /\ pc'[r] = "post"
           \/ ~IsLastPage(page[r]) /\ pc'[r] = "list" /\ page'[r] = page[r] + 1
    BY DEF ListPage, First, IInv, TypeOK
  <1>2. Listed(r) /\ Ordered /\ Seen(r) \in Nat
    BY Pages DEF IInv
  <1>3. /\ thread \in Seq(Comment) /\ Len(thread) \in Nat
        /\ PerPage \in Nat /\ target[r] \in Nat /\ page[r] \in Nat
    BY CommentAssumption DEF IInv, TypeOK
  <1> DEFINE upTo == page[r] * PerPage
  <1>4. /\ MarkersIn(page[r]) = {i \in Markers : Seen(r) < i /\ i <= upTo}
        /\ ~IsLastPage(page[r]) <=> upTo <= Len(thread)
        /\ ((page[r] + 1) - 1) * PerPage = upTo /\ upTo \in Nat
    BY Pages, <1>3 DEF IInv, MarkersIn, Markers, IsLastPage
  <1> HIDE DEF upTo
  <1>5. /\ First(r) # 0 => First(r) < nextId
        /\ \A i \in 1..Len(thread) : First(r) # 0 /\ thread[i].id = First(r) => IsMarker(thread[i])
        /\ r \notin disturbed /\ First(r) # 0 => \A i \in Markers : thread[i].id >= First(r)
        /\ r \notin disturbed /\ First(r) = 0 => target[r] = 0 /\ \A i \in Markers : i > upTo
    <2>1. CASE target[r] = 0 /\ MarkersIn(page[r]) # {}
      <3> DEFINE m == Min(MarkersIn(page[r]))
      <3>0. MarkersIn(page[r]) \subseteq Nat /\ MarkersIn(page[r]) # {}
        BY <1>3, <1>4, <2>1 DEF Markers
      <3>a. m \in MarkersIn(page[r]) /\ \A i \in MarkersIn(page[r]) : m <= i
        BY <3>0, MinFacts
      <3>1. m \in Markers /\ m <= upTo /\ \A i \in MarkersIn(page[r]) : m <= i
        BY <1>4, <3>a
      <3>2. First(r) = thread[m].id
        BY <2>1 DEF First
      <3> HIDE DEF m
      <3>3. m \in 1..Len(thread) /\ thread[m] \in Comment /\ IsMarker(thread[m])
        BY <1>3, <3>1 DEF Markers
      <3>4. First(r) \in Nat \ {0} /\ First(r) < nextId
        BY <1>2, <3>2, <3>3 DEF Comment, Ordered
      <3>5. \A i \in 1..Len(thread) : thread[i] \in Comment /\ (i = m \/ i < m \/ m < i)
        BY <1>3, <3>3
      <3>6. \A i \in 1..Len(thread) :
               /\ i < m => thread[i].id < First(r)
               /\ m < i => First(r) < thread[i].id
        BY <1>2, <3>2, <3>3 DEF Ordered
      <3>7. \A i \in 1..Len(thread) : thread[i].id = First(r) => i = m
        BY <3>4, <3>5, <3>6 DEF Comment
      <3>8. r \notin disturbed => \A i \in Markers : ~(i < m)
        <4> SUFFICES ASSUME r \notin disturbed, NEW i \in Markers, i < m PROVE FALSE
          OBVIOUS
        <4>1. i > Seen(r) /\ i \in Nat /\ m \in Nat
          BY <1>1, <1>2, <1>3, <2>1, <3>3 DEF Listed, Markers
        <4>2. i \in MarkersIn(page[r])
          BY <1>2, <1>4, <3>1, <4>1
        <4> QED
          BY <3>1, <4>1, <4>2
      <3>9. r \notin disturbed => \A i \in Markers : thread[i].id >= First(r)
        BY <3>2, <3>4, <3>5, <3>6, <3>8 DEF Markers, Comment
      <3> QED
        BY <3>3, <3>4, <3>7, <3>9
    <2>2. CASE target[r] # 0
      BY <1>1, <1>2, <2>2 DEF First, Listed
    <2>3. CASE target[r] = 0 /\ MarkersIn(page[r]) = {}
      <3>1. First(r) = 0
        BY <2>3 DEF First
      <3>2. r \notin disturbed => \A i \in Markers : i > Seen(r) /\ i \in Nat
        BY <1>1, <1>2, <1>3, <2>3 DEF Listed, Markers
      <3> QED
        BY <1>2, <1>4, <2>3, <3>1, <3>2
    <2> QED  BY <1>3, <2>1, <2>2, <2>3
  <1>6. Markers' = Markers /\ \A i \in Markers : i \in 1..Len(thread)
    BY <1>1 DEF Markers
  <1>7. CASE First(r) # 0 /\ pc'[r] = "patch"
    BY <1>1, <1>2, <1>5, <1>6, <1>7 DEF Listed
  <1>8. CASE First(r) = 0 /\ IsLastPage(page[r]) /\ pc'[r] = "post"
    <2>1. r \notin disturbed => Markers = {}
      BY <1>3, <1>4, <1>5, <1>6, <1>8
    <2> QED
      BY <1>1, <1>2, <1>6, <1>8, <2>1 DEF Listed
  <1>9. CASE ~IsLastPage(page[r]) /\ pc'[r] = "list" /\ page'[r] = page[r] + 1
    <2>1. Seen(r)' = upTo /\ upTo <= Len(thread)
      BY <1>4, <1>9 DEF Seen
    <2> QED
      BY <1>1, <1>2, <1>5, <1>6, <1>9, <2>1 DEF Listed
  <1> QED
    BY <1>1, <1>7, <1>8, <1>9

(* A run that starts a listing has seen nothing yet. *)
LEMMA BeginKnows ==
  ASSUME IInv, NEW r \in Runs, BeginUpsert(r)
  PROVE  Listed(r)'
  <1>1. /\ pc[r] = "idle" /\ pc'[r] = "list" /\ began'[r] = nextId
        /\ UNCHANGED <<thread, nextId, page, target, disturbed>>
    BY DEF BeginUpsert, IInv, TypeOK
  <1>2. page[r] = 1 /\ target[r] = 0 /\ nextId \in Nat
    BY <1>1 DEF IInv, TypeOK, Listed
  <1>3. Len(thread) \in Nat /\ PerPage \in Nat /\ (1 - 1) * PerPage = 0
    BY CommentAssumption DEF IInv, TypeOK
  <1>4. Seen(r)' = 0
    BY <1>1, <1>2, <1>3 DEF Seen
  <1>5. \A k \in Markers' : k > 0
    BY <1>1, <1>3 DEF Markers
  <1> QED
    BY <1>1, <1>2, <1>3, <1>4, <1>5 DEF Listed

(* A run that is over, or whose output was garbled, claims nothing. *)
LEMMA EndKnows ==
  ASSUME IInv, NEW r \in Runs, began'[r] \in {0, began[r]},
         nextId <= nextId', nextId' \in Nat, target'[r] = 0,
         pc'[r] = "done" \/ (pc'[r] = "post" /\ r \in disturbed')
  PROVE  Listed(r)'
  <1>1. began[r] <= nextId /\ began[r] \in Nat /\ nextId \in Nat
    BY DEF IInv, Listed, TypeOK
  <1> QED
    BY <1>1 DEF Listed

LEMMA ListedStep ==
  ASSUME IInv, TypeOK', [CommentNext]_commentVars, NEW q \in Runs
  PROVE  Listed(q)'
  <1> DEFINE same == [k \in 1..Len(thread) |-> k]
  <1>1. UNCHANGED thread => Through(same) /\ \A k \in 1..Len(thread') : same[k] = k
    BY DEF Through
  <1>2. \A k \in 1..Len(thread) : same[k] = k
    OBVIOUS
  <1> HIDE DEF same
  <1>3. ASSUME NEW r \in Runs, RunStep(r), r # q PROVE Listed(q)'
    <2>1. /\ pc'[q] = pc[q] /\ page'[q] = page[q] /\ target'[q] = target[q]
          /\ began'[q] = began[q] /\ (q \in disturbed => q \in disturbed')
          /\ solo' \subseteq solo
      BY <1>3, OwnStep
    <2>2. CASE UNCHANGED <<thread, nextId>>
      BY <1>1, <2>1, <2>2, ListedThrough
    <2>3. CASE Patch(r) /\ ~UNCHANGED thread
      <3>1. Len(thread') = Len(thread) /\ Through(same) /\ nextId' = nextId
        BY <2>3, Patched DEF Patch, same
      <3> QED
        BY <1>2, <2>1, <3>1, ListedThrough
    <2>4. ASSUME NEW acked \in BOOLEAN, Post(r, acked) PROVE Listed(q)'
      <3> DEFINE c == [id |-> nextId, body |-> r, creator |-> r]
      <3>1. c \in Comment /\ thread' = Append(thread, c) /\ c.id = nextId /\ nextId' = nextId + 1
        BY <2>4 DEF IInv, TypeOK, Comment, Post
      <3>2. pc[q] = "post" => q \notin solo'
        BY <1>3, <2>1, <2>4 DEF IInv, Alone, Post, Active
      <3> HIDE DEF c
      <3> QED
        BY <2>1, <3>1, <3>2, ListedAppended
    <2> QED
      BY <1>3, <2>2, <2>3, <2>4 DEF RunStep, BeginUpsert, ListPage, GarbledListing, CallFails, Patch
  <1>4. ASSUME RunStep(q) PROVE Listed(q)'
    <2>1. ASSUME GarbledListing(q) PROVE Listed(q)'
      BY <2>1, EndKnows DEF GarbledListing, IInv, TypeOK
    <2>2. ASSUME Patch(q) \/ CallFails(q) PROVE Listed(q)'
      <3>1. (EndUpsert(q, "updated") \/ EndUpsert(q, "error")) /\ Forget(q) /\ nextId' = nextId
        BY <2>2 DEF Patch, CallFails
      <3>2. pc'[q] = "done" /\ target'[q] = 0 /\ began'[q] = 0 /\ nextId' \in Nat
        BY <3>1 DEF EndUpsert, Forget, IInv, TypeOK
      <3>3. nextId <= nextId' /\ began'[q] \in {0, began[q]}
        BY <3>1, <3>2 DEF IInv, TypeOK
      <3> QED
        BY <3>2, <3>3, EndKnows
    <2>3. ASSUME NEW acked \in BOOLEAN, Post(q, acked) PROVE Listed(q)'
      <3>1. pc'[q] = "done" /\ target'[q] = 0 /\ began' = began /\ nextId' = nextId + 1
        BY <2>3 DEF Post, EndUpsert, IInv, TypeOK
      <3>2. nextId <= nextId' /\ nextId' \in Nat /\ began'[q] \in {0, began[q]}
        BY <3>1 DEF IInv, TypeOK
      <3> QED
        BY <3>1, <3>2, EndKnows
    <2> QED
      BY <1>4, <2>1, <2>2, <2>3, BeginKnows, ListPageKnows DEF RunStep
  <1>5. CASE HumanComments
    <2> DEFINE c == [id |-> nextId, body |-> Human, creator |-> Human]
    <2>1. c \in Comment /\ thread' = Append(thread, c) /\ c.id = nextId /\ nextId' = nextId + 1
      BY <1>5 DEF IInv, TypeOK, Comment, HumanComments
    <2>2. ~IsMarker(c)
      BY DEF IsMarker
    <2> HIDE DEF c
    <2> QED
      BY <1>5, <2>1, <2>2, ListedAppended DEF HumanComments
  <1>6. ASSUME NEW i \in 1..Len(thread), HumanDeletes(i) PROVE Listed(q)'
    <2>1. PICK f : Through(f)
      BY <1>6, Deleted
    <2> QED
      BY <1>6, <2>1, ListedThrough DEF HumanDeletes, Listing
  <1>7. CASE UNCHANGED commentVars
    BY <1>1, <1>7, ListedThrough DEF commentVars
  <1> QED
    BY <1>3, <1>4, <1>5, <1>6, <1>7 DEF CommentNext, HumanStep

LEMMA RestStep ==
  ASSUME IInv, TypeOK', [CommentNext]_commentVars
  PROVE  Ordered' /\ DuplicatesNeedARace'
  <1> DEFINE same == [k \in 1..Len(thread) |-> k]
  <1>1. UNCHANGED thread => Through(same)
    BY DEF Through
  <1>2. ASSUME NEW r \in Runs, RunStep(r), NEW q \in Runs, pc[q] = "done"
        PROVE  pc'[q] = "done" /\ began'[q] = began[q] /\ (q \in disturbed => q \in disturbed')
    BY <1>2, OwnStep
  <1> HIDE DEF same
  <1>3. ASSUME NEW r \in Runs, RunStep(r) PROVE Ordered' /\ DuplicatesNeedARace'
    <2>1. CASE UNCHANGED <<thread, nextId>>
      BY <1>1, <1>2, <1>3, <2>1, ThroughKeeps
    <2>2. CASE Patch(r) /\ ~UNCHANGED thread
      <3>1. Through(same) /\ nextId' = nextId
        BY <2>2, Patched DEF Patch, same
      <3> QED
        BY <1>2, <1>3, <3>1, ThroughKeeps
    <2>3. ASSUME NEW acked \in BOOLEAN, Post(r, acked) PROVE Ordered' /\ DuplicatesNeedARace'
      <3> DEFINE c == [id |-> nextId, body |-> r, creator |-> r]
      <3>1. /\ c \in Comment /\ thread' = Append(thread, c) /\ c.id = nextId
            /\ nextId' = nextId + 1 /\ c.body = r /\ c.creator = r /\ r # Human
        BY <2>3, CommentAssumption DEF IInv, TypeOK, Comment, Post
      <3>2. /\ pc[r] = "post" /\ pc'[r] = "done"
            /\ began' = began /\ disturbed' = disturbed
        BY <2>3 DEF IInv, TypeOK, Post, EndUpsert
      <3>3. (\A i \in Markers : thread[i].id >= began'[r]) \/ r \in disturbed'
        BY <3>2 DEF IInv, Listed
      <3> HIDE DEF c
      <3> QED
        BY <1>2, <1>3, <3>1, <3>2, <3>3, AppendKeeps
    <2> QED
      BY <1>3, <2>1, <2>2, <2>3 DEF RunStep, BeginUpsert, ListPage, GarbledListing, CallFails, Patch
  <1>4. CASE HumanComments
    <2> DEFINE c == [id |-> nextId, body |-> Human, creator |-> Human]
    <2>1. /\ c \in Comment /\ thread' = Append(thread, c) /\ c.id = nextId
          /\ nextId' = nextId + 1 /\ c.body = Human /\ c.creator = Human
      BY <1>4 DEF IInv, TypeOK, Comment, HumanComments
    <2> HIDE DEF c
    <2> QED
      BY <1>4, <2>1, AppendKeeps DEF HumanComments
  <1>5. ASSUME NEW i \in 1..Len(thread), HumanDeletes(i) PROVE Ordered' /\ DuplicatesNeedARace'
    <2>1. PICK f : Through(f)
      BY <1>5, Deleted
    <2> QED
      BY <1>5, <2>1, ThroughKeeps DEF HumanDeletes
  <1>6. CASE UNCHANGED commentVars
    BY <1>1, <1>6, ThroughKeeps DEF commentVars
  <1> QED
    BY <1>3, <1>4, <1>5, <1>6 DEF CommentNext, HumanStep

(* The invariant that the rest follows from. *)
THEOREM IInvHolds == CommentSpec => []IInv
  <1>1. CommentInit => IInv
    BY InitIInv
  <1>2. IInv /\ [CommentNext]_commentVars => IInv'
    BY TypeStep, AloneStep, ListedStep, RestStep DEF IInv
  <1> QED
    BY <1>1, <1>2, PTL DEF CommentSpec

(* SPEC-0064 R3, `findMarkerComment` and the POST after it: whatever the    *)
(* number of runs and of comments, a second receipt comment comes from a    *)
(* run that started before the first existed or that could not read the     *)
(* thread as it was.                                                        *)
THEOREM SecondReceiptsNeedARace == CommentSpec => []DuplicatesNeedARace
  <1>1. IInv => DuplicatesNeedARace
    BY DEF IInv
  <1> QED
    BY <1>1, IInvHolds, PTL

(* The PATCH by id, or the POST, of a run that was alone lands in the first *)
(* receipt of the thread, the one that the next reader takes.               *)
THEOREM SoloRunsLand == CommentSpec => SoloRunIsCurrent
  <1>1. IInv /\ TypeOK' /\ [CommentNext]_commentVars => SoloSuccess
    <2> SUFFICES ASSUME IInv, TypeOK', [CommentNext]_commentVars, NEW r \in Runs,
                        outcome[r] = None, outcome'[r] \in {"created", "updated"},
                        r \in solo, r \notin disturbed
                 PROVE  Markers' # {} /\ thread'[FirstMarker'].body = r
      BY DEF SoloSuccess
    <2>1. Len(thread) \in Nat /\ \A i \in 1..Len(thread) : thread[i] \in Comment
      BY DEF IInv, TypeOK
    <2>2. None \notin {"created", "updated"} /\ r # Human
      BY CommentAssumption DEF Outcomes
    <2>3. Patch(r) \/ \E acked \in BOOLEAN : Post(r, acked)
      <3>1. outcome'[r] # outcome[r]
        BY <2>2
      <3>2. PICK q \in Runs : RunStep(q)
        BY <3>1 DEF CommentNext, HumanStep, HumanComments, HumanDeletes, commentVars
      <3>3. q = r
        BY <3>1, <3>2, OwnStep
      <3>4. ~CallFails(r)
        BY DEF CallFails, EndUpsert, IInv, TypeOK
      <3> QED
        BY <3>1, <3>2, <3>3, <3>4 DEF RunStep, BeginUpsert, ListPage, GarbledListing
    <2>4. CASE Patch(r)
      <3>1. target[r] \in Ids /\ pc[r] = "patch"
        BY <2>4 DEF Patch, EndUpsert, IInv, TypeOK
      <3>2. PICK i \in 1..Len(thread) : thread[i].id = target[r]
        BY <3>1 DEF Ids
      <3>3. /\ Through([k \in 1..Len(thread) |-> k]) /\ Len(thread') = Len(thread)
            /\ thread'[i].body = r
        BY <2>4, <3>1, <3>2, Patched DEF Patch
      <3>4. Markers' = Markers
        BY <3>3 DEF Through, Markers
      <3>5. i \in Markers'
        BY <2>2, <3>2, <3>3 DEF Markers, IsMarker
      <3>6. target[r] # 0 /\ \A k \in Markers : thread[k].id >= thread[i].id
        BY <2>1, <3>1, <3>2 DEF IInv, Listed, Comment
      <3>7. \A k \in Markers : ~(k < i)
        BY <2>1, <3>2, <3>6 DEF IInv, Ordered, Markers, Comment
      <3>8. Markers' \subseteq Nat /\ Markers' # {}
        BY <2>1, <3>4, <3>5 DEF Markers
      <3>9. FirstMarker' \in Markers' /\ \A k \in Markers' : FirstMarker' <= k
        BY <3>8, MinFacts DEF FirstMarker
      <3>10. FirstMarker' = i
        BY <3>4, <3>5, <3>7, <3>8, <3>9
      <3> QED
        BY <3>3, <3>5, <3>10
    <2>5. ASSUME NEW acked \in BOOLEAN, Post(r, acked)
          PROVE  Markers' # {} /\ thread'[FirstMarker'].body = r
      <3> DEFINE c == [id |-> nextId, body |-> r, creator |-> r]
                 n == Len(thread) + 1
      <3>1. c \in Comment /\ thread' = Append(thread, c) /\ c.body = r /\ pc[r] = "post"
        BY <2>5 DEF IInv, TypeOK, Comment, Post
      <3> HIDE DEF c
      <3>2. /\ Len(thread') = n /\ thread'[n] = c
            /\ \A k \in 1..Len(thread) : thread'[k] = thread[k]
        BY <3>1, Appended DEF IInv
      <3>3. Markers = {}
        BY <3>1 DEF IInv, Listed
      <3>4. n \in Nat /\ \A k \in 1..n : k = n \/ k \in 1..Len(thread)
        BY <2>1
      <3>5. Markers' = {n}
        BY <2>1, <2>2, <3>1, <3>2, <3>3, <3>4 DEF Markers, IsMarker
      <3>6. FirstMarker' \in Markers'
        BY <3>4, <3>5, MinFacts DEF FirstMarker
      <3> QED
        BY <3>1, <3>2, <3>5, <3>6
    <2> QED  BY <2>3, <2>4, <2>5
  <1>2. IInv => TypeOK
    BY DEF IInv
  <1> QED
    BY <1>1, <1>2, IInvHolds, PTL DEF CommentSpec, SoloRunIsCurrent
================================================================================
