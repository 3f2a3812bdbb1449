------------------------------- MODULE CostsProofs -------------------------------
(***************************************************************************)
(* Proofs about what receipts say of money and of checks (Costs), for any  *)
(* sessions.                                                               *)
(*                                                                         *)
(* Checks.  Something is only said where each check began after the one    *)
(* before it had ended.  Then any earlier one ended before any later one   *)
(* began (OneAfterAnother), so the last recorded is the last in time.      *)
(*                                                                         *)
(* The ledger.  The floors of the rows may sum to more than the floor of   *)
(* the raw figure, which a binary sum may leave below theirs.  The rows    *)
(* give the excess back, one after another in the order of their size, and *)
(* what they give together is the excess, neither more nor less            *)
(* (TakenTogether).  These are sums over rows in any order; their lemmas   *)
(* come first.                                                             *)
(***************************************************************************)
EXTENDS Costs, SequenceTheorems, FiniteSetTheorems, WellFoundedInduction, TLAPS

-----------------------------------------------------------------------------
(* Induction, for sets of numbers. *)
Below == {ss \in Nat \X Nat : ss[1] < ss[2]}

LEMMA LeastOf ==
  ASSUME NEW T, T \subseteq Nat, T # {}
  PROVE  \E n \in T : \A m \in T : n <= m
  <1>1. IsWellFoundedOn(Below, Nat)
    BY NatLessThanWellFounded DEF OpToRel, Below
  <1>2. PICK n \in T : \A m \in T : <<m, n>> \notin Below
    BY <1>1, WFMin
  <1>3. n \in Nat /\ \A m \in T : m \in Nat /\ ~(m < n)
    BY <1>2 DEF Below
  <1> QED
    BY <1>3

LEMMA GreatestOf ==
  ASSUME NEW T, T \subseteq Nat, T # {}, NEW b \in Nat, \A n \in T : n <= b
  PROVE  \E n \in T : \A m \in T : m <= n
  <1> DEFINE C == {k \in Nat : \E n \in T : k = b - n}
  <1>1. C # {}
    <2>1. PICK n \in T : TRUE
      OBVIOUS
    <2>2. b - n \in C
      BY <2>1
    <2> QED  BY <2>2
  <1>2. PICK k \in C : \A l \in C : k <= l
    <2> HIDE DEF C
    <2>1. C \subseteq Nat
      BY DEF C
    <2> QED  BY <1>1, <2>1, LeastOf
  <1>3. PICK n \in T : k = b - n
    OBVIOUS
  <1>4. ASSUME NEW m \in T PROVE m <= n
    <2>1. b - m \in C
      OBVIOUS
    <2>2. k <= b - m
      BY <1>2, <2>1
    <2> QED  BY <1>3, <2>2
  <1> QED
    BY <1>4

LEMMA AllOf ==
  ASSUME NEW T, 0 \in T, \A n \in Nat : n \in T => n + 1 \in T
  PROVE  Nat \subseteq T
  <1> SUFFICES ASSUME Nat \ T # {} PROVE FALSE
    OBVIOUS
  <1>1. PICK n \in Nat \ T : \A m \in Nat \ T : n <= m
    BY LeastOf
  <1>2. n # 0 /\ n - 1 \in Nat /\ ~(n <= n - 1)
    BY <1>1
  <1>3. n - 1 \in T
    BY <1>1, <1>2
  <1> QED
    BY <1>1, <1>2, <1>3

(* A recursive function along a sequence exists, whatever its step.         *)
Iterable(V, v, len, step) ==
    \E f \in [0..len -> V] : f[0] = v /\ \A i \in 1..len : f[i] = step[i][f[i - 1]]

LEMMA Iterated ==
  ASSUME NEW V, NEW v \in V, NEW len \in Nat, NEW step \in [1..len -> [V -> V]]
  PROVE  Iterable(V, v, len, step)
  <1> DEFINE upto(n) == {f \in [0..n -> V] :
                            f[0] = v /\ \A i \in 1..n : f[i] = step[i][f[i - 1]]}
             T == {n \in Nat : n <= len => upto(n) # {}}
  <1>1. 0 \in T
    <2>1. [i \in 0..0 |-> v] \in upto(0)
      OBVIOUS
    <2> HIDE DEF upto
    <2> QED  BY <2>1
  <1>2. ASSUME NEW n \in Nat, n \in T PROVE n + 1 \in T
    <2> SUFFICES ASSUME n + 1 <= len PROVE upto(n + 1) # {}
      <3> HIDE DEF upto
      <3> QED  OBVIOUS
    <2>1. PICK f \in [0..n -> V] : f[0] = v /\ \A i \in 1..n : f[i] = step[i][f[i - 1]]
      BY <1>2
    <2> DEFINE g == [i \in 0..(n + 1) |-> IF i = n + 1 THEN step[n + 1][f[n]] ELSE f[i]]
    <2>2. step[n + 1][f[n]] \in V
      BY <2>1
    <2>3. g \in [0..(n + 1) -> V] /\ g[0] = v
      BY <2>1, <2>2
    <2>4. ASSUME NEW i \in 1..(n + 1) PROVE g[i] = step[i][g[i - 1]]
      <3>1. CASE i = n + 1
        <4>1. g[i - 1] = f[n] /\ g[i] = step[n + 1][f[n]]
          BY <3>1
        <4> QED  BY <3>1, <4>1
      <3>2. CASE i \in 1..n
        <4>1. g[i] = f[i] /\ g[i - 1] = f[i - 1]
          BY <3>2
        <4> QED  BY <2>1, <3>2, <4>1
      <3> QED  BY <3>1, <3>2
    <2> HIDE DEF g
    <2>5. g \in upto(n + 1)
      BY <2>3, <2>4
    <2> QED  BY <2>5
  <1>3. upto(len) # {}
    <2> HIDE DEF upto
    <2>1. Nat \subseteq T
      <3> HIDE DEF T
      <3> QED  BY <1>1, <1>2, AllOf
    <2> QED  BY <2>1
  <1> QED
    BY <1>3 DEF Iterable

-----------------------------------------------------------------------------
(* The evidence of the checks.  Of calls that ran one after another, any    *)
(* earlier one ended before any later one began.                            *)
LEMMA OneAfterAnother ==
  ASSUME NEW P, P \subseteq Nat, NEW start \in [P -> Int], NEW end \in [P -> Int],
         \A k \in P : start[k] <= end[k],
         \A j, k \in P : j < k /\ (\A m \in P : ~(j < m /\ m < k)) => end[j] < start[k]
  PROVE  \A j, k \in P : j < k => end[j] < start[k]
  <1> DEFINE T == {n \in Nat : \A j, k \in P : j < k /\ k <= n => end[j] < start[k]}
  <1>1. 0 \in T
    OBVIOUS
  <1>2. ASSUME NEW n \in Nat, n \in T PROVE n + 1 \in T
    <2> SUFFICES ASSUME NEW j \in P, NEW k \in P, j < k, k <= n + 1
                 PROVE  end[j] < start[k]
      OBVIOUS
    <2> DEFINE Q == {m \in P : m < k}
    <2>1. PICK p \in Q : \A m \in Q : m <= p
      <3>1. j \in Q
        OBVIOUS
      <3>2. Q \subseteq Nat
        OBVIOUS
      <3>3. k \in Nat /\ \A m \in Q : m <= k
        BY <3>2
      <3> HIDE DEF Q
      <3> QED  BY <3>1, <3>2, <3>3, GreatestOf
    <2>2. p \in P /\ p < k /\ \A m \in P : ~(p < m /\ m < k)
      BY <2>1
    <2>3. end[p] < start[k]
      BY <2>2
    <2>4. CASE j = p
      BY <2>3, <2>4
    <2>5. CASE j # p
      <3>1. j < p /\ p <= n
        BY <2>1, <2>2, <2>5
      <3>2. end[j] < start[p] /\ start[p] <= end[p]
        BY <1>2, <2>2, <3>1
      <3> QED  BY <2>2, <2>3, <3>2
    <2> QED  BY <2>4, <2>5
  <1>3. Nat \subseteq T
    <2> HIDE DEF T
    <2> QED  BY <1>1, <1>2, AllOf
  <1>4. ASSUME NEW j \in P, NEW k \in P, j < k PROVE end[j] < start[k]
    <2>1. k \in Nat /\ k <= k
      OBVIOUS
    <2>2. k \in T
      <3> HIDE DEF T
      <3> QED  BY <1>3, <2>1
    <2> QED  BY <1>4, <2>1, <2>2
  <1> QED
    BY <1>4

(* A time that the transcript may not have.                                 *)
HasTimes(c) == c.start \in Int \cup {None} /\ c.end \in Int \cup {None}

(* What the evidence says of the calls it is drawn from.                    *)
SaidOf(said, calls) ==
    LET ran   == {c \in calls : isCheck(c)}
        edits == {c \in calls : isTypedEdit(c)}
        LastOnes == {c \in ran : \A d \in ran : Or(d.end, 0) <= Or(c.end, 0)}
    IN  CASE said = "none" -> TRUE
          [] said = "tool-error" -> \A c \in LastOnes : c.status = "error"
          [] OTHER -> /\ \A c \in LastOnes : c.status = "ok"
                      /\ \E e \in edits : e.start # None /\ \A c \in ran : Or(c.end, 0) < e.start

LEMMA SaidOfTheLast ==
  ASSUME NEW s, NEW S, NEW calls \in Seq(S), None \notin Int, \A x \in S : HasTimes(x.call)
  PROVE  SaidOf(EvidenceIn(s, calls), {c.call : c \in Range(calls)})
  <1> DEFINE said == EvidenceIn(s, calls)
             all == {c.call : c \in Range(calls)}
             P == {k \in DOMAIN calls : isCheck(calls[k].call)}
             last == CHOOSE k \in P : \A j \in P : j <= k
             check == calls[last].call
             later == {k \in DOMAIN calls : k > last /\ calls[k].turn > calls[last].turn
                                              /\ isTypedEdit(calls[k].call)}
             start == [k \in P |-> calls[k].call.start]
             end == [k \in P |-> calls[k].call.end]
  <1>1. DOMAIN calls = 1..Len(calls) /\ Len(calls) \in Nat /\ \A k \in DOMAIN calls : calls[k] \in S
    BY LenProperties, ElementOfSeq
  <1>2. all = {calls[k].call : k \in DOMAIN calls}
    BY DEF Range
  <1> SUFFICES ASSUME said # "none" PROVE SaidOf(said, all)
    BY DEF SaidOf
  <1>3. /\ P # {} /\ \A k \in P : Timed(calls[k].call)
        /\ \A k \in DOMAIN calls : calls[k].call.status \in {"ok", "error"}
        /\ \A j, k \in P : j < k /\ (\A m \in P : ~(j < m /\ m < k)) =>
              ~(calls[k].call.start <= calls[j].call.end)
        /\ said = IF check.status = "error" THEN "tool-error" ELSE "edit-after-tool-success"
        /\ check.status # "error" =>
             later # {} /\ \A k \in later : Timed(calls[k].call) /\ ~(calls[k].call.start <= check.end)
    BY DEF EvidenceIn
  <1>4. last \in P /\ \A j \in P : j <= last
    <2>1. P \subseteq Nat /\ \A k \in P : k <= Len(calls)
      BY <1>1
    <2>2. \E k \in P : \A j \in P : j <= k
      <3> HIDE DEF P
      <3> QED  BY <1>1, <1>3, <2>1, GreatestOf
    <2> HIDE DEF P
    <2> QED  BY <2>2
  <1>5. \A k \in DOMAIN calls : Timed(calls[k].call) =>
            /\ calls[k].call.start \in Int /\ calls[k].call.end \in Int
            /\ calls[k].call.start <= calls[k].call.end
    BY <1>1 DEF HasTimes, Timed, Or
  <1>6. \A j, k \in P : j < k => end[j] < start[k]
    <2>1. P \subseteq Nat /\ start \in [P -> Int] /\ end \in [P -> Int]
          /\ \A k \in P : start[k] <= end[k]
      BY <1>1, <1>3, <1>5
    <2>2. \A j, k \in P : j < k /\ (\A m \in P : ~(j < m /\ m < k)) => end[j] < start[k]
      BY <1>3, <2>1
    <2> HIDE DEF P, start, end
    <2> QED  BY <2>1, <2>2, OneAfterAnother
  <1>7. \A k \in P : k # last => calls[k].call.end < check.end
    <2> SUFFICES ASSUME NEW k \in P, k # last PROVE calls[k].call.end < check.end
      OBVIOUS
    <2>1. k \in Nat /\ last \in Nat /\ k <= last
      BY <1>1, <1>4
    <2>2. end[k] < start[last] /\ end[k] = calls[k].call.end /\ start[last] = check.start
      <3> HIDE DEF last
      <3> QED  BY <1>4, <1>6, <2>1
    <2>3. /\ calls[k].call.end \in Int /\ check.start \in Int /\ check.end \in Int
          /\ check.start <= check.end
      <3> HIDE DEF last
      <3> QED  BY <1>3, <1>4, <1>5
    <2> HIDE DEF check, last, start, end, P
    <2> QED  BY <2>2, <2>3
  <1> DEFINE ran == {c \in all : isCheck(c)}
             Lasts == {c \in ran : \A d \in ran : Or(d.end, 0) <= Or(c.end, 0)}
  <1>8. ran = {calls[k].call : k \in P}
    BY <1>2
  <1>9. \A k \in P : calls[k].call.end \in Int /\ Or(calls[k].call.end, 0) = calls[k].call.end
    BY <1>3, <1>5 DEF Or
  <1>10. Lasts \subseteq {check}
    <2> SUFFICES ASSUME NEW c \in Lasts PROVE c = check
      OBVIOUS
    <2>1. PICK k \in P : c = calls[k].call
      BY <1>8
    <2>2. Or(check.end, 0) <= Or(c.end, 0)
      BY <1>4, <1>8
    <2>3. check.end <= calls[k].call.end
      BY <1>4, <1>9, <2>1, <2>2
    <2> HIDE DEF P, check, last
    <2>4. k = last \/ calls[k].call.end < check.end
      BY <1>7
    <2> QED  BY <1>4, <1>9, <2>1, <2>3, <2>4 DEF check
  <1>11. CASE check.status = "error"
    BY <1>3, <1>10, <1>11 DEF SaidOf
  <1>12. CASE check.status # "error"
    <2>1. check.status = "ok" /\ said = "edit-after-tool-success"
      BY <1>3, <1>4, <1>12
    <2>2. PICK k \in later : Timed(calls[k].call) /\ ~(calls[k].call.start <= check.end)
      BY <1>3, <1>12
    <2> DEFINE e == calls[k].call
    <2>3. e \in all /\ isTypedEdit(e)
      BY <1>2, <2>2
    <2>4. e.start \in Int /\ e.start # None /\ check.end \in Int /\ check.end < e.start
      BY <1>4, <1>5, <1>9, <2>2
    <2>5. \A c \in ran : Or(c.end, 0) < e.start
      <3> SUFFICES ASSUME NEW j \in P PROVE Or(calls[j].call.end, 0) < e.start
        BY <1>8
      <3>1. calls[j].call.end <= check.end
        <4>1. j = last \/ calls[j].call.end < check.end
          BY <1>7
        <4>2. calls[j].call.end \in Int /\ check.end \in Int
          BY <1>9, <2>4
        <4> HIDE DEF P, last
        <4> QED  BY <4>1, <4>2
      <3> HIDE DEF P, e, check, last
      <3> QED  BY <1>9, <2>4, <3>1
    <2> QED
      BY <1>10, <2>1, <2>3, <2>4, <2>5 DEF SaidOf
  <1> QED
    BY <1>11, <1>12

-----------------------------------------------------------------------------
(* The calls of a session, one after the other, are the calls of its turns. *)
ItemsOf(s) ==
    UNION {Range(CallsOf(s.turns[i], i, completeUsd(priceSessionTurn(s, s.turns[i])))) :
             i \in DOMAIN s.turns}

LEMMA CallsOfTurns ==
  ASSUME NEW s, NEW T, s.turns \in Seq(T), \A t \in T : t.calls \in Seq(Range(t.calls))
  PROVE  flattenCalls(s) \in Seq(ItemsOf(s))
  <1> DEFINE len == Len(s.turns)
             V == Seq(ItemsOf(s))
             start == <<>>
             piece(i) == CallsOf(s.turns[i], i, completeUsd(priceSessionTurn(s, s.turns[i])))
             Body(h, i) == IF i = 0 THEN start ELSE h[i - 1] \o piece(i)
             step == [i \in 1..len |-> [t \in V |-> t \o piece(i)]]
             F == CHOOSE h : h = [i \in 0..len |-> Body(h, i)]
  <1>1. start \in V /\ len \in Nat /\ DOMAIN s.turns = 1..len
    BY EmptySeq, LenProperties
  <1>2. flattenCalls(s) = F[len]
    BY DEF flattenCalls
  <1>3. ASSUME NEW i \in 1..len PROVE piece(i) \in V
    <2> DEFINE t == s.turns[i]
               usd == completeUsd(priceSessionTurn(s, t))
    <2>1. t \in T /\ t.calls \in Seq(Range(t.calls))
      BY ElementOfSeq
    <2>2. DOMAIN t.calls = 1..Len(t.calls) /\ Len(t.calls) \in Nat
      BY <2>1, LenProperties
    <2>3. piece(i) = [j \in 1..Len(t.calls) |-> piece(i)[j]]
      <3> HIDE DEF t, usd
      <3> SUFFICES CallsOf(t, i, usd) = [j \in 1..Len(t.calls) |-> CallsOf(t, i, usd)[j]]
        BY DEF t, usd
      <3> QED  BY <2>2 DEF CallsOf
    <2> HIDE DEF t, usd
    <2>4. piece(i) \in Seq(Range(piece(i)))
      <3> HIDE DEF piece
      <3> DEFINE p == piece(i)
                 n == Len(t.calls)
      <3>1. p = [j \in 1..n |-> p[j]] /\ n \in Nat
        BY <2>2, <2>3
      <3> HIDE DEF p, n
      <3>2. p \in [1..n -> Range(p)]
        <4>1. DOMAIN p = 1..n
          BY <3>1
        <4>2. \A j \in 1..n : p[j] \in Range(p)
          BY <4>1 DEF Range
        <4> QED  BY <3>1, <4>2
      <3>3. p \in Seq(Range(p))
        BY <3>1, <3>2, SeqDef
      <3> QED  BY <3>3 DEF p
    <2>5. Range(piece(i)) \subseteq ItemsOf(s)
      BY <1>1 DEF ItemsOf
    <2> HIDE DEF piece
    <2> QED  BY <2>4, <2>5, SeqMonotonic
  <1>4. ASSUME NEW i \in 1..len, NEW t \in V PROVE t \o piece(i) \in V
    <2> HIDE DEF piece
    <2> QED  BY <1>3, ConcatProperties
  <1> HIDE DEF len, V, start, piece
  <1>5. step \in [1..len -> [V -> V]]
    BY <1>4
  <1>6. PICK f \in [0..len -> V] : f[0] = start /\ \A i \in 1..len : f[i] = step[i][f[i - 1]]
    <2> HIDE DEF step, F
    <2>1. Iterable(V, start, len, step)
      BY <1>1, <1>5, Iterated, Zenon
    <2> QED  BY <2>1, Zenon DEF Iterable
  <1>7. ASSUME NEW i \in 1..len PROVE f[i] = f[i - 1] \o piece(i)
    <2>1. f[i - 1] \in V
      BY <1>1, <1>6
    <2> QED  BY <1>6, <2>1
  <1>8. f = [i \in 0..len |-> Body(f, i)]
    <2>1. ASSUME NEW i \in 0..len PROVE f[i] = Body(f, i)
      <3>1. CASE i = 0
        BY <1>6, <3>1
      <3>2. CASE i # 0
        <4>1. i \in 1..len
          BY <1>1, <3>2
        <4> QED  BY <1>7, <3>2, <4>1
      <3> QED  BY <3>1, <3>2
    <2> HIDE DEF Body
    <2> QED  BY <1>6, <2>1
  <1>9. F = [i \in 0..len |-> Body(F, i)]
    <2> HIDE DEF Body
    <2> QED  BY <1>8
  <1> HIDE DEF F
  <1>10. \A n \in Nat : n <= len => F[n] = f[n]
    <2> DEFINE N == {n \in Nat : n <= len => F[n] = f[n]}
    <2>1. 0 \in N
      BY <1>1, <1>6, <1>9
    <2>2. ASSUME NEW n \in Nat, n \in N PROVE n + 1 \in N
      <3> SUFFICES ASSUME n + 1 <= len PROVE F[n + 1] = f[n + 1]
        OBVIOUS
      <3>1. F[n] = f[n] /\ n + 1 \in 1..len /\ n + 1 \in 0..len /\ n + 1 # 0 /\ (n + 1) - 1 = n
        BY <1>1, <2>2
      <3>2. f[n + 1] = f[n] \o piece(n + 1)
        BY <1>7, <3>1
      <3>3. F[n + 1] = Body(F, n + 1)
        <4> HIDE DEF Body
        <4> QED  BY <1>9, <3>1
      <3> QED  BY <3>1, <3>2, <3>3
    <2>3. Nat \subseteq N
      <3> HIDE DEF N
      <3> QED  BY <2>1, <2>2, AllOf
    <2> QED  BY <2>3
  <1>11. F[len] \in V
    BY <1>1, <1>6, <1>10
  <1> QED
    BY <1>2, <1>11 DEF F, V

-----------------------------------------------------------------------------
(* Sums over finite sets.  What holds of a set once it holds of all that    *)
(* lack one member of it, holds of every finite set.                        *)
LEMMA BySize ==
  ASSUME NEW S, IsFiniteSet(S), NEW P,
         \A T \in SUBSET S : (\A x \in T : T \ {x} \in P) => T \in P
  PROVE  SUBSET S \subseteq P
  <1> DEFINE N == {n \in Nat : \A T \in SUBSET S : Cardinality(T) = n => T \in P}
  <1>1. \A T \in SUBSET S : IsFiniteSet(T) /\ Cardinality(T) \in Nat
    BY FS_Subset, FS_CardinalityType
  <1>2. 0 \in N
    <2> SUFFICES ASSUME NEW T \in SUBSET S, Cardinality(T) = 0 PROVE T \in P
      OBVIOUS
    <2>1. T = {}
      BY <1>1, FS_EmptySet
    <2> QED  BY <2>1
  <1>3. ASSUME NEW n \in Nat, n \in N PROVE n + 1 \in N
    <2> SUFFICES ASSUME NEW T \in SUBSET S, Cardinality(T) = n + 1 PROVE T \in P
      OBVIOUS
    <2>1. ASSUME NEW x \in T PROVE T \ {x} \in P
      <3>1. Cardinality(T \ {x}) = Cardinality(T) - 1
        BY <1>1, FS_RemoveElement
      <3>2. T \ {x} \in SUBSET S /\ Cardinality(T \ {x}) = n
        BY <3>1
      <3> QED  BY <1>3, <3>2
    <2> QED  BY <2>1
  <1>4. Nat \subseteq N
    <2> HIDE DEF N
    <2> QED  BY <1>2, <1>3, AllOf
  <1> QED
    BY <1>1, <1>4

(* The sum of T, from the sums of the sets with one member less.            *)
Chosen(T) == CHOOSE x \in T : TRUE
SumStep(f, h, T) == IF T = {} THEN 0 ELSE f[Chosen(T)] + h[T \ {Chosen(T)}]
Sums(f, S, g) == g \in [SUBSET S -> Int] /\ \A T \in SUBSET S : g[T] = SumStep(f, g, T)

LEMMA ChosenOne ==
  ASSUME NEW T, T # {}
  PROVE  Chosen(T) \in T
  BY DEF Chosen

LEMMA SumsExist ==
  ASSUME NEW f, NEW S, IsFiniteSet(S), \A x \in S : f[x] \in Int
  PROVE  \E g : Sums(f, S, g)
  <1> DEFINE Upto(g, n) == \A T \in SUBSET S : Cardinality(T) <= n => g[T] = SumStep(f, g, T)
             G == [SUBSET S -> Int]
             N == {n \in Nat : \E g \in G : Upto(g, n)}
  <1>1. \A T \in SUBSET S : IsFiniteSet(T) /\ Cardinality(T) \in Nat
    BY FS_Subset, FS_CardinalityType
  <1>2. 0 \in N
    <2> DEFINE g == [T \in SUBSET S |-> 0]
    <2>1. g \in G
      OBVIOUS
    <2>2. Upto(g, 0)
      <3> SUFFICES ASSUME NEW T \in SUBSET S, Cardinality(T) <= 0 PROVE g[T] = SumStep(f, g, T)
        OBVIOUS
      <3>1. T = {}
        BY <1>1, FS_EmptySet
      <3> QED  BY <3>1 DEF SumStep
    <2> HIDE DEF g, G, Upto
    <2> QED  BY <2>1, <2>2
  <1>3. ASSUME NEW n \in Nat, n \in N PROVE n + 1 \in N
    <2>1. PICK g \in G : Upto(g, n)
      BY <1>3
    <2> DEFINE h == [T \in SUBSET S |-> IF Cardinality(T) = n + 1 THEN SumStep(f, g, T) ELSE g[T]]
    <2>2. ASSUME NEW T \in SUBSET S, T # {}, Cardinality(T) <= n + 1
          PROVE  /\ T \ {Chosen(T)} \in SUBSET S /\ Chosen(T) \in S
                 /\ Cardinality(T \ {Chosen(T)}) <= n
                 /\ h[T \ {Chosen(T)}] = g[T \ {Chosen(T)}]
      <3>1. Chosen(T) \in T
        BY <2>2, ChosenOne
      <3>2. Cardinality(T \ {Chosen(T)}) = Cardinality(T) - 1
        BY <1>1, <3>1, FS_RemoveElement
      <3>3. T \ {Chosen(T)} \in SUBSET S /\ Cardinality(T) \in Nat
        BY <1>1
      <3> QED  BY <2>2, <3>1, <3>2, <3>3
    <2>3. \A T \in SUBSET S : Cardinality(T) <= n + 1 => SumStep(f, h, T) = SumStep(f, g, T)
      <3> HIDE DEF h
      <3> QED  BY <2>2 DEF SumStep
    <2>4. ASSUME NEW T \in SUBSET S PROVE SumStep(f, g, T) \in Int
      <3>1. CASE T = {}
        BY <3>1 DEF SumStep
      <3>2. CASE T # {}
        <4>1. Chosen(T) \in S /\ T \ {Chosen(T)} \in SUBSET S
          BY <3>2, ChosenOne
        <4>2. g[T \ {Chosen(T)}] \in Int /\ f[Chosen(T)] \in Int
          BY <4>1
        <4> QED  BY <3>2, <4>2 DEF SumStep
      <3> QED  BY <3>1, <3>2
    <2>5. h \in G
      BY <2>4
    <2>6. Upto(h, n + 1)
      <3> SUFFICES ASSUME NEW T \in SUBSET S, Cardinality(T) <= n + 1 PROVE h[T] = SumStep(f, h, T)
        OBVIOUS
      <3>1. CASE Cardinality(T) = n + 1
        BY <2>3, <3>1
      <3>2. CASE Cardinality(T) # n + 1
        <4>1. Cardinality(T) <= n
          BY <1>1, <3>2
        <4>2. g[T] = SumStep(f, g, T) /\ h[T] = g[T]
          BY <2>1, <3>2, <4>1
        <4> HIDE DEF h
        <4> QED  BY <2>3, <4>2
      <3> QED  BY <3>1, <3>2
    <2> HIDE DEF h, G, Upto
    <2> QED  BY <2>5, <2>6
  <1>4. Nat \subseteq N
    <2> HIDE DEF N
    <2> QED  BY <1>2, <1>3, AllOf
  <1>5. Cardinality(S) \in N
    BY <1>1, <1>4
  <1>6. PICK g \in G : Upto(g, Cardinality(S))
    <2> HIDE DEF G, Upto
    <2> QED  BY <1>5
  <1>7. \A T \in SUBSET S : Cardinality(T) <= Cardinality(S)
    BY FS_Subset
  <1> QED
    BY <1>6, <1>7 DEF Sums

(* The sum of a set does not depend on what else could be summed.           *)
LEMMA SumsAgree ==
  ASSUME NEW f, NEW S, NEW g, IsFiniteSet(S), \A T \in SUBSET S : g[T] = SumStep(f, g, T),
         NEW e, NEW R, NEW h, R \subseteq S, \A T \in SUBSET R : h[T] = SumStep(e, h, T),
         \A x \in R : e[x] = f[x]
  PROVE  \A T \in SUBSET R : h[T] = g[T]
  <1> DEFINE P == {T \in SUBSET R : h[T] = g[T]}
  <1>1. IsFiniteSet(R)
    BY FS_Subset
  <1>2. ASSUME NEW T \in SUBSET R, \A x \in T : T \ {x} \in P PROVE T \in P
    <2>1. T \in SUBSET S /\ h[T] = SumStep(e, h, T) /\ g[T] = SumStep(f, g, T)
      OBVIOUS
    <2>2. CASE T = {}
      BY <2>1, <2>2 DEF SumStep
    <2>3. CASE T # {}
      <3>1. Chosen(T) \in T
        BY <2>3, ChosenOne
      <3>2. h[T \ {Chosen(T)}] = g[T \ {Chosen(T)}] /\ e[Chosen(T)] = f[Chosen(T)]
        BY <1>2, <3>1
      <3> QED  BY <2>1, <2>3, <3>2 DEF SumStep
    <2> QED  BY <2>2, <2>3
  <1>3. SUBSET R \subseteq P
    <2> HIDE DEF P
    <2> QED  BY <1>1, <1>2, BySize
  <1> QED
    BY <1>3

LEMMA SumTable ==
  ASSUME NEW f, NEW S, IsFiniteSet(S), \A x \in S : f[x] \in Int
  PROVE  \E g : Sums(f, S, g) /\ SumOf(f, S) = g[S]
  <1> DEFINE Body(h, T) == IF T = {} THEN 0 ELSE LET x == CHOOSE x \in T : TRUE IN f[x] + h[T \ {x}]
             F == CHOOSE h : h = [T \in SUBSET S |-> Body(h, T)]
  <1>1. SumOf(f, S) = F[S]
    BY DEF SumOf
  <1>2. PICK g : Sums(f, S, g)
    BY SumsExist
  <1>3. \A h : \A T : Body(h, T) = SumStep(f, h, T)
    BY DEF SumStep, Chosen
  <1> HIDE DEF Body
  <1>4. g = [T \in SUBSET S |-> Body(g, T)]
    BY <1>2, <1>3 DEF Sums
  <1>5. F = [T \in SUBSET S |-> Body(F, T)]
    BY <1>4
  <1> HIDE DEF F
  <1>6. \A T \in SUBSET S : F[T] = SumStep(f, F, T)
    BY <1>3, <1>5
  <1>7. \A T \in SUBSET S : g[T] = SumStep(f, g, T)
    BY <1>2 DEF Sums
  <1>8. F[S] = g[S]
    BY <1>6, <1>7, SumsAgree
  <1> QED
    BY <1>1, <1>2, <1>8

(* Of the sums of a table, any member may be the last to be added.          *)
LEMMA SumsAnother ==
  ASSUME NEW f, NEW S, IsFiniteSet(S), \A x \in S : f[x] \in Int, NEW g, Sums(f, S, g)
  PROVE  \A T \in SUBSET S : \A x \in T : g[T] = f[x] + g[T \ {x}]
  <1> DEFINE P == {T \in SUBSET S : \A x \in T : g[T] = f[x] + g[T \ {x}]}
  <1>1. \A T \in SUBSET S : g[T] \in Int /\ g[T] = SumStep(f, g, T)
    BY DEF Sums
  <1>2. ASSUME NEW T \in SUBSET S, \A x \in T : T \ {x} \in P PROVE T \in P
    <2> SUFFICES ASSUME NEW x \in T PROVE g[T] = f[x] + g[T \ {x}]
      OBVIOUS
    <2> DEFINE y == Chosen(T)
    <2>1. y \in T /\ g[T] = f[y] + g[T \ {y}]
      BY <1>1, ChosenOne DEF SumStep
    <2> HIDE DEF y
    <2>2. CASE x = y
      BY <2>1, <2>2
    <2>3. CASE x # y
      <3>1. /\ x \in T \ {y} /\ y \in T \ {x} /\ (T \ {y}) \ {x} = (T \ {x}) \ {y}
            /\ (T \ {y}) \ {x} \in SUBSET S
        BY <2>1, <2>3
      <3>2. g[T \ {y}] = f[x] + g[(T \ {y}) \ {x}]
        BY <1>2, <2>1, <3>1
      <3>3. g[T \ {x}] = f[y] + g[(T \ {x}) \ {y}]
        BY <1>2, <3>1
      <3>4. f[x] \in Int /\ f[y] \in Int /\ g[(T \ {y}) \ {x}] \in Int
        BY <1>1, <2>1, <3>1
      <3>5. g[T \ {x}] = f[y] + g[(T \ {y}) \ {x}]
        BY <3>1, <3>3
      <3> DEFINE a == f[x]
                 b == f[y]
                 c == g[(T \ {y}) \ {x}]
      <3>6. a \in Int /\ b \in Int /\ c \in Int /\ g[T] = b + (a + c) /\ g[T \ {x}] = b + c
        BY <2>1, <3>2, <3>4, <3>5
      <3> SUFFICES g[T] = a + g[T \ {x}]
        OBVIOUS
      <3> HIDE DEF a, b, c
      <3> QED  BY <3>6
    <2> QED  BY <2>2, <2>3
  <1>3. SUBSET S \subseteq P
    <2> HIDE DEF P
    <2> QED  BY <1>2, BySize
  <1> QED
    BY <1>3

(* A sum over a set: a number; nothing for the empty set; with one member   *)
(* more, that much more; and the same for the same summands.                *)
LEMMA SumOfNone == \A f : SumOf(f, {}) = 0
  <1> SUFFICES ASSUME NEW f PROVE SumOf(f, {}) = 0
    OBVIOUS
  <1>1. PICK g : Sums(f, {}, g) /\ SumOf(f, {}) = g[{}]
    BY SumTable, FS_EmptySet
  <1> QED
    BY <1>1 DEF Sums, SumStep

LEMMA SumOfSame ==
  ASSUME NEW f, NEW S, IsFiniteSet(S), \A x \in S : f[x] \in Int,
         NEW e, \A x \in S : e[x] = f[x]
  PROVE  SumOf(e, S) = SumOf(f, S)
  <1>1. PICK g : Sums(f, S, g) /\ SumOf(f, S) = g[S]
    BY SumTable
  <1>2. PICK h : Sums(e, S, h) /\ SumOf(e, S) = h[S]
    BY SumTable
  <1>3. /\ \A T \in SUBSET S : g[T] = SumStep(f, g, T)
        /\ \A T \in SUBSET S : h[T] = SumStep(e, h, T)
    BY <1>1, <1>2 DEF Sums
  <1>4. h[S] = g[S]
    BY <1>3, SumsAgree
  <1> QED
    BY <1>1, <1>2, <1>4

LEMMA SumOfFacts ==
  ASSUME NEW f, NEW S, IsFiniteSet(S), \A x \in S : f[x] \in Int
  PROVE  /\ SumOf(f, S) \in Int
         /\ \A x \in S : SumOf(f, S) = f[x] + SumOf(f, S \ {x})
  <1>1. PICK g : Sums(f, S, g) /\ SumOf(f, S) = g[S]
    BY SumTable
  <1>2. SumOf(f, S) \in Int
    BY <1>1 DEF Sums
  <1>3. ASSUME NEW x \in S PROVE SumOf(f, S) = f[x] + SumOf(f, S \ {x})
    <2> DEFINE R == S \ {x}
    <2>1. R \subseteq S /\ IsFiniteSet(R)
      BY FS_Subset
    <2>2. PICK h : Sums(f, R, h) /\ SumOf(f, R) = h[R]
      BY <2>1, SumTable
    <2>3. /\ \A T \in SUBSET S : g[T] = SumStep(f, g, T)
          /\ \A T \in SUBSET R : h[T] = SumStep(f, h, T)
      BY <1>1, <2>2 DEF Sums
    <2>4. h[R] = g[R]
      <3> HIDE DEF R
      <3> QED  BY <2>1, <2>3, SumsAgree
    <2>5. g[S] = f[x] + g[R]
      BY <1>1, SumsAnother
    <2> QED  BY <1>1, <2>2, <2>4, <2>5
  <1> QED
    BY <1>2, <1>3

(* The sum along a sequence is the sum over its places.                     *)
LEMMA SumSteps ==
  ASSUME NEW s \in Seq(Int)
  PROVE  \E f \in [0..Len(s) -> Int] :
            f[0] = 0 /\ Sum(s) = f[Len(s)] /\ \A i \in 1..Len(s) : f[i] = f[i - 1] + s[i]
  <1> DEFINE len == Len(s)
             Body(h, i) == IF i = 0 THEN 0 ELSE h[i - 1] + s[i]
             step == [i \in 1..len |-> [t \in Int |-> t + s[i]]]
             F == CHOOSE h : h = [i \in 0..len |-> Body(h, i)]
  <1>1. len \in Nat /\ \A i \in 1..len : s[i] \in Int
    BY LenProperties, ElementOfSeq
  <1>2. Sum(s) = F[len]
    BY DEF Sum
  <1> HIDE DEF len
  <1>3. step \in [1..len -> [Int -> Int]]
    BY <1>1
  <1>4. PICK f \in [0..len -> Int] : f[0] = 0 /\ \A i \in 1..len : f[i] = step[i][f[i - 1]]
    <2> HIDE DEF step, F
    <2>1. 0 \in Int
      OBVIOUS
    <2>2. Iterable(Int, 0, len, step)
      BY <1>1, <1>3, <2>1, Iterated, Zenon
    <2> QED  BY <2>2, Zenon DEF Iterable
  <1>5. ASSUME NEW i \in 1..len PROVE f[i] = f[i - 1] + s[i]
    <2>1. f[i - 1] \in Int
      BY <1>1, <1>4
    <2> QED  BY <1>4, <2>1
  <1>6. f = [i \in 0..len |-> Body(f, i)]
    <2>1. ASSUME NEW i \in 0..len PROVE f[i] = Body(f, i)
      <3>1. CASE i = 0
        BY <1>4, <3>1
      <3>2. CASE i # 0
        BY <1>1, <1>5, <3>2
      <3> QED  BY <3>1, <3>2
    <2> HIDE DEF Body
    <2> QED  BY <1>4, <2>1
  <1>7. F = [i \in 0..len |-> Body(F, i)]
    <2> HIDE DEF Body
    <2> QED  BY <1>6
  <1> HIDE DEF F
  <1>8. \A n \in Nat : n <= len => F[n] = f[n]
    <2> DEFINE N == {n \in Nat : n <= len => F[n] = f[n]}
    <2>1. 0 \in N
      BY <1>1, <1>4, <1>7
    <2>2. ASSUME NEW n \in Nat, n \in N PROVE n + 1 \in N
      <3> SUFFICES ASSUME n + 1 <= len PROVE F[n + 1] = f[n + 1]
        OBVIOUS
      <3>1. F[n] = f[n] /\ n + 1 \in 1..len /\ n + 1 \in 0..len /\ n + 1 # 0 /\ (n + 1) - 1 = n
        BY <1>1, <2>2
      <3>2. f[n + 1] = f[n] + s[n + 1]
        BY <1>5, <3>1
      <3>3. F[n + 1] = F[n] + s[n + 1]
        BY <1>7, <3>1
      <3> QED  BY <3>1, <3>2, <3>3
    <2>3. Nat \subseteq N
      <3> HIDE DEF N
      <3> QED  BY <2>1, <2>2, AllOf
    <2> QED  BY <2>3
  <1>9. Sum(s) = f[len]
    BY <1>1, <1>2, <1>8 DEF F
  <1>10. f \in [0..len -> Int] /\ f[0] = 0 /\ \A i \in 1..len : f[i] = f[i - 1] + s[i]
    BY <1>4, <1>5
  <1> QED
    BY <1>9, <1>10 DEF len

LEMMA SumIsSumOf ==
  ASSUME NEW s \in Seq(Int)
  PROVE  Sum(s) = SumOf(s, 1..Len(s))
  <1>1. PICK f \in [0..Len(s) -> Int] :
            f[0] = 0 /\ Sum(s) = f[Len(s)] /\ \A i \in 1..Len(s) : f[i] = f[i - 1] + s[i]
    BY SumSteps
  <1> DEFINE len == Len(s)
             N == {n \in Nat : n <= len => f[n] = SumOf(s, 1..n)}
  <1>2. len \in Nat /\ \A i \in 1..len : s[i] \in Int
    BY LenProperties, ElementOfSeq
  <1> HIDE DEF len
  <1>3. 0 \in N
    <2>1. 1..0 = {}
      OBVIOUS
    <2> QED  BY <1>1, <2>1, SumOfNone
  <1>4. ASSUME NEW n \in Nat, n \in N PROVE n + 1 \in N
    <2> SUFFICES ASSUME n + 1 <= len PROVE f[n + 1] = SumOf(s, 1..(n + 1))
      OBVIOUS
    <2> DEFINE S == 1..(n + 1)
    <2>1. n + 1 \in S /\ S \ {n + 1} = 1..n /\ \A x \in S : s[x] \in Int
      BY <1>2
    <2>5. IsFiniteSet(S)
      BY FS_Interval
    <2>2. SumOf(s, S) = s[n + 1] + SumOf(s, 1..n)
      <3> HIDE DEF S
      <3> QED  BY <2>1, <2>5, SumOfFacts
    <2>3. f[n] = SumOf(s, 1..n) /\ n + 1 \in 1..Len(s) /\ (n + 1) - 1 = n
      BY <1>2, <1>4 DEF len
    <2>4. f[n + 1] = f[n] + s[n + 1] /\ f[n] \in Int /\ s[n + 1] \in Int
      BY <1>1, <1>2, <2>3 DEF len
    <2> QED  BY <2>2, <2>3, <2>4
  <1>5. Nat \subseteq N
    <2> HIDE DEF N
    <2> QED  BY <1>3, <1>4, AllOf
  <1>6. f[len] = SumOf(s, 1..len)
    BY <1>2, <1>5
  <1> QED
    BY <1>1, <1>6 DEF len

(* Sums of numbers that are not negative, and of differences.               *)
LEMMA SumOfNat ==
  ASSUME NEW f, NEW S, IsFiniteSet(S), \A x \in S : f[x] \in Nat
  PROVE  SumOf(f, S) \in Nat
  <1> DEFINE P == {T \in SUBSET S : SumOf(f, T) \in Nat}
  <1>1. ASSUME NEW T \in SUBSET S, \A x \in T : T \ {x} \in P PROVE T \in P
    <2>1. CASE T = {}
      BY <2>1, SumOfNone
    <2>2. CASE T # {}
      <3>1. PICK x \in T : TRUE
        BY <2>2
      <3>2. IsFiniteSet(T) /\ \A y \in T : f[y] \in Int
        BY FS_Subset
      <3>3. SumOf(f, T) = f[x] + SumOf(f, T \ {x})
        BY <3>2, SumOfFacts
      <3>4. f[x] \in Nat /\ SumOf(f, T \ {x}) \in Nat
        BY <1>1
      <3> QED  BY <3>3, <3>4
    <2> QED  BY <2>1, <2>2
  <1>2. SUBSET S \subseteq P
    <2> HIDE DEF P
    <2> QED  BY <1>1, BySize
  <1> QED
    BY <1>2

LEMMA SumOfDifferences ==
  ASSUME NEW f, NEW g, NEW h, NEW S, IsFiniteSet(S),
         \A x \in S : f[x] \in Int /\ g[x] \in Int /\ h[x] = f[x] - g[x]
  PROVE  SumOf(h, S) = SumOf(f, S) - SumOf(g, S)
  <1> DEFINE P == {T \in SUBSET S : SumOf(h, T) = SumOf(f, T) - SumOf(g, T)}
  <1>1. ASSUME NEW T \in SUBSET S, \A x \in T : T \ {x} \in P PROVE T \in P
    <2>1. CASE T = {}
      BY <2>1, SumOfNone
    <2>2. CASE T # {}
      <3>1. PICK x \in T : TRUE
        BY <2>2
      <3>2. IsFiniteSet(T) /\ IsFiniteSet(T \ {x})
            /\ \A y \in T : f[y] \in Int /\ g[y] \in Int /\ h[y] \in Int
        BY FS_Subset
      <3> DEFINE R == T \ {x}
      <3>3. SumOf(f, T) = f[x] + SumOf(f, R) /\ SumOf(f, R) \in Int
        BY <3>2, SumOfFacts
      <3>4. SumOf(g, T) = g[x] + SumOf(g, R) /\ SumOf(g, R) \in Int
        BY <3>2, SumOfFacts
      <3>5. SumOf(h, T) = h[x] + SumOf(h, R)
        BY <3>2, SumOfFacts
      <3>6. SumOf(h, R) = SumOf(f, R) - SumOf(g, R) /\ h[x] = f[x] - g[x]
            /\ f[x] \in Int /\ g[x] \in Int
        BY <1>1
      <3> HIDE DEF R
      <3> SUFFICES SumOf(h, T) = SumOf(f, T) - SumOf(g, T)
        OBVIOUS
      <3> QED  BY <3>3, <3>4, <3>5, <3>6
    <2> QED  BY <2>1, <2>2
  <1>2. SUBSET S \subseteq P
    <2> HIDE DEF P
    <2> QED  BY <1>1, BySize
  <1> QED
    BY <1>2

LEMMA ProductOfSum ==
  ASSUME NEW a \in Int, NEW b \in Int, NEW u \in Int
  PROVE  (a + b) * u = a * u + b * u /\ a * u \in Int /\ b * u \in Int
  OBVIOUS

(* What is shown of every summand together is no more than the sum.         *)
LEMMA SumOfFloors ==
  ASSUME NEW f, NEW g, NEW u \in Nat, NEW S, IsFiniteSet(S),
         \A x \in S : f[x] \in Int /\ g[x] \in Int /\ g[x] * u <= f[x]
  PROVE  SumOf(g, S) * u <= SumOf(f, S)
  <1> DEFINE P == {T \in SUBSET S : SumOf(g, T) * u <= SumOf(f, T)}
  <1>1. ASSUME NEW T \in SUBSET S, \A x \in T : T \ {x} \in P PROVE T \in P
    <2>1. CASE T = {}
      <3>1. SumOf(f, T) = 0 /\ SumOf(g, T) = 0
        BY <2>1, SumOfNone
      <3> QED  BY <3>1
    <2>2. CASE T # {}
      <3>1. PICK x \in T : TRUE
        BY <2>2
      <3>2. IsFiniteSet(T) /\ IsFiniteSet(T \ {x}) /\ \A y \in T : f[y] \in Int /\ g[y] \in Int
        BY FS_Subset
      <3> DEFINE R == T \ {x}
                 a == g[x]
                 b == SumOf(g, R)
                 c == SumOf(f, R)
                 v == f[x]
      <3>3. SumOf(f, T) = v + c /\ c \in Int
        BY <3>2, SumOfFacts
      <3>4. SumOf(g, T) = a + b /\ b \in Int
        BY <3>2, SumOfFacts
      <3>5. b * u <= c /\ a * u <= v /\ a \in Int /\ v \in Int
        BY <1>1
      <3> SUFFICES SumOf(g, T) * u <= SumOf(f, T)
        OBVIOUS
      <3> HIDE DEF a, b, c, v
      <3>6. (a + b) * u = a * u + b * u /\ a * u \in Int /\ b * u \in Int
        BY <3>4, <3>5, ProductOfSum
      <3> QED  BY <3>3, <3>4, <3>5, <3>6
    <2> QED  BY <2>1, <2>2
  <1>2. SUBSET S \subseteq P
    <2> HIDE DEF P
    <2> QED  BY <1>1, BySize
  <1> QED
    BY <1>2

-----------------------------------------------------------------------------
(* The ledger.  A printed unit is worth something, and rounding down is     *)
(* rounding to the largest multiple that is not above.                      *)
LEMMA UnitIsPositive ==
  ASSUME NEW d \in 0..(Finest - 1)
  PROVE  Unit10(d) \in Nat \ {0}
  <1> DEFINE Body(h, n) == IF n = 0 THEN 1 ELSE 10 * h[n - 1]
             step == [i \in 1..Finest |-> [t \in Nat \ {0} |-> 10 * t]]
             F == CHOOSE h : h = [n \in 0..Finest |-> Body(h, n)]
  <1>1. Finest \in Nat /\ Finest - d \in 0..Finest
    BY ReceiptModelAssumption
  <1>2. Unit10(d) = F[Finest - d]
    BY DEF Unit10
  <1>3. step \in [1..Finest -> [Nat \ {0} -> Nat \ {0}]]
    OBVIOUS
  <1>4. PICK f \in [0..Finest -> Nat \ {0}] :
            f[0] = 1 /\ \A i \in 1..Finest : f[i] = step[i][f[i - 1]]
    <2> DEFINE V == Nat \ {0}
    <2>1. 1 \in V
      OBVIOUS
    <2> HIDE DEF step, F, V
    <2>2. Iterable(V, 1, Finest, step)
      BY <1>1, <1>3, <2>1, Iterated, Zenon DEF V
    <2> QED  BY <2>2, Zenon DEF Iterable, V
  <1>5. ASSUME NEW i \in 1..Finest PROVE f[i] = 10 * f[i - 1]
    <2>1. f[i - 1] \in Nat \ {0}
      BY <1>1, <1>4
    <2> QED  BY <1>4, <2>1
  <1>6. f = [n \in 0..Finest |-> Body(f, n)]
    <2>1. ASSUME NEW n \in 0..Finest PROVE f[n] = Body(f, n)
      <3>1. CASE n = 0
        BY <1>4, <3>1
      <3>2. CASE n # 0
        BY <1>1, <1>5, <3>2
      <3> QED  BY <3>1, <3>2
    <2> HIDE DEF Body
    <2> QED  BY <1>4, <2>1
  <1>7. F = [n \in 0..Finest |-> Body(F, n)]
    <2> HIDE DEF Body
    <2> QED  BY <1>6
  <1> HIDE DEF F
  <1>8. \A n \in Nat : n <= Finest => F[n] \in Nat \ {0}
    <2> DEFINE N == {n \in Nat : n <= Finest => F[n] \in Nat \ {0}}
    <2>1. 0 \in N
      BY <1>1, <1>7
    <2>2. ASSUME NEW n \in Nat, n \in N PROVE n + 1 \in N
      <3> SUFFICES ASSUME n + 1 <= Finest PROVE F[n + 1] \in Nat \ {0}
        OBVIOUS
      <3>1. F[n] \in Nat \ {0} /\ n + 1 \in 0..Finest /\ n + 1 # 0 /\ (n + 1) - 1 = n
        BY <1>1, <2>2
      <3>2. F[n + 1] = 10 * F[n]
        BY <1>7, <3>1
      <3> QED  BY <3>1, <3>2
    <2>3. Nat \subseteq N
      <3> HIDE DEF N
      <3> QED  BY <2>1, <2>2, AllOf
    <2> QED  BY <2>3
  <1> QED
    BY <1>1, <1>2, <1>8

LEMMA FloorFacts ==
  ASSUME NEW n \in Nat, NEW u \in Nat \ {0}
  PROVE  /\ n \div u \in Nat /\ (n \div u) * u <= n
         /\ \A m \in Nat : m * u <= n => m <= n \div u
  OBVIOUS

LEMMA SmallestOfTwo ==
  ASSUME NEW a \in Int, NEW b \in Int
  PROVE  Smallest({a, b}) = IF a <= b THEN a ELSE b
  <1>1. CASE a <= b
    <2>1. \A y \in {a, b} : a <= y
      BY <1>1
    <2>2. Smallest({a, b}) \in {a, b} /\ \A y \in {a, b} : Smallest({a, b}) <= y
      BY <2>1 DEF Smallest
    <2> QED  BY <1>1, <2>2
  <1>2. CASE ~(a <= b)
    <2>1. \A y \in {a, b} : b <= y
      BY <1>2
    <2>2. Smallest({a, b}) \in {a, b} /\ \A y \in {a, b} : Smallest({a, b}) <= y
      BY <2>1 DEF Smallest
    <2> QED  BY <1>2, <2>2
  <1> QED
    BY <1>1, <1>2

(* The rows of a ledger, by their places, and one that is shown last.       *)
AreRows(places, units) == IsFiniteSet(places) /\ places \subseteq Nat /\ units \in [places -> Nat]

LEMMA LastShown ==
  ASSUME NEW places, NEW units, AreRows(places, units),
         NEW S, S \subseteq places, S # {}
  PROVE  \E m \in S : \A j \in S \ {m} : j \in ShownFirst(units, m)
  <1>0. IsFiniteSet(places) /\ places \subseteq Nat /\ units \in [places -> Nat]
    BY DEF AreRows
  <1> DEFINE Last(T, m) == \A j \in T \ {m} : j \in ShownFirst(units, m)
             P == {T \in SUBSET places : T # {} => \E m \in T : Last(T, m)}
  <1>1. ASSUME NEW T \in SUBSET places, \A x \in T : T \ {x} \in P PROVE T \in P
    <2> SUFFICES ASSUME T # {} PROVE \E m \in T : Last(T, m)
      OBVIOUS
    <2>1. PICK x \in T : TRUE
      OBVIOUS
    <2> DEFINE R == T \ {x}
    <2>2. CASE R = {}
      <3>1. Last(T, x)
        BY <2>2
      <3> QED  BY <2>1, <3>1
    <2>3. CASE R # {}
      <3>1. PICK m \in R : Last(R, m)
        BY <1>1, <2>3
      <3>2. /\ m \in places /\ x \in places /\ x # m /\ DOMAIN units = places
            /\ \A i \in places : units[i] \in Nat
        BY <1>0, <3>1
      <3>3. CASE x \in ShownFirst(units, m)
        <4>1. Last(T, m)
          BY <3>1, <3>3
        <4> QED  BY <3>1, <4>1
      <3>4. CASE x \notin ShownFirst(units, m)
        <4>1. m \in ShownFirst(units, x)
          BY <1>0, <3>2, <3>4 DEF ShownFirst
        <4>2. ASSUME NEW j \in T \ {x} PROVE j \in ShownFirst(units, x)
          <5>1. CASE j = m
            BY <4>1, <5>1
          <5>2. CASE j # m
            <6>1. j \in ShownFirst(units, m) /\ j \in places
              BY <3>1, <5>2
            <6> QED  BY <1>0, <3>2, <4>1, <6>1 DEF ShownFirst
          <5> QED  BY <5>1, <5>2
        <4> QED  BY <4>2
      <3> QED  BY <3>3, <3>4
    <2> QED  BY <2>2, <2>3
  <1>2. SUBSET places \subseteq P
    <2> HIDE DEF P
    <2> QED  BY <1>0, <1>1, BySize
  <1> QED
    BY <1>2

(* What is taken from a row: what the rows shown before it left of the      *)
(* excess, as far as it goes.  Together, the rows lose the excess, or all.  *)
Taken(units, excess, i) ==
    LET left == excess - SumOf(units, ShownFirst(units, i))
    IN  IF left <= 0 THEN 0 ELSE Smallest({left, units[i]})

LEMMA TakenIsNat ==
  ASSUME NEW places, NEW units, AreRows(places, units),
         NEW excess \in Int, NEW i \in places
  PROVE  /\ IsFiniteSet(ShownFirst(units, i))
         /\ \A j \in ShownFirst(units, i) : units[j] \in Nat
         /\ Taken(units, excess, i) \in Nat /\ Taken(units, excess, i) <= units[i]
         /\ excess <= 0 => Taken(units, excess, i) = 0
  <1>1. ShownFirst(units, i) \subseteq places
    BY DEF ShownFirst, AreRows
  <1>2. IsFiniteSet(ShownFirst(units, i)) /\ \A j \in ShownFirst(units, i) : units[j] \in Nat
    BY <1>1, FS_Subset DEF AreRows
  <1>3. SumOf(units, ShownFirst(units, i)) \in Nat
    BY <1>2, SumOfNat
  <1> DEFINE left == excess - SumOf(units, ShownFirst(units, i))
  <1>4. left \in Int /\ units[i] \in Nat /\ (excess <= 0 => left <= 0)
    BY <1>3 DEF AreRows
  <1>5. Taken(units, excess, i) = IF left <= 0 THEN 0 ELSE Smallest({left, units[i]})
    BY DEF Taken
  <1> HIDE DEF left
  <1>6. Smallest({left, units[i]}) = IF left <= units[i] THEN left ELSE units[i]
    BY <1>4, SmallestOfTwo
  <1> QED
    BY <1>2, <1>4, <1>5, <1>6

LEMMA TakenTogether ==
  ASSUME NEW places, NEW units, AreRows(places, units),
         NEW excess \in Nat,
         NEW taken, \A i \in places : taken[i] = Taken(units, excess, i)
  PROVE  SumOf(taken, places) =
           IF excess <= SumOf(units, places) THEN excess ELSE SumOf(units, places)
  <1> DEFINE Segment(T) == \A i \in T : ShownFirst(units, i) \subseteq T
             All(T) == SumOf(taken, T) = IF excess <= SumOf(units, T) THEN excess ELSE SumOf(units, T)
             P == {T \in SUBSET places : \A S \in SUBSET T : Segment(S) => All(S)}
  <1>0. IsFiniteSet(places) /\ places \subseteq Nat /\ units \in [places -> Nat]
    BY DEF AreRows
  <1>1. \A i \in places : taken[i] \in Int /\ units[i] \in Nat
    BY <1>0, TakenIsNat
  <1>2. ASSUME NEW T \in SUBSET places, \A x \in T : T \ {x} \in P PROVE T \in P
    <2> SUFFICES ASSUME NEW S \in SUBSET T, Segment(S) PROVE All(S)
      OBVIOUS
    <2>1. CASE S = {}
      <3>1. SumOf(taken, S) = 0 /\ SumOf(units, S) = 0
        BY <2>1, SumOfNone
      <3> QED  BY <3>1
    <2>2. CASE S # {}
      <3>16. S \subseteq places
        OBVIOUS
      <3>1. PICK m \in S : \A j \in S \ {m} : j \in ShownFirst(units, m)
        <4> HIDE DEF Segment, All
        <4> QED  BY <2>2, <3>16, LastShown
      <3>2. m \in places /\ S \subseteq places
        OBVIOUS
      <3> DEFINE R == ShownFirst(units, m)
      <3>3. R \subseteq S /\ m \notin R
        <4>1. units[m] \in Nat
          BY <1>0, <3>2
        <4> QED  BY <1>0, <3>1, <3>2, <4>1 DEF ShownFirst
      <3>4. R = S \ {m}
        <4> HIDE DEF R
        <4> QED  BY <3>1, <3>3 DEF R
      <3>5. Segment(R)
        <4> SUFFICES ASSUME NEW i \in R, NEW j \in ShownFirst(units, i) PROVE j \in R
          OBVIOUS
        <4>1. i \in places /\ j \in places /\ j \in S
          BY <1>0, <3>2, <3>3 DEF ShownFirst
        <4>2. j # m
          <5> SUFFICES ASSUME j = m PROVE FALSE
            OBVIOUS
          <5>1. units[i] \in Nat /\ units[m] \in Nat
            BY <1>0, <3>2, <4>1
          <5> QED  BY <1>0, <3>2, <4>1, <5>1 DEF ShownFirst
        <4> QED  BY <3>4, <4>1, <4>2
      <3>6. All(R)
        <4>1. T \ {m} \in P /\ R \in SUBSET (T \ {m})
          BY <1>2, <3>4
        <4> HIDE DEF R, All, Segment
        <4> QED  BY <3>5, <4>1
      <3>7. IsFiniteSet(S)
        BY <1>0, <3>2, FS_Subset
      <3> DEFINE A == SumOf(units, R)
                 B == SumOf(taken, R)
                 left == excess - A
      <3>8. SumOf(taken, S) = taken[m] + B /\ SumOf(units, S) = units[m] + A
        <4>3. \A x \in S : taken[x] \in Int /\ units[x] \in Int
          BY <1>1, <3>2
        <4> HIDE DEF Segment, All
        <4>1. SumOf(taken, S) = taken[m] + SumOf(taken, S \ {m})
          BY <3>7, <4>3, SumOfFacts
        <4>2. SumOf(units, S) = units[m] + SumOf(units, S \ {m})
          BY <3>7, <4>3, SumOfFacts
        <4> QED  BY <3>4, <4>1, <4>2
      <3>9. A \in Nat
        <4>1. IsFiniteSet(R) /\ \A j \in R : units[j] \in Nat
          BY <3>2, TakenIsNat
        <4> HIDE DEF R
        <4> QED  BY <4>1, SumOfNat
      <3>10. taken[m] = IF left <= 0 THEN 0 ELSE Smallest({left, units[m]})
        BY <3>2 DEF Taken
      <3>11. B = IF excess <= A THEN excess ELSE A
        BY <3>6
      <3>12. left = excess - A /\ units[m] \in Nat
        BY <1>0, <3>2
      <3> HIDE DEF A, B, left, R
      <3>13. left \in Int
        BY <3>9, <3>12
      <3>14. Smallest({left, units[m]}) = IF left <= units[m] THEN left ELSE units[m]
        BY <3>12, <3>13, SmallestOfTwo
      <3>15. taken[m] + B = IF excess <= units[m] + A THEN excess ELSE units[m] + A
        BY <3>9, <3>10, <3>11, <3>12, <3>14
      <3> QED  BY <3>8, <3>15
    <2> QED  BY <2>1, <2>2
  <1>3. SUBSET places \subseteq P
    <2> HIDE DEF P
    <2> QED  BY <1>0, <1>2, BySize
  <1>4. Segment(places)
    BY <1>0 DEF ShownFirst
  <1> HIDE DEF Segment, All
  <1>5. All(places)
    BY <1>3, <1>4
  <1> QED
    BY <1>5 DEF All

(* The finest precision is always enough, so there is a first one that is.  *)
LEMMA EnoughDecimals ==
  ASSUME NEW values
  PROVE  \E i \in DOMAIN Decimals :
            usdFloorDecimals(values) = Decimals[i] /\ \A v \in values : EnoughFor(v, i)
  <1> DEFINE S == {i \in DOMAIN Decimals : \A v \in values : EnoughFor(v, i)}
             last == Len(Decimals)
  <1>1. DOMAIN Decimals = 1..last /\ last \in Nat /\ last > 1
    BY ReceiptModelAssumption, LenProperties
  <1>2. last \in S
    BY <1>1 DEF EnoughFor
  <1>3. S \subseteq Nat
    BY <1>1
  <1>4. usdFloorDecimals(values) = Decimals[Smallest(S)]
    BY DEF usdFloorDecimals
  <1> HIDE DEF S
  <1>5. Smallest(S) \in S
    <2>1. \E n \in S : \A m \in S : n <= m
      BY <1>2, <1>3, LeastOf
    <2> QED  BY <2>1 DEF Smallest
  <1> QED
    BY <1>4, <1>5 DEF S

(* The promise of a ledger, for any rows and any aggregate.                 *)
LedgerOf(values, raw, ledger) ==
    LET Shown(n) == n * Unit10(ledger.digits)
    IN  /\ ledger.total = Sum(ledger.amounts)
        /\ Shown(ledger.total) <= raw
        /\ \A i \in DOMAIN values : Shown(ledger.amounts[i]) <= values[i]
        /\ \A i \in DOMAIN values :
              values[i] >= Unit10(Decimals[Len(Decimals)]) /\ raw >= Sum(values)
                => ledger.amounts[i] > 0

LEMMA LedgerKeepsItsPromise ==
  ASSUME NEW values \in Seq(Nat), NEW raw \in Nat, None \notin Int
  PROVE  LedgerOf(values, raw, formatUsdFloorLedger(values, raw))
  <1> DEFINE n == Len(values)
             places == 1..n
             ledger == formatUsdFloorLedger(values, raw)
             shown == {values[i] : i \in DOMAIN values} \cup {raw}
             digits == usdFloorDecimals(shown)
             units == [i \in DOMAIN values |-> floorUsdUnits(values[i], digits)]
             floor == floorUsdUnits(raw, digits)
             excess == Sum(units) - floor
             taken == [i \in places |-> Taken(units, excess, i)]
             printed == [i \in places |-> units[i] - taken[i]]
             u == Unit10(digits)
  <1>1. DOMAIN values = places /\ n \in Nat /\ \A i \in places : values[i] \in Nat
    BY LenProperties, ElementOfSeq
  <1>0. IsFiniteSet(places) /\ places \subseteq Nat /\ places = 1..n
    BY FS_Interval
  <1> HIDE DEF places, n
  <1>2. PICK k \in DOMAIN Decimals : digits = Decimals[k] /\ \A v \in shown : EnoughFor(v, k)
    <2> HIDE DEF shown
    <2> QED  BY EnoughDecimals
  <1>3. u \in Nat \ {0}
    <2>1. Decimals[k] \in 0..(Finest - 1)
      BY ReceiptModelAssumption, LenProperties, ElementOfSeq
    <2> QED  BY <1>2, <2>1, UnitIsPositive
  <1>4. \A v \in Nat : floorUsdUnits(v, digits) = v \div u
    <2> SUFFICES ASSUME NEW v \in Nat PROVE floorUsdUnits(v, digits) = v \div u
      OBVIOUS
    <2>1. (IF v > 0 THEN v ELSE 0) = v
      OBVIOUS
    <2> HIDE DEF digits
    <2> QED  BY <2>1 DEF floorUsdUnits
  <1>5. \A i \in places : units[i] = values[i] \div u
    BY <1>1, <1>4
  <1>6. /\ \A i \in places : units[i] \in Nat /\ units[i] * u <= values[i]
        /\ \A i \in places : \A m \in Nat : m * u <= values[i] => m <= units[i]
    <2> HIDE DEF u, units
    <2> QED  BY <1>1, <1>3, <1>5, FloorFacts
  <1>20. \A i \in places : units[i] \in Nat
    <2> HIDE DEF u, units
    <2> QED  BY <1>6
  <1>7. /\ floor \in Nat /\ floor * u <= raw
        /\ \A m \in Nat : m * u <= raw => m <= floor
    <2>1. floor = raw \div u
      BY <1>4
    <2> HIDE DEF u, floor
    <2> QED  BY <1>3, <2>1, FloorFacts
  <1>8. units \in [places -> Nat] /\ units \in Seq(Int) /\ Len(units) = n
    <2>1. units = [i \in places |-> units[i]]
      BY <1>1
    <2> HIDE DEF units
    <2>2. units \in [places -> Nat] /\ units \in [places -> Int]
      BY <1>20, <2>1
    <2>3. units \in Seq(Int)
      BY <1>0, <1>1, <2>2, SeqDef
    <2> QED  BY <1>0, <1>1, <2>2, <2>3, LenProperties
  <1>22. AreRows(places, units)
    <2> HIDE DEF units
    <2> QED  BY <1>0, <1>8 DEF AreRows
  <1>9. Sum(units) = SumOf(units, places) /\ Sum(units) \in Nat /\ excess \in Int
    <2>1. IsFiniteSet(places)
      BY <1>0
    <2>2. SumOf(units, places) \in Nat
      <3> HIDE DEF units
      <3> QED  BY <1>6, <2>1, SumOfNat
    <2>3. Sum(units) = SumOf(units, places)
      <3> HIDE DEF units
      <3> QED  BY <1>0, <1>8, SumIsSumOf
    <2> QED  BY <1>7, <2>2, <2>3
  <1>10. ledger = [digits |-> digits, amounts |-> printed, total |-> Sum(printed)]
    <2> DEFINE Left(i) == excess - SumOf([j \in ShownFirst(units, i) |-> units[j]], ShownFirst(units, i))
               Removed(i) == IF Left(i) <= 0 THEN 0 ELSE Smallest({Left(i), units[i]})
               lessened == [i \in DOMAIN units |-> units[i] - Removed(i)]
    <2>1. raw # None
      BY <1>1
    <2>2. ledger = [digits |-> digits, amounts |-> lessened, total |-> Sum(lessened)]
      BY <2>1 DEF formatUsdFloorLedger
    <2>3. ASSUME NEW i \in places PROVE Removed(i) = taken[i]
      <3> DEFINE F == ShownFirst(units, i)
                 e == [j \in F |-> units[j]]
      <3>1. IsFiniteSet(F) /\ \A j \in F : units[j] \in Int
        <4>1. units \in [places -> Nat] /\ excess \in Int /\ i \in places
          BY <1>1, <1>8, <1>9
        <4> HIDE DEF units, excess
        <4>2. IsFiniteSet(ShownFirst(units, i)) /\ \A j \in ShownFirst(units, i) : units[j] \in Nat
          BY <1>22, <4>1, TakenIsNat
        <4> QED  BY <4>2
      <3>2. SumOf(e, F) = SumOf(units, F)
        <4>1. \A j \in F : e[j] = units[j]
          OBVIOUS
        <4> HIDE DEF e, F, units
        <4> QED  BY <3>1, <4>1, SumOfSame
      <3> HIDE DEF units, excess
      <3>3. taken[i] = Taken(units, excess, i)
        BY <2>3
      <3> QED  BY <3>2, <3>3 DEF Taken
    <2>4. lessened = printed
      <3>1. DOMAIN units = places
        BY <1>1
      <3> HIDE DEF units, Removed, taken
      <3> QED  BY <2>3, <3>1
    <2> HIDE DEF lessened, printed, digits
    <2> QED  BY <2>2, <2>4
  <1>11. \A i \in places : /\ taken[i] \in Nat /\ taken[i] <= units[i]
                           /\ excess <= 0 => taken[i] = 0
    <2> HIDE DEF units, excess
    <2> QED  BY <1>9, <1>22, TakenIsNat
  <1>21. \A i \in places : /\ printed[i] = units[i] - taken[i]
                           /\ units[i] \in Nat /\ taken[i] \in Nat /\ printed[i] \in Nat
                           /\ printed[i] <= units[i]
                           /\ excess <= 0 => printed[i] = units[i]
    <2>1. \A i \in places : printed[i] = units[i] - taken[i]
      <3> HIDE DEF units, taken
      <3> QED  OBVIOUS
    <2> HIDE DEF printed, units, taken, excess
    <2> QED  BY <1>11, <1>20, <2>1
  <1>12. printed \in Seq(Int) /\ Len(printed) = n /\ Sum(printed) = SumOf(printed, places)
    <2>1. printed = [j \in places |-> printed[j]]
      <3> HIDE DEF units, taken
      <3> QED  OBVIOUS
    <2> HIDE DEF printed, units, taken, excess
    <2>2. printed \in [places -> Int]
      BY <1>21, <2>1
    <2>3. printed \in Seq(Int)
      BY <1>0, <1>1, <2>2, SeqDef
    <2>4. Len(printed) = n
      BY <1>0, <1>1, <2>2, <2>3, LenProperties
    <2> QED  BY <1>0, <2>3, <2>4, SumIsSumOf
  <1>13. SumOf(printed, places) = SumOf(units, places) - SumOf(taken, places)
    <2>1. IsFiniteSet(places)
      BY <1>0
    <2> HIDE DEF printed, units, taken, excess
    <2>2. \A i \in places : units[i] \in Int /\ taken[i] \in Int /\ printed[i] = units[i] - taken[i]
      BY <1>21
    <2> QED  BY <2>1, <2>2, SumOfDifferences
  <1>14. Sum(printed) <= floor /\ Sum(printed) \in Nat
    <2>1. CASE excess <= 0
      <3>1. \A i \in places : printed[i] = units[i] /\ units[i] \in Int
        <4> HIDE DEF printed, units, taken, excess
        <4> QED  BY <1>21, <2>1
      <3>2. SumOf(printed, places) = SumOf(units, places)
        <4>1. IsFiniteSet(places)
          BY <1>0
        <4> HIDE DEF printed, units
        <4> QED  BY <3>1, <4>1, SumOfSame
      <3>3. Sum(units) - floor <= 0
        BY <2>1
      <3> HIDE DEF printed, units, floor
      <3> QED  BY <1>7, <1>9, <1>12, <3>2, <3>3
    <2>2. CASE ~(excess <= 0)
      <3>1. excess \in Nat /\ \A i \in places : taken[i] = Taken(units, excess, i)
        <4> HIDE DEF units, excess
        <4> QED  BY <1>9, <2>2
      <3>2. SumOf(taken, places) =
              IF excess <= SumOf(units, places) THEN excess ELSE SumOf(units, places)
        <4> HIDE DEF units, excess, taken
        <4> QED  BY <1>22, <3>1, TakenTogether
      <3>3. excess = Sum(units) - floor
        OBVIOUS
      <3> HIDE DEF printed, units, floor, excess, taken
      <3> QED  BY <1>7, <1>9, <1>12, <1>13, <3>1, <3>2, <3>3
    <2> QED  BY <2>1, <2>2
  <1>15. Sum(printed) * u <= raw
    <2>1. \A a, b, c \in Nat : a <= b => a * c <= b * c /\ a * c \in Nat /\ b * c \in Nat
      OBVIOUS
    <2> HIDE DEF printed, u, floor
    <2>2. Sum(printed) * u <= floor * u /\ Sum(printed) * u \in Nat /\ floor * u \in Nat
      BY <1>3, <1>7, <1>14, <2>1
    <2> QED  BY <1>7, <2>2
  <1>16. ASSUME NEW i \in places PROVE printed[i] * u <= values[i]
    <2>1. \A a, b, c \in Nat : a <= b => a * c <= b * c /\ a * c \in Nat /\ b * c \in Nat
      OBVIOUS
    <2> HIDE DEF printed, u, units, taken, excess
    <2>3. printed[i] \in Nat /\ printed[i] <= units[i] /\ units[i] \in Nat
      BY <1>21
    <2>4. printed[i] * u <= units[i] * u /\ printed[i] * u \in Nat /\ units[i] * u \in Nat
      BY <1>3, <2>1, <2>3
    <2> QED  BY <1>1, <1>6, <2>4
  <1>17. ASSUME NEW i \in places, values[i] >= Unit10(Decimals[Len(Decimals)]), raw >= Sum(values)
         PROVE  printed[i] > 0
    <2>1. excess <= 0
      <3>1. Sum(values) = SumOf(values, places) /\ Sum(values) \in Int
        <4>1. values \in Seq(Int) /\ IsFiniteSet(places)
          BY <1>0, SeqMonotonic
        <4>2. SumOf(values, places) \in Nat
          <5> HIDE DEF places
          <5> QED  BY <1>1, <4>1, SumOfNat
        <4> QED  BY <1>0, <4>1, <4>2, SumIsSumOf DEF n
      <3>2. SumOf(units, places) * u <= SumOf(values, places)
        <4>1. IsFiniteSet(places)
          BY <1>0
        <4> HIDE DEF units, u
        <4>2. \A x \in places : values[x] \in Int /\ units[x] \in Int /\ units[x] * u <= values[x]
          BY <1>1, <1>6
        <4> QED  BY <1>3, <4>1, <4>2, SumOfFloors
      <3>3. Sum(units) * u <= raw
        <4>1. \A a \in Nat : \A b \in Nat : a * b \in Nat
          OBVIOUS
        <4> HIDE DEF units, u
        <4>2. Sum(units) * u \in Nat
          BY <1>3, <1>9, <4>1
        <4> QED  BY <1>9, <1>17, <3>1, <3>2, <4>2
      <3>4. Sum(units) <= floor
        <4> HIDE DEF units, u, floor
        <4> QED  BY <1>7, <1>9, <3>3
      <3> HIDE DEF units, u, floor
      <3> QED  BY <1>7, <1>9, <3>4
    <2>2. printed[i] = units[i]
      <3> HIDE DEF printed, units, taken, excess
      <3> QED  BY <1>21, <2>1
    <2>3. units[i] > 0
      <3>1. EnoughFor(values[i], k)
        BY <1>1, <1>2
      <3>2. Unit10(Decimals[Len(Decimals)]) \in Nat \ {0}
        <4>1. Len(Decimals) \in 1..Len(Decimals)
          BY ReceiptModelAssumption, LenProperties
        <4>2. Decimals[Len(Decimals)] \in 0..(Finest - 1)
          BY <4>1, ReceiptModelAssumption, ElementOfSeq
        <4> QED  BY <4>2, UnitIsPositive
      <3>3. values[i] \in Nat /\ ~(values[i] <= 0)
        <4> HIDE DEF places
        <4> QED  BY <1>1, <1>17, <3>2
      <3>4. floorUsdUnits(values[i], Decimals[k]) > 0 \/ k = Len(Decimals)
        <4> HIDE DEF places
        <4> QED  BY <3>1, <3>3 DEF EnoughFor
      <3>5. CASE floorUsdUnits(values[i], Decimals[k]) > 0
        BY <1>1, <1>2, <3>5
      <3>6. CASE k = Len(Decimals)
        <4>1. u = Unit10(Decimals[Len(Decimals)])
          BY <1>2, <3>6
        <4> HIDE DEF units, u
        <4>2. 1 * u <= values[i]
          BY <1>3, <1>17, <3>3, <4>1
        <4>3. 1 <= units[i]
          BY <1>6, <4>2
        <4> QED  BY <1>6, <4>3
      <3> QED  BY <3>4, <3>5, <3>6
    <2> QED  BY <2>2, <2>3
  <1> HIDE DEF printed, ledger, u
  <1>18. ledger.total = Sum(printed) /\ ledger.amounts = printed /\ u = Unit10(ledger.digits)
    BY <1>10 DEF u
  <1>19. LedgerOf(values, raw, ledger)
    BY <1>1, <1>15, <1>16, <1>17, <1>18 DEF LedgerOf
  <1> QED
    BY <1>19 DEF ledger

-----------------------------------------------------------------------------
(* In every state the main session of a behaviour about checks is made of   *)
(* turns that the agents record, and the amounts to print are not negative. *)
Checks ==
    view = "checks" =>
        /\ view \in DOMAIN Views
        /\ "main" \in DOMAIN sessions /\ "turns" \in DOMAIN sessions["main"]
        /\ sessions["main"].turns \in Seq(Alphabet["checks"])

IInv == Checks /\ amounts \in Seq(Nat)

LEMMA ChecksKept == Checks /\ [Next]_vars => Checks'
  <1> SUFFICES ASSUME Checks, [Next]_vars, view' = "checks" PROVE Checks'
    BY DEF Checks
  <1>1. ASSUME NEW id \in Ids, NEW t \in Alphabet[view], Work(id, t) PROVE Checks'
    <2>1. view = "checks" /\ view \notin Commands
      BY <1>1 DEF Work, Commands
    <2>2. sessions' = [sessions EXCEPT ![id] = Grown(@, t)]
      BY <1>1, <2>1 DEF Work
    <2>3. CASE id = "main"
      <3> DEFINE s == sessions["main"]
                 g == Grown(s, t)
      <3>1. "turns" \in DOMAIN s /\ s.turns \in Seq(Alphabet["checks"]) /\ "main" \in DOMAIN sessions
        BY <2>1 DEF Checks
      <3>2. sessions' = [sessions EXCEPT !["main"] = g]
        BY <2>2, <2>3
      <3>3. sessions'["main"] = g /\ DOMAIN sessions' = DOMAIN sessions
        <4> HIDE DEF g
        <4> QED  BY <3>1, <3>2
      <3>4. g.turns = Append(s.turns, t) /\ DOMAIN g = DOMAIN s
        <4> HIDE DEF s
        <4> QED  BY <3>1 DEF Grown
      <3>5. Append(s.turns, t) \in Seq(Alphabet["checks"])
        BY <2>1, <3>1, AppendProperties
      <3>6. view \in DOMAIN Views /\ view' = view
        BY <1>1, <2>1 DEF Checks, Work
      <3>7. "turns" \in DOMAIN sessions'["main"]
            /\ sessions'["main"].turns \in Seq(Alphabet["checks"])
        <4> HIDE DEF s, g
        <4> QED  BY <3>1, <3>3, <3>4, <3>5
      <3> HIDE DEF s, g
      <3> QED  BY <3>1, <3>3, <3>6, <3>7 DEF Checks
    <2>4. CASE id # "main"
      <3>1. DOMAIN sessions' = DOMAIN sessions /\ sessions'["main"] = sessions["main"]
        BY <2>1, <2>2, <2>4 DEF Checks
      <3> QED  BY <2>1, <3>1 DEF Checks
    <2> QED  BY <2>3, <2>4
  <1>2. ASSUME NEW id \in Ids, Compact(id) PROVE Checks'
    <2> DEFINE c == Append(sessions[id].compactions, Len(sessions[id].turns) + 1)
    <2>1. view = "checks" /\ sessions' = [sessions EXCEPT ![id].compactions = c]
      BY <1>2 DEF Compact
    <2> HIDE DEF c
    <2>2. DOMAIN sessions' = DOMAIN sessions /\ DOMAIN sessions'["main"] = DOMAIN sessions["main"]
          /\ sessions'["main"].turns = sessions["main"].turns
      BY <2>1 DEF Checks
    <2> QED  BY <2>1, <2>2 DEF Checks
  <1>3. CASE UNCHANGED <<view, sessions>>
    BY <1>3 DEF Checks
  <1> QED
    BY <1>1, <1>2, <1>3
       DEF Next, vars, Toggle, Tick, Begin, listFullSessions, loadSession, Row

LEMMA Invariant == Spec => []IInv
  <1>1. Init => IInv
    BY CostsAssumption DEF Init, IInv, Checks
  <1>2. IInv /\ [Next]_vars => IInv'
    <2> SUFFICES ASSUME IInv, [Next]_vars PROVE IInv'
      OBVIOUS
    <2>1. Checks'
      BY ChecksKept DEF IInv
    <2>2. ASSUME NEW v \in Values, Row(v) PROVE amounts' \in Seq(Nat)
      <3>1. v \in Nat
        BY CostsAssumption
      <3>2. amounts' = Append(amounts, v) /\ amounts \in Seq(Nat)
        BY <2>2 DEF Row, IInv
      <3> QED  BY <3>1, <3>2, AppendProperties
    <2>3. ASSUME amounts' = amounts PROVE amounts' \in Seq(Nat)
      <3>1. amounts \in Seq(Nat)
        BY DEF IInv
      <3> QED  BY <2>3, <3>1, Zenon
    <2>4. amounts' \in Seq(Nat)
      <3>1. amounts' = amounts \/ \E v \in Values : Row(v)
        BY DEF Next, vars, Work, Compact, Toggle, Tick, Begin, listFullSessions, loadSession
      <3> QED  BY <2>2, <2>3, <3>1, Zenon
    <2> QED  BY <2>1, <2>4 DEF IInv
  <1> QED
    BY <1>1, <1>2, PTL DEF Spec

(* What a receipt says of the checks is true of the last of them in time,   *)
(* and files said to be edited after it were (EvidenceIsTheLast).           *)
THEOREM EvidenceOfTheLastCheck == Spec => []EvidenceIsTheLast
  <1>1. IInv => EvidenceIsTheLast
    <2> SUFFICES ASSUME IInv, view = "checks" PROVE EvidenceIsTheLast
      BY DEF EvidenceIsTheLast
    <2> DEFINE S == ItemsOf(Main)
               calls == flattenCalls(Main)
    <2>1. /\ None \notin Int /\ Main.turns \in Seq(Alphabet["checks"])
          /\ \A t \in Alphabet["checks"] :
                /\ t.calls \in Seq(Range(t.calls))
                /\ \A i \in DOMAIN t.calls : HasTimes(t.calls[i])
      BY CostsAssumption DEF IInv, Checks, Main, HasTimes
    <2>2. calls \in Seq(S)
      <3> HIDE DEF S, calls
      <3> QED  BY <2>1, CallsOfTurns DEF S, calls
    <2>3. ASSUME NEW x \in S PROVE HasTimes(x.call)
      <3>1. PICK i \in DOMAIN Main.turns :
              x \in Range(CallsOf(Main.turns[i], i, completeUsd(priceSessionTurn(Main, Main.turns[i]))))
        BY <2>3 DEF ItemsOf
      <3> DEFINE t == Main.turns[i]
                 usd == completeUsd(priceSessionTurn(Main, t))
      <3>2. t \in Alphabet["checks"]
        BY <2>1, LenProperties, ElementOfSeq
      <3>3. x \in Range(CallsOf(t, i, usd))
        BY <3>1
      <3> HIDE DEF t, usd
      <3>4. PICK j \in DOMAIN t.calls : x.call = t.calls[j]
        <4> DEFINE p == CallsOf(t, i, usd)
        <4>1. DOMAIN p = DOMAIN t.calls
          BY DEF CallsOf
        <4>2. \A j \in DOMAIN t.calls : p[j].call = t.calls[j]
          BY DEF CallsOf
        <4> HIDE DEF p
        <4>3. \E j \in DOMAIN p : x = p[j]
          BY <3>3 DEF Range, p
        <4> QED  BY <4>1, <4>2, <4>3
      <3> QED  BY <2>1, <3>2, <3>4
    <2>4. SaidOf(EvidenceIn(Main, calls), {c.call : c \in Range(calls)})
      <3> HIDE DEF S, calls
      <3> QED  BY <2>1, <2>2, <2>3, SaidOfTheLast
    <2> HIDE DEF S
    <2> QED  BY <2>4 DEF EvidenceIsTheLast, SaidOf, verificationEvidence
  <1> QED
    BY <1>1, Invariant, PTL

(* The printed amounts of a ledger are floors, of each row and of the       *)
(* aggregate however its sum was rounded; they add up to the printed total; *)
(* and no amount vanishes that the finest precision could show              *)
(* (LedgerNeverOverstates).                                                 *)
THEOREM LedgerIsAFloor == Spec => []LedgerNeverOverstates
  <1>1. IInv => LedgerNeverOverstates
    <2> SUFFICES ASSUME IInv,
                        NEW raw \in {Sum(amounts) - Residue, Sum(amounts), Sum(amounts) + Residue},
                        raw >= 0
                 PROVE  LedgerOf(amounts, raw, formatUsdFloorLedger(amounts, raw))
      BY DEF LedgerNeverOverstates, LedgerOf
    <2>1. amounts \in Seq(Nat) /\ amounts \in Seq(Int)
      BY SeqMonotonic DEF IInv
    <2>2. Sum(amounts) \in Int
      <3>1. IsFiniteSet(1..Len(amounts)) /\ \A i \in 1..Len(amounts) : amounts[i] \in Int
        BY <2>1, FS_Interval, LenProperties, ElementOfSeq
      <3> DEFINE places == 1..Len(amounts)
      <3> HIDE DEF places
      <3>2. SumOf(amounts, places) \in Int
        BY <3>1, SumOfFacts DEF places
      <3> QED  BY <2>1, <3>2, SumIsSumOf DEF places
    <2>3. raw \in Nat
      BY <2>2, ReceiptModelAssumption
    <2> QED  BY <2>1, <2>3, CostsAssumption, LedgerKeepsItsPromise
  <1> QED
    BY <1>1, Invariant, PTL
================================================================================
