-------------------------- MODULE TelemetryStateProofs --------------------------
(***************************************************************************)
(* Proofs about TelemetryState, for any number of processes, notes and     *)
(* hours.                                                                  *)
(*                                                                         *)
(* An install id settles once it is on disk and every copy in memory has   *)
(* it; each later copy is read from that file, and the copies are all that *)
(* is ever written (IdIsKept).  When notes follow one another the process  *)
(* of the current one has the file's body in memory, so what it finds due  *)
(* is what the file has not recorded, and the file records it before the   *)
(* process reports it (Following).                                         *)
(***************************************************************************)
EXTENDS TelemetryState, SequenceTheorems, WellFoundedInduction, TLAPS

Beat == [hour : Int, polls : Nat]
Body == [id : Nat, runs : Nat, receipts : Nat, flags : SUBSET Milestones, hour : Int, polls : Nat]
Copy == [body : Body, recovered : BOOLEAN, due : SUBSET Milestones, completed : Beat]
File == [kind : Kinds, body : Body]

TypeOK ==
    /\ file \in File
    /\ aside \in Seq(File)
    /\ clock \in Hours
    /\ pc \in [Procs -> {"idle", "read", "aside", "change", "land", "report"}]
    /\ op \in [Procs -> Ops]
    /\ began \in [Procs -> [note : Nat, hour : Hours]]
    /\ mem \in [Procs -> Copy]
    /\ notes \in Nat
    /\ meddled \in Seq(Outside)
    /\ fired \in [Milestones -> Nat]
    /\ beats \in Seq(Beat)
    /\ polled \in Nat
    /\ overlapped \in BOOLEAN

(* Nothing is in progress beside the note of p. *)
OneByOne == \A p, q \in Procs : pc[p] # "idle" /\ pc[q] # "idle" => p = q

Known ==
    /\ file.kind # "garbage"
    /\ file.kind = "absent" => file.body = freshState
    /\ \A p \in Procs : pc[p] # "aside"

(* What the copy of p has to do with the file, and with what was reported. *)
MilestonesFollow(p) ==
    LET m == mem[p]
    IN  /\ pc[p] = "change" => m.body.flags = file.body.flags /\ m.due = {}
        /\ pc[p] = "land" => /\ file.body.flags \subseteq m.body.flags
                             /\ m.due \subseteq m.body.flags \ file.body.flags
        /\ pc[p] = "report" => /\ m.due \subseteq file.body.flags
                               /\ \A x \in m.due : fired[x] = 0

(* The hours reported are over. *)
Over == \A i \in 1..Len(beats) : beats[i].hour < file.body.hour

HoursFollow(p) ==
    LET m == mem[p]
    IN  /\ pc[p] = "change" => /\ m.body.hour = file.body.hour /\ m.body.polls = file.body.polls
                               /\ m.completed = NoBeat
        /\ pc[p] = "land" =>
              /\ m.body.hour >= file.body.hour
              /\ m.completed.polls > 0 => m.completed.hour = file.body.hour /\ m.body.hour > file.body.hour
              /\ m.completed.polls + m.body.polls =
                    file.body.polls + (IF op[p] = "poll" THEN 1 ELSE 0)
        /\ pc[p] = "report" =>
              /\ PollsOf(beats) + m.completed.polls + file.body.polls <= polled
              /\ m.completed.polls > 0 =>
                    /\ m.completed.hour < file.body.hour
                    /\ \A i \in 1..Len(beats) : beats[i].hour < m.completed.hour

Following ==
    /\ Known /\ MilestonesOnce /\ HoursOnce /\ Over /\ PollsWereMade
    /\ \A p \in Procs : MilestonesFollow(p) /\ HoursFollow(p)

IInv ==
    /\ TypeOK
    /\ ~overlapped => OneByOne
    /\ ~overlapped /\ NeverLost => Following

-----------------------------------------------------------------------------
Below == {ss \in Nat \X Nat : ss[1] < ss[2]}

LEMMA Induction ==
  ASSUME NEW P, 0 \in P, \A n \in Nat \cap P : n + 1 \in P
  PROVE  Nat \subseteq P
  <1> SUFFICES ASSUME Nat \ P # {} PROVE FALSE
    OBVIOUS
  <1>1. IsWellFoundedOn(Below, Nat)
    BY NatLessThanWellFounded DEF OpToRel, Below
  <1>2. PICK n \in Nat \ P : \A m \in Nat \ P : <<m, n>> \notin Below
    BY <1>1, WFMin
  <1>3. n - 1 \in Nat /\ n - 1 < n /\ (n - 1) + 1 = n
    BY <1>2
  <1>4. n - 1 \in P
    BY <1>2, <1>3 DEF Below
  <1> QED
    BY <1>2, <1>3, <1>4

(* s holds the polls of the first 0, 1, ... and k heartbeats. *)
Sums(bs, k, s) ==
    /\ s \in [0..k -> Nat]
    /\ s[0] = 0
    /\ \A n \in 1..k : s[n] = s[n - 1] + bs[n].polls

LEMMA SumsExist ==
  ASSUME NEW bs \in Seq(Beat)
  PROVE  \E s : Sums(bs, Len(bs), s)
  <1> DEFINE P == {k \in Nat : k <= Len(bs) => \E s : Sums(bs, k, s)}
  <1>1. 0 \in P
    <2>1. Sums(bs, 0, [n \in 0..0 |-> 0])
      BY DEF Sums
    <2> QED  BY <2>1
  <1>2. ASSUME NEW k \in Nat \cap P PROVE k + 1 \in P
    <2> SUFFICES ASSUME k + 1 <= Len(bs) PROVE \E s : Sums(bs, k + 1, s)
      OBVIOUS
    <2>1. PICK s : Sums(bs, k, s)
      BY <1>2
    <2>2. bs[k + 1] \in Beat /\ bs[k + 1].polls \in Nat
      <3>1. bs[k + 1] \in Beat
        OBVIOUS
      <3> QED
        BY <3>1 DEF Beat
    <2> DEFINE t == [n \in 0..(k + 1) |-> IF n = k + 1 THEN s[k] + bs[k + 1].polls ELSE s[n]]
    <2>3. /\ s \in [0..k -> Nat] /\ s[0] = 0
          /\ \A n \in 1..k : s[n] = s[n - 1] + bs[n].polls
      BY <2>1 DEF Sums
    <2>4. t \in [0..(k + 1) -> Nat] /\ t[0] = 0
      BY <2>2, <2>3
    <2>5. ASSUME NEW n \in 1..(k + 1) PROVE t[n] = t[n - 1] + bs[n].polls
      <3>1. t[n - 1] = s[n - 1]
        OBVIOUS
      <3> QED
        BY <2>3, <3>1
    <2>6. Sums(bs, k + 1, t)
      BY <2>4, <2>5 DEF Sums
    <2> QED  BY <2>6
  <1> HIDE DEF P
  <1>3. Nat \subseteq P
    BY <1>1, <1>2, Induction
  <1> QED
    BY <1>3 DEF P

LEMMA SumsAgree ==
  ASSUME NEW bs, NEW cs, NEW k \in Nat, NEW s, NEW t, Sums(bs, k, s),
         NEW l \in Nat, l >= k, Sums(cs, l, t), \A n \in 1..k : bs[n].polls = cs[n].polls
  PROVE  s[k] = t[k]
  <1> DEFINE P == {n \in Nat : n <= k => s[n] = t[n]}
  <1>1. 0 \in P
    BY DEF Sums
  <1>2. ASSUME NEW n \in Nat \cap P PROVE n + 1 \in P
    <2> SUFFICES ASSUME n + 1 <= k PROVE s[n + 1] = t[n + 1]
      OBVIOUS
    <2>1. n + 1 \in 1..k /\ n + 1 \in 1..l /\ (n + 1) - 1 = n /\ s[n] = t[n]
      OBVIOUS
    <2> QED
      BY <2>1 DEF Sums
  <1> HIDE DEF P
  <1>3. Nat \subseteq P
    BY <1>1, <1>2, Induction
  <1> QED
    BY <1>3 DEF P

(* PollsOf is the last of these sums. *)
LEMMA PollsOfIsTheSum ==
  ASSUME NEW bs \in Seq(Beat), NEW s, Sums(bs, Len(bs), s)
  PROVE  PollsOf(bs) = s[Len(bs)]
  <1> DEFINE sum[n \in 0..Len(bs)] == IF n = 0 THEN 0 ELSE sum[n - 1] + bs[n].polls
  <1>1. s = [n \in 0..Len(bs) |-> IF n = 0 THEN 0 ELSE s[n - 1] + bs[n].polls]
    BY DEF Sums
  <1>2. sum = [n \in 0..Len(bs) |-> IF n = 0 THEN 0 ELSE sum[n - 1] + bs[n].polls]
    BY <1>1
  <1>3. PollsOf(bs) = sum[Len(bs)]
    BY DEF PollsOf
  <1> HIDE DEF sum
  <1>4. Len(bs) \in Nat
    OBVIOUS
  <1> DEFINE P == {n \in Nat : n <= Len(bs) => s[n] = sum[n]}
  <1>5. 0 \in P
    BY <1>2, <1>4 DEF Sums
  <1>6. ASSUME NEW n \in Nat \cap P PROVE n + 1 \in P
    <2> SUFFICES ASSUME n + 1 <= Len(bs) PROVE s[n + 1] = sum[n + 1]
      OBVIOUS
    <2>1. n + 1 \in 1..Len(bs) /\ (n + 1) - 1 = n /\ s[n] = sum[n]
      BY <1>4
    <2>2. s[n + 1] = s[n] + bs[n + 1].polls
      BY <2>1 DEF Sums
    <2>3. n + 1 \in 0..Len(bs) /\ n + 1 # 0
      BY <1>4
    <2>4. sum[n + 1] = sum[n] + bs[n + 1].polls
      BY <1>2, <2>1, <2>3
    <2> QED
      BY <2>1, <2>2, <2>4
  <1> HIDE DEF P
  <1>7. Nat \subseteq P
    BY <1>5, <1>6, Induction
  <1> QED
    BY <1>3, <1>4, <1>7 DEF P

LEMMA PollsOfFacts ==
  ASSUME NEW bs \in Seq(Beat)
  PROVE  /\ PollsOf(bs) \in Nat
         /\ bs = <<>> => PollsOf(bs) = 0
         /\ \A b \in Beat : PollsOf(Append(bs, b)) = PollsOf(bs) + b.polls
  <1>1. PICK s : Sums(bs, Len(bs), s)
    BY SumsExist
  <1>2. PollsOf(bs) = s[Len(bs)] /\ Len(bs) \in Nat
    BY <1>1, PollsOfIsTheSum
  <1>3. PollsOf(bs) \in Nat /\ (bs = <<>> => PollsOf(bs) = 0)
    BY <1>1, <1>2 DEF Sums
  <1>4. ASSUME NEW b \in Beat PROVE PollsOf(Append(bs, b)) = PollsOf(bs) + b.polls
    <2> DEFINE cs == Append(bs, b)
               k == Len(bs)
    <2>1. /\ cs \in Seq(Beat) /\ Len(cs) = k + 1 /\ cs[k + 1] = b
          /\ \A n \in 1..k : bs[n].polls = cs[n].polls
      OBVIOUS
    <2> HIDE DEF cs
    <2>2. PICK t : Sums(cs, Len(cs), t)
      BY <2>1, SumsExist
    <2>3. PollsOf(cs) = t[k + 1]
      BY <2>1, <2>2, PollsOfIsTheSum
    <2>4. s[k] = t[k]
      BY <1>1, <1>2, <2>1, <2>2, SumsAgree
    <2>5. t[k + 1] = t[k] + b.polls
      BY <1>2, <2>1, <2>2 DEF Sums
    <2> QED
      BY <1>2, <2>3, <2>4, <2>5 DEF cs
  <1> QED
    BY <1>3, <1>4

-----------------------------------------------------------------------------
LEMMA ReachFacts ==
  ASSUME NEW m \in Copy, NEW s \in SUBSET Milestones
  PROVE  LET n == Reach(m, s)
         IN  /\ n \in Copy
             /\ n.body.flags = m.body.flags \cup s /\ n.due = s \ m.body.flags
             /\ n.body.id = m.body.id /\ n.body.hour = m.body.hour
             /\ n.body.polls = m.body.polls /\ n.completed = m.completed
  BY DEF Copy, Body, Beat, Reach

LEMMA InstallIdFacts ==
  ASSUME TypeOK, NEW p \in Procs, NEW m \in Copy
  PROVE  LET n == ensureInstallId(p, m)
         IN  /\ n \in Copy /\ (m.body.id # NoId => n.body.id = m.body.id)
             /\ n.body.flags = m.body.flags /\ n.due = m.due
             /\ n.body.hour = m.body.hour /\ n.body.polls = m.body.polls
             /\ n.completed = m.completed
  <1>1. began[p].note \in Nat
    BY DEF TypeOK
  <1> QED
    BY <1>1 DEF Copy, Body, Beat, ensureInstallId

LEMMA CountRunFacts ==
  ASSUME NEW m \in Copy
  PROVE  LET n == CountRun(m)
         IN  /\ n \in Copy /\ m.body.flags \subseteq n.body.flags
             /\ n.due = n.body.flags \ m.body.flags
             /\ n.body.id = m.body.id /\ n.body.hour = m.body.hour
             /\ n.body.polls = m.body.polls /\ n.completed = m.completed
  <1> DEFINE k == [m EXCEPT !.body.runs = @ + 1]
  <1>1. /\ k \in Copy /\ k.body.flags = m.body.flags /\ k.body.id = m.body.id
        /\ k.body.hour = m.body.hour /\ k.body.polls = m.body.polls /\ k.completed = m.completed
    BY DEF Copy, Body
  <1>2. CountRun(m) = Reach(k, {"first_run"}) /\ {"first_run"} \in SUBSET Milestones
    BY DEF CountRun, Milestones
  <1> HIDE DEF k
  <1> QED
    BY <1>1, <1>2, ReachFacts

LEMMA ReceiptFacts ==
  ASSUME NEW m \in Copy
  PROVE  LET n == noteReceiptGenerated(m)
         IN  /\ n \in Copy /\ m.body.flags \subseteq n.body.flags
             /\ n.due = n.body.flags \ m.body.flags
             /\ n.body.id = m.body.id /\ n.body.hour = m.body.hour
             /\ n.body.polls = m.body.polls /\ n.completed = m.completed
  <1> DEFINE k == [m EXCEPT !.body.receipts = @ + 1]
             s == receiptMilestoneFor(k.body.receipts)
  <1>1. /\ k \in Copy /\ k.body.flags = m.body.flags /\ k.body.id = m.body.id
        /\ k.body.hour = m.body.hour /\ k.body.polls = m.body.polls /\ k.completed = m.completed
    BY DEF Copy, Body
  <1>2. noteReceiptGenerated(m) = Reach(k, s)
    BY DEF noteReceiptGenerated
  <1>3. s \in SUBSET Milestones
    BY DEF receiptMilestoneFor, Milestones
  <1> HIDE DEF k, s
  <1> QED
    BY <1>1, <1>2, <1>3, ReachFacts

LEMMA RollOverFacts ==
  ASSUME NEW m \in Copy, NEW h \in Int
  PROVE  LET n == RollOver(m, h)
         IN  /\ n \in Copy /\ n.body.flags = m.body.flags /\ n.due = m.due
             /\ n.body.id = m.body.id
             /\ \/ m.body.hour < h /\ n.body.hour = h /\ n.body.polls = 0
                   /\ n.completed = [hour |-> m.body.hour, polls |-> m.body.polls]
                \/ n = m
  BY DEF Copy, Body, Beat, RollOver

(* What the copy that a note writes has to do with the one it has read. *)
Grown(m, n) ==
    /\ n \in Copy
    /\ m.body.id # NoId => n.body.id = m.body.id
    /\ m.body.flags \subseteq n.body.flags
    /\ n.due = n.body.flags \ m.body.flags

Counted(m, n, polls) ==
    /\ n.body.hour >= m.body.hour
    /\ \/ n.completed = m.completed /\ n.body.polls = m.body.polls + polls
       \/ /\ m.body.hour < n.body.hour /\ n.body.polls = polls
          /\ n.completed = [hour |-> m.body.hour, polls |-> m.body.polls]

LEMMA PollFacts ==
  ASSUME TypeOK, NEW p \in Procs, NEW m \in Copy
  PROVE  LET n == noteStatuslinePoll(p, m) IN Grown(m, n) /\ Counted(m, n, 1)
  <1> DEFINE a == CountRun(m)
             b == ensureInstallId(p, a)
             c == RollOver(b, began[p].hour)
             n == [c EXCEPT !.body.polls = @ + 1]
  <1>1. noteStatuslinePoll(p, m) = n
    BY DEF noteStatuslinePoll
  <1>2. began[p].hour \in Int
    BY DEF TypeOK, Hours
  <1>3. /\ a \in Copy /\ m.body.flags \subseteq a.body.flags
        /\ a.due = a.body.flags \ m.body.flags
        /\ a.body.id = m.body.id /\ a.body.hour = m.body.hour
        /\ a.body.polls = m.body.polls /\ a.completed = m.completed
    BY CountRunFacts
  <1> HIDE DEF a
  <1>4. /\ b \in Copy /\ (a.body.id # NoId => b.body.id = a.body.id)
        /\ b.body.flags = a.body.flags /\ b.due = a.due
        /\ b.body.hour = a.body.hour /\ b.body.polls = a.body.polls
        /\ b.completed = a.completed
    BY <1>3, InstallIdFacts
  <1> HIDE DEF b
  <1>5. /\ c \in Copy /\ c.body.flags = b.body.flags /\ c.due = b.due
        /\ c.body.id = b.body.id
        /\ \/ b.body.hour < c.body.hour /\ c.body.polls = 0
              /\ c.completed = [hour |-> b.body.hour, polls |-> b.body.polls]
           \/ c = b
    BY <1>2, <1>4, RollOverFacts
  <1> HIDE DEF c
  <1>6. /\ n \in Copy /\ n.body.flags = c.body.flags /\ n.due = c.due
        /\ n.body.id = c.body.id /\ n.body.hour = c.body.hour
        /\ n.body.polls = c.body.polls + 1 /\ n.completed = c.completed
    BY <1>5 DEF Copy, Body
  <1> HIDE DEF n
  <1>7. Grown(m, n)
    BY <1>3, <1>4, <1>5, <1>6 DEF Grown
  <1>8. m.body.hour \in Int /\ m.body.polls \in Nat /\ c.body.hour \in Int
    BY <1>5 DEF Copy, Body
  <1>9. Counted(m, n, 1)
    BY <1>3, <1>4, <1>5, <1>6, <1>8 DEF Counted
  <1> QED
    BY <1>1, <1>7, <1>9

LEMMA WriteTmpFacts ==
  ASSUME TypeOK, NEW p \in Procs, WriteTmp(p)
  PROVE  /\ mem' = [mem EXCEPT ![p] = mem'[p]]
         /\ Grown(mem[p], mem'[p])
         /\ Counted(mem[p], mem'[p], IF op[p] = "poll" THEN 1 ELSE 0)
  <1> DEFINE m == mem[p]
             n == mem'[p]
  <1>1. m \in Copy /\ op[p] \in Ops
    BY DEF TypeOK
  <1> DEFINE x == CASE op[p] = "run"      -> noteRunStart(p, m)
                    [] op[p] = "off"      -> noteRunStartOff(m)
                    [] op[p] = "receipt"  -> noteReceiptGenerated(m)
                    [] op[p] = "first_pr" -> noteMilestone(m)
                    [] op[p] = "poll"     -> noteStatuslinePoll(p, m)
  <1>a. mem' = [mem EXCEPT ![p] = x]
    BY DEF WriteTmp
  <1> HIDE DEF x
  <1>b. mem' = [mem EXCEPT ![p] = n] /\ n = x
    BY <1>a DEF TypeOK
  <1>2. /\ n = CASE op[p] = "run"      -> noteRunStart(p, m)
                 [] op[p] = "off"      -> noteRunStartOff(m)
                 [] op[p] = "receipt"  -> noteReceiptGenerated(m)
                 [] op[p] = "first_pr" -> noteMilestone(m)
                 [] op[p] = "poll"     -> noteStatuslinePoll(p, m)
        /\ mem' = [mem EXCEPT ![p] = n]
    BY <1>b DEF x
  <1> HIDE DEF m, n
  <1>3. Grown(m, n) /\ Counted(m, n, IF op[p] = "poll" THEN 1 ELSE 0)
    <2>0. m.body.hour \in Int /\ m.body.polls \in Nat /\ m.body.polls + 0 = m.body.polls
      BY <1>1 DEF Copy, Body
    <2>1. CASE op[p] = "run"
      <3> DEFINE a == CountRun(m)
      <3>1. n = ensureInstallId(p, a)
        BY <1>2, <2>1 DEF noteRunStart
      <3>2. /\ a \in Copy /\ m.body.flags \subseteq a.body.flags
            /\ a.due = a.body.flags \ m.body.flags
            /\ a.body.id = m.body.id /\ a.body.hour = m.body.hour
            /\ a.body.polls = m.body.polls /\ a.completed = m.completed
        BY <1>1, CountRunFacts
      <3> HIDE DEF a
      <3> QED
        BY <2>0, <2>1, <3>1, <3>2, InstallIdFacts DEF Grown, Counted
    <2>2. CASE op[p] = "off"
      BY <1>1, <1>2, <2>0, <2>2, CountRunFacts DEF noteRunStartOff, Grown, Counted
    <2>3. CASE op[p] = "receipt"
      BY <1>1, <1>2, <2>0, <2>3, ReceiptFacts DEF Grown, Counted
    <2>4. CASE op[p] = "first_pr"
      <3>1. {"first_pr"} \in SUBSET Milestones /\ n = Reach(m, {"first_pr"})
        BY <1>2, <2>4 DEF noteMilestone, Milestones
      <3> QED
        BY <1>1, <2>0, <2>4, <3>1, ReachFacts DEF Grown, Counted
    <2>5. CASE op[p] = "poll"
      BY <1>1, <1>2, <2>5, PollFacts
    <2> QED
      BY <1>1, <2>1, <2>2, <2>3, <2>4, <2>5 DEF Ops
  <1> QED
    BY <1>2, <1>3 DEF m, n, Grown

-----------------------------------------------------------------------------
LEMMA FreshFacts ==
  /\ freshState \in Body /\ NoBeat \in Beat
  /\ \A b \in BOOLEAN : Fresh(b) \in Copy
  /\ freshState.flags = {} /\ freshState.hour = NoHour /\ freshState.polls = 0
  BY DEF freshState, NoBeat, Fresh, Copy, Body, Beat, NoId, NoHour

LEMMA ParseFacts ==
  ASSUME NEW f \in File
  PROVE  LET m == parseState(f)
         IN  /\ m \in Copy /\ m.due = {} /\ m.completed = NoBeat
             /\ m.body.id = f.body.id /\ m.body.flags = f.body.flags
             /\ m.body.hour = f.body.hour /\ m.body.polls = f.body.polls
  <1> DEFINE b == IF f.kind = "malformed" THEN [f.body EXCEPT !.runs = 0, !.receipts = 0] ELSE f.body
             k == Fresh(f.kind = "malformed")
  <1>1. /\ b \in Body /\ b.id = f.body.id /\ b.flags = f.body.flags
        /\ b.hour = f.body.hour /\ b.polls = f.body.polls
    BY DEF File, Body
  <1>2. k \in Copy /\ k.due = {} /\ k.completed = NoBeat
    BY FreshFacts DEF Fresh
  <1>3. parseState(f) = [k EXCEPT !.body = b]
    BY DEF parseState
  <1> HIDE DEF b, k
  <1> QED
    BY <1>1, <1>2, <1>3 DEF Copy

LEMMA InitIInv == Init => IInv
  <1> SUFFICES ASSUME Init PROVE IInv
    OBVIOUS
  <1>1. TypeOK
    <2>1. 0 \in Hours /\ clock \in Hours
      BY TelemetryAssumption DEF Hours, Init
    <2>2. file \in File
      BY FreshFacts DEF Init, File, Kinds
    <2>3. op \in [Procs -> Ops] /\ began \in [Procs -> [note : Nat, hour : Hours]]
      BY <2>1 DEF Init, Ops
    <2>4. mem \in [Procs -> Copy]
      BY FreshFacts DEF Init
    <2>5. aside \in Seq(File) /\ beats \in Seq(Beat) /\ meddled \in Seq(Outside)
      BY DEF Init
    <2> QED
      BY <2>1, <2>2, <2>3, <2>4, <2>5 DEF Init, TypeOK
  <1>2. OneByOne
    BY DEF Init, OneByOne
  <1>3. /\ Known /\ MilestonesOnce
        /\ \A p \in Procs : MilestonesFollow(p) /\ HoursFollow(p)
    BY DEF Init, Known, MilestonesOnce, MilestonesFollow, HoursFollow
  <1>4. beats = <<>> /\ Len(beats) = 0 /\ DOMAIN beats = {} /\ file.body.polls = 0 /\ polled = 0
    BY FreshFacts DEF Init
  <1>5. HoursOnce /\ Over
    BY <1>4 DEF HoursOnce, Over
  <1>6. PollsWereMade
    <2>1. beats \in Seq(Beat)
      BY <1>1 DEF TypeOK
    <2>2. PollsOf(beats) = 0
      BY <1>4, <2>1, PollsOfFacts
    <2> QED
      BY <1>4, <2>2 DEF PollsWereMade
  <1> QED
    BY <1>1, <1>2, <1>3, <1>5, <1>6 DEF IInv, Following

LEMMA ReportFacts ==
  ASSUME TypeOK, NEW p \in Procs, Report(p)
  PROVE  /\ fired' \in [Milestones -> Nat]
         /\ \A x \in Milestones : fired'[x] = fired[x] \/ (x \in mem[p].due /\ fired'[x] = fired[x] + 1)
         /\ \/ mem[p].completed.polls = 0 /\ beats' = beats
            \/ mem[p].completed.polls > 0 /\ beats' = Append(beats, mem[p].completed)
         /\ mem[p].completed \in Beat
         /\ End(p) /\ UNCHANGED <<file, polled, history>> /\ pc[p] = "report"
  <1>1. mem[p] \in Copy
    BY DEF TypeOK
  <1>2. mem[p].completed \in Beat /\ mem[p].completed.polls \in Nat
    BY <1>1 DEF Copy, Beat
  <1> QED
    BY <1>2 DEF Report, TypeOK

LEMMA EndType ==
  ASSUME TypeOK, NEW p \in Procs, End(p)
  PROVE  /\ pc' \in [Procs -> {"idle", "read", "aside", "change", "land", "report"}]
         /\ op' \in [Procs -> Ops]
         /\ began' \in [Procs -> [note : Nat, hour : Hours]]
         /\ mem' \in [Procs -> Copy]
  <1>1. 0 \in Hours
    BY TelemetryAssumption DEF Hours
  <1> QED
    BY <1>1, FreshFacts DEF TypeOK, End, Ops

LEMMA Appended ==
  ASSUME NEW S, NEW s \in Seq(S), NEW e \in S
  PROVE  /\ Append(s, e) \in Seq(S) /\ Len(Append(s, e)) = Len(s) + 1 /\ Len(s) \in Nat
         /\ \A i \in 1..Len(s) : Append(s, e)[i] = s[i]
         /\ Append(s, e)[Len(s) + 1] = e
  OBVIOUS

LEMMA TypeStep ==
  ASSUME TypeOK, [Next]_vars
  PROVE  TypeOK'
  <1> USE DEF TypeOK, history
  <1>1. ASSUME NEW p \in Procs, NEW o \in Ops, Start(p, o) PROVE TypeOK'
    <2>1. began' = [began EXCEPT ![p] = [note |-> notes + 1, hour |-> clock]]
      BY <1>1 DEF Start
    <2>2. began' \in [Procs -> [note : Nat, hour : Hours]]
      BY <2>1
    <2>3. op' \in [Procs -> Ops]
      BY <1>1 DEF Start
    <2> QED
      BY <1>1, <2>2, <2>3 DEF Start
  <1>2. ASSUME NEW p \in Procs, Read(p) PROVE TypeOK'
    <2>1. mem' \in [Procs -> Copy]
      BY <1>2, ParseFacts DEF Read
    <2> QED
      BY <1>2, <2>1 DEF Read
  <1>3. ASSUME NEW p \in Procs, ReadNewer(p) \/ WriteFails(p) \/ Die(p) PROVE TypeOK'
    <2>1. End(p) /\ UNCHANGED <<file, fired, beats, polled, history>>
      BY <1>3 DEF ReadNewer, WriteFails, Die
    <2> QED
      BY <2>1, EndType
  <1>4. ASSUME NEW p \in Procs, MoveAside(p) PROVE TypeOK'
    <2>1. file' \in File /\ aside' \in Seq(File)
      <3>1. aside' = aside \/ aside' = Append(aside, file)
        BY <1>4 DEF MoveAside
      <3>2. aside \in Seq(File) /\ file \in File
        OBVIOUS
      <3> HIDE DEF TypeOK
      <3>3. aside' \in Seq(File)
        BY <3>1, <3>2, Appended
      <3>4. file' \in File
        BY <1>4, FreshFacts DEF MoveAside, File, Kinds
      <3> QED  BY <3>3, <3>4
    <2>2. mem' \in [Procs -> Copy]
      BY <1>4, FreshFacts DEF MoveAside
    <2> QED
      BY <1>4, <2>1, <2>2 DEF MoveAside
  <1>5. ASSUME NEW p \in Procs, WriteTmp(p) PROVE TypeOK'
    <2>1. mem' \in [Procs -> Copy]
      BY <1>5, WriteTmpFacts DEF Grown
    <2> QED
      BY <1>5, <2>1 DEF WriteTmp
  <1>6. ASSUME NEW p \in Procs, Land(p) PROVE TypeOK'
    <2>1. mem[p].body \in Body
      BY DEF Copy
    <2>2. file' \in File
      BY <1>6, <2>1 DEF Land, File, Kinds
    <2> QED
      BY <1>6, <2>2 DEF Land
  <1>7. ASSUME NEW p \in Procs, Report(p) PROVE TypeOK'
    <2>1. beats' \in Seq(Beat)
      <3>1. mem[p].completed \in Beat /\ beats \in Seq(Beat)
        BY <1>7, ReportFacts
      <3>2. beats' = beats \/ beats' = Append(beats, mem[p].completed)
        BY <1>7, ReportFacts
      <3> HIDE DEF TypeOK
      <3> QED
        BY <3>1, <3>2, Appended
    <2> QED
      BY <1>7, <2>1, ReportFacts, EndType
  <1>8. ASSUME NEW h \in Hours, SetClock(h) PROVE TypeOK'
    BY <1>8 DEF SetClock
  <1>9. ASSUME NEW k \in Outside, Meddle(k) PROVE TypeOK'
    <2>1. file' \in File
      BY <1>9, FreshFacts, TelemetryAssumption DEF Meddle, File, Kinds
    <2> QED
      BY <1>9, <2>1 DEF Meddle
  <1>10. CASE UNCHANGED vars
    BY <1>10 DEF vars
  <1> QED
    BY <1>1, <1>2, <1>3, <1>4, <1>5, <1>6, <1>7, <1>8, <1>9, <1>10 DEF Next, Step

(* A step of a process touches no other's note. *)
LEMMA OwnStep ==
  ASSUME TypeOK, NEW p \in Procs, Step(p), NEW q \in Procs \ {p}
  PROVE  pc'[q] = pc[q] /\ mem'[q] = mem[q] /\ op'[q] = op[q]
  BY DEF TypeOK, Step, Start, Read, ReadNewer, MoveAside, WriteTmp, Land, WriteFails, Report,
     Die, End

(* IdentityKept, step by step. *)
LEMMA SettledStep ==
  ASSUME TypeOK, [Next]_vars, NEW x \in Ids \ {NoId}, Settled(x), meddled' = meddled
  PROVE  Settled(x)'
  <1>1. /\ file \in File /\ x \in Nat /\ x # NoId /\ x # 0
        /\ file.kind \in {"valid", "malformed", "newer"} /\ file.body.id = x
    BY TelemetryAssumption DEF TypeOK, Settled, Ids, NoId
  <1>2. \A p \in Procs : pc[p] # "aside" /\ (pc[p] \in {"change", "land"} => mem[p].body.id = x)
    BY DEF Settled
  <1>3. ASSUME NEW p \in Procs, Step(p),
               file'.kind \in {"valid", "malformed", "newer"}, file'.body.id = x,
               pc'[p] # "aside" /\ (pc'[p] \in {"change", "land"} => mem'[p].body.id = x)
        PROVE  Settled(x)'
    BY <1>2, <1>3, OwnStep DEF Settled
  <1>4. ASSUME NEW p \in Procs, NEW o \in Ops, Start(p, o) PROVE Settled(x)'
    BY <1>1, <1>3, <1>4 DEF Start, Step, TypeOK
  <1>5. ASSUME NEW p \in Procs, Read(p) PROVE Settled(x)'
    <2>1. mem'[p] = parseState(file) /\ pc'[p] = "change" /\ file' = file
      BY <1>1, <1>5 DEF Read, TypeOK
    <2> QED
      BY <1>1, <1>3, <1>5, <2>1, ParseFacts DEF Step
  <1>6. ASSUME NEW p \in Procs, ReadNewer(p) \/ WriteFails(p) \/ Die(p) \/ Report(p)
        PROVE  Settled(x)'
    <2>1. End(p) /\ file' = file
      BY <1>6 DEF ReadNewer, WriteFails, Die, Report
    <2> QED
      BY <1>1, <1>3, <1>6, <2>1 DEF Step, End, TypeOK
  <1>7. ASSUME NEW p \in Procs, WriteTmp(p) PROVE Settled(x)'
    <2>1. mem'[p].body.id = x /\ pc'[p] = "land" /\ file' = file
      BY <1>1, <1>2, <1>7, WriteTmpFacts DEF WriteTmp, TypeOK, Grown
    <2> QED
      BY <1>1, <1>3, <1>7, <2>1 DEF Step
  <1>8. ASSUME NEW p \in Procs, Land(p) PROVE Settled(x)'
    BY <1>2, <1>3, <1>8 DEF Step, Land, TypeOK
  <1>9. ASSUME NEW k \in Outside, Meddle(k) PROVE FALSE
    <2>1. Len(meddled') = Len(meddled) + 1 /\ Len(meddled) \in Nat
      BY <1>9 DEF Meddle, TypeOK
    <2> QED
      BY <2>1
  <1>10. CASE UNCHANGED vars \/ \E h \in Hours : SetClock(h)
    BY <1>10 DEF vars, SetClock, Settled
  <1> QED
    BY <1>2, <1>4, <1>5, <1>6, <1>7, <1>8, <1>9, <1>10 DEF Next, Step, MoveAside

(* The state is well formed, whatever befalls the file. *)
THEOREM Typing == Spec => []TypeOK
  <1>1. Init => TypeOK
    BY InitIInv DEF IInv
  <1> QED
    BY <1>1, TypeStep, PTL DEF Spec

(* "Corruption is not [acceptable]" (`updateStateWithMeta`): an install id   *)
(* that has settled is there after every step that is not a hand from        *)
(* outside.                                                                  *)
THEOREM IdIsKept == Spec => IdentityKept
  <1>1. TypeOK /\ [Next]_vars =>
          [\A x \in Ids \ {NoId} : Settled(x) /\ meddled' = meddled => Settled(x)']_vars
    BY SettledStep
  <1> QED
    BY <1>1, Typing, PTL DEF Spec, IdentityKept

-----------------------------------------------------------------------------
LEMMA OneByOneStep ==
  ASSUME TypeOK, ~overlapped => OneByOne, [Next]_vars, ~overlapped'
  PROVE  OneByOne' /\ ~overlapped
  <1>1. ~overlapped
    BY DEF Next, Step, Start, Read, ReadNewer, MoveAside, WriteTmp, Land, WriteFails, Report,
           Die, SetClock, Meddle, history, vars
  <1>2. ASSUME NEW p \in Procs, Step(p) PROVE OneByOne'
    <2>1. \A q \in Procs \ {p} : pc[q] = "idle"
      <3>1. CASE \E o \in Ops : Start(p, o)
        BY <3>1 DEF Start, TypeOK
      <3>2. CASE ~\E o \in Ops : Start(p, o)
        <4>1. pc[p] # "idle"
          BY <1>2, <3>2 DEF Step, Read, ReadNewer, MoveAside, WriteTmp, Land, WriteFails,
                            Report, Die
        <4> QED
          BY <1>1, <4>1 DEF OneByOne
      <3> QED  BY <3>1, <3>2
    <2>2. \A q \in Procs \ {p} : pc'[q] = "idle"
      BY <1>2, <2>1, OwnStep
    <2> QED
      BY <2>2 DEF OneByOne
  <1>3. CASE UNCHANGED vars \/ (\E h \in Hours : SetClock(h)) \/ \E k \in Outside : Meddle(k)
    BY <1>1, <1>3 DEF vars, SetClock, Meddle, OneByOne
  <1> QED
    BY <1>1, <1>2, <1>3 DEF Next

(* Nothing that was reported or recorded changes: what p has in hand does. *)
LEMMA StillFollowing ==
  ASSUME Following, NEW p \in Procs, \A q \in Procs \ {p} : pc'[q] = "idle",
         UNCHANGED <<file, fired, beats, polled>>,
         pc'[p] # "aside", MilestonesFollow(p)', HoursFollow(p)'
  PROVE  Following'
  <1>1. \A q \in Procs : pc'[q] # "aside" /\ MilestonesFollow(q)' /\ HoursFollow(q)'
    BY DEF MilestonesFollow, HoursFollow
  <1>2. MilestonesOnce' /\ HoursOnce' /\ Over' /\ PollsWereMade'
    BY DEF Following, MilestonesOnce, HoursOnce, Over, PollsWereMade
  <1>3. Known'
    BY <1>1 DEF Following, Known
  <1> QED
    BY <1>1, <1>2, <1>3 DEF Following

LEMMA WriteTmpFollows ==
  ASSUME TypeOK, TypeOK', Following, NEW p \in Procs, WriteTmp(p)
  PROVE  MilestonesFollow(p)' /\ HoursFollow(p)'
  <1> DEFINE m == mem[p]
             n == mem'[p]
             polls == IF op[p] = "poll" THEN 1 ELSE 0
  <1>1. /\ pc[p] = "change" /\ pc'[p] = "land" /\ op' = op
        /\ UNCHANGED <<file, fired, beats, polled>>
    BY DEF WriteTmp, TypeOK
  <1>2. m \in Copy /\ Grown(m, n) /\ Counted(m, n, polls)
    BY WriteTmpFacts DEF TypeOK
  <1>3. m.body.flags = file.body.flags /\ m.due = {}
    BY <1>1 DEF Following, MilestonesFollow
  <1>4. /\ m.body.hour = file.body.hour /\ m.body.polls = file.body.polls
        /\ m.completed.polls = 0
    BY <1>1 DEF Following, HoursFollow, NoBeat
  <1>5. /\ m.body.hour \in Int /\ m.body.polls \in Nat /\ n.body.hour \in Int
        /\ n.body.polls \in Nat /\ polls \in Nat
    BY <1>2 DEF Copy, Body, Grown
  <1>6. MilestonesFollow(p)'
    BY <1>1, <1>2, <1>3 DEF MilestonesFollow, Grown
  <1>7. /\ n.body.hour >= file.body.hour
        /\ n.completed.polls > 0 => n.completed.hour = file.body.hour /\ n.body.hour > file.body.hour
        /\ n.completed.polls + n.body.polls = file.body.polls + polls
    <2>1. CASE n.completed = m.completed /\ n.body.polls = m.body.polls + polls
      <3> HIDE DEF m, n, polls
      <3> QED  BY <1>2, <1>4, <1>5, <2>1 DEF Counted
    <2>2. CASE /\ m.body.hour < n.body.hour /\ n.body.polls = polls
               /\ n.completed = [hour |-> m.body.hour, polls |-> m.body.polls]
      <3> HIDE DEF m, n, polls
      <3> QED  BY <1>2, <1>4, <1>5, <2>2 DEF Counted
    <2> QED
      BY <1>2, <2>1, <2>2 DEF Counted
  <1> QED
    BY <1>1, <1>6, <1>7 DEF HoursFollow

LEMMA LandFollows ==
  ASSUME TypeOK, TypeOK', Following, NEW p \in Procs, Land(p),
         \A q \in Procs \ {p} : pc'[q] = "idle"
  PROVE  Following'
  <1> DEFINE m == mem[p]
  <1>1. /\ pc[p] = "land" /\ pc'[p] = "report" /\ mem' = mem
        /\ file' = [kind |-> "valid", body |-> m.body]
        /\ UNCHANGED <<fired, beats>>
        /\ polled' = polled + (IF op[p] = "poll" THEN 1 ELSE 0)
    BY DEF Land, TypeOK
  <1>2. /\ m \in Copy /\ m.body \in Body /\ file.body \in Body /\ m.completed \in Beat
        /\ m.due \subseteq Milestones /\ file.body.flags \subseteq Milestones
    BY DEF TypeOK, Copy, File, Body
  <1>3. /\ file.body.flags \subseteq m.body.flags
        /\ m.due \subseteq m.body.flags \ file.body.flags
    BY <1>1 DEF Following, MilestonesFollow
  <1>4. /\ m.body.hour >= file.body.hour
        /\ m.completed.polls > 0 => m.completed.hour = file.body.hour /\ m.body.hour > file.body.hour
        /\ m.completed.polls + m.body.polls = file.body.polls + (IF op[p] = "poll" THEN 1 ELSE 0)
    BY <1>1 DEF Following, HoursFollow
  <1>5. /\ m.body.hour \in Int /\ m.body.polls \in Nat /\ file.body.hour \in Int
        /\ file.body.polls \in Nat /\ m.completed.polls \in Nat /\ m.completed.hour \in Int
        /\ polled \in Nat /\ PollsOf(beats) \in Nat
        /\ \A i \in 1..Len(beats) : beats[i].hour \in Int
    <2>1. beats \in Seq(Beat) /\ polled \in Nat
      BY DEF TypeOK
    <2>2. \A i \in 1..Len(beats) : beats[i] \in Beat
      BY <2>1
    <2> QED
      BY <1>2, <2>1, <2>2, PollsOfFacts DEF Body, Beat
  <1> HIDE DEF m
  <1>6. Known'
    BY <1>1 DEF Known
  <1>7. MilestonesOnce'
    BY <1>1, <1>3 DEF Following, MilestonesOnce
  <1>8. HoursOnce'
    BY <1>1 DEF Following, HoursOnce
  <1>9. Over' /\ \A i \in 1..Len(beats) : beats[i].hour < file.body.hour
    BY <1>1, <1>4, <1>5 DEF Following, Over
  <1>10. PollsOf(beats') + m.completed.polls + m.body.polls <= polled'
    <2> DEFINE c == IF op[p] = "poll" THEN 1 ELSE 0
    <2>1. PollsOf(beats') = PollsOf(beats) /\ PollsOf(beats) + file.body.polls <= polled
      BY <1>1 DEF Following, PollsWereMade
    <2>2. c \in Nat /\ polled' = polled + c
      BY <1>1
    <2>3. m.completed.polls + m.body.polls = file.body.polls + c
      BY <1>4
    <2> HIDE DEF c
    <2> DEFINE told == PollsOf(beats)
               done == m.completed.polls
               here == m.body.polls
               was == file.body.polls
    <2>4. told \in Nat /\ done \in Nat /\ here \in Nat /\ was \in Nat /\ polled \in Nat
      BY <1>5
    <2>5. told + was <= polled /\ done + here = was + c
      BY <2>1, <2>3
    <2> HIDE DEF told, done, here, was
    <2>6. told + done + here <= polled + c
      BY <2>2, <2>4, <2>5
    <2> QED
      BY <2>1, <2>2, <2>6 DEF told, done, here
  <1>11. PollsWereMade'
    <2> DEFINE told == PollsOf(beats')
               done == m.completed.polls
               here == m.body.polls
    <2>1. told \in Nat /\ done \in Nat /\ here \in Nat /\ polled' \in Nat
      BY <1>1, <1>5 DEF TypeOK
    <2>2. told + done + here <= polled'
      BY <1>10
    <2> HIDE DEF told, done, here
    <2>3. told + here <= polled'
      BY <2>1, <2>2
    <2>4. file'.body.polls = here
      BY <1>1 DEF here
    <2> QED
      BY <2>3, <2>4 DEF PollsWereMade, told
  <1>12. MilestonesFollow(p)'
    <2>1. \A x \in m.due : fired[x] = 0
      <3>1. fired \in [Milestones -> Nat] /\ MilestonesOnce
        BY DEF TypeOK, Following
      <3>2. \A x \in m.due : x \in Milestones /\ x \notin file.body.flags
        BY <1>2, <1>3
      <3>3. \A x \in Milestones : fired[x] \in Nat /\ fired[x] <= 1
                                 /\ (fired[x] = 1 => x \in file.body.flags)
        BY <3>1 DEF MilestonesOnce
      <3> QED
        BY <3>2, <3>3
    <2> QED
      BY <1>1, <1>3, <2>1 DEF MilestonesFollow, m
  <1>13. HoursFollow(p)'
    BY <1>1, <1>4, <1>9, <1>10 DEF HoursFollow, m
  <1>14. \A q \in Procs : pc'[q] # "aside" /\ MilestonesFollow(q)' /\ HoursFollow(q)'
    BY <1>1, <1>12, <1>13 DEF MilestonesFollow, HoursFollow
  <1> QED
    BY <1>6, <1>7, <1>8, <1>9, <1>11, <1>14 DEF Following, Known

LEMMA ReportFollows ==
  ASSUME TypeOK, TypeOK', Following, NEW p \in Procs, Report(p),
         \A q \in Procs \ {p} : pc'[q] = "idle"
  PROVE  Following'
  <1> DEFINE m == mem[p]
             b == m.completed
  <1>1. /\ \A x \in Milestones : fired'[x] = fired[x] \/ (x \in m.due /\ fired'[x] = fired[x] + 1)
        /\ (b.polls = 0 /\ beats' = beats) \/ (b.polls > 0 /\ beats' = Append(beats, b))
        /\ b \in Beat /\ End(p) /\ UNCHANGED <<file, polled>> /\ pc[p] = "report"
    BY ReportFacts
  <1>2. pc'[p] = "idle"
    BY <1>1 DEF End, TypeOK
  <1>3. m.due \subseteq file.body.flags /\ \A x \in m.due : fired[x] = 0
    BY <1>1 DEF Following, MilestonesFollow
  <1>4. /\ PollsOf(beats) + b.polls + file.body.polls <= polled
        /\ b.polls > 0 => /\ b.hour < file.body.hour
                          /\ \A i \in 1..Len(beats) : beats[i].hour < b.hour
    BY <1>1 DEF Following, HoursFollow
  <1>5. b.hour \in Int /\ b.polls \in Nat /\ file.body.polls \in Nat /\ polled \in Nat
    BY <1>1 DEF Beat, TypeOK, File, Body
  <1>6. /\ beats \in Seq(Beat) /\ Len(beats) \in Nat /\ DOMAIN beats = 1..Len(beats)
        /\ beats' \in Seq(Beat) /\ DOMAIN beats' = 1..Len(beats')
        /\ \A i \in 1..Len(beats) : beats[i] \in Beat
    BY DEF TypeOK
  <1>7. \A i \in 1..Len(beats) : beats[i].hour \in Int
    BY <1>6 DEF Beat
  <1> HIDE DEF m, b
  <1>8. MilestonesOnce'
    BY <1>1, <1>3 DEF Following, MilestonesOnce
  <1>9. HoursOnce' /\ Over' /\ PollsWereMade'
    <2>1. CASE beats' = beats
      BY <1>1, <2>1 DEF Following, HoursOnce, Over, PollsWereMade
    <2>2. CASE b.polls > 0 /\ beats' = Append(beats, b)
      <3> DEFINE k == Len(beats)
      <3>1. /\ Len(beats') = k + 1 /\ beats'[k + 1] = b
            /\ \A i \in 1..k : beats'[i] = beats[i]
        <4>1. b \in Beat /\ beats \in Seq(Beat)
          BY <1>1, <1>6
        <4> QED
          BY <2>2, <4>1, Appended
      <3>2. \A i \in 1..Len(beats') : i \in 1..k \/ i = k + 1
        BY <1>6, <3>1
      <3>3. Over'
        BY <1>1, <1>4, <2>2, <3>1, <3>2 DEF Following, Over
      <3>4. HoursOnce'
        <4> SUFFICES ASSUME NEW i \in 1..Len(beats'), NEW j \in 1..Len(beats'),
                            beats'[i].hour = beats'[j].hour
                     PROVE  i = j
          BY <1>6 DEF HoursOnce
        <4>1. CASE i \in 1..k /\ j \in 1..k
          BY <1>6, <3>1, <4>1 DEF Following, HoursOnce
        <4>2. CASE i = k + 1 /\ j = k + 1
          BY <4>2
        <4>3. CASE i \in 1..k /\ j = k + 1
          BY <1>4, <1>5, <1>7, <2>2, <3>1, <4>3
        <4>4. CASE i = k + 1 /\ j \in 1..k
          BY <1>4, <1>5, <1>7, <2>2, <3>1, <4>4
        <4> QED
          BY <3>2, <4>1, <4>2, <4>3, <4>4
      <3>5. PollsOf(beats') = PollsOf(beats) + b.polls
        BY <1>1, <1>6, <2>2, PollsOfFacts
      <3>6. PollsWereMade'
        BY <1>1, <1>4, <3>5 DEF PollsWereMade
      <3> QED  BY <3>3, <3>4, <3>6
    <2> QED  BY <1>1, <2>1, <2>2
  <1>10. \A q \in Procs : pc'[q] = "idle" /\ MilestonesFollow(q)' /\ HoursFollow(q)'
    BY <1>2 DEF MilestonesFollow, HoursFollow
  <1>11. Known'
    BY <1>1, <1>10 DEF Following, Known
  <1> QED
    BY <1>8, <1>9, <1>10, <1>11 DEF Following

LEMMA FollowingStep ==
  ASSUME IInv, TypeOK', [Next]_vars, ~overlapped', NeverLost'
  PROVE  Following'
  <1>1. ~overlapped /\ OneByOne' /\ TypeOK
    BY OneByOneStep DEF IInv
  <1>2. NeverLost
    <2>1. meddled' = meddled \/ \E k \in Outside : meddled' = Append(meddled, k)
      BY DEF Next, Step, Start, Read, ReadNewer, MoveAside, WriteTmp, Land, WriteFails, Report,
             Die, SetClock, Meddle, history, vars
    <2>2. meddled \in Seq(Outside)
      BY <1>1 DEF TypeOK
    <2>3. ASSUME NEW k \in Outside, meddled' = Append(meddled, k) PROVE NeverLost
      BY <2>2, <2>3, Appended DEF NeverLost
    <2> QED
      BY <2>1, <2>3 DEF NeverLost
  <1>3. Following
    BY <1>1, <1>2 DEF IInv
  <1>4. file.kind # "garbage" /\ (file.kind = "absent" => file.body = freshState)
        /\ \A p \in Procs : pc[p] # "aside"
    BY <1>3 DEF Following, Known
  <1>5. ASSUME NEW p \in Procs, Step(p) PROVE Following'
    <2>1. CASE pc'[p] = "idle" /\ UNCHANGED <<file, fired, beats, polled>>
      <3>1. Step(p) /\ \A q \in Procs \ {p} : pc'[q] = pc[q] /\ mem'[q] = mem[q] /\ op'[q] = op[q]
        BY <1>1, <1>5, OwnStep
      <3>2. MilestonesFollow(p)' /\ HoursFollow(p)'
        BY <2>1 DEF MilestonesFollow, HoursFollow
      <3>3. \A q \in Procs \ {p} : MilestonesFollow(q)' /\ HoursFollow(q)'
        BY <1>3, <2>1, <3>1 DEF Following, MilestonesFollow, HoursFollow
      <3>4. Known'
        BY <1>4, <2>1, <3>1 DEF Known
      <3> QED
        BY <1>3, <2>1, <3>2, <3>3, <3>4 DEF Following, MilestonesOnce, HoursOnce, Over, PollsWereMade
    <2>2. CASE pc'[p] # "idle"
      <3>1. \A q \in Procs \ {p} : pc'[q] = "idle"
        BY <1>1, <2>2 DEF OneByOne
      <3>2. ASSUME NEW o \in Ops, Start(p, o) PROVE Following'
        <4>1. pc'[p] = "read" /\ UNCHANGED <<file, fired, beats, polled>>
          BY <1>1, <3>2 DEF Start, TypeOK
        <4> QED
          BY <1>3, <3>1, <4>1, StillFollowing DEF MilestonesFollow, HoursFollow
      <3>3. ASSUME Read(p) PROVE Following'
        <4>1. /\ pc'[p] = "change" /\ mem'[p] = parseState(file)
              /\ UNCHANGED <<file, fired, beats, polled>>
          BY <1>1, <1>4, <3>3 DEF Read, TypeOK
        <4>2. /\ mem'[p].body.flags = file.body.flags /\ mem'[p].due = {}
              /\ mem'[p].body.hour = file.body.hour /\ mem'[p].body.polls = file.body.polls
              /\ mem'[p].completed = NoBeat
          BY <1>1, <4>1, ParseFacts DEF TypeOK
        <4>3. MilestonesFollow(p)' /\ HoursFollow(p)'
          BY <4>1, <4>2 DEF MilestonesFollow, HoursFollow
        <4> QED
          BY <1>3, <3>1, <4>1, <4>3, StillFollowing
      <3>4. ASSUME WriteTmp(p) PROVE Following'
        <4>1. MilestonesFollow(p)' /\ HoursFollow(p)'
          BY <1>1, <1>3, <3>4, WriteTmpFollows
        <4>2. pc'[p] = "land" /\ UNCHANGED <<file, fired, beats, polled>>
          BY <1>1, <3>4 DEF WriteTmp, TypeOK
        <4> QED
          BY <1>3, <3>1, <4>1, <4>2, StillFollowing
      <3>5. ASSUME End(p) PROVE FALSE
        BY <1>1, <2>2, <3>5 DEF End, TypeOK
      <3> QED
        BY <1>1, <1>3, <1>4, <1>5, <3>1, <3>2, <3>3, <3>4, <3>5, LandFollows
           DEF Step, MoveAside, ReadNewer, WriteFails, Report, Die
    <2>3. CASE pc'[p] = "idle" /\ ~UNCHANGED <<file, fired, beats, polled>>
      <3>1. Report(p)
        BY <1>1, <1>5, <2>3 DEF Step, Start, Read, ReadNewer, MoveAside, WriteTmp, Land,
                                WriteFails, Die, TypeOK
      <3>2. \A q \in Procs \ {p} : pc'[q] = "idle"
        <4>1. pc[p] # "idle"
          BY <3>1 DEF Report
        <4>2. \A q \in Procs \ {p} : pc[q] = "idle"
          BY <1>1, <4>1 DEF IInv, OneByOne
        <4> QED
          BY <1>1, <1>5, <4>2, OwnStep
      <3> QED
        BY <1>1, <1>3, <3>1, <3>2, ReportFollows
    <2> QED  BY <2>1, <2>2, <2>3
  <1>6. ASSUME NEW k \in Outside, Meddle(k) PROVE Following'
    <2>1. k \notin {"absent", "garbage"}
      <3>1. meddled \in Seq(Outside) /\ meddled' = Append(meddled, k)
        BY <1>1, <1>6 DEF TypeOK, Meddle
      <3>2. Len(meddled) + 1 \in DOMAIN meddled' /\ meddled'[Len(meddled) + 1] = k
        BY <3>1
      <3> QED
        BY <3>2 DEF NeverLost
    <2>2. k \in {"malformed", "newer"}
      BY <2>1, TelemetryAssumption DEF Kinds
    <2>3. /\ file'.kind = k /\ file'.body = file.body
          /\ UNCHANGED <<pc, mem, op, fired, beats, polled>>
      BY <1>6, <2>2 DEF Meddle
    <2>4. Known'
      BY <1>4, <2>2, <2>3 DEF Known
    <2>5. \A p \in Procs : MilestonesFollow(p)' /\ HoursFollow(p)'
      BY <1>3, <2>3 DEF Following, MilestonesFollow, HoursFollow
    <2> QED
      BY <1>3, <2>3, <2>4, <2>5 DEF Following, MilestonesOnce, HoursOnce, Over, PollsWereMade
  <1>7. CASE UNCHANGED vars \/ \E h \in Hours : SetClock(h)
    <2>1. UNCHANGED <<file, pc, mem, op, fired, beats, polled>>
      BY <1>7 DEF vars, SetClock
    <2> QED
      BY <1>3, <2>1 DEF Following, Known, MilestonesOnce, HoursOnce, Over, PollsWereMade,
                        MilestonesFollow, HoursFollow
  <1> QED
    BY <1>5, <1>6, <1>7 DEF Next

THEOREM IInvHolds == Spec => []IInv
  <1>1. IInv /\ [Next]_vars => IInv'
    <2> SUFFICES ASSUME IInv, [Next]_vars PROVE IInv'
      OBVIOUS
    <2>1. TypeOK'
      BY TypeStep DEF IInv
    <2>2. ~overlapped' => OneByOne'
      BY OneByOneStep DEF IInv
    <2>3. ~overlapped' /\ NeverLost' => Following'
      BY <2>1, FollowingStep
    <2> QED
      BY <2>1, <2>2, <2>3 DEF IInv
  <1> QED
    BY <1>1, InitIInv, PTL DEF Spec

(* "What is due is queued only after the write landed" (`noteReceiptGenerated`*)
(* and its siblings): notes that follow one another report a milestone and an *)
(* hour once, and only polls that were made.                                  *)
THEOREM OnceAndOnlyOnce == Spec => []ReportedOnce
  <1>1. IInv => ReportedOnce
    BY DEF IInv, ReportedOnce, Following
  <1> QED
    BY <1>1, IInvHolds, PTL
================================================================================
