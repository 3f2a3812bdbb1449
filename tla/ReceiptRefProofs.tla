---------------------------- MODULE ReceiptRefProofs ----------------------------
(***************************************************************************)
(* Proofs about ReceiptRef, for any branches, slugs, clones, writers,      *)
(* check runs and faults of the calls.                                     *)
(*                                                                         *)
(* The argument: a ref only ever holds receipts of its slug, and a clone's *)
(* ref its own receipts (Right).  Sessions only grow, so that a run which  *)
(* renders later renders no less.  If no run of the clone holds a receipt  *)
(* when a hook renders version n, then none will hold an older one of this *)
(* branch for good (Floor), wherever it is: not yet stored, stored but not *)
(* sent, or on its way.  So whatever this clone's runs force on the remote *)
(* after the hook's own push is no older either (Fresh); this holds until  *)
(* the run of pr-check that the push triggers has fetched (Promised).      *)
(***************************************************************************)
EXTENDS ReceiptRef, TLAPS

Run ==
    [pc : {"idle", "store", "refpush", "sending", "push"}, kind : Kinds,
     branch : Branches \cup {None}, built : Nat, sent : Receipts \cup {None},
     attached : Nat, alone : BOOLEAN]
CiRun ==
    [pc : {"idle", "fetch", "upsert", "check", "done"}, branch : Branches \cup {None},
     clone : Clones \cup {None}, payload : Receipts \cup {None}, promised : Nat,
     alone : BOOLEAN, failed : SUBSET {"fetch", "write", "read"},
     verdict : Verdicts \cup {None}]

TypeOK ==
    /\ work \in [Clones -> [Branches -> Nat]]
    /\ writer \in [Writers -> Run]
    /\ local \in [Clones -> [Slugs -> Receipts \cup {None}]]
    /\ remote \in [Slugs -> Receipts \cup {None}]
    /\ comment \in [Branches -> BOOLEAN]
    /\ ci \in [CiRuns -> CiRun]
    /\ \A w \in Writers :
          /\ writer[w].pc # "idle" => writer[w].branch \in Branches
          /\ writer[w].pc = "sending" => writer[w].sent # None
          /\ writer[w].pc # "push" => writer[w].attached = 0
    /\ \A c \in CiRuns :
          ci[c].pc \in {"fetch", "upsert", "check"} =>
             ci[c].branch \in Branches /\ ci[c].clone \in Clones

Local(w) == local[CloneOf[w]][SlugOf[writer[w].branch]]

RefsRight ==
    /\ \A k \in Clones, s \in Slugs :
          local[k][s] # None => SlugOf[local[k][s].branch] = s /\ local[k][s].clone = k
    /\ \A s \in Slugs : remote[s] # None => SlugOf[remote[s].branch] = s

RunRight(w) ==
    /\ writer[w].pc = "refpush" => Local(w) # None
    /\ writer[w].sent # None => writer[w].sent.clone = CloneOf[w]
    /\ writer[w].pc = "sending" => SlugOf[writer[w].sent.branch] = SlugOf[writer[w].branch]

Right == RefsRight /\ \A w \in Writers : RunRight(w)

(* No run of clone k holds a receipt of branch b older than version n. *)
Floor(k, b, n) ==
    /\ n <= work[k][b]
    /\ \A v \in Writers : CloneOf[v] = k =>
          /\ writer[v].pc = "store" /\ writer[v].branch = b => writer[v].built >= n
          /\ writer[v].pc = "refpush" /\ writer[v].branch = b => Local(v).version >= n
          /\ writer[v].sent # None /\ writer[v].sent.branch = b => writer[v].sent.version >= n

(* Nor does the remote, if what it has is of this clone. *)
Fresh(k, b, n) ==
    /\ remote[SlugOf[b]] # None
    /\ remote[SlugOf[b]].clone = k => remote[SlugOf[b]].version >= n

InHands == {"store", "refpush", "sending"}

VouchedFor(w) ==
    writer[w].alone /\ OwnSlug(writer[w].branch) =>
       /\ writer[w].pc \in InHands => Floor(CloneOf[w], writer[w].branch, writer[w].built)
       /\ writer[w].pc = "push" =>
             /\ Floor(CloneOf[w], writer[w].branch, writer[w].attached)
             /\ Fresh(CloneOf[w], writer[w].branch, writer[w].attached)

AttachedFor(w) ==
    writer[w].pc = "push" /\ writer[w].attached > 0 => remote[SlugOf[writer[w].branch]] # None

Vouched == \A w \in Writers : VouchedFor(w) /\ AttachedFor(w)

PromisedTo(c) ==
    ci[c].pc = "fetch" =>
       /\ ci[c].promised > 0 => remote[SlugOf[ci[c].branch]] # None
       /\ ci[c].alone /\ OwnSlug(ci[c].branch) =>
             /\ Floor(ci[c].clone, ci[c].branch, ci[c].promised)
             /\ Fresh(ci[c].clone, ci[c].branch, ci[c].promised)

Promised == \A c \in CiRuns : PromisedTo(c)

(* A run that has nothing to render was promised nothing, or a call failed. *)
Excused ==
    \A c \in CiRuns : ci[c].pc = "check" /\ ci[c].promised > 0 => ci[c].failed # {}

IInv == TypeOK /\ Right /\ Vouched /\ Promised /\ Excused /\ FreshAfterPush

-----------------------------------------------------------------------------
LEMMA SlugOfBranch == \A b \in Branches : SlugOf[b] \in Slugs
  BY DEF Slugs

LEMMA CloneOfWriter == \A w \in Writers : CloneOf[w] \in Clones
  BY DEF Clones

LEMMA NoneIsNoBranch == None \notin Branches /\ None \notin Receipts /\ None \notin Verdicts
  BY ReceiptRefAssumption

LEMMA InitIInv == Init => IInv
  <1> SUFFICES ASSUME Init PROVE IInv
    OBVIOUS
  <1>1. IdleRun \in Run /\ IdleCi \in CiRun
    BY DEF IdleRun, Run, Kinds, IdleCi, CiRun
  <1>2. TypeOK
    BY <1>1 DEF Init, TypeOK, IdleRun, IdleCi
  <1>3. Right
    BY DEF Init, Right, RefsRight, RunRight, IdleRun
  <1>4. Vouched
    BY DEF Init, Vouched, VouchedFor, AttachedFor, IdleRun
  <1>5. Promised /\ Excused /\ FreshAfterPush
    BY DEF Init, Promised, PromisedTo, Excused, FreshAfterPush, IdleCi
  <1> QED
    BY <1>2, <1>3, <1>4, <1>5 DEF IInv

(* What a run of the writer is after its command has ended. *)
LEMMA EndedFacts ==
  ASSUME NEW r \in Run, r.branch \in Branches
  PROVE  /\ Ended(r) \in Run
         /\ Ended(r).sent = r.sent
         /\ Ended(r).pc \in {"idle", "push"}
         /\ Ended(r).pc = "idle" => Ended(r).attached = 0
         /\ Ended(r).pc = "push" =>
               Ended(r).branch = r.branch /\ Ended(r).attached = r.attached
         /\ Ended(r).alone =>
               r.alone /\ Ended(r).pc = "push" /\ Ended(r).branch = r.branch /\ r.attached > 0
  BY DEF Ended, Run, IdleRun, Kinds

-----------------------------------------------------------------------------
(* What each step of a writer does to its run, and that types are kept. *)
Others(w) == \A v \in Writers \ {w} : writer'[v] = writer[v]

Same(w) ==
    /\ writer'[w].branch = writer[w].branch /\ writer'[w].built = writer[w].built
    /\ writer'[w].attached = writer[w].attached /\ writer'[w].alone = writer[w].alone

LEMMA StartFacts ==
  ASSUME TypeOK, NEW w \in Writers, NEW b \in Branches, Start(w, b)
  PROVE  /\ TypeOK' /\ Others(w)
         /\ writer[w].sent = None /\ writer'[w].sent = None
         /\ writer'[w].branch = b /\ writer'[w].attached = 0
         /\ \/ writer'[w].pc = "push" /\ ~writer'[w].alone
            \/ /\ writer'[w].pc = "store" /\ writer'[w].built = work[CloneOf[w]][b]
               /\ writer'[w].alone = Unrivalled(CloneOf[w], b)
  <1> DEFINE k == CloneOf[w]
  <1>1. work[k][b] \in Nat /\ Unrivalled(k, b) \in BOOLEAN
    BY CloneOfWriter DEF TypeOK, Unrivalled
  <1>2. PICK kind \in Kinds :
          LET run == [IdleRun EXCEPT !.kind = kind, !.branch = b]
          IN \/ kind = "hook" /\ writer' = [writer EXCEPT ![w] = Ended(run)]
             \/ writer' = [writer EXCEPT ![w] =
                    [run EXCEPT !.pc = "store", !.built = work[k][b],
                                !.alone = Unrivalled(k, b)]]
    BY DEF Start
  <1> DEFINE run == [IdleRun EXCEPT !.kind = kind, !.branch = b]
             new == [run EXCEPT !.pc = "store", !.built = work[k][b], !.alone = Unrivalled(k, b)]
  <1>3. run \in Run /\ new \in Run
    BY <1>1 DEF IdleRun, Run
  <1>4. writer[w].sent = None /\ UNCHANGED <<work, local, remote, comment, ci>>
    BY DEF Start
  <1>5. CASE writer' = [writer EXCEPT ![w] = new]
    <2>1. /\ writer' \in [Writers -> Run] /\ writer'[w] = new /\ Others(w)
      BY <1>3, <1>5 DEF TypeOK, Others
    <2>2. /\ new.pc = "store" /\ new.branch = b /\ new.sent = None /\ new.attached = 0
          /\ new.built = work[k][b] /\ new.alone = Unrivalled(k, b)
      BY DEF IdleRun
    <2> HIDE DEF new
    <2> QED
      BY <1>4, <2>1, <2>2 DEF TypeOK, Others
  <1>6. CASE kind = "hook" /\ writer' = [writer EXCEPT ![w] = Ended(run)]
    <2>1. /\ run.kind = "hook" /\ run.branch = b /\ run.sent = None /\ run.attached = 0
          /\ run.alone = FALSE
      BY <1>6 DEF IdleRun
    <2> HIDE DEF run
    <2>2. Ended(run).pc = "push"
      BY <1>3, <2>1 DEF Ended, Run
    <2>3. /\ Ended(run) \in Run /\ Ended(run).pc = "push" /\ Ended(run).branch = b
          /\ Ended(run).sent = None /\ Ended(run).attached = 0 /\ ~Ended(run).alone
      BY <1>3, <2>1, <2>2, EndedFacts
    <2>4. /\ writer' \in [Writers -> Run] /\ writer'[w] = Ended(run) /\ Others(w)
      BY <2>3, <1>6 DEF TypeOK, Others
    <2> QED
      BY <1>4, <2>3, <2>4 DEF TypeOK, Others
  <1> QED
    BY <1>2, <1>5, <1>6

(* The command's end, with or without the push it made. *)
LEMMA EndingFacts ==
  ASSUME TypeOK, NEW w \in Writers, NEW r \in Run, r.branch \in Branches,
         writer' = [writer EXCEPT ![w] = Ended(r)],
         UNCHANGED <<work, comment, ci>>,
         local' \in [Clones -> [Slugs -> Receipts \cup {None}]],
         remote' \in [Slugs -> Receipts \cup {None}]
  PROVE  TypeOK' /\ Others(w) /\ writer'[w] = Ended(r)
  <1>1. writer' \in [Writers -> Run] /\ writer'[w] = Ended(r) /\ Others(w)
    BY EndedFacts DEF TypeOK, Others
  <1> QED
    BY <1>1, EndedFacts DEF TypeOK, Others

LEMMA StoreFacts ==
  ASSUME TypeOK, NEW w \in Writers, StoreRef(w)
  PROVE  LET receipt == [branch |-> writer[w].branch, clone |-> CloneOf[w],
                         version |-> writer[w].built]
         IN /\ TypeOK' /\ Others(w) /\ receipt \in Receipts
            /\ writer'[w].sent = writer[w].sent
            /\ \/ /\ local' = [local EXCEPT ![CloneOf[w]][SlugOf[writer[w].branch]] = receipt]
                  /\ \/ writer'[w].pc = "refpush" /\ Same(w)
                     \/ writer'[w] = Ended(writer[w])
               \/ UNCHANGED local /\ writer'[w] = Ended(writer[w])
  <1> DEFINE r == writer[w]
             receipt == [branch |-> r.branch, clone |-> CloneOf[w], version |-> r.built]
             stored == [local EXCEPT ![CloneOf[w]][SlugOf[r.branch]] = receipt]
  <1>1. r \in Run /\ r.pc = "store" /\ r.branch \in Branches /\ receipt \in Receipts
    BY CloneOfWriter DEF TypeOK, StoreRef, Run, Receipts
  <1>2. stored \in [Clones -> [Slugs -> Receipts \cup {None}]]
    BY <1>1, CloneOfWriter, SlugOfBranch DEF TypeOK
  <1>3. local' \in [Clones -> [Slugs -> Receipts \cup {None}]]
    BY <1>2 DEF StoreRef, TypeOK
  <1>4. UNCHANGED <<work, remote, comment, ci>> /\ (local' = stored \/ UNCHANGED local)
    BY DEF StoreRef
  <1>5. CASE writer' = [writer EXCEPT ![w] = Ended(r)]
    <2>1. TypeOK' /\ Others(w) /\ writer'[w] = Ended(r)
      BY <1>1, <1>3, <1>5, <1>4, EndingFacts DEF TypeOK
    <2>2. writer'[w].sent = r.sent
      BY <1>1, <2>1, EndedFacts
    <2> QED
      BY <1>1, <1>4, <2>1, <2>2
  <1>6. CASE local' = stored /\ writer' = [writer EXCEPT ![w].pc = "refpush"]
    <2>1. [r EXCEPT !.pc = "refpush"] \in Run
      BY <1>1 DEF Run
    <2>2. /\ writer' \in [Writers -> Run] /\ Others(w)
          /\ writer'[w] = [r EXCEPT !.pc = "refpush"]
      BY <2>1, <1>6 DEF TypeOK, Others
    <2>3. /\ writer'[w].pc = "refpush" /\ writer'[w].branch = r.branch
          /\ writer'[w].attached = r.attached /\ writer'[w].sent = r.sent /\ Same(w)
      BY <1>1, <2>2 DEF Run, Same
    <2>4. r.attached = 0
      BY <1>1 DEF TypeOK
    <2>5. TypeOK'
      <3> HIDE DEF r, stored
      <3> QED
        BY <1>1, <1>3, <1>4, <2>2, <2>3, <2>4 DEF TypeOK, Others
    <2> QED
      BY <1>1, <1>6, <2>2, <2>3, <2>5
  <1> QED
    BY <1>1, <1>5, <1>6 DEF StoreRef, AfterFailedWrite

LEMMA SendFacts ==
  ASSUME TypeOK, Right, NEW w \in Writers, SendRef(w)
  PROVE  /\ TypeOK' /\ Others(w)
         /\ writer[w].branch \in Branches /\ Local(w) \in Receipts
         /\ writer'[w].pc = "sending" /\ writer'[w].sent = Local(w) /\ Same(w)
  <1> DEFINE r == writer[w]
             new == [r EXCEPT !.pc = "sending", !.sent = Local(w)]
  <1>1. r \in Run /\ r.branch \in Branches /\ Local(w) \in Receipts
    BY CloneOfWriter, SlugOfBranch DEF TypeOK, Right, RunRight, SendRef, Local
  <1>2. writer' = [writer EXCEPT ![w] = new]
    BY DEF SendRef, Local
  <1>3. /\ new \in Run /\ new.pc = "sending" /\ new.branch = r.branch
        /\ new.sent = Local(w) /\ Local(w) # None /\ new.attached = r.attached
        /\ new.built = r.built /\ new.alone = r.alone
    BY <1>1, NoneIsNoBranch DEF Run
  <1> HIDE DEF new
  <1>4. writer' \in [Writers -> Run] /\ Others(w) /\ writer'[w] = new
    BY <1>2, <1>3 DEF TypeOK, Others
  <1>5. TypeOK'
    BY <1>1, <1>3, <1>4 DEF TypeOK, SendRef, Others
  <1> QED
    BY <1>1, <1>3, <1>4, <1>5 DEF Same

LEMMA ArriveFacts ==
  ASSUME TypeOK, NEW w \in Writers, RefArrives(w)
  PROVE  /\ TypeOK' /\ Others(w) /\ writer[w].sent \in Receipts
         /\ writer'[w].sent = None
         /\ \/ remote' = [remote EXCEPT ![SlugOf[writer[w].sent.branch]] = writer[w].sent]
            \/ UNCHANGED remote
         /\ \/ /\ writer[w].pc # "sending" /\ Same(w) /\ writer'[w].pc = writer[w].pc
            \/ /\ writer[w].pc = "sending" /\ writer'[w].pc \in {"idle", "push"}
               /\ writer'[w].pc = "push" => writer'[w].branch = writer[w].branch
               /\ writer'[w].attached > 0 =>
                     /\ writer'[w].attached = writer[w].built
                     /\ remote' = [remote EXCEPT ![SlugOf[writer[w].sent.branch]] = writer[w].sent]
               /\ writer'[w].alone =>
                     writer[w].alone /\ writer'[w].pc = "push" /\ writer'[w].attached > 0
  <1> DEFINE r == [writer[w] EXCEPT !.sent = None]
             done == [r EXCEPT !.attached = r.built]
             forced == [remote EXCEPT ![SlugOf[writer[w].sent.branch]] = writer[w].sent]
  <1>1. writer[w] \in Run /\ writer[w].sent \in Receipts /\ writer[w].sent.branch \in Branches
    BY DEF TypeOK, RefArrives, Run, Receipts
  <1>2. /\ r \in Run /\ done \in Run /\ r.sent = None /\ done.sent = None
        /\ r.pc = writer[w].pc /\ r.branch = writer[w].branch /\ done.branch = writer[w].branch
        /\ r.attached = writer[w].attached /\ done.attached = writer[w].built
        /\ r.built = writer[w].built /\ r.alone = writer[w].alone /\ done.alone = writer[w].alone
    BY <1>1 DEF Run
  <1>3. /\ UNCHANGED <<work, local, comment, ci>>
        /\ remote' = forced \/ UNCHANGED remote
    BY DEF RefArrives
  <1>4. remote' \in [Slugs -> Receipts \cup {None}]
    BY <1>1, <1>3, SlugOfBranch DEF TypeOK
  <1>5. CASE writer[w].pc = "sending"
    <2>1. /\ writer[w].branch \in Branches /\ writer[w].attached = 0
          /\ local' \in [Clones -> [Slugs -> Receipts \cup {None}]]
      BY <1>3, <1>5 DEF TypeOK
    <2>2. \/ remote' = forced /\ writer' = [writer EXCEPT ![w] = Ended(done)]
          \/ writer' = [writer EXCEPT ![w] = Ended(r)]
      BY <1>2, <1>5 DEF RefArrives
    <2> HIDE DEF r, done, forced
    <2>3. CASE remote' = forced /\ writer' = [writer EXCEPT ![w] = Ended(done)]
      <3>1. TypeOK' /\ Others(w) /\ writer'[w] = Ended(done)
        BY <1>2, <1>3, <1>4, <2>1, <2>3, EndingFacts
      <3> QED
        BY <1>1, <1>2, <1>5, <2>1, <2>3, <3>1, EndedFacts DEF forced
    <2>4. CASE writer' = [writer EXCEPT ![w] = Ended(r)]
      <3>1. TypeOK' /\ Others(w) /\ writer'[w] = Ended(r)
        BY <1>2, <1>3, <1>4, <2>1, <2>4, EndingFacts
      <3>2. writer'[w].attached = 0 /\ ~writer'[w].alone
        BY <1>2, <2>1, <3>1, EndedFacts
      <3> QED
        BY <1>1, <1>2, <1>3, <1>5, <2>1, <3>1, <3>2, EndedFacts DEF forced
    <2> QED  BY <2>2, <2>3, <2>4
  <1>6. CASE writer[w].pc # "sending"
    <2>1. writer' = [writer EXCEPT ![w] = r]
      BY <1>2, <1>6 DEF RefArrives
    <2> HIDE DEF r, done, forced
    <2>2. writer' \in [Writers -> Run] /\ writer'[w] = r /\ Others(w)
      BY <1>2, <2>1 DEF TypeOK, Others
    <2>3. TypeOK'
      BY <1>2, <1>3, <1>4, <1>6, <2>2 DEF TypeOK, Others
    <2> QED
      BY <1>1, <1>2, <1>3, <1>6, <2>2, <2>3 DEF forced, Same
  <1> QED  BY <1>5, <1>6

LEMMA DiesFacts ==
  ASSUME TypeOK, NEW w \in Writers, Dies(w)
  PROVE  /\ TypeOK' /\ Others(w) /\ writer'[w].sent = writer[w].sent
         /\ writer'[w].pc \in {"idle", "push"}
         /\ writer'[w].attached = 0 /\ ~writer'[w].alone
  <1>1. writer[w] \in Run /\ writer[w].branch \in Branches /\ writer[w].attached = 0
    BY DEF TypeOK, Dies
  <1>2. TypeOK' /\ Others(w) /\ writer'[w] = Ended(writer[w])
    <2> SUFFICES /\ local' \in [Clones -> [Slugs -> Receipts \cup {None}]]
                 /\ remote' \in [Slugs -> Receipts \cup {None}]
      BY <1>1, EndingFacts DEF Dies
    <2> QED
      BY DEF TypeOK, Dies
  <1> QED
    BY <1>1, <1>2, EndedFacts

(* The push may start a run of pr-check, for what its hook has attached. *)
LEMMA PushedFacts ==
  ASSUME TypeOK, NEW w \in Writers, BranchPushed(w)
  PROVE  /\ TypeOK' /\ Others(w)
         /\ writer'[w].pc = "idle" /\ writer'[w].sent = writer[w].sent /\ ~writer'[w].alone
         /\ \A c \in CiRuns :
               \/ ci'[c] = ci[c]
               \/ /\ ci'[c].pc = "fetch" /\ ci'[c].verdict = ci[c].verdict
                  /\ ci'[c].branch = writer[w].branch /\ ci'[c].clone = CloneOf[w]
                  /\ ci'[c].promised = writer[w].attached
                  /\ ci'[c].alone = writer[w].alone
  <1> DEFINE r == writer[w]
             new == [IdleRun EXCEPT !.sent = r.sent]
             Event(c) == [ci[c] EXCEPT !.pc = "fetch", !.branch = r.branch,
                                       !.clone = CloneOf[w], !.promised = r.attached,
                                       !.alone = r.alone]
  <1>1. r \in Run /\ r.branch \in Branches /\ CloneOf[w] \in Clones
    BY CloneOfWriter DEF TypeOK, BranchPushed
  <1>2. /\ new \in Run /\ new.pc = "idle" /\ new.sent = r.sent /\ ~new.alone
        /\ new.attached = 0
    BY <1>1 DEF IdleRun, Run, Kinds
  <1>3. /\ writer' = [writer EXCEPT ![w] = new] /\ UNCHANGED <<work, local, remote, comment>>
        /\ \/ UNCHANGED ci
           \/ \E c \in CiRuns : ci' = [ci EXCEPT ![c] = Event(c)]
    BY DEF BranchPushed
  <1>4. \A c \in CiRuns :
           /\ Event(c) \in CiRun /\ Event(c).pc = "fetch" /\ Event(c).verdict = ci[c].verdict
           /\ Event(c).branch = r.branch /\ Event(c).clone = CloneOf[w]
           /\ Event(c).promised = r.attached /\ Event(c).alone = r.alone
    <2> SUFFICES ASSUME NEW c \in CiRuns PROVE
           /\ Event(c) \in CiRun /\ Event(c).pc = "fetch" /\ Event(c).verdict = ci[c].verdict
           /\ Event(c).branch = r.branch /\ Event(c).clone = CloneOf[w]
           /\ Event(c).promised = r.attached /\ Event(c).alone = r.alone
      OBVIOUS
    <2>1. ci[c] \in CiRun /\ r.attached \in Nat /\ r.alone \in BOOLEAN
      BY <1>1 DEF TypeOK, Run
    <2> HIDE DEF r
    <2> QED
      BY <1>1, <2>1 DEF CiRun
  <1> HIDE DEF new, Event
  <1>5. writer' \in [Writers -> Run] /\ writer'[w] = new /\ Others(w)
    BY <1>2, <1>3 DEF TypeOK, Others
  <1>6. /\ ci' \in [CiRuns -> CiRun]
        /\ \A c \in CiRuns : ci'[c] \in {ci[c], Event(c)}
    BY <1>3, <1>4 DEF TypeOK
  <1>7. TypeOK'
    <2>1. \A c \in CiRuns : ci'[c].pc \in {"fetch", "upsert", "check"} =>
             ci'[c].branch \in Branches /\ ci'[c].clone \in Clones
      BY <1>1, <1>4, <1>6 DEF TypeOK
    <2>2. \A v \in Writers : /\ writer'[v].pc # "idle" => writer'[v].branch \in Branches
                             /\ writer'[v].pc = "sending" => writer'[v].sent # None
                             /\ writer'[v].pc # "push" => writer'[v].attached = 0
      BY <1>2, <1>5 DEF TypeOK, Others
    <2> QED
      BY <1>3, <1>5, <1>6, <2>1, <2>2 DEF TypeOK
  <1> QED
    BY <1>2, <1>4, <1>5, <1>6, <1>7

-----------------------------------------------------------------------------
(* A ref only holds receipts of its slug, and a clone's only its own. *)
LEMMA OthersRight ==
  ASSUME Right, NEW w \in Writers, Others(w), UNCHANGED local
  PROVE  \A v \in Writers \ {w} : RunRight(v)'
  BY DEF Right, RunRight, Others, Local

LEMMA StoreRight ==
  ASSUME TypeOK, Right, NEW w \in Writers, StoreRef(w)
  PROVE  Right'
  <1> DEFINE b == writer[w].branch
             receipt == [branch |-> b, clone |-> CloneOf[w], version |-> writer[w].built]
  <1>1. /\ b \in Branches /\ receipt \in Receipts /\ UNCHANGED remote /\ Others(w)
        /\ writer'[w].sent = writer[w].sent /\ writer'[w].pc # "sending"
        /\ \/ /\ local' = [local EXCEPT ![CloneOf[w]][SlugOf[b]] = receipt]
              /\ writer'[w].pc = "refpush" => writer'[w].branch = b
           \/ UNCHANGED local /\ writer'[w].pc # "refpush"
    <2>1. writer[w] \in Run /\ b \in Branches /\ UNCHANGED remote
      BY DEF StoreRef, TypeOK
    <2>2. /\ Ended(writer[w]).pc \notin {"sending", "refpush"}
      BY <2>1, EndedFacts
    <2> QED
      BY <2>1, <2>2, StoreFacts DEF Same
  <1>2. receipt # None /\ SlugOf[receipt.branch] = SlugOf[b] /\ receipt.clone = CloneOf[w]
    BY <1>1, NoneIsNoBranch
  <1> HIDE DEF b, receipt
  <1>3. CASE UNCHANGED local /\ writer'[w].pc # "refpush"
    <2>1. RunRight(w)'
      BY <1>1, <1>3 DEF Right, RunRight
    <2> QED
      BY <1>1, <1>3, <2>1, OthersRight DEF Right, RefsRight
  <1>4. CASE /\ local' = [local EXCEPT ![CloneOf[w]][SlugOf[b]] = receipt]
             /\ writer'[w].pc = "refpush" => writer'[w].branch = b
    <2>1. \A k \in Clones, s \in Slugs :
             \/ local'[k][s] = local[k][s]
             \/ k = CloneOf[w] /\ s = SlugOf[b] /\ local'[k][s] = receipt
      BY <1>4 DEF TypeOK
    <2>2. local'[CloneOf[w]][SlugOf[b]] = receipt
      BY <1>1, <1>4, CloneOfWriter, SlugOfBranch DEF TypeOK
    <2>3. RefsRight'
      BY <1>1, <1>2, <2>1 DEF Right, RefsRight
    <2>4. RunRight(w)'
      BY <1>1, <1>2, <1>4, <2>2 DEF Right, RunRight, Local
    <2>5. ASSUME NEW v \in Writers, v # w PROVE RunRight(v)'
      <3>1. writer'[v] = writer[v] /\ RunRight(v)
        BY <1>1, <2>5 DEF Others, Right
      <3>2. writer[v].pc = "refpush" => Local(v)' # None
        <4> SUFFICES ASSUME writer[v].pc = "refpush" PROVE Local(v)' # None
          OBVIOUS
        <4>1. writer[v].branch \in Branches
          BY DEF TypeOK
        <4> QED
          BY <1>2, <2>1, <3>1, <4>1, CloneOfWriter, SlugOfBranch DEF Local, RunRight
      <3> QED
        BY <3>1, <3>2 DEF RunRight
    <2> QED
      BY <2>3, <2>4, <2>5 DEF Right
  <1> QED
    BY <1>1, <1>3, <1>4

LEMMA SendRight ==
  ASSUME TypeOK, Right, NEW w \in Writers, SendRef(w)
  PROVE  Right'
  <1>1. Others(w) /\ UNCHANGED <<local, remote>> /\ Local(w) \in Receipts
    BY SendFacts DEF SendRef
  <1>2. /\ writer'[w].pc = "sending" /\ writer'[w].branch = writer[w].branch
        /\ writer'[w].sent = Local(w) /\ writer[w].branch \in Branches
    BY SendFacts DEF Same
  <1>3. SlugOf[Local(w).branch] = SlugOf[writer[w].branch] /\ Local(w).clone = CloneOf[w]
    BY <1>1, <1>2, CloneOfWriter, SlugOfBranch, NoneIsNoBranch DEF Right, RefsRight, Local
  <1>4. RunRight(w)'
    BY <1>2, <1>3 DEF RunRight
  <1> QED
    BY <1>1, <1>4, OthersRight DEF Right, RefsRight

LEMMA ArriveRight ==
  ASSUME TypeOK, Right, NEW w \in Writers, RefArrives(w)
  PROVE  Right'
  <1>1. /\ Others(w) /\ writer[w].sent \in Receipts /\ writer'[w].sent = None
        /\ UNCHANGED local
        /\ \/ remote' = [remote EXCEPT ![SlugOf[writer[w].sent.branch]] = writer[w].sent]
           \/ UNCHANGED remote
    BY ArriveFacts DEF RefArrives
  <1>2. /\ writer'[w].pc # "sending"
        /\ writer'[w].pc = "refpush" =>
              writer[w].pc = "refpush" /\ writer'[w].branch = writer[w].branch
    BY ArriveFacts DEF Same
  <1>3. \A s \in Slugs : \/ remote'[s] = remote[s]
                         \/ s = SlugOf[writer[w].sent.branch] /\ remote'[s] = writer[w].sent
    BY <1>1 DEF TypeOK
  <1>4. RefsRight'
    BY <1>1, <1>3 DEF Right, RefsRight
  <1>5. RunRight(w)'
    BY <1>1, <1>2 DEF Right, RunRight, Local
  <1> QED
    BY <1>1, <1>4, <1>5, OthersRight DEF Right

LEMMA RightKept ==
  ASSUME TypeOK, Right, NEW w \in Writers,
         (\E b \in Branches : Start(w, b)) \/ WriterStep(w)
  PROVE  Right'
  <1>1. CASE StoreRef(w) \/ SendRef(w) \/ RefArrives(w)
    BY <1>1, StoreRight, SendRight, ArriveRight
  <1>2. CASE (\E b \in Branches : Start(w, b)) \/ Dies(w) \/ BranchPushed(w)
    <2>1. UNCHANGED <<local, remote>> /\ Others(w)
      BY <1>2, StartFacts, DiesFacts, PushedFacts DEF Start, Dies, BranchPushed
    <2>2. /\ writer'[w].pc \in {"idle", "push", "store"}
          /\ writer'[w].sent = writer[w].sent
      BY <1>2, StartFacts, DiesFacts, PushedFacts
    <2>3. RunRight(w)'
      BY <2>2 DEF Right, RunRight
    <2> QED
      BY <2>1, <2>3, OthersRight DEF Right, RefsRight
  <1> QED
    BY <1>1, <1>2 DEF WriterStep

(* What no step of a writer takes back. *)
Stays(k, b, n) ==
    /\ Floor(k, b, n) => Floor(k, b, n)'
    /\ Floor(k, b, n) /\ Fresh(k, b, n) => Fresh(k, b, n)'

NoRefLost == \A s \in Slugs : remote[s] # None => remote'[s] # None

(* Steps that leave the remote alone can only break the floor at the run   *)
(* they are of.                                                            *)
LEMMA StartStays ==
  ASSUME TypeOK, NEW w \in Writers, NEW q \in Branches, Start(w, q),
         NEW k \in Clones, NEW b \in Branches, NEW n \in Nat
  PROVE  Stays(k, b, n)
  <1>1. /\ Others(w) /\ writer'[w].sent = None /\ writer'[w].branch = q
        /\ \/ writer'[w].pc = "push"
           \/ writer'[w].pc = "store" /\ writer'[w].built = work[CloneOf[w]][q]
    BY StartFacts
  <1>2. UNCHANGED <<work, local, remote>>
    BY DEF Start
  <1> QED
    BY <1>1, <1>2 DEF Stays, Floor, Fresh, Others, Local

LEMMA StopStays ==
  ASSUME TypeOK, NEW w \in Writers, Dies(w) \/ BranchPushed(w),
         NEW k \in Clones, NEW b \in Branches, NEW n \in Nat
  PROVE  Stays(k, b, n)
  <1>1. /\ Others(w) /\ UNCHANGED <<work, local, remote>>
        /\ writer'[w].pc \in {"idle", "push"} /\ writer'[w].sent = writer[w].sent
    BY DiesFacts, PushedFacts DEF Dies, BranchPushed
  <1> QED
    BY <1>1 DEF Stays, Floor, Fresh, Others, Local

LEMMA StoreStays ==
  ASSUME TypeOK, Right, NEW w \in Writers, StoreRef(w),
         NEW k \in Clones, NEW b \in Branches, OwnSlug(b), NEW n \in Nat
  PROVE  Stays(k, b, n)
  <1> DEFINE q == writer[w].branch
             receipt == [branch |-> q, clone |-> CloneOf[w], version |-> writer[w].built]
  <1>1. /\ Others(w) /\ UNCHANGED <<work, remote>> /\ writer[w].pc = "store"
        /\ q \in Branches /\ writer'[w].sent = writer[w].sent
        /\ \/ /\ local' = [local EXCEPT ![CloneOf[w]][SlugOf[q]] = receipt]
              /\ writer'[w].pc = "refpush" => writer'[w].branch = q
           \/ UNCHANGED local /\ writer'[w].pc # "refpush"
        /\ writer'[w].pc # "store"
    <2>1. writer[w] \in Run /\ q \in Branches /\ UNCHANGED <<work, remote>> /\ writer[w].pc = "store"
      BY DEF StoreRef, TypeOK
    <2>2. Ended(writer[w]).pc \notin {"store", "refpush"}
      BY <2>1, EndedFacts
    <2> QED
      BY <2>1, <2>2, StoreFacts DEF Same
  <1>2. SUFFICES ASSUME Floor(k, b, n) PROVE Floor(k, b, n)'
    BY <1>1 DEF Stays, Fresh
  <1>3. receipt.version = writer[w].built
    OBVIOUS
  <1> HIDE DEF q, receipt
  <1>4. CloneOf[w] = k /\ q = b => receipt.version >= n
    BY <1>1, <1>2, <1>3 DEF Floor, q
  <1>5. ASSUME NEW v \in Writers, CloneOf[v] = k, writer'[v].pc = "refpush",
               writer'[v].branch = b
        PROVE  Local(v)'.version >= n
    <2>1. v # w => writer[v].pc = "refpush" /\ writer[v].branch = b /\ Local(v).version >= n
      BY <1>1, <1>2, <1>5 DEF Others, Floor
    <2>2. \A kk \in Clones, s \in Slugs :
             \/ local'[kk][s] = local[kk][s]
             \/ kk = CloneOf[w] /\ s = SlugOf[q] /\ local'[kk][s] = receipt
      BY <1>1 DEF TypeOK
    <2>3. \/ local'[k][SlugOf[b]] = local[k][SlugOf[b]]
          \/ local'[k][SlugOf[b]] = receipt /\ CloneOf[w] = k /\ q = b
      BY <1>1, <2>2, SlugOfBranch DEF OwnSlug
    <2>4. v = w => q = b /\ local'[k][SlugOf[b]] = receipt
      BY <1>1, <1>5, CloneOfWriter, SlugOfBranch DEF TypeOK
    <2> QED
      BY <1>4, <1>5, <2>1, <2>3, <2>4 DEF Local, Others
  <1> QED
    BY <1>1, <1>2, <1>5 DEF Floor, Others

LEMMA SendStays ==
  ASSUME TypeOK, Right, NEW w \in Writers, SendRef(w),
         NEW k \in Clones, NEW b \in Branches, OwnSlug(b), NEW n \in Nat
  PROVE  Stays(k, b, n)
  <1>1. /\ Others(w) /\ UNCHANGED <<work, local, remote>> /\ writer[w].pc = "refpush"
        /\ writer'[w].pc = "sending" /\ writer'[w].sent = Local(w)
    BY SendFacts DEF SendRef
  <1>2. SlugOf[Local(w).branch] = SlugOf[writer[w].branch]
    BY SendFacts, CloneOfWriter, SlugOfBranch, NoneIsNoBranch DEF Right, RefsRight, Local
  <1>3. Local(w).branch = b => writer[w].branch = b
    BY <1>2, SendFacts DEF OwnSlug
  <1> QED
    BY <1>1, <1>3 DEF Stays, Floor, Fresh, Others, Local

LEMMA ArriveStays ==
  ASSUME TypeOK, Right, NEW w \in Writers, RefArrives(w),
         NEW k \in Clones, NEW b \in Branches, OwnSlug(b), NEW n \in Nat
  PROVE  Stays(k, b, n)
  <1>1. /\ Others(w) /\ UNCHANGED <<work, local>> /\ writer[w].sent \in Receipts
        /\ writer'[w].sent = None
        /\ writer'[w].pc \in {"store", "refpush"} =>
              /\ writer'[w].pc = writer[w].pc /\ writer'[w].branch = writer[w].branch
              /\ writer'[w].built = writer[w].built
        /\ \/ remote' = [remote EXCEPT ![SlugOf[writer[w].sent.branch]] = writer[w].sent]
           \/ UNCHANGED remote
    BY ArriveFacts DEF RefArrives, Same
  <1>2. Floor(k, b, n) => Floor(k, b, n)'
    BY <1>1 DEF Floor, Others, Local
  <1>3. ASSUME Floor(k, b, n), Fresh(k, b, n) PROVE Fresh(k, b, n)'
    <2>1. CASE remote'[SlugOf[b]] = remote[SlugOf[b]]
      BY <1>3, <2>1 DEF Fresh
    <2>2. CASE remote'[SlugOf[b]] # remote[SlugOf[b]]
      <3>1. remote'[SlugOf[b]] = writer[w].sent /\ SlugOf[writer[w].sent.branch] = SlugOf[b]
        BY <1>1, <2>2, SlugOfBranch DEF TypeOK
      <3>2. writer[w].sent.branch = b /\ writer[w].sent # None
        BY <1>1, <3>1, NoneIsNoBranch DEF OwnSlug, Receipts
      <3>3. writer[w].sent.clone = CloneOf[w]
        BY <3>2 DEF Right, RunRight
      <3> QED
        BY <1>3, <3>1, <3>2, <3>3 DEF Fresh, Floor
    <2> QED  BY <2>1, <2>2
  <1> QED
    BY <1>2, <1>3 DEF Stays

LEMMA WritersKeep ==
  ASSUME TypeOK, Right, NEW w \in Writers,
         (\E q \in Branches : Start(w, q)) \/ WriterStep(w)
  PROVE  /\ \A k \in Clones, b \in Branches, n \in Nat : OwnSlug(b) => Stays(k, b, n)
         /\ NoRefLost
  <1>1. ASSUME NEW k \in Clones, NEW b \in Branches, NEW n \in Nat, OwnSlug(b)
        PROVE  Stays(k, b, n)
    BY <1>1, StartStays, StopStays, StoreStays, SendStays, ArriveStays DEF WriterStep
  <1>2. CASE RefArrives(w)
    <2>1. /\ writer[w].sent # None
          /\ \/ remote' = [remote EXCEPT ![SlugOf[writer[w].sent.branch]] = writer[w].sent]
             \/ UNCHANGED remote
      BY <1>2, ArriveFacts DEF RefArrives
    <2> QED
      BY <1>1, <2>1 DEF NoRefLost, TypeOK
  <1>3. CASE ~RefArrives(w)
    BY <1>1, <1>3 DEF WriterStep, NoRefLost, Start, StoreRef, SendRef, Dies, BranchPushed
  <1> QED
    BY <1>2, <1>3

(* What a run vouches for stays so if it goes on with the same receipt. *)
LEMMA SameVouched ==
  ASSUME TypeOK, Vouched, NEW v \in Writers, Same(v) \/ writer'[v] = writer[v],
         writer'[v].pc \in InHands <=> writer[v].pc \in InHands,
         writer'[v].pc = "push" <=> writer[v].pc = "push",
         \A k \in Clones, b \in Branches, n \in Nat : OwnSlug(b) => Stays(k, b, n),
         NoRefLost
  PROVE  VouchedFor(v)' /\ AttachedFor(v)'
  <1> DEFINE r == writer[v]
  <1>1. /\ writer'[v].branch = r.branch /\ writer'[v].built = r.built
        /\ writer'[v].attached = r.attached /\ writer'[v].alone = r.alone
    BY DEF Same
  <1>2. /\ r.built \in Nat /\ r.attached \in Nat /\ CloneOf[v] \in Clones
        /\ r.pc \in InHands \cup {"push"} => r.branch \in Branches
    BY CloneOfWriter DEF TypeOK, Run, InHands
  <1>3. VouchedFor(v)'
    <2> SUFFICES ASSUME writer'[v].alone, OwnSlug(r.branch)
                 PROVE  /\ r.pc \in InHands => Floor(CloneOf[v], r.branch, r.built)'
                        /\ r.pc = "push" =>
                              /\ Floor(CloneOf[v], r.branch, r.attached)'
                              /\ Fresh(CloneOf[v], r.branch, r.attached)'
      BY <1>1 DEF VouchedFor, OwnSlug, Floor, Fresh
    <2>1. CASE r.pc \in InHands
      <3>1. Floor(CloneOf[v], r.branch, r.built)
        BY <1>1, <2>1 DEF Vouched, VouchedFor
      <3>2. Stays(CloneOf[v], r.branch, r.built)
        BY <1>2, <2>1
      <3> QED
        BY <2>1, <3>1, <3>2 DEF Stays, InHands, Floor
    <2>2. CASE r.pc = "push"
      <3>1. Floor(CloneOf[v], r.branch, r.attached) /\ Fresh(CloneOf[v], r.branch, r.attached)
        BY <1>1, <2>2 DEF Vouched, VouchedFor
      <3>2. Stays(CloneOf[v], r.branch, r.attached)
        BY <1>2, <2>2
      <3> QED
        BY <2>2, <3>1, <3>2 DEF Stays, InHands, Floor, Fresh
    <2> QED  BY <2>1, <2>2
  <1>4. AttachedFor(v)'
    BY <1>1, <1>2, SlugOfBranch DEF Vouched, AttachedFor, NoRefLost
  <1> QED  BY <1>3, <1>4

(* Nothing to vouch for: the run has neither attached nor rendered, or is  *)
(* not alone.                                                              *)
LEMMA NotVouching ==
  ASSUME NEW w \in Writers, ~writer'[w].alone,
         writer'[w].pc = "push" => writer'[w].attached = 0
  PROVE  VouchedFor(w)' /\ AttachedFor(w)'
  BY DEF VouchedFor, AttachedFor

LEMMA StartVouched ==
  ASSUME TypeOK, NEW w \in Writers, NEW b \in Branches, Start(w, b)
  PROVE  VouchedFor(w)' /\ AttachedFor(w)'
  <1> DEFINE k == CloneOf[w]
  <1>1. /\ Others(w) /\ writer'[w].sent = None /\ writer'[w].branch = b
        /\ writer'[w].attached = 0 /\ UNCHANGED <<work, local, remote>>
        /\ \/ writer'[w].pc = "push" /\ ~writer'[w].alone
           \/ /\ writer'[w].pc = "store" /\ writer'[w].built = work[k][b]
              /\ writer'[w].alone = Unrivalled(k, b)
    BY StartFacts DEF Start
  <1>2. CASE ~writer'[w].alone
    BY <1>1, <1>2, NotVouching
  <1>3. CASE writer'[w].alone
    <2>1. /\ writer'[w].pc = "store" /\ writer'[w].built = work[k][b] /\ Unrivalled(k, b)
      BY <1>1, <1>3
    <2>2. \A v \in Writers \ {w} : writer'[v] = writer[v] /\ ~InHand(v, k, SlugOf[b])
      BY <1>1, <2>1 DEF Others, Unrivalled
    <2>3. work[k][b] \in Nat
      BY CloneOfWriter DEF TypeOK
    <2>4. Floor(CloneOf[w], writer[w].branch, writer[w].built)'
      BY <1>1, <2>1, <2>2, <2>3 DEF Floor, InHand
    <2> QED
      BY <2>1, <2>4 DEF VouchedFor, AttachedFor
  <1> QED  BY <1>2, <1>3

LEMMA ArriveVouched ==
  ASSUME TypeOK, Right, Vouched, NEW w \in Writers, RefArrives(w),
         \A k \in Clones, b \in Branches, n \in Nat : OwnSlug(b) => Stays(k, b, n),
         NoRefLost
  PROVE  VouchedFor(w)' /\ AttachedFor(w)'
  <1>1. CASE writer[w].pc # "sending"
    <2>1. Same(w) /\ writer'[w].pc = writer[w].pc
      BY <1>1, ArriveFacts
    <2> QED
      BY <2>1, SameVouched
  <1>2. CASE writer[w].pc = "sending"
    <2> DEFINE k == CloneOf[w]
    <2>1. writer[w].branch \in Branches /\ writer[w].built \in Nat /\ writer[w].sent \in Receipts
      BY <1>2, ArriveFacts DEF TypeOK, Run
    <2>2. PICK b \in Branches, n \in Nat, sent \in Receipts :
             b = writer[w].branch /\ n = writer[w].built /\ sent = writer[w].sent
      BY <2>1
    <2>3. k \in Clones /\ sent # None /\ SlugOf[sent.branch] = SlugOf[b]
      BY <1>2, <2>2, CloneOfWriter DEF RefArrives, Right, RunRight
    <2>4. /\ writer'[w].pc \in {"idle", "push"}
          /\ writer'[w].pc = "push" => writer'[w].branch = b
          /\ writer'[w].attached > 0 =>
                writer'[w].attached = n /\ remote' = [remote EXCEPT ![SlugOf[sent.branch]] = sent]
          /\ writer'[w].alone =>
                writer[w].alone /\ writer'[w].pc = "push" /\ writer'[w].attached > 0
      BY <1>2, <2>2, ArriveFacts
    <2>5. writer'[w].attached > 0 => remote'[SlugOf[b]] = sent
      BY <2>3, <2>4, SlugOfBranch DEF TypeOK
    <2>6. AttachedFor(w)'
      BY <2>3, <2>4, <2>5, NoneIsNoBranch DEF AttachedFor
    <2>7. ASSUME writer'[w].alone, OwnSlug(b)
          PROVE  Floor(k, b, n)' /\ Fresh(k, b, n)'
      <3>1. Floor(k, b, n)
        BY <1>2, <2>4, <2>7, <2>2 DEF Vouched, VouchedFor, InHands
      <3>2. Floor(k, b, n)'
        BY <2>3, <2>7, <3>1 DEF Stays
      <3>3. sent.branch = b /\ sent.version >= n
        BY <2>3, <2>7, <2>2, <3>1 DEF OwnSlug, Receipts, Floor
      <3> QED
        BY <2>3, <2>4, <2>5, <2>7, <3>2, <3>3 DEF Fresh
    <2>8. VouchedFor(w)'
      <3> SUFFICES ASSUME writer'[w].alone, OwnSlug(writer'[w].branch)
                   PROVE  /\ writer'[w].pc = "push"
                          /\ Floor(CloneOf[w], writer[w].branch, writer[w].attached)'
                          /\ Fresh(CloneOf[w], writer[w].branch, writer[w].attached)'
        BY DEF VouchedFor, InHands, OwnSlug
      <3>1. writer'[w].pc = "push" /\ writer'[w].branch = b /\ writer'[w].attached = n
        BY <2>4
      <3> QED
        BY <2>7, <3>1 DEF Floor, Fresh
    <2> QED  BY <2>6, <2>8
  <1> QED  BY <1>1, <1>2

LEMMA VouchedKept ==
  ASSUME TypeOK, Right, Vouched, NEW w \in Writers,
         (\E q \in Branches : Start(w, q)) \/ WriterStep(w)
  PROVE  Vouched'
  <1>1. /\ \A k \in Clones, b \in Branches, n \in Nat : OwnSlug(b) => Stays(k, b, n)
        /\ NoRefLost
    BY WritersKeep
  <1>2. Others(w)
    BY StartFacts, StoreFacts, SendFacts, ArriveFacts, DiesFacts, PushedFacts DEF WriterStep
  <1>3. ASSUME NEW v \in Writers, v # w PROVE VouchedFor(v)' /\ AttachedFor(v)'
    BY <1>1, <1>2, <1>3, SameVouched DEF Others
  <1>4. ASSUME StoreRef(w) PROVE VouchedFor(w)' /\ AttachedFor(w)'
    <2>1. writer[w] \in Run /\ writer[w].pc = "store" /\ writer[w].branch \in Branches
          /\ writer[w].attached = 0
      BY <1>4 DEF StoreRef, TypeOK
    <2>2. CASE writer'[w].pc = "refpush" /\ Same(w)
      BY <1>1, <2>1, <2>2, SameVouched DEF InHands
    <2>3. CASE writer'[w] = Ended(writer[w])
      BY <2>1, <2>3, EndedFacts, NotVouching
    <2> QED  BY <1>4, <2>2, <2>3, StoreFacts
  <1>5. ASSUME SendRef(w) PROVE VouchedFor(w)' /\ AttachedFor(w)'
    BY <1>1, <1>5, SendFacts, SameVouched DEF SendRef, InHands
  <1>6. ASSUME RefArrives(w) PROVE VouchedFor(w)' /\ AttachedFor(w)'
    BY <1>1, <1>6, ArriveVouched
  <1>7. ASSUME Dies(w) \/ BranchPushed(w) PROVE VouchedFor(w)' /\ AttachedFor(w)'
    BY <1>7, DiesFacts, PushedFacts, NotVouching
  <1>8. VouchedFor(w)' /\ AttachedFor(w)'
    BY <1>4, <1>5, <1>6, <1>7, StartVouched DEF WriterStep
  <1> QED
    BY <1>3, <1>8 DEF Vouched

-----------------------------------------------------------------------------
(* A promise stays kept while its run has not fetched. *)
LEMMA SamePromised ==
  ASSUME TypeOK, Promised, NEW c \in CiRuns, ci'[c] = ci[c],
         \A k \in Clones, b \in Branches, n \in Nat : OwnSlug(b) => Stays(k, b, n),
         NoRefLost
  PROVE  PromisedTo(c)'
  <1> SUFFICES ASSUME ci[c].pc = "fetch" PROVE PromisedTo(c)'
    BY DEF PromisedTo
  <1>1. ci[c].branch \in Branches /\ ci[c].clone \in Clones /\ ci[c].promised \in Nat
    BY DEF TypeOK, CiRun
  <1>2. PICK b \in Branches, k \in Clones, n \in Nat :
           b = ci[c].branch /\ k = ci[c].clone /\ n = ci[c].promised
    BY <1>1
  <1>3. n > 0 => remote'[SlugOf[b]] # None
    BY <1>2, SlugOfBranch DEF Promised, PromisedTo, NoRefLost
  <1>4. ci[c].alone /\ OwnSlug(b) => Floor(k, b, n)' /\ Fresh(k, b, n)'
    BY <1>2 DEF Promised, PromisedTo, Stays
  <1> QED
    BY <1>2, <1>3, <1>4 DEF PromisedTo

LEMMA WriterKeeps ==
  ASSUME IInv, NEW w \in Writers, (\E q \in Branches : Start(w, q)) \/ WriterStep(w)
  PROVE  IInv'
  <1> USE DEF IInv
  <1>1. TypeOK' /\ Right' /\ Vouched'
    BY StartFacts, StoreFacts, SendFacts, ArriveFacts, DiesFacts, PushedFacts, RightKept,
       VouchedKept DEF WriterStep
  <1>2. /\ \A k \in Clones, b \in Branches, n \in Nat : OwnSlug(b) => Stays(k, b, n)
        /\ NoRefLost
    BY WritersKeep
  <1>3. CASE UNCHANGED ci
    <2>1. Promised'
      BY <1>2, <1>3, SamePromised DEF Promised
    <2>2. Excused' /\ FreshAfterPush'
      BY <1>3 DEF Excused, FreshAfterPush, OwnSlug
    <2> QED
      BY <1>1, <2>1, <2>2
  <1>4. CASE BranchPushed(w)
    <2>1. writer[w].branch \in Branches /\ writer[w].attached \in Nat /\ writer[w].pc = "push"
          /\ CloneOf[w] \in Clones
      BY <1>4, CloneOfWriter DEF BranchPushed, TypeOK, Run
    <2>2. PICK b \in Branches, n \in Nat : b = writer[w].branch /\ n = writer[w].attached
      BY <2>1
    <2>3. \A c \in CiRuns :
             \/ ci'[c] = ci[c]
             \/ /\ ci'[c].pc = "fetch" /\ ci'[c].branch = b /\ ci'[c].clone = CloneOf[w]
                /\ ci'[c].promised = n /\ ci'[c].alone = writer[w].alone
      BY <1>4, <2>2, PushedFacts
    <2>4. n > 0 => remote[SlugOf[b]] # None
      BY <2>1, <2>2 DEF Vouched, AttachedFor
    <2>5. writer[w].alone /\ OwnSlug(b) => Floor(CloneOf[w], b, n) /\ Fresh(CloneOf[w], b, n)
      BY <2>1, <2>2 DEF Vouched, VouchedFor
    <2>6. ASSUME NEW c \in CiRuns PROVE PromisedTo(c)'
      <3>1. CASE ci'[c] = ci[c]
        BY <1>2, <3>1, SamePromised
      <3>2. CASE /\ ci'[c].pc = "fetch" /\ ci'[c].branch = b /\ ci'[c].clone = CloneOf[w]
                 /\ ci'[c].promised = n /\ ci'[c].alone = writer[w].alone
        <4>1. n > 0 => remote'[SlugOf[b]] # None
          BY <1>2, <2>4, SlugOfBranch DEF NoRefLost
        <4>2. writer[w].alone /\ OwnSlug(b) => Floor(CloneOf[w], b, n)' /\ Fresh(CloneOf[w], b, n)'
          BY <1>2, <2>1, <2>5 DEF Stays
        <4> QED
          BY <3>2, <4>1, <4>2 DEF PromisedTo
      <3> QED
        BY <2>3, <3>1, <3>2
    <2>7. Excused' /\ FreshAfterPush'
      BY <2>3 DEF Excused, FreshAfterPush, OwnSlug
    <2> QED
      BY <1>1, <2>6, <2>7 DEF Promised
  <1> QED
    BY <1>3, <1>4 DEF WriterStep, Start, StoreRef, SendRef, RefArrives, Dies

LEMMA DeveloperKeeps ==
  ASSUME IInv, (\E k \in Clones, b \in Branches : Work(k, b)) \/ (\E b \in Branches : Post(b))
  PROVE  IInv'
  <1> USE DEF IInv
  <1>1. /\ UNCHANGED <<writer, local, remote, ci>>
        /\ work' \in [Clones -> [Branches -> Nat]] /\ comment' \in [Branches -> BOOLEAN]
        /\ \A k \in Clones, b \in Branches : work'[k][b] >= work[k][b]
    <2>1. ASSUME NEW q \in Clones, NEW p \in Branches, Work(q, p)
          PROVE  /\ UNCHANGED <<writer, local, remote, comment, ci>>
                 /\ work' \in [Clones -> [Branches -> Nat]]
                 /\ \A k \in Clones, b \in Branches : work'[k][b] >= work[k][b]
      <3>1. work' = [work EXCEPT ![q][p] = @ + 1] /\ work \in [Clones -> [Branches -> Nat]]
        BY <2>1 DEF Work, TypeOK
      <3>2. \A k \in Clones, b \in Branches :
               /\ work[k][b] \in Nat
               /\ work'[k][b] = work[k][b] \/ work'[k][b] = work[k][b] + 1
        BY <3>1
      <3> QED
        BY <2>1, <3>1, <3>2 DEF Work
    <2>2. ASSUME NEW p \in Branches, Post(p)
          PROVE  UNCHANGED <<work, writer, local, remote, ci>> /\ comment' \in [Branches -> BOOLEAN]
      BY <2>2 DEF Post, TypeOK
    <2> QED
      BY <2>1, <2>2 DEF TypeOK
  <1>2. TypeOK'
    BY <1>1 DEF TypeOK
  <1>3. Right'
    BY <1>1 DEF Right, RefsRight, RunRight, Local
  <1>4. /\ \A k \in Clones, b \in Branches, n \in Nat : OwnSlug(b) => Stays(k, b, n)
        /\ NoRefLost
    <2> SUFFICES ASSUME NEW k \in Clones, NEW b \in Branches, NEW n \in Nat
                 PROVE  Stays(k, b, n)
      BY <1>1 DEF NoRefLost
    <2>1. work'[k][b] >= work[k][b] /\ work[k][b] \in Nat /\ work'[k][b] \in Nat
      BY <1>1 DEF TypeOK
    <2> QED
      BY <1>1, <2>1 DEF Stays, Floor, Fresh, Local
  <1>5. Vouched'
    BY <1>1, <1>4, SameVouched DEF Vouched
  <1>6. Promised'
    BY <1>1, <1>4, SamePromised DEF Promised
  <1>7. Excused' /\ FreshAfterPush'
    BY <1>1 DEF Excused, FreshAfterPush, OwnSlug
  <1> QED
    BY <1>2, <1>3, <1>5, <1>6, <1>7

-----------------------------------------------------------------------------
(* What a step of pr-check does to its run. *)
CiAfter(c) ==
    /\ ci' \in [CiRuns -> CiRun] /\ \A d \in CiRuns \ {c} : ci'[d] = ci[d]
    /\ ci'[c].pc \in {"upsert", "check"} =>
          /\ ci'[c].branch = ci[c].branch /\ ci'[c].clone = ci[c].clone
          /\ ci'[c].promised = ci[c].promised /\ ci'[c].alone = ci[c].alone
    /\ ci'[c].pc # "fetch"
    /\ ci'[c].pc = "upsert" =>
          /\ ci[c].pc = "fetch" /\ remote[FetchSlug(c)] # None
          /\ ci'[c].payload = remote[FetchSlug(c)]
    /\ ci'[c].pc = "check" =>
          \/ ci'[c].failed # {}
          \/ ci[c].pc = "fetch" /\ remote[FetchSlug(c)] = None

(* A run calls the receipt missing for want of a comment, or of a listing. *)
CallsMissing(c) ==
    /\ ci[c].pc = "check"
    /\ \/ "read" \in ci'[c].failed
       \/ ~comment[ci[c].branch] /\ ci'[c].failed = ci[c].failed

LEMMA VerdictFacts ==
  ASSUME TypeOK, NEW c \in CiRuns, NEW v \in Verdicts,
         NEW failed \in SUBSET {"fetch", "write", "read"}, Verdict(c, v, failed)
  PROVE  CiAfter(c) /\ ci'[c].verdict = v /\ ci'[c].failed = failed
  <1> DEFINE new == [IdleCi EXCEPT !.pc = "done", !.failed = failed, !.verdict = v]
  <1>1. /\ new \in CiRun /\ new.pc = "done" /\ new.failed = failed /\ new.verdict = v
    BY DEF IdleCi, CiRun
  <1>2. ci' = [ci EXCEPT ![c] = new]
    BY DEF Verdict
  <1> HIDE DEF new
  <1> QED
    BY <1>1, <1>2 DEF TypeOK, CiAfter

LEMMA LookAgainFacts ==
  ASSUME TypeOK, NEW c \in CiRuns, NEW call \in {"fetch", "write", "read"}, LookAgain(c, call)
  PROVE  CiAfter(c) /\ ci'[c].verdict = ci[c].verdict
  <1> DEFINE failed == ci[c].failed \cup {call}
             new == [ci[c] EXCEPT !.pc = "check", !.payload = None, !.failed = failed]
  <1>1. ci' = [ci EXCEPT ![c] = new]
    BY DEF LookAgain
  <1>2. ci[c] \in CiRun
    BY DEF TypeOK
  <1>3. ci[c].failed \in SUBSET {"fetch", "write", "read"}
    BY <1>2 DEF CiRun
  <1>4. failed \in SUBSET {"fetch", "write", "read"} /\ failed # {}
    BY <1>3
  <1> HIDE DEF failed
  <1>5. /\ new \in CiRun /\ new.pc = "check" /\ new.failed # {}
        /\ new.branch = ci[c].branch /\ new.clone = ci[c].clone
        /\ new.promised = ci[c].promised /\ new.alone = ci[c].alone
        /\ new.verdict = ci[c].verdict
    BY <1>2, <1>4 DEF CiRun
  <1> HIDE DEF new
  <1> QED
    BY <1>2, <1>1, <1>5 DEF TypeOK, CiAfter

LEMMA FetchFacts ==
  ASSUME TypeOK, NEW c \in CiRuns, CiFetch(c)
  PROVE  CiAfter(c) /\ ci'[c].verdict = ci[c].verdict
  <1> DEFINE got == [ci[c] EXCEPT !.pc = "upsert", !.payload = remote[FetchSlug(c)]]
             none == [ci[c] EXCEPT !.pc = "check"]
  <1>1. /\ ci[c] \in CiRun /\ ci[c].pc = "fetch" /\ remote[FetchSlug(c)] \in Receipts \cup {None}
    BY SlugOfBranch DEF TypeOK, CiFetch, FetchSlug
  <1>2. CASE "fetch" \in Faults /\ LookAgain(c, "fetch")
    <2>1. LookAgain(c, "fetch") /\ "fetch" \in {"fetch", "write", "read"}
      BY <1>2
    <2> HIDE DEF got, none
    <2> QED
      BY <2>1, LookAgainFacts
  <1>3. CASE remote[FetchSlug(c)] # None /\ ci' = [ci EXCEPT ![c] = got]
    <2>1. /\ got \in CiRun /\ got.pc = "upsert" /\ got.payload = remote[FetchSlug(c)]
          /\ got.branch = ci[c].branch /\ got.clone = ci[c].clone
          /\ got.promised = ci[c].promised /\ got.alone = ci[c].alone
          /\ got.verdict = ci[c].verdict
      BY <1>1 DEF CiRun
    <2> HIDE DEF got
    <2> QED
      BY <1>1, <1>3, <2>1 DEF TypeOK, CiAfter
  <1>4. CASE remote[FetchSlug(c)] = None /\ ci' = [ci EXCEPT ![c] = none]
    <2>1. /\ none \in CiRun /\ none.pc = "check"
          /\ none.branch = ci[c].branch /\ none.clone = ci[c].clone
          /\ none.promised = ci[c].promised /\ none.alone = ci[c].alone
          /\ none.verdict = ci[c].verdict
      BY <1>1 DEF CiRun
    <2> HIDE DEF none
    <2> QED
      BY <1>1, <1>4, <2>1 DEF TypeOK, CiAfter
  <1> QED
    BY <1>2, <1>3, <1>4 DEF CiFetch

LEMMA CiStepFacts ==
  ASSUME TypeOK, NEW c \in CiRuns, CiStep(c)
  PROVE  /\ ci[c].branch \in Branches /\ ci[c].clone \in Clones /\ CiAfter(c)
         /\ ci[c].verdict = None /\ ci'[c].verdict = Missing => CallsMissing(c)
  <1>1. /\ ci[c] \in CiRun /\ ci[c].branch \in Branches /\ ci[c].clone \in Clones
    BY DEF TypeOK, CiStep, CiFetch, CiUpsert, CiUpsertFails, CiCheck, CiDies
  <1>2. /\ ci[c].failed \in SUBSET {"fetch", "write", "read"}
        /\ "found" \in Verdicts /\ "error" \in Verdicts /\ Missing \in Verdicts
        /\ Missing \notin {"found", "error"} /\ None \notin Verdicts
    BY <1>1, NoneIsNoBranch DEF CiRun, Verdicts, Missing
  <1>3. CASE CiFetch(c) \/ CiUpsertFails(c)
    <2>1. CiAfter(c) /\ ci'[c].verdict = ci[c].verdict
      BY <1>3, FetchFacts, LookAgainFacts DEF CiUpsertFails
    <2> QED
      BY <1>1, <1>2, <2>1
  <1>4. CASE CiUpsert(c) \/ CiDies(c)
    <2>1. CiAfter(c) /\ ci'[c].verdict \in {"found", "error"}
      BY <1>2, <1>4, VerdictFacts DEF CiUpsert, CiDies
    <2> QED
      BY <1>1, <1>2, <2>1
  <1>5. CASE CiCheck(c)
    <2>1. CASE Verdict(c, "found", {})
      BY <1>1, <1>2, <2>1, VerdictFacts
    <2>2. CASE ~comment[ci[c].branch] /\ Verdict(c, Missing, ci[c].failed)
      BY <1>1, <1>2, <1>5, <2>2, VerdictFacts DEF CallsMissing, CiCheck
    <2>3. CASE "read" \in Faults /\ Verdict(c, Missing, ci[c].failed \cup {"read"})
      <3>1. ci[c].failed \cup {"read"} \in SUBSET {"fetch", "write", "read"}
        BY <1>2
      <3> QED
        BY <1>1, <1>2, <1>5, <2>3, <3>1, VerdictFacts DEF CallsMissing, CiCheck
    <2> QED
      BY <1>5, <2>1, <2>2, <2>3 DEF CiCheck
  <1> QED
    BY <1>3, <1>4, <1>5 DEF CiStep

LEMMA CiKeeps ==
  ASSUME IInv, NEW c \in CiRuns, CiStep(c)
  PROVE  IInv'
  <1> USE DEF IInv
  <1>1. ci[c].branch \in Branches /\ ci[c].clone \in Clones /\ CiAfter(c)
    BY CiStepFacts
  <1>2. UNCHANGED <<work, writer, local, remote>> /\ comment' \in [Branches -> BOOLEAN]
    BY DEF TypeOK, CiStep, CiFetch, CiUpsert, CiUpsertFails, CiCheck, CiDies
  <1>3. TypeOK'
    BY <1>1, <1>2 DEF TypeOK, CiAfter
  <1>4. Right' /\ Vouched'
    BY <1>2 DEF Right, RefsRight, RunRight, Local, Vouched, VouchedFor, AttachedFor, Floor, Fresh,
       OwnSlug
  <1>5. Promised'
    BY <1>1, <1>2 DEF Promised, PromisedTo, Floor, Fresh, Local, OwnSlug, CiAfter
  <1>6. Excused'
    <2>1. ci'[c].pc = "check" /\ ci'[c].promised > 0 => ci'[c].failed # {}
      BY <1>1 DEF Promised, PromisedTo, CiAfter, FetchSlug
    <2> QED
      BY <1>1, <2>1 DEF Excused, CiAfter
  <1>7. FreshAfterPush'
    <2> SUFFICES ASSUME NEW d \in CiRuns, ci'[d].pc = "upsert", OwnSlug(ci'[d].branch)
                 PROVE  /\ ci'[d].payload.branch = ci'[d].branch
                        /\ ci'[d].alone /\ ci'[d].payload.clone = ci'[d].clone =>
                              ci'[d].payload.version >= ci'[d].promised
      BY DEF FreshAfterPush, OwnSlug
    <2>1. CASE d # c
      BY <1>1, <2>1 DEF FreshAfterPush, CiAfter
    <2>2. CASE d = c
      <3> DEFINE ref == remote[SlugOf[ci[c].branch]]
      <3>1. /\ ci[c].pc = "fetch" /\ ref # None /\ ci'[c].payload = ref
            /\ ci'[c].branch = ci[c].branch /\ ci'[c].clone = ci[c].clone
            /\ ci'[c].promised = ci[c].promised /\ ci'[c].alone = ci[c].alone
        BY <1>1, <2>2 DEF CiAfter, FetchSlug
      <3>2. ref \in Receipts /\ SlugOf[ref.branch] = SlugOf[ci[c].branch]
        BY <1>1, <3>1, SlugOfBranch DEF TypeOK, Right, RefsRight
      <3>3. ref.branch = ci[c].branch
        BY <2>2, <3>1, <3>2 DEF OwnSlug, Receipts
      <3>4. ci[c].alone /\ ref.clone = ci[c].clone => ref.version >= ci[c].promised
        BY <2>2, <3>1 DEF Promised, PromisedTo, Fresh
      <3> QED
        BY <2>2, <3>1, <3>3, <3>4
    <2> QED  BY <2>1, <2>2
  <1> QED
    BY <1>3, <1>4, <1>5, <1>6, <1>7

LEMMA StutterKeeps == IInv /\ UNCHANGED vars => IInv'
  <1> SUFFICES ASSUME IInv, UNCHANGED vars PROVE IInv'
    OBVIOUS
  <1> USE DEF IInv, vars
  <1>1. TypeOK' /\ Right'
    BY DEF TypeOK, Right, RefsRight, RunRight, Local
  <1>2. Vouched'
    BY DEF Vouched, VouchedFor, AttachedFor, Floor, Fresh, Local, OwnSlug
  <1>3. Promised' /\ Excused' /\ FreshAfterPush'
    BY DEF Promised, PromisedTo, Floor, Fresh, Local, Excused, FreshAfterPush, OwnSlug
  <1> QED
    BY <1>1, <1>2, <1>3

(* The inductive invariant holds in every reachable state. *)
THEOREM IInvHolds == Spec => []IInv
  <1>1. IInv /\ [Next]_vars => IInv'
    BY DeveloperKeeps, WriterKeeps, CiKeeps, StutterKeeps DEF Next
  <1> QED
    BY <1>1, InitIInv, PTL DEF Spec

(* Every variable keeps its type. *)
THEOREM Typing == Spec => []TypeOK
  <1>1. IInv => TypeOK
    BY DEF IInv
  <1> QED
    BY <1>1, IInvHolds, PTL

(* The check run that a push triggers renders a receipt of its branch and  *)
(* no older one of the clone than this push's hook has attached, unless    *)
(* another run had one in hand: for any number of branches, clones, hooks  *)
(* and manual runs at a time, whatever fails and is killed, as long as no  *)
(* other branch has the same slug.                                         *)
THEOREM ChecksAreFresh == Spec => []FreshAfterPush
  <1>1. IInv => FreshAfterPush
    BY DEF IInv
  <1> QED
    BY <1>1, IInvHolds, PTL

(* A receipt that is there, as a comment or because this push has attached *)
(* it, is called missing only by a run of which a call has failed; of a    *)
(* comment that is there, only if the comments could not be listed.        *)
THEOREM NoAlarmIsFalse == Spec => NoFalseAlarm
  <1>1. IInv /\ [Next]_vars =>
          [\A c \in CiRuns :
              ci[c].verdict = None /\ ci'[c].verdict = Missing =>
                 \/ "read" \in ci'[c].failed
                 \/ /\ ~comment[ci[c].branch]
                    /\ ci[c].promised = 0 \/ ci'[c].failed # {}]_vars
    <2> SUFFICES ASSUME IInv, Next, NEW c \in CiRuns,
                        ci[c].verdict = None, ci'[c].verdict = Missing
                 PROVE  \/ "read" \in ci'[c].failed
                        \/ /\ ~comment[ci[c].branch]
                           /\ ci[c].promised = 0 \/ ci'[c].failed # {}
      BY DEF vars
    <2>1. TypeOK /\ Excused /\ Missing \in Verdicts /\ None \notin Verdicts
      BY NoneIsNoBranch DEF IInv, Missing, Verdicts
    <2>2. PICK d \in CiRuns : CiStep(d)
      BY <2>1, PushedFacts DEF Next, Work, Post, WriterStep, Start, StoreRef, SendRef, RefArrives,
         Dies
    <2>3. d = c
      <3>1. CiAfter(d)
        BY <2>1, <2>2, CiStepFacts
      <3> QED
        BY <2>1, <3>1 DEF CiAfter
    <2>4. CallsMissing(c)
      BY <2>1, <2>2, <2>3, CiStepFacts
    <2>5. ci[c].promised \in Nat
      BY <2>1 DEF TypeOK, CiRun
    <2> QED
      BY <2>1, <2>4, <2>5 DEF CallsMissing, Excused
  <1> QED
    BY <1>1, IInvHolds, PTL DEF Spec, NoFalseAlarm
================================================================================
