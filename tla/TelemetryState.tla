----------------------------- MODULE TelemetryState -----------------------------
(***************************************************************************)
(* The local counter file ~/.aireceipts/state.json and the commands that   *)
(* update it without a lock: `updateStateWithMeta` (src/telemetry/state.ts)*)
(* as noteRunStart, noteReceiptGenerated, noteMilestone and                *)
(* noteStatuslinePoll (src/telemetry/index.ts) call it.  Each note reads   *)
(* the file, moves it aside when it cannot be parsed, changes its own      *)
(* copy, writes that to a temporary file, renames it over the state, and   *)
(* only then queues the events due.  Notes of different processes          *)
(* interleave at every one of these file operations, a process may be      *)
(* killed between two of them, the clock may be set back, and the file may *)
(* be damaged, deleted, edited or replaced by a newer CLI meanwhile.       *)
(*                                                                         *)
(* The file's body keeps what the properties tell apart: the install id,   *)
(* the two counters, the milestones reached, and the hour the statusline   *)
(* is counting with its polls.                                             *)
(***************************************************************************)
EXTENDS Integers, Sequences, FiniteSets, SequencesExt

CONSTANTS
    Procs,     \* aireceipts processes
    Outside,   \* what may befall the file: "garbage" | "absent" | "malformed" | "newer"
    MaxNotes,  \* bound: notes ever begun
    MaxBeside, \* bound: the same, once two of them have overlapped
    MaxOutside,\* bound: times the file is touched from outside
    MaxHour    \* bound: the hours of the clock

Kinds == {"absent", "garbage", "malformed", "newer", "valid"}
Ops == {"run", "off", "receipt", "first_pr", "poll"}
Milestones == {"first_run", "first_receipt", "third_receipt", "first_pr"}
Hours == 0..MaxHour
NoHour == -1  \* the body has no statusline
NoId == 0     \* the body has no installId

ASSUME TelemetryAssumption ==
    /\ Outside \subseteq Kinds \ {"valid"}
    /\ MaxNotes \in Nat /\ MaxBeside \in Nat /\ MaxOutside \in Nat /\ MaxHour \in Nat

VARIABLES
    file,    \* the state file: how it parses, and its body
    aside,   \* what was renamed to state.json.corrupt-*, in order
    clock,   \* the hour on the wall
    pc,      \* where each process's note stands
    op,      \* which note it is
    began,   \* its number, and the hour when it began
    mem,     \* its copy of the state, with what it will report
    notes,   \* notes begun so far
    meddled, \* what was done to the file from outside, in order
    fired,   \* how often each milestone was queued
    beats,   \* the heartbeats queued
    polled,  \* polls that reached the file
    overlapped \* two notes were in progress at once

vars == <<file, aside, clock, pc, op, began, mem, notes, meddled, fired, beats,
          polled, overlapped>>

freshState ==
    [id |-> NoId, runs |-> 0, receipts |-> 0, flags |-> {}, hour |-> NoHour, polls |-> 0]

NoBeat == [hour |-> NoHour, polls |-> 0]
Fresh(recovered) ==
    [body |-> freshState, recovered |-> recovered, due |-> {}, completed |-> NoBeat]

Init ==
    /\ file = [kind |-> "absent", body |-> freshState]
    /\ aside = <<>>
    /\ clock \in Hours
    /\ pc = [p \in Procs |-> "idle"]
    /\ op = [p \in Procs |-> "run"]
    /\ began = [p \in Procs |-> [note |-> 0, hour |-> 0]]
    /\ mem = [p \in Procs |-> Fresh(FALSE)]
    /\ notes = 0
    /\ meddled = <<>>
    /\ fired = [m \in Milestones |-> 0]
    /\ beats = <<>>
    /\ polled = 0
    /\ overlapped = FALSE

history == <<aside, clock, notes, meddled, overlapped>>

(* A note is over; the process keeps nothing of it. *)
End(p) ==
    /\ pc' = [pc EXCEPT ![p] = "idle"]
    /\ op' = [op EXCEPT ![p] = "run"]
    /\ began' = [began EXCEPT ![p] = [note |-> 0, hour |-> 0]]
    /\ mem' = [mem EXCEPT ![p] = Fresh(FALSE)]

-----------------------------------------------------------------------------
(* A command begins a note. *)
Start(p, o) ==
    /\ pc[p] = "idle" /\ notes < MaxNotes
    /\ pc' = [pc EXCEPT ![p] = "read"]
    /\ op' = [op EXCEPT ![p] = o]
    /\ began' = [began EXCEPT ![p] = [note |-> notes + 1, hour |-> clock]]
    /\ notes' = notes + 1
    /\ overlapped' = (overlapped \/ \E q \in Procs : pc[q] # "idle")
    /\ overlapped' => notes < MaxBeside
    /\ UNCHANGED <<file, aside, clock, mem, meddled, fired, beats, polled>>

(* What survives of a file that is JSON: a malformed counter restarts, and  *)
(* each other field that is sound is kept.                                  *)
parseState(f) ==
    [Fresh(f.kind = "malformed") EXCEPT
        !.body = IF f.kind = "malformed"
                 THEN [f.body EXCEPT !.runs = 0, !.receipts = 0]
                 ELSE f.body]

(* readStateWithMeta. *)
Read(p) ==
    /\ pc[p] = "read" /\ file.kind # "newer"
    /\ mem' = [mem EXCEPT ![p] = parseState(file)]
    /\ pc' = [pc EXCEPT ![p] = IF file.kind = "garbage" THEN "aside" ELSE "change"]
    /\ UNCHANGED <<file, op, began, fired, beats, polled, history>>

(* The schemaVersion of a newer CLI throws: the note is given up. *)
ReadNewer(p) ==
    /\ pc[p] = "read" /\ file.kind = "newer"
    /\ End(p)
    /\ UNCHANGED <<file, fired, beats, polled, history>>

(* The rename takes whatever is at the path now; nothing there, and it fails. *)
MoveAside(p) ==
    /\ pc[p] = "aside"
    /\ aside' = IF file.kind = "absent" THEN aside ELSE Append(aside, file)
    /\ file' = [kind |-> "absent", body |-> freshState]
    /\ mem' = [mem EXCEPT ![p] = Fresh(TRUE)]
    /\ pc' = [pc EXCEPT ![p] = "change"]
    /\ UNCHANGED <<clock, op, began, notes, meddled, fired, beats, polled, overlapped>>

-----------------------------------------------------------------------------
receiptMilestoneFor(n) == CASE n = 1 -> {"first_receipt"}
                            [] n = 3 -> {"third_receipt"}
                            [] OTHER -> {}

(* Mutation: a milestone is due whenever its count comes by. *)
Reach_Again(m, s) == [m EXCEPT !.body.flags = @ \cup s, !.due = s]

(* The milestones of s not reached before: reached, and due to be reported. *)
Reach(m, s) == [m EXCEPT !.body.flags = @ \cup s, !.due = s \ m.body.flags]

(* randomUUID: an id no other note mints. *)
ensureInstallId(p, m) ==
    [m EXCEPT !.body.id = IF @ = NoId THEN began[p].note ELSE @]

CountRun(m) == Reach([m EXCEPT !.body.runs = @ + 1], {"first_run"})

(* A poll of a later hour completes the one being counted. *)
RollOver(m, h) ==
    IF m.body.hour < h
    THEN [m EXCEPT !.completed = [hour |-> m.body.hour, polls |-> m.body.polls],
                   !.body.hour = h, !.body.polls = 0]
    ELSE m

(* The mutator each kind of note passes to updateStateWithMeta. *)
noteRunStart(p, m) == ensureInstallId(p, CountRun(m))
noteRunStartOff(m) == CountRun(m)
noteReceiptGenerated(m) ==
    LET counted == [m EXCEPT !.body.receipts = @ + 1]
    IN  Reach(counted, receiptMilestoneFor(counted.body.receipts))
noteMilestone(m) == Reach(m, {"first_pr"})
noteStatuslinePoll(p, m) ==
    LET rolled == RollOver(ensureInstallId(p, CountRun(m)), began[p].hour)
    IN  [rolled EXCEPT !.body.polls = @ + 1]

(* Mutation: the state is written over the file in place. *)
WriteTmp_InPlace(p) ==
    /\ pc[p] = "change"
    /\ pc' = [pc EXCEPT ![p] = "land"]
    /\ mem' = [mem EXCEPT ![p] = noteRunStart(p, @)]
    /\ file' = [kind |-> "garbage", body |-> freshState]
    /\ UNCHANGED <<op, began, fired, beats, polled, history>>

(* mutate, then writeState up to its temporary file. *)
WriteTmp(p) ==
    /\ pc[p] = "change"
    /\ mem' = [mem EXCEPT ![p] = CASE op[p] = "run"      -> noteRunStart(p, @)
                                   [] op[p] = "off"      -> noteRunStartOff(@)
                                   [] op[p] = "receipt"  -> noteReceiptGenerated(@)
                                   [] op[p] = "first_pr" -> noteMilestone(@)
                                   [] op[p] = "poll"     -> noteStatuslinePoll(p, @)]
    /\ pc' = [pc EXCEPT ![p] = "land"]
    /\ UNCHANGED <<file, op, began, fired, beats, polled, history>>

(* writeState's rename: the copy replaces whatever the file has become. *)
Land(p) ==
    /\ pc[p] = "land"
    /\ file' = [kind |-> "valid", body |-> mem[p].body]
    /\ polled' = IF op[p] = "poll" THEN polled + 1 ELSE polled
    /\ pc' = [pc EXCEPT ![p] = "report"]
    /\ UNCHANGED <<op, began, mem, fired, beats, history>>

(* mkdir, writeFile or rename throws: updateStateWithMeta returns undefined. *)
WriteFails(p) ==
    /\ pc[p] \in {"change", "land"}
    /\ End(p)
    /\ UNCHANGED <<file, fired, beats, polled, history>>

(* The events the landed change calls for are queued; only noteMilestone    *)
(* reports a milestone from a recovered state.                              *)
Report(p) ==
    LET m == mem[p]
        due == IF m.recovered /\ op[p] # "first_pr" THEN {} ELSE m.due
    IN  /\ pc[p] = "report"
        /\ fired' = [x \in Milestones |-> IF x \in due THEN fired[x] + 1 ELSE fired[x]]
        /\ beats' = IF m.completed.polls > 0 THEN Append(beats, m.completed) ELSE beats
        /\ End(p)
        /\ UNCHANGED <<file, polled, history>>

(* The process is killed. *)
Die(p) ==
    /\ pc[p] # "idle"
    /\ End(p)
    /\ UNCHANGED <<file, fired, beats, polled, history>>

-----------------------------------------------------------------------------
(* The clock is read in hours; it may also be set back. *)
SetClock(h) ==
    /\ h # clock
    /\ clock' = h
    /\ UNCHANGED <<file, aside, pc, op, began, mem, notes, meddled, fired, beats, polled,
                   overlapped>>

(* Someone truncates, deletes or edits the file, or a newer CLI saves it:   *)
(* an edit spoils its counters, the newer CLI keeps the body.               *)
Meddle(k) ==
    /\ Len(meddled) < MaxOutside
    /\ k \in {"malformed", "newer"} => file.kind \in {"valid", "malformed"}
    /\ k \in {"absent", "garbage"} => file.kind # "newer"
    /\ file' = [kind |-> k,
                body |-> IF k \in {"malformed", "newer"} THEN file.body ELSE freshState]
    /\ meddled' = Append(meddled, k)
    /\ UNCHANGED <<aside, clock, pc, op, began, mem, notes, fired, beats, polled, overlapped>>

Step(p) ==
    \/ \E o \in Ops : Start(p, o)
    \/ Read(p)
    \/ ReadNewer(p)
    \/ MoveAside(p)
    \/ WriteTmp(p)
    \/ Land(p)
    \/ WriteFails(p)
    \/ Report(p)
    \/ Die(p)

Next ==
    \/ \E p \in Procs : Step(p)
    \/ \E h \in Hours : SetClock(h)
    \/ \E k \in Outside : Meddle(k)

Spec == Init /\ [][Next]_vars

-----------------------------------------------------------------------------
Ids == 0..MaxNotes

(* The id x is on disk and no command in progress read the file without it. *)
Settled(x) ==
    /\ file.kind \in {"valid", "malformed", "newer"}
    /\ file.body.id = x
    /\ \A p \in Procs :
           /\ pc[p] # "aside"
           /\ pc[p] \in {"change", "land"} => mem[p].body.id = x

(* "Corruption is not [acceptable], which the atomic tmp+rename write below  *)
(* guarantees" (state.ts:156): once an install id has settled, no update     *)
(* loses, changes or tears it: not by racing another one, not by being       *)
(* killed, not with telemetry turned off, not when the counters around it    *)
(* are malformed, not beside a newer CLI.  Only a hand from outside does.    *)
IdentityKept ==
    [][\A x \in Ids \ {NoId} :
           Settled(x) /\ meddled' = meddled => Settled(x)']_vars

NeverLost == \A i \in DOMAIN meddled : meddled[i] \notin {"absent", "garbage"}

MilestonesOnce ==
    \A m \in Milestones : fired[m] <= 1 /\ (fired[m] = 1 => m \in file.body.flags)

HoursOnce == \A i, j \in DOMAIN beats : beats[i].hour = beats[j].hour => i = j

(* The polls that the heartbeats bs report. *)
PollsOf(bs) ==
    LET sum[n \in 0..Len(bs)] == IF n = 0 THEN 0 ELSE sum[n - 1] + bs[n].polls
    IN  sum[Len(bs)]
PollsWereMade == PollsOf(beats) + file.body.polls <= polled

(* While no two notes overlap and the file is not lost, a milestone is       *)
(* reported at most once, and one that was reported is on disk -- whatever   *)
(* fails in between, and also when a malformed counter starts over and       *)
(* passes the milestone again.  Likewise an hour is reported at most once,   *)
(* the clock set back or not, and the polls of the reported hours and of the *)
(* one being counted were made.                                              *)
ReportedOnce ==
    ~overlapped /\ NeverLost => MilestonesOnce /\ HoursOnce /\ PollsWereMade
================================================================================
