-------------------------------- MODULE Backfill --------------------------------
(***************************************************************************)
(* `aireceipts backfill --out <dir>`: one receipt file for each session on *)
(* the machine, and a manifest, index.txt, that names them                 *)
(* (src/cli/commands/backfill.ts over src/aggregate/backfill.ts).  A run   *)
(* lists the sessions, looks whether the directory is absent, empty, or an *)
(* earlier backfill's, and then writes the files one by one, the manifest  *)
(* last.  Runs are killed, overlap and follow each other; sessions begin   *)
(* meanwhile, which renumbers the others; the user has files of their own, *)
(* edited receipts among them.                                             *)
(*                                                                         *)
(* A file name is <<sequence number, its width, slug>>.  What a receipt    *)
(* says is the session it is about.                                        *)
(***************************************************************************)
EXTENDS Integers, Sequences, FiniteSets, SequencesExt

CONSTANTS
    Backfillers, \* runs of the command
    Recorded,    \* the sessions there may be
    SlugOf,      \* slugForId, by session: not injective
    EndedAt,     \* by session, 0 if no time is recorded
    Unreadable,  \* sessions that discovery lists as degraded
    Filters,     \* the flags: [since, limit], 0 if not given
    Taken,       \* names, as of receipts, that the user has files by
    Wide,        \* matches from which on a number has two digits; ten in the code
    MaxMeddling  \* bound: what the user does to the directory

(* `--limit` takes a positive integer. *)
ASSUME BackfillAssumption == \A flags \in Filters : flags.limit \in Nat

VARIABLES
    discovered, \* the sessions listed, newest first
    there,      \* the directory exists
    files,      \* what is in it, by name
    at,         \* where each run stands
    plan,       \* its BackfillPlan
    cursor,     \* the entry it has come to
    written,    \* the names it has written
    meddled,    \* what the user did so far
    late,       \* runs whose look at the directory is older than that
    ours,       \* a run put its manifest there, and the user left it alone
    crossed,    \* runs during whose writing someone else wrote
    settled     \* the last run, if it finished and nobody else wrote since

backfillVars == <<discovered, there, files, at, plan, cursor, written, meddled, late, ours,
          crossed, settled>>
ghosts == <<meddled, late, ours, crossed, settled>>
locals == <<plan, cursor, written>>

Nobody == "nobody"
Index == <<0, 0, "index.txt">>
Notes == <<0, 0, "notes.txt">>
MANIFEST_MARKER == "# aireceipts backfill manifest v1"
Receipt(s) == [marker |-> "receipt", of |-> s, names |-> <<>>]
Theirs == [marker |-> "theirs", of |-> Nobody, names |-> <<>>]
Cut == [marker |-> "", of |-> Nobody, names |-> <<>>] \* opened, nothing in it yet
buildManifest(names) == [marker |-> MANIFEST_MARKER, of |-> Nobody, names |-> names]

BackfillInit ==
    /\ discovered = <<>>
    /\ there = FALSE
    /\ files = <<>>
    /\ at = [p \in Backfillers |-> "idle"]
    /\ plan = [p \in Backfillers |-> <<>>]
    /\ cursor = [p \in Backfillers |-> 1]
    /\ written = [p \in Backfillers |-> <<>>]
    /\ meddled = 0
    /\ late = {}
    /\ ours = FALSE
    /\ crossed = {}
    /\ settled = Nobody

-----------------------------------------------------------------------------
(* The kth of some positions. *)
Nth(positions, k) == CHOOSE i \in positions : Cardinality({j \in positions : j <= i}) = k

(* A session without a recorded time is never filtered out by one. *)
filterSummaries(flags) ==
    LET recent == {i \in DOMAIN discovered :
                      EndedAt[discovered[i]] = 0 \/ EndedAt[discovered[i]] >= flags.since}
        matches == Cardinality(recent)
        kept == IF flags.limit = 0 \/ matches < flags.limit THEN matches ELSE flags.limit
    IN  [k \in 1..kept |-> discovered[Nth(recent, k)]]

(* Mutation: a file is named by its session alone. *)
backfillFileName_Slug(seq, matched, s) == <<1, 1, SlugOf[s]>>

(* The number is as wide as the count of the sessions that match. *)
backfillFileName(seq, matched, s) == <<seq, IF matched < Wide THEN 1 ELSE 2, SlugOf[s]>>

planBackfill(flags) ==
    LET matched == filterSummaries(flags)
    IN  [i \in DOMAIN matched |->
            [session |-> matched[i], loadFailed |-> matched[i] \in Unreadable,
             name |-> backfillFileName(i, Len(matched), matched[i])]]

(* Mutation: any index.txt is taken for a manifest. *)
safeToWrite_AnyIndex == there => DOMAIN files = {} \/ Index \in DOMAIN files

(* Absent, empty, or with a manifest that begins with the marker. *)
safeToWrite ==
    there => \/ DOMAIN files = {}
             \/ Index \in DOMAIN files /\ files[Index].marker = MANIFEST_MARKER

GoTo(p, where) == at' = [at EXCEPT ![p] = where]

(* The sessions are listed; none that matches, and there is nothing to do. *)
ListSessions(p, flags) ==
    /\ at[p] = "idle"
    /\ plan' = [plan EXCEPT ![p] = planBackfill(flags)]
    /\ GoTo(p, IF planBackfill(flags) = <<>> THEN "done" ELSE "look")
    /\ UNCHANGED <<discovered, there, files, cursor, written, ghosts>>

Look(p) ==
    /\ at[p] = "look"
    /\ GoTo(p, IF safeToWrite THEN "mkdir" ELSE "refused")
    /\ UNCHANGED <<discovered, there, files, locals, ghosts>>

MakeDir(p) ==
    /\ at[p] = "mkdir"
    /\ there' = TRUE
    /\ GoTo(p, "next")
    /\ UNCHANGED <<discovered, files, locals, ghosts>>

PlanEntry(p) == plan[p][cursor[p]]

(* loadSession answers null, or discovery had said so: counted, not dropped. *)
LoadFails(p) ==
    /\ at[p] = "next" /\ cursor[p] \in DOMAIN plan[p]
    /\ plan' = [plan EXCEPT ![p][cursor[p]].loadFailed = TRUE]
    /\ cursor' = [cursor EXCEPT ![p] = @ + 1]
    /\ UNCHANGED <<discovered, there, files, at, written, ghosts>>

Put(name, content) ==
    files' = [n \in DOMAIN files \cup {name} |-> IF n = name THEN content ELSE files[n]]

Writing == {p \in Backfillers : at[p] \in {"mkdir", "next", "receipt", "index"}}

(* One run writes, a manifest if it is done; whoever else is at it has been *)
(* crossed.                                                                *)
Touch(p) ==
    /\ ours' = (ours \/ (at'[p] = "done" /\ Index \in DOMAIN files))
    /\ crossed' = crossed \cup (Writing \ {p})
    /\ settled' = IF at'[p] = "done" /\ p \notin crossed THEN p ELSE Nobody
    /\ UNCHANGED <<meddled, late>>

(* writeFile truncates, and then writes. *)
Open(p, name, where) ==
    /\ there
    /\ Put(name, Cut)
    /\ GoTo(p, where)
    /\ Touch(p)
    /\ UNCHANGED <<discovered, there, locals>>

(* The directory may have been removed under the open file. *)
Fill(name, content) ==
    IF name \in DOMAIN files THEN Put(name, content) ELSE UNCHANGED files

OpenReceipt(p) ==
    /\ at[p] = "next" /\ cursor[p] \in DOMAIN plan[p] /\ ~PlanEntry(p).loadFailed
    /\ Open(p, PlanEntry(p).name, "receipt")

WriteReceipt(p) ==
    /\ at[p] = "receipt"
    /\ Fill(PlanEntry(p).name, Receipt(PlanEntry(p).session))
    /\ written' = [written EXCEPT ![p] = Append(@, PlanEntry(p).name)]
    /\ cursor' = [cursor EXCEPT ![p] = @ + 1]
    /\ GoTo(p, "next")
    /\ Touch(p)
    /\ UNCHANGED <<discovered, there, plan>>

OpenIndex(p) ==
    /\ at[p] = "next" /\ cursor[p] \notin DOMAIN plan[p]
    /\ Open(p, Index, "index")

(* The manifest and the report: the run is over. *)
WriteIndex(p) ==
    /\ at[p] = "index"
    /\ Fill(Index, buildManifest(written[p]))
    /\ GoTo(p, "done")
    /\ Touch(p)
    /\ UNCHANGED <<discovered, there, locals>>

(* The process has ended without its report. *)
Ends(p, how) ==
    /\ GoTo(p, how)
    /\ plan' = [plan EXCEPT ![p] = <<>>]
    /\ cursor' = [cursor EXCEPT ![p] = 1]
    /\ written' = [written EXCEPT ![p] = <<>>]
    /\ UNCHANGED <<discovered, there, files, ghosts>>

(* The directory is gone: writeFile throws. *)
WriteFails(p) ==
    /\ at[p] = "next" /\ ~there
    /\ Ends(p, "failed")

BackfillDies(p) ==
    /\ at[p] \in {"look", "mkdir", "next", "receipt", "index"}
    /\ Ends(p, "killed")

-----------------------------------------------------------------------------
(* A session begins, and is the newest. *)
SessionBegins(s) ==
    /\ s \notin ToSet(discovered)
    /\ discovered' = <<s>> \o discovered
    /\ UNCHANGED <<there, files, at, locals, ghosts>>

(* The user makes the directory or puts a file into it, takes one away, or *)
(* removes it all.                                                         *)
Meddle(n, content) ==
    /\ meddled < MaxMeddling
    /\ meddled' = meddled + 1
    /\ \/ there' = TRUE /\ Put(n, content)
       \/ there /\ n \in DOMAIN files /\ files' = Restrict(files, DOMAIN files \ {n}) /\ UNCHANGED there
       \/ there' = FALSE /\ files' = <<>>
    /\ late' = late \cup Writing
    /\ ours' = (ours /\ there' /\ n # Index)
    /\ crossed' = crossed \cup Writing
    /\ settled' = Nobody
    /\ UNCHANGED <<discovered, at, locals>>

BackfillRun(p) ==
    \/ \E flags \in Filters : ListSessions(p, flags)
    \/ Look(p) \/ MakeDir(p) \/ LoadFails(p)
    \/ OpenReceipt(p) \/ WriteReceipt(p) \/ OpenIndex(p) \/ WriteIndex(p)
    \/ WriteFails(p) \/ BackfillDies(p)

BackfillNext ==
    \/ \E p \in Backfillers : BackfillRun(p)
    \/ \E s \in Recorded : SessionBegins(s)
    \/ \E n \in {Notes, Index} \cup Taken : Meddle(n, Theirs)

BackfillSpec == BackfillInit /\ [][BackfillNext]_backfillVars

-----------------------------------------------------------------------------
(* A run that finished undisturbed leaves a directory that the next one    *)
(* accepts, whatever runs had been killed there or overlapped before it:   *)
(* the manifest names, in order, one whole receipt for each session that   *)
(* matched and could be read, and no name stands for two.                  *)
FinishedMeansIndexed ==
    settled # Nobody =>
        LET entries == plan[settled]
            loaded == {i \in DOMAIN entries : ~entries[i].loadFailed}
            names == files[Index].names
        IN  /\ safeToWrite
            /\ ToSet(names) = {entries[i].name : i \in loaded}
            /\ \A a, b \in DOMAIN names : a < b => names[a][1] < names[b][1]
            /\ \A i \in loaded :
                  /\ entries[i].name \in DOMAIN files
                  /\ files[entries[i].name] = Receipt(entries[i].session)

(* R4, backfill.ts:5: "refusing to clobber a directory it cannot prove is  *)
(* a prior backfill's".  A file of the user's is lost only                 *)
(*  - under a name the run plans to write, in a directory with a manifest   *)
(*    that a finished run put there and the user left alone: their notes,  *)
(*    and an index.txt of their own, are never lost to such a run;         *)
(*  - or, by a name of its plan or as index.txt, to a run that had looked   *)
(*    at the directory before the user changed it.                         *)
TheirsIsKept ==
    \A n \in DOMAIN files :
        files[n] = Theirs /\ meddled' = meddled =>
            \/ n \in DOMAIN files' /\ files'[n] = Theirs
            \/ \E p \in Backfillers :
                  /\ at'[p] # at[p]
                  /\ \/ p \in late /\ n = Index
                     \/ /\ p \in late \/ ours
                        /\ \E i \in DOMAIN plan[p] : n = plan[p][i].name
NeverClobbers == [][TheirsIsKept]_backfillVars
================================================================================
