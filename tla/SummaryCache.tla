------------------------------ MODULE SummaryCache ------------------------------
(***************************************************************************)
(* The list of every session on the machine (`listFullSessions`,           *)
(* src/parse/load.ts) and the cache of summaries that keeps it fast        *)
(* (`completeSummariesWithCache`, src/parse/summaryCache.ts).  An adapter  *)
(* names the transcripts whose first line it can read; for each, a worker  *)
(* takes the file's stamp (mtime and size), serves the cached summary of   *)
(* that very stamp, or else parses the whole transcript and remembers the  *)
(* summary under the stamp.  Agents append to the transcripts meanwhile;   *)
(* files vanish and come back, become unreadable and readable again.       *)
(* Several commands list at once, each with its own copy of the cache,     *)
(* which it saves at the end by tmp file and rename.  The pull request     *)
(* commands, the digest, the budget and the backfill ask for degraded rows *)
(* too; every other listing, `aireceipts list` among them, drops them.     *)
(*                                                                         *)
(* A transcript is known by how often it was written: version 0 is empty,  *)
(* every write makes a new version, and no two versions have one stamp.    *)
(* A file's summary is the version it was made from.                       *)
(***************************************************************************)
EXTENDS Integers, FiniteSets

CONSTANTS
    Files,       \* transcripts
    Listers,     \* commands that list sessions
    MaxVersion,  \* bound: writes to a transcript
    MaxTrouble   \* bound: times a transcript goes bad

ASSUME CacheAssumption == MaxVersion \in Nat /\ MaxTrouble \in Nat

VARIABLES
    version,   \* how often each transcript was written
    state,     \* sound, spoilt (only its first line reads), locked, or gone
    trouble,   \* how often one went bad
    cacheFile, \* the entries of ~/.aireceipts/cache.json
    listing,   \* where each command stands
    including, \* whether its answer is with the degraded rows
    entries,   \* its SummaryCache
    dirty,     \* whether that has to be saved
    task,      \* what its worker does about each transcript
    stat,      \* the stamp the worker took
    row,       \* the summary that is listed for each transcript
    atStart,   \* the versions when the listing began
    since      \* the states each transcript has been in from then to the end

vars == <<version, state, trouble, cacheFile, listing, including, entries, dirty, task,
          stat, row, atStart, since>>
call == <<listing, including>>
disk == <<version, state, trouble>>
States == {"sound", "spoilt", "locked", "gone"}

NoEntry == [stamp |-> -1, version |-> -1]
Entry == [stamp : Nat, version : Nat] \cup {NoEntry}
NoRow == [kind |-> "none", version |-> 0]
Degraded == [kind |-> "degraded", version |-> 0]
Empty == [f \in Files |-> NoEntry]

Init ==
    /\ version \in [Files -> 0..1]
    /\ state = [f \in Files |-> "sound"]
    /\ trouble = 0
    /\ cacheFile = Empty
    /\ listing = [p \in Listers |-> "idle"]
    /\ including = [p \in Listers |-> FALSE]
    /\ entries = [p \in Listers |-> Empty]
    /\ dirty = [p \in Listers |-> FALSE]
    /\ task = [p \in Listers |-> [f \in Files |-> "done"]]
    /\ stat = [p \in Listers |-> [f \in Files |-> 0]]
    /\ row = [p \in Listers |-> [f \in Files |-> NoRow]]
    /\ atStart = [p \in Listers |-> [f \in Files |-> 0]]
    /\ since = [p \in Listers |-> [f \in Files |-> {}]]

-----------------------------------------------------------------------------
(* SummaryCache.load, then the adapters walk the directories. *)
Begin(p) ==
    /\ listing[p] = "idle"
    /\ listing' = [listing EXCEPT ![p] = "busy"]
    /\ entries' = [entries EXCEPT ![p] = cacheFile]
    /\ dirty' = [dirty EXCEPT ![p] = FALSE]
    /\ task' = [task EXCEPT ![p] = [f \in Files |->
                    IF state[f] = "gone" THEN "done" ELSE "lazy"]]
    /\ row' = [row EXCEPT ![p] = [f \in Files |-> NoRow]]
    /\ atStart' = [atStart EXCEPT ![p] = version]
    /\ since' = [since EXCEPT ![p] = [f \in Files |-> {state[f]}]]
    /\ UNCHANGED <<disk, cacheFile, including, stat>>

Finish(p, f, r) ==
    /\ task' = [task EXCEPT ![p][f] = "done"]
    /\ row' = [row EXCEPT ![p][f] = r]

(* cache.get: an entry of another stamp is no entry. *)
Hit(p, f) == entries[p][f] # NoEntry /\ entries[p][f].stamp = version[f]

(* The adapter's lazy summary: stat, and the first line. *)
Lazy(p, f) ==
    /\ task[p][f] = "lazy"
    /\ state[f] \in {"sound", "spoilt"} /\ version[f] # 0
    /\ task' = [task EXCEPT ![p][f] = "stat"]
    /\ UNCHANGED <<disk, cacheFile, call, entries, dirty, stat, row, atStart, since>>

(* Empty, or an error: the adapter, or the worker, returns null. *)
Skip(p, f) ==
    /\ \/ version[f] = 0 \/ state[f] = "gone"
       \/ task[p][f] = "lazy" /\ state[f] = "locked"
    /\ task[p][f] \in {"lazy", "stat"}
    /\ Finish(p, f, NoRow)
    /\ UNCHANGED <<disk, cacheFile, call, entries, dirty, stat, atStart, since>>

StatHit(p, f) ==
    /\ task[p][f] = "stat"
    /\ state[f] # "gone" /\ version[f] # 0 /\ Hit(p, f)
    /\ Finish(p, f, [kind |-> "full", version |-> entries[p][f].version])
    /\ UNCHANGED <<disk, cacheFile, call, entries, dirty, stat, atStart, since>>

StatMiss(p, f) ==
    /\ task[p][f] = "stat"
    /\ state[f] # "gone" /\ version[f] # 0 /\ ~Hit(p, f)
    /\ task' = [task EXCEPT ![p][f] = "load"]
    /\ stat' = [stat EXCEPT ![p][f] = version[f]]
    /\ UNCHANGED <<disk, cacheFile, call, entries, dirty, row, atStart, since>>

(* Mutation: the stamp is taken once the transcript has been parsed. *)
set_Later(p, f, v) ==
    /\ \E later \in v..version[f] :
           entries' = [entries EXCEPT ![p][f] = [stamp |-> later, version |-> v]]
    /\ dirty' = [dirty EXCEPT ![p] = TRUE]

(* cache.set *)
set(p, f, v) ==
    /\ entries' = [entries EXCEPT ![p][f] = [stamp |-> stat[p][f], version |-> v]]
    /\ dirty' = [dirty EXCEPT ![p] = TRUE]

(* load: the parse ends with the transcript as it is by now, or as it was  *)
(* at any moment since the stamp was taken.                                *)
LoadFull(p, f) ==
    /\ task[p][f] = "load"
    /\ state[f] = "sound"
    /\ \E v \in stat[p][f]..version[f] :
           /\ set(p, f, v)
           /\ Finish(p, f, [kind |-> "full", version |-> v])
    /\ UNCHANGED <<disk, cacheFile, call, stat, atStart, since>>

(* loadSession returned null: the row is kept, marked degraded. *)
LoadNull(p, f) ==
    /\ task[p][f] = "load"
    /\ state[f] # "sound"
    /\ Finish(p, f, Degraded)
    /\ UNCHANGED <<disk, cacheFile, call, entries, dirty, stat, atStart, since>>

AllDone(p) == \A f \in Files : task[p][f] = "done"

(* The answer: degraded rows go to those who asked for them, which makes   *)
(* no difference before.  The command has no use for its cache any more.   *)
Answer(p, includeDegraded) ==
    /\ listing' = [listing EXCEPT ![p] = "listed"]
    /\ row' = [row EXCEPT ![p] = [f \in Files |->
                   IF row[p][f].kind = "degraded" /\ ~includeDegraded THEN NoRow
                   ELSE row[p][f]]]
    /\ entries' = [entries EXCEPT ![p] = Empty]
    /\ dirty' = [dirty EXCEPT ![p] = FALSE]
    /\ stat' = [stat EXCEPT ![p] = [f \in Files |-> 0]]
    /\ including' = [including EXCEPT ![p] = includeDegraded]

(* cache.save: the rename.  A clean cache is not written. *)
Save(p) ==
    /\ listing[p] = "busy" /\ AllDone(p) /\ dirty[p]
    /\ cacheFile' = entries[p]
    /\ \E includeDegraded \in BOOLEAN : Answer(p, includeDegraded)
    /\ UNCHANGED <<disk, task, atStart, since>>

(* Nothing to save, or the save failed, which no answer depends on. *)
SaveNothing(p) ==
    /\ listing[p] = "busy" /\ AllDone(p)
    /\ \E includeDegraded \in BOOLEAN : Answer(p, includeDegraded)
    /\ UNCHANGED <<disk, cacheFile, task, atStart, since>>

(* The answer was used, or the process was killed; the next command starts. *)
End(p) ==
    /\ listing[p] # "idle"
    /\ listing' = [listing EXCEPT ![p] = "idle"]
    /\ including' = [including EXCEPT ![p] = FALSE]
    /\ entries' = [entries EXCEPT ![p] = Empty]
    /\ dirty' = [dirty EXCEPT ![p] = FALSE]
    /\ task' = [task EXCEPT ![p] = [f \in Files |-> "done"]]
    /\ stat' = [stat EXCEPT ![p] = [f \in Files |-> 0]]
    /\ row' = [row EXCEPT ![p] = [f \in Files |-> NoRow]]
    /\ atStart' = [atStart EXCEPT ![p] = [f \in Files |-> 0]]
    /\ since' = [since EXCEPT ![p] = [f \in Files |-> {}]]
    /\ UNCHANGED <<disk, cacheFile>>

-----------------------------------------------------------------------------
Became(f, s) ==
    /\ state' = [state EXCEPT ![f] = s]
    /\ since' = [p \in Listers |-> IF listing[p] # "busy" THEN since[p]
                                  ELSE [since[p] EXCEPT ![f] = @ \cup {s}]]

(* An agent writes to a transcript, or creates it again. *)
Write(f) ==
    /\ version[f] < MaxVersion
    /\ state[f] \in {"sound", "gone"}
    /\ version' = [version EXCEPT ![f] = @ + 1]
    /\ Became(f, "sound")
    /\ UNCHANGED <<trouble, cacheFile, call, entries, dirty, task, stat, row, atStart>>

(* It is removed, or becomes unreadable, whole or from some line on; that  *)
(* may leave the stamp as it was.                                          *)
GoBad(f, s) ==
    /\ state[f] = "sound" /\ trouble < MaxTrouble
    /\ trouble' = trouble + 1
    /\ Became(f, s)
    /\ UNCHANGED <<version, cacheFile, call, entries, dirty, task, stat, row, atStart>>

Mend(f) ==
    /\ state[f] \in {"spoilt", "locked"}
    /\ Became(f, "sound")
    /\ UNCHANGED <<version, trouble, cacheFile, call, entries, dirty, task, stat, row,
                   atStart>>

(* The cache file is deleted, damaged or of another version: parseCache   *)
(* makes an empty cache of it.                                            *)
LoseCache ==
    /\ cacheFile' = Empty
    /\ UNCHANGED <<disk, call, entries, dirty, task, stat, row, atStart, since>>

ListerStep(p) ==
    \/ Begin(p)
    \/ \E f \in Files : \/ Lazy(p, f)
                        \/ Skip(p, f)
                        \/ StatHit(p, f)
                        \/ StatMiss(p, f)
                        \/ LoadFull(p, f)
                        \/ LoadNull(p, f)
    \/ Save(p)
    \/ SaveNothing(p)
    \/ End(p)

DiskStep ==
    \E f \in Files : \/ Write(f)
                    \/ \E s \in States \ {"sound"} : GoBad(f, s)
                    \/ Mend(f)

Next == (\E p \in Listers : ListerStep(p)) \/ DiskStep \/ LoseCache

Spec == Init /\ [][Next]_vars

-----------------------------------------------------------------------------
Row == [kind : {"none", "full", "degraded"}, version : Nat]

(* Every variable keeps its type. *)
TypeOK ==
    /\ version \in [Files -> Nat]
    /\ state \in [Files -> States]
    /\ trouble \in Nat
    /\ cacheFile \in [Files -> Entry]
    /\ listing \in [Listers -> {"idle", "busy", "listed"}]
    /\ including \in [Listers -> BOOLEAN]
    /\ entries \in [Listers -> [Files -> Entry]]
    /\ dirty \in [Listers -> BOOLEAN]
    /\ task \in [Listers -> [Files -> {"lazy", "stat", "load", "done"}]]
    /\ stat \in [Listers -> [Files -> Nat]]
    /\ row \in [Listers -> [Files -> Row]]
    /\ atStart \in [Listers -> [Files -> Nat]]
    /\ since \in [Listers -> [Files -> SUBSET States]]

(* A listing is never older than the command: what a transcript held when  *)
(* the command began is in its row, whether the summary was parsed now or  *)
(* comes from the cache, and whoever wrote it there while the agent was    *)
(* still appending.                                                        *)
ListsWhatWasThere ==
    \A p \in Listers, f \in Files :
        row[p][f].kind = "full" => /\ atStart[p][f] <= row[p][f].version
                                   /\ row[p][f].version <= version[f]

(* A transcript with content that was sound all the time is in the finished *)
(* list in full, even if it could not be read before ("a fixed file should *)
(* re-parse cleanly next run", summaryCache.ts:209).  One whose first line *)
(* alone could be read meanwhile is kept "marked degraded ... instead of   *)
(* it vanishing at discovery" (summaryCache.ts:202) for a command that     *)
(* asked for such rows, and for nobody else, since its totals are zero     *)
(* (load.ts:56): from what `aireceipts list` prints it is missing.         *)
NothingVanishes ==
    \A p \in Listers, f \in Files :
        listing[p] = "listed" /\ atStart[p][f] > 0 =>
            /\ since[p][f] \subseteq {"sound"} => row[p][f].kind = "full"
            /\ including[p] /\ since[p][f] \subseteq {"sound", "spoilt"} =>
                   row[p][f].kind # "none"
            /\ ~including[p] => row[p][f].kind # "degraded"

(* What a listing answers can be relied on: no row is older than the       *)
(* command, and no session is missing that could be read all the time, nor *)
(* a degraded one where it was asked for (load.ts:62, summaryCache.ts:184). *)
ListingIsRight == ListsWhatWasThere /\ NothingVanishes
================================================================================
