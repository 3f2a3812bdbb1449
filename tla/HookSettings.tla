------------------------------ MODULE HookSettings ------------------------------
(***************************************************************************)
(* Claude Code's settings.json and the commands that put the SessionEnd    *)
(* hook into it and take it out: `installHook`, `uninstallHook`            *)
(* (src/hook/install.ts) over the merge and removal of src/hook/           *)
(* settings.ts.  Installing reads the file, computes the new text, waits   *)
(* for the user's consent, makes a backup if there is none, and renames a  *)
(* temporary file over the settings.  Others, Claude Code and the user's   *)
(* editor among them, write the same file at any time.                     *)
(*                                                                         *)
(* Settings keep what the commands look at or could lose: all other keys   *)
(* and events (`rest`, which every foreign write makes new), whether       *)
(* `hooks` and its SessionEnd are there and of the right shape, and the    *)
(* entries of the latter, each the sequence of the commands under it.      *)
(***************************************************************************)
EXTENDS Integers, Sequences, FiniteSets, SequencesExt

CONSTANTS
    Installers,   \* runs of install-hook
    Uninstallers, \* runs of uninstall-hook
    MaxWrites     \* bound: foreign writes

ASSUME HookAssumption == Installers \cap Uninstallers = {} /\ MaxWrites \in Nat

HookRuns == Installers \cup Uninstallers

VARIABLES
    file,    \* settings.json
    bak,     \* settings.json.bak
    writes,  \* foreign writes so far
    hookPc,  \* where each run stands
    next,    \* the settings it will write
    based,   \* what it read
    first    \* what the first write of a run replaced, and what it had read

hookVars == <<file, bak, writes, hookPc, next, based, first>>

HOOK_COMMAND == "ours"
HookCommands == {HOOK_COMMAND, "theirs"}
Bare == [rest |-> 0, hooks |-> "none", event |-> "none", entries |-> <<>>]

Text(s) == [kind |-> "text", settings |-> s]
Absent == [kind |-> "absent", settings |-> Bare]
BadJson == [kind |-> "bad", settings |-> Bare]

(* Settings a user may have: without hooks, of a wrong shape, or with      *)
(* entries of other tools, alone or beside a sibling of ours.              *)
UserSettings ==
    {Bare, [Bare EXCEPT !.hooks = "odd"],
     [Bare EXCEPT !.hooks = "object", !.event = "odd"],
     [Bare EXCEPT !.hooks = "object", !.event = "list"]}
    \cup {[Bare EXCEPT !.hooks = "object", !.event = "list", !.entries = e] :
             e \in {<<<<"theirs">>>>, <<<<"theirs", HOOK_COMMAND>>, <<"theirs">>>>}}

HookInit ==
    /\ file \in {Absent, BadJson} \cup {Text(s) : s \in UserSettings}
    /\ bak = Absent
    /\ writes = 0
    /\ hookPc = [r \in HookRuns |-> "start"]
    /\ next = [r \in HookRuns |-> Bare]
    /\ based = [r \in HookRuns |-> Absent]
    /\ first = <<>>

-----------------------------------------------------------------------------
(* hasHookEntry: some entry under hooks.SessionEnd runs our command. *)
entryHasCommand(e) == \E i \in DOMAIN e : e[i] = HOOK_COMMAND
hasHookEntry(s) == \E i \in DOMAIN s.entries : entryHasCommand(s.entries[i])

(* malformedHooksShape *)
malformedHooksShape(s) == s.hooks = "odd" \/ s.event = "odd"

(* Our entry is appended to the event's list. *)
withHookEntry(s) ==
    [s EXCEPT !.hooks = "object", !.event = "list",
              !.entries = Append(@, <<HOOK_COMMAND>>)]

(* The items that are to be kept, in their order. *)
Only(items, keep) ==
    LET f[i \in 0..Len(items)] ==
            IF i = 0 THEN <<>>
            ELSE IF items[i] \in keep THEN Append(f[i - 1], items[i]) ELSE f[i - 1]
    IN  f[Len(items)]

(* Only our command leaves its entry; an entry, a list and a `hooks` that   *)
(* thereby become empty are dropped.                                        *)
stripped(e) == Only(e, HookCommands \ {HOOK_COMMAND})

withoutHookEntry(s) ==
    LET kept == Only(s.entries, {e \in Seq(HookCommands) : entryHasCommand(e) => stripped(e) # <<>>})
        rebuilt == [i \in DOMAIN kept |-> stripped(kept[i])]
    IN  IF rebuilt # <<>> THEN [s EXCEPT !.entries = rebuilt]
        ELSE [s EXCEPT !.hooks = "none", !.event = "none", !.entries = <<>>]

(* parseSettings: no file and an empty one read as {}. *)
Parsed(f) == f.settings

Stop(r) ==
    /\ hookPc' = [hookPc EXCEPT ![r] = "done"]
    /\ UNCHANGED <<file, bak, writes, next, based, first>>

(* installHook up to the prompt that shows the change. *)
ReadToInstall(r) ==
    /\ hookPc[r] = "start" /\ file.kind # "bad" /\ ~malformedHooksShape(Parsed(file))
    /\ ~hasHookEntry(Parsed(file))
    /\ next' = [next EXCEPT ![r] = withHookEntry(Parsed(file))]
    /\ based' = [based EXCEPT ![r] = file]
    /\ hookPc' = [hookPc EXCEPT ![r] = "prompt"]
    /\ UNCHANGED <<file, bak, writes, first>>

(* Not JSON, an unexpected shape, or installed already. *)
NothingToInstall(r) ==
    /\ hookPc[r] = "start"
    /\ \/ file.kind = "bad"
       \/ malformedHooksShape(Parsed(file))
       \/ hasHookEntry(Parsed(file))
    /\ Stop(r)

Accept(r) ==
    /\ hookPc[r] = "prompt"
    /\ hookPc' = [hookPc EXCEPT ![r] = "backup"]
    /\ UNCHANGED <<file, bak, writes, next, based, first>>

Decline(r) == hookPc[r] = "prompt" /\ Stop(r)

(* uninstallHook asks for no consent. *)
ReadToUninstall(r) ==
    /\ hookPc[r] = "start" /\ file.kind = "text" /\ hasHookEntry(Parsed(file))
    /\ next' = [next EXCEPT ![r] = withoutHookEntry(Parsed(file))]
    /\ based' = [based EXCEPT ![r] = file]
    /\ hookPc' = [hookPc EXCEPT ![r] = "backup"]
    /\ UNCHANGED <<file, bak, writes, first>>

NothingToUninstall(r) ==
    /\ hookPc[r] = "start"
    /\ file.kind # "text" \/ ~hasHookEntry(Parsed(file))
    /\ Stop(r)

(* Mutation: every write refreshes the backup. *)
backupOnce_Always(r) ==
    /\ hookPc[r] = "backup"
    /\ bak' = file
    /\ hookPc' = [hookPc EXCEPT ![r] = "write"]
    /\ UNCHANGED <<file, writes, next, based, first>>

(* A copy of the file as it is now, unless there is one already. *)
backupOnce(r) ==
    /\ hookPc[r] = "backup"
    /\ bak' = IF bak = Absent THEN file ELSE bak
    /\ hookPc' = [hookPc EXCEPT ![r] = "write"]
    /\ UNCHANGED <<file, writes, next, based, first>>

(* atomicWrite: the temporary file renamed over whatever is there now. *)
atomicWrite(r) ==
    /\ hookPc[r] = "write"
    /\ file' = Text(next[r])
    /\ first' = IF first = <<>> THEN <<file, based[r]>> ELSE first
    /\ hookPc' = [hookPc EXCEPT ![r] = "done"]
    /\ UNCHANGED <<bak, writes, next, based>>

(* A run is killed, or a call of it throws. *)
Die(r) == hookPc[r] # "done" /\ Stop(r)

(* Someone else saves the settings with a change of their own. *)
ForeignWrite ==
    /\ writes < MaxWrites /\ file.kind # "bad"
    /\ writes' = writes + 1
    /\ file' = Text([file.settings EXCEPT !.rest = writes + 1])
    /\ UNCHANGED <<bak, hookPc, next, based, first>>

WriteSettings(r) == backupOnce(r) \/ atomicWrite(r) \/ Die(r)

Install(r) == ReadToInstall(r) \/ NothingToInstall(r) \/ Accept(r) \/ Decline(r)
Uninstall(r) == ReadToUninstall(r) \/ NothingToUninstall(r)

HookNext ==
    \/ \E r \in Installers : Install(r)
    \/ \E r \in Uninstallers : Uninstall(r)
    \/ \E r \in HookRuns : WriteSettings(r)
    \/ ForeignWrite

HookSpec == HookInit /\ [][HookNext]_hookVars

-----------------------------------------------------------------------------
(* All of the settings that is not ours: the other keys and, entry by       *)
(* entry, the other commands.                                               *)
TheirPart(s) ==
    [rest    |-> s.rest,
     odd     |-> malformedHooksShape(s),
     entries |-> Only([i \in DOMAIN s.entries |-> stripped(s.entries[i])],
                      Seq(HookCommands) \ {<<>>})]

(* Removal is surgical and merging additive: a run that writes over what it *)
(* read leaves everything that is not ours as it was.                       *)
TheirsStays ==
    \A r \in HookRuns :
        hookPc[r] = "write" /\ hookPc'[r] = "done" /\ file' # file /\ file = based[r] =>
            TheirPart(file'.settings) = TheirPart(file.settings)

(* "never clobbering a backup": settings that were replaced, as the run had *)
(* read them, stay in the backup for good, however many runs follow.        *)
OriginalIsKept ==
    first # <<>> /\ first[1] = first[2] /\ first[1].kind = "text" /\ writes = 0
        => bak = first[1]

NothingOfTheirsIsLost == [][TheirsStays /\ OriginalIsKept']_hookVars
================================================================================
