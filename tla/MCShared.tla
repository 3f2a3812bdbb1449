-------------------------------- MODULE MCShared --------------------------------
(* The components that share one thing, a comment thread, a settings file,  *)
(* a cache, a directory, a reading, the notice of the first run, between    *)
(* processes that know nothing of each other; one of them at a time, chosen *)
(* at the beginning.  The others stay as they were.                         *)
EXTENDS SummaryCache, CommentUpsert, HookSettings, Backfill, Statusline, Command, TLC

VARIABLE part

CONSTANTS p1, p2, u1, u2, f1

Two == {p1, p2}
Symmetry == Permutations(Two)
MCFiles == {f1}

(* A developer's run u1, one of the CI check, u2, and people, on one thread *)
(* with a comment a page.                                                   *)
Others == {u1, u2}

(* "a1" and "a2" have one slug; a number has two digits from two matches on. *)
(* The user may have a file by the name of the receipt of either, alone.    *)
MCRecorded == {"a1", "a2", "c"}
MCSlugOf == [s \in MCRecorded |-> IF s = "c" THEN "c" ELSE "a"]
MCTaken == {<<1, 1, "a">>}
MCEndedAt == [s \in MCRecorded |-> CASE s = "a1" -> 1 [] s = "a2" -> 0 [] s = "c" -> 2]
MCFilters == {[since |-> 0, limit |-> 0], [since |-> 2, limit |-> 1]}

(* Sessions 1, 2 and 3 are of /u/my, /u/my/repo and /u/my-repo, where the   *)
(* last two share a directory of Claude Code's; 4 is of the home directory, *)
(* and 5, of Cursor, once more of /u/my-repo.                               *)
MCSessions == 1..5
Dash == <<<<"u">>, <<"my", "repo">>>>
Slash == <<<<"u">>, <<"my">>, <<"repo">>>>
MCHome == <<<<"u">>>>
MCAgentOf == <<"codex", "claude-code", "claude-code", "codex", "cursor">>
MCCwdOf == <<Front(Slash), Slash, Dash, MCHome, Dash>>
Host(session, limits) ==
    [session |-> session, limits |-> limits, model |-> limits, context |-> TRUE]
Call(given, config, scoped, cwd, host) ==
    [given |-> given, config |-> config, scoped |-> scoped, cwd |-> cwd, host |-> host]
EtaCalls == {Call(<<"quotaEta", "brand", "quotaEta", "cost">>, <<>>, FALSE, <<>>, Host(2, TRUE))}
ScopedCalls ==
    {Call(<<>>, <<"oops">>, TRUE, <<<<"u">>, <<"x">>, <<"..">>>> \o Tail(Dash), Host(2, FALSE)),
     Call(<<>>, <<"model">>, TRUE, Slash, Host(0, FALSE)),
     Call(<<"oops">>, <<>>, TRUE, Dash, Host(0, FALSE))}
MCUses == {EtaCalls, ScopedCalls}

Env(switch, connection, dev) ==
    [switch |-> switch, dnt |-> FALSE, connection |-> connection, dev |-> dev]
MCEnvs ==
    {Env("unset", "unset", FALSE), Env("off", "well-formed", FALSE),
     Env("on", "malformed", FALSE), Env("unset", "unset", TRUE)}

-----------------------------------------------------------------------------
Parts == {"comment", "hook", "cache", "backfill", "eta", "scoped", "command"}

cacheVars == vars

(* What was not chosen is in one of its initial states, and stays there. *)
MCInit ==
    /\ part \in Parts
    /\ Init /\ (part # "cache" => version = [f \in Files |-> 0])
    /\ CommentInit
    /\ HookInit /\ (part # "hook" => file = Absent)
    /\ BackfillInit
    /\ BarInit /\ calls = IF part = "scoped" THEN ScopedCalls ELSE EtaCalls
    /\ CommandInit

(* The reading and the session of a line do not meet: the account stands    *)
(* still while sessions come and go under one bar, and the other way round. *)
Apart ==
    IF part = "eta" THEN sound' = sound
    ELSE /\ UNCHANGED <<real, off, account, reading>>
         /\ \A p, q \in Two : bar'[p] # Idle /\ bar'[q] # Idle => p = q

MCNext ==
    /\ UNCHANGED part
    /\ \/ part = "comment" /\ CommentNext
          /\ UNCHANGED <<hookVars, cacheVars, backfillVars, barVars, commandVars>>
       \/ part = "hook" /\ HookNext
          /\ UNCHANGED <<commentVars, cacheVars, backfillVars, barVars, commandVars>>
       \/ part = "cache" /\ Next
          /\ UNCHANGED <<commentVars, hookVars, backfillVars, barVars, commandVars>>
       \/ part = "backfill" /\ BackfillNext
          /\ UNCHANGED <<commentVars, hookVars, cacheVars, barVars, commandVars>>
       \/ part \in {"eta", "scoped"} /\ BarNext /\ Apart
          /\ UNCHANGED <<commentVars, hookVars, cacheVars, backfillVars, commandVars>>
       \/ part = "command" /\ CommandNext
          /\ UNCHANGED <<commentVars, hookVars, cacheVars, backfillVars, barVars>>

MCSpec == MCInit /\ [][MCNext]_<<part, commentVars, hookVars, cacheVars, backfillVars, barVars, commandVars>>
================================================================================
