--------------------------------- MODULE Command ---------------------------------
(***************************************************************************)
(* The life of a command (`main`, src/cli/index.ts, called by src/cli.ts)  *)
(* and what it tells: the notice of the first run (src/telemetry/          *)
(* notice.ts), the events it records, and the one request that sends them, *)
(* raced against a timer (src/telemetry/sender.ts).  Commands run at the   *)
(* same time, under any environment (src/telemetry/config.ts), and are     *)
(* killed; the file that remembers the notice is deleted; the network      *)
(* answers late or never.  What the local counters do to an event is       *)
(* TelemetryState's.                                                       *)
(*                                                                         *)
(* That Node ends a process only when nothing it waits for is left, a      *)
(* timer or a request, is external.                                        *)
(***************************************************************************)
EXTENDS Integers, Sequences, FiniteSets, SequencesExt

CONSTANTS
    Processes,
    Envs \* environments: [switch, dnt, connection, dev]

VARIABLES
    notice,  \* telemetry.json: "absent", "cut" while it is written, "shown"
    printed, \* the notice was printed, ever
    run      \* each process's command

commandVars == <<notice, printed, run>>

(* "other" stands for the commands of the catalogue, "internal" for the    *)
(* two that CI calls, which the catalogue does not name.                   *)
Commands == {"other", "internal", "statusline", "telemetry-show", "hook-pre-push"}
COMMAND_VALUES == {"other", "statusline", "telemetry-show"}
Exits == {<<0, "unset">>, <<1, "unset">>, <<1, "invalid-arguments">>}

Event(name) == [name |-> name, ok |-> FALSE, exitClass |-> "unset"]
NoEnv == [switch |-> "unset", dnt |-> FALSE, connection |-> "unset", dev |-> FALSE]
Nothing == [at |-> "idle", command |-> "other", env |-> NoEnv, queue |-> <<>>, batch |-> <<>>,
            handles |-> {}, code |-> 0]

CommandInit ==
    /\ notice = "absent"
    /\ printed = FALSE
    /\ run = [p \in Processes |-> Nothing]

-----------------------------------------------------------------------------
killSwitchActive(env) == env.switch = "off" \/ env.dnt

(* resolveTelemetryConfig: off by a switch, in a development build that    *)
(* was not given a connection, and with a connection that does not parse.  *)
enabled(env) ==
    /\ ~killSwitchActive(env)
    /\ env.connection = "unset" => ~env.dev
    /\ env.connection \in {"unset", "well-formed"}

skipTelemetry(command) == command \in {"telemetry-show", "hook-pre-push"}
runTelemetry(command) == ~skipTelemetry(command) /\ command # "statusline"

RunBecomes(p, r) == run' = [run EXCEPT ![p] = r]
Go(p, where) == RunBecomes(p, [run[p] EXCEPT !.at = where])

(* parseOptions, loadCommands, selectCommand. *)
BeginCommand(p, command, env) ==
    /\ run[p].at = "idle"
    /\ RunBecomes(p, [Nothing EXCEPT !.command = command, !.env = env,
                     !.at = IF skipTelemetry(command) THEN "run"
                            ELSE IF enabled(env) THEN "notice" ELSE "start"])
    /\ UNCHANGED <<notice, printed>>

(* Mutation: the notice is remembered before it is printed. *)
readNoticeState_First(p) ==
    /\ run[p].at = "notice"
    /\ Go(p, IF notice = "shown" THEN "start" ELSE "print")
    /\ notice' = "shown"
    /\ UNCHANGED printed

(* ensureFirstRunNotice: what cannot be read was not shown. *)
readNoticeState(p) ==
    /\ run[p].at = "notice"
    /\ Go(p, IF notice = "shown" THEN "start" ELSE "print")
    /\ UNCHANGED <<notice, printed>>

PrintNotice(p) ==
    /\ run[p].at = "print"
    /\ printed' = TRUE
    /\ Go(p, "open")
    /\ UNCHANGED notice

(* writeFile truncates, and then writes; a failure is swallowed. *)
OpenNotice(p) ==
    /\ run[p].at = "open"
    /\ \/ notice' = "cut" /\ Go(p, "write")
       \/ notice' = notice /\ Go(p, "start")
    /\ UNCHANGED printed

writeNoticeState(p) ==
    /\ run[p].at = "write"
    /\ notice' = "shown"
    /\ Go(p, "start")
    /\ UNCHANGED printed

Queue(r, name) == [r EXCEPT !.queue = Append(@, Event(name))]

(* recordActivationMilestone drops a command that the catalogue lacks. *)
noteRunStart(p) ==
    /\ run[p].at = "start"
    /\ \E first \in BOOLEAN :
          LET r == [run[p] EXCEPT !.at = "run"]
          IN  RunBecomes(p, IF first /\ r.command = "other" THEN Queue(r, "activation_milestone") ELSE r)
    /\ UNCHANGED <<notice, printed>>

recordCliRun(r, code, exitClass) ==
    IF ~runTelemetry(r.command) \/ r.command \notin COMMAND_VALUES THEN r
    ELSE [r EXCEPT !.queue = Append(@,
            [name |-> "cli_run", ok |-> code = 0,
             exitClass |-> IF code = 0 THEN "unset"
                           ELSE IF exitClass = "unset" THEN "other-controlled" ELSE exitClass])]

recordCliError(r) == IF r.command \in COMMAND_VALUES THEN Queue(r, "cli_error") ELSE r

(* The command does its work, records what it has to, and returns.  The     *)
(* statusline's events come from noteStatuslinePoll, which may have none.   *)
Return(p, code, exitClass, did) ==
    LET r == IF did /\ run[p].command # "telemetry-show"
               THEN Queue(run[p], "receipt_generated") ELSE run[p]
    IN  /\ run[p].at = "run"
        /\ RunBecomes(p, [recordCliRun(r, code, exitClass) EXCEPT !.at = "finally", !.code = code])
        /\ UNCHANGED <<notice, printed>>

(* It throws; a statusline's error is told once an hour, if at all. *)
Throw(p, told) ==
    LET r == run[p]
    IN  /\ r.at = "run"
        /\ RunBecomes(p, [(IF skipTelemetry(r.command) \/ (r.command = "statusline" /\ ~told)
                          THEN r ELSE recordCliError(r))
                       EXCEPT !.at = "finally", !.code = IF r.command = "hook-pre-push" THEN 0 ELSE 1])
        /\ UNCHANGED <<notice, printed>>

flushes(r) == ~skipTelemetry(r.command)

(* The finally block, up to the race: parse failures that were observed,   *)
(* and the batch, unless there is nothing to send or nowhere to send it.   *)
flushTelemetry(p, observed) ==
    LET r == IF observed /\ runTelemetry(run[p].command)
               THEN Queue(run[p], "parse_failure") ELSE run[p]
    IN  /\ r.at = "finally"
        /\ RunBecomes(p, IF flushes(r) /\ r.queue # <<>> /\ enabled(r.env)
                        THEN [r EXCEPT !.at = "race", !.batch = r.queue, !.queue = <<>>,
                                       !.handles = {"request", "timer"}]
                        ELSE [r EXCEPT !.at = "resolved"])
        /\ UNCHANGED <<notice, printed>>

(* The answer, or the failure of the request; the timer fires. *)
Settle(p, handle) ==
    /\ handle \in run[p].handles
    /\ RunBecomes(p, [run[p] EXCEPT !.handles = @ \ {handle}])
    /\ UNCHANGED <<notice, printed>>

(* Promise.race: main returns, and the exit code is set. *)
Resolve(p) ==
    /\ run[p].at = "race" /\ run[p].handles # {"request", "timer"}
    /\ Go(p, "resolved")
    /\ UNCHANGED <<notice, printed>>

Exit(p) ==
    /\ run[p].at = "resolved" /\ run[p].handles = {}
    /\ RunBecomes(p, Nothing)
    /\ UNCHANGED <<notice, printed>>

CommandDies(p) ==
    /\ run[p].at # "idle"
    /\ RunBecomes(p, Nothing)
    /\ UNCHANGED <<notice, printed>>

(* ~/.aireceipts is deleted. *)
ForgetNotice ==
    /\ notice' = "absent"
    /\ UNCHANGED <<printed, run>>

Step(p) ==
    \/ \E command \in Commands, env \in Envs : BeginCommand(p, command, env)
    \/ readNoticeState(p) \/ PrintNotice(p) \/ OpenNotice(p) \/ writeNoticeState(p)
    \/ noteRunStart(p)
    \/ \E exit \in Exits, did \in BOOLEAN : Return(p, exit[1], exit[2], did)
    \/ \E flag \in BOOLEAN : Throw(p, flag) \/ flushTelemetry(p, flag)
    \/ \E handle \in {"request", "timer"} : Settle(p, handle)
    \/ Resolve(p) \/ Exit(p) \/ CommandDies(p)

CommandNext == ForgetNotice \/ \E p \in Processes : Step(p)

CommandSpec == CommandInit /\ [][CommandNext]_commandVars

-----------------------------------------------------------------------------
(* The disclosure comes first: whatever commands overlap or are killed     *)
(* around it, and whatever was off before, nothing has ever been sent from *)
(* a machine on which the notice was not printed.                          *)
NoticeBeforeEvents == \A p \in Processes : run[p].batch # <<>> => printed

(* "One per controlled return from a catalogued command", and "thrown      *)
(* paths emit cli_error only" (docs/telemetry.md): what is sent has the    *)
(* one verdict that the exit code bears out; what must be silent is.       *)
Verdicts(events) == {i \in DOMAIN events : events[i].name \in {"cli_run", "cli_error"}}
OneVerdict ==
    \A p \in Processes :
        LET r == run[p]
        IN  r.batch # <<>> =>
                /\ r.env.switch # "off" /\ ~r.env.dnt
                /\ r.command \in {"other", "internal", "statusline"}
                /\ r.command = "other" => \E i \in DOMAIN r.batch : Verdicts(r.batch) = {i}
                /\ r.command = "internal" => Verdicts(r.batch) = {}
                /\ \A i \in Verdicts(r.batch) :
                      LET v == r.batch[i]
                      IN  /\ v.ok <=> r.code = 0
                          /\ v.exitClass # "unset" <=> v.name = "cli_run" /\ r.code # 0
                          /\ r.command = "statusline" => v.name = "cli_error"

OnlyTheToldIsSent == NoticeBeforeEvents /\ OneVerdict

(* sender.ts:68: "nothing keeps the process alive past this call"; a slow  *)
(* request "is abandoned; the CLI does not wait for it" (docs/telemetry.md *)
(* :372): once main has returned there is nothing left to wait for.        *)
NothingKeepsAlive == \A p \in Processes : run[p].at = "resolved" => run[p].handles = {}
================================================================================
