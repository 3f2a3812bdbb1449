------------------------------ MODULE SharedProofs ------------------------------
(***************************************************************************)
(* Proofs about components that share one thing between processes that     *)
(* know nothing of each other, each for any number of them: the notice of  *)
(* the first run (Command), the reading of the account's window            *)
(* (Statusline), a directory of receipts (Backfill), a settings file       *)
(* (HookSettings), the file of session summaries (SummaryCache).           *)
(***************************************************************************)
EXTENDS SummaryCache, HookSettings, Backfill, Statusline, Command,
        SequenceTheorems, FiniteSetTheorems, WellFoundedInduction, TLAPS

-----------------------------------------------------------------------------
(* Induction: a set of numbers that has 0 and is closed under the next one  *)
(* has them all.  Recursive functions and sequences follow from it.         *)
Below == {ss \in Nat \X Nat : ss[1] < ss[2]}

LEMMA LeastOf ==
  ASSUME NEW T, T \subseteq Nat, T # {}
  PROVE  \E n \in T : \A m \in T : n <= m
  <1>1. IsWellFoundedOn(Below, Nat)
    BY NatLessThanWellFounded DEF OpToRel, Below
  <1>2. PICK n \in T : \A m \in T : <<m, n>> \notin Below
    BY <1>1, WFMin
  <1>3. n \in Nat /\ \A m \in T : m \in Nat /\ ~(m < n)
    BY <1>2 DEF Below
  <1> QED
    BY <1>3

LEMMA AllOf ==
  ASSUME NEW T, 0 \in T, \A n \in Nat : n \in T => n + 1 \in T
  PROVE  Nat \subseteq T
  <1> SUFFICES ASSUME Nat \ T # {} PROVE FALSE
    OBVIOUS
  <1>1. PICK n \in Nat \ T : \A m \in Nat \ T : n <= m
    BY LeastOf
  <1>2. n # 0 /\ n - 1 \in Nat /\ ~(n <= n - 1)
    BY <1>1
  <1>3. n - 1 \in T
    BY <1>1, <1>2
  <1> QED
    BY <1>1, <1>2, <1>3

(* A recursive function along a sequence exists, whatever its step.         *)
Iterable(V, v, len, step) ==
    \E f \in [0..len -> V] : f[0] = v /\ \A i \in 1..len : f[i] = step[i][f[i - 1]]

LEMMA Iterated ==
  ASSUME NEW V, NEW v \in V, NEW len \in Nat, NEW step \in [1..len -> [V -> V]]
  PROVE  Iterable(V, v, len, step)
  <1> DEFINE upto(n) == {f \in [0..n -> V] :
                            f[0] = v /\ \A i \in 1..n : f[i] = step[i][f[i - 1]]}
             T == {n \in Nat : n <= len => upto(n) # {}}
  <1>1. 0 \in T
    <2>1. [i \in 0..0 |-> v] \in upto(0)
      OBVIOUS
    <2> HIDE DEF upto
    <2> QED  BY <2>1
  <1>2. ASSUME NEW n \in Nat, n \in T PROVE n + 1 \in T
    <2> SUFFICES ASSUME n + 1 <= len PROVE upto(n + 1) # {}
      <3> HIDE DEF upto
      <3> QED  OBVIOUS
    <2>1. PICK f \in [0..n -> V] : f[0] = v /\ \A i \in 1..n : f[i] = step[i][f[i - 1]]
      BY <1>2
    <2> DEFINE g == [i \in 0..(n + 1) |-> IF i = n + 1 THEN step[n + 1][f[n]] ELSE f[i]]
    <2>2. step[n + 1][f[n]] \in V
      BY <2>1
    <2>3. g \in [0..(n + 1) -> V] /\ g[0] = v
      BY <2>1, <2>2
    <2>4. ASSUME NEW i \in 1..(n + 1) PROVE g[i] = step[i][g[i - 1]]
      <3>1. CASE i = n + 1
        <4>1. g[i - 1] = f[n] /\ g[i] = step[n + 1][f[n]]
          BY <3>1
        <4> QED  BY <3>1, <4>1
      <3>2. CASE i \in 1..n
        <4>1. g[i] = f[i] /\ g[i - 1] = f[i - 1]
          BY <3>2
        <4> QED  BY <2>1, <3>2, <4>1
      <3> QED  BY <3>1, <3>2
    <2> HIDE DEF g
    <2>5. g \in upto(n + 1)
      BY <2>3, <2>4
    <2> QED  BY <2>5
  <1>3. upto(len) # {}
    <2> HIDE DEF upto
    <2>1. Nat \subseteq T
      <3> HIDE DEF T
      <3> QED  BY <1>1, <1>2, AllOf
    <2> QED  BY <2>1
  <1> QED
    BY <1>3 DEF Iterable

(* What holds of the empty sequence, and with one of another item, holds of *)
(* them all.                                                                *)
LEMMA AllSequences ==
  ASSUME NEW S, NEW P, <<>> \in P,
         \A s \in Seq(S) : s \in P => \A x \in S : Append(s, x) \in P
  PROVE  Seq(S) \subseteq P
  <1> DEFINE T == {n \in Nat : \A s \in Seq(S) : Len(s) = n => s \in P}
  <1>1. 0 \in T
    BY EmptySeq
  <1>2. ASSUME NEW n \in Nat, n \in T PROVE n + 1 \in T
    <2> SUFFICES ASSUME NEW s \in Seq(S), Len(s) = n + 1 PROVE s \in P
      OBVIOUS
    <2> DEFINE t == SubSeq(s, 1, n)
               x == s[n + 1]
    <2>1. t \in Seq(S) /\ Len(t) = n /\ x \in S
      OBVIOUS
    <2>2. s = Append(t, x)
      OBVIOUS
    <2> HIDE DEF t, x
    <2> QED  BY <1>2, <2>1, <2>2
  <1>3. Nat \subseteq T
    <2> HIDE DEF T
    <2> QED  BY <1>1, <1>2, AllOf
  <1> QED
    BY <1>3

-----------------------------------------------------------------------------
(* Command: a process that may send has seen the notice printed, or prints  *)
(* it; and its queue has no verdict until the command returns or throws,    *)
(* which adds the only one.                                                 *)
Stages == {"idle", "notice", "print", "open", "write", "start", "run", "finally", "race", "resolved"}
ExitClasses == {"unset", "invalid-arguments", "other-controlled"}
Names == {"activation_milestone", "receipt_generated", "parse_failure", "cli_run", "cli_error"}
Events == [name : Names, ok : BOOLEAN, exitClass : ExitClasses]
Lives ==
    [at : Stages, command : Commands, env : Envs \cup {NoEnv}, queue : Seq(Events),
     batch : Seq(Events), handles : SUBSET {"request", "timer"}, code : {0, 1}]

(* The verdict of the command, or none. *)
Judged(r, events) ==
    /\ r.command = "other" => \E i : Verdicts(events) = {i}
    /\ r.command = "internal" => Verdicts(events) = {}
    /\ \A i \in Verdicts(events) :
          /\ events[i].ok <=> r.code = 0
          /\ events[i].exitClass # "unset" <=> events[i].name = "cli_run" /\ r.code # 0
          /\ r.command = "statusline" => events[i].name = "cli_error"

LEMMA JudgedAlike ==
  ASSUME NEW o, NEW r, NEW before, NEW after, Judged(o, before),
         r.command = o.command, r.code = o.code, Verdicts(after) = Verdicts(before),
         \A i \in Verdicts(before) : after[i] = before[i]
  PROVE  Judged(r, after)
  BY DEF Judged

Sends(r) == ~skipTelemetry(r.command) /\ enabled(r.env)

Told(r) ==
    /\ r.at \in {"open", "write"} => printed
    /\ Sends(r) /\ r.at \notin {"idle", "notice", "print"} => printed
    /\ r.batch # <<>> => Sends(r) /\ r.at \in {"race", "resolved"} /\ Judged(r, r.batch)
    /\ r.at \in {"idle", "notice", "print", "open", "write", "start", "run"} =>
          Verdicts(r.queue) = {}
    /\ r.at = "finally" /\ ~skipTelemetry(r.command) => Judged(r, r.queue)

CommandInv ==
    /\ notice = "shown" => printed
    /\ \A p \in Processes : Told(run[p])
CommandType == run \in [Processes -> Lives] /\ printed \in BOOLEAN

(* Appending one event. *)
LEMMA Appended ==
  ASSUME NEW s \in Seq(Events), NEW e \in Events
  PROVE  LET t == Append(s, e)
         IN  /\ t \in Seq(Events) /\ Len(t) = Len(s) + 1 /\ Len(s) \in Nat
             /\ DOMAIN t = DOMAIN s \cup {Len(s) + 1} /\ Len(s) + 1 \notin DOMAIN s
             /\ \A i \in DOMAIN s : t[i] = s[i]
             /\ t[Len(s) + 1] = e
  OBVIOUS

LEMMA QuietAppend ==
  ASSUME NEW s \in Seq(Events), NEW e \in Events, e.name \notin {"cli_run", "cli_error"}
  PROVE  /\ Verdicts(Append(s, e)) = Verdicts(s)
         /\ \A i \in Verdicts(s) : Append(s, e)[i] = s[i]
  BY Appended DEF Verdicts

LEMMA VerdictAppend ==
  ASSUME NEW s \in Seq(Events), NEW e \in Events, e.name \in {"cli_run", "cli_error"},
         Verdicts(s) = {}
  PROVE  LET t == Append(s, e)
         IN  Verdicts(t) = {Len(s) + 1} /\ t[Len(s) + 1] = e
  BY Appended DEF Verdicts

LEMMA EventFacts ==
  ASSUME NEW name \in Names
  PROVE  Event(name) \in Events /\ Event(name).name = name
         /\ Event(name).ok = FALSE /\ Event(name).exitClass = "unset"
  BY DEF Event, Events, ExitClasses

LEMMA NothingFacts ==
  Nothing \in Lives /\ Nothing.at = "idle" /\ Nothing.batch = <<>>
  /\ Nothing.queue = <<>> /\ Verdicts(<<>>) = {}
  BY DEF Nothing, Lives, Stages, Commands, Verdicts

LEMMA OneCommandStep ==
  ASSUME CommandType, CommandInv, NEW p \in Processes, run' = [run EXCEPT ![p] = run'[p]],
         run'[p] \in Lives, printed' \in BOOLEAN, printed => printed',
         notice' = "shown" => printed', Told(run[p])'
  PROVE  CommandType' /\ CommandInv'
  <1>1. \A q \in Processes : run'[q] = run[q] \/ q = p
    BY DEF CommandType
  <1>2. \A q \in Processes : Told(run[q])'
    BY <1>1 DEF CommandInv, Told
  <1>3. CommandType'
    BY DEF CommandType
  <1> QED
    BY <1>2, <1>3 DEF CommandInv

LEMMA ReturnFacts ==
  ASSUME CommandType, CommandInv, NEW p \in Processes, NEW exit \in Exits, NEW did \in BOOLEAN,
         Return(p, exit[1], exit[2], did)
  PROVE  run'[p] \in Lives /\ Told(run[p])' /\ run' = [run EXCEPT ![p] = run'[p]]
  <1> DEFINE r == IF did /\ run[p].command # "telemetry-show"
                    THEN Queue(run[p], "receipt_generated") ELSE run[p]
             code == exit[1]
             class == IF code = 0 THEN "unset" ELSE IF exit[2] = "unset" THEN "other-controlled" ELSE exit[2]
             e == [name |-> "cli_run", ok |-> code = 0, exitClass |-> class]
             n == run'[p]
  <1>1. run[p] \in Lives /\ run[p].at = "run" /\ Told(run[p])
    BY DEF CommandType, CommandInv, Return
  <1>2. /\ code \in {0, 1} /\ e \in Events /\ e.name = "cli_run"
        /\ e.ok <=> code = 0
        /\ e.exitClass # "unset" <=> code # 0
    <2>1. /\ code \in {0, 1} /\ class \in ExitClasses /\ (code = 0) \in BOOLEAN
          /\ class # "unset" <=> code # 0
      BY DEF Exits, ExitClasses
    <2> HIDE DEF code, class
    <2> QED
      BY <2>1 DEF Events, Names
  <1>3. /\ r \in Lives /\ r.command = run[p].command /\ r.batch = run[p].batch
        /\ r.env = run[p].env /\ r.handles = run[p].handles /\ Verdicts(r.queue) = {}
    <2>1. Event("receipt_generated") \in Events /\ Verdicts(run[p].queue) = {}
          /\ Event("receipt_generated").name = "receipt_generated"
      BY <1>1, EventFacts DEF Names, Told
    <2>2. run[p].queue \in Seq(Events)
      BY <1>1 DEF Lives
    <2>3. Append(run[p].queue, Event("receipt_generated")) \in Seq(Events)
          /\ Verdicts(Append(run[p].queue, Event("receipt_generated"))) = {}
      BY <2>1, <2>2, Appended, QuietAppend
    <2> QED
      BY <1>1, <2>1, <2>3 DEF Queue, Lives
  <1>4. /\ run' = [run EXCEPT ![p] = n] /\ UNCHANGED <<notice, printed>>
        /\ n = [recordCliRun(r, code, exit[2]) EXCEPT !.at = "finally", !.code = code]
    BY DEF Return, RunBecomes, CommandType
  <1> HIDE DEF r, n
  <1>5. Append(r.queue, e) \in Seq(Events)
    BY <1>2, <1>3, Appended DEF Lives
  <1>6. /\ n \in Lives /\ n.at = "finally" /\ n.code = code /\ n.command = r.command
        /\ n.batch = r.batch /\ n.env = r.env
        /\ n.queue = IF ~runTelemetry(r.command) \/ r.command \notin COMMAND_VALUES
                       THEN r.queue ELSE Append(r.queue, e)
    BY <1>2, <1>3, <1>4, <1>5 DEF recordCliRun, Lives, Stages
  <1>7. ~skipTelemetry(n.command) => Judged(n, n.queue)
    <2>1. r.command \in Commands
      BY <1>3 DEF Lives
    <2>2. CASE ~runTelemetry(r.command) \/ r.command \notin COMMAND_VALUES
      BY <1>3, <1>6, <2>1, <2>2 DEF Judged, runTelemetry, skipTelemetry, COMMAND_VALUES,
                                  Commands
    <2>3. CASE ~(~runTelemetry(r.command) \/ r.command \notin COMMAND_VALUES)
      <3>0. r.queue \in Seq(Events) /\ n.queue = Append(r.queue, e)
        BY <1>3, <1>6, <2>3 DEF Lives
      <3>1. /\ Verdicts(n.queue) = {Len(r.queue) + 1} /\ n.queue[Len(r.queue) + 1] = e
        <4> HIDE DEF code, class, e
        <4> QED  BY <1>2, <1>3, <3>0, VerdictAppend
      <3>2. r.command = "other"
        BY <2>1, <2>3 DEF runTelemetry, skipTelemetry, COMMAND_VALUES, Commands
      <3> HIDE DEF code, e
      <3> QED
        BY <1>2, <1>6, <3>1, <3>2 DEF Judged
    <2> QED  BY <2>2, <2>3
  <1>8. n.batch = <<>> /\ (Sends(n) => printed)
    BY <1>1, <1>3, <1>6 DEF Told, Sends, Judged
  <1>9. Told(run[p])'
    BY <1>4, <1>6, <1>7, <1>8 DEF Told, n
  <1> QED
    BY <1>4, <1>6, <1>9 DEF n

LEMMA ThrowFacts ==
  ASSUME CommandType, CommandInv, NEW p \in Processes, NEW told \in BOOLEAN, Throw(p, told)
  PROVE  run'[p] \in Lives /\ Told(run[p])' /\ run' = [run EXCEPT ![p] = run'[p]]
  <1> DEFINE r == run[p]
             n == run'[p]
             e == Event("cli_error")
             silent == skipTelemetry(r.command) \/ (r.command = "statusline" /\ ~told)
  <1>1. /\ r \in Lives /\ r.at = "run" /\ Told(r) /\ Verdicts(r.queue) = {}
        /\ r.command \in Commands /\ r.queue \in Seq(Events)
    BY DEF CommandType, CommandInv, Throw, Told, Lives
  <1>2. e \in Events /\ e.name = "cli_error" /\ e.ok = FALSE /\ e.exitClass = "unset"
    BY EventFacts DEF Names
  <1>3. /\ run' = [run EXCEPT ![p] = n] /\ UNCHANGED <<notice, printed>>
        /\ n = [(IF silent THEN r ELSE recordCliError(r))
                EXCEPT !.at = "finally", !.code = IF r.command = "hook-pre-push" THEN 0 ELSE 1]
    BY DEF Throw, RunBecomes, CommandType
  <1> HIDE DEF r, n, e
  <1>4. Append(r.queue, e) \in Seq(Events)
    BY <1>1, <1>2, Appended
  <1>5. /\ n \in Lives /\ n.at = "finally" /\ n.command = r.command /\ n.batch = r.batch
        /\ n.env = r.env /\ n.code = IF r.command = "hook-pre-push" THEN 0 ELSE 1
        /\ n.queue = IF silent \/ r.command \notin COMMAND_VALUES
                       THEN r.queue ELSE Append(r.queue, e)
    BY <1>1, <1>3, <1>4 DEF recordCliError, Queue, Lives, Stages, e
  <1>6. ~skipTelemetry(n.command) => Judged(n, n.queue)
    <2>1. CASE silent \/ r.command \notin COMMAND_VALUES
      BY <1>1, <1>5, <2>1 DEF Judged, skipTelemetry, COMMAND_VALUES
    <2>2. CASE ~(silent \/ r.command \notin COMMAND_VALUES)
      <3>1. /\ Verdicts(n.queue) = {Len(r.queue) + 1} /\ n.queue[Len(r.queue) + 1] = e
        BY <1>1, <1>2, <1>5, <2>2, VerdictAppend
      <3>2. r.command \in {"other", "statusline"} /\ n.code = 1
        BY <1>1, <1>5, <2>2 DEF skipTelemetry, COMMAND_VALUES
      <3> DEFINE v == n.queue[Len(r.queue) + 1]
      <3>3. v.name = "cli_error" /\ ~v.ok /\ v.exitClass = "unset"
        BY <1>2, <3>1
      <3>4. \A i \in Verdicts(n.queue) : n.queue[i] = v
        BY <3>1
      <3> HIDE DEF v
      <3>5. n.command \in {"other", "statusline"} /\ n.code # 0
        BY <1>5, <3>2
      <3>6. \E i : Verdicts(n.queue) = {i}
        BY <3>1
      <3> QED
        BY <3>3, <3>4, <3>5, <3>6 DEF Judged
    <2> QED  BY <2>1, <2>2
  <1>7. n.batch = <<>> /\ (Sends(n) => printed)
    BY <1>1, <1>5 DEF Told, Sends
  <1>8. Told(run[p])'
    BY <1>3, <1>5, <1>6, <1>7 DEF Told, n
  <1> QED
    BY <1>3, <1>5, <1>8 DEF n

LEMMA FlushFacts ==
  ASSUME CommandType, CommandInv, NEW p \in Processes, NEW observed \in BOOLEAN,
         flushTelemetry(p, observed)
  PROVE  run'[p] \in Lives /\ Told(run[p])' /\ run' = [run EXCEPT ![p] = run'[p]]
  <1> DEFINE o == run[p]
             e == Event("parse_failure")
             r == IF observed /\ runTelemetry(o.command) THEN Queue(o, "parse_failure") ELSE o
             n == run'[p]
  <1>1. /\ o \in Lives /\ o.queue \in Seq(Events) /\ Told(o)
    BY DEF CommandType, CommandInv, Lives
  <1>2. e \in Events /\ e.name = "parse_failure"
    BY EventFacts DEF Names
  <1>3. /\ run' = [run EXCEPT ![p] = n] /\ UNCHANGED <<notice, printed>> /\ r.at = "finally"
        /\ n = IF flushes(r) /\ r.queue # <<>> /\ enabled(r.env)
               THEN [r EXCEPT !.at = "race", !.batch = r.queue, !.queue = <<>>,
                              !.handles = {"request", "timer"}]
               ELSE [r EXCEPT !.at = "resolved"]
    BY DEF flushTelemetry, RunBecomes, CommandType
  <1> HIDE DEF o, n
  <1>4. /\ Append(o.queue, e) \in Seq(Events)
        /\ Verdicts(Append(o.queue, e)) = Verdicts(o.queue)
        /\ \A i \in Verdicts(o.queue) : Append(o.queue, e)[i] = o.queue[i]
    BY <1>1, <1>2, Appended, QuietAppend
  <1> HIDE DEF e
  <1>5. /\ r \in Lives /\ r.at = o.at /\ r.command = o.command /\ r.env = o.env
        /\ r.batch = o.batch /\ r.code = o.code /\ r.queue \in {o.queue, Append(o.queue, e)}
    BY <1>1, <1>4 DEF Queue, Lives, e
  <1> HIDE DEF r
  <1>6. ~skipTelemetry(r.command) => Judged(r, r.queue)
    <2>1. ~skipTelemetry(o.command) => Judged(o, o.queue)
      BY <1>1, <1>3, <1>5 DEF Told
    <2>2. /\ Verdicts(r.queue) = Verdicts(o.queue)
          /\ \A i \in Verdicts(o.queue) : r.queue[i] = o.queue[i]
      BY <1>4, <1>5
    <2>3. r.code = o.code /\ r.command = o.command
      BY <1>5
    <2> QED
      BY <2>1, <2>2, <2>3, JudgedAlike
  <1>7. r.batch = <<>> /\ (Sends(r) => printed)
    BY <1>1, <1>3, <1>5 DEF Told, Sends
  <1>8. n \in Lives
    <2>1. ASSUME NEW q \in Seq(Events), NEW none \in Seq(Events), NEW h \in SUBSET {"request", "timer"}
          PROVE  [r EXCEPT !.at = "race", !.batch = q, !.queue = none, !.handles = h] \in Lives
      BY <1>5 DEF Lives, Stages
    <2>2. r.queue \in Seq(Events)
      BY <1>5 DEF Lives
    <2>3. CASE n = [r EXCEPT !.at = "resolved"]
      BY <1>5, <2>3 DEF Lives, Stages
    <2>4. CASE n = [r EXCEPT !.at = "race", !.batch = r.queue, !.queue = <<>>,
                             !.handles = {"request", "timer"}]
      <3>1. <<>> \in Seq(Events)
        OBVIOUS
      <3> QED
        BY <2>1, <2>2, <2>4, <3>1
    <2> QED  BY <1>3, <2>3, <2>4
  <1>9. Told(n)
    <2>1. CASE flushes(r) /\ r.queue # <<>> /\ enabled(r.env)
      <3>1. /\ n.at = "race" /\ n.batch = r.queue /\ n.command = r.command /\ n.env = r.env
            /\ n.code = r.code
        BY <1>3, <1>5, <2>1 DEF Lives
      <3>2. ~skipTelemetry(r.command) /\ Sends(r)
        BY <2>1 DEF flushes, Sends
      <3>3. Judged(n, n.batch) /\ Sends(n)
        BY <1>6, <3>1, <3>2 DEF Judged, Sends
      <3> QED
        BY <1>7, <3>1, <3>2, <3>3 DEF Told
    <2>2. CASE ~(flushes(r) /\ r.queue # <<>> /\ enabled(r.env))
      <3>1. n.at = "resolved" /\ n.batch = <<>> /\ n.command = r.command /\ n.env = r.env
        BY <1>3, <1>5, <1>7, <2>2 DEF Lives
      <3> QED
        BY <1>7, <3>1 DEF Told, Sends
    <2> QED  BY <2>1, <2>2
  <1> QED
    BY <1>3, <1>8, <1>9 DEF Told, n

(* A process moves on with what it had. *)
LEMMA GoFacts ==
  ASSUME CommandType, NEW p \in Processes, NEW where \in Stages, Go(p, where)
  PROVE  LET r == run[p]
             n == run'[p]
         IN  /\ r \in Lives /\ n \in Lives /\ run' = [run EXCEPT ![p] = n] /\ n.at = where
             /\ n.command = r.command /\ n.env = r.env /\ n.queue = r.queue
             /\ n.batch = r.batch /\ n.code = r.code
  <1>1. run[p] \in Lives /\ run'[p] = [run[p] EXCEPT !.at = where]
    BY DEF CommandType, Go, RunBecomes
  <1>2. run' = [run EXCEPT ![p] = run'[p]]
    BY DEF CommandType, Go, RunBecomes
  <1> QED
    BY <1>1, <1>2 DEF Lives

LEMMA CommandStep ==
  ASSUME CommandType, CommandInv, [CommandNext]_(commandVars)
  PROVE  CommandType' /\ CommandInv'
  <1> DEFINE Moved(p) == /\ run' = [run EXCEPT ![p] = run'[p]] /\ run'[p] \in Lives
                         /\ printed' \in BOOLEAN /\ (printed => printed')
                         /\ (notice' = "shown" => printed') /\ Told(run[p])'
  <1>0. printed \in BOOLEAN /\ (notice = "shown" => printed)
    BY DEF CommandType, CommandInv
  <1>1. ASSUME NEW p \in Processes, Moved(p) PROVE CommandType' /\ CommandInv'
    BY <1>1, OneCommandStep
  <1>2. ASSUME NEW p \in Processes, NEW command \in Commands, NEW env \in Envs,
               BeginCommand(p, command, env)
        PROVE  Moved(p)
    <2> DEFINE stage == IF skipTelemetry(command) THEN "run"
                        ELSE IF enabled(env) THEN "notice" ELSE "start"
    <2>1. /\ run' = [run EXCEPT ![p] = run'[p]] /\ UNCHANGED <<notice, printed>>
          /\ run'[p] = [Nothing EXCEPT !.command = command, !.env = env, !.at = stage]
      BY <1>2 DEF BeginCommand, RunBecomes, CommandType
    <2>2. stage \in {"run", "notice", "start"}
      OBVIOUS
    <2>3. /\ run'[p] \in Lives /\ run'[p].batch = <<>> /\ run'[p].queue = <<>>
          /\ run'[p].at = stage /\ run'[p].command = command /\ run'[p].env = env
      BY <2>1, <2>2, NothingFacts DEF Lives, Stages
    <2>4. Sends(run'[p]) /\ stage # "notice" => FALSE
      BY <2>3 DEF Sends
    <2>5. Told(run[p])'
      BY <2>2, <2>3, <2>4, NothingFacts DEF Told
    <2> QED
      BY <1>0, <2>1, <2>3, <2>5
  <1>3. ASSUME NEW p \in Processes, readNoticeState(p) PROVE Moved(p)
    <2>1. run[p].at = "notice" /\ UNCHANGED <<notice, printed>> /\ Told(run[p])
      BY <1>3 DEF readNoticeState, CommandInv
    <2>2. CASE notice = "shown"
      <3>1. Go(p, "start")
        BY <1>3, <2>2 DEF readNoticeState
      <3> QED
        BY <1>0, <2>1, <2>2, <3>1, GoFacts DEF Stages, Told
    <2>3. CASE notice # "shown"
      <3>1. Go(p, "print")
        BY <1>3, <2>3 DEF readNoticeState
      <3> QED
        BY <1>0, <2>1, <2>3, <3>1, GoFacts DEF Stages, Told
    <2> QED  BY <2>2, <2>3
  <1>4. ASSUME NEW p \in Processes, PrintNotice(p) PROVE Moved(p)
    <2>1. /\ run[p].at = "print" /\ printed' = TRUE /\ Go(p, "open") /\ Told(run[p])
      BY <1>4 DEF PrintNotice, CommandInv
    <2> QED
      BY <2>1, GoFacts DEF Stages, Told
  <1>5. ASSUME NEW p \in Processes, OpenNotice(p) \/ writeNoticeState(p) PROVE Moved(p)
    <2>1. /\ run[p].at \in {"open", "write"} /\ printed' = printed /\ Told(run[p])
          /\ Go(p, "write") \/ Go(p, "start")
      BY <1>5 DEF OpenNotice, writeNoticeState, CommandInv
    <2>2. printed
      BY <2>1 DEF Told
    <2> QED
      BY <1>0, <2>1, <2>2, GoFacts DEF Stages, Told
  <1>6. ASSUME NEW p \in Processes, noteRunStart(p) PROVE Moved(p)
    <2> DEFINE r == [run[p] EXCEPT !.at = "run"]
               e == Event("activation_milestone")
               n == run'[p]
    <2>1. /\ run[p].at = "start" /\ UNCHANGED <<notice, printed>> /\ run[p] \in Lives
          /\ Told(run[p]) /\ run' = [run EXCEPT ![p] = n]
          /\ n = r \/ n = Queue(r, "activation_milestone")
      BY <1>6 DEF noteRunStart, RunBecomes, CommandInv, CommandType
    <2>2. r \in Lives /\ r.at = "run" /\ r.queue = run[p].queue /\ r.batch = run[p].batch
          /\ r.command = run[p].command /\ r.env = run[p].env
      BY <2>1 DEF Lives, Stages
    <2> HIDE DEF r, n
    <2>3. r.queue \in Seq(Events) /\ Verdicts(r.queue) = {}
      BY <2>1, <2>2 DEF Told, Lives
    <2>4. e \in Events /\ e.name = "activation_milestone"
      BY EventFacts DEF Names
    <2>5. Append(r.queue, e) \in Seq(Events) /\ Verdicts(Append(r.queue, e)) = {}
      BY <2>3, <2>4, Appended, QuietAppend
    <2>6. /\ n \in Lives /\ n.at = "run" /\ n.batch = r.batch /\ n.command = r.command
          /\ n.env = r.env /\ Verdicts(n.queue) = {}
      BY <2>1, <2>2, <2>3, <2>5 DEF Queue, Lives
    <2>7. n.batch = <<>> /\ (Sends(n) => printed)
      BY <2>1, <2>2, <2>6 DEF Told, Sends
    <2>8. Told(run[p])'
      BY <2>1, <2>6, <2>7 DEF Told, n
    <2> QED
      BY <1>0, <2>1, <2>6, <2>8 DEF n
  <1>7. ASSUME NEW p \in Processes, NEW exit \in Exits, NEW did \in BOOLEAN,
               Return(p, exit[1], exit[2], did)
        PROVE  Moved(p)
    BY <1>0, <1>7, ReturnFacts DEF Return
  <1>8. ASSUME NEW p \in Processes, NEW flag \in BOOLEAN,
               Throw(p, flag) \/ flushTelemetry(p, flag)
        PROVE  Moved(p)
    BY <1>0, <1>8, ThrowFacts, FlushFacts DEF Throw, flushTelemetry
  <1>9. ASSUME NEW p \in Processes, NEW handle \in {"request", "timer"}, Settle(p, handle)
        PROVE  Moved(p)
    <2> DEFINE n == run'[p]
    <2>1. /\ run' = [run EXCEPT ![p] = n] /\ UNCHANGED <<notice, printed>> /\ run[p] \in Lives
          /\ n = [run[p] EXCEPT !.handles = run[p].handles \ {handle}] /\ Told(run[p])
      BY <1>9 DEF Settle, RunBecomes, CommandType, CommandInv
    <2>2. /\ n \in Lives /\ n.at = run[p].at /\ n.batch = run[p].batch /\ n.queue = run[p].queue
          /\ n.command = run[p].command /\ n.env = run[p].env /\ n.code = run[p].code
      BY <2>1 DEF Lives
    <2> HIDE DEF n
    <2>3. (Sends(n) <=> Sends(run[p])) /\ (Judged(n, n.batch) <=> Judged(run[p], run[p].batch))
          /\ (Judged(n, n.queue) <=> Judged(run[p], run[p].queue))
      BY <2>2 DEF Sends, Judged
    <2>4. Told(run[p])'
      BY <2>1, <2>2, <2>3 DEF Told, n
    <2> QED
      BY <1>0, <2>1, <2>2, <2>4 DEF n
  <1>10. ASSUME NEW p \in Processes, Resolve(p) PROVE Moved(p)
    <2>1. /\ run[p].at = "race" /\ UNCHANGED <<notice, printed>> /\ Told(run[p])
          /\ Go(p, "resolved")
      BY <1>10 DEF Resolve, CommandInv
    <2>2. /\ run'[p].at = "resolved" /\ run'[p].batch = run[p].batch /\ run'[p].env = run[p].env
          /\ run'[p].command = run[p].command /\ run'[p].code = run[p].code
          /\ run'[p] \in Lives /\ run' = [run EXCEPT ![p] = run'[p]]
      BY <2>1, GoFacts DEF Stages
    <2> DEFINE r == run[p]
               n == run'[p]
    <2>3. Told(r) /\ r.at = "race" /\ n.at = "resolved" /\ n.batch = r.batch /\ n.env = r.env
          /\ n.command = r.command /\ n.code = r.code /\ printed' = printed
      BY <2>1, <2>2
    <2> HIDE DEF r, n
    <2>4. (Sends(n) <=> Sends(r)) /\ (Judged(n, n.batch) <=> Judged(r, r.batch))
      BY <2>3 DEF Sends, Judged
    <2>5. Told(run[p])'
      BY <2>3, <2>4 DEF Told, n
    <2> QED
      BY <1>0, <2>1, <2>2, <2>5
  <1>11. ASSUME NEW p \in Processes, Exit(p) \/ CommandDies(p) PROVE Moved(p)
    <2>1. run'[p] = Nothing /\ run' = [run EXCEPT ![p] = run'[p]] /\ UNCHANGED <<notice, printed>>
      BY <1>11 DEF Exit, CommandDies, RunBecomes, CommandType
    <2> QED
      BY <1>0, <2>1, NothingFacts DEF Told
  <1>12. CASE ForgetNotice \/ UNCHANGED commandVars
    <2>1. run' = run /\ printed' = printed /\ (notice' = "absent" \/ notice' = notice)
      BY <1>12 DEF ForgetNotice, commandVars
    <2> QED
      BY <2>1 DEF CommandType, CommandInv, Told
  <1> HIDE DEF Moved
  <1> QED
    BY <1>1, <1>2, <1>3, <1>4, <1>5, <1>6, <1>7, <1>8, <1>9, <1>10, <1>11, <1>12
       DEF CommandNext, Step

(* `main`, `flushTelemetry`: what leaves the machine was announced before,  *)
(* and holds the one verdict that the exit code bears out.                  *)
THEOREM WhatIsSentWasTold == CommandSpec => []OnlyTheToldIsSent
  <1>1. CommandInit => CommandType /\ CommandInv
    BY NothingFacts DEF CommandInit, CommandType, CommandInv, Told
  <1>2. CommandType /\ CommandInv /\ [CommandNext]_(commandVars) => CommandType' /\ CommandInv'
    BY CommandStep
  <1>3. CommandType /\ CommandInv => OnlyTheToldIsSent
    <2> SUFFICES ASSUME CommandType, CommandInv PROVE OnlyTheToldIsSent
      OBVIOUS
    <2>1. ASSUME NEW p \in Processes, run[p].batch # <<>>
          PROVE  /\ Sends(run[p]) /\ Judged(run[p], run[p].batch) /\ printed
                 /\ run[p].command \in Commands
      BY <2>1 DEF CommandInv, Told, CommandType, Lives
    <2>2. NoticeBeforeEvents
      BY <2>1 DEF NoticeBeforeEvents
    <2>3. ASSUME NEW p \in Processes, run[p].batch # <<>>
          PROVE  /\ run[p].env.switch # "off" /\ ~run[p].env.dnt
                 /\ run[p].command \in {"other", "internal", "statusline"}
                 /\ Verdicts(run[p].batch) \in SUBSET DOMAIN run[p].batch
      BY <2>1, <2>3 DEF Sends, enabled, killSwitchActive, skipTelemetry, Commands,
                        Verdicts
    <2>4. OneVerdict
      BY <2>1, <2>3 DEF OneVerdict, Judged
    <2> QED
      BY <2>2, <2>4 DEF OnlyTheToldIsSent
  <1> QED
    BY <1>1, <1>2, <1>3, PTL DEF CommandSpec

-----------------------------------------------------------------------------
(* Statusline: states of the account follow each other, upwards within a    *)
(* window; a reading is of one of them.                                     *)
State == [used : 0..100, resets : Int]
Before(s, t) ==
    \/ s.resets < t.resets
    \/ s.resets = t.resets /\ s.used < t.used
StatesOf(a) ==
    /\ a \in Seq(State) /\ a # <<>>
    /\ \A i, j \in DOMAIN a : i < j => Before(a[i], a[j])
Clock == real \in Int /\ off \in Int

Read(a, r) ==
    /\ r.asOf \in DOMAIN a
    /\ r.used = a[r.asOf].used /\ r.resets = a[r.asOf].resets
    /\ r.real \in Int /\ r.off \in Int /\ r.observedAt = r.real - r.off
ReadIfAny(a, r) == r = NoReading \/ Read(a, r)

Projected(a, eta) ==
    eta.shown =>
        /\ Read(a, eta.from) /\ Read(a, eta.to)
        /\ eta.from.resets = eta.to.resets /\ eta.from.used < eta.to.used
        /\ eta.to.observedAt - eta.from.observedAt >= Gap
        /\ eta.to.observedAt * eta.crossing[2] <= eta.crossing[1]
        /\ eta.crossing[1] < eta.to.resets * eta.crossing[2]

Polled(a, b) ==
    /\ DOMAIN b = DOMAIN Idle /\ DOMAIN b.line = DOMAIN NoLine
    /\ b.asOf \in {0} \cup DOMAIN a
    /\ b.at \in {"prior", "write"} => Read(a, b.current)
    /\ b.at = "write" => ReadIfAny(a, b.prior)
    /\ Projected(a, b.line.eta)

EtaInv ==
    /\ Clock
    /\ StatesOf(account)
    /\ ReadIfAny(account, reading)
    /\ DOMAIN bar = Bars
    /\ \A p \in Bars : Polled(account, bar[p])

LEMMA DifferenceOfLevels == ASSUME NEW a \in 0..100, NEW b \in 0..100 PROVE b - a \in Int
  OBVIOUS

LEMMA RisesAbove == ASSUME NEW a \in 0..100, NEW b \in 0..100, b - a > 0 PROVE a < b
  OBVIOUS

LEMMA ProductOfInts == ASSUME NEW a \in Int, NEW b \in Int PROVE a * b \in Int
  OBVIOUS

LEMMA ProductOfNats == ASSUME NEW a \in Nat, NEW b \in Nat PROVE a * b \in Nat
  OBVIOUS

LEMMA IdleShape ==
  /\ DOMAIN Idle = {"at", "format", "scoped", "cwd", "host", "asOf", "queue", "steady", "picked",
                      "stdin", "current", "prior", "line"}
  /\ DOMAIN NoLine = {"kind", "segments", "eta"}
  /\ Idle.at = "idle" /\ Idle.asOf = 0 /\ Idle.line = NoLine /\ NoLine.eta = NoEta
  BY DEF Idle, NoLine

LEMMA IdleFacts == Polled(account, Idle) /\ Idle.at = "idle" /\ Idle.line = NoLine
  BY DEF Polled, Idle, NoLine, NoEta, Projected

LEMMA LineFacts ==
  ASSUME NEW b, NEW eta
  PROVE  renderSegments(b, eta).eta = eta /\ DOMAIN renderSegments(b, eta) = DOMAIN NoLine
  BY DEF renderSegments, NoLine

LEMMA StateNumbers ==
  ASSUME NEW x \in State
  PROVE  x.used \in 0..100 /\ x.used \in Int /\ x.resets \in Int
  BY DEF State

LEMMA StateFacts ==
  ASSUME NEW a, StatesOf(a)
  PROVE  \A i \in DOMAIN a : /\ a[i] \in State /\ a[i].used \in 0..100
                             /\ a[i].used \in Int /\ a[i].resets \in Int
  <1>1. \A i \in DOMAIN a : a[i] \in State
    BY DEF StatesOf
  <1> QED
    BY <1>1, StateNumbers

LEMMA LastState ==
  ASSUME NEW a, StatesOf(a)
  PROVE  Len(a) \in Nat \ {0} /\ DOMAIN a = 1..Len(a) /\ Len(a) \in DOMAIN a
  BY EmptySeq DEF StatesOf

LEMMA OneMoreState ==
  ASSUME NEW a, StatesOf(a), NEW s \in State, Before(a[Len(a)], s)
  PROVE  /\ StatesOf(Append(a, s))
         /\ \A i \in DOMAIN a : i \in DOMAIN Append(a, s) /\ Append(a, s)[i] = a[i]
  <1> DEFINE b == Append(a, s)
             len == Len(a)
  <1>1. /\ b \in Seq(State) /\ b # <<>> /\ len \in Nat \ {0} /\ DOMAIN a = 1..len
        /\ DOMAIN b = 1..(len + 1) /\ b[len + 1] = s /\ \A i \in 1..len : b[i] = a[i]
    BY EmptySeq DEF StatesOf
  <1> HIDE DEF b
  <1>2. ASSUME NEW i \in 1..len PROVE Before(a[i], s)
    <2>1. len \in DOMAIN a /\ i \in DOMAIN a /\ i \in Nat
      BY <1>1
    <2>2. i = len \/ Before(a[i], a[len])
      BY <1>1, <2>1 DEF StatesOf
    <2>3. /\ a[i].resets \in Int /\ a[i].used \in Int /\ a[len].resets \in Int /\ a[len].used \in Int
      BY <2>1, StateFacts
    <2>4. s.resets \in Int /\ s.used \in Int
      BY StateNumbers
    <2> QED
      BY <2>2, <2>3, <2>4 DEF Before
  <1>3. ASSUME NEW i \in DOMAIN b, NEW j \in DOMAIN b, i < j PROVE Before(b[i], b[j])
    <2>1. i \in 1..len
      BY <1>1, <1>3
    <2>2. CASE j = len + 1
      BY <1>1, <1>2, <2>1, <2>2
    <2>3. CASE j # len + 1
      <3>1. i \in DOMAIN a /\ j \in DOMAIN a
        BY <1>1, <2>1, <2>3
      <3>2. Before(a[i], a[j])
        BY <1>3, <3>1 DEF StatesOf
      <3> QED
        BY <1>1, <3>1, <3>2
    <2> QED  BY <2>2, <2>3
  <1> QED
    BY <1>1, <1>3 DEF StatesOf, b

(* The states of the account decide which reading is the earlier one. *)
LEMMA CrossingFacts ==
  ASSUME StatesOf(account), NEW f, NEW t, Read(account, f), Read(account, t)
  PROVE  Projected(account, projectCapCrossingMs(f, t))
  <1> DEFINE gap == t.observedAt - f.observedAt
             rise == t.used - f.used
             left == 100 - t.used
             eta == projectCapCrossingMs(f, t)
  <1>1. /\ f.observedAt \in Int /\ t.observedAt \in Int /\ f.used \in 0..100 /\ t.used \in 0..100
        /\ f.resets \in Int /\ t.resets \in Int
    BY StateFacts DEF Read
  <1>2. CASE ~eta.shown
    BY <1>2 DEF Projected
  <1>3. CASE eta.shown
    <2>1. /\ f.resets = t.resets /\ gap >= Gap /\ rise > 0
          /\ eta.from = f /\ eta.to = t
          /\ eta.crossing[1] = t.observedAt * rise + left * gap /\ eta.crossing[2] = rise
          /\ eta.crossing[1] < t.resets * eta.crossing[2]
      BY <1>3 DEF projectCapCrossingMs, NoEta
    <2>2. left \in Nat /\ gap \in Nat
      BY <1>1, <2>1, StatuslineAssumption
    <2>3. left * gap \in Nat
      BY <2>2, ProductOfNats
    <2>4. t.observedAt * rise \in Int
      <3>1. t.observedAt \in Int
        BY <1>1, Zenon
      <3>2. rise \in Int
        <4>1. f.used \in 0..100 /\ t.used \in 0..100
          BY <1>1, Zenon
        <4> QED  BY <4>1, DifferenceOfLevels
      <3> HIDE DEF rise
      <3> QED  BY <3>1, <3>2, ProductOfInts
    <2> DEFINE x == t.observedAt * rise
               y == left * gap
    <2>5. x <= x + y
      <3> HIDE DEF x, y
      <3>1. x \in Int /\ y \in Nat
        BY <2>3, <2>4 DEF x, y
      <3> QED  BY <3>1
    <2>6. f.used < t.used
      <3>1. t.used - f.used > 0 /\ f.used \in 0..100 /\ t.used \in 0..100
        BY <1>1, <2>1, Zenon
      <3> QED  BY <3>1, RisesAbove, Zenon
    <2> QED
      BY <2>1, <2>5, <2>6 DEF Projected
  <1> QED  BY <1>2, <1>3

LEMMA OnePollStep ==
  ASSUME EtaInv, NEW p \in Bars, NEW b, bar' = [bar EXCEPT ![p] = b], Polled(account, b),
         UNCHANGED <<real, off, account>>, ReadIfAny(account, reading)'
  PROVE  EtaInv'
  <1>1. \A q \in Bars : bar'[q] = IF q = p THEN b ELSE bar[q]
    BY DEF EtaInv
  <1>2. \A q \in Bars : Polled(account, bar'[q])
    BY <1>1 DEF EtaInv
  <1>4. \A q \in Bars : Polled(account, bar[q])'
    BY <1>2
  <1> QED
    BY <1>4 DEF EtaInv, Clock

LEMMA QuietPoll ==
  ASSUME EtaInv, NEW p \in Bars, NEW b, bar' = [bar EXCEPT ![p] = b],
         UNCHANGED <<world, reading>>,
         DOMAIN b = DOMAIN Idle, DOMAIN b.line = DOMAIN NoLine,
         b.asOf \in {0} \cup DOMAIN account, b.at \notin {"prior", "write"},
         b.line.eta \in {bar[p].line.eta, NoEta}
  PROVE  EtaInv'
  <1>1. Projected(account, b.line.eta)
    BY DEF EtaInv, Polled, Projected, NoEta
  <1>2. Polled(account, b)
    BY <1>1 DEF Polled
  <1>3. UNCHANGED <<real, off, account>> /\ ReadIfAny(account, reading)'
    BY DEF world, EtaInv
  <1> QED
    BY <1>2, <1>3, OnePollStep

LEMMA PollStep ==
  ASSUME EtaInv, NEW p \in Bars, Poll(p)
  PROVE  EtaInv'
  <1> DEFINE b == bar[p]
  <1>1. /\ Polled(account, b) /\ DOMAIN b = DOMAIN Idle /\ DOMAIN b.line = DOMAIN NoLine
        /\ b.asOf \in {0} \cup DOMAIN account
    BY DEF EtaInv, Polled
  <1>2. ASSUME NEW c, NEW k \in IF c.host.limits THEN DOMAIN account ELSE {0}, Start(p, c, k)
        PROVE  EtaInv'
    <2> DEFINE format == IF c.given # NotGiven THEN c.given
                         ELSE IF c.config # NotGiven /\ parses(c.config) THEN c.config
                         ELSE DEFAULT_FORMAT
               refused == [Idle EXCEPT !.line.kind = "refused"]
               begun == [Idle EXCEPT !.at = "stdin", !.format = format, !.scoped = c.scoped,
                                       !.cwd = c.cwd, !.host = c.host, !.asOf = k, !.steady = sound]
    <2>1. PICK n \in {refused, begun} :
             bar' = [bar EXCEPT ![p] = n] /\ UNCHANGED <<world, reading>>
      BY <1>2 DEF Start, Becomes
    <2> HIDE DEF format
    <2>2. /\ DOMAIN refused = DOMAIN Idle /\ DOMAIN refused.line = DOMAIN NoLine
          /\ refused.asOf = 0 /\ refused.at = "idle" /\ refused.line.eta = NoEta
      BY IdleShape
    <2>3. /\ DOMAIN begun = DOMAIN Idle /\ DOMAIN begun.line = DOMAIN NoLine
          /\ begun.asOf = k /\ begun.at = "stdin" /\ begun.line.eta = NoEta
      BY IdleShape
    <2> HIDE DEF refused, begun
    <2>4. /\ DOMAIN n = DOMAIN Idle /\ DOMAIN n.line = DOMAIN NoLine
          /\ n.asOf \in {0} \cup DOMAIN account /\ n.at \notin {"prior", "write"}
          /\ n.line.eta \in {b.line.eta, NoEta}
      BY <2>1, <2>2, <2>3
    <2> QED
      BY <2>1, <2>4, QuietPoll
  <1>3. ASSUME FromPayload(p) \/ List(p) \/ LoadNext(p) \/ NoSession(p)
        PROVE  EtaInv'
    <2>1. ASSUME UNCHANGED <<world, reading>>, NEW n, bar' = [bar EXCEPT ![p] = n],
                 DOMAIN n = DOMAIN b, DOMAIN n.line = DOMAIN b.line, n.asOf = b.asOf,
                 n.at \notin {"prior", "write"}, n.line.eta = b.line.eta
          PROVE  EtaInv'
      BY <1>1, <2>1, QuietPoll
    <2>2. CASE FromPayload(p)
      <3> DEFINE n == IF b.host.session \in sound
                        THEN [b EXCEPT !.at = "render", !.picked = b.host.session, !.stdin = TRUE]
                        ELSE [b EXCEPT !.at = "list"]
      <3>1. UNCHANGED <<world, reading>> /\ bar' = [bar EXCEPT ![p] = n]
        BY <2>2 DEF FromPayload, Becomes
      <3>2. /\ DOMAIN n = DOMAIN b /\ n.line = b.line /\ n.asOf = b.asOf
            /\ n.at \in {"render", "list"}
        BY <1>1, IdleShape
      <3> HIDE DEF n, b
      <3> QED  BY <2>1, <3>1, <3>2
    <2>3. CASE List(p)
      <3>1. PICK queue : /\ bar' = [bar EXCEPT ![p] = [b EXCEPT !.at = "load", !.queue = queue]]
                         /\ UNCHANGED <<world, reading>>
        BY <2>3, Zenon DEF List, Becomes
      <3> DEFINE n == [b EXCEPT !.at = "load", !.queue = queue]
      <3>2. DOMAIN n = DOMAIN b /\ n.line = b.line /\ n.asOf = b.asOf /\ n.at = "load"
        BY <1>1, IdleShape
      <3>3. bar' = [bar EXCEPT ![p] = n]
        BY <3>1
      <3> HIDE DEF n, b
      <3> QED  BY <2>1, <3>1, <3>2, <3>3
    <2>4. CASE LoadNext(p)
      <3> DEFINE n(s) == IF s \in sound /\ Confirmed(b, s)
                           THEN [b EXCEPT !.at = "render", !.picked = s]
                           ELSE [b EXCEPT !.queue = @ \ {s}]
      <3>1. PICK s \in b.queue : bar' = [bar EXCEPT ![p] = n(s)]
        BY <2>4 DEF LoadNext, Becomes
      <3>2. UNCHANGED <<world, reading>> /\ b.at = "load"
        BY <2>4 DEF LoadNext
      <3>3. /\ DOMAIN n(s) = DOMAIN b /\ n(s).line = b.line /\ n(s).asOf = b.asOf
            /\ n(s).at \in {"render", "load"}
        BY <1>1, <3>2, IdleShape
      <3> HIDE DEF n, b
      <3> QED  BY <2>1, <3>1, <3>2, <3>3
    <2>5. CASE NoSession(p)
      <3> DEFINE n == [b EXCEPT !.at = "shown", !.line.kind = "placeholder"]
      <3>1. UNCHANGED <<world, reading>> /\ bar' = [bar EXCEPT ![p] = n]
        BY <2>5 DEF NoSession, Becomes
      <3>2. /\ DOMAIN n = DOMAIN b /\ DOMAIN n.line = DOMAIN b.line /\ n.line.eta = b.line.eta
            /\ n.asOf = b.asOf /\ n.at = "shown"
        BY <1>1, IdleShape
      <3> HIDE DEF n, b
      <3> QED  BY <2>1, <3>1, <3>2
    <2> QED  BY <1>3, <2>2, <2>3, <2>4, <2>5
  <1>4. ASSUME Render(p) PROVE EtaInv'
    <2> DEFINE r == [observedAt |-> real - off, used |-> account[b.asOf].used,
                     resets |-> account[b.asOf].resets, asOf |-> b.asOf, real |-> real, off |-> off]
    <2>1. CASE b.asOf # 0 /\ "quotaEta" \in ToSet(b.format)
      <3>1. bar' = [bar EXCEPT ![p] = [b EXCEPT !.at = "prior", !.current = r]]
        BY <1>4, <2>1 DEF Render, Becomes
      <3>2. Read(account, r)
        BY <1>1, <2>1 DEF Read, EtaInv, Clock
      <3> HIDE DEF r
      <3>3. Polled(account, [b EXCEPT !.at = "prior", !.current = r])
        BY <1>1, <3>2 DEF Polled, Idle
      <3>4. UNCHANGED <<real, off, account>> /\ ReadIfAny(account, reading)'
        BY <1>4 DEF Render, world, EtaInv
      <3> QED
        BY <3>1, <3>3, <3>4, OnePollStep
    <2>2. CASE ~(b.asOf # 0 /\ "quotaEta" \in ToSet(b.format))
      <3>1. PICK n : /\ bar' = [bar EXCEPT ![p] = n] /\ UNCHANGED <<world, reading>>
                     /\ n = [b EXCEPT !.at = "shown", !.line = renderSegments(b, NoEta)]
        BY <1>4, <2>2 DEF Render, Becomes
      <3>2. /\ DOMAIN n = DOMAIN b /\ n.asOf = b.asOf /\ n.at = "shown"
            /\ n.line = renderSegments(b, NoEta)
        BY <1>1, <3>1 DEF Idle
      <3>3. DOMAIN n.line = DOMAIN NoLine /\ n.line.eta = NoEta
        BY <3>2, LineFacts
      <3>4. /\ DOMAIN n = DOMAIN Idle /\ n.asOf \in {0} \cup DOMAIN account
            /\ n.at \notin {"prior", "write"} /\ n.line.eta \in {b.line.eta, NoEta}
        BY <1>1, <3>2, <3>3
      <3> QED
        BY <3>1, <3>3, <3>4, QuietPoll
    <2> QED  BY <2>1, <2>2
  <1>5. ASSUME readPriorReading(p) PROVE EtaInv'
    <2>1. /\ bar' = [bar EXCEPT ![p] = [b EXCEPT !.at = "write", !.prior = reading]]
          /\ UNCHANGED <<real, off, account, reading>> /\ b.at = "prior"
      BY <1>5 DEF readPriorReading, Becomes, world
    <2>2. ReadIfAny(account, reading)
      BY DEF EtaInv
    <2>3. Polled(account, [b EXCEPT !.at = "write", !.prior = reading])
      BY <1>1, <2>1, <2>2 DEF Polled, Idle
    <2> QED
      BY <2>1, <2>2, <2>3, OnePollStep
  <1>6. ASSUME writeReading(p) PROVE EtaInv'
    <2> DEFINE eta == IF b.prior = NoReading THEN NoEta
                      ELSE projectCapCrossingMs(b.prior, b.current)
               line == renderSegments(b, eta)
    <2>1. /\ b.at = "write" /\ reading' \in {reading, b.current}
          /\ bar' = [bar EXCEPT ![p] = [b EXCEPT !.at = "shown", !.line = line]]
          /\ UNCHANGED <<real, off, account>>
      BY <1>6 DEF writeReading, Becomes, world
    <2>2. Read(account, b.current) /\ ReadIfAny(account, b.prior)
      BY <1>1, <2>1 DEF Polled
    <2>3. Projected(account, eta)
      <3>1. CASE b.prior = NoReading
        BY <3>1 DEF Projected, NoEta
      <3>2. CASE b.prior # NoReading
        BY <2>2, <3>2, CrossingFacts DEF ReadIfAny, EtaInv
      <3> QED  BY <3>1, <3>2
    <2>4. ReadIfAny(account, reading')
      BY <2>1, <2>2 DEF EtaInv, ReadIfAny
    <2> HIDE DEF eta
    <2>5. line.eta = eta /\ DOMAIN line = DOMAIN NoLine
      BY LineFacts
    <2> HIDE DEF line
    <2>6. Polled(account, [b EXCEPT !.at = "shown", !.line = line])
      BY <1>1, <2>3, <2>5 DEF Polled, Idle
    <2> QED
      BY <2>1, <2>4, <2>6, OnePollStep
  <1>7. ASSUME EndPoll(p) PROVE EtaInv'
    <2>1. bar' = [bar EXCEPT ![p] = Idle] /\ UNCHANGED <<world, reading>>
      BY <1>7 DEF EndPoll, Becomes
    <2>2. Idle.asOf = 0 /\ Idle.line.eta = NoEta
      BY DEF Idle, NoLine
    <2> QED
      BY <2>1, <2>2, IdleFacts, QuietPoll
  <1> HIDE DEF b
  <1> QED
    BY <1>2, <1>3, <1>4, <1>5, <1>6, <1>7 DEF Poll

(* The account's later states are later; what is about the earlier ones     *)
(* stays about them.                                                        *)
LEMMA AccountStep ==
  ASSUME EtaInv, Account
  PROVE  EtaInv'
  <1> DEFINE now == account[Len(account)]
  <1>1. StatesOf(account) /\ now \in State /\ now.used \in 0..100 /\ now.resets \in Int /\ real \in Int
    BY StateFacts, LastState DEF EtaInv, Clock
  <1>2. \/ \E u \in {l \in Levels : l > now.used} :
              account' = Append(account, [now EXCEPT !.used = u])
        \/ /\ ~(real < now.resets)
           /\ \E u \in Levels : account' = Append(account, [used |-> u, resets |-> real + WindowLong])
    BY DEF Account, Last
  <1>3. PICK s \in State : account' = Append(account, s) /\ Before(now, s)
    <2>1. CASE \E u \in {l \in Levels : l > now.used} :
                  account' = Append(account, [now EXCEPT !.used = u])
      <3>1. PICK u \in Levels : u > now.used /\ account' = Append(account, [now EXCEPT !.used = u])
        BY <2>1
      <3>2. u \in 0..100
        BY StatuslineAssumption
      <3>3. [now EXCEPT !.used = u] \in State /\ Before(now, [now EXCEPT !.used = u])
        BY <1>1, <3>1, <3>2 DEF State, Before
      <3> QED
        BY <3>1, <3>3
    <2>2. CASE /\ ~(real < now.resets)
               /\ \E u \in Levels :
                     account' = Append(account, [used |-> u, resets |-> real + WindowLong])
      <3>1. PICK u \in Levels : account' = Append(account, [used |-> u, resets |-> real + WindowLong])
        BY <2>2
      <3>2. u \in 0..100 /\ WindowLong \in Nat \ {0}
        BY StatuslineAssumption
      <3>3. /\ [used |-> u, resets |-> real + WindowLong] \in State
            /\ Before(now, [used |-> u, resets |-> real + WindowLong])
        <4> DEFINE x == real + WindowLong
        <4>1. x \in Int /\ now.resets < x
          BY <1>1, <2>2, <3>2
        <4> HIDE DEF x, now
        <4> DEFINE t == [used |-> u, resets |-> x]
        <4>2. t \in State /\ t.resets = x
          BY <3>2, <4>1 DEF State
        <4> HIDE DEF t
        <4>3. Before(now, t)
          BY <4>1, <4>2 DEF Before
        <4> QED
          BY <4>2, <4>3 DEF t, x
      <3> QED
        BY <3>1, <3>3
    <2> QED
      BY <1>2, <2>1, <2>2
  <1>4. /\ StatesOf(account')
        /\ \A i \in DOMAIN account : i \in DOMAIN account' /\ account'[i] = account[i]
    BY <1>1, <1>3, OneMoreState
  <1>5. ASSUME NEW r, Read(account, r) PROVE Read(account', r)
    BY <1>4, <1>5 DEF Read
  <1>6. ASSUME NEW b, Polled(account, b) PROVE Polled(account', b)
    <2>1. ASSUME NEW eta, Projected(account, eta) PROVE Projected(account', eta)
      BY <1>5, <2>1 DEF Projected
    <2> QED
      BY <1>4, <1>5, <1>6, <2>1 DEF Polled, ReadIfAny
  <1> QED
    BY <1>4, <1>5, <1>6 DEF EtaInv, ReadIfAny, Clock, Account

(* projectCapCrossingMs: "ambiguity is answered with omission" - whatever   *)
(* polls overlap, a projection is of usage that rose within one window.     *)
THEOREM ProjectionsAreSound == BarSpec => []EtaSound
  <1>1. BarInit => EtaInv
    <2> SUFFICES ASSUME BarInit PROVE EtaInv
      OBVIOUS
    <2>1. StatesOf(account) /\ Clock
      BY StatuslineAssumption DEF BarInit, StatesOf, State, Clock
    <2>2. ReadIfAny(account, reading) /\ DOMAIN bar = Bars
      BY DEF BarInit, ReadIfAny
    <2>3. \A p \in Bars : Polled(account, bar[p])
      BY IdleFacts DEF BarInit
    <2> QED
      BY <2>1, <2>2, <2>3 DEF EtaInv
  <1>2. EtaInv /\ [BarNext]_(barVars) => EtaInv'
    <2> SUFFICES ASSUME EtaInv, [BarNext]_(barVars) PROVE EtaInv'
      OBVIOUS
    <2>1. ASSUME NEW p \in Bars, Poll(p) PROVE EtaInv'
      BY <2>1, PollStep
    <2>2. CASE Tick \/ SetBack
      BY <2>2 DEF Tick, SetBack, EtaInv, Clock
    <2>3. CASE Account
      BY <2>3, AccountStep
    <2>4. CASE LoseReading
      BY <2>4 DEF LoseReading, world, EtaInv, Clock, ReadIfAny
    <2>5. ASSUME NEW s \in Sessions, Transcript(s) PROVE EtaInv'
      <3>1. /\ UNCHANGED <<real, off, account, reading>> /\ DOMAIN bar' = Bars
            /\ \A p \in Bars : bar'[p] = [bar[p] EXCEPT !.steady = @ \ {s}]
        BY <2>5 DEF Transcript
      <3>2. \A p \in Bars : Polled(account, bar'[p])
        BY <3>1 DEF EtaInv, Polled, Idle
      <3> QED
        BY <3>1, <3>2 DEF EtaInv, Clock
    <2>6. CASE UNCHANGED barVars
      BY <2>6 DEF barVars, EtaInv, Clock
    <2> QED
      BY <2>1, <2>2, <2>3, <2>4, <2>5, <2>6 DEF BarNext
  <1>3. EtaInv => EtaSound
    <2> SUFFICES ASSUME EtaInv, NEW p \in Bars, bar[p].line.eta.shown
                 PROVE  LET eta == bar[p].line.eta
                            then == account[eta.from.asOf]
                            now == account[eta.to.asOf]
                        IN  /\ eta.from.asOf < eta.to.asOf
                            /\ then.resets = now.resets /\ then.used < now.used
                            /\ eta.from.off = 0 /\ eta.to.off = 0 =>
                                  /\ eta.to.real - eta.from.real >= Gap
                                  /\ eta.to.real * eta.crossing[2] <= eta.crossing[1]
                                  /\ eta.crossing[1] < now.resets * eta.crossing[2]
      BY DEF EtaSound
    <2> DEFINE eta == bar[p].line.eta
               i == eta.from.asOf
               j == eta.to.asOf
    <2>1. Projected(account, eta) /\ eta.shown /\ StatesOf(account)
      BY DEF EtaInv, Polled
    <2> HIDE DEF eta
    <2>2. /\ i \in DOMAIN account /\ j \in DOMAIN account
          /\ account[i].resets = account[j].resets /\ account[i].used < account[j].used
          /\ account[j].resets = eta.to.resets
      BY <2>1 DEF Projected, Read
    <2>3. i < j
      <3>1. i \in Int /\ j \in Int
        BY <2>1, <2>2 DEF StatesOf
      <3>2. /\ account[i].used \in Int /\ account[j].used \in Int
            /\ account[i].resets \in Int /\ account[j].resets \in Int
        BY <2>1, <2>2, StateFacts
      <3>3. j < i => Before(account[j], account[i])
        BY <2>1, <2>2 DEF StatesOf
      <3> QED
        BY <2>2, <3>1, <3>2, <3>3 DEF Before
    <2>4. eta.from.off = 0 /\ eta.to.off = 0 =>
             eta.from.observedAt = eta.from.real /\ eta.to.observedAt = eta.to.real
      BY <2>1 DEF Projected, Read
    <2>5. eta.from.off = 0 /\ eta.to.off = 0 =>
             /\ eta.to.real - eta.from.real >= Gap
             /\ eta.to.real * eta.crossing[2] <= eta.crossing[1]
             /\ eta.crossing[1] < account[j].resets * eta.crossing[2]
      BY <2>1, <2>2, <2>4 DEF Projected
    <2> QED
      BY <2>2, <2>3, <2>5 DEF eta
  <1> QED
    BY <1>1, <1>2, <1>3, PTL DEF BarSpec

-----------------------------------------------------------------------------
(* Statusline: what a path is resolved to is a path. *)
LEMMA NormalizedPath ==
  ASSUME NEW S, NEW path \in Seq(S)
  PROVE  normalizeCwd(path) \in Seq(S)
  <1> DEFINE Then(i, before) ==
                CASE path[i] = <<".">> -> before
                  [] path[i] = <<"..">> -> IF before = <<>> THEN <<>> ELSE Front(before)
                  [] OTHER -> Append(before, path[i])
             Body(g, i) == IF i = 0 THEN <<>> ELSE Then(i, g[i - 1])
             len == Len(path)
             V == Seq(S)
             step == [i \in 1..len |-> [before \in V |-> Then(i, before)]]
             F == CHOOSE h : h = [i \in 0..len |-> Body(h, i)]
  <1>1. ASSUME NEW i \in 1..len, NEW before \in V PROVE Then(i, before) \in V
    <2>1. path[i] \in S
      BY ElementOfSeq
    <2>2. before # <<>> => Front(before) \in Seq(S)
      BY DEF Front
    <2> QED
      BY <2>1, <2>2
  <1> DEFINE start == <<>>
  <1>2. start \in V /\ len \in Nat
    OBVIOUS
  <1>3. normalizeCwd(path) = F[len]
    BY DEF normalizeCwd
  <1> HIDE DEF Then, len, V, start
  <1>4. step \in [1..len -> [V -> V]]
    BY <1>1
  <1>5. PICK f \in [0..len -> V] : f[0] = start /\ \A i \in 1..len : f[i] = step[i][f[i - 1]]
    <2> HIDE DEF step, F, Body
    <2>1. \E f \in [0..len -> V] : f[0] = start /\ \A i \in 1..len : f[i] = step[i][f[i - 1]]
      <3>1. Iterable(V, start, len, step)
        BY <1>2, <1>4, Iterated, Zenon
      <3> QED  BY <3>1, Zenon DEF Iterable
    <2> QED  BY <2>1
  <1>6. f = [i \in 0..len |-> Body(f, i)]
    <2>1. ASSUME NEW i \in 1..len PROVE f[i] = Then(i, f[i - 1])
      <3>1. f[i - 1] \in V
        BY <1>2, <1>5
      <3> QED  BY <1>5, <3>1
    <2> QED  BY <1>2, <1>5, <2>1 DEF start
  <1>7. F = [i \in 0..len |-> Body(F, i)]
    BY <1>6
  <1> HIDE DEF F
  <1> DEFINE T == {n \in Nat : n <= len => F[n] \in V}
  <1>8. 0 \in T
    BY <1>2, <1>7 DEF start
  <1>9. ASSUME NEW n \in Nat, n \in T PROVE n + 1 \in T
    <2> SUFFICES ASSUME n + 1 <= len PROVE F[n + 1] \in V
      OBVIOUS
    <2>1. F[n] \in V /\ n + 1 \in 1..len /\ (n + 1) - 1 = n
      BY <1>2, <1>9
    <2>2. F[n + 1] = Then(n + 1, F[n])
      BY <1>2, <1>7, <2>1
    <2> QED
      BY <1>1, <2>1, <2>2
  <1>10. len \in T
    <2> HIDE DEF T
    <2> QED  BY <1>2, <1>8, <1>9, AllOf
  <1> QED
    BY <1>2, <1>3, <1>10 DEF V

(* The prefixes of a path; a session is attributed by them. *)
LEMMA PrefixOf ==
  ASSUME NEW S, NEW s \in Seq(S), NEW t \in Seq(S)
  PROVE  /\ IsPrefix(s, t) <=> \E n \in 0..Len(t) : s = SubSeq(t, 1, n)
         /\ \A n \in 0..Len(t) : s = SubSeq(t, 1, n) => (n = Len(t) <=> s = t)
  <1>1. ASSUME NEW n \in 0..Len(t)
        PROVE  /\ SubSeq(t, 1, n) \in Seq(S) /\ Len(SubSeq(t, 1, n)) = n
               /\ \A i \in 1..n : SubSeq(t, 1, n)[i] = t[i]
    OBVIOUS
  <1>2. ASSUME IsPrefix(s, t) PROVE \E n \in 0..Len(t) : s = SubSeq(t, 1, n)
    <2>1. Len(s) \in 0..Len(t) /\ \A i \in 1..Len(s) : s[i] = t[i]
      BY <1>2 DEF IsPrefix
    <2>2. s = SubSeq(t, 1, Len(s))
      BY <1>1, <2>1
    <2> QED  BY <2>1, <2>2
  <1>3. ASSUME NEW n \in 0..Len(t), s = SubSeq(t, 1, n)
        PROVE  IsPrefix(s, t) /\ (n = Len(t) <=> s = t)
    <2>1. Len(s) = n /\ \A i \in 1..n : s[i] = t[i]
      BY <1>1, <1>3
    <2>2. n = Len(t) => s = t
      BY <2>1
    <2> QED  BY <2>1, <2>2 DEF IsPrefix
  <1> QED  BY <1>2, <1>3

LEMMA Attributed ==
  ASSUME NEW s \in Sessions, NEW cwd \in Paths
  PROVE  cwdMatchesForAttribution(CwdOf[s], cwd) <=> Belongs(s, cwd)
  <1> DEFINE own == normalizeCwd(CwdOf[s])
             asked == normalizeCwd(cwd)
             home == normalizeCwd(Home)
             Words == Seq(STRING)
  <1>1. own \in Seq(Words) /\ asked \in Seq(Words) /\ home \in Seq(Words)
    BY StatuslineAssumption, NormalizedPath DEF Paths
  <1>2. cwdMatchesForAttribution(CwdOf[s], cwd) <=>
          IsPrefix(own, asked) /\ (own = asked \/ ~IsPrefix(own, home))
    BY DEF cwdMatchesForAttribution, matchesNormalized
  <1>3. Belongs(s, cwd) <=> \E n \in 0..Len(asked) :
            /\ own = SubSeq(asked, 1, n)
            /\ n = Len(asked) \/ \A m \in 0..Len(home) : own # SubSeq(home, 1, m)
    BY DEF Belongs
  <1> HIDE DEF own, asked, home, Words
  <1>4. IsPrefix(own, home) <=> \E m \in 0..Len(home) : own = SubSeq(home, 1, m)
    BY <1>1, PrefixOf
  <1>5. /\ IsPrefix(own, asked) <=> \E n \in 0..Len(asked) : own = SubSeq(asked, 1, n)
        /\ \A n \in 0..Len(asked) : own = SubSeq(asked, 1, n) => (n = Len(asked) <=> own = asked)
    BY <1>1, PrefixOf
  <1> QED
    BY <1>2, <1>3, <1>4, <1>5

LEMMA Listed ==
  ASSUME NEW s \in sound, sound \subseteq Sessions, NEW cwd \in Paths, Belongs(s, cwd), AgentOf[s] # "cursor"
  PROVE  s \in listSessionsForCwd(cwd)
  <1>1. CASE AgentOf[s] = "claude-code"
    <2> DEFINE own == normalizeCwd(CwdOf[s])
               asked == normalizeCwd(cwd)
    <2>1. PICK n \in 0..Len(asked) : own = SubSeq(asked, 1, n)
      BY DEF Belongs
    <2>2. encodeClaudeProjectCwd(own) \in claudeProjectDirectoryNames(cwd)
      BY <2>1 DEF claudeProjectDirectoryNames
    <2> QED
      BY <1>1, <2>2 DEF listSessionsForCwd
  <1>2. CASE AgentOf[s] # "claude-code"
    BY <1>2, Attributed DEF listSessionsForCwd
  <1> QED  BY <1>1, <1>2

Beyond(s) == Cardinality({t \in Sessions : t > s}) >= MaxLoads

(* What is not among the newest is older than all of those. *)
LEMMA NewestFacts ==
  ASSUME NEW S, S \subseteq Sessions, NEW s \in S, s \notin Newest(S, MaxLoads)
  PROVE  Beyond(s) /\ \A t \in Newest(S, MaxLoads) : t > s
  <1> DEFINE Later(t) == {u \in S : u > t}
             AllLater == {t \in Sessions : t > s}
  <1>1. IsFiniteSet(Sessions) /\ Sessions \subseteq Nat /\ IsFiniteSet(S) /\ MaxLoads \in Nat
    BY StatuslineAssumption, FS_Subset
  <1>2. \A t \in S : IsFiniteSet(Later(t)) /\ Cardinality(Later(t)) \in Nat
    BY <1>1, FS_Subset, FS_CardinalityType
  <1>3. IsFiniteSet(AllLater) /\ Cardinality(AllLater) \in Nat /\ Cardinality(Later(s)) <= Cardinality(AllLater)
    <2>1. IsFiniteSet(AllLater) /\ Later(s) \subseteq AllLater
      BY <1>1, FS_Subset
    <2> HIDE DEF AllLater, Later
    <2> QED  BY <2>1, FS_Subset, FS_CardinalityType
  <1>4. Cardinality(Later(s)) >= MaxLoads
    <2>1. ~(Cardinality(Later(s)) < MaxLoads)
      BY DEF Newest
    <2> HIDE DEF Later
    <2> QED  BY <1>1, <1>2, <2>1
  <1>5. ASSUME NEW t \in Newest(S, MaxLoads) PROVE t > s
    <2>1. t \in S /\ Cardinality(Later(t)) < MaxLoads
      BY <1>5 DEF Newest
    <2>2. CASE t <= s
      <3>1. Later(s) \subseteq Later(t)
        <4>1. \A u \in S : u > s => u > t
          BY <1>1, <2>1, <2>2
        <4> QED  BY <4>1
      <3> HIDE DEF Later
      <3>2. Cardinality(Later(s)) <= Cardinality(Later(t))
        BY <1>2, <2>1, <3>1, FS_Subset
      <3> QED  BY <1>1, <1>2, <1>4, <2>1, <3>2
    <2> QED  BY <1>1, <2>1, <2>2
  <1>6. Beyond(s)
    <2> HIDE DEF Later
    <2>1. Cardinality(AllLater) >= MaxLoads
      <3> HIDE DEF AllLater
      <3> QED  BY <1>1, <1>2, <1>3, <1>4
    <2> QED  BY <2>1 DEF Beyond
  <1> QED  BY <1>5, <1>6

(* The sessions that a poll for a directory may be about; none of them has  *)
(* changed since the poll began.                                            *)
Eligible(b) == {s \in b.steady : Belongs(s, b.cwd) /\ AgentOf[s] # "cursor"}

(* A poll's choice, which its line is about. *)
Chosen(b) ==
    /\ b.scoped /\ ~b.stdin =>
          Belongs(b.picked, b.cwd) /\ \A s \in Eligible(b) : s <= b.picked
    /\ b.stdin => b.picked = b.host.session

NamesIt(b) ==
    \A i \in DOMAIN b.line.segments :
        LET seg == b.line.segments[i]
        IN  seg[1] \in {"brand", "model", "cost"} =>
                seg[2] = b.picked \/ (b.stdin /\ seg[2] = 0)

(* What stays to be tried is older than the sessions that have failed, and  *)
(* what was never tried comes after too many of them.                       *)
Tries(b) ==
    /\ b.queue \subseteq Sessions
    /\ \A s \in Eligible(b) : s \in b.queue \/ (Beyond(s) /\ \A t \in b.queue : t > s)

PollInv(b, loads) ==
    /\ DOMAIN b = DOMAIN Idle /\ DOMAIN b.line = DOMAIN NoLine
    /\ b.steady \subseteq loads
    /\ b.at # "idle" => b.cwd \in Paths
    /\ b.at \in {"stdin", "list", "load"} => ~b.stdin /\ b.line.segments = <<>>
    /\ b.at = "load" /\ b.scoped => Tries(b)
    /\ b.at \in {"render", "prior", "write"} => Chosen(b)
    /\ b.at = "shown" =>
          \/ b.line.kind = "line" /\ Chosen(b) /\ NamesIt(b)
          \/ /\ b.line.kind = "placeholder" /\ b.line.segments = <<>>
             /\ b.scoped => \A s \in Eligible(b) : Beyond(s)

SessionInv ==
    /\ calls \in Uses /\ sound \subseteq Sessions /\ DOMAIN bar = Bars
    /\ \A p \in Bars : PollInv(bar[p], sound)

LEMMA OneSessionStep ==
  ASSUME SessionInv, NEW p \in Bars, NEW b, bar' = [bar EXCEPT ![p] = b], PollInv(b, sound),
         UNCHANGED world
  PROVE  SessionInv'
  <1>1. UNCHANGED <<sound, calls>>
    BY DEF world
  <1>2. \A q \in Bars : PollInv(bar'[q], sound)
    BY DEF SessionInv
  <1>3. \A q \in Bars : PollInv(bar[q], sound)'
    BY <1>1, <1>2 DEF PollInv
  <1> QED
    BY <1>1, <1>3 DEF SessionInv

LEMMA SaysWhat ==
  ASSUME NEW b, NEW eta
  PROVE  LET line == renderSegments(b, eta)
         IN  /\ DOMAIN line = DOMAIN NoLine /\ line.kind = "line"
             /\ \A i \in DOMAIN line.segments :
                    line.segments[i][1] \in {"brand", "model", "cost"} =>
                        line.segments[i][2] = b.picked \/ (b.stdin /\ line.segments[i][2] = 0)
  <1> DEFINE line == renderSegments(b, eta)
  <1>1. DOMAIN line = DOMAIN NoLine /\ line.kind = "line"
    BY IdleShape DEF renderSegments
  <1>2. ASSUME NEW i \in DOMAIN line.segments,
               line.segments[i][1] \in {"brand", "model", "cost"}
        PROVE  line.segments[i][2] = b.picked \/ (b.stdin /\ line.segments[i][2] = 0)
    <2> DEFINE name == b.format[i]
    <2>1. line.segments[i] = <<name, IF name = "quotaEta" THEN 0 ELSE Says(b, name)[1]>>
      BY <1>2 DEF renderSegments
    <2> HIDE DEF line, name
    <2>2. name \in {"brand", "model", "cost"} /\ line.segments[i][2] = Says(b, name)[1]
      BY <1>2, <2>1
    <2>3. CASE name = "brand"
      <3>1. Says(b, name)[1] = IF b.stdin THEN 0 ELSE b.picked
        BY <2>3 DEF Says
      <3> QED  BY <2>2, <3>1
    <2>4. CASE name = "model"
      <3>1. Says(b, name)[1] = IF b.stdin /\ b.host.model THEN 0 ELSE b.picked
        BY <2>4 DEF Says
      <3> QED  BY <2>2, <3>1
    <2>5. CASE name = "cost"
      <3>1. Says(b, name)[1] = b.picked
        BY <2>5 DEF Says
      <3> QED  BY <2>2, <3>1
    <2> QED  BY <2>2, <2>3, <2>4, <2>5
  <1> QED
    BY <1>1, <1>2

LEMMA StartSession ==
  ASSUME SessionInv, NEW p \in Bars, NEW c \in calls, NEW k, Start(p, c, k)
  PROVE  SessionInv'
  <1> DEFINE format == IF c.given # NotGiven THEN c.given
                       ELSE IF c.config # NotGiven /\ parses(c.config) THEN c.config
                       ELSE DEFAULT_FORMAT
             refused == [Idle EXCEPT !.line.kind = "refused"]
             begun == [Idle EXCEPT !.at = "stdin", !.format = format, !.scoped = c.scoped,
                                     !.cwd = c.cwd, !.host = c.host, !.asOf = k, !.steady = sound]
  <1>1. PICK n \in {refused, begun} : bar' = [bar EXCEPT ![p] = n] /\ UNCHANGED <<world, reading>>
    BY DEF Start, Becomes
  <1>2. c.cwd \in Paths
    BY StatuslineAssumption DEF SessionInv
  <1> HIDE DEF format
  <1>3. PollInv(refused, sound)
    BY DEF PollInv, Idle, NoLine
  <1>4. PollInv(begun, sound)
    BY <1>2 DEF PollInv, Idle, NoLine
  <1> HIDE DEF refused, begun
  <1> QED
    BY <1>1, <1>3, <1>4, OneSessionStep

LEMMA ChooseSession ==
  ASSUME SessionInv, NEW p \in Bars, FromPayload(p) \/ List(p) \/ LoadNext(p) \/ NoSession(p)
  PROVE  SessionInv'
  <1> DEFINE b == bar[p]
  <1>1. PollInv(b, sound) /\ DOMAIN bar = Bars /\ sound \subseteq Sessions
    BY DEF SessionInv
  <1>2. CASE FromPayload(p)
    <2>1. bar' = [bar EXCEPT ![p] =
              IF b.host.session \in sound
                THEN [b EXCEPT !.at = "render", !.picked = b.host.session, !.stdin = TRUE]
                ELSE [b EXCEPT !.at = "list"]] /\ b.at = "stdin" /\ UNCHANGED world
      BY <1>2 DEF FromPayload, Becomes
    <2> HIDE DEF b
    <2>2. PollInv([b EXCEPT !.at = "render", !.picked = b.host.session, !.stdin = TRUE], sound)
      BY <1>1, <2>1, IdleShape DEF PollInv, Chosen
    <2>3. PollInv([b EXCEPT !.at = "list"], sound)
      BY <1>1, <2>1, IdleShape DEF PollInv
    <2> QED
      BY <2>1, <2>2, <2>3, OneSessionStep
  <1>3. CASE List(p)
    <2> DEFINE queue == IF b.scoped THEN Newest(listSessionsForCwd(b.cwd), MaxLoads)
                        ELSE Newest(sound, 1)
    <2>1. bar' = [bar EXCEPT ![p] = [b EXCEPT !.at = "load", !.queue = queue]]
          /\ b.at = "list" /\ UNCHANGED world
      BY <1>3 DEF List, Becomes
    <2> DEFINE listed == listSessionsForCwd(b.cwd)
    <2>2. listed \subseteq sound
      BY DEF listSessionsForCwd
    <2>3. ASSUME NEW s \in Eligible(b) PROVE s \in listed
      BY <1>1, <2>1, <2>3, Listed DEF Eligible, PollInv
    <2>4. b.scoped => queue = Newest(listed, MaxLoads)
      OBVIOUS
    <2> HIDE DEF b, queue, listed
    <2> DEFINE n == [b EXCEPT !.at = "load", !.queue = queue]
    <2>5. /\ DOMAIN n = DOMAIN Idle /\ n.at = "load" /\ n.queue = queue /\ n.scoped = b.scoped
          /\ n.cwd = b.cwd /\ n.steady = b.steady /\ n.stdin = b.stdin /\ n.line = b.line
      BY <1>1, IdleShape DEF PollInv
    <2> HIDE DEF n
    <2>6. ASSUME b.scoped PROVE Tries(n)
      <3>1. queue \subseteq Sessions
        BY <1>1, <2>2, <2>4, <2>6 DEF Newest
      <3>2. Eligible(n) = Eligible(b)
        BY <2>5 DEF Eligible
      <3>3. ASSUME NEW s \in Eligible(b) PROVE s \in queue \/ (Beyond(s) /\ \A t \in queue : t > s)
        <4>1. listed \subseteq Sessions /\ s \in listed /\ queue = Newest(listed, MaxLoads)
          BY <1>1, <2>2, <2>3, <2>4, <2>6, <3>3
        <4> QED  BY <4>1, NewestFacts
      <3> QED
        BY <2>5, <3>1, <3>2, <3>3 DEF Tries
    <2>7. PollInv(n, sound)
      BY <1>1, <2>1, <2>5, <2>6 DEF PollInv
    <2> QED
      BY <2>1, <2>7, OneSessionStep DEF n
  <1>4. CASE LoadNext(p)
    <2>1. PICK s \in b.queue :
            /\ \A t \in b.queue : t <= s
            /\ bar' = [bar EXCEPT ![p] = IF s \in sound /\ Confirmed(b, s)
                              THEN [b EXCEPT !.at = "render", !.picked = s]
                              ELSE [b EXCEPT !.queue = @ \ {s}]]
      BY <1>4 DEF LoadNext, Becomes
    <2>2. b.at = "load" /\ UNCHANGED world /\ b.cwd \in Paths /\ ~b.stdin
          /\ b.steady \subseteq sound /\ DOMAIN b = DOMAIN Idle
      BY <1>1, <1>4 DEF LoadNext, PollInv
    <2>3. b.scoped => Tries(b)
      BY <1>1, <2>2 DEF PollInv
    <2>4. b.scoped => s \in Sessions /\ (Confirmed(b, s) <=> Belongs(s, b.cwd))
      BY <2>1, <2>2, <2>3, Attributed DEF Tries, Confirmed
    <2> DEFINE ready == [b EXCEPT !.at = "render", !.picked = s]
               rest == [b EXCEPT !.queue = @ \ {s}]
    <2> HIDE DEF b
    <2>5. CASE s \in sound /\ Confirmed(b, s)
      <3>1. /\ DOMAIN ready = DOMAIN Idle /\ ready.at = "render" /\ ready.picked = s
            /\ ready.scoped = b.scoped /\ ready.cwd = b.cwd /\ ready.steady = b.steady
            /\ ready.stdin = b.stdin /\ ready.line = b.line
        BY <2>2, IdleShape
      <3>2. bar' = [bar EXCEPT ![p] = ready]
        BY <2>1, <2>5
      <3> HIDE DEF ready
      <3>3. Eligible(ready) = Eligible(b)
        BY <3>1 DEF Eligible
      <3>4. ASSUME b.scoped PROVE \A e \in Eligible(b) : e <= s
        <4>1. /\ Sessions \subseteq Nat /\ s \in Sessions /\ b.steady \subseteq Sessions
          BY <1>1, <2>2, <2>4, <3>4, StatuslineAssumption
        <4>2. \A e \in Eligible(b) : e \in Nat /\ (e \in b.queue \/ s > e)
          BY <2>1, <2>3, <3>4, <4>1 DEF Tries, Eligible
        <4> QED
          BY <2>1, <4>1, <4>2
      <3>5. b.scoped => Belongs(s, b.cwd)
        BY <2>4, <2>5
      <3>6. Chosen(ready)
        BY <2>2, <3>1, <3>3, <3>4, <3>5 DEF Chosen
      <3>7. PollInv(ready, sound)
        BY <1>1, <2>2, <3>1, <3>6 DEF PollInv
      <3> QED
        BY <2>2, <3>2, <3>7, OneSessionStep
    <2>6. CASE ~(s \in sound /\ Confirmed(b, s))
      <3>1. /\ DOMAIN rest = DOMAIN Idle /\ rest.at = "load" /\ rest.queue = b.queue \ {s}
            /\ rest.scoped = b.scoped /\ rest.cwd = b.cwd /\ rest.steady = b.steady
            /\ rest.stdin = b.stdin /\ rest.line = b.line
        BY <2>2, IdleShape
      <3>2. bar' = [bar EXCEPT ![p] = rest]
        BY <2>1, <2>6
      <3> HIDE DEF rest
      <3>3. Eligible(rest) = Eligible(b)
        BY <3>1 DEF Eligible
      <3>4. b.scoped => s \notin Eligible(b)
        BY <2>2, <2>4, <2>6 DEF Eligible
      <3>5. b.scoped => Tries(rest)
        BY <2>3, <3>1, <3>3, <3>4 DEF Tries
      <3>6. PollInv(rest, sound)
        BY <1>1, <2>2, <3>1, <3>5 DEF PollInv
      <3> QED
        BY <2>2, <3>2, <3>6, OneSessionStep
    <2> QED  BY <2>5, <2>6
  <1>5. CASE NoSession(p)
    <2> DEFINE n == [b EXCEPT !.at = "shown", !.line.kind = "placeholder"]
    <2>1. bar' = [bar EXCEPT ![p] = n] /\ b.at = "load" /\ b.queue = {} /\ UNCHANGED world
      BY <1>5 DEF NoSession, Becomes
    <2> HIDE DEF b
    <2>2. /\ DOMAIN n = DOMAIN Idle /\ n.at = "shown" /\ n.scoped = b.scoped /\ n.cwd = b.cwd
          /\ n.steady = b.steady /\ DOMAIN n.line = DOMAIN NoLine
          /\ n.line.kind = "placeholder" /\ n.line.segments = b.line.segments
      BY <1>1, IdleShape DEF PollInv
    <2> HIDE DEF n
    <2>3. b.scoped => \A s \in Eligible(n) : Beyond(s)
      BY <1>1, <2>1, <2>2 DEF PollInv, Tries, Eligible
    <2>4. PollInv(n, sound)
      BY <1>1, <2>1, <2>2, <2>3 DEF PollInv
    <2> QED
      BY <2>1, <2>4, OneSessionStep
  <1> QED
    BY <1>2, <1>3, <1>4, <1>5

LEMMA ShowSession ==
  ASSUME SessionInv, NEW p \in Bars, Render(p) \/ readPriorReading(p) \/ writeReading(p)
  PROVE  SessionInv'
  <1> DEFINE b == bar[p]
  <1>1. PollInv(b, sound)
    BY DEF SessionInv
  <1>2. UNCHANGED world /\ b.at \in {"render", "prior", "write"}
    BY DEF Render, readPriorReading, writeReading, world
  <1>3. DOMAIN b = DOMAIN Idle /\ Chosen(b) /\ b.steady \subseteq sound /\ b.cwd \in Paths
    BY <1>1, <1>2 DEF PollInv
  <1>4. ASSUME NEW n, bar' = [bar EXCEPT ![p] = n], DOMAIN n = DOMAIN Idle,
               DOMAIN n.line = DOMAIN NoLine,
               n.steady = b.steady, n.cwd = b.cwd, n.scoped = b.scoped, n.stdin = b.stdin,
               n.picked = b.picked, n.host = b.host,
               \/ n.at \in {"prior", "write"}
               \/ n.at = "shown" /\ n.line.kind = "line" /\ NamesIt(n)
        PROVE  SessionInv'
    <2>1. Chosen(n)
      BY <1>3, <1>4 DEF Chosen, Eligible
    <2>2. PollInv(n, sound)
      BY <1>3, <1>4, <2>1 DEF PollInv
    <2> QED
      BY <1>2, <1>4, <2>2, OneSessionStep
  <1>5. ASSUME NEW eta, bar' = [bar EXCEPT ![p] = [b EXCEPT !.at = "shown",
                                                   !.line = renderSegments(b, eta)]]
        PROVE  SessionInv'
    <2> DEFINE line == renderSegments(b, eta)
               n == [b EXCEPT !.at = "shown", !.line = line]
    <2>1. /\ DOMAIN line = DOMAIN NoLine /\ line.kind = "line"
          /\ \A i \in DOMAIN line.segments :
                line.segments[i][1] \in {"brand", "model", "cost"} =>
                    line.segments[i][2] = b.picked \/ (b.stdin /\ line.segments[i][2] = 0)
      BY SaysWhat
    <2>2. bar' = [bar EXCEPT ![p] = n]
      BY <1>5
    <2> HIDE DEF b, line
    <2>3. /\ DOMAIN n = DOMAIN Idle /\ n.line = line /\ n.at = "shown" /\ n.steady = b.steady
          /\ n.cwd = b.cwd /\ n.scoped = b.scoped /\ n.stdin = b.stdin
          /\ n.picked = b.picked /\ n.host = b.host
      BY <1>3, IdleShape
    <2> HIDE DEF n
    <2>4. NamesIt(n)
      BY <2>1, <2>3, Zenon DEF NamesIt
    <2> QED
      BY <1>4, <2>1, <2>2, <2>3, <2>4
  <1>6. CASE Render(p)
    <2>1. \/ \E r : bar' = [bar EXCEPT ![p] = [b EXCEPT !.at = "prior", !.current = r]]
          \/ bar' = [bar EXCEPT ![p] = [b EXCEPT !.at = "shown", !.line = renderSegments(b, NoEta)]]
      BY <1>6 DEF Render, Becomes
    <2>2. ASSUME NEW r, bar' = [bar EXCEPT ![p] = [b EXCEPT !.at = "prior", !.current = r]]
          PROVE  SessionInv'
      <3> DEFINE n == [b EXCEPT !.at = "prior", !.current = r]
      <3>1. bar' = [bar EXCEPT ![p] = n]
        BY <2>2
      <3> HIDE DEF b
      <3>2. /\ DOMAIN n = DOMAIN Idle /\ n.line = b.line /\ n.at = "prior" /\ n.steady = b.steady
            /\ n.cwd = b.cwd /\ n.scoped = b.scoped /\ n.stdin = b.stdin
            /\ n.picked = b.picked /\ n.host = b.host
        BY <1>3, IdleShape
      <3>3. DOMAIN b.line = DOMAIN NoLine
        BY <1>1 DEF PollInv
      <3> HIDE DEF n
      <3> QED  BY <1>4, <3>1, <3>2, <3>3
    <2> QED  BY <1>5, <2>1, <2>2
  <1>7. CASE readPriorReading(p)
    <2> DEFINE n == [b EXCEPT !.at = "write", !.prior = reading]
    <2>1. bar' = [bar EXCEPT ![p] = n]
      BY <1>7 DEF readPriorReading, Becomes
    <2> HIDE DEF b
    <2>2. /\ DOMAIN n = DOMAIN Idle /\ n.line = b.line /\ n.at = "write" /\ n.steady = b.steady
          /\ n.cwd = b.cwd /\ n.scoped = b.scoped /\ n.stdin = b.stdin
          /\ n.picked = b.picked /\ n.host = b.host
      BY <1>3, IdleShape
    <2>3. DOMAIN b.line = DOMAIN NoLine
      BY <1>1 DEF PollInv
    <2> HIDE DEF n
    <2> QED  BY <1>4, <2>1, <2>2, <2>3
  <1>8. CASE writeReading(p)
    BY <1>5, <1>8 DEF writeReading, Becomes
  <1> QED
    BY <1>6, <1>7, <1>8

LEMMA TranscriptStep ==
  ASSUME SessionInv, NEW s \in Sessions, Transcript(s)
  PROVE  SessionInv'
  <1>1. /\ sound' \subseteq Sessions /\ calls' \in Uses
        /\ \A x \in sound : x # s => x \in sound'
        /\ bar' = [p \in Bars |-> [bar[p] EXCEPT !.steady = @ \ {s}]]
    BY DEF Transcript, SessionInv
  <1>2. ASSUME NEW p \in Bars PROVE PollInv(bar[p], sound)'
    <2> DEFINE b == bar[p]
               n == [b EXCEPT !.steady = @ \ {s}]
    <2>1. PollInv(b, sound) /\ bar'[p] = n
      BY <1>1 DEF SessionInv
    <2> HIDE DEF b
    <2>2. DOMAIN b = DOMAIN Idle
      BY <2>1 DEF PollInv
    <2>3. /\ DOMAIN n = DOMAIN Idle /\ n.steady = b.steady \ {s} /\ n.line = b.line
          /\ n.cwd = b.cwd /\ n.scoped = b.scoped /\ n.stdin = b.stdin /\ n.at = b.at
          /\ n.picked = b.picked /\ n.host = b.host /\ n.queue = b.queue
      BY <2>2, IdleShape
    <2> HIDE DEF n
    <2>4. Eligible(n) \subseteq Eligible(b)
      BY <2>3 DEF Eligible
    <2>5. (Tries(b) => Tries(n)) /\ (Chosen(b) => Chosen(n)) /\ (NamesIt(b) => NamesIt(n))
      <3>1. Tries(b) => Tries(n)
        BY <2>3, <2>4 DEF Tries
      <3>2. Chosen(b) => Chosen(n)
        BY <2>3, <2>4 DEF Chosen
      <3>3. NamesIt(b) => NamesIt(n)
        BY <2>3, Zenon DEF NamesIt
      <3> QED  BY <3>1, <3>2, <3>3
    <2>6. n.steady \subseteq sound'
      BY <1>1, <2>1, <2>3 DEF PollInv
    <2>7. DOMAIN n.line = DOMAIN NoLine /\ (n.at # "idle" => n.cwd \in Paths)
          /\ (n.at \in {"stdin", "list", "load"} => ~n.stdin /\ n.line.segments = <<>>)
      BY <2>1, <2>3 DEF PollInv
    <2>8. n.at = "load" /\ n.scoped => Tries(n)
      BY <2>1, <2>3, <2>5 DEF PollInv
    <2>9. n.at \in {"render", "prior", "write"} => Chosen(n)
      BY <2>1, <2>3, <2>5 DEF PollInv
    <2>10. n.at = "shown" =>
              \/ n.line.kind = "line" /\ Chosen(n) /\ NamesIt(n)
              \/ /\ n.line.kind = "placeholder" /\ n.line.segments = <<>>
                 /\ n.scoped => \A e \in Eligible(n) : Beyond(e)
      BY <2>1, <2>3, <2>4, <2>5 DEF PollInv
    <2>11. PollInv(n, sound')
      BY <2>3, <2>6, <2>7, <2>8, <2>9, <2>10 DEF PollInv
    <2> QED  BY <2>1, <2>11
  <1> QED
    BY <1>1, <1>2 DEF SessionInv

(* src/cli/commands/statusline.ts, cwdScope.ts: "an honest omission, never  *)
(* a wrong session", whatever transcripts come and go during the poll.      *)
THEOREM LinesAreAboutTheRightSession == BarSpec => []RightSession
  <1>1. BarInit => SessionInv
    <2> SUFFICES ASSUME BarInit PROVE SessionInv
      OBVIOUS
    <2>1. PollInv(Idle, sound)
      BY DEF PollInv, Idle, NoLine
    <2> QED
      BY <2>1 DEF BarInit, SessionInv
  <1>2. SessionInv /\ [BarNext]_(barVars) => SessionInv'
    <2> SUFFICES ASSUME SessionInv, [BarNext]_(barVars) PROVE SessionInv'
      OBVIOUS
    <2>1. ASSUME NEW p \in Bars, NEW c \in calls,
                 NEW k \in IF c.host.limits THEN DOMAIN account ELSE {0}, Start(p, c, k)
          PROVE  SessionInv'
      BY <2>1, StartSession
    <2>2. ASSUME NEW p \in Bars, FromPayload(p) \/ List(p) \/ LoadNext(p) \/ NoSession(p)
          PROVE  SessionInv'
      BY <2>2, ChooseSession
    <2>3. ASSUME NEW p \in Bars, Render(p) \/ readPriorReading(p) \/ writeReading(p)
          PROVE  SessionInv'
      BY <2>3, ShowSession
    <2>4. ASSUME NEW p \in Bars, EndPoll(p) PROVE SessionInv'
      <3>1. bar' = [bar EXCEPT ![p] = Idle] /\ UNCHANGED world /\ PollInv(Idle, sound)
        BY <2>4 DEF EndPoll, Becomes, PollInv, Idle, NoLine
      <3> QED  BY <3>1, OneSessionStep
    <2>5. CASE Tick \/ SetBack \/ Account \/ LoseReading \/ UNCHANGED barVars
      <3>1. UNCHANGED <<sound, calls, bar>>
        BY <2>5 DEF Tick, SetBack, Account, LoseReading, world, barVars
      <3> QED
        BY <3>1 DEF SessionInv, PollInv
    <2>6. ASSUME NEW s \in Sessions, Transcript(s) PROVE SessionInv'
      BY <2>6, TranscriptStep
    <2> QED
      BY <2>1, <2>2, <2>3, <2>4, <2>5, <2>6 DEF BarNext, Poll
  <1>3. SessionInv => RightSession
    <2> SUFFICES ASSUME SessionInv, NEW p \in Bars, bar[p].at = "shown"
        PROVE  LET b == bar[p]
                   named == {b.line.segments[i] : i \in DOMAIN b.line.segments}
               IN  /\ b.line.kind = "line" /\ b.scoped /\ ~b.stdin =>
                          Belongs(b.picked, b.cwd) /\ \A s \in Eligible(b) : s <= b.picked
                   /\ b.line.kind = "placeholder" /\ b.scoped =>
                          \A s \in Eligible(b) : Beyond(s)
                   /\ \A seg \in named : seg[1] \in {"brand", "model", "cost"} =>
                          \/ seg[2] = b.picked
                          \/ b.stdin /\ seg[2] = 0 /\ b.picked = b.host.session
      BY Zenon DEF RightSession, Eligible, Beyond
    <2> DEFINE b == bar[p]
    <2>1. \/ b.line.kind = "line" /\ Chosen(b) /\ NamesIt(b)
          \/ /\ b.line.kind = "placeholder" /\ b.line.segments = <<>>
             /\ b.scoped => \A s \in Eligible(b) : Beyond(s)
      BY DEF SessionInv, PollInv
    <2> HIDE DEF b
    <2>2. CASE b.line.kind = "line" /\ Chosen(b) /\ NamesIt(b)
      BY <2>2, Zenon DEF Chosen, NamesIt, b
    <2>3. CASE /\ b.line.kind = "placeholder" /\ b.line.segments = <<>>
               /\ b.scoped => \A s \in Eligible(b) : Beyond(s)
      <3>1. b.line.kind # "line" /\ DOMAIN b.line.segments = {}
        BY <2>3
      <3> QED  BY <2>3, <3>1, Zenon DEF b
    <2> QED
      BY <2>1, <2>2, <2>3
  <1> QED
    BY <1>1, <1>2, <1>3, PTL DEF BarSpec

-----------------------------------------------------------------------------
(* Backfill: an index.txt that begins with the marker was put there by a    *)
(* run that finished.  A run that writes without the user having been there *)
(* since it looked had found the directory empty, or such an index.txt; so  *)
(* if the user has files there, it was the latter, and index.txt is none of *)
(* them.                                                                    *)
Places ==
    {"idle", "look", "mkdir", "next", "receipt", "index", "done", "refused", "failed", "killed"}

MarkedIsOurs == Index \in DOMAIN files /\ files[Index].marker = MANIFEST_MARKER => ours

Accepted(p) ==
    p \in Writing \ late => \A n \in DOMAIN files : files[n] = Theirs => ours /\ n # Index

BackfillInv ==
    /\ at \in [Backfillers -> Places] /\ meddled \in Nat
    /\ ~there => DOMAIN files = {}
    /\ MarkedIsOurs
    /\ \A p \in Backfillers : /\ at[p] = "receipt" => cursor[p] \in DOMAIN plan[p]
                              /\ Accepted(p)

InPlan(p, n) == \E i \in DOMAIN plan[p] : n = plan[p][i].name

(* What the user put there stays, but for what a run may write over. *)
KeptBut(p) ==
    \A n \in DOMAIN files : files[n] = Theirs =>
        \/ n \in DOMAIN files' /\ files'[n] = Theirs
        \/ /\ at'[p] # at[p]
           /\ \/ p \in late /\ n = Index
              \/ (p \in late \/ ours) /\ InPlan(p, n)

LEMMA ContentFacts ==
  /\ \A s : Receipt(s) # Theirs /\ Receipt(s).marker # MANIFEST_MARKER
  /\ \A names : buildManifest(names) # Theirs
  /\ Cut # Theirs /\ Cut.marker # MANIFEST_MARKER
  /\ \A c : c.marker = MANIFEST_MARKER => c # Theirs
  <1>1. Theirs.marker = "theirs"
    BY DEF Theirs
  <1>2. \A s : Receipt(s).marker = "receipt"
    BY DEF Receipt
  <1>3. \A names : buildManifest(names).marker = MANIFEST_MARKER
    BY DEF buildManifest
  <1>4. Cut.marker = "" /\ MANIFEST_MARKER # "theirs" /\ MANIFEST_MARKER # "" /\ MANIFEST_MARKER # "receipt"
    BY DEF Cut, MANIFEST_MARKER
  <1> QED
    BY <1>1, <1>2, <1>3, <1>4

(* A run that opens or writes one file. *)
LEMMA OneFile ==
  ASSUME BackfillInv, NEW p \in Backfillers, NEW name, NEW content, NEW where,
         name = Index \/ InPlan(p, name), content # Theirs,
         content.marker = MANIFEST_MARKER => ours', ours => ours',
         there \/ name \in DOMAIN files,
         Put(name, content), at[p] \in {"next", "receipt", "index"}, where # at[p],
         at' = [at EXCEPT ![p] = where], where \in {"next", "receipt", "index", "done"},
         UNCHANGED <<there, plan, late, meddled>>, \A q \in Backfillers \ {p} : cursor'[q] = cursor[q],
         where = "receipt" => cursor'[p] \in DOMAIN plan[p]
  PROVE  BackfillInv' /\ KeptBut(p)
  <1>1. /\ DOMAIN files' = DOMAIN files \cup {name} /\ files'[name] = content
        /\ \A n \in DOMAIN files : n # name => files'[n] = files[n]
    BY DEF Put
  <1>2. /\ at' \in [Backfillers -> Places] /\ meddled' \in Nat
        /\ at'[p] = where /\ \A q \in Backfillers \ {p} : at'[q] = at[q]
        /\ there' = there /\ plan' = plan /\ late' = late
    BY DEF BackfillInv, Places
  <1>3. ASSUME NEW q \in Backfillers PROVE Accepted(q)'
    <2> SUFFICES ASSUME q \in Writing' \ late', NEW n \in DOMAIN files', files'[n] = Theirs
                 PROVE  ours' /\ n # Index
      BY DEF Accepted
    <2>1. q \in Writing \ late
      BY <1>2 DEF Writing
    <2>2. n \in DOMAIN files /\ files[n] = Theirs
      BY <1>1
    <2> QED
      BY <2>1, <2>2 DEF BackfillInv, Accepted
  <1>4. ASSUME NEW q \in Backfillers, at'[q] = "receipt"
        PROVE  cursor'[q] \in DOMAIN plan'[q]
    BY <1>2, <1>4 DEF BackfillInv
  <1>5. MarkedIsOurs'
    BY <1>1 DEF BackfillInv, MarkedIsOurs
  <1>6. BackfillInv'
    <2>1. ~there' => DOMAIN files' = {}
      BY <1>1, <1>2 DEF BackfillInv
    <2> QED
      BY <1>2, <1>3, <1>4, <1>5, <2>1 DEF BackfillInv
  <1>7. KeptBut(p)
    <2> SUFFICES ASSUME NEW n \in DOMAIN files, files[n] = Theirs, n = name
                 PROVE  \/ p \in late /\ n = Index
                        \/ (p \in late \/ ours) /\ InPlan(p, n)
      BY <1>1, <1>2 DEF KeptBut
    <2>1. p \notin late => ours /\ n # Index
      BY DEF BackfillInv, Accepted, Writing
    <2> QED  BY <2>1
  <1> QED  BY <1>6, <1>7

(* A run that writes nothing. *)
LEMMA NoFile ==
  ASSUME BackfillInv, NEW p \in Backfillers, NEW where,
         at' = [at EXCEPT ![p] = where],
         where \in {"next", "done", "look", "mkdir", "refused", "failed", "killed"},
         UNCHANGED <<files, late, meddled>>, ours => ours', there => there',
         \A q \in Backfillers \ {p} : cursor'[q] = cursor[q] /\ plan'[q] = plan[q],
         where \in {"next", "mkdir"} => p \in Writing \/ safeToWrite
  PROVE  BackfillInv' /\ KeptBut(p)
  <1>1. /\ at' \in [Backfillers -> Places] /\ meddled' \in Nat
        /\ at'[p] = where /\ \A q \in Backfillers \ {p} : at'[q] = at[q]
        /\ files' = files /\ late' = late
    BY DEF BackfillInv, Places
  <1>2. ASSUME safeToWrite, NEW n \in DOMAIN files, files[n] = Theirs
        PROVE  ours /\ n # Index
    <2>1. Index \in DOMAIN files /\ files[Index].marker = MANIFEST_MARKER
      BY <1>2 DEF safeToWrite, BackfillInv
    <2> QED
      BY <1>2, <2>1, ContentFacts DEF BackfillInv, MarkedIsOurs
  <1>3. ASSUME NEW q \in Backfillers PROVE Accepted(q)'
    <2> SUFFICES ASSUME q \in Writing' \ late', NEW n \in DOMAIN files, files[n] = Theirs
                 PROVE  ours /\ n # Index
      BY <1>1 DEF Accepted
    <2>1. CASE q = p
      <3>1. p \in Writing \ late \/ safeToWrite
        BY <1>1, <2>1 DEF Writing
      <3> QED
        BY <1>2, <3>1 DEF BackfillInv, Accepted
    <2>2. CASE q # p
      <3>1. q \in Writing \ late
        BY <1>1, <2>2 DEF Writing
      <3> QED
        BY <3>1 DEF BackfillInv, Accepted
    <2> QED  BY <2>1, <2>2
  <1>4. ASSUME NEW q \in Backfillers, at'[q] = "receipt"
        PROVE  cursor'[q] \in DOMAIN plan'[q]
    BY <1>1, <1>4 DEF BackfillInv
  <1>5. MarkedIsOurs' /\ (~there' => DOMAIN files' = {})
    BY <1>1 DEF BackfillInv, MarkedIsOurs
  <1>6. BackfillInv'
    BY <1>1, <1>3, <1>4, <1>5 DEF BackfillInv
  <1>7. KeptBut(p)
    BY <1>1 DEF KeptBut
  <1> QED  BY <1>6, <1>7

LEMMA BackfillStep ==
  ASSUME BackfillInv, NEW p \in Backfillers, BackfillRun(p)
  PROVE  BackfillInv' /\ KeptBut(p) /\ meddled' = meddled
  <1>1. cursor[p] \in DOMAIN plan[p] => InPlan(p, PlanEntry(p).name)
    BY DEF InPlan, PlanEntry
  <1>2. ASSUME NEW flags \in Filters, ListSessions(p, flags)
        PROVE  BackfillInv' /\ KeptBut(p) /\ meddled' = meddled
    <2> DEFINE planned == planBackfill(flags)
    <2> HIDE DEF planned
    <2>1. PICK where \in {"done", "look"} :
             /\ plan' = [plan EXCEPT ![p] = planned] /\ at' = [at EXCEPT ![p] = where]
             /\ UNCHANGED <<there, files, cursor, late, ours, meddled>>
      BY <1>2 DEF ListSessions, GoTo, ghosts, planned
    <2>2. \A q \in Backfillers \ {p} : plan'[q] = plan[q] /\ cursor'[q] = cursor[q]
      BY <2>1
    <2> QED
      BY <2>1, <2>2, NoFile
  <1>3. CASE Look(p)
    <2>1. /\ at' = [at EXCEPT ![p] = IF safeToWrite THEN "mkdir" ELSE "refused"]
          /\ UNCHANGED <<there, files, cursor, plan, late, ours, meddled>>
      BY <1>3 DEF Look, GoTo, ghosts, locals
    <2> QED
      BY <2>1, NoFile
  <1>4. CASE MakeDir(p)
    <2>1. /\ at' = [at EXCEPT ![p] = "next"] /\ there' = TRUE /\ p \in Writing
          /\ UNCHANGED <<files, cursor, plan, late, ours, meddled>>
      BY <1>4 DEF MakeDir, GoTo, ghosts, locals, Writing
    <2> QED
      BY <2>1, NoFile
  <1>5. CASE LoadFails(p)
    <2>1. /\ at[p] = "next" /\ UNCHANGED <<at, there, files, late, ours, meddled>>
          /\ p \in Writing
          /\ plan' = [plan EXCEPT ![p][cursor[p]].loadFailed = TRUE]
          /\ cursor' = [cursor EXCEPT ![p] = @ + 1]
      BY <1>5 DEF LoadFails, ghosts, Writing
    <2>2. at' = [at EXCEPT ![p] = "next"]
      BY <2>1 DEF BackfillInv
    <2>3. UNCHANGED <<there, files, late, ours, meddled>> /\ p \in Writing
      BY <2>1
    <2>4. \A q \in Backfillers \ {p} : plan'[q] = plan[q] /\ cursor'[q] = cursor[q]
      BY <2>1
    <2> QED
      BY <2>2, <2>3, <2>4, NoFile
  <1>6. CASE OpenReceipt(p)
    <2>1. /\ at[p] = "next" /\ cursor[p] \in DOMAIN plan[p] /\ there /\ Put(PlanEntry(p).name, Cut)
          /\ at' = [at EXCEPT ![p] = "receipt"] /\ UNCHANGED <<there, plan, cursor, late, meddled>>
          /\ ours => ours'
      BY <1>6 DEF OpenReceipt, Open, GoTo, Touch, locals
    <2> QED
      BY <1>1, <2>1, ContentFacts, OneFile
  <1>7. CASE WriteReceipt(p)
    <2> DEFINE name == PlanEntry(p).name
               content == Receipt(PlanEntry(p).session)
    <2>1. /\ at[p] = "receipt" /\ Fill(name, content) /\ at' = [at EXCEPT ![p] = "next"]
          /\ cursor' = [cursor EXCEPT ![p] = @ + 1]
          /\ UNCHANGED <<there, plan, late, meddled>> /\ (ours => ours')
      BY <1>7 DEF WriteReceipt, GoTo, Touch
    <2>2. /\ InPlan(p, name) /\ p \in Writing
          /\ content # Theirs /\ content.marker # MANIFEST_MARKER
      BY <1>1, <2>1, ContentFacts DEF BackfillInv, Writing
    <2>3. \A q \in Backfillers \ {p} : cursor'[q] = cursor[q]
      BY <2>1
    <2> HIDE DEF name, content
    <2>4. CASE name \in DOMAIN files
      BY <2>1, <2>2, <2>3, <2>4, OneFile DEF Fill
    <2>5. CASE name \notin DOMAIN files
      BY <2>1, <2>2, <2>3, <2>5, NoFile DEF Fill
    <2> QED  BY <2>4, <2>5
  <1>8. CASE OpenIndex(p)
    <2>1. /\ at[p] = "next" /\ there /\ Put(Index, Cut)
          /\ at' = [at EXCEPT ![p] = "index"] /\ UNCHANGED <<there, plan, cursor, late, meddled>>
          /\ ours => ours'
      BY <1>8 DEF OpenIndex, Open, GoTo, Touch, locals
    <2> QED
      BY <2>1, ContentFacts, OneFile
  <1>9. CASE WriteIndex(p)
    <2>1. /\ at[p] = "index" /\ Fill(Index, buildManifest(written[p]))
          /\ at' = [at EXCEPT ![p] = "done"] /\ UNCHANGED <<there, plan, cursor, late, meddled>>
          /\ ours' = (ours \/ (at'[p] = "done" /\ Index \in DOMAIN files))
      BY <1>9 DEF WriteIndex, GoTo, Touch, locals
    <2>2. at'[p] = "done"
      BY <2>1 DEF BackfillInv
    <2>3. CASE Index \in DOMAIN files
      BY <2>1, <2>2, <2>3, ContentFacts, OneFile DEF Fill
    <2>4. CASE Index \notin DOMAIN files
      BY <2>1, <2>4, NoFile DEF Fill
    <2> QED  BY <2>3, <2>4
  <1>10. CASE WriteFails(p) \/ BackfillDies(p)
    <2>1. PICK where \in {"failed", "killed"} :
             /\ at' = [at EXCEPT ![p] = where]
             /\ plan' = [plan EXCEPT ![p] = <<>>] /\ cursor' = [cursor EXCEPT ![p] = 1]
             /\ UNCHANGED <<there, files, late, ours, meddled>>
      BY <1>10 DEF WriteFails, BackfillDies, Ends, GoTo, ghosts
    <2>2. \A q \in Backfillers \ {p} : plan'[q] = plan[q] /\ cursor'[q] = cursor[q]
      BY <2>1
    <2> QED
      BY <2>1, <2>2, NoFile
  <1> QED
    BY <1>2, <1>3, <1>4, <1>5, <1>6, <1>7, <1>8, <1>9, <1>10 DEF BackfillRun

(* The user may put a file there by whatever name. *)
LEMMA UserStep ==
  ASSUME BackfillInv, NEW n, Meddle(n, Theirs)
  PROVE  BackfillInv' /\ meddled' # meddled
  <1>1. /\ meddled' = meddled + 1 /\ UNCHANGED <<at, plan, cursor>>
        /\ late' = late \cup Writing /\ meddled \in Nat
        /\ ours' = (ours /\ there' /\ n # Index)
    BY DEF Meddle, locals, BackfillInv
  <1>2. Writing' \ late' = {}
    BY <1>1 DEF Writing
  <1>3. (~there' => DOMAIN files' = {}) /\ MarkedIsOurs'
    <2> USE DEF MarkedIsOurs
    <2>1. CASE there' = TRUE /\ Put(n, Theirs)
      <3>1. /\ DOMAIN files' = DOMAIN files \cup {n} /\ files'[n] = Theirs
            /\ \A x \in DOMAIN files : x # n => files'[x] = files[x]
        BY <2>1 DEF Put
      <3> QED
        BY <1>1, <2>1, <3>1, ContentFacts DEF BackfillInv
    <2>2. CASE there /\ files' = Restrict(files, DOMAIN files \ {n}) /\ UNCHANGED there
      BY <1>1, <2>2 DEF Restrict, BackfillInv
    <2>3. CASE there' = FALSE /\ files' = <<>>
      BY <2>3
    <2> QED
      BY <2>1, <2>2, <2>3 DEF Meddle
  <1> QED
    BY <1>1, <1>2, <1>3 DEF BackfillInv, Accepted

(* backfill.ts:5: "refusing to clobber a directory it cannot prove is a     *)
(* prior backfill's" - whatever names the user's files have, one is lost    *)
(* only by a name the run plans to write where a finished run's manifest    *)
(* stands, or to a run that had looked before the user came.                *)
THEOREM BackfillNeverClobbers == BackfillSpec => NeverClobbers
  <1>1. BackfillInit => BackfillInv
    BY DEF BackfillInit, BackfillInv, Places, Writing, MarkedIsOurs, Accepted
  <1>2. ASSUME BackfillInv, [BackfillNext]_(backfillVars)
        PROVE  BackfillInv' /\ [TheirsIsKept]_(backfillVars)
    <2>1. ASSUME NEW p \in Backfillers, BackfillRun(p)
          PROVE  BackfillInv' /\ TheirsIsKept
      <3>1. BackfillInv' /\ KeptBut(p)
        BY <1>2, <2>1, BackfillStep
      <3> QED
        BY <3>1 DEF KeptBut, InPlan, TheirsIsKept
    <2>2. ASSUME NEW s \in Recorded, SessionBegins(s)
          PROVE  BackfillInv' /\ TheirsIsKept
      <3>1. UNCHANGED <<there, files, at, plan, cursor, late, ours, meddled>>
        BY <2>2 DEF SessionBegins, locals, ghosts
      <3> QED
        BY <1>2, <3>1 DEF BackfillInv, MarkedIsOurs, Accepted, TheirsIsKept, Writing
    <2>3. ASSUME NEW n \in {Notes, Index} \cup Taken, Meddle(n, Theirs)
          PROVE  BackfillInv' /\ TheirsIsKept
      BY <1>2, <2>3, UserStep DEF TheirsIsKept
    <2>4. CASE UNCHANGED backfillVars
      BY <1>2, <2>4 DEF backfillVars, BackfillInv, MarkedIsOurs, Accepted, Writing
    <2> QED
      BY <1>2, <2>1, <2>2, <2>3, <2>4 DEF BackfillNext
  <1> QED
    BY <1>1, <1>2, PTL DEF BackfillSpec, NeverClobbers

-----------------------------------------------------------------------------
(* Backfill, the manifest: as long as nobody else writes, a run that is at  *)
(* an entry has written, in order, a whole receipt for each one before it   *)
(* that could be loaded; opened files are there until they are written.     *)
NamesOf(planned) == {planned[i].name : i \in DOMAIN planned}
LoadedBefore(planned, n) == {i \in DOMAIN planned : ~planned[i].loadFailed /\ i < n}

InOrder(names) == \A a, b \in DOMAIN names : a < b => names[a][1] < names[b][1]
Numbered(planned) ==
    /\ \E n \in Nat : DOMAIN planned = 1..n
    /\ \A i \in DOMAIN planned :
          /\ DOMAIN planned[i] = {"session", "loadFailed", "name"}
          /\ planned[i].name[1] = i /\ planned[i].name # Index

(* The names of these planned, and a whole receipt under each of them. *)
Written(content, planned, loaded, names) ==
    /\ {names[k] : k \in DOMAIN names} = {planned[i].name : i \in loaded}
    /\ InOrder(names)
    /\ \A i \in loaded :
          /\ planned[i].name \in DOMAIN content
          /\ content[planned[i].name] = Receipt(planned[i].session)

Undisturbed(p) ==
    /\ at[p] \in {"next", "receipt", "index"} =>
          Written(files, plan[p], LoadedBefore(plan[p], cursor[p]), written[p])
    /\ at[p] = "receipt" => ~PlanEntry(p).loadFailed /\ PlanEntry(p).name \in DOMAIN files
    /\ at[p] = "index" => cursor[p] \notin DOMAIN plan[p] /\ Index \in DOMAIN files

Underway(p) ==
    /\ Numbered(plan[p])
    /\ cursor[p] \in Nat \ {0}
    /\ written[p] \in Seq(NamesOf(plan[p]))
    /\ at[p] \in {"idle", "look", "mkdir"} => cursor[p] = 1 /\ written[p] = <<>>
    /\ at[p] = "receipt" => cursor[p] \in DOMAIN plan[p]
    /\ p \notin crossed => Undisturbed(p)

Manifest(p) ==
    /\ at[p] = "done"
    /\ Index \in DOMAIN files /\ files[Index] = buildManifest(written[p])
    /\ Written(files, plan[p], {i \in DOMAIN plan[p] : ~plan[p][i].loadFailed}, written[p])

IndexInv ==
    /\ discovered \in Seq(Recorded)
    /\ at \in [Backfillers -> Places] /\ DOMAIN plan = Backfillers
    /\ DOMAIN cursor = Backfillers /\ DOMAIN written = Backfillers
    /\ \A p \in Backfillers : Underway(p)
    /\ settled # Nobody => settled \in Backfillers /\ Manifest(settled)

LEMMA PlanFacts ==
  ASSUME discovered \in Seq(Recorded), NEW flags \in Filters
  PROVE  Numbered(planBackfill(flags))
  <1> DEFINE recent == {i \in DOMAIN discovered :
                          EndedAt[discovered[i]] = 0 \/ EndedAt[discovered[i]] >= flags.since}
             matches == Cardinality(recent)
             kept == IF flags.limit = 0 \/ matches < flags.limit THEN matches ELSE flags.limit
             matched == filterSummaries(flags)
             planned == planBackfill(flags)
  <1>1. matches \in Nat
    <2>1. DOMAIN discovered = 1..Len(discovered) /\ Len(discovered) \in Nat
      OBVIOUS
    <2>2. IsFiniteSet(1..Len(discovered))
      BY <2>1, FS_Interval
    <2>3. recent \subseteq 1..Len(discovered)
      BY <2>1
    <2> HIDE DEF recent
    <2> QED
      BY <2>2, <2>3, FS_Subset, FS_CardinalityType
  <1>2. kept \in Nat
    BY <1>1, BackfillAssumption
  <1>3. DOMAIN matched = 1..kept
    BY DEF filterSummaries
  <1>4. DOMAIN planned = DOMAIN matched
    BY DEF planBackfill
  <1>5. ASSUME NEW i \in DOMAIN matched
        PROVE  /\ DOMAIN planned[i] = {"session", "loadFailed", "name"}
               /\ planned[i].name = backfillFileName(i, Len(matched), matched[i])
    BY DEF planBackfill
  <1>6. ASSUME NEW i \in Nat \ {0}, NEW m, NEW s
        PROVE  backfillFileName(i, m, s)[1] = i /\ backfillFileName(i, m, s) # Index
    BY DEF backfillFileName, Index
  <1> HIDE DEF matched, planned, kept
  <1>7. ASSUME NEW i \in DOMAIN planned
        PROVE  planned[i].name[1] = i /\ planned[i].name # Index
    <2>1. i \in Nat \ {0}
      BY <1>2, <1>3, <1>4
    <2> QED
      BY <1>4, <1>5, <1>6, <2>1
  <1> QED
    BY <1>2, <1>3, <1>4, <1>5, <1>7 DEF Numbered, planned

(* A run whose own state stays, while nothing is written beside it. *)
LEMMA OthersStay ==
  ASSUME NEW p \in Backfillers, Underway(p),
         plan'[p] = plan[p], cursor'[p] = cursor[p], written'[p] = written[p], at'[p] = at[p],
         p \notin crossed' => p \notin crossed /\ (files' = files \/ p \notin Writing)
  PROVE  Underway(p)'
  <1>1. Numbered(plan[p])'
    BY DEF Underway, Numbered
  <1>2. ASSUME p \notin crossed' PROVE Undisturbed(p)'
    <2>1. Undisturbed(p) /\ (files' = files \/ p \notin Writing)
      BY <1>2 DEF Underway
    <2>2. CASE files' = files
      BY <2>1, <2>2 DEF Undisturbed, PlanEntry
    <2>3. CASE p \notin Writing
      BY <2>1, <2>3 DEF Undisturbed, Writing
    <2> QED  BY <2>1, <2>2, <2>3
  <1> QED
    BY <1>1, <1>2 DEF Underway

LEMMA OneMoves ==
  ASSUME IndexInv, NEW p \in Backfillers, NEW where \in Places,
         UNCHANGED discovered, at' = [at EXCEPT ![p] = where],
         DOMAIN plan' = Backfillers, DOMAIN cursor' = Backfillers, DOMAIN written' = Backfillers,
         \A q \in Backfillers \ {p} :
            /\ plan'[q] = plan[q] /\ cursor'[q] = cursor[q] /\ written'[q] = written[q]
            /\ q \notin crossed' => q \notin crossed /\ (files' = files \/ q \notin Writing),
         Underway(p)',
         settled' # Nobody => settled' \in Backfillers /\ Manifest(settled)'
  PROVE  IndexInv'
  <1>1. at' \in [Backfillers -> Places] /\ \A q \in Backfillers \ {p} : at'[q] = at[q]
    BY DEF IndexInv
  <1>2. \A q \in Backfillers : Underway(q)'
    BY <1>1, OthersStay DEF IndexInv
  <1> QED
    BY <1>1, <1>2 DEF IndexInv

(* A step that writes nothing. *)
LEMMA QuietMoves ==
  ASSUME IndexInv, NEW p \in Backfillers, NEW where \in Places, at[p] # "done",
         UNCHANGED <<discovered, files, crossed, settled>>, at' = [at EXCEPT ![p] = where],
         DOMAIN plan' = Backfillers, DOMAIN cursor' = Backfillers, DOMAIN written' = Backfillers,
         \A q \in Backfillers \ {p} :
            plan'[q] = plan[q] /\ cursor'[q] = cursor[q] /\ written'[q] = written[q],
         Underway(p)'
  PROVE  IndexInv'
  <1>1. settled' # Nobody => settled' \in Backfillers /\ Manifest(settled)'
    <2> SUFFICES ASSUME settled # Nobody
                 PROVE  settled \in Backfillers /\ Manifest(settled)'
      OBVIOUS
    <2>1. settled \in Backfillers \ {p} /\ Manifest(settled)
      BY DEF IndexInv, Manifest
    <2>2. at'[settled] = at[settled]
      BY <2>1 DEF IndexInv
    <2> QED
      BY <2>1, <2>2 DEF Manifest
  <1> QED
    BY <1>1, OneMoves DEF IndexInv

LEMMA ListKeeps ==
  ASSUME IndexInv, NEW p \in Backfillers, NEW flags \in Filters, ListSessions(p, flags)
  PROVE  IndexInv'
  <1> DEFINE planned == planBackfill(flags)
  <1>1. Numbered(planned)
    BY PlanFacts DEF IndexInv
  <1> HIDE DEF planned
  <1>2. PICK where \in {"done", "look"} :
           /\ plan' = [plan EXCEPT ![p] = planned] /\ at' = [at EXCEPT ![p] = where]
           /\ at[p] = "idle" /\ UNCHANGED <<discovered, files, cursor, written, crossed, settled>>
    BY DEF ListSessions, GoTo, ghosts, planned
  <1>3. plan'[p] = planned /\ at'[p] = where /\ cursor'[p] = 1 /\ written'[p] = <<>>
    BY <1>2 DEF IndexInv, Underway
  <1>4. Underway(p)'
    BY <1>1, <1>2, <1>3 DEF Underway, Undisturbed
  <1>5. where \in Places /\ DOMAIN plan' = Backfillers
    BY <1>2 DEF Places, IndexInv
  <1> QED
    BY <1>2, <1>4, <1>5, QuietMoves DEF IndexInv

LEMMA PlainKeeps ==
  ASSUME IndexInv, NEW p \in Backfillers,
         Look(p) \/ MakeDir(p)
  PROVE  IndexInv'
  <1>1. PICK where \in {"mkdir", "refused", "next"} :
           /\ at' = [at EXCEPT ![p] = where] /\ at[p] # "done"
           /\ UNCHANGED <<discovered, files, plan, cursor, written, crossed, settled>>
           /\ where = "mkdir" => at[p] = "look"
           /\ where = "next" => at[p] = "mkdir"
    BY DEF Look, MakeDir, GoTo, locals, ghosts
  <1>2. at'[p] = where /\ where \in Places /\ Underway(p)
    BY <1>1 DEF IndexInv, Places
  <1>3. where = "next" => Written(files, plan[p], LoadedBefore(plan[p], cursor[p]), written[p])
    <2> SUFFICES ASSUME where = "next"
                 PROVE  Written(files, plan[p], LoadedBefore(plan[p], cursor[p]), written[p])
      OBVIOUS
    <2>1. cursor[p] = 1 /\ written[p] = <<>> /\ DOMAIN written[p] = {}
      BY <1>1, <1>2 DEF Underway
    <2>2. LoadedBefore(plan[p], 1) = {}
      BY <1>2 DEF LoadedBefore, Underway, Numbered
    <2> QED
      BY <2>1, <2>2 DEF Written, InOrder
  <1>4. Underway(p)'
    <2>1. p \notin crossed' => Undisturbed(p)'
      BY <1>1, <1>2, <1>3 DEF Undisturbed
    <2> QED
      BY <1>1, <1>2, <2>1 DEF Underway, Numbered
  <1> QED
    BY <1>1, <1>2, <1>4, QuietMoves DEF IndexInv

LEMMA EndsKeeps ==
  ASSUME IndexInv, NEW p \in Backfillers, WriteFails(p) \/ BackfillDies(p)
  PROVE  IndexInv'
  <1>1. PICK how \in {"failed", "killed"} :
           /\ at' = [at EXCEPT ![p] = how] /\ at[p] # "done"
           /\ plan' = [plan EXCEPT ![p] = <<>>] /\ cursor' = [cursor EXCEPT ![p] = 1]
           /\ written' = [written EXCEPT ![p] = <<>>]
           /\ UNCHANGED <<discovered, files, crossed, settled>>
    BY DEF WriteFails, BackfillDies, Ends, GoTo, ghosts
  <1>2. at'[p] = how /\ plan'[p] = <<>> /\ cursor'[p] = 1 /\ written'[p] = <<>>
    BY <1>1 DEF IndexInv
  <1>3. Numbered(<<>>)
    <2>1. DOMAIN <<>> = 1..0
      OBVIOUS
    <2> QED  BY <2>1 DEF Numbered
  <1>4. Underway(p)'
    <2>1. written'[p] \in Seq(NamesOf(plan'[p])) /\ Numbered(plan'[p])
      BY <1>2, <1>3
    <2> QED
      BY <1>1, <1>2, <2>1 DEF Underway, Undisturbed
  <1>5. how \in Places
    BY <1>1 DEF Places
  <1> QED
    BY <1>1, <1>4, <1>5, QuietMoves DEF IndexInv

LEMMA LoadFailsKeeps ==
  ASSUME IndexInv, NEW p \in Backfillers, LoadFails(p)
  PROVE  IndexInv'
  <1> DEFINE c == cursor[p]
             old == plan[p]
             new == plan'[p]
  <1>1. /\ at[p] = "next" /\ c \in DOMAIN old /\ Underway(p)
        /\ new = [old EXCEPT ![c].loadFailed = TRUE] /\ cursor'[p] = c + 1
        /\ UNCHANGED <<discovered, files, at, written, crossed, settled>>
        /\ DOMAIN plan' = Backfillers /\ DOMAIN cursor' = Backfillers
        /\ \A q \in Backfillers \ {p} : plan'[q] = plan[q] /\ cursor'[q] = cursor[q]
    BY DEF LoadFails, ghosts, IndexInv
  <1> HIDE DEF new
  <1>2. /\ DOMAIN new = DOMAIN old
        /\ \A i \in DOMAIN old :
              /\ new[i].name = old[i].name /\ new[i].session = old[i].session
              /\ DOMAIN new[i] = DOMAIN old[i]
              /\ i = c => new[i].loadFailed = TRUE
              /\ i # c => new[i].loadFailed = old[i].loadFailed
    BY <1>1 DEF Underway, Numbered
  <1>3. Numbered(new) /\ NamesOf(new) = NamesOf(old)
    <2>1. Numbered(old)
      BY <1>1 DEF Underway
    <2>2. Numbered(new)
      BY <1>2, <2>1 DEF Numbered
    <2>3. NamesOf(new) = NamesOf(old)
      <3> HIDE DEF c, old
      <3> QED  BY <1>2 DEF NamesOf
    <2> QED  BY <2>2, <2>3
  <1>4. LoadedBefore(new, c + 1) = LoadedBefore(old, c)
    <2>1. c \in Nat /\ \A i \in DOMAIN old : i \in Nat
      BY <1>1 DEF Underway, Numbered
    <2> HIDE DEF c, old
    <2>2. \A i \in DOMAIN old : i < c + 1 <=> i < c \/ i = c
      BY <2>1
    <2>3. \A i \in DOMAIN old :
            ~new[i].loadFailed /\ i < c + 1 <=> ~old[i].loadFailed /\ i < c
      <3> TAKE i \in DOMAIN old
      <3>1. CASE i = c
        <4>1. new[i].loadFailed /\ ~(i < c)
          BY <1>2, <2>1, <3>1
        <4> QED  BY <4>1
      <3>2. CASE i # c
        BY <1>2, <2>2, <3>2
      <3> QED  BY <3>1, <3>2
    <2> QED
      BY <1>2, <2>3 DEF LoadedBefore
  <1>5. p \notin crossed' => Undisturbed(p)'
    <2> SUFFICES ASSUME p \notin crossed
                 PROVE  Written(files, new, LoadedBefore(new, c + 1), written[p])
      BY <1>1 DEF Undisturbed, new
    <2>1. Written(files, old, LoadedBefore(old, c), written[p])
      BY <1>1 DEF Underway, Undisturbed
    <2>2. LoadedBefore(old, c) \subseteq DOMAIN old
      BY DEF LoadedBefore
    <2> DEFINE loaded == LoadedBefore(old, c)
    <2>3. \A i \in loaded : new[i].name = old[i].name /\ new[i].session = old[i].session
      BY <1>2, <2>2
    <2> HIDE DEF loaded, old
    <2>4. Written(files, new, loaded, written[p])
      BY <2>1, <2>3 DEF Written, loaded
    <2> QED
      BY <1>4, <2>4 DEF loaded
  <1>6. Underway(p)'
    BY <1>1, <1>3, <1>5 DEF Underway, new
  <1>7. at' = [at EXCEPT ![p] = "next"] /\ "next" \in Places
    BY <1>1 DEF IndexInv, Places
  <1> QED
    BY <1>1, <1>6, <1>7, QuietMoves DEF IndexInv

(* Whoever writes disturbs everybody else who is at it. *)
LEMMA WriterMoves ==
  ASSUME IndexInv, NEW p \in Backfillers, NEW where \in Places, Touch(p),
         UNCHANGED <<discovered, plan>>, at' = [at EXCEPT ![p] = where],
         DOMAIN cursor' = Backfillers, DOMAIN written' = Backfillers,
         \A q \in Backfillers \ {p} : cursor'[q] = cursor[q] /\ written'[q] = written[q],
         Underway(p)', where = "done" /\ p \notin crossed => Manifest(p)'
  PROVE  IndexInv'
  <1>1. /\ crossed' = crossed \cup (Writing \ {p}) /\ at'[p] = where
        /\ settled' = IF where = "done" /\ p \notin crossed THEN p ELSE Nobody
    BY DEF Touch, IndexInv
  <1>2. \A q \in Backfillers \ {p} :
          q \notin crossed' => q \notin crossed /\ (files' = files \/ q \notin Writing)
    BY <1>1
  <1> QED
    BY <1>1, <1>2, OneMoves DEF IndexInv

LEMMA OpenKeeps ==
  ASSUME IndexInv, NEW p \in Backfillers, OpenReceipt(p) \/ OpenIndex(p)
  PROVE  IndexInv'
  <1> DEFINE c == cursor[p]
             planned == plan[p]
  <1>1. PICK where \in {"receipt", "index"}, name \in {PlanEntry(p).name, Index} :
           /\ at[p] = "next" /\ Put(name, Cut) /\ at' = [at EXCEPT ![p] = where] /\ Touch(p)
           /\ UNCHANGED <<discovered, plan, cursor, written>>
           /\ where = "receipt" => c \in DOMAIN planned /\ ~planned[c].loadFailed /\ name = planned[c].name
           /\ where = "index" => c \notin DOMAIN planned /\ name = Index
    <2>1. CASE OpenReceipt(p)
      BY <2>1 DEF OpenReceipt, Open, GoTo, locals, PlanEntry
    <2>2. CASE OpenIndex(p)
      BY <2>2 DEF OpenIndex, Open, GoTo, locals
    <2> QED  BY <2>1, <2>2
  <1>2. /\ at'[p] = where /\ where \in Places /\ Underway(p) /\ crossed \subseteq crossed'
        /\ DOMAIN files' = DOMAIN files \cup {name}
        /\ \A n \in DOMAIN files : n # name => files'[n] = files[n]
    BY <1>1 DEF IndexInv, Places, Put, Touch
  <1>3. ASSUME p \notin crossed' PROVE Undisturbed(p)'
    <2>1. Written(files, planned, LoadedBefore(planned, c), written[p])
      BY <1>1, <1>2, <1>3 DEF Underway, Undisturbed
    <2>2. \A i \in LoadedBefore(planned, c) : planned[i].name # name
      <3>1. \A i \in DOMAIN planned : i \in Nat /\ planned[i].name[1] = i /\ planned[i].name # Index
        BY <1>2 DEF Underway, Numbered
      <3> QED
        BY <1>1, <3>1 DEF LoadedBefore
    <2>3. Written(files', planned, LoadedBefore(planned, c), written[p])
      BY <1>2, <2>1, <2>2 DEF Written
    <2> QED
      BY <1>1, <1>2, <2>3 DEF Undisturbed, PlanEntry
  <1>4. Underway(p)'
    BY <1>1, <1>2, <1>3 DEF Underway
  <1>5. where # "done"
    BY <1>1
  <1> QED
    BY <1>1, <1>2, <1>4, <1>5, WriterMoves DEF IndexInv

LEMMA WriteReceiptKeeps ==
  ASSUME IndexInv, NEW p \in Backfillers, WriteReceipt(p)
  PROVE  IndexInv'
  <1> DEFINE c == cursor[p]
             planned == plan[p]
             names == written[p]
             name == planned[c].name
             receipt == Receipt(planned[c].session)
             loaded == LoadedBefore(planned, c)
  <1>1. /\ at[p] = "receipt" /\ Fill(name, receipt) /\ at' = [at EXCEPT ![p] = "next"]
        /\ written' = [written EXCEPT ![p] = Append(names, name)]
        /\ cursor' = [cursor EXCEPT ![p] = c + 1]
        /\ Touch(p) /\ UNCHANGED <<discovered, plan>>
    BY DEF WriteReceipt, GoTo, PlanEntry
  <1>2. /\ at'[p] = "next" /\ written'[p] = Append(names, name) /\ cursor'[p] = c + 1
        /\ plan'[p] = planned /\ Underway(p) /\ crossed \subseteq crossed'
        /\ DOMAIN cursor' = Backfillers /\ DOMAIN written' = Backfillers
        /\ \A q \in Backfillers \ {p} : cursor'[q] = cursor[q] /\ written'[q] = written[q]
    BY <1>1 DEF IndexInv, Touch
  <1>3. c \in Nat \ {0} /\ Numbered(planned) /\ names \in Seq(NamesOf(planned))
    BY <1>2 DEF Underway
  <1>4. ASSUME p \notin crossed'
        PROVE  /\ Written(files', planned, LoadedBefore(planned, c + 1), Append(names, name))
               /\ name \in NamesOf(planned)
    <2>1. /\ Written(files, planned, loaded, names) /\ name \in DOMAIN files
          /\ c \in DOMAIN planned /\ ~planned[c].loadFailed
      BY <1>1, <1>2, <1>4 DEF Underway, Undisturbed, PlanEntry
    <2>2. /\ DOMAIN files' = DOMAIN files /\ files'[name] = receipt
          /\ \A n \in DOMAIN files : n # name => files'[n] = files[n]
      BY <1>1, <2>1 DEF Fill, Put
    <2>3. \A i \in DOMAIN planned : i \in Nat /\ planned[i].name[1] = i
      BY <1>3 DEF Numbered
    <2> HIDE DEF c, planned, names, receipt, name
    <2>4. LoadedBefore(planned, c + 1) = loaded \cup {c} /\ c \notin loaded
      <3>1. \A i \in DOMAIN planned : i < c + 1 <=> i < c \/ i = c
        BY <1>3, <2>3
      <3>2. ~(c < c)
        BY <1>3
      <3> QED
        BY <2>1, <3>1, <3>2 DEF LoadedBefore
    <2>5. /\ DOMAIN Append(names, name) = DOMAIN names \cup {Len(names) + 1}
          /\ Append(names, name)[Len(names) + 1] = name
          /\ \A k \in DOMAIN names : Append(names, name)[k] = names[k] /\ k < Len(names) + 1
          /\ DOMAIN names \subseteq Nat /\ Len(names) \in Nat
      BY <1>3
    <2> DEFINE longer == Append(names, name)
    <2> HIDE DEF longer
    <2>6. {longer[k] : k \in DOMAIN longer} = {planned[i].name : i \in loaded \cup {c}}
      <3>1. {longer[k] : k \in DOMAIN longer} = {names[k] : k \in DOMAIN names} \cup {name}
        BY <2>5 DEF longer
      <3>2. {planned[i].name : i \in loaded \cup {c}} = {planned[i].name : i \in loaded} \cup {name}
        BY DEF name
      <3> QED
        BY <2>1, <3>1, <3>2 DEF Written
    <2>7. InOrder(longer)
      <3> SUFFICES ASSUME NEW a \in DOMAIN longer, NEW b \in DOMAIN longer, a < b
                   PROVE  longer[a][1] < longer[b][1]
        BY DEF InOrder
      <3>1. a \in DOMAIN names
        BY <2>5 DEF longer
      <3>2. CASE b \in DOMAIN names
        BY <2>1, <2>5, <3>1, <3>2 DEF longer, Written, InOrder
      <3>3. CASE b \notin DOMAIN names
        <4>1. longer[b] = name /\ name[1] = c
          BY <2>1, <2>3, <2>5, <3>3 DEF longer, name
        <4>2. PICK i \in loaded : names[a] = planned[i].name
          BY <2>1, <3>1 DEF Written
        <4>3. i < c /\ planned[i].name[1] = i
          BY <2>3 DEF LoadedBefore
        <4> QED
          BY <2>5, <3>1, <4>1, <4>2, <4>3 DEF longer
      <3> QED  BY <3>2, <3>3
    <2>8. ASSUME NEW i \in loaded \cup {c}
          PROVE  planned[i].name \in DOMAIN files' /\ files'[planned[i].name] = Receipt(planned[i].session)
      <3>1. CASE i = c
        BY <2>1, <2>2, <3>1 DEF name, receipt
      <3>2. CASE i # c
        <4>1. i \in loaded /\ i \in DOMAIN planned
          BY <3>2 DEF LoadedBefore
        <4>2. planned[i].name # name
          BY <2>1, <2>3, <3>2, <4>1 DEF name
        <4> QED
          BY <2>1, <2>2, <4>1, <4>2 DEF Written
      <3> QED  BY <3>1, <3>2
    <2>9. name \in NamesOf(planned)
      BY <2>1 DEF NamesOf, name
    <2> QED
      BY <2>4, <2>6, <2>7, <2>8, <2>9 DEF Written, longer
  <1>5. Underway(p)'
    <2>1. p \notin crossed' => Undisturbed(p)'
      BY <1>2, <1>4 DEF Undisturbed
    <2>2. name \in NamesOf(planned)
      BY <1>1, <1>2 DEF NamesOf, Underway
    <2> QED
      BY <1>2, <1>3, <2>1, <2>2 DEF Underway
  <1> QED
    BY <1>1, <1>2, <1>5, WriterMoves DEF Places

LEMMA WriteIndexKeeps ==
  ASSUME IndexInv, NEW p \in Backfillers, WriteIndex(p)
  PROVE  IndexInv'
  <1> DEFINE planned == plan[p]
             loaded == {i \in DOMAIN planned : ~planned[i].loadFailed}
  <1>1. /\ at[p] = "index" /\ Fill(Index, buildManifest(written[p]))
        /\ at' = [at EXCEPT ![p] = "done"] /\ Touch(p)
        /\ UNCHANGED <<discovered, plan, cursor, written>>
    BY DEF WriteIndex, GoTo, locals
  <1>2. at'[p] = "done" /\ Underway(p) /\ crossed \subseteq crossed' /\ "done" \in Places
    BY <1>1 DEF IndexInv, Touch, Places
  <1>3. Underway(p)'
    BY <1>1, <1>2 DEF Underway, Undisturbed
  <1>4. ASSUME p \notin crossed PROVE Manifest(p)'
    <2>1. /\ Written(files, planned, LoadedBefore(planned, cursor[p]), written[p])
          /\ cursor[p] \notin DOMAIN planned /\ Index \in DOMAIN files
      BY <1>1, <1>2, <1>4 DEF Underway, Undisturbed
    <2>2. /\ DOMAIN files' = DOMAIN files /\ files'[Index] = buildManifest(written[p])
          /\ \A n \in DOMAIN files : n # Index => files'[n] = files[n]
      BY <1>1, <2>1 DEF Fill, Put
    <2>3. PICK n \in Nat : DOMAIN planned = 1..n
      BY <1>2 DEF Underway, Numbered
    <2>4. \A i \in DOMAIN planned : i < cursor[p] /\ planned[i].name # Index
      BY <1>2, <2>1, <2>3 DEF Underway, Numbered
    <2>5. LoadedBefore(planned, cursor[p]) = loaded
      BY <2>4 DEF LoadedBefore
    <2>6. Written(files', planned, loaded, written[p])
      BY <2>1, <2>2, <2>4, <2>5 DEF Written
    <2> QED
      BY <1>1, <1>2, <2>1, <2>2, <2>6 DEF Manifest
  <1> QED
    BY <1>1, <1>2, <1>3, <1>4, WriterMoves DEF IndexInv

LEMMA WorldKeeps ==
  ASSUME IndexInv,
         \/ \E s \in Recorded : SessionBegins(s)
         \/ \E n \in {Notes, Index} \cup Taken : Meddle(n, Theirs)
         \/ UNCHANGED backfillVars
  PROVE  IndexInv'
  <1>1. UNCHANGED <<at, plan, cursor, written>>
    BY DEF SessionBegins, Meddle, backfillVars, locals
  <1>2. /\ discovered' \in Seq(Recorded) /\ crossed \subseteq crossed'
        /\ files' = files \/ Writing \subseteq crossed'
        /\ settled' = Nobody \/ (settled' = settled /\ files' = files)
    <2>1. ASSUME NEW s \in Recorded, SessionBegins(s)
          PROVE  /\ discovered' = <<s>> \o discovered /\ discovered' \in Seq(Recorded)
                 /\ UNCHANGED <<files, crossed, settled>>
      BY <2>1 DEF SessionBegins, ghosts, IndexInv
    <2>2. ASSUME NEW n \in {Notes, Index} \cup Taken, Meddle(n, Theirs)
          PROVE  /\ UNCHANGED discovered /\ settled' = Nobody
                 /\ crossed' = crossed \cup Writing
      BY <2>2 DEF Meddle
    <2>3. CASE UNCHANGED backfillVars
      BY <2>3 DEF backfillVars, IndexInv
    <2> QED
      BY <2>1, <2>2, <2>3 DEF IndexInv
  <1>3. \A p \in Backfillers : Underway(p)'
    BY <1>1, <1>2, OthersStay DEF IndexInv
  <1>4. settled' # Nobody => settled' \in Backfillers /\ Manifest(settled)'
    BY <1>1, <1>2 DEF IndexInv, Manifest
  <1> QED
    BY <1>1, <1>2, <1>3, <1>4 DEF IndexInv

(* Whatever runs were killed there or overlapped before, whatever the user  *)
(* did: the manifest of a run that nobody disturbed names, in order, a      *)
(* whole receipt for each session that matched and could be read.           *)
THEOREM ManifestsAreTrue == BackfillSpec => []FinishedMeansIndexed
  <1>1. BackfillInit => IndexInv
    <2> SUFFICES ASSUME BackfillInit PROVE IndexInv
      OBVIOUS
    <2>1. ASSUME NEW p \in Backfillers PROVE Underway(p)
      <3>1. at[p] = "idle" /\ plan[p] = <<>> /\ cursor[p] = 1 /\ written[p] = <<>>
        BY DEF BackfillInit
      <3>2. Numbered(<<>>) /\ <<>> \in Seq(NamesOf(plan[p]))
        BY EmptySeq DEF Numbered
      <3>3. Undisturbed(p)
        BY <3>1 DEF Undisturbed
      <3> QED  BY <3>1, <3>2, <3>3 DEF Underway
    <2> QED
      BY <2>1 DEF BackfillInit, IndexInv, Places
  <1>2. IndexInv /\ [BackfillNext]_(backfillVars) => IndexInv'
    BY ListKeeps, PlainKeeps, EndsKeeps, LoadFailsKeeps, OpenKeeps, WriteReceiptKeeps, WriteIndexKeeps,
       WorldKeeps DEF BackfillNext, BackfillRun
  <1>3. IndexInv => FinishedMeansIndexed
    <2> SUFFICES ASSUME IndexInv, settled # Nobody, NEW p, p = settled
                 PROVE  /\ safeToWrite
                        /\ ToSet(files[Index].names)
                             = {plan[p][i].name : i \in {j \in DOMAIN plan[p] : ~plan[p][j].loadFailed}}
                        /\ \A a, b \in DOMAIN files[Index].names :
                              a < b => files[Index].names[a][1] < files[Index].names[b][1]
                        /\ \A i \in {j \in DOMAIN plan[p] : ~plan[p][j].loadFailed} :
                              /\ plan[p][i].name \in DOMAIN files
                              /\ files[plan[p][i].name] = Receipt(plan[p][i].session)
      BY DEF FinishedMeansIndexed
    <2>1. p \in Backfillers /\ Manifest(p)
      BY DEF IndexInv
    <2>2. files[Index].names = written[p] /\ files[Index].marker = MANIFEST_MARKER
      BY <2>1 DEF Manifest, buildManifest
    <2>3. safeToWrite
      BY <2>1, <2>2 DEF Manifest, safeToWrite
    <2> QED
      BY <2>1, <2>2, <2>3 DEF Manifest, Written, InOrder, ToSet
  <1> QED
    BY <1>1, <1>2, <1>3, PTL DEF BackfillSpec

-----------------------------------------------------------------------------
(* HookSettings: as long as nobody else writes, the backup is what was      *)
(* there before the first write, once that is not to be written again.      *)
HookInv ==
    /\ DOMAIN hookPc = HookRuns
    /\ writes \in Nat
    /\ writes = 0 =>
          IF first = <<>>
            THEN /\ bak \in {Absent, file}
                 /\ \A r \in HookRuns : hookPc[r] = "write" => bak = file
            ELSE first[1].kind = "text" => bak = first[1]

(* backupOnce: "never clobbering a backup".                                 *)
THEOREM BackupIsTheOriginal == HookSpec => []OriginalIsKept
  <1>1. HookInit => HookInv
    BY DEF HookInit, HookInv
  <1>2. ASSUME HookInv, [HookNext]_(hookVars)
        PROVE  HookInv'
    <2>1. ASSUME NEW r \in HookRuns, NEW where, hookPc' = [hookPc EXCEPT ![r] = where], where # "write",
                 UNCHANGED <<file, bak, writes, first>>
          PROVE  HookInv'
      BY <1>2, <2>1 DEF HookInv
    <2>2. ASSUME NEW r \in HookRuns, Install(r) \/ Uninstall(r) \/ Die(r)
          PROVE  HookInv'
      BY <2>1, <2>2 DEF Install, Uninstall, Die, Stop, ReadToInstall, NothingToInstall,
                        Accept, Decline, ReadToUninstall, NothingToUninstall
    <2>3. ASSUME NEW r \in HookRuns, backupOnce(r)
          PROVE  HookInv'
      <3>1. Absent.kind = "absent"
        BY DEF Absent
      <3> QED
        BY <1>2, <2>3, <3>1 DEF HookInv, backupOnce
    <2>4. ASSUME NEW r \in HookRuns, atomicWrite(r)
          PROVE  HookInv'
      <3>1. /\ hookPc[r] = "write" /\ UNCHANGED <<bak, writes>> /\ hookPc' = [hookPc EXCEPT ![r] = "done"]
            /\ first' = IF first = <<>> THEN <<file, based[r]>> ELSE first
        BY <2>4 DEF atomicWrite
      <3>2. first' # <<>>
        BY <3>1
      <3>3. CASE first = <<>>
        BY <1>2, <3>1, <3>2, <3>3 DEF HookInv
      <3>4. CASE first # <<>>
        BY <1>2, <3>1, <3>2, <3>4 DEF HookInv
      <3> QED  BY <3>3, <3>4
    <2>5. CASE ForeignWrite
      BY <1>2, <2>5 DEF HookInv, ForeignWrite
    <2>6. CASE UNCHANGED hookVars
      BY <1>2, <2>6 DEF HookInv, hookVars
    <2> QED
      BY <1>2, <2>2, <2>3, <2>4, <2>5, <2>6 DEF HookNext, WriteSettings, HookRuns
  <1>3. HookInv => OriginalIsKept
    BY DEF HookInv, OriginalIsKept
  <1> QED
    BY <1>1, <1>2, <1>3, PTL DEF HookSpec

(* What removal leaves of the settings.                                    *)
LEMMA OnlySteps ==
  ASSUME NEW S, NEW keep, NEW s \in Seq(S)
  PROVE  \E f \in [0..Len(s) -> Seq(S)] :
            /\ f[0] = <<>> /\ Only(s, keep) = f[Len(s)]
            /\ \A i \in 1..Len(s) : f[i] = IF s[i] \in keep THEN Append(f[i - 1], s[i]) ELSE f[i - 1]
  <1> DEFINE Then(i, t) == IF s[i] \in keep THEN Append(t, s[i]) ELSE t
             Body(f, i) == IF i = 0 THEN <<>> ELSE Then(i, f[i - 1])
             step == [i \in 1..Len(s) |-> [t \in Seq(S) |-> Then(i, t)]]
             F == CHOOSE h : h = [i \in 0..Len(s) |-> Body(h, i)]
  <1>1. step \in [1..Len(s) -> [Seq(S) -> Seq(S)]]
    <2>1. ASSUME NEW i \in 1..Len(s), NEW t \in Seq(S) PROVE Then(i, t) \in Seq(S)
      BY ElementOfSeq
    <2> HIDE DEF Then
    <2> QED  BY <2>1
  <1>2. PICK f \in [0..Len(s) -> Seq(S)] :
           f[0] = <<>> /\ \A i \in 1..Len(s) : f[i] = step[i][f[i - 1]]
    <2> DEFINE V == Seq(S)
               len == Len(s)
    <2>1. <<>> \in V /\ len \in Nat
      BY EmptySeq
    <2>2. step \in [1..len -> [V -> V]]
      BY <1>1
    <2> HIDE DEF step, V, len
    <2>3. \E f \in [0..len -> V] : f[0] = <<>> /\ \A i \in 1..len : f[i] = step[i][f[i - 1]]
      <3>1. Iterable(V, <<>>, len, step)
        BY <2>1, <2>2, Iterated, Zenon
      <3> QED  BY <3>1, Zenon DEF Iterable
    <2> QED  BY <2>3 DEF V, len
  <1>3. ASSUME NEW i \in 1..Len(s) PROVE f[i] = Then(i, f[i - 1])
    <2>1. f[i - 1] \in Seq(S)
      <3>1. i - 1 \in 0..Len(s)
        OBVIOUS
      <3> QED  BY <1>2, <3>1
    <2> HIDE DEF Then
    <2> QED  BY <1>2, <2>1
  <1>4. f = [i \in 0..Len(s) |-> Body(f, i)]
    <2> HIDE DEF Then
    <2> QED  BY <1>2, <1>3
  <1>5. F = [i \in 0..Len(s) |-> Body(F, i)]
    <2> HIDE DEF Then
    <2> QED  BY <1>4
  <1>6. Only(s, keep) = F[Len(s)]
    BY DEF Only
  <1> HIDE DEF F
  <1>7. \A i \in 0..Len(s) : F[i] = f[i]
    <2> DEFINE T == {n \in Nat : n <= Len(s) => F[n] = f[n]}
    <2>1. 0 \in T
      BY <1>2, <1>5
    <2>2. ASSUME NEW n \in Nat, n \in T PROVE n + 1 \in T
      <3> SUFFICES ASSUME n + 1 <= Len(s) PROVE F[n + 1] = f[n + 1]
        OBVIOUS
      <3>1. F[n] = f[n] /\ n + 1 \in 1..Len(s) /\ n + 1 \in 0..Len(s) /\ n + 1 # 0 /\ (n + 1) - 1 = n
        BY <2>2
      <3> HIDE DEF Then
      <3>2. f[n + 1] = Then(n + 1, f[n])
        BY <1>3, <3>1
      <3>3. F[n + 1] = Body(F, n + 1)
        BY <1>5, <3>1, Zenon
      <3>4. Body(F, n + 1) = Then(n + 1, F[n])
        BY <3>1
      <3> QED  BY <3>1, <3>2, <3>3, <3>4
    <2>3. Nat \subseteq T
      <3> HIDE DEF T
      <3> QED  BY <2>1, <2>2, AllOf
    <2> QED  BY <2>3
  <1> QED
    BY <1>2, <1>3, <1>6, <1>7

LEMMA OnlyFacts ==
  ASSUME NEW S, NEW keep
  PROVE  /\ Only(<<>>, keep) = <<>>
         /\ \A s \in Seq(S) : Only(s, keep) \in Seq(S)
         /\ \A s \in Seq(S), x \in S :
               Only(Append(s, x), keep) =
                  IF x \in keep THEN Append(Only(s, keep), x) ELSE Only(s, keep)
  <1>1. Only(<<>>, keep) = <<>>
    <2>1. <<>> \in Seq(S) /\ Len(<<>>) = 0
      BY EmptySeq
    <2>2. \A s \in Seq(S) : \E f : f[0] = <<>> /\ Only(s, keep) = f[Len(s)]
      BY OnlySteps, SMTT(30)
    <2> QED  BY <2>1, <2>2
  <1>2. ASSUME NEW s \in Seq(S) PROVE Only(s, keep) \in Seq(S)
    BY OnlySteps, SMTT(30)
  <1>3. ASSUME NEW s \in Seq(S), NEW x \in S
        PROVE  Only(Append(s, x), keep) =
                  IF x \in keep THEN Append(Only(s, keep), x) ELSE Only(s, keep)
    <2> DEFINE t == Append(s, x)
               len == Len(s)
    <2>1. t \in Seq(S) /\ Len(t) = len + 1 /\ t[len + 1] = x /\ \A i \in 1..len : t[i] = s[i]
      OBVIOUS
    <2> HIDE DEF t
    <2>2. PICK f : /\ f[0] = <<>> /\ Only(s, keep) = f[len]
                   /\ \A i \in 1..len :
                         f[i] = IF s[i] \in keep THEN Append(f[i - 1], s[i]) ELSE f[i - 1]
      BY OnlySteps, SMTT(30)
    <2>3. PICK g : /\ g[0] = <<>> /\ Only(t, keep) = g[len + 1]
                   /\ \A i \in 1..(len + 1) :
                         g[i] = IF t[i] \in keep THEN Append(g[i - 1], t[i]) ELSE g[i - 1]
      BY <2>1, OnlySteps
    <2> HIDE DEF len
    <2>4. len \in Nat
      BY DEF len
    <2> DEFINE T == {n \in Nat : n <= len => g[n] = f[n]}
    <2>5. 0 \in T
      BY <2>2, <2>3
    <2>6. ASSUME NEW n \in Nat, n \in T PROVE n + 1 \in T
      <3> SUFFICES ASSUME n + 1 <= len PROVE g[n + 1] = f[n + 1]
        OBVIOUS
      <3>1. g[n] = f[n] /\ n + 1 \in 1..len /\ n + 1 \in 1..(len + 1) /\ (n + 1) - 1 = n
        BY <2>4, <2>6
      <3> QED  BY <2>1, <2>2, <2>3, <3>1
    <2>7. Nat \subseteq T
      <3> HIDE DEF T
      <3> QED  BY <2>5, <2>6, AllOf
    <2>8. g[len] = f[len] /\ len + 1 \in 1..(len + 1) /\ (len + 1) - 1 = len
      BY <2>4, <2>7
    <2>9. g[len + 1] = IF x \in keep THEN Append(g[len], x) ELSE g[len]
      BY <2>1, <2>3, <2>8
    <2> QED
      BY <2>2, <2>3, <2>8, <2>9 DEF t
  <1> QED
    BY <1>1, <1>2, <1>3

HookEntry == Seq(HookCommands)
Strips(es) == [i \in DOMAIN es |-> stripped(es[i])]
Rest(es) == Only(Strips(es), HookEntry \ {<<>>})
Kept(es) == Only(es, {e \in HookEntry : entryHasCommand(e) => stripped(e) # <<>>})

(* What is left of an entry and of a list of them, item by item. *)
LEMMA StrippedFacts ==
  /\ \A e \in HookEntry : stripped(e) \in HookEntry /\ stripped(stripped(e)) = stripped(e)
  /\ <<HOOK_COMMAND>> \in HookEntry /\ stripped(<<HOOK_COMMAND>>) = <<>>
  <1> DEFINE keep == HookCommands \ {HOOK_COMMAND}
  <1>1. /\ Only(<<>>, keep) = <<>>
        /\ \A s \in HookEntry : Only(s, keep) \in HookEntry
        /\ \A s \in HookEntry, x \in HookCommands :
               Only(Append(s, x), keep) =
                  IF x \in keep THEN Append(Only(s, keep), x) ELSE Only(s, keep)
    BY OnlyFacts DEF HookEntry
  <1>2. \A e \in HookEntry : stripped(e) = Only(e, keep)
    BY DEF stripped
  <1>3. HOOK_COMMAND \in HookCommands \ keep
    BY DEF HookCommands
  <1> HIDE DEF keep
  <1>4. <<>> \in HookEntry /\ <<HOOK_COMMAND>> \in HookEntry /\ <<HOOK_COMMAND>> = Append(<<>>, HOOK_COMMAND)
    BY <1>3 DEF HookEntry
  <1>5. stripped(<<HOOK_COMMAND>>) = <<>>
    BY <1>1, <1>2, <1>3, <1>4
  <1> DEFINE P == {e \in HookEntry : Only(Only(e, keep), keep) = Only(e, keep)}
  <1>6. <<>> \in P
    BY <1>1, <1>4
  <1>7. ASSUME NEW e \in HookEntry, e \in P, NEW x \in HookCommands PROVE Append(e, x) \in P
    <2>1. Append(e, x) \in HookEntry /\ Only(e, keep) \in HookEntry
      BY <1>1 DEF HookEntry
    <2>2. Only(Append(e, x), keep) = IF x \in keep THEN Append(Only(e, keep), x) ELSE Only(e, keep)
      BY <1>1
    <2>3. Only(Append(Only(e, keep), x), keep)
            = IF x \in keep THEN Append(Only(Only(e, keep), keep), x) ELSE Only(Only(e, keep), keep)
      BY <1>1, <2>1
    <2>4. Only(Only(e, keep), keep) = Only(e, keep)
      BY <1>7
    <2> QED
      BY <2>1, <2>2, <2>3, <2>4
  <1>8. HookEntry \subseteq P
    <2> HIDE DEF P
    <2> QED  BY <1>6, <1>7, AllSequences DEF HookEntry
  <1> QED
    BY <1>1, <1>2, <1>4, <1>5, <1>8

LEMMA StripsFacts ==
  /\ Strips(<<>>) = <<>>
  /\ \A es \in Seq(HookEntry) : Strips(es) \in Seq(HookEntry)
  /\ \A es \in Seq(HookEntry), e \in HookEntry : Strips(Append(es, e)) = Append(Strips(es), stripped(e))
  <1>1. Strips(<<>>) = <<>>
    BY DEF Strips
  <1>2. ASSUME NEW es \in Seq(HookEntry), NEW e \in HookEntry
        PROVE  Strips(es) \in Seq(HookEntry) /\ Strips(Append(es, e)) = Append(Strips(es), stripped(e))
    <2>1. \A i \in 1..Len(es) : stripped(es[i]) \in HookEntry
      BY StrippedFacts, ElementOfSeq
    <2>2. DOMAIN es = 1..Len(es) /\ Len(es) \in Nat
      OBVIOUS
    <2>3. Strips(es) \in Seq(HookEntry) /\ Len(Strips(es)) = Len(es)
      BY <2>1, <2>2 DEF Strips
    <2> DEFINE longer == Append(es, e)
    <2>4. /\ DOMAIN longer = 1..(Len(es) + 1) /\ longer[Len(es) + 1] = e
          /\ \A i \in 1..Len(es) : longer[i] = es[i]
      OBVIOUS
    <2> HIDE DEF longer
    <2>5. /\ Strips(longer) = [i \in 1..(Len(es) + 1) |-> stripped(longer[i])]
          /\ \A i \in 1..Len(es) : Strips(es)[i] = stripped(es[i])
      BY <2>2, <2>4 DEF Strips
    <2>6. ASSUME NEW t \in Seq(HookEntry), NEW x \in HookEntry
          PROVE  Append(t, x) = [i \in 1..(Len(t) + 1) |-> IF i = Len(t) + 1 THEN x ELSE t[i]]
      <3> DEFINE u == Append(t, x)
                 n == Len(t)
      <3>1. u \in Seq(HookEntry) /\ Len(u) = n + 1 /\ n \in Nat
        BY AppendProperties
      <3>2. u \in [1..(n + 1) -> HookEntry]
        BY <3>1, LenProperties
      <3>3. \A i \in 1..(n + 1) : u[i] = IF i = n + 1 THEN x ELSE t[i]
        BY AppendProperties
      <3> HIDE DEF u, n
      <3>4. u = [i \in 1..(n + 1) |-> IF i = n + 1 THEN x ELSE t[i]]
        BY <3>2, <3>3
      <3> QED  BY <3>4 DEF u, n
    <2>7. Strips(longer) = Append(Strips(es), stripped(e))
      <3>1. stripped(e) \in HookEntry
        BY StrippedFacts
      <3>2. Append(Strips(es), stripped(e)) =
              [i \in 1..(Len(es) + 1) |-> IF i = Len(es) + 1 THEN stripped(e) ELSE Strips(es)[i]]
        BY <2>3, <2>6, <3>1
      <3>3. \A i \in 1..(Len(es) + 1) :
              stripped(longer[i]) = IF i = Len(es) + 1 THEN stripped(e) ELSE Strips(es)[i]
        BY <2>2, <2>4, <2>5
      <3> QED  BY <2>5, <3>2, <3>3
    <2> QED
      BY <2>3, <2>7 DEF longer
  <1>3. ASSUME NEW es \in Seq(HookEntry) PROVE Strips(es) \in Seq(HookEntry)
    BY <1>2, StrippedFacts
  <1> QED
    BY <1>1, <1>2, <1>3

LEMMA RestFacts ==
  /\ Rest(<<>>) = <<>>
  /\ \A es \in Seq(HookEntry), e \in HookEntry :
        Rest(Append(es, e)) = IF stripped(e) # <<>> THEN Append(Rest(es), stripped(e)) ELSE Rest(es)
  <1> DEFINE keep == HookEntry \ {<<>>}
  <1>1. /\ Only(<<>>, keep) = <<>>
        /\ \A s \in Seq(HookEntry), x \in HookEntry :
               Only(Append(s, x), keep) =
                  IF x \in keep THEN Append(Only(s, keep), x) ELSE Only(s, keep)
    BY OnlyFacts
  <1>4. ASSUME NEW es \in Seq(HookEntry), NEW e \in HookEntry
        PROVE  Rest(Append(es, e)) =
                  IF stripped(e) # <<>> THEN Append(Rest(es), stripped(e)) ELSE Rest(es)
    <2>1. stripped(e) \in HookEntry /\ (stripped(e) \in keep <=> stripped(e) # <<>>)
      BY StrippedFacts
    <2>2. \A s : Rest(s) = Only(Strips(s), keep)
      BY DEF Rest
    <2> HIDE DEF keep
    <2> QED
      BY <1>1, <2>1, <2>2, StripsFacts
  <1> QED
    BY <1>1, <1>4, StripsFacts DEF Rest

(* Dropping the entries that become empty drops nothing of theirs. *)
LEMMA RebuiltRest ==
  ASSUME NEW es \in Seq(HookEntry)
  PROVE  /\ Strips(Kept(es)) \in Seq(HookEntry)
         /\ Rest(Strips(Kept(es))) = Rest(es)
  <1> DEFINE keep == {e \in HookEntry : entryHasCommand(e) => stripped(e) # <<>>}
             P == {s \in Seq(HookEntry) : /\ Kept(s) \in Seq(HookEntry) /\ Strips(Kept(s)) \in Seq(HookEntry)
                                      /\ Rest(Strips(Kept(s))) = Rest(s)}
  <1>1. /\ Kept(<<>>) = <<>>
        /\ \A s \in Seq(HookEntry) : Kept(s) \in Seq(HookEntry)
        /\ \A s \in Seq(HookEntry), e \in HookEntry :
              Kept(Append(s, e)) = IF e \in keep THEN Append(Kept(s), e) ELSE Kept(s)
    BY OnlyFacts DEF Kept
  <1> HIDE DEF keep
  <1>2. <<>> \in P
    <2>1. <<>> \in Seq(HookEntry)
      OBVIOUS
    <2> QED  BY <1>1, <2>1, StripsFacts, RestFacts
  <1>3. ASSUME NEW s \in Seq(HookEntry), s \in P, NEW e \in HookEntry PROVE Append(s, e) \in P
    <2> DEFINE longer == Append(s, e)
    <2>1. /\ longer \in Seq(HookEntry) /\ Kept(s) \in Seq(HookEntry) /\ Strips(Kept(s)) \in Seq(HookEntry)
          /\ Rest(Strips(Kept(s))) = Rest(s)
          /\ stripped(e) \in HookEntry /\ stripped(stripped(e)) = stripped(e)
      BY <1>3, StrippedFacts
    <2>2. Rest(longer) = IF stripped(e) # <<>> THEN Append(Rest(s), stripped(e)) ELSE Rest(s)
      BY RestFacts
    <2>3. CASE e \in keep
      <3>1. Kept(longer) = Append(Kept(s), e)
        BY <1>1, <2>3
      <3>2. Kept(longer) \in Seq(HookEntry) /\ Strips(Kept(longer)) = Append(Strips(Kept(s)), stripped(e))
        BY <1>1, <2>1, <3>1, StripsFacts
      <3>3. Strips(Kept(longer)) \in Seq(HookEntry)
        BY <3>2, StripsFacts
      <3>4. Rest(Strips(Kept(longer))) = IF stripped(e) # <<>> THEN Append(Rest(s), stripped(e)) ELSE Rest(s)
        BY <2>1, <3>2, RestFacts
      <3> HIDE DEF longer
      <3>5. longer \in P
        <4>1. Rest(Strips(Kept(longer))) = Rest(longer)
          BY <2>2, <3>4
        <4> QED  BY <2>1, <3>2, <3>3, <4>1
      <3> QED  BY <3>5 DEF longer
    <2>4. CASE e \notin keep
      <3>1. stripped(e) = <<>>
        BY <2>4 DEF keep
      <3>2. Kept(longer) = Kept(s)
        BY <1>1, <2>4
      <3> QED  BY <2>1, <2>2, <3>1, <3>2
    <2> QED  BY <2>3, <2>4
  <1>4. Seq(HookEntry) \subseteq P
    <2> HIDE DEF P
    <2> QED  BY <1>2, <1>3, AllSequences
  <1> QED
    BY <1>4

(* Settings have entries only where `hooks` and its event have their shape. *)
Shaped(s) ==
    /\ DOMAIN s = {"rest", "hooks", "event", "entries"}
    /\ s.entries \in Seq(HookEntry)
    /\ malformedHooksShape(s) => s.entries = <<>>

(* What a run will write differs from what it read in our command alone.    *)
SurgicalInv ==
    /\ Shaped(file.settings)
    /\ \A r \in HookRuns :
          hookPc[r] \in {"prompt", "backup", "write"} =>
              Shaped(next[r]) /\ TheirPart(next[r]) = TheirPart(based[r].settings)
    /\ DOMAIN hookPc = HookRuns /\ DOMAIN next = HookRuns /\ DOMAIN based = HookRuns

LEMMA TheirPartIs ==
  ASSUME NEW s, NEW t, s.rest = t.rest, malformedHooksShape(s) <=> malformedHooksShape(t),
         Rest(s.entries) = Rest(t.entries)
  PROVE  TheirPart(s) = TheirPart(t)
  <1>1. malformedHooksShape(s) = malformedHooksShape(t)
    BY DEF malformedHooksShape
  <1>2. \A u : TheirPart(u) = [rest |-> u.rest, odd |-> malformedHooksShape(u), entries |-> Rest(u.entries)]
    BY Zenon DEF TheirPart, Rest, Strips, HookEntry
  <1> QED
    BY <1>1, <1>2, Zenon

LEMMA AdditiveMerge ==
  ASSUME NEW s, Shaped(s), ~malformedHooksShape(s)
  PROVE  Shaped(withHookEntry(s)) /\ TheirPart(withHookEntry(s)) = TheirPart(s)
  <1> DEFINE t == withHookEntry(s)
  <1>1. /\ DOMAIN t = DOMAIN s /\ t.rest = s.rest /\ t.hooks = "object" /\ t.event = "list"
        /\ t.entries = Append(s.entries, <<HOOK_COMMAND>>)
    BY DEF withHookEntry, Shaped
  <1> HIDE DEF t
  <1>2. <<HOOK_COMMAND>> \in HookEntry /\ stripped(<<HOOK_COMMAND>>) = <<>>
    BY StrippedFacts
  <1>3. ~malformedHooksShape(t)
    BY <1>1 DEF malformedHooksShape
  <1>4. t.entries \in Seq(HookEntry) /\ Rest(t.entries) = Rest(s.entries)
    BY <1>1, <1>2, RestFacts DEF Shaped
  <1> QED
    BY <1>1, <1>3, <1>4, TheirPartIs DEF Shaped, t

LEMMA SurgicalRemoval ==
  ASSUME NEW s, Shaped(s), hasHookEntry(s)
  PROVE  Shaped(withoutHookEntry(s)) /\ TheirPart(withoutHookEntry(s)) = TheirPart(s)
  <1> DEFINE rebuilt == Strips(Kept(s.entries))
             t == withoutHookEntry(s)
  <1>1. ~malformedHooksShape(s) /\ s.entries \in Seq(HookEntry)
    BY DEF Shaped, hasHookEntry
  <1>2. rebuilt \in Seq(HookEntry) /\ Rest(rebuilt) = Rest(s.entries)
    BY <1>1, RebuiltRest
  <1>3. t = IF rebuilt # <<>> THEN [s EXCEPT !.entries = rebuilt]
            ELSE [s EXCEPT !.hooks = "none", !.event = "none", !.entries = <<>>]
    BY DEF withoutHookEntry, Strips, Kept, HookEntry
  <1> HIDE DEF rebuilt, t
  <1>4. /\ DOMAIN t = DOMAIN s /\ t.rest = s.rest /\ t.entries = rebuilt
        /\ \/ t.hooks = s.hooks /\ t.event = s.event
           \/ t.hooks = "none" /\ t.event = "none"
    BY <1>3 DEF Shaped
  <1>5. ~malformedHooksShape(t)
    BY <1>1, <1>4 DEF malformedHooksShape
  <1> QED
    BY <1>1, <1>2, <1>4, <1>5, TheirPartIs DEF Shaped, t

LEMMA RunKeeps ==
  ASSUME SurgicalInv, NEW r \in HookRuns, NEW pc,
         hookPc' = [hookPc EXCEPT ![r] = pc], UNCHANGED file,
         \/ UNCHANGED <<next, based>>
            /\ (pc \in {"prompt", "backup", "write"} => hookPc[r] \in {"prompt", "backup", "write"})
         \/ /\ next' = [next EXCEPT ![r] = next'[r]] /\ based' = [based EXCEPT ![r] = file]
            /\ Shaped(next'[r]) /\ TheirPart(next'[r]) = TheirPart(file.settings)
  PROVE  SurgicalInv'
  <1>1. \A q \in HookRuns : hookPc'[q] = IF q = r THEN pc ELSE hookPc[q]
    BY DEF SurgicalInv
  <1>2. ASSUME NEW q \in HookRuns, hookPc'[q] \in {"prompt", "backup", "write"}
        PROVE  Shaped(next'[q]) /\ TheirPart(next'[q]) = TheirPart(based'[q].settings)
    <2>1. CASE q # r
      BY <1>1, <1>2, <2>1 DEF SurgicalInv
    <2>2. CASE q = r
      BY <1>1, <1>2, <2>2 DEF SurgicalInv
    <2> QED  BY <2>1, <2>2
  <1> QED
    BY <1>2 DEF SurgicalInv

LEMMA SurgicalStep ==
  ASSUME SurgicalInv, [HookNext]_(hookVars)
  PROVE  SurgicalInv'
  <1>1. ASSUME NEW r \in HookRuns, ReadToInstall(r)
        PROVE  SurgicalInv'
    <2>1. Shaped(withHookEntry(file.settings))
          /\ TheirPart(withHookEntry(file.settings)) = TheirPart(file.settings)
      BY <1>1, AdditiveMerge DEF ReadToInstall, Parsed, SurgicalInv
    <2>2. /\ next' = [next EXCEPT ![r] = withHookEntry(file.settings)]
          /\ based' = [based EXCEPT ![r] = file] /\ UNCHANGED file
          /\ hookPc' = [hookPc EXCEPT ![r] = "prompt"] /\ DOMAIN next = HookRuns
      BY <1>1 DEF ReadToInstall, Parsed, SurgicalInv
    <2> QED  BY <2>1, <2>2, RunKeeps
  <1>2. ASSUME NEW r \in HookRuns, ReadToUninstall(r)
        PROVE  SurgicalInv'
    <2>1. Shaped(withoutHookEntry(file.settings))
          /\ TheirPart(withoutHookEntry(file.settings)) = TheirPart(file.settings)
      BY <1>2, SurgicalRemoval DEF ReadToUninstall, Parsed, SurgicalInv
    <2>2. /\ next' = [next EXCEPT ![r] = withoutHookEntry(file.settings)]
          /\ based' = [based EXCEPT ![r] = file] /\ UNCHANGED file
          /\ hookPc' = [hookPc EXCEPT ![r] = "backup"] /\ DOMAIN next = HookRuns
      BY <1>2 DEF ReadToUninstall, Parsed, SurgicalInv
    <2> QED  BY <2>1, <2>2, RunKeeps
  <1>3. ASSUME NEW r \in HookRuns,
               \/ NothingToInstall(r) \/ NothingToUninstall(r) \/ Decline(r) \/ Die(r)
               \/ Accept(r) \/ backupOnce(r)
        PROVE  SurgicalInv'
    <2>1. UNCHANGED <<file, next, based>>
      BY <1>3 DEF NothingToInstall, NothingToUninstall, Decline, Die, Stop, Accept, backupOnce
    <2>2. \/ hookPc' = [hookPc EXCEPT ![r] = "done"]
          \/ hookPc[r] = "prompt" /\ hookPc' = [hookPc EXCEPT ![r] = "backup"]
          \/ hookPc[r] = "backup" /\ hookPc' = [hookPc EXCEPT ![r] = "write"]
      BY <1>3 DEF NothingToInstall, NothingToUninstall, Decline, Die, Stop, Accept, backupOnce
    <2> QED  BY <2>1, <2>2, RunKeeps
  <1>4. ASSUME NEW r \in HookRuns, atomicWrite(r)
        PROVE  SurgicalInv'
    <2>1. /\ hookPc[r] = "write" /\ hookPc' = [hookPc EXCEPT ![r] = "done"]
          /\ file' = Text(next[r]) /\ UNCHANGED <<next, based>>
      BY <1>4 DEF atomicWrite
    <2>2. Shaped(file'.settings)
      BY <2>1 DEF SurgicalInv, Text
    <2> QED  BY <2>1, <2>2 DEF SurgicalInv
  <1>5. CASE ForeignWrite
    <2> DEFINE s == [file.settings EXCEPT !.rest = writes + 1]
    <2>1. file' = Text(s) /\ UNCHANGED <<hookPc, next, based>>
      BY <1>5 DEF ForeignWrite
    <2>2. Shaped(s)
      BY DEF SurgicalInv, Shaped, malformedHooksShape
    <2> HIDE DEF s
    <2>3. Shaped(file'.settings)
      BY <2>1, <2>2 DEF Text
    <2> QED  BY <2>1, <2>3 DEF SurgicalInv
  <1>6. CASE UNCHANGED hookVars
    BY <1>6 DEF SurgicalInv, hookVars
  <1> QED
    BY <1>1, <1>2, <1>3, <1>4, <1>5, <1>6
    DEF HookNext, Install, Uninstall, WriteSettings, HookRuns

(* A step after which a run is done and the file is another is its write.   *)
LEMMA WritesAreSurgical ==
  ASSUME SurgicalInv, [HookNext]_(hookVars)
  PROVE  TheirsStays
  <1> SUFFICES ASSUME NEW r \in HookRuns, hookPc[r] = "write", hookPc'[r] = "done",
                      file' # file, file = based[r]
               PROVE  TheirPart(file'.settings) = TheirPart(file.settings)
    BY DEF TheirsStays
  <1>1. CASE atomicWrite(r)
    BY <1>1 DEF atomicWrite, Text, SurgicalInv
  <1>2. ASSUME NEW q \in HookRuns, q # r, atomicWrite(q)
        PROVE  FALSE
    BY <1>2 DEF atomicWrite, SurgicalInv
  <1>3. CASE ForeignWrite
    BY <1>3 DEF ForeignWrite
  <1>4. ASSUME NEW q \in HookRuns, Install(q) \/ Uninstall(q) \/ backupOnce(q) \/ Die(q)
        PROVE  FALSE
    BY <1>4 DEF Install, Uninstall, ReadToInstall, NothingToInstall, Accept, Decline, Stop,
                ReadToUninstall, NothingToUninstall, backupOnce, Die
  <1>5. CASE UNCHANGED hookVars
    BY <1>5 DEF hookVars
  <1> QED
    BY <1>1, <1>2, <1>3, <1>4, <1>5 DEF HookNext, WriteSettings, HookRuns

(* settings.ts:177: "Removal is surgical".                                 *)
THEOREM RemovalIsSurgical == HookSpec => [][TheirsStays]_hookVars
  <1>1. HookInit => SurgicalInv
    <2> SUFFICES ASSUME HookInit PROVE SurgicalInv
      OBVIOUS
    <2>1. \A s \in UserSettings : Shaped(s)
      <3>1. <<>> \in Seq(HookEntry) /\ <<<<"theirs">>>> \in Seq(HookEntry)
            /\ <<<<"theirs", HOOK_COMMAND>>, <<"theirs">>>> \in Seq(HookEntry)
        BY DEF HookEntry, HookCommands, HOOK_COMMAND
      <3> SUFFICES ASSUME NEW s \in UserSettings PROVE Shaped(s)
        OBVIOUS
      <3>2. DOMAIN s = {"rest", "hooks", "event", "entries"}
        BY DEF UserSettings, Bare
      <3>3. CASE s.entries = <<>>
        BY <3>1, <3>2, <3>3 DEF Shaped
      <3>4. CASE s.entries # <<>>
        <4>1. /\ s.entries \in {<<<<"theirs">>>>, <<<<"theirs", HOOK_COMMAND>>, <<"theirs">>>>}
              /\ s.hooks = "object" /\ s.event = "list"
          <5> DEFINE some == {<<<<"theirs">>>>, <<<<"theirs", HOOK_COMMAND>>, <<"theirs">>>>}
          <5> DEFINE empty == {Bare, [Bare EXCEPT !.hooks = "odd"],
                               [Bare EXCEPT !.hooks = "object", !.event = "odd"],
                               [Bare EXCEPT !.hooks = "object", !.event = "list"]}
          <5>1. s \in empty \/ \E e \in some :
                      s = [Bare EXCEPT !.hooks = "object", !.event = "list", !.entries = e]
            BY DEF UserSettings
          <5>2. ASSUME NEW t \in empty PROVE t.entries = <<>>
            <6>1. DOMAIN Bare = {"rest", "hooks", "event", "entries"} /\ Bare.entries = <<>>
              BY DEF Bare
            <6> QED  BY <6>1
          <5> HIDE DEF some, empty
          <5>3. PICK e \in some :
                   s = [Bare EXCEPT !.hooks = "object", !.event = "list", !.entries = e]
            BY <3>4, <5>1, <5>2
          <5> QED  BY <5>3 DEF Bare, some
        <4> QED
          BY <3>1, <3>2, <4>1 DEF Shaped, malformedHooksShape
      <3> QED  BY <3>3, <3>4
    <2>2. Shaped(Bare)
      BY <2>1 DEF UserSettings
    <2>3. Shaped(file.settings)
      BY <2>1, <2>2 DEF HookInit, Absent, BadJson, Text
    <2> QED
      BY <2>3 DEF HookInit, SurgicalInv
  <1>2. SurgicalInv /\ [HookNext]_(hookVars) => SurgicalInv' /\ [TheirsStays]_(hookVars)
    BY SurgicalStep, WritesAreSurgical
  <1> QED
    BY <1>1, <1>2, PTL DEF HookSpec

(* Both at once: nothing of the user's is lost, whatever runs overlap.      *)
THEOREM SettingsSurvive == HookSpec => NothingOfTheirsIsLost
  BY BackupIsTheOriginal, RemovalIsSurgical, PTL DEF NothingOfTheirsIsLost

-----------------------------------------------------------------------------
(* For any number of commands and transcripts, the list of sessions is     *)
(* never older than the command, and no transcript vanishes from it that   *)
(* the command is to be given.                                             *)
(*                                                                         *)
(* A summary that is served for a stamp was made from that version or a    *)
(* later one, since the stamp is taken first (EntriesAreSound); so a       *)
(* summary served for the version a transcript has now was made from this  *)
(* very version.  That holds of the file and of every command's copy, so   *)
(* it does not matter which of two commands saves last.                    *)

(* A summary is no older than the stamp it is kept under. *)
SoundEntry(e, f) ==
    e # NoEntry => e.stamp <= e.version /\ e.version <= version[f]

EntriesAreSound ==
    \A f \in Files : /\ SoundEntry(cacheFile[f], f)
                     /\ \A p \in Listers : SoundEntry(entries[p][f], f)

(* A worker's stamp was taken after the command began. *)
SoundStamp(p, f) ==
    /\ atStart[p][f] <= version[f]
    /\ task[p][f] = "load" => /\ atStart[p][f] <= stat[p][f]
                              /\ stat[p][f] <= version[f]

StampsAreSound == \A p \in Listers, f \in Files : SoundStamp(p, f)

(* While a command lists, it sees the transcripts in the states recorded. *)
SeesState(p, f) ==
    /\ task[p][f] # "done" => listing[p] = "busy"
    /\ listing[p] = "busy" => state[f] \in since[p][f]

SeesStates == \A p \in Listers, f \in Files : SeesState(p, f)

(* What NothingVanishes says, of each transcript a worker is done with:    *)
(* until the answer is given its degraded rows are there.                  *)
AccountedFor(p, f) ==
    listing[p] # "idle" /\ task[p][f] = "done" /\ atStart[p][f] > 0 =>
        /\ since[p][f] \subseteq {"sound"} => row[p][f].kind = "full"
        /\ /\ including[p] \/ listing[p] = "busy"
           /\ since[p][f] \subseteq {"sound", "spoilt"}
           => row[p][f].kind # "none"
        /\ listing[p] = "listed" /\ ~including[p] => row[p][f].kind # "degraded"

Accounted == \A p \in Listers, f \in Files : AccountedFor(p, f)

(* What ListsWhatWasThere says, of one transcript. *)
SoundRow(p, f) ==
    row[p][f].kind = "full" =>
        atStart[p][f] <= row[p][f].version /\ row[p][f].version <= version[f]

(* The list is finished when every worker is. *)
ListedIsDone == \A p \in Listers : listing[p] = "listed" => AllDone(p)

IInv == /\ TypeOK
        /\ EntriesAreSound
        /\ StampsAreSound
        /\ ListsWhatWasThere
        /\ SeesStates
        /\ Accounted
        /\ ListedIsDone

LEMMA InitIInv == Init => IInv
<1> SUFFICES ASSUME Init PROVE IInv  OBVIOUS
<1> USE DEF Init, Empty, NoRow
<1>1. TypeOK
  <2>1. NoEntry \in Entry /\ [kind |-> "none", version |-> 0] \in Row /\ "sound" \in States
    BY DEF Entry, Row, States
  <2>2. version \in [Files -> Nat]
    <3>1. version \in [Files -> 0..1] /\ 0..1 \subseteq Nat  OBVIOUS
    <3> QED  BY <3>1, Zenon
  <2>3. Empty \in [Files -> Entry]  BY <2>1 DEF Empty
  <2> QED  BY <2>1, <2>2, <2>3 DEF TypeOK
<1>2. EntriesAreSound  BY DEF EntriesAreSound, SoundEntry
<1>3. ASSUME NEW f \in Files PROVE 0 <= version[f]
  <2>1. version[f] \in 0..1  OBVIOUS
  <2> QED  BY <2>1
<1>4. StampsAreSound /\ SeesStates
  BY <1>3 DEF StampsAreSound, SoundStamp, SeesStates, SeesState
<1>5. ListsWhatWasThere /\ Accounted /\ ListedIsDone
  BY DEF ListsWhatWasThere, Accounted, AccountedFor, ListedIsDone
<1> QED  BY <1>1, <1>2, <1>4, <1>5 DEF IInv

(* The type part, by the actions of a command. *)
LEMMA TypingOfListers ==
    ASSUME TypeOK, NEW p \in Listers, ListerStep(p)
    PROVE  TypeOK'
<1> USE DEF TypeOK, disk, call, NoEntry
<1>1. CASE Begin(p)
  BY <1>1 DEF Begin, NoRow, Row, States
<1>2. ASSUME NEW f \in Files, Lazy(p, f) PROVE TypeOK'  BY <1>2 DEF Lazy
<1>3. ASSUME NEW f \in Files, Skip(p, f) PROVE TypeOK'
  BY <1>3 DEF Skip, Finish, NoRow, Row
<1>4. ASSUME NEW f \in Files, StatHit(p, f) PROVE TypeOK'
  <2>1. entries[p][f] \in [stamp : Nat, version : Nat]
    BY <1>4 DEF StatHit, Hit, Entry
  <2> QED  BY <1>4, <2>1 DEF StatHit, Finish, Row
<1>5. ASSUME NEW f \in Files, StatMiss(p, f) PROVE TypeOK'  BY <1>5 DEF StatMiss
<1>6. ASSUME NEW f \in Files, LoadFull(p, f) PROVE TypeOK'
  <2>1. PICK v \in stat[p][f]..version[f] :
            set(p, f, v) /\ Finish(p, f, [kind |-> "full", version |-> v])
    BY <1>6 DEF LoadFull
  <2>2. v \in Nat  OBVIOUS
  <2>3. [stamp |-> stat[p][f], version |-> v] \in Entry  BY <2>2 DEF Entry
  <2>4. [kind |-> "full", version |-> v] \in Row  BY <2>2 DEF Row
  <2> QED  BY <1>6, <2>1, <2>3, <2>4 DEF LoadFull, set, Finish
<1>7. ASSUME NEW f \in Files, LoadNull(p, f) PROVE TypeOK'
  BY <1>7 DEF LoadNull, Finish, Degraded, Row
<1>8. ASSUME NEW b \in BOOLEAN, Answer(p, b),
             UNCHANGED <<disk, task, atStart, since>>, cacheFile' \in {cacheFile, entries[p]}
      PROVE  TypeOK'
  BY <1>8 DEF Answer, Empty, Entry, NoRow, Row
<1>9. CASE Save(p) \/ SaveNothing(p)  BY <1>8, <1>9 DEF Save, SaveNothing
<1>10. CASE End(p)  BY <1>10 DEF End, Empty, Entry, NoRow, Row
<1> QED  BY <1>1, <1>2, <1>3, <1>4, <1>5, <1>6, <1>7, <1>8, <1>9, <1>10 DEF ListerStep

LEMMA TypingOfDisk ==
    ASSUME TypeOK, DiskStep \/ LoseCache
    PROVE  TypeOK'
<1> USE DEF TypeOK, disk, call, NoEntry
<1>1. ASSUME NEW f \in Files, Write(f) PROVE TypeOK'  BY <1>1 DEF Write, Became, States
<1>2. ASSUME NEW f \in Files, NEW s \in States, GoBad(f, s) PROVE TypeOK'
  BY <1>2 DEF GoBad, Became
<1>3. ASSUME NEW f \in Files, Mend(f) PROVE TypeOK'  BY <1>3 DEF Mend, Became, States
<1>4. CASE LoseCache  BY <1>4 DEF LoseCache, Empty, Entry
<1> QED  BY <1>1, <1>2, <1>3, <1>4 DEF DiskStep

-----------------------------------------------------------------------------
(* Each part below is shown for a step of a command, then for the rest. *)
LEMMA EntriesStaySound ==
    ASSUME IInv, NEW p \in Listers, ListerStep(p)
    PROVE  EntriesAreSound'
<1> USE DEF IInv, TypeOK, EntriesAreSound, SoundEntry, disk
<1>1. CASE Begin(p)
  BY <1>1 DEF Begin
<1>2. ASSUME NEW f \in Files, Lazy(p, f) \/ Skip(p, f) \/ StatHit(p, f)
                              \/ StatMiss(p, f) \/ LoadNull(p, f)
      PROVE  EntriesAreSound'
  BY <1>2 DEF Lazy, Skip, StatHit, StatMiss, LoadNull
<1>3. ASSUME NEW f \in Files, LoadFull(p, f) PROVE EntriesAreSound'
  <2>1. PICK v \in stat[p][f]..version[f] : set(p, f, v)
    BY <1>3 DEF LoadFull
  <2>2. stat[p][f] <= v /\ v <= version[f]  OBVIOUS
  <2> QED  BY <1>3, <2>1, <2>2 DEF LoadFull, set
<1>4. CASE Save(p)  BY <1>4 DEF Save, Answer, Empty
<1>5. CASE SaveNothing(p)  BY <1>5 DEF SaveNothing, Answer, Empty
<1>6. CASE End(p)  BY <1>6 DEF End, Empty
<1> QED  BY <1>1, <1>2, <1>3, <1>4, <1>5, <1>6 DEF ListerStep

(* One cell of a table of commands and transcripts is written. *)
LEMMA OneCell ==
    ASSUME NEW S, NEW T \in [Listers -> [Files -> S]], NEW U,
           NEW p \in Listers, NEW f \in Files, NEW v,
           U = [T EXCEPT ![p][f] = v],
           NEW q \in Listers, NEW g \in Files
    PROVE  U[q][g] = IF q = p /\ g = f THEN v ELSE T[q][g]
OBVIOUS

Worker(p, f) == \/ Lazy(p, f) \/ Skip(p, f) \/ StatHit(p, f) \/ StatMiss(p, f)
                \/ LoadFull(p, f) \/ LoadNull(p, f)

(* What holds of each row, its stamp and its worker. *)
CellOK(p, f) ==
    SoundStamp(p, f) /\ SoundRow(p, f) /\ SeesState(p, f) /\ AccountedFor(p, f)

LEMMA Cells ==
    IInv <=> /\ TypeOK /\ EntriesAreSound /\ ListedIsDone
             /\ \A p \in Listers, f \in Files : CellOK(p, f)
BY DEF IInv, CellOK, StampsAreSound, ListsWhatWasThere, SoundRow, SeesStates, Accounted

(* A worker that does not touch a cell leaves what holds of it. *)
LEMMA OtherCells ==
    ASSUME TypeOK, NEW p \in Listers, NEW f \in Files, Worker(p, f),
           NEW q \in Listers, NEW g \in Files, q # p \/ g # f, CellOK(q, g)
    PROVE  CellOK(q, g)'
<1>1. /\ task'[q][g] = task[q][g] /\ row'[q][g] = row[q][g] /\ stat'[q][g] = stat[q][g]
      /\ UNCHANGED <<disk, listing, including, atStart, since>>
  <2> USE DEF TypeOK, call
  <2>1. CASE Lazy(p, f)  BY <2>1, OneCell DEF Lazy
  <2>2. CASE Skip(p, f)  BY <2>2, OneCell DEF Skip, Finish
  <2>3. CASE StatHit(p, f)  BY <2>3, OneCell DEF StatHit, Finish
  <2>4. CASE StatMiss(p, f)  BY <2>4, OneCell DEF StatMiss
  <2>5. CASE LoadFull(p, f)  BY <2>5, OneCell DEF LoadFull, Finish
  <2>6. CASE LoadNull(p, f)  BY <2>6, OneCell DEF LoadNull, Finish
  <2> QED  BY <2>1, <2>2, <2>3, <2>4, <2>5, <2>6 DEF Worker
<1> QED  BY <1>1 DEF CellOK, SoundStamp, SoundRow, SeesState, AccountedFor, disk

(* A hit was made from the version the transcript has now. *)
LEMMA HitIsCurrent ==
    ASSUME NEW p \in Listers, NEW f \in Files, EntriesAreSound, Hit(p, f),
           version[f] \in Nat, entries[p][f] \in Entry
    PROVE  entries[p][f].version = version[f]
<1> DEFINE e == entries[p][f]
<1>1. e \in [stamp : Nat, version : Nat] /\ e # NoEntry  BY DEF Hit, Entry
<1>2. e.stamp <= e.version /\ e.version <= version[f]
  BY <1>1 DEF EntriesAreSound, SoundEntry
<1>3. e.stamp = version[f]  BY DEF Hit
<1> HIDE DEF e
<1>4. e.version = version[f]  BY <1>1, <1>2, <1>3
<1> QED  BY <1>4 DEF e

(* A transcript that is skipped, or listed as degraded, was seen in a state *)
(* that excuses it.                                                         *)
LEMMA OwnCell ==
    ASSUME IInv, NEW p \in Listers, NEW f \in Files, Worker(p, f)
    PROVE  CellOK(p, f)'
<1>1. TypeOK /\ EntriesAreSound /\ CellOK(p, f)  BY Cells
<1> USE <1>1 DEF TypeOK, disk, call, CellOK, SoundStamp, SoundRow, SeesState, AccountedFor
<1>2. version[f] \in Nat /\ atStart[p][f] \in Nat /\ stat[p][f] \in Nat  OBVIOUS
<1>3. CASE Lazy(p, f)  BY <1>2, <1>3 DEF Lazy
<1>4. CASE Skip(p, f)
  <2>1. task'[p][f] = "done" /\ row'[p][f].kind = "none"  BY <1>4 DEF Skip, Finish, NoRow
  <2>2. atStart[p][f] = 0 \/ "gone" \in since[p][f] \/ "locked" \in since[p][f]
    BY <1>2, <1>4 DEF Skip
  <2>3. \/ atStart[p][f] = 0
        \/ ~(since[p][f] \subseteq {"sound", "spoilt"}) /\ ~(since[p][f] \subseteq {"sound"})
    BY <2>2
  <2>4. UNCHANGED <<disk, listing, including, atStart, since>>  BY <1>4 DEF Skip
  <2> HIDE DEF SeesState
  <2>5. AccountedFor(p, f)'  BY <1>2, <2>1, <2>3, <2>4
  <2>6. SeesState(p, f)'  BY <2>1, <2>4 DEF SeesState
  <2> QED  BY <1>2, <2>1, <2>4, <2>5, <2>6
<1>5. CASE StatHit(p, f)
  <2>2. entries[p][f].version = version[f]
    BY <1>1, <1>2, <1>5, HitIsCurrent DEF StatHit
  <2>3. task'[p][f] = "done" /\ row'[p][f] = [kind |-> "full", version |-> version[f]]
    BY <1>5, <2>2 DEF StatHit, Finish
  <2> QED  BY <1>2, <1>5, <2>3 DEF StatHit
<1>6. CASE StatMiss(p, f)  BY <1>2, <1>6 DEF StatMiss
<1>7. CASE LoadFull(p, f)
  <2>1. PICK v \in stat[p][f]..version[f] : Finish(p, f, [kind |-> "full", version |-> v])
    BY <1>7 DEF LoadFull
  <2>2. task'[p][f] = "done" /\ row'[p][f] = [kind |-> "full", version |-> v]
    BY <2>1 DEF Finish
  <2> QED  BY <1>2, <1>7, <2>1, <2>2 DEF LoadFull
<1>8. CASE LoadNull(p, f)
  <2>1. task'[p][f] = "done" /\ row'[p][f].kind = "degraded"
    BY <1>8 DEF LoadNull, Finish, Degraded
  <2>2. ~(since[p][f] \subseteq {"sound"})  BY <1>8 DEF LoadNull
  <2> QED  BY <1>2, <1>8, <2>1, <2>2 DEF LoadNull
<1> QED  BY <1>3, <1>4, <1>5, <1>6, <1>7, <1>8 DEF Worker

LEMMA WorkerKeepsIInv ==
    ASSUME IInv, NEW p \in Listers, NEW f \in Files, Worker(p, f), ListerStep(p)
    PROVE  IInv'
<1>1. TypeOK'  BY TypingOfListers DEF IInv
<1>2. EntriesAreSound'  BY EntriesStaySound
<1>3. ASSUME NEW q \in Listers, NEW g \in Files PROVE CellOK(q, g)'
  <2>1. TypeOK /\ CellOK(q, g)  BY Cells
  <2>2. CASE q = p /\ g = f  BY <2>2, OwnCell
  <2>3. CASE q # p \/ g # f  BY <2>1, <2>3, OtherCells
  <2> QED  BY <2>2, <2>3
<1>4. ListedIsDone'
  <2>1. listing' = listing
    BY DEF Worker, Lazy, Skip, StatHit, StatMiss, LoadFull, LoadNull, call
  <2>2. ASSUME NEW q \in Listers, listing[q] = "listed", NEW g \in Files
        PROVE  task'[q][g] = "done"
    <3>1. task[q][g] = "done"  BY <2>2 DEF IInv, ListedIsDone, AllDone
    <3>2. q # p \/ g # f
      BY <3>1 DEF Worker, Lazy, Skip, StatHit, StatMiss, LoadFull, LoadNull
    <3>3. task'[q][g] = task[q][g]
      BY <3>2, OneCell DEF IInv, TypeOK, Worker, Lazy, Skip, StatHit, StatMiss, LoadFull,
                           LoadNull, Finish
    <3> QED  BY <3>1, <3>3
  <2> QED  BY <2>1, <2>2 DEF ListedIsDone, AllDone
<1>5. (/\ TypeOK /\ EntriesAreSound /\ ListedIsDone
       /\ \A q \in Listers, g \in Files : CellOK(q, g))'
  BY <1>1, <1>2, <1>3, <1>4
<1> QED  BY <1>5 DEF IInv, CellOK, StampsAreSound, ListsWhatWasThere, SoundRow, SeesStates,
                     Accounted

(* The steps of a command before and after its workers'. *)
LEMMA ListerKeepsIInv ==
    ASSUME IInv, NEW p \in Listers, ListerStep(p)
    PROVE  IInv'
<1>1. CASE \E f \in Files : Worker(p, f)  BY <1>1, WorkerKeepsIInv
<1>2. CASE Begin(p) \/ Save(p) \/ SaveNothing(p) \/ End(p)
  <2>1. TypeOK'  BY TypingOfListers DEF IInv
  <2>2. EntriesAreSound'  BY EntriesStaySound
  <2>3. ListedIsDone'
    <3>1. ASSUME NEW q \in Listers, listing'[q] = "listed", NEW g \in Files
          PROVE  task'[q][g] = "done"
      <4> USE DEF IInv, TypeOK, ListedIsDone, AllDone
      <4>1. CASE Begin(p)
        BY <3>1, <4>1 DEF Begin
      <4>2. CASE Save(p) \/ SaveNothing(p)
        <5>1. task' = task /\ (q # p => listing'[q] = listing[q]) /\ AllDone(p)
          BY <4>2 DEF Save, SaveNothing, Answer
        <5> QED  BY <3>1, <5>1
      <4>3. CASE End(p)  BY <3>1, <4>3 DEF End
      <4> QED  BY <1>2, <4>1, <4>2, <4>3
    <3> QED  BY <3>1 DEF ListedIsDone, AllDone
  <2>4. ASSUME NEW q \in Listers, NEW g \in Files PROVE CellOK(q, g)'
    <3>1. TypeOK /\ CellOK(q, g)  BY Cells
    <3>2. version[g] \in Nat  BY <3>1 DEF TypeOK
    <3> USE DEF CellOK, SoundStamp, SoundRow, SeesState, AccountedFor, disk
    <3>3. CASE Begin(p)
      BY <3>1, <3>2, <3>3 DEF TypeOK, Begin, NoRow
    <3>4. CASE End(p)  BY <3>1, <3>2, <3>4 DEF TypeOK, End, NoRow
    <3>5. CASE Save(p) \/ SaveNothing(p)
      <4>1. AllDone(p) /\ listing[p] = "busy"  BY <3>5 DEF Save, SaveNothing
      <4>2. PICK b \in BOOLEAN : Answer(p, b) /\ UNCHANGED <<disk, task, atStart, since>>
        BY <3>5 DEF Save, SaveNothing
      <4>3. CASE q = p
        <5>1. listing'[p] = "listed" /\ including'[p] = b
          BY <3>1, <4>2 DEF TypeOK, Answer
        <5>2. row'[p][g] = IF row[p][g].kind = "degraded" /\ ~b THEN NoRow
                           ELSE row[p][g]
          BY <3>1, <4>2 DEF TypeOK, Answer
        <5> QED  BY <3>1, <4>1, <4>2, <4>3, <5>1, <5>2 DEF TypeOK, AllDone, NoRow
      <4>4. CASE q # p
        <5>1. /\ listing'[q] = listing[q] /\ including'[q] = including[q]
              /\ row'[q] = row[q] /\ stat'[q] = stat[q]
          BY <3>1, <4>2, <4>4 DEF TypeOK, Answer
        <5> QED  BY <3>1, <4>2, <5>1
      <4> QED  BY <4>3, <4>4
    <3> QED  BY <1>2, <3>3, <3>4, <3>5
  <2>5. (/\ TypeOK /\ EntriesAreSound /\ ListedIsDone
         /\ \A q \in Listers, g \in Files : CellOK(q, g))'
    BY <2>1, <2>2, <2>3, <2>4
  <2> QED  BY <2>5 DEF IInv, CellOK, StampsAreSound, ListsWhatWasThere, SoundRow, SeesStates,
                       Accounted
<1> QED  BY <1>1, <1>2 DEF ListerStep, Worker

(* What agents and accidents do: versions and histories only grow. *)
LEMMA DiskKeepsIInv ==
    ASSUME IInv, DiskStep \/ LoseCache
    PROVE  IInv'
<1>1. TypeOK /\ TypeOK'  BY TypingOfDisk DEF IInv
<1>2. \A g \in Files : /\ version[g] \in Nat /\ version'[g] \in Nat
                       /\ version[g] <= version'[g]
  <2>1. ASSUME NEW f \in Files, Write(f), NEW g \in Files
        PROVE  /\ version[g] \in Nat /\ version'[g] \in Nat
               /\ version[g] <= version'[g]
    <3>1. version[g] \in Nat  BY <1>1 DEF TypeOK
    <3>2. version'[g] = version[g] \/ version'[g] = version[g] + 1
      BY <1>1, <2>1 DEF TypeOK, Write
    <3> QED  BY <3>1, <3>2
  <2>2. CASE version' = version  BY <1>1, <2>2 DEF TypeOK
  <2> QED  BY <2>1, <2>2 DEF DiskStep, GoBad, Mend, LoseCache, disk
<1>3. /\ UNCHANGED <<listing, including, entries, task, stat, row, atStart>>
      /\ cacheFile' = cacheFile \/ cacheFile' = Empty
  BY DEF DiskStep, Write, GoBad, Mend, LoseCache, call
<1>4. ASSUME NEW p \in Listers, NEW g \in Files
      PROVE  /\ since[p][g] \subseteq since'[p][g]
             /\ listing[p] # "busy" => since'[p][g] = since[p][g]
             /\ listing[p] = "busy" /\ state[g] \in since[p][g] => state'[g] \in since'[p][g]
  <2>1. ASSUME NEW f \in Files, NEW s, Became(f, s)
        PROVE  /\ since[p][g] \subseteq since'[p][g]
               /\ listing[p] # "busy" => since'[p][g] = since[p][g]
               /\ listing[p] = "busy" /\ state[g] \in since[p][g]
                  => state'[g] \in since'[p][g]
    <3>1. since'[p][g] = IF g = f /\ listing[p] = "busy" THEN since[p][g] \cup {s} ELSE since[p][g]
      BY <1>1, <2>1 DEF TypeOK, Became
    <3>2. state'[g] = IF g = f THEN s ELSE state[g]
      BY <1>1, <2>1 DEF TypeOK, Became
    <3> QED  BY <3>1, <3>2
  <2>2. CASE LoseCache  BY <2>2 DEF LoseCache, disk
  <2> QED  BY <2>1, <2>2 DEF DiskStep, Write, GoBad, Mend
<1>5. EntriesAreSound'
  <2>1. ASSUME NEW e \in Entry, NEW g \in Files, SoundEntry(e, g) PROVE SoundEntry(e, g)'
    <3>1. CASE e = NoEntry  BY <3>1 DEF SoundEntry
    <3>2. CASE e \in [stamp : Nat, version : Nat]
      BY <1>2, <2>1, <3>2 DEF SoundEntry
    <3> QED  BY <3>1, <3>2 DEF Entry
  <2>2. ASSUME NEW g \in Files PROVE SoundEntry(cacheFile[g], g)'
    <3>1. CASE cacheFile' = cacheFile
      BY <1>1, <2>1, <3>1 DEF IInv, TypeOK, EntriesAreSound, SoundEntry
    <3>2. CASE cacheFile' = Empty  BY <3>2 DEF Empty, SoundEntry
    <3> QED  BY <1>3, <3>1, <3>2
  <2>3. ASSUME NEW g \in Files, NEW p \in Listers PROVE SoundEntry(entries[p][g], g)'
    BY <1>1, <1>3, <2>1 DEF IInv, TypeOK, EntriesAreSound, SoundEntry
  <2> QED  BY <2>2, <2>3 DEF EntriesAreSound
<1>6. ASSUME NEW p \in Listers, NEW g \in Files PROVE CellOK(p, g)'
  <2>1. CellOK(p, g)  BY Cells
  <2>2. /\ atStart[p][g] \in Nat /\ stat[p][g] \in Nat
        /\ row[p][g] \in Row
    BY <1>1 DEF TypeOK
  <2>3. SoundStamp(p, g)' /\ SoundRow(p, g)'
    BY <1>2, <1>3, <2>1, <2>2 DEF CellOK, SoundStamp, SoundRow, Row
  <2>4. SeesState(p, g)' /\ AccountedFor(p, g)'
    BY <1>3, <1>4, <2>1 DEF CellOK, SeesState, AccountedFor
  <2> QED  BY <2>3, <2>4 DEF CellOK
<1>7. ListedIsDone'  BY <1>3 DEF IInv, ListedIsDone, AllDone
<1>8. (/\ TypeOK /\ EntriesAreSound /\ ListedIsDone
       /\ \A p \in Listers, g \in Files : CellOK(p, g))'
  BY <1>1, <1>5, <1>6, <1>7
<1> QED  BY <1>8 DEF IInv, CellOK, StampsAreSound, ListsWhatWasThere, SoundRow, SeesStates,
                     Accounted

LEMMA StutterKeepsIInv == IInv /\ UNCHANGED vars => IInv'
BY DEF IInv, TypeOK, EntriesAreSound, SoundEntry, StampsAreSound, SoundStamp,
       ListsWhatWasThere, SeesStates, SeesState, Accounted, AccountedFor, ListedIsDone,
       AllDone, vars, disk, call

(* The inductive invariant holds of the specification. *)
THEOREM IInvHolds == Spec => []IInv
<1>1. Init => IInv  BY InitIInv
<1>2. IInv /\ [Next]_vars => IInv'
  BY ListerKeepsIInv, DiskKeepsIInv, StutterKeepsIInv DEF Next
<1> QED  BY <1>1, <1>2, PTL DEF Spec

(* Every variable keeps its type. *)
THEOREM Typing == Spec => []TypeOK
<1>1. IInv => TypeOK  BY DEF IInv
<1> QED  BY <1>1, IInvHolds, PTL

(* A listing is never older than the command that made it. *)
THEOREM ListingsAreFresh == Spec => []ListsWhatWasThere
<1>1. IInv => ListsWhatWasThere  BY DEF IInv
<1> QED  BY <1>1, IInvHolds, PTL

(* No transcript that could be read vanishes from a finished listing, and *)
(* a degraded row is in it if and only if it was asked for.               *)
THEOREM ListingsAreComplete == Spec => []NothingVanishes
<1>1. IInv => NothingVanishes
  <2> SUFFICES ASSUME IInv, NEW p \in Listers, NEW f \in Files,
                      listing[p] = "listed", atStart[p][f] > 0
               PROVE  /\ since[p][f] \subseteq {"sound"} => row[p][f].kind = "full"
                      /\ including[p] /\ since[p][f] \subseteq {"sound", "spoilt"} =>
                             row[p][f].kind # "none"
                      /\ ~including[p] => row[p][f].kind # "degraded"
    BY DEF NothingVanishes
  <2>1. task[p][f] = "done"  BY DEF IInv, ListedIsDone, AllDone
  <2> QED  BY <2>1 DEF IInv, Accounted, AccountedFor
<1> QED  BY <1>1, IInvHolds, PTL

(* A finished listing is neither stale nor short of a session.             *)
THEOREM ListingsAreRight == Spec => []ListingIsRight
  BY ListingsAreFresh, ListingsAreComplete, PTL DEF ListingIsRight
================================================================================
