------------------------------- MODULE Transcript -------------------------------
(***************************************************************************)
(* What the adapters of src/parse share: token usage vectors with their    *)
(* arithmetic (src/parse/util.ts), and the picture each of them gives of   *)
(* one session.  An agent makes model requests, calls tools, and writes    *)
(* records about them; an adapter folds over the records written so far,   *)
(* since it may be run at any time, and ends with a session.               *)
(*                                                                         *)
(* `truth` is what the agent did, which no adapter sees: for each request  *)
(* made in this session, every usage the agent truthfully reported for it. *)
(***************************************************************************)
EXTENDS Integers, Sequences, FiniteSets, TLC

CONSTANTS
    None,        \* no value
    Models,      \* model names
    Tools,       \* ids of tool calls
    MaxSafe,     \* Number.MAX_SAFE_INTEGER
    MaxRecords   \* bound: records of a transcript, by agent

Agents == {"codex", "claude-code", "opencode", "gemini", "cursor"}

ASSUME TranscriptAssumption == MaxSafe \in Nat /\ MaxRecords \in [Agents -> Nat]

VARIABLES
    agent,   \* which agent's transcript this is
    parser,  \* what its adapter holds after the records written so far
    truth    \* what really happened

vars == <<agent, parser, truth>>

-----------------------------------------------------------------------------
Usage(i, o, r, c) == [input |-> i, output |-> o, cacheRead |-> r, cacheCreation |-> c]
emptyUsage == Usage(0, 0, 0, 0)
Axes == DOMAIN emptyUsage

(* withTotal: the total is recomputed from the components. *)
Total(u) == u.input + u.output + u.cacheRead + u.cacheCreation

addUsage(a, b) == [x \in Axes |-> a[x] + b[x]]
SumUsage(us) ==
    LET sum[i \in 0..Len(us)] == IF i = 0 THEN emptyUsage ELSE addUsage(sum[i - 1], us[i])
    IN  sum[Len(us)]

(* Component-wise subtraction that never goes below zero. *)
subtractUsage(a, b) == [x \in Axes |-> IF a[x] >= b[x] THEN a[x] - b[x] ELSE 0]
componentwiseDominates(a, b) == \A x \in Axes : a[x] >= b[x]

(* safeTokenSum: no sum beyond what a JS number holds exactly. *)
safeAddUsage(a, b) == IF Total(addUsage(a, b)) > MaxSafe THEN None ELSE addUsage(a, b)

(* A session as receipts see it: the usage of each turn (None: no usage),  *)
(* the requests that get a price, each with the model it is priced as, the *)
(* tokens that no turn accounts for, whether the receipt is told that      *)
(* something of the transcript could not be read or does not add up, and   *)
(* whether anything was `flagged` that only the telemetry hears of: the    *)
(* shape of a failure, of which no receipt has a word (types.ts:225).      *)
Session(total, turns, units, unattributed, calls, compactions, told, flagged) ==
    [total |-> total, turns |-> turns, units |-> units, unattributed |-> unattributed,
     calls |-> calls, compactions |-> compactions, told |-> told, flagged |-> flagged]
NoCalls == [t \in {} |-> "running"]

(* The most that a request was ever reported to have used of `x`. *)
Most(reported, x) ==
    IF reported = {} THEN 0
    ELSE (CHOOSE r \in reported : \A q \in reported : r.usage[x] >= q.usage[x]).usage[x]

Unit(u, m) == [usage |-> u, model |-> m]
itemized(turns) == SumUsage([i \in DOMAIN turns |-> IF turns[i] = None THEN emptyUsage
                                                    ELSE turns[i]])

(* All elements of the sequences, in order. *)
Concat(ss) ==
    LET cat[i \in 0..Len(ss)] == IF i = 0 THEN <<>> ELSE cat[i - 1] \o ss[i]
    IN  cat[Len(ss)]

-----------------------------------------------------------------------------
(* Nothing happened yet.  `reported` has an entry per request, `used` what *)
(* it has really cost so far (None: taken back); `clean` until something   *)
(* goes wrong, `faulty` while the last record is what went wrong, `silent` *)
(* once no record tells of it, `unsaid` once something was garbled of      *)
(* which an adapter by its design says nothing on the receipt.             *)
NothingHappened ==
    [reported |-> <<>>, used |-> <<>>, tools |-> {}, compactions |-> 0,
     records |-> 0, clean |-> TRUE, faulty |-> FALSE, silent |-> FALSE, unsaid |-> FALSE]

Requests == DOMAIN truth.reported
MayWrite == truth.records < MaxRecords[agent]
Wrote(t) == [t EXCEPT !.records = @ + 1, !.faulty = FALSE]
Live(used) == {i \in DOMAIN used : used[i] # None}
Faulty(t) == [t EXCEPT !.records = @ + 1, !.faulty = TRUE, !.clean = FALSE]
Unsaid(t) == [Faulty(t) EXCEPT !.unsaid = TRUE]
================================================================================
