----------------------------- MODULE CodexTranscript -----------------------------
(***************************************************************************)
(* Codex rollouts (src/parse/codex.ts).  Newer ones carry, after a request, *)
(* a snapshot of a cumulative counter with the usage of the last request;   *)
(* a resumed rollout inherits the counter, a snapshot may be written again, *)
(* the counter may start over, and records get lost or garbled.  Older ones *)
(* carry the usage of each message.  The adapter prices requests only when  *)
(* all the snapshots prove where one request ends and the next begins.      *)
(***************************************************************************)
EXTENDS Transcript

CONSTANTS
    CodexRequests,  \* usages a request may have
    CodexInherited  \* what a rollout may inherit from its parent

CodexNothing ==
    [cumulative |-> None, baseline |-> emptyUsage, envelope |-> emptyUsage,
     perTurn |-> emptyUsage, sawLegacy |-> FALSE, valid |-> TRUE, dropped |-> FALSE,
     turns |-> <<>>, open |-> FALSE, model |-> None,
     calls |-> NoCalls, compactions |-> <<>>]

(* The agent: its counter, its last request, its model, and which of the   *)
(* two compaction records it writes; `marker` is owed after the first.     *)
CodexInit ==
    /\ agent = "codex"
    /\ parser = CodexNothing
    /\ \E counter \in CodexInherited, forms \in {"both", "compacted"} :
           truth = NothingHappened @@
               [counter |-> counter, last |-> None, model |-> None, forms |-> forms,
                owed |-> 0, inherited |-> counter]

-----------------------------------------------------------------------------
(* The raw usage object: cached tokens are a part of the input, reasoning  *)
(* a part of the output, and the total is there to check.                  *)
Raw(u) == [input_tokens |-> u.input + u.cacheRead, cached_input_tokens |-> u.cacheRead,
           output_tokens |-> u.output, reasoning_output_tokens |-> 0,
           total_tokens |-> Total(u)]

(* mapUsage: garbled or contradictory usage is no usage. *)
Coherent(raw) ==
    LET u == Usage(raw.input_tokens - raw.cached_input_tokens, raw.output_tokens,
                   raw.cached_input_tokens, 0)
    IN  IF /\ \A f \in DOMAIN raw : raw[f] >= 0
           /\ raw.cached_input_tokens <= raw.input_tokens
           /\ raw.reasoning_output_tokens <= raw.output_tokens
           /\ Total(u) <= MaxSafe
           /\ raw.total_tokens = Total(u)
        THEN u ELSE None

mapCodexUsage(raw) == IF raw = None THEN None ELSE Coherent(raw)
malformedUsage(raw) == raw # None /\ Coherent(raw) = None

maxObservedUsage(a, b) == IF Total(b) > Total(a) THEN b ELSE a
Positive(u) == u # None /\ Total(u) > 0

-----------------------------------------------------------------------------
ensureTurn(p) ==
    IF p.open THEN p
    ELSE [p EXCEPT !.turns = Append(@, <<>>), !.open = TRUE]

UsageOf(units) == SumUsage([i \in DOMAIN units |-> units[i].usage])

(* A request's usage is billed to the open turn, unless the sum is inexact. *)
Bill(p, u) ==
    LET q == ensureTurn(p)
        i == Len(q.turns)
    IN  IF safeAddUsage(UsageOf(q.turns[i]), u) = None
        THEN [q EXCEPT !.valid = FALSE]
        ELSE [q EXCEPT !.turns[i] = Append(@, Unit(u, q.model))]

(* A cumulative snapshot.  The first needs the last request to tell what   *)
(* was inherited; each later change must be exactly the last request.      *)
Snapshot(p, total, last) ==
    LET first == p.cumulative = None
        changed == first \/ total # p.cumulative
        base == IF ~first THEN p.baseline
                ELSE IF Positive(last) THEN subtractUsage(total, last) ELSE emptyUsage
        delta == IF first THEN last ELSE subtractUsage(total, p.cumulative)
        proven == /\ first => ~p.sawLegacy /\ Positive(last)
                              /\ componentwiseDominates(total, last)
                  /\ ~first /\ changed => /\ componentwiseDominates(total, p.cumulative)
                                          /\ Positive(last) /\ delta = last
        q == [p EXCEPT !.cumulative = total, !.baseline = base, !.valid = @ /\ proven,
                       !.envelope = maxObservedUsage(@, subtractUsage(total, base))]
    IN  IF changed /\ Positive(delta) THEN Bill(q, delta) ELSE q

(* A token_count record: either of its two usages may be absent or bad. *)
TokenCount(p, rawTotal, rawLast) ==
    LET total == mapCodexUsage(rawTotal)
        last == mapCodexUsage(rawLast)
        ambiguous == \/ malformedUsage(rawTotal) \/ malformedUsage(rawLast)
                     \/ rawLast # None /\ (total = None \/ (Total(total) = 0 /\ Positive(last)))
        q == [p EXCEPT !.valid = @ /\ ~ambiguous,
                       !.envelope = IF Positive(last) THEN maxObservedUsage(@, last) ELSE @]
    IN  IF Positive(total) THEN Snapshot(q, total, last) ELSE q

(* A message with a usage of its own counts until a snapshot was seen. *)
LegacyUsage(p, raw) ==
    LET u == mapCodexUsage(raw)
        q == [p EXCEPT !.sawLegacy = TRUE, !.envelope = maxObservedUsage(@, u)]
        sum == safeAddUsage(p.perTurn, u)
    IN  IF p.cumulative # None THEN p
        ELSE IF ~Positive(u) THEN [p EXCEPT !.valid = @ /\ ~malformedUsage(raw)]
        ELSE IF sum = None THEN [ensureTurn(q) EXCEPT !.valid = FALSE]
        ELSE [Bill(q, u) EXCEPT !.perTurn = sum]

(* Near in time: the same event, or a record without a timestamp. *)
Near(a, b) == a = None \/ b = None \/ a = b

(* The two forms of one event merge; equal forms never do. *)
Compaction(p, form, at) ==
    LET n == Len(p.compactions)
        pairs == /\ n > 0
                 /\ ~p.compactions[n].paired /\ p.compactions[n].form # form
                 /\ p.compactions[n].turn = Len(p.turns)
                 /\ Near(p.compactions[n].at, at)
    IN  IF pairs
        THEN [p EXCEPT !.compactions[n].paired = TRUE,
                       !.compactions[n].at = IF @ = None THEN at ELSE @]
        ELSE [p EXCEPT !.compactions = Append(@, [turn |-> Len(p.turns), form |-> form,
                                                  paired |-> FALSE, at |-> at])]

-----------------------------------------------------------------------------
(* Mutation: the last cumulative usage is the total, failed or not. *)
CodexSession_NoEnvelope(p) ==
    LET reconciled == IF p.cumulative = None THEN p.perTurn
                      ELSE subtractUsage(p.cumulative, p.baseline)
        units == Concat(p.turns)
        failed == p.dropped \/ ~p.valid \/ UsageOf(units) # reconciled
    IN  Session(reconciled, [i \in DOMAIN p.turns |-> IF failed THEN None ELSE UsageOf(p.turns[i])],
                IF failed THEN <<>> ELSE units,
                IF failed /\ Total(reconciled) > 0 THEN reconciled ELSE None,
                p.calls, Len(p.compactions), failed, FALSE)

(* The end of the file.  Unless every record is accounted for, no request  *)
(* gets a price, and the largest usage observed is kept once.              *)
CodexSession(p) ==
    LET reconciled == IF p.cumulative = None THEN p.perTurn
                      ELSE subtractUsage(p.cumulative, p.baseline)
        units == Concat(p.turns)
        summed == UsageOf(units)
        failed == p.dropped \/ Total(summed) > MaxSafe \/ ~p.valid \/ summed # reconciled
        total == IF failed THEN maxObservedUsage(reconciled, p.envelope) ELSE reconciled
        turns == [i \in DOMAIN p.turns |->
                      IF failed \/ p.turns[i] = <<>> THEN None ELSE UsageOf(p.turns[i])]
    IN  Session(total, turns, IF failed THEN <<>> ELSE units,
                IF failed /\ Total(total) > 0 THEN total ELSE None,
                p.calls, Len(p.compactions), failed, FALSE)

-----------------------------------------------------------------------------
(* A request was made: the counter moves whether a record tells or not,    *)
(* and is of no use once it is beyond exact numbers.                       *)
Requested(t, u) ==
    [t EXCEPT !.reported = Append(@, {Unit(u, t.model)}), !.used = Append(@, u),
              !.counter = addUsage(@, u), !.last = u,
              !.clean = @ /\ Total(t.counter) + Total(u) <= MaxSafe]

RequestRecorded(u) ==
    /\ truth.last = None \/ parser.cumulative # None
    /\ truth' = Wrote(Requested(truth, u))
    /\ parser' = TokenCount(parser, Raw(truth'.counter), Raw(u))

(* The same snapshot is written again, with the last request's usage. *)
SnapshotRepeated ==
    /\ parser.cumulative = truth.counter
    /\ truth' = Wrote(truth)
    /\ parser' = TokenCount(parser, Raw(truth.counter), Raw(truth.last))

(* An older Codex: the message carries its request's usage. *)
LegacyMessage(u) ==
    /\ parser.cumulative = None
    /\ truth' = Wrote(Requested(truth, u))
    /\ parser' = LegacyUsage(ensureTurn(parser), Raw(u))

(* A request whose record says too little, or something wrong, or is half  *)
(* a line.  The usage of an older request may be in any record but the     *)
(* first, whose witness of what was inherited is the only one.             *)
RequestGarbled(u) ==
    /\ truth' = Faulty(Requested(truth, u))
    /\ LET total == Raw(truth'.counter)
           stale == IF parser.cumulative = None THEN None ELSE Raw(truth.last)
           bad == [Raw(u) EXCEPT !.total_tokens = @ + 1]
       IN  \/ \E last \in {None, stale, bad} : parser' = TokenCount(parser, total, last)
           \/ \E tot \in {None, Raw(emptyUsage), bad} : parser' = TokenCount(parser, tot, Raw(u))
           \/ parser' = [parser EXCEPT !.dropped = TRUE]

RequestUnrecorded(u) ==
    /\ truth' = [Faulty(Requested(truth, u)) EXCEPT !.silent = TRUE]
    /\ UNCHANGED parser

(* The counter starts over: the snapshot is the request alone, and may     *)
(* look like the last one written again.                                   *)
CounterRestarts(u) ==
    /\ truth' = [Faulty(Requested(truth, u)) EXCEPT !.counter = u,
                                                    !.silent = @ \/ u = parser.cumulative]
    /\ parser' = TokenCount(parser, Raw(u), Raw(u))

(* After legacy messages the agent is upgraded and goes on with snapshots. *)
Upgraded(u) ==
    /\ parser.sawLegacy /\ parser.cumulative = None
    /\ truth' = Faulty(Requested(truth, u))
    /\ parser' = TokenCount(parser, Raw(truth'.counter), Raw(u))

UserMessage ==
    /\ parser.open
    /\ truth' = Wrote(truth)
    /\ parser' = [parser EXCEPT !.open = FALSE]

TurnContext(m) ==
    /\ truth.model # m
    /\ truth' = Wrote([truth EXCEPT !.model = m])
    /\ parser' = [parser EXCEPT !.model = m]

FunctionCall(id) ==
    /\ id \notin truth.tools
    /\ truth' = Wrote([truth EXCEPT !.tools = @ \cup {id}])
    /\ parser' = [ensureTurn(parser) EXCEPT !.calls = @ @@ (id :> "running")]

FunctionCallOutput(id, status) ==
    /\ id \in truth.tools /\ parser.calls[id] = "running"
    /\ truth' = Wrote(truth)
    /\ parser' = [parser EXCEPT !.calls[id] = status]

Compacted(at) ==
    /\ truth.owed = 0
    /\ truth' = Wrote([truth EXCEPT !.compactions = @ + 1,
                                    !.owed = IF truth.forms = "both" THEN Len(parser.turns) + 1
                                             ELSE 0])
    /\ parser' = Compaction(parser, "compacted", at)

(* The marker follows before the next turn begins. *)
ContextCompacted(at) ==
    /\ truth.owed = Len(parser.turns) + 1
    /\ truth' = Wrote([truth EXCEPT !.owed = 0])
    /\ parser' = Compaction(parser, "context_compacted", at)

CodexNext ==
    /\ agent = "codex" /\ MayWrite
    /\ \/ \E u \in CodexRequests :
              \/ RequestRecorded(u) \/ LegacyMessage(u) \/ RequestGarbled(u)
              \/ RequestUnrecorded(u) \/ CounterRestarts(u) \/ Upgraded(u)
       \/ SnapshotRepeated
       \/ UserMessage
       \/ \E m \in Models : TurnContext(m)
       \/ \E id \in Tools :
              FunctionCall(id) \/ \E s \in {"ok", "error"} : FunctionCallOutput(id, s)
       \/ \E at \in {None, truth.compactions + 1} : Compacted(at)
       \/ \E at \in {None, truth.compactions} : ContextCompacted(at)
    /\ UNCHANGED agent
================================================================================
