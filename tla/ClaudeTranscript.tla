---------------------------- MODULE ClaudeTranscript ----------------------------
(***************************************************************************)
(* Claude Code's transcripts (src/parse/claudeCode.ts).  Several records    *)
(* may belong to one response: they repeat its id, its tool calls, and a    *)
(* usage of which only the last is final.  A forked session begins with     *)
(* records of its parent, up to a marker.  Records of other tools may come  *)
(* without an id, or with a usage that makes no sense.                      *)
(***************************************************************************)
EXTENDS Transcript

CONSTANT ClaudeStart \* usages of a response's first record

ClaudeNothing ==
    [turns |-> <<>>, anonValid |-> None, anonBad |-> None, dropped |-> FALSE, torn |-> FALSE,
     calls |-> NoCalls, compactions |-> {}]

(* `compacted`: after how many responses, and turns, a compaction came. *)
ClaudeInit ==
    /\ agent = "claude-code"
    /\ parser = ClaudeNothing
    /\ truth = NothingHappened @@ [responses |-> 0, compacted |-> <<-1, 0>>, forked |-> FALSE]

-----------------------------------------------------------------------------
(* tokenField: a field that is absent is 0, and so is one that is no count. *)
BadField == -1
Count(x) == IF x = None THEN 0 ELSE IF x = BadField THEN 0 ELSE x
IsBad(x) == IF x = None THEN FALSE ELSE x = BadField

(* The raw usage object; `five` and `hour` break the cache writes down.    *)
RawClaude(u) ==
    [input |-> u.input, output |-> u.output, cacheRead |-> u.cacheRead,
     flat |-> u.cacheCreation, five |-> u.cacheCreation, hour |-> 0]

(* mapUsage: what is valid in a usage stays visible, but one bad field, or *)
(* a breakdown larger than its total, makes it malformed.                  *)
mapClaudeUsage(raw) ==
    LET split == Count(raw.five) + Count(raw.hour)
        writes == IF raw.flat # None /\ ~IsBad(raw.flat) THEN raw.flat ELSE split
        u == Usage(Count(raw.input), Count(raw.output), Count(raw.cacheRead), writes)
    IN  IF Total(u) > MaxSafe THEN [usage |-> emptyUsage, malformed |-> TRUE]
        ELSE [usage |-> u,
              malformed |-> split > writes \/ \E f \in DOMAIN raw : IsBad(raw[f])]

(* The snapshot with the highest output, and the later one of two equals. *)
mergeUsageSnapshot(current, next) ==
    IF current = None THEN next
    ELSE IF next = None THEN current
    ELSE IF next.output >= current.output THEN next ELSE current

-----------------------------------------------------------------------------
TurnOf(p, id) == {i \in DOMAIN p.turns : p.turns[i].id = id}

NewTurn(id, model) ==
    [id |-> id, model |-> model, usage |-> None, valid |-> FALSE, bad |-> None, stopped |-> FALSE]

(* The turn takes the record's usage.  A malformed one is shown until a    *)
(* valid one comes, and stops pricing.                                     *)
WithUsage(t, mapped) ==
    LET bad == mergeUsageSnapshot(t.bad, mapped.usage)
    IN  IF mapped.malformed
        THEN IF t.valid THEN [t EXCEPT !.bad = bad]
             ELSE [t EXCEPT !.bad = bad, !.usage = bad, !.stopped = TRUE]
        ELSE [t EXCEPT !.usage = IF t.valid THEN mergeUsageSnapshot(@, mapped.usage)
                                 ELSE mapped.usage,
                       !.valid = TRUE, !.stopped = FALSE]

(* Without an id there is no telling a repetition from a request: one      *)
(* snapshot is kept, and no turn has it.                                   *)
Anonymous(p, raw) ==
    LET mapped == mapClaudeUsage(raw)
        q == [p EXCEPT !.turns = Append(@, NewTurn(None, None)), !.dropped = @ \/ mapped.malformed]
    IN  IF mapped.malformed
        THEN [q EXCEPT !.anonBad = mergeUsageSnapshot(@, mapped.usage)]
        ELSE [q EXCEPT !.anonValid = mergeUsageSnapshot(@, mapped.usage)]

(* Mutation: each record is a turn. *)
Assistant_EachRecord(p, id, model, raw, tools) ==
    LET mapped == mapClaudeUsage(raw)
        n == Len(p.turns) + 1
    IN  [p EXCEPT !.turns = Append(@, WithUsage(NewTurn(id, model), mapped)),
                  !.dropped = @ \/ mapped.malformed,
                  !.calls = @ @@ [t \in tools |-> "running"]]

(* An assistant record: its response's turn, found by the id, takes the    *)
(* usage, and its tool calls join those known already.                     *)
Assistant(p, id, model, raw, tools) ==
    LET mapped == mapClaudeUsage(raw)
        q == IF TurnOf(p, id) # {} THEN p
             ELSE [p EXCEPT !.turns = Append(@, NewTurn(id, model))]
        i == CHOOSE j \in TurnOf(q, id) : TRUE
    IN  [q EXCEPT !.turns[i] = WithUsage(@, mapped),
                  !.dropped = @ \/ mapped.malformed,
                  !.calls = @ @@ [t \in tools |-> "running"]]

(* A tool's result settles the call it names. *)
ToolResult(p, t, status) ==
    IF t \in DOMAIN p.calls THEN [p EXCEPT !.calls[t] = status] ELSE p

(* A compaction is known by the turn it precedes. *)
CompactSummary(p) == [p EXCEPT !.compactions = @ \cup {Len(p.turns)}]

(* Mutation: the marker leaves the parent's turns. *)
ForkContextRef_KeepsTurns(p) == [ClaudeNothing EXCEPT !.turns = p.turns]

(* Everything before the marker is the parent's, but for torn lines. *)
ForkContextRef(p) == [ClaudeNothing EXCEPT !.torn = p.torn]

ClaudeSession(p) ==
    LET turns == [i \in DOMAIN p.turns |-> p.turns[i].usage]
        priced == SelectSeq(p.turns, LAMBDA t : t.usage # None /\ ~t.stopped)
        anonymous == IF p.anonValid # None THEN p.anonValid
                     ELSE IF p.anonBad # None THEN p.anonBad ELSE emptyUsage
    IN  Session(addUsage(itemized(turns), anonymous), turns,
                [i \in DOMAIN priced |-> Unit(priced[i].usage, priced[i].model)],
                IF Total(anonymous) > 0 THEN anonymous ELSE None,
                p.calls, Cardinality(p.compactions), p.dropped \/ p.torn, FALSE)

-----------------------------------------------------------------------------
(* What a usage may look like when it is not what it should be. *)
Garbled(raw) ==
    {[raw EXCEPT !.output = BadField], [raw EXCEPT !.hour = @ + 1],
     [f \in DOMAIN raw |-> BadField]}

(* A response begins, or goes on with at least as much output as before. *)
Responded(t, i, m, u) ==
    [t EXCEPT !.reported = IF i > Len(@) THEN Append(@, {Unit(u, m)})
                           ELSE [@ EXCEPT ![i] = @ \cup {Unit(u, m)}],
              !.used = IF i > Len(@) THEN Append(@, u) ELSE [@ EXCEPT ![i] = u],
              !.responses = IF i > Len(t.used) THEN @ + 1 ELSE @]

NextUsages(i) ==
    IF i > Len(truth.used) THEN ClaudeStart
    ELSE {truth.used[i], [truth.used[i] EXCEPT !.output = @ + 1]}

Responses == 1..Len(truth.used) + 1

AssistantRecord(i, m, u, tools) ==
    /\ truth' = Wrote([Responded(truth, i, m, u) EXCEPT !.tools = @ \cup tools])
    /\ parser' = Assistant(parser, i, m, RawClaude(u), tools)

(* The record's usage is garbled, or the whole line is. *)
AssistantGarbled(i, m, u) ==
    /\ truth' = Faulty(Responded(truth, i, m, u))
    /\ \/ \E raw \in Garbled(RawClaude(u)) : parser' = Assistant(parser, i, m, raw, {})
       \/ parser' = [parser EXCEPT !.torn = TRUE]

(* A record without an id, of a new response or one that had another. *)
AnonymousRecord(i, m, u) ==
    /\ i >= Len(truth.used)
    /\ truth' = [Faulty(Responded(truth, i, m, u)) EXCEPT !.responses = truth.responses + 1,
                                                          !.silent = TRUE]
    /\ \E raw \in {RawClaude(u)} \cup Garbled(RawClaude(u)) : parser' = Anonymous(parser, raw)

ToolResultRecord(t, status) ==
    /\ t \in truth.tools /\ parser.calls[t] = "running"
    /\ truth' = Wrote(truth)
    /\ parser' = ToolResult(parser, t, status)

(* One compaction between two responses; it may leave two records. *)
CompactRecord ==
    LET here == <<truth.responses, Len(parser.turns)>>
        again == truth.compacted = here
    IN  /\ again \/ truth.compacted[1] # truth.responses
        /\ truth' = Wrote([truth EXCEPT !.compacted = here,
                                        !.compactions = IF again THEN @ ELSE @ + 1])
        /\ parser' = CompactSummary(parser)

(* Up to here all was the parent's. *)
ForkRecord ==
    /\ ~truth.forked
    /\ truth' = [NothingHappened @@ [responses |-> 0, compacted |-> <<-1, 0>>,
                 forked |-> TRUE] EXCEPT !.records = truth.records + 1]
    /\ parser' = ForkContextRef(parser)

ClaudeNext ==
    /\ agent = "claude-code" /\ MayWrite
    /\ \/ \E i \in Responses, m \in Models : \E u \in NextUsages(i) :
              \/ \E tools \in SUBSET Tools : AssistantRecord(i, m, u, tools)
              \/ AssistantGarbled(i, m, u) \/ AnonymousRecord(i, m, u)
       \/ \E t \in Tools, s \in {"ok", "error"} : ToolResultRecord(t, s)
       \/ CompactRecord
       \/ ForkRecord
    /\ UNCHANGED agent
================================================================================
