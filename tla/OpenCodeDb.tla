------------------------------- MODULE OpenCodeDb -------------------------------
(***************************************************************************)
(* opencode's database (src/parse/opencode.ts).  A session has a row with   *)
(* aggregated columns, and a row per message, which the agent writes when   *)
(* the request begins and again when it is finished.  The adapter reads a   *)
(* live database with a query for the session, one for the messages and,    *)
(* in the legacy schema, one for the tool calls, and without a transaction: *)
(* the agent goes on writing between them.                                  *)
(***************************************************************************)
EXTENDS Transcript

CONSTANT OpenCodeRequests \* usages a request may have

NoSession == Session(emptyUsage, <<>>, <<>>, None, NoCalls, 0, FALSE, FALSE)

(* `moments`: what the agent had done at each moment since the reading     *)
(* began, or, of the last finished reading, `during` it.                   *)
OpenCodeInit ==
    /\ agent = "opencode"
    /\ parser = [stage |-> "idle", row |-> None, messages |-> <<>>, session |-> NoSession]
    /\ \E schema \in {"current", "legacy"} :
           truth = NothingHappened @@
               [schema |-> schema, rows |-> <<>>, columns |-> emptyUsage, calls |-> [t \in {} |-> None],
                moments |-> {}, during |-> {<<>>}, began |-> {}, before |-> {}]

-----------------------------------------------------------------------------
(* The token object of a message: reasoning is apart from the output. *)
RawOpenCode(u) ==
    [input |-> u.input, output |-> u.output \div 2, reasoning |-> u.output - u.output \div 2,
     read |-> u.cacheRead, write |-> u.cacheCreation]

BadTokens == -1
Tokens(x) == IF x < 0 THEN 0 ELSE x

(* Reasoning is billed as output; what is no count is 0. *)
projected(raw) ==
    Usage(Tokens(raw.input), Tokens(raw.output) + Tokens(raw.reasoning),
          Tokens(raw.read), Tokens(raw.write))

(* mapTokens, usageProjection: valid buckets are kept, but one bad one, or *)
(* a sum that is inexact, makes the usage malformed.                       *)
MapTokens(raw) ==
    LET u == projected(raw)
        exact == Total(u) <= MaxSafe
    IN  [usage |-> IF exact THEN u ELSE emptyUsage,
         malformed |-> ~exact \/ \E f \in DOMAIN raw : raw[f] < 0]

(* usageFromSessionColumns: the larger of the columns and the sum over the *)
(* message rows; a malformed one is left out as a whole.                   *)
Envelope(row, trustMessages) ==
    LET columns == IF row.columns = None THEN emptyUsage ELSE row.columns
        messages == MapTokens(row.messages)
    IN  IF trustMessages /\ ~messages.malformed /\ Total(messages.usage) > Total(columns)
        THEN messages.usage ELSE columns

(* reconcileAggregateResidual: what the envelope has more is unattributed, *)
(* provided it has more of everything.                                     *)
Reconciled(items, envelope) ==
    LET residual == subtractUsage(envelope, items)
    IN  IF Total(residual) = 0
        THEN [total |-> items, unattributed |-> None, conflict |-> FALSE]
        ELSE IF componentwiseDominates(envelope, items)
        THEN [total |-> envelope, unattributed |-> residual, conflict |-> FALSE]
        ELSE [total |-> items, unattributed |-> None, conflict |-> TRUE]

-----------------------------------------------------------------------------
Whole(rows) == SelectSeq(rows, LAMBDA r : ~r.torn)

(* What SQL sums: the tokens of the rows that are JSON. *)
SumRaw(rows) ==
    [f \in DOMAIN RawOpenCode(emptyUsage) |->
        LET sum[i \in 0..Len(rows)] == IF i = 0 THEN 0 ELSE sum[i - 1] + rows[i].raw[f]
        IN  sum[Len(rows)]]

(* The end of a load: a turn for each message read, its calls with it. *)
Loaded(row, all, calls) ==
    LET messages == Whole(all)
        mapped == [i \in DOMAIN messages |-> MapTokens(messages[i].raw)]
        turns == [i \in DOMAIN messages |-> mapped[i].usage]
        good == {i \in DOMAIN messages : ~mapped[i].malformed}
        sound == SelectSeq(messages, LAMBDA m : ~MapTokens(m.raw).malformed)
        malformed == good # DOMAIN messages
        r == Reconciled(itemized(turns), Envelope(row, ~malformed))
        ids == {messages[i].id : i \in DOMAIN messages}
        mine == {t \in DOMAIN calls : calls[t].row \in ids}
    IN  Session(r.total, turns,
                [i \in DOMAIN sound |-> Unit(MapTokens(sound[i].raw).usage, sound[i].model)],
                r.unattributed, [t \in mine |-> calls[t].status], 0,
                malformed \/ messages # all \/ row.columns = None \/ r.conflict,
                FALSE)

(* The session's row with both aggregates, in one query. *)
ReadSummary ==
    /\ parser.stage = "idle"
    /\ parser' = [parser EXCEPT !.stage = "messages",
                                !.row = [columns |-> truth.columns, messages |-> SumRaw(Whole(truth.rows))]]
    /\ truth' = [truth EXCEPT !.moments = {truth.used}, !.began = truth.tools]

Finished(session) ==
    /\ parser' = [parser EXCEPT !.stage = "idle", !.row = None, !.messages = <<>>,
                                !.session = session]
    /\ truth' = [truth EXCEPT !.during = truth.moments, !.before = truth.began,
                              !.moments = {}, !.began = {}]

(* The message rows; the current schema has the tool calls in them. *)
ReadMessages ==
    /\ parser.stage = "messages"
    /\ IF truth.schema = "current"
       THEN Finished(Loaded(parser.row, truth.rows, truth.calls))
       ELSE /\ parser' = [parser EXCEPT !.stage = "parts", !.messages = truth.rows]
            /\ UNCHANGED truth

(* The tool calls of the legacy schema. *)
ReadParts ==
    /\ parser.stage = "parts"
    /\ Finished(Loaded(parser.row, parser.messages, truth.calls))

OpenCodeSession(p) == p.session

-----------------------------------------------------------------------------
(* What the agent does is a moment of the reading in progress. *)
Did(t) == IF parser.stage = "idle" THEN t ELSE [t EXCEPT !.moments = @ \cup {t.used}]

(* A request begins: its row says nothing was used yet. *)
MessageInserted(m) ==
    /\ truth' = Did([Wrote(truth) EXCEPT
            !.reported = Append(@, {Unit(emptyUsage, m)}), !.used = Append(@, emptyUsage),
            !.rows = Append(@, [id |-> Len(truth.used) + 1, raw |-> RawOpenCode(emptyUsage),
                                model |-> m, torn |-> FALSE])])
    /\ UNCHANGED parser

Rows(id) == {i \in DOMAIN truth.rows : truth.rows[i].id = id}

(* It ends: its row is written again. *)
MessageFinished(id, u) ==
    /\ Rows(id) # {} /\ truth.used[id] = emptyUsage
    /\ LET i == CHOOSE j \in Rows(id) : TRUE
       IN  truth' = Did([Wrote(truth) EXCEPT
               !.reported[id] = @ \cup {Unit(u, truth.rows[i].model)}, !.used[id] = u,
               !.rows[i] = [@ EXCEPT !.raw = RawOpenCode(u), !.torn = FALSE]])
    /\ UNCHANGED parser

(* A row is garbled: a bucket is no count, or the row is torn. *)
MessageGarbled(id) ==
    /\ \E i \in Rows(id) :
           \/ truth' = Did([Faulty(truth) EXCEPT !.rows[i].torn = TRUE])
           \/ truth' = Did([Faulty(truth) EXCEPT !.rows[i].raw.output = BadTokens])
    /\ UNCHANGED parser

(* The aggregate follows, or is no count. *)
ColumnsUpdated ==
    /\ truth' = Did([Wrote(truth) EXCEPT !.columns = SumUsage(truth.used)])
    /\ truth'.columns # truth.columns
    /\ UNCHANGED parser
ColumnsGarbled ==
    /\ truth.columns # None
    /\ truth' = Did([Faulty(truth) EXCEPT !.columns = None])
    /\ UNCHANGED parser

(* The user takes the last message back. *)
MessageReverted ==
    /\ truth.rows # <<>>
    /\ truth' = Did([Faulty(truth) EXCEPT !.rows = SubSeq(@, 1, Len(@) - 1), !.silent = TRUE])
    /\ UNCHANGED parser

ToolPart(t, id) ==
    /\ Rows(id) # {} /\ t \notin truth.tools
    /\ truth' = Did([Wrote(truth) EXCEPT !.tools = @ \cup {t},
                     !.calls = @ @@ (t :> [row |-> id, status |-> "running"])])
    /\ UNCHANGED parser
ToolPartDone(t, status) ==
    /\ t \in truth.tools /\ truth.calls[t].status = "running"
    /\ truth' = Did([Wrote(truth) EXCEPT !.calls[t].status = status])
    /\ UNCHANGED parser

OpenCodeWrites ==
    \/ \E m \in Models : MessageInserted(m)
    \/ \E id \in Requests :
           \/ \E u \in OpenCodeRequests : MessageFinished(id, u)
           \/ MessageGarbled(id)
           \/ \E t \in Tools : ToolPart(t, id)
    \/ ColumnsUpdated \/ ColumnsGarbled \/ MessageReverted
    \/ \E t \in Tools, s \in {"ok", "error"} : ToolPartDone(t, s)

OpenCodeNext ==
    /\ agent = "opencode"
    /\ \/ ReadSummary \/ ReadMessages \/ ReadParts
       \/ MayWrite /\ OpenCodeWrites
    /\ UNCHANGED agent
================================================================================
