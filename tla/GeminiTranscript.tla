---------------------------- MODULE GeminiTranscript ----------------------------
(***************************************************************************)
(* Gemini CLI's chats (src/parse/gemini.ts): an append-only log that is an  *)
(* edit history.  A message may be appended again, with its id, and then    *)
(* replaces its earlier copy; a rewind drops a message and all that follow; *)
(* a checkpoint replaces them all.                                          *)
(***************************************************************************)
EXTENDS Transcript

CONSTANT GeminiRequests \* usages a request may have

(* `model` is the first one seen, `told` once a line could not be read     *)
(* (droppedRecords), `flagged` once a part of one was malformed, for which *)
(* only the shape of a failure is kept.                                    *)
GeminiInit ==
    /\ agent = "gemini"
    /\ parser = [messages |-> <<>>, model |-> None, told |-> FALSE, flagged |-> FALSE]
    /\ truth = NothingHappened @@ [chat |-> <<>>]

-----------------------------------------------------------------------------
(* TokensSummary: cached tokens are a part of the input, the tool prompt   *)
(* and the thoughts are apart.                                             *)
RawGemini(u) ==
    [input |-> u.cacheRead + u.input \div 2, tool |-> u.input - u.input \div 2,
     cached |-> u.cacheRead, output |-> u.output \div 2, thoughts |-> u.output - u.output \div 2]

BadNumber == -1

(* retainValidMessageParts: a field that is no count is left out. *)
Field(x) == IF x < 0 THEN 0 ELSE x
malformedTokens(raw) == raw # None /\ \E f \in DOMAIN raw : raw[f] < 0

(* Mutation: the cached tokens stay in the input. *)
mapGeminiUsage_CachedTwice(raw) ==
    IF raw = None THEN None
    ELSE Usage(Field(raw.input) + Field(raw.tool), Field(raw.output) + Field(raw.thoughts),
               Field(raw.cached), 0)

mapGeminiUsage(raw) ==
    LET fresh == Field(raw.input) - Field(raw.cached)
    IN  IF raw = None THEN None
        ELSE Usage((IF fresh < 0 THEN 0 ELSE fresh) + Field(raw.tool),
                   Field(raw.output) + Field(raw.thoughts), Field(raw.cached), 0)

-----------------------------------------------------------------------------
(* A map that keeps the place where a key was first put. *)
Put(messages, msg) ==
    IF \E i \in DOMAIN messages : messages[i].id = msg.id
    THEN [i \in DOMAIN messages |-> IF messages[i].id = msg.id THEN msg ELSE messages[i]]
    ELSE Append(messages, msg)

(* A message record, on its own or in a checkpoint. *)
Message(p, msg) ==
    [p EXCEPT !.messages = Put(@, msg), !.flagged = @ \/ malformedTokens(msg.raw)]
MessageAppended(p, msg) ==
    [Message(p, msg) EXCEPT !.model = IF @ = None THEN msg.model ELSE @]

Before(messages, id) ==
    SelectSeq(messages, LAMBDA m : \A i, j \in DOMAIN messages :
        messages[i] = m /\ messages[j].id = id => i < j)

RewindTo(p, id) == [p EXCEPT !.messages = Before(@, id)]

(* `entries`: None is an entry that is no message. *)
Checkpoint(p, entries) ==
    LET build[i \in 0..Len(entries)] ==
            IF i = 0 THEN [p EXCEPT !.messages = <<>>]
            ELSE IF entries[i] = None THEN [build[i - 1] EXCEPT !.flagged = TRUE]
            ELSE Message(build[i - 1], entries[i])
    IN  build[Len(entries)]

(* buildSession: one turn per message that is left.  A tool call that did  *)
(* not end in an error is a good one (toToolCall).                         *)
GeminiSession(p) ==
    LET turns == [i \in DOMAIN p.messages |-> mapGeminiUsage(p.messages[i].raw)]
        priced == SelectSeq(p.messages, LAMBDA m : m.raw # None /\ ~malformedTokens(m.raw))
        calls == UNION {{<<t, p.messages[i].calls[t]>> : t \in DOMAIN p.messages[i].calls} :
                           i \in DOMAIN p.messages}
    IN  Session(itemized(turns), turns,
                [i \in DOMAIN priced |->
                    Unit(mapGeminiUsage(priced[i].raw),
                         IF priced[i].model = None THEN p.model ELSE priced[i].model)],
                None,
                [t \in {c[1] : c \in calls} |-> IF <<t, "error">> \in calls THEN "error" ELSE "ok"],
                0, p.told, p.told \/ p.flagged)

-----------------------------------------------------------------------------
(* The agent: `chat` is the conversation as it stands, and a message has   *)
(* its tokens when the request has ended.                                  *)
ChatMessage(id, model, raw, calls) == [id |-> id, model |-> model, raw |-> raw, calls |-> calls]

RequestSent(m) ==
    LET msg == ChatMessage(Len(truth.used) + 1, m, None, NoCalls)
    IN  /\ truth' = Wrote([truth EXCEPT !.reported = Append(@, {}), !.used = Append(@, None),
                                        !.chat = Append(@, msg)])
        /\ parser' = MessageAppended(parser, msg)

(* The message is appended again, with its tokens and tool calls. *)
RequestEnded(i, u, tools) ==
    LET msg == [truth.chat[i] EXCEPT !.raw = RawGemini(u), !.calls = [t \in tools |-> "running"] @@ @]
    IN  /\ truth.chat[i].raw = None
        /\ truth' = Wrote([truth EXCEPT !.reported[msg.id] = {Unit(u, msg.model)},
                                        !.used[msg.id] = u, !.chat[i] = msg,
                                        !.tools = @ \cup tools])
        /\ parser' = MessageAppended(parser, msg)

(* Again, with the tools' results. *)
ToolsEnded(i, status) ==
    LET msg == [truth.chat[i] EXCEPT !.calls = [t \in DOMAIN @ |-> status]]
    IN  /\ msg # truth.chat[i]
        /\ truth' = Wrote([truth EXCEPT !.chat[i] = msg])
        /\ parser' = MessageAppended(parser, msg)

(* The same as RequestEnded, but with a field garbled. *)
RequestGarbledInChat(i, u) ==
    LET msg == [truth.chat[i] EXCEPT !.raw = RawGemini(u)]
    IN  /\ truth.chat[i].raw = None
        /\ truth' = Unsaid([truth EXCEPT !.reported[msg.id] = {Unit(u, msg.model)},
                                         !.used[msg.id] = u, !.chat[i] = msg])
        /\ parser' = MessageAppended(parser, [msg EXCEPT !.raw.output = BadNumber])

Rewind(i) ==
    LET gone == {truth.chat[j].id : j \in i..Len(truth.chat)}
        calls == UNION {DOMAIN truth.chat[j].calls : j \in i..Len(truth.chat)}
    IN  /\ truth' = Wrote([truth EXCEPT
               !.used = [r \in DOMAIN @ |-> IF r \in gone THEN None ELSE @[r]],
               !.chat = SubSeq(@, 1, i - 1), !.tools = @ \ calls])
        /\ parser' = RewindTo(parser, truth.chat[i].id)

CheckpointWritten ==
    /\ truth' = Wrote(truth)
    /\ parser' = Checkpoint(parser, truth.chat)

CheckpointGarbled(i) ==
    /\ truth' = Unsaid(truth)
    /\ parser' = Checkpoint(parser, [truth.chat EXCEPT ![i] = None])

(* Half a line is left of a record. *)
LineTorn(u, i) ==
    /\ truth.chat[i].raw = None
    /\ truth' = Faulty([truth EXCEPT !.reported[truth.chat[i].id] = {Unit(u, truth.chat[i].model)},
                                     !.used[truth.chat[i].id] = u,
                                     !.chat[i].raw = RawGemini(u)])
    /\ parser' = [parser EXCEPT !.told = TRUE]

GeminiNext ==
    /\ agent = "gemini" /\ MayWrite
    /\ \/ \E m \in Models \cup {None} : RequestSent(m)
       \/ \E i \in DOMAIN truth.chat :
              \/ \E u \in GeminiRequests :
                     \/ \E tools \in SUBSET (Tools \ truth.tools) : RequestEnded(i, u, tools)
                     \/ RequestGarbledInChat(i, u) \/ LineTorn(u, i)
              \/ \E s \in {"ok", "error"} : ToolsEnded(i, s)
              \/ Rewind(i) \/ CheckpointGarbled(i)
       \/ CheckpointWritten
    /\ UNCHANGED agent
================================================================================
