-------------------------------- MODULE CursorDb --------------------------------
(***************************************************************************)
(* Cursor's key-value database (src/parse/cursor.ts): a session's row lists *)
(* its messages ("bubbles") and has the only token count, and each bubble   *)
(* has a row.  The adapter reads the session's row and then the bubbles,    *)
(* while Cursor writes.  Its sessions have no usage per turn and are never  *)
(* priced.                                                                  *)
(***************************************************************************)
EXTENDS Transcript

CONSTANT CursorRequests \* usages a request may have

(* `headers`, `tokens` (None: none that can be used) and `garbled` are the *)
(* session's row, `bubbles` the others; the rest is as in OpenCodeDb.      *)
CursorInit ==
    /\ agent = "cursor"
    /\ parser = [stage |-> "idle", row |-> None,
                 session |-> Session(emptyUsage, <<>>, <<>>, None, NoCalls, 0, FALSE, FALSE)]
    /\ truth = NothingHappened @@
           [headers |-> <<>>, tokens |-> emptyUsage, garbled |-> FALSE,
            bubbles |-> [b \in {} |-> None], calls |-> NoCalls,
            moments |-> {}, during |-> {<<>>}, began |-> {}, before |-> {}]

-----------------------------------------------------------------------------
(* A bubble is a tool call, or a text of the assistant's (None) or the     *)
(* user's.                                                                 *)
Bubbles == Tools \cup {None, "user"}

(* Only input and output are counted, and nothing of a count that is one   *)
(* number.                                                                 *)
mapCursorTokens(u) == IF u = None THEN emptyUsage ELSE Usage(u.input, u.output, 0, 0)

Readable(row, bubbles) ==
    SelectSeq(row.headers, LAMBDA b : b \in DOMAIN bubbles /\ bubbles[b] # "garbled")

(* A user's bubble ends the turn. *)
TurnsOf(kinds) ==
    Cardinality({i \in DOMAIN kinds : kinds[i] # "user" /\ (i = 1 \/ kinds[i - 1] = "user")})

(* Mutation: a header without its bubble is passed over. *)
LoadedComposer_Silent(row, bubbles) ==
    LET kinds == [i \in DOMAIN Readable(row, bubbles) |-> bubbles[Readable(row, bubbles)[i]]]
        made == {kinds[i] : i \in DOMAIN kinds} \cap Tools
    IN  Session(mapCursorTokens(row.tokens), [i \in 1..TurnsOf(kinds) |-> None], <<>>, None,
                [t \in made |-> truth.calls[t]], 0, FALSE, row.garbled)

(* The bubbles in the order of the headers.  One that is missing and a row *)
(* that is malformed are flagged; the receipt is told nothing.             *)
LoadedComposer(row, bubbles) ==
    LET found == Readable(row, bubbles)
        kinds == [i \in DOMAIN found |-> bubbles[found[i]]]
        made == {kinds[i] : i \in DOMAIN kinds} \cap Tools
    IN  Session(mapCursorTokens(row.tokens), [i \in 1..TurnsOf(kinds) |-> None], <<>>, None,
                [t \in made |-> truth.calls[t]], 0,
                FALSE, found # row.headers \/ row.garbled)

ReadComposer ==
    /\ parser.stage = "idle" /\ truth.headers # <<>>
    /\ parser' = [parser EXCEPT !.stage = "bubbles",
                                !.row = [headers |-> truth.headers, tokens |-> truth.tokens,
                                         garbled |-> truth.garbled]]
    /\ truth' = [truth EXCEPT !.moments = {truth.used}, !.began = truth.tools]

ReadBubbles ==
    /\ parser.stage = "bubbles"
    /\ parser' = [parser EXCEPT !.stage = "idle", !.row = None,
                                !.session = LoadedComposer(parser.row, truth.bubbles)]
    /\ truth' = [truth EXCEPT !.during = truth.moments, !.before = truth.began,
                              !.moments = {}, !.began = {}]

CursorSession(p) == p.session

-----------------------------------------------------------------------------
Moment(t) == IF parser.stage = "idle" THEN t ELSE [t EXCEPT !.moments = @ \cup {t.used}]
Listed == {truth.headers[i] : i \in DOMAIN truth.headers}

(* A call is there once its bubble and the header that lists it are. *)
Made(t, bubbles, listed) ==
    [t EXCEPT !.tools = @ \cup ({bubbles[b] : b \in DOMAIN bubbles \cap listed} \cap Tools)]

BubbleWritten(b, kind) ==
    /\ b \notin DOMAIN truth.bubbles
    /\ kind \in Tools => kind \notin DOMAIN truth.calls
    /\ LET bubbles == truth.bubbles @@ (b :> kind)
       IN  truth' = Moment(Made([Wrote(truth) EXCEPT !.bubbles = bubbles,
                    !.calls = IF kind \in Tools THEN @ @@ (kind :> "ok") ELSE @], bubbles, Listed))
    /\ UNCHANGED parser

BubbleGarbled(b) ==
    /\ b \in DOMAIN truth.bubbles
    /\ truth' = Moment([Unsaid(truth) EXCEPT !.bubbles[b] = "garbled"])
    /\ UNCHANGED parser

(* The session's row, with the tokens used up to then. *)
ComposerWritten(b, u) ==
    /\ b \notin Listed
    /\ truth' = Moment(Made([Wrote(truth) EXCEPT !.headers = Append(@, b), !.used = Append(@, u),
                     !.reported = Append(@, {Unit(u, None)}),
                     !.tokens = IF @ = None THEN @ ELSE addUsage(@, u)],
                     truth.bubbles, Listed \cup {b}))
    /\ UNCHANGED parser

ComposerGarbled ==
    /\ truth.headers # <<>>
    /\ truth' = Moment([Unsaid(truth) EXCEPT !.tokens = None, !.garbled = TRUE])
    /\ UNCHANGED parser

(* The row's token count is one number, which is well-formed, but not of   *)
(* use: nothing tells of the tokens in it.                                 *)
ComposerCountIsNumber ==
    /\ truth.headers # <<>> /\ truth.tokens # None
    /\ truth' = Moment([Faulty(truth) EXCEPT !.tokens = None, !.silent = TRUE])
    /\ UNCHANGED parser

ToolFailed(t) ==
    /\ t \in DOMAIN truth.calls /\ truth.calls[t] = "ok"
    /\ truth' = Moment([Wrote(truth) EXCEPT !.calls[t] = "error"])
    /\ UNCHANGED parser

CursorNext ==
    /\ agent = "cursor"
    /\ \/ ReadComposer \/ ReadBubbles
       \/ /\ MayWrite
          /\ \/ \E b \in 1..Cardinality(DOMAIN truth.bubbles \cup Listed) + 1 :
                    \/ \E kind \in Bubbles : BubbleWritten(b, kind)
                    \/ \E u \in CursorRequests : ComposerWritten(b, u)
             \/ ComposerGarbled \/ ComposerCountIsNumber
             \/ \E b \in DOMAIN truth.bubbles : BubbleGarbled(b)
             \/ \E t \in Tools : ToolFailed(t)
    /\ UNCHANGED agent
================================================================================
