------------------------------- MODULE Transcripts -------------------------------
(***************************************************************************)
(* Every adapter over the records of its agent, and what a receipt relies   *)
(* on whichever agent it was.  The adapters of files read up to the last    *)
(* record; those of databases read while the agent writes.                  *)
(***************************************************************************)
EXTENDS CodexTranscript, ClaudeTranscript, OpenCodeDb, GeminiTranscript, CursorDb

Init == CodexInit \/ ClaudeInit \/ OpenCodeInit \/ GeminiInit \/ CursorInit
Next == CodexNext \/ ClaudeNext \/ OpenCodeNext \/ GeminiNext \/ CursorNext
Spec == Init /\ [][Next]_vars

(* The session the adapter shows. *)
SessionOf(p) == CASE agent = "codex" -> CodexSession(p)
                  [] agent = "claude-code" -> ClaudeSession(p)
                  [] agent = "opencode" -> OpenCodeSession(p)
                  [] agent = "gemini" -> GeminiSession(p)
                  [] agent = "cursor" -> CursorSession(p)

Reads == agent \in {"opencode", "cursor"}

(* What the agent had used at the moments of the reading, and the tools it *)
(* had called when it began.                                               *)
Moments == IF Reads THEN truth.during ELSE {truth.used}
ToolsBefore == IF Reads THEN truth.before ELSE truth.tools

-----------------------------------------------------------------------------
(* A unit may be the price of the request. *)
IsOf(unit, r) ==
    \/ unit \in truth.reported[r]
    \/ /\ agent = "gemini" /\ unit.model = parser.model
       /\ Unit(unit.usage, None) \in truth.reported[r]

(* No request is priced twice, and none at a usage its agent never         *)
(* reported for it or as another model (a Gemini message that names none   *)
(* is taken for the session's), and no tool call or compaction is made up, *)
(* whatever is lost, repeated, replayed or garbled (codex.ts:363,          *)
(* claudeCode.ts:289, gemini.ts:22).                                       *)
PricedOnce ==
    LET s == SessionOf(parser)
    IN  /\ \E f \in [DOMAIN s.units -> Requests] :
              /\ \A i, j \in DOMAIN f : i # j => f[i] # f[j]
              /\ \A i \in DOMAIN f : IsOf(s.units[i], f[i])
        /\ DOMAIN s.calls \subseteq truth.tools
        /\ s.compactions <= truth.compactions

(* While nothing goes wrong, the session is what the agent had done at one *)
(* moment of the reading: every token, every request with a price unless   *)
(* the agent's are never priced, nothing left over, and every tool call    *)
(* and compaction, of which one may leave two records.                     *)
CleanIsExact ==
    truth.clean =>
        LET s == SessionOf(parser)
        IN  /\ s.unattributed = None
            /\ \E used \in Moments :
                  /\ s.total = itemized(used)
                  /\ agent # "cursor" => Len(s.units) = Cardinality(Live(used))
            /\ ToolsBefore \subseteq DOMAIN s.calls
            /\ s.compactions = truth.compactions

(* The total is what the turns have, plus what is unattributed, and no     *)
(* token is in it that was not used; unless a record without an id, which  *)
(* may be of a request that has another, is counted apart, or it is told   *)
(* that what a Codex inherited could not be told from what it used.        *)
Accounted ==
    LET s == SessionOf(parser)
        inherited == IF agent = "codex" /\ s.told THEN truth.inherited ELSE emptyUsage
        most == [x \in Axes |-> inherited[x] +
                    LET sum[i \in 0..Len(truth.used)] ==
                            IF i = 0 THEN 0 ELSE sum[i - 1] + Most(truth.reported[i], x)
                    IN  sum[Len(truth.used)]]
    IN  /\ agent # "cursor" =>
               s.total = addUsage(itemized(s.turns),
                                  IF s.unattributed = None THEN emptyUsage ELSE s.unattributed)
        /\ (agent = "claude-code" /\ truth.silent) \/ componentwiseDominates(most, s.total)

(* A session that shows less than there was when its reading began says so *)
(* on its receipt (util.ts:125, "flagged, not silent"), if a record tells  *)
(* of it at all.  Only where a part of a Gemini record or a row of         *)
(* Cursor's was garbled may it be that the telemetry alone hears of it, and *)
(* the receipt says nothing (parse-failure-shapes.test.ts:236, 374).       *)
GapsAreTold ==
    LET s == SessionOf(parser)
    IN  \/ s.told \/ truth.silent
        \/ agent \in {"gemini", "cursor"} /\ truth.unsaid /\ s.flagged
        \/ /\ ToolsBefore \subseteq DOMAIN s.calls
           /\ \E used \in Moments : componentwiseDominates(s.total, itemized(used))

(* What an adapter may forget by its design: a Codex that was upgraded in  *)
(* a rollout had only its largest message; what was before a fork is the   *)
(* parent's; a garbled Claude record may replace a better one; a rewind or *)
(* a checkpoint takes messages back; a database with torn rows, or from    *)
(* which rows were taken, has no more than its columns.                    *)
MayForget ==
    \/ agent = "codex" /\ parser.sawLegacy /\ parser'.cumulative # None
    \/ agent = "claude-code" /\ (truth.forked # truth'.forked \/ truth'.faulty)
    \/ agent = "gemini" /\ (truth'.used # truth.used \/ truth'.faulty)
    \/ Reads /\ ~truth.clean

(* Apart from that, more records never make the total smaller. *)
NeverForgets ==
    [][MayForget \/ \A p \in {parser}, q \in {parser'} :
                        Total(SessionOf(q).total) >= Total(SessionOf(p).total)]_vars
================================================================================
