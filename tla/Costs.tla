---------------------------------- MODULE Costs ----------------------------------
(***************************************************************************)
(* Sessions that agents go on writing, and the commands that say what they *)
(* cost: the receipt of a session or of a part of it with its subagents,   *)
(* the weekly digest and the budgets, the printed amounts.  What a vendor  *)
(* charges is known to nobody but the vendor (`Charged`): the price tables *)
(* cite some of it, and the floor must hold whatever the rest is.          *)
(***************************************************************************)
EXTENDS Week

CONSTANTS
    Charged(_, _, _, _, _),  \* provider, model, date, prompt, uncited -> the rates of the bill
    Uncited,        \* what a rate may be that no table cites
    Views,          \* the parts of the state space: view -> its bounds
    Sources,        \* view -> sessions an agent starts with
    Alphabet,       \* view -> turns it may append
    Subagents,      \* view -> what its subagents may be, None if they cannot be listed
    Values,         \* amounts that may be printed
    Caps,           \* budgets in dollars
    Projects        \* session of the digest -> its project

(* Times are numbers; the agents of a behaviour that is about checks record *)
(* turns of its alphabet only.                                             *)
ASSUME CostsAssumption ==
    /\ None \notin Int /\ Values \subseteq Nat
    /\ "checks" \in DOMAIN Views =>
         /\ \A f \in Sources["checks"] :
               /\ "main" \in DOMAIN f /\ "turns" \in DOMAIN f["main"]
               /\ f["main"].turns \in Seq(Alphabet["checks"])
         /\ \A t \in Alphabet["checks"] :
               /\ t.calls \in Seq(Range(t.calls))
               /\ \A i \in DOMAIN t.calls :
                     {t.calls[i].start, t.calls[i].end} \subseteq Int \cup {None}

VARIABLES
    view,       \* which part of the state space this behaviour is in
    sessions,   \* session -> its transcript, as an adapter would read it now
    broken,     \* sessions whose transcript cannot be read now
    children,   \* the transcripts of the subagents
    clock,      \* the time
    now,        \* the time the command took as the present, None before it began
    rows,       \* what the command's listing returned
    loaded,     \* the sessions it has loaded since
    amounts     \* the rows of dollars to print
vars == <<view, sessions, broken, children, clock, now, rows, loaded, amounts>>

Commands == {"week"}
Ids == DOMAIN sessions

Init ==
    /\ view \in DOMAIN Views
    /\ sessions \in Sources[view]
    /\ broken \in (IF view \in Commands THEN SUBSET Ids ELSE {{}})
    /\ children \in Subagents[view]
    /\ clock = Views[view].clock
    /\ now = None
    /\ rows = None
    /\ loaded = <<>>
    /\ amounts = <<>>

-----------------------------------------------------------------------------
(* The agents. *)
Grown(s, t) ==
    [s EXCEPT !.turns = Append(@, t),
              !.total = addUsage(@, Or(t.usage, emptyUsage)),
              !.start = IF @ = None THEN t.date ELSE @,
              !.end = IF t.date = None THEN @ ELSE t.date]

Work(id, t) ==
    /\ id \in Views[view].writers /\ Len(sessions[id].turns) < Views[view].turns
    /\ sessions' = [sessions EXCEPT ![id] =
                      Grown(@, IF view \in Commands THEN [t EXCEPT !.date = clock] ELSE t)]
    /\ UNCHANGED <<view, broken, children, clock, now, rows, loaded, amounts>>

(* The context is compacted before the turn that comes next. *)
Compact(id) ==
    /\ Len(sessions[id].compactions) < Views[view].compactions
    /\ sessions' = [sessions EXCEPT ![id].compactions = Append(@, Len(sessions[id].turns) + 1)]
    /\ UNCHANGED <<view, broken, children, clock, now, rows, loaded, amounts>>

(* A transcript becomes unreadable, or readable again. *)
Toggle(id) ==
    /\ view \in Commands /\ rows # None /\ id \notin DOMAIN loaded
    /\ broken' = (broken \ {id}) \cup ({id} \ broken)
    /\ UNCHANGED <<view, sessions, children, clock, now, rows, loaded, amounts>>

Tick ==
    /\ clock < Views[view].end
    /\ clock' = clock + 1
    /\ UNCHANGED <<view, sessions, broken, children, now, rows, loaded, amounts>>

-----------------------------------------------------------------------------
(* The week and budget commands: the present is taken, then the sessions   *)
(* are listed (a transcript that cannot be parsed is listed as degraded),  *)
(* then the ones of the windows are loaded, in any order.                  *)
Begin ==
    /\ view \in Commands /\ now = None
    /\ now' = clock
    /\ UNCHANGED <<view, sessions, broken, children, clock, rows, loaded, amounts>>

listFullSessions ==
    /\ now # None /\ rows = None
    /\ rows' = [id \in Ids |->
                  LET s == IF id \in broken
                           THEN [sessions[id] EXCEPT !.turns = <<>>, !.total = emptyUsage]
                           ELSE sessions[id]
                  IN  Summary(s, sessions[id].end, Projects[id], id \in broken)]
    /\ UNCHANGED <<view, sessions, broken, children, clock, now, loaded, amounts>>

ToLoad ==
    LET b == windowBounds(now, None)
    IN  IF rows = None THEN {}
        ELSE currentOf(rows, b) \cup priorOf(rows, b)
               \cup budgetRows(rows, "daily", now) \cup budgetRows(rows, "weekly", now)

loadSession(id) ==
    /\ id \in ToLoad /\ id \notin DOMAIN loaded
    /\ loaded' = [i \in DOMAIN loaded \cup {id} |->
                    IF i # id THEN loaded[i]
                    ELSE IF id \in broken THEN None ELSE sessions[id]]
    /\ UNCHANGED <<view, sessions, broken, children, clock, now, rows, amounts>>

(* Another row of a receipt's ledger. *)
Row(v) ==
    /\ Len(amounts) < Views[view].amounts
    /\ amounts' = Append(amounts, v)
    /\ UNCHANGED <<view, sessions, broken, children, clock, now, rows, loaded>>

Next ==
    \/ \E id \in Ids, t \in Alphabet[view] : Work(id, t)
    \/ \E id \in Ids : Compact(id) \/ Toggle(id) \/ loadSession(id)
    \/ Tick \/ Begin \/ listFullSessions
    \/ \E v \in Values : Row(v)

Spec == Init /\ [][Next]_vars

-----------------------------------------------------------------------------
(* The bill.  The requests of a turn are known unless what it recorded of  *)
(* them contradicts its usage; then they may have cost anything.           *)
AddsUp(t) ==
    \A x \in {"input", "output", "cacheRead", "cacheCreation"} :
        t.usage[x] = Sum([i \in DOMAIN t.units |-> t.units[i].usage[x]])
Sound(u) == u.total = u.input + u.output + u.cacheRead + u.cacheCreation
            /\ Or(u.w5, 0) + Or(u.w1, 0) <= u.cacheCreation
Requests(t) ==
    IF t.usage = None THEN <<>>
    ELSE IF t.units = None /\ Sound(t.usage)
    THEN <<Unit(t.usage, t.date, t.model, t.provider)>>
    ELSE IF t.units # None /\ t.units # <<>> /\ AddsUp(t)
            /\ \A i \in DOMAIN t.units : Sound(t.units[i].usage)
    THEN t.units
    ELSE <<Unit(t.usage, None, None, "routed")>>

Bill(s, r, uncited) ==
    LET u == r.usage
        c == Charged(IF s.unpriceable THEN "routed" ELSE r.provider, r.model, r.date,
                     promptInput(u), uncited)
    IN  Scale * (c.input * u.input + c.output * u.output + c.cached * u.cacheRead
                 + c.write1 * Or(u.w1, 0) + c.write5 * (u.cacheCreation - Or(u.w1, 0)))
RecordedUsd(s, uncited) ==
    Sum([i \in DOMAIN s.turns |->
        LET rs == Requests(s.turns[i]) IN Sum([j \in DOMAIN rs |-> Bill(s, rs[j], uncited)])])
      + Scale * uncited * Or(s.unattributed, emptyUsage).total
(* With what it did not record: lost records, and writes of the cache. *)
Omits(s) == s.source = "codex" /\ \E i \in DOMAIN s.turns : s.turns[i].model \in OmitsWrites
TrueUsd(s, uncited) ==
    RecordedUsd(s, uncited) + uncited * (s.dropped + (IF Omits(s) THEN 1 ELSE 0))

Main == sessions["main"]
Whose(kids, uncited) ==
    IF kids = None THEN 0
    ELSE Sum([i \in DOMAIN kids |-> IF kids[i] = None THEN uncited ELSE TrueUsd(kids[i], uncited)])

-----------------------------------------------------------------------------
Reading == {"price", "children"}
Cuts == 0..Len(Main.turns)
(* The receipt of the first `k` turns, and with 0 of the whole session. *)
Part(k) == IF k = 0 THEN Main ELSE sliceSessionForReceipt(Main, 1, k)
Receipts ==
    Table(Cuts, LAMBDA k : attachSubagentRollup(buildReceiptModel(Part(k)), children,
                                                IF k = 0 THEN Whole ELSE windowOf(Part(k))))

(* The printed dollars are a floor: the bill is never below them, whatever *)
(* the rates are that nobody cites, for a session with its subagents and   *)
(* for any part of it (resolve.ts:186, subagents.ts:149).  A receipt that  *)
(* claims full coverage, and tells of no usage that its transcript         *)
(* contradicts, printed the bill itself: no uncited rate, no request       *)
(* without a price, no unread subagent is in it (pricingCoverage.ts:16).   *)
FloorHolds ==
    view \in Reading =>
        \A receipts \in {Receipts} :
        LET receipt == receipts[0]
            Usd(k) == combinedPricedUsd(receipts[k])
            Owed(uncited) == TrueUsd(Main, uncited) + Whose(children, uncited)
        IN  /\ Or(Usd(0), 0) <= Owed(0)
            /\ \A k \in Cuts \ {0} :
                  LET part == [Main EXCEPT !.turns = SubSeq(@, 1, k), !.unattributed = None]
                  IN  Or(Usd(k), 0) <= TrueUsd(part, 0) + Whose(children, 0)
            /\ combinedPricingCoverageOf(receipt) = "full"
                  /\ "unattributed-aggregate-usage" \notin receipt.caveats
                => \A uncited \in Uncited : Usd(0) = Owed(uncited)

(* However a session's dollars and tokens are divided, among its tools,    *)
(* among its models, before and after the first edit, among the turns of a *)
(* range and the rest, the parts add up to the whole, and no token is in   *)
(* two ranges (attribution.ts:90, costShape.ts:95, model.ts:168).          *)
SharesAddUp ==
    view \in {"price", "waste"} =>
        \A a \in {attributeByTool(Main)}, mix \in {buildModelMix(Main)},
           shape \in {computeCostShape(Main)} :
        LET Usd(tool) == Or(a.byTool[tool].usd, 0)
            Turns(b, c) == attributeByTool(sliceSessionForReceipt(Main, b, c))
        IN  /\ SumOf([tool \in DOMAIN a.byTool |-> a.byTool[tool].tokens], DOMAIN a.byTool)
                 = Scale * a.totalTokens.total
            /\ SumOf(a.byModel, DOMAIN a.byModel) = Or(a.totalUsd, 0)
            /\ SumOf([tool \in DOMAIN a.byTool |-> Usd(tool)], DOMAIN a.byTool) = Or(a.totalUsd, 0)
            /\ a.unpricedTokens.total
                 = a.totalTokens.total
                     - Sum([i \in DOMAIN Main.turns |->
                          LET rs == Requests(Main.turns[i])
                          IN  Sum([j \in DOMAIN rs |->
                                IF pricingUnitsForTurn(Main.turns[i]) = None THEN 0
                                ELSE IF rowOf(Main, rs[j]) = None THEN 0
                                ELSE rs[j].usage.total])])
            /\ (\A i \in DOMAIN Main.turns :
                  Main.turns[i].usage = None \/ pricingUnitsForTurn(Main.turns[i]) # None) =>
                 SumOf(mix, DOMAIN mix) = a.totalTokens.total
            /\ shape.preEditUsd # None /\ shape.postEditUsd # None =>
                 shape.preEditUsd + shape.postEditUsd = Or(a.totalUsd, 0)
            /\ \A k \in Cuts \ {0, Len(Main.turns)} :
                 \A p \in {Turns(1, k)}, q \in {Turns(k + 1, Len(Main.turns))} :
                    /\ Or(p.totalUsd, 0) + Or(q.totalUsd, 0) = Or(a.totalUsd, 0)
                    /\ p.totalTokens.total + q.totalTokens.total
                         = a.totalTokens.total - Or(Main.unattributed, emptyUsage).total

(* Three comparisons on a receipt are exact.  The net saving of the cache  *)
(* is the price without one less the total, and the price of the cheapest  *)
(* model is below the total; both are said only of a total that is the     *)
(* exact bill of all that is recorded (netCache.ts:38, waste.ts:512).  The *)
(* share spent before the first edit is of the total without what followed *)
(* (costShape.ts:107).  Two others are not covered: the reads at the input *)
(* rate, which are shown beside a partial total too (attribution.ts:190),  *)
(* and the spans re-priced at a cheaper row (waste.ts:270).                *)
WithoutCache(s) ==
    Sum([i \in DOMAIN s.turns |->
        LET rs == Requests(s.turns[i])
        IN  Sum([j \in DOMAIN rs |->
              LET u == rs[j].usage
                  c == Charged(rs[j].provider, rs[j].model, rs[j].date, promptInput(u), 0)
              IN  Scale * (c.input * promptInput(u) + c.output * u.output)])])
ComparisonsAreExact ==
    view \in Reading \cup {"waste"} =>
        \A receipt \in {buildReceiptModel(Main)} :
        LET Exact == \A uncited \in Uncited : receipt.totalUsd = RecordedUsd(Main, uncited)
        IN  /\ receipt.netCache.usd # None =>
                 Exact /\ receipt.netCache.usd = WithoutCache(Main) - receipt.totalUsd
            /\ receipt.priceDelta # None => Exact /\ receipt.priceDelta < receipt.totalUsd
            /\ receipt.costShape.preEditPct # None =>
                 receipt.totalUsd - receipt.costShape.preEditUsd = receipt.costShape.postEditUsd

(* Waste is a part of what was spent: two windows of context thrash share  *)
(* no turn, no finding costs more than the session, and the kinds that the *)
(* digest does not call overlapping cost no more together                  *)
(* (waste.ts:399, aggregate/waste.ts:73).                                  *)
WasteIsSpent ==
    view \in {"waste", "thrash"} =>
        \A found \in {wasteLines(Main)}, week \in {aggregateWaste([main |-> Main])} :
        LET spent == Or(attributeByTool(Main).totalUsd, 0)
            alone == {k \in DOMAIN week : ~week[k].nonAdditive}
        IN  /\ \A f, g \in found :
                 f # g /\ f.kind = "context-thrash" /\ g.kind = f.kind => f.turns \cap g.turns = {}
            /\ \A f \in found : Or(f.usd, 0) <= spent
            /\ SumOf([k \in alone |-> week[k].cost], alone) <= spent

(* A check said to be the last one is the last in time; and if files are   *)
(* said to be edited after it, the check passed, and no check ran after    *)
(* any such edit began (verification.ts:41).                               *)
EvidenceIsTheLast ==
    view = "checks" =>
        \A calls \in {{c.call : c \in Range(flattenCalls(Main))}} :
        LET ran   == {c \in calls : isCheck(c)}
            edits == {c \in calls : isTypedEdit(c)}
            LastOnes == {c \in ran : \A d \in ran : Or(d.end, 0) <= Or(c.end, 0)}
        IN  CASE verificationEvidence(Main) = "none" -> TRUE
              [] verificationEvidence(Main) = "tool-error" ->
                   \A c \in LastOnes : c.status = "error"
              [] OTHER -> /\ \A c \in LastOnes : c.status = "ok"
                          /\ \E e \in edits : e.start # None /\ \A c \in ran : Or(c.end, 0) < e.start

(* The amounts of a ledger are floors, of each row and of the aggregate    *)
(* however its sum was rounded, they add up to the printed total, and no   *)
(* amount vanishes that the finest precision could show (format.ts:175).   *)
LedgerNeverOverstates ==
    view = "ledger" =>
        \A raw \in {Sum(amounts) - Residue, Sum(amounts), Sum(amounts) + Residue} :
            \A ledger \in {formatUsdFloorLedger(amounts, raw)} :
            LET Shown(n) == n * Unit10(ledger.digits)
            IN  raw >= 0 =>
                  /\ ledger.total = Sum(ledger.amounts)
                  /\ Shown(ledger.total) <= raw
                  /\ \A i \in DOMAIN amounts : Shown(ledger.amounts[i]) <= amounts[i]
                  /\ \A i \in DOMAIN amounts :
                        amounts[i] >= Unit10(Decimals[Len(Decimals)]) /\ raw >= Sum(amounts)
                          => ledger.amounts[i] > 0

-----------------------------------------------------------------------------
Loaded == rows # None /\ ToLoad = DOMAIN loaded

(* A session that is listed in a window is counted there once, as priced   *)
(* in full, in part, not at all or unreadable, whatever its agent does     *)
(* while the command reads; the splits add up; no token that was listed is *)
(* lost; and the dollars are a floor (week.ts:174, 386).                   *)
CountedOnce ==
    Loaded =>
        LET b == windowBounds(now, None)
            Listed(start, end) ==
              {i \in Ids : ~rows[i].sidechain /\ (rows[i].degraded \/ rows[i].turns + rows[i].tokens > 0)
                             /\ rows[i].end # None /\ rows[i].end \in start..(end - 1)}
            Right(w, listed) ==
              /\ w.full + w.partial + w.unpriced + w.unreadable = Cardinality(listed)
              /\ w.tokenTotal >= SumOf([i \in listed |-> rows[i].tokens], listed)
              /\ \A split \in {w.byAgent, w.byProject} :
                   /\ SumOf([x \in DOMAIN split |-> split[x].tokens], DOMAIN split) = w.tokenTotal
                   /\ SumOf([x \in DOMAIN split |-> Or(split[x].usd, 0)], DOMAIN split)
                        = Or(w.pricedUsd, 0)
                   /\ SumOf([x \in DOMAIN split |-> split[x].count], DOMAIN split)
                        = Cardinality(listed)
              /\ Or(w.pricedUsd, 0) <= SumOf([i \in listed |-> TrueUsd(sessions[i], 0)], listed)
        IN  \A d \in {assembleWeekDigest(rows, loaded, b)} :
              /\ Right(d.current, Listed(b.curStart, b.curEnd))
              /\ Right(d.prior, Listed(b.priorStart, b.curStart))

(* The weekly budget and the digest agree on the trailing week, however    *)
(* each was written: same dollars, same coverage; a budget of tokens never *)
(* counts more than the digest; and a budget is said to be exceeded only   *)
(* if the bill of its window does exceed it (compute.ts:51, week.ts:174).  *)
BudgetAgrees ==
    Loaded =>
        \A week \in {assembleWeekDigest(rows, loaded, windowBounds(now, None)).current},
           usd \in {computeBudgetSum("weekly", Cap(1, None), now, rows, loaded)} :
        LET tokens == computeBudgetSum("weekly", Cap(None, 1), now, rows, loaded)
            empty == {i \in budgetRows(rows, "weekly", now) :
                        ~rows[i].degraded /\ ~isAggregatableSession(rows[i])}
        IN  /\ usd.spent >= Or(week.pricedUsd, 0)
            /\ empty = {} => /\ usd.spent = Or(week.pricedUsd, 0)
                             /\ usd.full = week.full /\ usd.partial = week.partial
                             /\ usd.excluded = week.unpriced + week.unreadable
                             /\ usd.unpricedTokens = week.unpricedTokenTotal
            /\ tokens.spent <= week.tokenTotal
            /\ \A cap \in Caps, periods \in SUBSET {"daily", "weekly"} :
                 LET config == [p \in {"daily", "weekly"} |->
                                  IF p \in periods THEN Cap(cap, None) ELSE None]
                     Due(p) == {i \in Ids : ~rows[i].sidechain
                                              /\ inWindow(rows[i].end, windowFor(p, now))}
                     budget == evaluateBudget(config, now, rows, loaded)
                 IN  /\ budget.status = "invalid" <=> periods = {}
                     /\ budget.exceeded => \E p \in periods :
                          SumOf([i \in Due(p) |-> TrueUsd(sessions[i], 0)], Due(p)) > cap

(* Both, for one and the same reading.                                     *)
WeekCountsOnce == CountedOnce /\ BudgetAgrees
================================================================================
