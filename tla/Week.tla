---------------------------------- MODULE Week ----------------------------------
(***************************************************************************)
(* Sums over sessions: the weekly digest (src/aggregate/week.ts, waste.ts) *)
(* and the budgets (src/budget).  A summary is what a listing knows of a   *)
(* session; both commands list first and load the sessions after it, while *)
(* agents go on writing.                                                   *)
(***************************************************************************)
EXTENDS ReceiptModel

CONSTANTS
    Day,      \* ticks of a day
    WeekLong  \* ticks of WEEK_MS

ASSUME WeekAssumption == Day \in Nat \ {0} /\ WeekLong \in Nat /\ Day <= WeekLong

Keys(f) == DOMAIN f

-----------------------------------------------------------------------------
(* A listing's row: tokens and calls as of the listing, when the session   *)
(* ended (None: unknown), whether its transcript could be parsed then.     *)
Summary(s, end, project, degraded) ==
    [source |-> s.source, project |-> project, end |-> end, sidechain |-> s.sidechain,
     turns |-> Len(s.turns), tokens |-> s.total.total, degraded |-> degraded]

isAggregatableSession(row) == row.turns > 0 \/ row.tokens > 0
TopLevel(row) == ~row.sidechain

Between(at, start, end) == at # None /\ start <= Or(at, 0) /\ Or(at, 0) < end
windowBounds(now, since) ==
    LET start == IF since # None THEN since ELSE now - WeekLong
    IN  [curStart |-> start, curEnd |-> start + WeekLong, priorStart |-> start - WeekLong]
Counted(rows) == {i \in Keys(rows) : /\ TopLevel(rows[i])
                                     /\ rows[i].degraded \/ isAggregatableSession(rows[i])}
currentOf(rows, b) == {i \in Counted(rows) : Between(rows[i].end, b.curStart, b.curEnd)}

(* Mutation: the prior window has both its ends. *)
priorOf_Closed(rows, b) ==
    {i \in Counted(rows) : Between(rows[i].end, b.priorStart, b.curStart + 1)}

priorOf(rows, b) ==
    {i \in Counted(rows) : Between(rows[i].end, b.priorStart, b.curStart)}

dailyWindow(now) == [start |-> now - (now % Day), end |-> now - (now % Day) + Day]
weeklyWindow(now) == [start |-> now - WeekLong, end |-> now]
inWindow(end, w) == Between(end, w.start, w.end)

-----------------------------------------------------------------------------
(* aggregateWaste over the loaded sessions. *)
Overlap(found, kind) ==
    LET Turns(k) == UNION {f.turns : f \in {g \in found : g.kind = k}}
    IN  Turns("context-thrash") \cap Turns(kind) # {}
WasteOf(found) ==
    LET fired == UNION {{<<i, f>> : f \in found[i]} : i \in Keys(found)}
        kinds == {x[2].kind : x \in fired}
        With(k) == {x \in fired : x[2].kind = k}
        Shares(k) ==
          {l \in {"stuck-loop", "trivial-spans"} :
             /\ k \in {l, "context-thrash"} /\ \E i \in Keys(found) : Overlap(found[i], l)}
    IN  [k \in kinds |->
          [cost |-> SumOf([x \in With(k) |-> Or(x[2].usd, 0)], With(k)),
           tokens |-> SumOf([x \in With(k) |-> x[2].tokens], With(k)),
           sessions |-> Cardinality({x[1] : x \in With(k)}),
           nonAdditive |-> Shares(k) # {}]]
aggregateWaste(sessions) ==
    WasteOf(Table(Keys(sessions), LAMBDA i : wasteLines(sessions[i])))

(* How far one loaded session is priced. *)
CoverageOf(a) ==
    IF a.totalUsd = None THEN "unpriced"
    ELSE IF a.unpricedTokens.total > 0 \/ a.lower THEN "partial" ELSE "full"

(* aggregateWindow: `rows` are the summaries of the window, `loaded` what  *)
(* came of loading them, None for what could not be read, and `attr` the   *)
(* attributions of the rest.                                               *)
AttributionsOf(loaded, S) ==
    Table({i \in S : loaded[i] # None}, LAMBDA i : attributeByTool(loaded[i]))
WindowSums(rows, loaded, attr) ==
    LET read  == DOMAIN attr
        Of(c) == {i \in read : CoverageOf(attr[i]) = c}
        with  == read \ Of("unpriced")
        known == [i \in Keys(rows) |-> IF i \in read THEN loaded[i].total.total
                                       ELSE IF rows[i].degraded THEN 0 ELSE rows[i].tokens]
        unpriced == [i \in Keys(rows) |-> IF i \in read THEN attr[i].unpricedTokens.total
                                          ELSE known[i]]
        Usd(S) == IF S \cap with = {} THEN None
                  ELSE SumOf([i \in S \cap with |-> attr[i].totalUsd], S \cap with)
        Split(key(_)) == [x \in {key(i) : i \in Keys(rows)} |->
                            LET S == {i \in Keys(rows) : key(i) = x}
                            IN  [usd |-> Usd(S), tokens |-> SumOf(known, S),
                                 count |-> Cardinality(S)]]
        Agent(i) == IF i \in read THEN loaded[i].source ELSE rows[i].source
        Project(i) == rows[i].project
    IN  [sessionCount |-> Cardinality(Keys(rows)),
         full |-> Cardinality(Of("full")), partial |-> Cardinality(Of("partial")),
         cacheRatePartial |-> Cardinality({i \in with : attr[i].lower}),
         unpriced |-> Cardinality(Of("unpriced")), unreadable |-> Cardinality(Keys(rows) \ read),
         unpricedTokenTotal |-> SumOf(unpriced, Keys(rows)),
         pricedUsd |-> Usd(Keys(rows)),
         tokenTotal |-> SumOf(known, Keys(rows)),
         byAgent |-> Split(Agent), byProject |-> Split(Project),
         waste |-> aggregateWaste([i \in read |-> loaded[i]])]
aggregateWindow(rows, loaded) == WindowSums(rows, loaded, AttributionsOf(loaded, Keys(rows)))

computeDelta(current, prior) ==
    [hasPrior |-> prior.sessionCount > 0,
     usd |-> IF current.pricedUsd # None /\ prior.pricedUsd # None
             THEN current.pricedUsd - prior.pricedUsd ELSE None,
     tokens |-> current.tokenTotal - prior.tokenTotal,
     currentExcluded |-> current.unpriced + current.unreadable,
     priorExcluded |-> prior.unpriced + prior.unreadable]

At(f, S) == [i \in S |-> f[i]]
Digest(current, prior) ==
    [current |-> current, prior |-> prior, delta |-> computeDelta(current, prior)]
assembleWeekDigest(rows, loaded, b) ==
    Digest(aggregateWindow(At(rows, currentOf(rows, b)), At(loaded, currentOf(rows, b))),
           aggregateWindow(At(rows, priorOf(rows, b)), At(loaded, priorOf(rows, b))))

-----------------------------------------------------------------------------
(* The budget file: absent, unreadable, or a cap of one kind for the day,  *)
(* the week or both.                                                       *)
Cap(usd, tokens) == [usd |-> usd, tokens |-> tokens]
validPeriod(cap) ==
    \/ cap = None
    \/ /\ Cardinality({k \in DOMAIN cap : cap[k] # None}) = 1
       /\ \A k \in DOMAIN cap : cap[k] # None => Or(cap[k], 0) > 0
validateBudgetConfig(config) ==
    /\ config.daily # None \/ config.weekly # None
    /\ validPeriod(config.daily) /\ validPeriod(config.weekly)

windowFor(period, now) == IF period = "daily" THEN dailyWindow(now) ELSE weeklyWindow(now)

budgetRows(rows, period, now) ==
    {i \in Keys(rows) : TopLevel(rows[i]) /\ inWindow(rows[i].end, windowFor(period, now))}

BudgetSum(cap, in, rows, attr) ==
    LET read == DOMAIN attr
        with == {i \in read : attr[i].totalUsd # None}
        sure == {i \in in : ~rows[i].degraded}
        lost == sure \ read
    IN  IF cap.tokens # None
        THEN [kind |-> "tokens", cap |-> cap.tokens, inWindow |-> Cardinality(in),
              spent |-> SumOf([i \in sure |-> rows[i].tokens], sure), full |-> 0, partial |-> 0,
              excluded |-> Cardinality(in \ sure), unreadable |-> Cardinality(in \ sure),
              unpricedTokens |-> 0]
        ELSE [kind |-> "usd", cap |-> cap.usd, inWindow |-> Cardinality(in),
              spent |-> SumOf([i \in with |-> attr[i].totalUsd], with),
              full |-> Cardinality({i \in with : CoverageOf(attr[i]) = "full"}),
              partial |-> Cardinality({i \in with : CoverageOf(attr[i]) = "partial"}),
              excluded |-> Cardinality(in \ with), unreadable |-> Cardinality(in \ read),
              unpricedTokens |-> SumOf([i \in read |-> attr[i].unpricedTokens.total], read)
                                   + SumOf([i \in lost |-> rows[i].tokens], lost)]

computeBudgetSum(period, cap, now, rows, loaded) ==
    LET in == budgetRows(rows, period, now)
    IN  BudgetSum(cap, in, rows, AttributionsOf(loaded, in))

budgetExceeded(sum) == sum.spent > sum.cap

(* evaluateBudget: one sum per configured period. *)
evaluateBudget(config, now, rows, loaded) ==
    LET periods == {p \in {"daily", "weekly"} : config[p] # None}
    IN  IF ~validateBudgetConfig(config)
        THEN [status |-> "invalid", sums |-> [p \in {} |-> 0], exceeded |-> FALSE]
        ELSE LET sums == [p \in periods |-> computeBudgetSum(p, config[p], now, rows, loaded)]
             IN  [status |-> "ok", sums |-> sums,
                  exceeded |-> \E p \in periods : budgetExceeded(sums[p])]
================================================================================
