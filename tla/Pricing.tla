-------------------------------- MODULE Pricing --------------------------------
(***************************************************************************)
(* What a session's tokens cost at least (src/pricing/resolve.ts,          *)
(* attribution.ts, netCache.ts, costShape.ts): the rate card of a model    *)
(* and a date, the floor of one request, of a turn, of a session, and how  *)
(* it is shared among the tools and models.                                *)
(*                                                                         *)
(* Rates are whole numbers per token, dates are day numbers, and dollars   *)
(* are counted in units small enough for the even splits to be exact; what *)
(* binary fractions do to the sums is left to the ledger.                  *)
(***************************************************************************)
EXTENDS Integers, Sequences, FiniteSets, Functions, TLC

CONSTANTS
    None,          \* no value
    Tables,        \* the bundled price tables, by vendor; None: no such file
    Family,        \* model id -> the vendor its prefix names, or None
    Routed,        \* model ids that name a cloud or a provider
    SourceVendor   \* agent -> its vendor, or None

Scale == 6
ThinkingReply == "(thinking/reply)"
Unattributed == "(unattributed usage)"

Or(x, default) == IF x = None THEN default ELSE x
Sum(s) ==
    LET sum[i \in 0..Len(s)] == IF i = 0 THEN 0 ELSE sum[i - 1] + s[i] IN sum[Len(s)]
(* The function that is f(x) on the finite set S, written out (TLC would   *)
(* compute a value of [x \in S |-> f(x)] again at every use).              *)
Table(S, f(_)) ==
    LET table[T \in SUBSET S] ==
          IF T = {} THEN <<>>
          ELSE LET x == CHOOSE x \in T : TRUE IN (x :> f(x)) @@ table[T \ {x}]
    IN  table[S]
(* The sum over a finite set of what `f` gives for its members. *)
SumOf(f, S) ==
    LET sum[T \in SUBSET S] ==
          IF T = {} THEN 0
          ELSE LET x == CHOOSE x \in T : TRUE IN f[x] + sum[T \ {x}]
    IN  sum[S]

-----------------------------------------------------------------------------
(* Usage.  `w5` and `w1` are the parts of `cacheCreation` written for five *)
(* minutes and for an hour, None when the transcript does not split it;    *)
(* `complete` says that the transcript had every cache counter.            *)
Usage(i, o, r, c, w5, w1, t, complete) ==
    [input |-> i, output |-> o, cacheRead |-> r, cacheCreation |-> c, w5 |-> w5, w1 |-> w1,
     total |-> t, complete |-> complete]
emptyUsage == Usage(0, 0, 0, 0, None, None, 0, FALSE)
Counters == {"input", "output", "cacheRead", "cacheCreation", "w5", "w1", "total"}

addOptional(a, b) == IF a = None /\ b = None THEN None ELSE Or(a, 0) + Or(b, 0)
addUsage(a, b) ==
    [x \in DOMAIN emptyUsage |->
        IF x = "complete" THEN FALSE
        ELSE IF x \in {"w5", "w1"} THEN addOptional(a[x], b[x]) ELSE a[x] + b[x]]
SumUsage(us) ==
    LET sum[i \in 0..Len(us)] == IF i = 0 THEN emptyUsage ELSE addUsage(sum[i - 1], us[i])
    IN  sum[Len(us)]

promptInput(u) == u.input + u.cacheRead + u.cacheCreation

isPriceableUsage(u) ==
    /\ \A x \in Counters : Or(u[x], 0) >= 0
    /\ u.total = promptInput(u) + u.output
    /\ Or(u.w5, 0) + Or(u.w1, 0) <= u.cacheCreation

-----------------------------------------------------------------------------
(* The rate card.  Both ends of a date window belong to it. *)
Within(w, date) == w.from <= date /\ (w.to = None \/ date <= w.to)

Aliased(table, id, date) ==
    {m \in DOMAIN table.models : \E a \in table.models[m].aliases : a.id = id /\ Within(a, date)}
Canonical(table, id, date) ==
    IF id \in DOMAIN table.models THEN id
    ELSE IF Aliased(table, id, date) = {} THEN None
    ELSE CHOOSE m \in Aliased(table, id, date) : TRUE

resolvedInTable(table, id, date) ==
    LET model == IF table = None THEN None ELSE Canonical(table, id, date)
        rows  == IF model = None THEN {}
                 ELSE {r \in table.models[model].history : Within(r, date)}
    IN  IF rows = {} THEN None ELSE CHOOSE r \in rows : TRUE

(* The highest tier whose threshold the request's prompt exceeds. *)
ratesForUsage(u, row) ==
    LET over == {t \in row.tiers : promptInput(u) > t.above}
    IN  IF over = {} THEN row.rates
        ELSE (CHOOSE t \in over : \A o \in over : t.above >= o.above).rates

write5(rates) == IF rates.write5 # None THEN rates.write5 ELSE rates.write
write1(rates) == IF rates.write1 # None THEN rates.write1 ELSE rates.write
unsplit(u) == u.cacheCreation - Or(u.w5, 0) - Or(u.w1, 0)

cacheWriteCost(u, rates) ==
    Or(write5(rates), 0) * (Or(u.w5, 0) + unsplit(u)) + Or(write1(rates), 0) * Or(u.w1, 0)

cacheWriteIsLowerBound(u, rates) ==
    \/ unsplit(u) + Or(u.w5, 0) > 0 /\ write5(rates) = None
    \/ Or(u.w1, 0) > 0 /\ write1(rates) = None
cacheReadIsLowerBound(u, rates) == u.cacheRead > 0 /\ rates.cached = None

(* Mutation: a read without a cited rate costs what input does. *)
cachedRate_AtInput(rates) == Or(rates.cached, rates.input)

cachedRate(rates) == Or(rates.cached, 0)

(* costOf: what has no cited rate adds nothing. *)
costOf(u, row) ==
    LET rates == ratesForUsage(u, row)
    IN  Scale * (rates.input * u.input + rates.output * u.output
                 + cachedRate(rates) * u.cacheRead + cacheWriteCost(u, rates))

cacheReadAtInputRateDelta(u, row) ==
    LET rates == ratesForUsage(u, row)
    IN  IF u.cacheRead = 0 THEN 0
        ELSE IF rates.cached = None THEN None
        ELSE IF rates.cached > rates.input THEN None
        ELSE Scale * (rates.input - rates.cached) * u.cacheRead

(* The current row, among the vendor's comparison candidates, with the     *)
(* lowest input rate; the first listed one on a tie.                       *)
cheapestCurrentRow(vendor) ==
    LET table == Tables[vendor]
        Current(m) == {r \in table.models[m].history : r.to = None}
        found == IF table = None THEN {}
                 ELSE {i \in DOMAIN table.candidates :
                        /\ table.candidates[i] \in DOMAIN table.models
                        /\ Current(table.candidates[i]) # {}}
        Row(i) == CHOOSE r \in Current(table.candidates[i]) : TRUE
        Better(i, j) == \/ Row(i).rates.input < Row(j).rates.input
                        \/ Row(i).rates.input = Row(j).rates.input /\ i <= j
    IN  IF found = {} THEN None ELSE Row(CHOOSE i \in found : \A j \in found : Better(i, j))

-----------------------------------------------------------------------------
(* Which vendor's table a request belongs to.  `provider` is the vendor it *)
(* names, "routed" for a provider that is none of them, None for nothing.  *)
vendorForModel(id) == Family[id]
vendorForTurn(source, id, provider) ==
    IF provider = "routed" THEN None
    ELSE IF provider # None THEN provider
    ELSE IF id \in Routed THEN None
    ELSE IF id # None /\ vendorForModel(id) # None THEN vendorForModel(id)
    ELSE SourceVendor[source]

TableOf(vendor) == IF vendor \in DOMAIN Tables THEN Tables[vendor] ELSE None

(* Why an id has no price, when the bundled tables can tell. *)
Knows(table, id) ==
    \/ id \in DOMAIN table.models
    \/ \E m \in DOMAIN table.models : \E a \in table.models[m].aliases : a.id = id
Cites(table) == \E m \in DOMAIN table.models : table.models[m].history # {}
unpricedReason(vendor, id) ==
    LET table == TableOf(vendor)
        all   == {Tables[v] : v \in DOMAIN Tables}
    IN  IF vendor # None
        THEN IF table = None THEN None
             ELSE IF id \in table.omitted THEN "omitted"
             ELSE IF Knows(table, id) THEN "no-dated-row"
             ELSE IF Cites(table) THEN "vendor-absent" ELSE None
        ELSE IF None \in all THEN None
             ELSE IF \E t \in all : Knows(t, id) \/ id \in t.omitted THEN None
             ELSE IF \E t \in all : Cites(t) THEN "bundle-absent" ELSE None

-----------------------------------------------------------------------------
(* A turn's requests: the ones it was recorded with, if they add up to its *)
(* usage, or the turn as a whole.                                          *)
Unit(u, date, model, provider) ==
    [usage |-> u, date |-> date, model |-> model, provider |-> provider]
Turn(u, units, date, model, provider, calls) ==
    [usage |-> u, units |-> units, date |-> date, model |-> model, provider |-> provider,
     calls |-> calls]

sameUsageComponents(a, b) == \A x \in Counters : a[x] = b[x]
pricingUnitsForTurn(t) ==
    IF t.usage = None THEN None
    ELSE IF ~isPriceableUsage(t.usage) THEN None
    ELSE IF t.units = None THEN <<Unit(t.usage, t.date, t.model, t.provider)>>
    ELSE IF t.units = <<>> \/ \E i \in DOMAIN t.units : ~isPriceableUsage(t.units[i].usage)
    THEN None
    ELSE IF sameUsageComponents(SumUsage([i \in DOMAIN t.units |-> t.units[i].usage]), t.usage)
    THEN t.units
    ELSE None

costTurnAtRow(t, row) ==
    LET us == pricingUnitsForTurn(t)
    IN  IF us = None THEN None ELSE Sum([i \in DOMAIN us |-> costOf(us[i].usage, row)])

vendorOf(s, unit) == vendorForTurn(s.source, unit.model, unit.provider)
Identified(unit) == unit.model # None /\ unit.date # None
(* The row that prices a request, None if nothing may. *)
rowOf(s, unit) ==
    IF s.unpriceable \/ unit.provider = "routed" \/ ~Identified(unit) THEN None
    ELSE resolvedInTable(TableOf(vendorOf(s, unit)), unit.model, unit.date)

(* A request at its row. *)
PriceAt(s, unit, row) ==
    LET u     == unit.usage
        rates == ratesForUsage(u, row)
    IN  IF row = None
        THEN [usd |-> None, lower |-> FALSE, delta |-> None,
              reason |-> IF s.unpriceable \/ unit.provider = "routed" \/ ~Identified(unit)
                            \/ u.total = 0
                         THEN None ELSE unpricedReason(vendorOf(s, unit), unit.model)]
        ELSE [usd |-> costOf(u, row),
              lower |-> cacheWriteIsLowerBound(u, rates) \/ cacheReadIsLowerBound(u, rates),
              delta |-> cacheReadAtInputRateDelta(u, row), reason |-> None]
priceTurn(s, unit) == PriceAt(s, unit, rowOf(s, unit))

(* A turn's floor: the sum over the requests that have a price.  The usage *)
(* of the others is told exactly, and no comparison is made without them.  *)
unpricedUnits(units, priced) ==
    SumUsage([i \in DOMAIN units |->
                IF priced[i].usd = None THEN units[i].usage ELSE emptyUsage])
Unpriceable == [usd |-> None, unpriced |-> emptyUsage, lower |-> FALSE, delta |-> None,
                byModel |-> [m \in {} |-> 0], reasons |-> {}]
FloorOf(units, priced) ==
    LET with   == {i \in DOMAIN units : priced[i].usd # None}
        reads  == {i \in with : units[i].usage.cacheRead > 0}
    IN  [usd |-> IF with = {} THEN None ELSE SumOf([i \in with |-> priced[i].usd], with),
         unpriced |-> unpricedUnits(units, priced),
         lower |-> \E i \in with : priced[i].lower,
         delta |-> IF with # DOMAIN units \/ \E i \in reads : priced[i].delta = None
                   THEN None ELSE SumOf([i \in reads |-> priced[i].delta], reads),
         byModel |-> [m \in {units[i].model : i \in with} |->
                        LET of == {i \in with : units[i].model = m}
                        IN  SumOf([i \in of |-> priced[i].usd], of)],
         reasons |-> {[id |-> units[i].model, kind |-> priced[i].reason] :
                        i \in {j \in DOMAIN units : priced[j].reason # None}}]
priceUnits(s, units) ==
    IF units = None THEN Unpriceable
    ELSE FloorOf(units, Table(DOMAIN units, LAMBDA i : priceTurn(s, units[i])))
priceSessionTurn(s, t) == priceUnits(s, pricingUnitsForTurn(t))

(* What a caller that needs the whole turn gets: no dollars for a part. *)
completeUsd(p) == IF p.usd # None /\ p.unpriced.total = 0 THEN p.usd ELSE None

-----------------------------------------------------------------------------
(* computeNetCache: what the requests would have cost without a cache,     *)
(* less what they did; only when every request has every counter and rate. *)
(* Mutation: the dearer writes are forgotten. *)
netCacheAtRow_Reads(u, row) == cacheReadAtInputRateDelta(u, row)

netCacheAtRow(u, row) ==
    LET rates == ratesForUsage(u, row)
    IN  IF \/ ~u.complete \/ ~isPriceableUsage(u) \/ u.w5 = None \/ u.w1 = None
        THEN None
        ELSE IF \/ u.w5 + u.w1 # u.cacheCreation
                \/ u.cacheRead > 0 /\ rates.cached = None
                \/ u.w5 > 0 /\ write5(rates) = None
                \/ u.w1 > 0 /\ write1(rates) = None
        THEN None
        ELSE Scale * (u.cacheRead * (rates.input - Or(rates.cached, rates.input))
                      - u.w5 * (Or(write5(rates), rates.input) - rates.input)
                      - u.w1 * (Or(write1(rates), rates.input) - rates.input))

NoNetCache(reason) == [usd |-> None, reason |-> reason]
computeNetCache(s) ==
    LET Units(i) == IF s.turns[i].usage = None THEN <<>> ELSE pricingUnitsForTurn(s.turns[i])
        requests == UNION {{<<i, j>> : j \in DOMAIN Units(i)} :
                             i \in {k \in DOMAIN s.turns : Units(k) # None}}
        Of(r)    == Units(r[1])[r[2]]
        Delta(r) == netCacheAtRow(Of(r).usage, rowOf(s, Of(r)))
    IN  IF s.source = "codex" THEN NoNetCache("write-counters-unobserved")
        ELSE IF s.source # "claude-code" THEN NoNetCache("unsupported-adapter")
        ELSE IF s.unpriceable \/ s.reconciliationFailed \/ s.dropped > 0
                \/ \E u \in {s.unattributed, s.excluded, s.conflicting} :
                      Or(u, emptyUsage).total > 0
        THEN NoNetCache("unpriced-usage")
        ELSE IF \E i \in DOMAIN s.turns : s.turns[i].usage = None /\ s.turns[i].model # None
        THEN NoNetCache("incomplete-cache-evidence")
        ELSE IF \E i \in DOMAIN s.turns : Units(i) = None THEN NoNetCache("unpriced-usage")
        ELSE IF \E r \in requests : ~Of(r).usage.complete
        THEN NoNetCache("incomplete-cache-evidence")
        ELSE IF \E r \in requests : vendorOf(s, Of(r)) # "anthropic" \/ rowOf(s, Of(r)) = None
        THEN NoNetCache("unpriced-usage")
        ELSE IF \E r \in requests : Delta(r) = None THEN NoNetCache("price-row-incomplete")
        ELSE IF \A r \in requests : Of(r).usage.cacheRead + Of(r).usage.cacheCreation = 0
        THEN NoNetCache("no-cache-activity")
        ELSE [usd |-> SumOf([r \in requests |-> Delta(r)], requests), reason |-> None]

-----------------------------------------------------------------------------
(* attributeByTool: every turn's floor and tokens, split evenly over its   *)
(* calls (here: the token total times `Scale`).                            *)
ToolsOf(t) == IF t.calls = <<>> THEN <<ThinkingReply>>
              ELSE [i \in DOMAIN t.calls |-> t.calls[i].tool]
Times(tool, t) == Cardinality({i \in DOMAIN ToolsOf(t) : ToolsOf(t)[i] = tool})
TotalOf(t) == IF t.usage = None THEN 0 ELSE t.usage.total

(* Mutation: a turn with some price has no unpriced tokens. *)
unpricedOf_Whole(t, p) == IF p.usd = None THEN Or(t.usage, emptyUsage) ELSE emptyUsage

unpricedOf(t, p) ==
    IF TotalOf(t) = 0 THEN emptyUsage ELSE IF p.usd = None THEN t.usage ELSE p.unpriced

ToolRows(s, priced) ==
    LET all == DOMAIN s.turns
        Share(x, i, k) == (x \div Len(ToolsOf(s.turns[i]))) * k
        lost == Or(s.unattributed, emptyUsage)
        RowOf(tool) ==
          LET in   == {i \in all : Times(tool, s.turns[i]) > 0}
              with == {i \in in : priced[i].usd # None}
          IN  [usd |-> IF with = {} THEN None
                       ELSE SumOf([i \in with |->
                                Share(priced[i].usd, i, Times(tool, s.turns[i]))], with),
               tokens |-> SumOf([i \in in |->
                            Share(Scale * TotalOf(s.turns[i]), i, Times(tool, s.turns[i]))], in),
               calls |-> SumOf([i \in in |-> Times(tool, s.turns[i])], in)]
        tools == UNION {Range(ToolsOf(s.turns[i])) : i \in all}
    IN  Table(tools, RowOf)
        @@ (IF lost.total = 0 THEN <<>>
            ELSE Unattributed :> [usd |-> None, tokens |-> Scale * lost.total, calls |-> 0])
(* What is known of the session when its turns and tools are priced. *)
Attribution(s, priced, byTool) ==
    LET n       == Len(s.turns)
        with    == {i \in 1..n : priced[i].usd # None}
        lost    == Or(s.unattributed, emptyUsage)
        dollars == {tool \in DOMAIN byTool : byTool[tool].usd # None}
        models  == UNION {DOMAIN priced[i].byModel : i \in with}
        reads   == {i \in 1..n : s.turns[i].usage # None /\ Or(s.turns[i].usage, emptyUsage).cacheRead > 0}
        total   == addUsage(lost, SumUsage([i \in 1..n |-> Or(s.turns[i].usage, emptyUsage)]))
        used    == {i \in 1..n : TotalOf(s.turns[i]) > 0}
    IN  [byTool |-> byTool,
         totalUsd |-> IF dollars = {} THEN None
                      ELSE SumOf([tool \in dollars |-> byTool[tool].usd], dollars),
         totalTokens |-> total,
         unpricedTokens |-> addUsage(lost,
             SumUsage([i \in 1..n |-> unpricedOf(s.turns[i], priced[i])])),
         lower |-> \E i \in with : priced[i].lower,
         byModel |-> [m \in models |->
             LET of == {i \in with : m \in DOMAIN priced[i].byModel}
             IN  SumOf([i \in of |-> priced[i].byModel[m]], of)],
         usageTurnCount |-> Cardinality(used),
         unpricedUsageTurnCount |->
             Cardinality({i \in used : priced[i].usd = None \/ priced[i].unpriced.total > 0}),
         reasons |-> UNION {priced[i].reasons : i \in 1..n},
         readsAtInputRate |->
             IF \/ dollars = {} \/ total.cacheRead = 0 \/ lost.cacheRead > 0
                \/ \E i \in reads : i \notin with \/ priced[i].delta = None
             THEN None ELSE SumOf([i \in reads |-> priced[i].delta], reads)]
ShareOut(s, priced) == Attribution(s, priced, ToolRows(s, priced))
attributeByTool(s) ==
    ShareOut(s, Table(DOMAIN s.turns, LAMBDA i : priceSessionTurn(s, s.turns[i])))
================================================================================
