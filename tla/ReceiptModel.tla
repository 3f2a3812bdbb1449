------------------------------ MODULE ReceiptModel ------------------------------
(***************************************************************************)
(* A receipt of a session (src/receipt/model.ts), of a range of its turns, *)
(* and of a session with its subagents (subagents.ts): totals, the tokens  *)
(* that have no price, what is said about gaps, and the claim of coverage  *)
(* (pricingCoverage.ts); and the amounts it prints (format.ts).            *)
(***************************************************************************)
EXTENDS Waste

CONSTANTS
    OmitsWrites,  \* Codex models whose traces omit cache writes
    Decimals,     \* the precisions of a printed amount, ascending
    Finest,       \* decimals of the smallest difference between amounts
    Residue       \* what a binary sum may be off, in units of 10^-Finest

(* In the code the precisions are 2 and 4 to 12. *)
ASSUME ReceiptModelAssumption ==
    /\ Finest \in Nat /\ Decimals \in Seq(0..(Finest - 1)) /\ Residue \in Nat
    /\ Len(Decimals) > 1 /\ \A i \in 1..(Len(Decimals) - 1) : Decimals[i] < Decimals[i + 1]

Has(u) == u # None /\ Or(u, emptyUsage).total > 0

-----------------------------------------------------------------------------
(* sliceSessionForReceipt: turns `a` to `b`, with the compactions before   *)
(* and right after them; usage of the session as a whole belongs to no     *)
(* part of it.                                                             *)
Largest(S) == CHOOSE x \in S : \A y \in S : x >= y
Smallest(S) == CHOOSE x \in S : \A y \in S : x <= y
Earliest(dates) == IF dates = {} THEN None ELSE Smallest(dates)
Latest(dates) == IF dates = {} THEN None ELSE Largest(dates)

sliceSessionForReceipt(s, a, b) ==
    LET start == Largest({1, a})
        end   == Smallest({Len(s.turns), b})
        full  == start = 1 /\ end = Len(s.turns)
        turns == SubSeq(s.turns, start, end)
        dates == {turns[i].date : i \in DOMAIN turns} \ {None}
        In(c) == start <= c /\ c <= end + 1
        kept  == SelectSeq(s.compactions, In)
        rest  == SumUsage([i \in DOMAIN turns |-> Or(turns[i].usage, emptyUsage)])
    IN  [s EXCEPT
           !.turns = turns,
           !.start = Earliest(dates), !.end = Latest(dates),
           !.compactions = [i \in DOMAIN kept |-> kept[i] - start + 1],
           !.unattributed = IF full THEN @ ELSE None,
           !.excluded = IF full THEN @
                        ELSE IF s.unattributed # None /\ @ # None
                        THEN addUsage(s.unattributed, @)
                        ELSE IF s.unattributed # None THEN s.unattributed ELSE @,
           !.total = addUsage(rest, IF full THEN Or(s.unattributed, emptyUsage) ELSE emptyUsage)]

-----------------------------------------------------------------------------
(* Parts of the receipt that list models and rows. *)
MixModel(s, t, unit) ==
    IF unit.model # None THEN unit.model ELSE IF t.model # None THEN t.model ELSE s.model
buildModelMix(s) ==
    LET Units(i) == IF pricingUnitsForTurn(s.turns[i]) = None THEN <<>>
                    ELSE pricingUnitsForTurn(s.turns[i])
        requests == UNION {{<<i, j>> : j \in DOMAIN Units(i)} : i \in DOMAIN s.turns}
        Name(r)  == MixModel(s, s.turns[r[1]], Units(r[1])[r[2]])
        Tokens(m) == LET of == {r \in requests : Name(r) = m}
                     IN  SumOf([r \in of |-> Units(r[1])[r[2]].usage.total], of)
        models == {Name(r) : r \in requests} \ {None}
    IN  [m \in models \cup (IF Has(s.unattributed) THEN {Unattributed} ELSE {}) |->
            IF m = Unattributed THEN s.unattributed.total ELSE Tokens(m)]

findPeakTurn(s) ==
    LET used == {i \in DOMAIN s.turns : s.turns[i].usage # None}
    IN  IF used = {} THEN 0
        ELSE CHOOSE i \in used : \A j \in used :
               \/ TotalOf(s.turns[i]) > TotalOf(s.turns[j])
               \/ TotalOf(s.turns[i]) = TotalOf(s.turns[j]) /\ i <= j

(* Gaps that a receipt tells of. *)
detectTimeCaveats(s) ==
    {k \in {"time-mtime", "time-span"} :
        \/ k = "time-mtime" /\ \E i \in DOMAIN s.turns : Or(s.turns[i].date, 0) > s.mtime
        \/ /\ k = "time-span" /\ s.start # None /\ s.end # None
           /\ Or(s.end, 0) <= Or(s.start, 0) /\ s.total.total > 0}

unobservedCacheWrites(s, attribution) ==
    s.source = "codex" /\ attribution.totalUsd # None
      /\ \E m \in DOMAIN attribution.byModel : m \in OmitsWrites
caveatsOf(s, attribution) ==
    detectTimeCaveats(s) \cup
    {k \in {"unpriced-model", "cost-lower-bound-cache-tier", "unobserved-cache-write-tokens",
            "unattributed-aggregate-usage", "dropped-transcript-records",
            "partial-priced-coverage"} :
        CASE k = "unpriced-model" -> attribution.reasons # {}
          [] k = "cost-lower-bound-cache-tier" -> attribution.lower
          [] k = "unobserved-cache-write-tokens" -> unobservedCacheWrites(s, attribution)
          [] k = "unattributed-aggregate-usage" ->
               s.reconciliationFailed \/ Has(s.unattributed) \/ Has(s.excluded)
                 \/ Has(s.conflicting)
          [] k = "dropped-transcript-records" -> s.dropped > 0
          [] k = "partial-priced-coverage" ->
               attribution.totalUsd # None /\ attribution.unpricedUsageTurnCount > 0}

NoSubagents == [count |-> 0, pricedUsd |-> None, unpricedTotal |-> 0,
                unpricedCount |-> 0, unreadableCount |-> 0]
ReceiptOf(s, attribution) ==
    LET exact == /\ attribution.totalUsd # None /\ attribution.unpricedTokens.total = 0
                 /\ ~attribution.lower
    IN  [attribution |-> attribution,
         totalUsd |-> attribution.totalUsd,
         totalTokens |-> attribution.totalTokens.total,
         sessionTotal |-> s.total.total,
         unpriceable |-> s.unpriceable,
         lower |-> attribution.lower,
         unobserved |-> unobservedCacheWrites(s, attribution),
         caveats |-> caveatsOf(s, attribution),
         mix |-> buildModelMix(s),
         peak |-> findPeakTurn(s),
         priceDelta |-> IF exact THEN priceDeltaFootnote(s, attribution.totalTokens,
                                                         attribution.totalUsd)
                        ELSE None,
         waste |-> wasteLines(s),
         reReads |-> detectSameFileReReads(s),
         costShape |-> computeCostShape(s),
         netCache |-> computeNetCache(s),
         verification |-> verificationEvidence(s),
         subagents |-> NoSubagents]
buildReceiptModel(s) == ReceiptOf(s, attributeByTool(s))

-----------------------------------------------------------------------------
(* Subagents.  A child is None when its transcript cannot be read; the     *)
(* window is the whole session, the time a slice spans, or not known.      *)
Whole == [kind |-> "full", start |-> None, end |-> None]
windowOf(slice) ==
    IF slice.start = None THEN [Whole EXCEPT !.kind = "unknown"]
    ELSE [kind |-> "range", start |-> slice.start, end |-> slice.end]
Overlaps(child, window) ==
    \/ window.kind = "full"
    \/ /\ window.kind = "range"
       /\ IF child.start # None /\ child.end # None
          THEN child.start <= window.end /\ child.end >= window.start
          ELSE LET at == Or(child.start, child.end)
               IN  at # None /\ window.start <= Or(at, 0) /\ Or(at, 0) <= window.end

ReadRow(model) ==
    [usd |-> model.totalUsd, tokens |-> model.totalTokens,
     unpriced |-> IF model.totalUsd = None THEN model.totalTokens
                  ELSE model.attribution.unpricedTokens.total,
     unreadable |-> FALSE,
     caveats |-> model.caveats \cap {"unpriced-model", "cost-lower-bound-cache-tier",
                    "unobserved-cache-write-tokens", "dropped-transcript-records"}]
SubagentRow(child) ==
    IF child = None
    THEN [usd |-> None, tokens |-> 0, unpriced |-> 0, unreadable |-> TRUE, caveats |-> {}]
    ELSE ReadRow(buildReceiptModel(child))
rollupChildren(children, window) ==
    LET in == {i \in DOMAIN children : IF children[i] = None THEN TRUE
                                       ELSE Overlaps(children[i], window)}
    IN  Table(in, LAMBDA i : SubagentRow(children[i]))

foldSubagentRows(rows) ==
    LET read   == {i \in DOMAIN rows : ~rows[i].unreadable}
        priced == {i \in read : rows[i].usd # None}
    IN  [count |-> Cardinality(DOMAIN rows),
         pricedUsd |-> IF priced = {} THEN None
                       ELSE SumOf([i \in priced |-> rows[i].usd], priced),
         unpricedTotal |-> SumOf([i \in read |-> rows[i].unpriced], read),
         unpricedCount |-> Cardinality({i \in read : rows[i].usd = None \/ rows[i].unpriced > 0}),
         unreadableCount |-> Cardinality(DOMAIN rows \ read)]

subagentCaveats(rows, agg, parentPriced) ==
    LET Some(k) == \E i \in DOMAIN rows : k \in rows[i].caveats
    IN  {k \in {"subagents-unreadable", "subagents-unpriced", "subagents-priced-tokens-only",
                "subagents-dropped-records", "unobserved-cache-write-tokens",
                "cost-lower-bound-cache-tier", "unpriced-model"} :
          CASE k = "subagents-unreadable" -> agg.unreadableCount > 0
            [] k = "subagents-unpriced" -> agg.unpricedCount > 0
            [] k = "subagents-priced-tokens-only" -> ~parentPriced /\ agg.pricedUsd # None
            [] k = "subagents-dropped-records" -> Some("dropped-transcript-records")
            [] OTHER -> Some(k)}

WithRows(model, rows) ==
    LET agg == foldSubagentRows(rows)
    IN  IF DOMAIN rows = {} THEN model
        ELSE [model EXCEPT !.subagents = agg,
                           !.caveats = @ \cup subagentCaveats(rows, agg, model.totalUsd # None)]
(* `children` is None when they cannot be listed. *)
attachSubagentRollup(model, children, window) ==
    IF children = None
    THEN [model EXCEPT !.caveats = @ \cup {"subagent-rollup-unavailable"}]
    ELSE WithRows(model, rollupChildren(children, window))

parentPricedUsd(model) == IF model.unpriceable THEN None ELSE model.totalUsd
combinedPricedUsd(model) ==
    IF parentPricedUsd(model) = None /\ model.subagents.pricedUsd = None THEN None
    ELSE Or(parentPricedUsd(model), 0) + Or(model.subagents.pricedUsd, 0)

(* What a receipt says of its own completeness. *)
knownUnpricedTokens(model) ==
    IF model.unpriceable THEN model.sessionTotal
    ELSE IF model.totalUsd # None THEN model.attribution.unpricedTokens.total
    ELSE model.totalTokens
pricingCoverageOf(model) ==
    IF model.unpriceable \/ model.totalUsd = None THEN "unpriced"
    ELSE IF \/ knownUnpricedTokens(model) > 0 \/ model.lower \/ model.unobserved
            \/ model.caveats \cap {"dropped-transcript-records", "partial-priced-coverage"} # {}
    THEN "partial" ELSE "full"
IncompleteChildren ==
    {"subagents-unpriced", "subagents-unreadable", "subagents-dropped-records",
     "subagent-rollup-unavailable", "unobserved-cache-write-tokens",
     "cost-lower-bound-cache-tier"}
combinedPricingCoverageOf(model) ==
    IF combinedPricedUsd(model) = None THEN "unpriced"
    ELSE IF \/ pricingCoverageOf(model) # "full"
            \/ model.subagents.unpricedTotal > 0 \/ model.subagents.unpricedCount > 0
            \/ model.subagents.unreadableCount > 0 \/ model.caveats \cap IncompleteChildren # {}
    THEN "partial" ELSE "full"

-----------------------------------------------------------------------------
(* Printed amounts, in units of 10^-Finest. *)
Unit10(decimals) ==
    LET power[n \in 0..Finest] == IF n = 0 THEN 1 ELSE 10 * power[n - 1]
    IN  power[Finest - decimals]
floorUsdUnits(n, decimals) == (IF n > 0 THEN n ELSE 0) \div Unit10(decimals)

(* One precision for all: cents, or finer as soon as an amount is not      *)
(* cents or would disappear.                                               *)
NeedsFour(n) ==
    LET cent == Unit10(Decimals[1])
        nearest == ((2 * n + cent) \div (2 * cent)) * cent
    IN  nearest > n \/ n - nearest > Residue
EnoughFor(n, i) ==
    n <= 0 \/ /\ NeedsFour(n) => i > 1
              /\ floorUsdUnits(n, Decimals[i]) > 0 \/ i = Len(Decimals)
usdFloorDecimals(values) ==
    Decimals[Smallest({i \in DOMAIN Decimals : \A v \in values : EnoughFor(v, i)})]

(* Every row rounded down; if together they exceed the aggregate rounded   *)
(* down, the excess is taken from the largest rows.  `raw`: the aggregate, *)
(* or None.                                                                *)
ShownFirst(units, i) ==
    {j \in DOMAIN units : units[j] > units[i] \/ (units[j] = units[i] /\ j < i)}
(* Mutation: the rows are not held below the aggregate. *)
formatUsdFloorLedger_Rows(values, raw) ==
    LET digits == usdFloorDecimals({values[i] : i \in DOMAIN values} \cup {raw})
        units  == [i \in DOMAIN values |-> floorUsdUnits(values[i], digits)]
    IN  [digits |-> digits, amounts |-> units, total |-> Sum(units)]

formatUsdFloorLedger(values, raw) ==
    LET shown  == {values[i] : i \in DOMAIN values} \cup (IF raw = None THEN {} ELSE {raw})
        digits == usdFloorDecimals(shown)
        units  == [i \in DOMAIN values |-> floorUsdUnits(values[i], digits)]
        excess == IF raw = None THEN 0 ELSE Sum(units) - floorUsdUnits(raw, digits)
        Left(i) == excess - SumOf([j \in ShownFirst(units, i) |-> units[j]], ShownFirst(units, i))
        Removed(i) == IF Left(i) <= 0 THEN 0 ELSE Smallest({Left(i), units[i]})
        amounts == [i \in DOMAIN units |-> units[i] - Removed(i)]
    IN  [digits |-> digits, amounts |-> amounts, total |-> Sum(amounts)]
================================================================================
