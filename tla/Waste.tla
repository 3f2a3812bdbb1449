--------------------------------- MODULE Waste ---------------------------------
(***************************************************************************)
(* What a receipt says of how the tokens were spent (src/pricing/waste.ts, *)
(* costShape.ts, src/analysis/verification.ts): calls repeated over and    *)
(* over, files read again, short replies of an expensive model, context    *)
(* compacted and refilled, the shape of the cost and the last check.  What *)
(* a call is about is a name: `input` stands for its normalised arguments. *)
(***************************************************************************)
EXTENDS Pricing

CONSTANTS
    PathOf,     \* input -> the file it names, or None
    Touches,    \* shell input -> the files whose name it contains
    WholeTree,  \* shell inputs that may change any file
    TypeCheck,  \* the shell input `npx tsc --noEmit`
    MaxTrivial, \* TRIVIAL_SPAN_MAX_OUTPUT_TOKENS
    K,          \* CONTEXT_THRASH_K: turns after a compaction in which context refills
    MaxGap      \* CONTEXT_THRASH_MAX_GAP between compactions of one window

(* In the code K is 5 and MaxGap 25. *)
ASSUME WasteAssumption == K \in Nat \ {0} /\ MaxGap \in Nat /\ K <= MaxGap

MinRun == 3

(* A call: its tool, input and outcome, and when it ran; `shell` for a     *)
(* real shell execution.  Times are None when the transcript has none.     *)
Call(tool, input, status, start, end) ==
    [tool |-> tool, input |-> input, status |-> status, start |-> start, end |-> end]
IsShell(call) == call.tool = "Bash"
Edits(call) == call.tool \in {"Edit", "Write", "NotebookEdit"}
EDIT_TOOL_NAMES == {"Edit", "Write", "NotebookEdit", "write", "replace"}

(* All calls of a session in order, each with its share of its turn. *)
CallsOf(t, i, usd) ==
    [j \in DOMAIN t.calls |->
        [call |-> t.calls[j], turn |-> i,
         usd |-> IF usd = None THEN None ELSE usd \div Len(t.calls),
         tokens |-> (Scale * TotalOf(t)) \div Len(t.calls)]]
flattenCalls(s) ==
    LET cat[i \in 0..Len(s.turns)] ==
          IF i = 0 THEN <<>>
          ELSE cat[i - 1] \o CallsOf(s.turns[i], i, completeUsd(priceSessionTurn(s, s.turns[i])))
    IN  cat[Len(s.turns)]

(* The dollars of a group of calls or turns: none if one has none. *)
AllOrNone(f, S) == IF \E x \in S : f[x] = None THEN None ELSE SumOf(f, S)

(* `at` is where in the session the finding begins. *)
Finding(kind, at, usd, tokens, turns) ==
    [kind |-> kind, at |-> at, usd |-> usd, tokens |-> tokens, turns |-> turns]

-----------------------------------------------------------------------------
(* The longest stretches of 1..n whose neighbours are all linked. *)
Stretches(n, Linked(_, _)) ==
    {r \in (1..n) \X (1..n) :
        /\ r[1] <= r[2] /\ \A k \in r[1]..(r[2] - 1) : Linked(k, k + 1)
        /\ r[1] > 1 => ~Linked(r[1] - 1, r[1])
        /\ r[2] < n => ~Linked(r[2], r[2] + 1)}

(* Three or more equal calls in a row. *)
Runs(calls) ==
    LET Same(j, k) == /\ calls[j].call.tool = calls[k].call.tool
                      /\ calls[j].call.input = calls[k].call.input
    IN  {r \in Stretches(Len(calls), Same) : r[2] - r[1] + 1 >= MinRun}
StuckLoops(calls) ==
    {LET in == r[1]..r[2]
     IN  Finding("stuck-loop", r[1], AllOrNone([k \in in |-> calls[k].usd], in),
                 SumOf([k \in in |-> calls[k].tokens], in), {calls[k].turn : k \in in})
       : r \in Runs(calls)}
detectStuckLoops(s) == StuckLoops(flattenCalls(s))

(* A file read again though nothing recorded explains it. *)
Reads(c) == c.call.tool = "Read" /\ c.call.status # "error" /\ PathOf[c.call.input] # None
Explains(c, file) ==
    \/ Edits(c.call) /\ PathOf[c.call.input] = file
    \/ IsShell(c.call) /\ (c.call.input \in WholeTree \/ file \in Touches[c.call.input])
ReReads(s, calls) ==
    {k \in DOMAIN calls : Reads(calls[k]) /\
        LET file  == PathOf[calls[k].call.input]
            prior == {j \in 1..(k - 1) : Reads(calls[j]) /\ PathOf[calls[j].call.input] = file}
            last  == CHOOSE j \in prior : \A i \in prior : i <= j
        IN  /\ prior # {}
            /\ \A i \in (last + 1)..(k - 1) : ~Explains(calls[i], file)
            /\ \A i \in DOMAIN s.compactions :
                  ~(s.compactions[i] > calls[last].turn /\ s.compactions[i] <= calls[k].turn)}
SameFileReReads(calls, again) ==
    IF again = {} THEN {}
    ELSE {Finding("re-reads", 0, AllOrNone([k \in again |-> calls[k].usd], again),
                  SumOf([k \in again |-> calls[k].tokens], again),
                  {calls[k].turn : k \in again})}
ReReadsAmong(s, calls) == SameFileReReads(calls, ReReads(s, calls))
detectSameFileReReads(s) == ReReadsAmong(s, flattenCalls(s))

-----------------------------------------------------------------------------
(* Short replies without tools that a cheaper model would price lower. *)
actualUsd(s, units) == Sum([i \in DOMAIN units |-> costOf(units[i].usage, rowOf(s, units[i]))])
Trivial(s, t) ==
    /\ t.calls = <<>>
    /\ pricingUnitsForTurn(t) # None
    /\ t.usage.output <= MaxTrivial
    /\ LET units == pricingUnitsForTurn(t)
       IN  \A i \in DOMAIN units : /\ vendorOf(s, units[i]) = SourceVendor[s.source]
                                   /\ rowOf(s, units[i]) # None
cheapTurns(s, row) ==
    {i \in DOMAIN s.turns :
        /\ Trivial(s, s.turns[i])
        /\ costTurnAtRow(s.turns[i], row) < actualUsd(s, pricingUnitsForTurn(s.turns[i]))}
TrivialSpans(s, row, cheap) ==
    IF cheap = {} THEN {}
    ELSE {Finding("trivial-spans", 0,
                  SumOf([i \in cheap |-> costTurnAtRow(s.turns[i], row)], cheap),
                  SumOf([i \in cheap |-> Scale * TotalOf(s.turns[i])], cheap), cheap)}
detectTrivialSpans(s) ==
    LET vendor == SourceVendor[s.source]
        row    == cheapestCurrentRow(vendor)
    IN  IF s.unpriceable \/ vendor = None THEN {}
        ELSE IF row = None THEN {} ELSE TrivialSpans(s, row, cheapTurns(s, row))

(* The whole session at the vendor's cheapest current row, if that is less. *)
priceDeltaFootnote(s, total, usd) ==
    LET vendor == SourceVendor[s.source]
        row    == cheapestCurrentRow(vendor)
        used   == {i \in DOMAIN s.turns : TotalOf(s.turns[i]) > 0}
        Own(i) == LET units == pricingUnitsForTurn(s.turns[i])
                  IN  units # None /\ \A j \in DOMAIN units :
                        Identified(units[j]) /\ vendorOf(s, units[j]) = vendor
        alternative == IF used = {} THEN costOf(total, row)
                       ELSE SumOf([i \in used |-> costTurnAtRow(s.turns[i], row)], used)
    IN  IF s.unpriceable \/ ~isPriceableUsage(total) \/ vendor = None THEN None
        ELSE IF row = None \/ \E i \in used : ~Own(i) THEN None
        ELSE IF used = {} /\ row.tiers # {} THEN None
        ELSE IF alternative < usd THEN alternative ELSE None

-----------------------------------------------------------------------------
(* Context thrash.  A compaction stands before the turn it names, and is   *)
(* refill-positive if a prompt soon after it is nearly as large as the     *)
(* largest before.  Windows cluster at least two of them.                  *)
promptSide(t) == IF t.usage = None THEN 0 ELSE promptInput(t.usage)
Peak(s, turns) ==
    LET loads == {0} \cup {promptSide(s.turns[i]) : i \in turns}
    IN  CHOOSE p \in loads : \A q \in loads : p >= q
SliceAfter(s, c) == {i \in DOMAIN s.turns : c <= i /\ i < c + K}
isRefillPositive(s, c) ==
    /\ c <= Len(s.turns)
    /\ Peak(s, 1..(c - 1)) > 0
    /\ 10 * Peak(s, SliceAfter(s, c)) >= 8 * Peak(s, 1..(c - 1))

(* The refill-positive compactions in order, and the windows they form. *)
Positives(s) == SelectSeq(s.compactions, LAMBDA c : isRefillPositive(s, c))
(* Mutation: any two near compactions are a window. *)
ThrashWindows_Pairs(s) ==
    {<<k, k + 1>> : k \in {j \in 1..(Len(Positives(s)) - 1) :
                             Positives(s)[j + 1] - Positives(s)[j] <= MaxGap}}

ThrashWindows(s) ==
    LET at == Positives(s)
        Near(j, k) == at[k] - at[j] <= MaxGap
    IN  {r \in Stretches(Len(at), Near) : r[1] < r[2]}

promptOnlyUsage(u) == [u EXCEPT !.output = 0, !.total = promptInput(u), !.complete = FALSE]
promptOnly(t) ==
    [t EXCEPT !.usage = promptOnlyUsage(@),
              !.units = IF @ = None THEN None
                        ELSE [j \in DOMAIN @ |-> [@[j] EXCEPT !.usage = promptOnlyUsage(@)]]]

(* The cost of a window: the prompts after every compaction but the first. *)
RefillTurns(s, w) ==
    {i \in UNION {SliceAfter(s, Positives(s)[k]) : k \in (w[1] + 1)..w[2]} :
        s.turns[i].usage # None}
detectContextThrash(s) ==
    {LET turns == RefillTurns(s, w)
         usd == Table(turns, LAMBDA i :
                        completeUsd(priceSessionTurn(s, promptOnly(s.turns[i]))))
     IN  Finding("context-thrash", w[1], AllOrNone(usd, turns),
                 SumOf([i \in turns |-> Scale * promptSide(s.turns[i])], turns), turns)
       : w \in ThrashWindows(s)}

wasteLines(s) == detectStuckLoops(s) \cup detectTrivialSpans(s) \cup detectContextThrash(s)

-----------------------------------------------------------------------------
(* computeCostShape: the part spent before the first edit, and whether the *)
(* late turns cost more; no ratio of dollars unless every turn has a price *)
(* (percentages are whole, ratios in tenths, both rounded to the nearest). *)
Ratio(part, whole, unit) ==
    IF whole = 0 THEN 0 ELSE (2 * unit * part + whole) \div (2 * whole)
HasEdit(t) == \E i \in DOMAIN t.calls : t.calls[i].tool \in EDIT_TOOL_NAMES
perTurnCosts(s) ==
    Table({i \in DOMAIN s.turns : TotalOf(s.turns[i]) > 0},
          LAMBDA i : completeUsd(priceSessionTurn(s, s.turns[i])))
CostShape(s, usd) ==
    LET used   == DOMAIN usd
        edits  == {i \in DOMAIN s.turns : HasEdit(s.turns[i])}
        pre    == {i \in used : \A e \in edits : i < e}
        preUsd == AllOrNone(usd, pre)
        all    == used # {} /\ AllOrNone(usd, used) # None
        total  == AllOrNone(usd, used)
        Rank(i) == Cardinality({j \in used : usd[j] > usd[i] \/ (usd[j] = usd[i] /\ j < i)})
        top    == {i \in used : Rank(i) < 3}
        Earlier(i) == Cardinality({j \in used : j < i})
        early  == {i \in used : Earlier(i) < Cardinality(used) \div 2}
        late   == used \ early
    IN  [preEditUsd |-> preUsd,
         postEditUsd |-> AllOrNone(usd, used \ pre),
         preEditPct |-> IF all /\ Or(total, 0) > 0 THEN Ratio(preUsd, total, 100) ELSE None,
         topPct |-> IF all /\ Or(total, 0) > 0 THEN Ratio(SumOf(usd, top), total, 100) ELSE None,
         lateRatio |->
            IF ~all \/ Or(total, 0) = 0 \/ Cardinality(used) < 4 THEN None
            ELSE IF SumOf(usd, early) = 0 THEN None
            ELSE Ratio(SumOf(usd, late) * Cardinality(early),
                       SumOf(usd, early) * Cardinality(late), 10)]
computeCostShape(s) == CostShape(s, perTurnCosts(s))

-----------------------------------------------------------------------------
(* verificationEvidence: the outcome of the last type check, or that files *)
(* were edited after it; nothing when the order of events is in doubt.     *)
Timed(call) == call.start # None /\ call.end # None /\ Or(call.start, 0) <= Or(call.end, 0)
isCheck(call) == IsShell(call) /\ call.input = TypeCheck
isTypedEdit(call) == call.tool \in {"Edit", "Write"} /\ call.status = "ok" /\ PathOf[call.input] # None
(* Mutation: the order of the records is taken for the order of events. *)
verificationEvidence_Recorded(s) ==
    LET calls  == flattenCalls(s)
        checks == {k \in DOMAIN calls : isCheck(calls[k].call)}
        last   == CHOOSE k \in checks : \A j \in checks : j <= k
    IN  IF checks = {} THEN "none"
        ELSE IF calls[last].call.status = "error" THEN "tool-error"
        ELSE IF \E k \in DOMAIN calls : k > last /\ isTypedEdit(calls[k].call)
        THEN "edit-after-tool-success" ELSE "none"

EvidenceIn(s, calls) ==
    LET checks == {k \in DOMAIN calls : isCheck(calls[k].call)}
        last   == CHOOSE k \in checks : \A j \in checks : j <= k
        check  == calls[last].call
        later  == {k \in DOMAIN calls : k > last /\ calls[k].turn > calls[last].turn
                                        /\ isTypedEdit(calls[k].call)}
    IN  IF \/ s.source # "claude-code" \/ s.sidechain \/ s.dropped > 0
           \/ \E k \in DOMAIN calls : calls[k].call.status \notin {"ok", "error"}
           \/ checks = {} \/ \E k \in checks : ~Timed(calls[k].call)
        THEN "none"
        ELSE IF \E j \in checks, k \in checks :
                  j < k /\ (\A m \in checks : ~(j < m /\ m < k))
                        /\ calls[k].call.start <= calls[j].call.end
        THEN "none"
        ELSE IF check.status = "error" THEN "tool-error"
        ELSE IF later = {}
                \/ \E k \in later : ~Timed(calls[k].call) \/ calls[k].call.start <= check.end
        THEN "none"
        ELSE "edit-after-tool-success"
verificationEvidence(s) == EvidenceIn(s, flattenCalls(s))
================================================================================
