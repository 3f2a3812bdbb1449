--------------------------------- MODULE MCCosts ---------------------------------
EXTENDS Costs

(* Two vendors.  "opus" rose on day 6 and has no cited write rates before, *)
(* "haiku" has a tier, "gpt" no cited rate for cache reads, "mini" omits   *)
(* cache writes; "latest" is an alias of "opus" until day 4.               *)
Rates(i, o, r, w, w5, w1) ==
    [input |-> i, output |-> o, cached |-> r, write |-> w, write5 |-> w5, write1 |-> w1]
PriceRow(from, to, rates, tiers) == [from |-> from, to |-> to, rates |-> rates, tiers |-> tiers]

Opus1 == Rates(4, 8, 1, None, None, None)
Opus2 == Rates(5, 9, 1, 6, None, 8)
Haiku == Rates(1, 2, 0, None, 1, 2)
HaikuLong == Rates(2, 3, 1, None, 2, 4)
Gpt == Rates(3, 6, None, None, None, None)
Mini == Rates(1, 3, 1, None, None, None)
MCTables ==
    [anthropic |->
        [models |->
            [opus |-> [history |-> {PriceRow(1, 5, Opus1, {}), PriceRow(6, None, Opus2, {})},
                       aliases |-> {[id |-> "latest", from |-> 1, to |-> 4]}],
             haiku |-> [history |-> {PriceRow(1, None, Haiku, {[above |-> 4, rates |-> HaikuLong]})},
                        aliases |-> {}]],
         omitted |-> {"old"}, candidates |-> <<"haiku", "opus">>],
     openai |->
        [models |-> [gpt |-> [history |-> {PriceRow(1, None, Gpt, {})}, aliases |-> {}],
                     mini |-> [history |-> {PriceRow(1, None, Mini, {})}, aliases |-> {}]],
         omitted |-> {}, candidates |-> <<"mini">>]]
MCFamily == [opus |-> "anthropic", haiku |-> "anthropic", latest |-> "anthropic",
             old |-> "anthropic", gpt |-> "openai", mini |-> "openai", bedrock |-> None]
MCSourceVendor ==
    ("claude-code" :> "anthropic") @@ ("codex" :> "openai") @@ ("cursor" :> None)

(* The bill: what is cited above, written down again, and `uncited`. *)
Known(i, o, r, w5, w1) == [input |-> i, output |-> o, cached |-> r, write5 |-> w5, write1 |-> w1]
MCCharged(provider, model, date, prompt, uncited) ==
    LET by(vendor) == provider \in {None, vendor} /\ date # None
    IN  CASE model = "opus" /\ by("anthropic") /\ date < 6 -> Known(4, 8, 1, uncited, uncited)
          [] model = "opus" /\ by("anthropic") /\ date >= 6 -> Known(5, 9, 1, 6, 8)
          [] model = "latest" /\ by("anthropic") /\ date < 5 -> Known(4, 8, 1, uncited, uncited)
          [] model = "haiku" /\ by("anthropic") /\ prompt <= 4 -> Known(1, 2, 0, 1, 2)
          [] model = "haiku" /\ by("anthropic") /\ prompt > 4 -> Known(2, 3, 1, 2, 4)
          [] model = "gpt" /\ by("openai") -> Known(3, 6, uncited, uncited, uncited)
          [] model = "mini" /\ by("openai") -> Known(1, 3, 1, uncited, uncited)
          [] OTHER -> Known(uncited, uncited, uncited, uncited, uncited)
MCUncited == {0, 7}

U(i, o, r, c, w5, w1) == Usage(i, o, r, c, w5, w1, i + o + r + c, TRUE)
Plain(i, o) == U(i, o, 0, 0, 0, 0)
Session(source, unattributed) ==
    [source |-> source, unpriceable |-> source = "cursor", sidechain |-> FALSE, model |-> None,
     turns |-> <<>>, compactions |-> <<>>, unattributed |-> unattributed, excluded |-> None,
     conflicting |-> None, dropped |-> 0, reconciliationFailed |-> FALSE,
     start |-> None, end |-> None, mtime |-> 9, total |-> Or(unattributed, emptyUsage)]
With(s, turns) ==
    [s EXCEPT !.turns = turns, !.start = turns[1].date, !.end = turns[Len(turns)].date,
              !.total = SumUsage([i \in DOMAIN turns |-> turns[i].usage])]

Do(tool, input) == Call(tool, input, "ok", None, None)
Reply == <<>>
Edit == <<Do("Edit", "f")>>
One(u, date, model, provider, calls) == Turn(u, None, date, model, provider, calls)
Two(u1, m1, u2, m2, calls) ==
    Turn([addUsage(u1, u2) EXCEPT !.complete = u1.complete /\ u2.complete],
         <<Unit(u1, 3, m1, None), Unit(u2, 7, m2, None)>>, 7, m2, None, calls)

PriceTurns ==
    {One(Plain(1, 1), 3, "opus", None, Reply),
     One(U(0, 0, 3, 2, 1, 1), 3, "opus", None, Edit),
     One(U(1, 0, 1, 4, 2, 2), 7, "opus", None, Edit),
     One(U(0, 1, 0, 2, None, None), 7, "opus", "anthropic", Reply),
     One(Plain(2, 0), 4, "latest", None, Reply), One(Plain(2, 0), 5, "latest", None, Reply),
     One(U(4, 1, 1, 0, 0, 0), 3, "haiku", None, Reply), One(Plain(4, 1), 3, "haiku", None, Edit),
     One(U(1, 1, 1, 0, 0, 0), 3, "gpt", None, Reply), One(Plain(2, 2), 3, "gpt", None, Edit),
     One(U(1, 0, 2, 0, 0, 0), 7, "mini", None, Edit),
     One(Plain(1, 1), 3, "bedrock", None, Reply), One(Plain(1, 1), 3, "opus", "routed", Reply),
     One(Plain(1, 1), 3, "opus", "openai", Reply), One(Plain(1, 1), None, "opus", None, Reply),
     One(None, 3, "opus", None, Reply), One(Usage(1, 1, 0, 0, 0, 0, 3, TRUE), 3, "opus", None, Reply),
     Two(Plain(3, 1), "haiku", Plain(3, 1), "haiku", Edit),
     Two(Plain(1, 1), "opus", Plain(2, 1), "old", Edit),
     Two(U(0, 1, 2, 0, 0, 0), "opus", Plain(1, 0), "gpt", Edit \o Edit),
     [Two(Plain(1, 1), "opus", Plain(1, 1), "opus", Reply) EXCEPT !.usage = Plain(1, 2)],
     [Two(U(0, 0, 0, 1, 1, 0), "opus", Plain(1, 1), "opus", Reply)
        EXCEPT !.usage = U(1, 1, 0, 1, 0, 1)]}
PriceSources ==
    LET claude == Session("claude-code", None)
    IN  {claude, Session("codex", None), Session("cursor", None), Session("codex", Plain(1, 1)),
         [claude EXCEPT !.dropped = 1], [claude EXCEPT !.reconciliationFailed = TRUE],
         [claude EXCEPT !.conflicting = Plain(1, 1)]}

ChildTurns ==
    {One(Plain(1, 1), 3, "opus", None, Reply), One(Plain(1, 1), 8, "haiku", None, Reply),
     One(Plain(1, 1), 5, "bedrock", None, Reply)}
Child ==
    {None, With(Session("claude-code", None), <<One(Plain(1, 1), 3, "opus", None, Reply)>>),
     With([Session("claude-code", None) EXCEPT !.dropped = 1],
          <<One(Plain(1, 1), 3, "opus", None, Reply)>>),
     With(Session("codex", None), <<One(U(1, 1, 1, 0, 0, 0), 8, "gpt", None, Reply)>>),
     With(Session("codex", None), <<One(Plain(1, 1), 8, "mini", None, Reply)>>),
     With(Session("claude-code", None), <<One(Plain(1, 1), 5, "bedrock", None, Reply)>>),
     With(Session("cursor", None), <<One(Plain(1, 1), 5, "opus", None, Reply)>>)}
MCSubagents ==
    [price |-> {<<>>}, waste |-> {<<>>}, thrash |-> {<<>>}, checks |-> {<<>>},
     ledger |-> {<<>>}, week |-> {<<>>},
     children |-> {None} \cup {<<c>> : c \in Child} \cup {<<c, d>> : c, d \in Child}]

Run == <<Do("Bash", "x")>>
WasteTurns ==
    {One(Plain(5, 1), 7, "opus", None, Run), One(Plain(5, 1), 7, "opus", None, Reply),
     One(Plain(1, 1), 7, "opus", None, Run \o Edit)}
ThrashTurns ==
    {One(Plain(5, 1), 7, "opus", None, Run), One(Plain(1, 1), 7, "opus", None, Reply)}
Tsc(status, start, end) == <<Call("Bash", "tsc", status, start, end)>>
Change(start, end) == <<Call("Edit", "f", "ok", start, end)>>
CheckTurns ==
    {One(None, 3, "opus", None, calls) :
        calls \in {Tsc(st, at[1], at[2]) : st \in {"ok", "error"},
                                           at \in {<<1, 2>>, <<2, 4>>, <<3, 4>>, <<None, None>>}}
             \cup {Change(at[1], at[2]) : at \in {<<1, 1>>, <<3, 4>>, <<5, 6>>, <<None, None>>}}
             \cup {Tsc("ok", 1, 2) \o Change(3, 4)}}
OnlyMain(S) == {[main |-> s] : s \in S}
Past(date, t) == With(Session("claude-code", None), <<[t EXCEPT !.date = date]>>)
Opus == One(Plain(1, 1), 0, "opus", None, Reply)
Gpt1 == One(U(1, 1, 1, 0, 0, 0), 0, "gpt", None, Reply)
Bedrock == One(Plain(2, 1), 0, "bedrock", None, Reply)
Working == {Past(6, Opus), Past(6, Bedrock), Past(10, Opus), Session("claude-code", None)}
Resting ==
    {Past(6, Gpt1), Past(5, Opus), [Past(9, Opus) EXCEPT !.sidechain = TRUE],
     Session("claude-code", None)}

MCAlphabet ==
    [price |-> PriceTurns, children |-> ChildTurns, waste |-> WasteTurns,
     thrash |-> ThrashTurns, checks |-> CheckTurns, ledger |-> {}, week |-> {Opus, Gpt1}]
Bound(turns, compactions, amts, start, end) ==
    [turns |-> turns, compactions |-> compactions, amounts |-> amts, clock |-> start, end |-> end,
     writers |-> {"main", "s1"}]
MCViews ==
    [price |-> Bound(2, 0, 0, 9, 9), children |-> Bound(2, 0, 0, 9, 9),
     waste |-> Bound(5, 2, 0, 9, 9),
     thrash |-> Bound(6, 4, 0, 9, 9), checks |-> Bound(3, 0, 0, 9, 9),
     ledger |-> Bound(0, 0, 4, 9, 9), week |-> Bound(2, 0, 0, 10, 11)]

MCSources ==
    [price |-> OnlyMain(PriceSources), children |-> OnlyMain({Session("claude-code", None)}),
     waste |-> OnlyMain({Session("claude-code", None)}),
     thrash |-> OnlyMain({Session("claude-code", None)}),
     checks |-> OnlyMain({Session("claude-code", None)}), ledger |-> [{} -> {0}],
     week |-> {[s1 |-> a, s2 |-> b] : a \in Working, b \in Resting}]
MCProjects == [s1 |-> "p", s2 |-> "p"]
MCCaps == {1, 70, 72}
MCDecimals == <<2, 4, 5>>
MCValues == {0, 1, 25, 9999, 10000, 10001, 19999, 70000}

MCPathOf == [x |-> None, f |-> "f", tsc |-> None]
MCTouches == [x |-> {}, f |-> {}, tsc |-> {}]
================================================================================
