----------------------------- MODULE ShockIntel -----------------------------
(***************************************************************************)
(* The shock cards (internal/shockintel): where their data comes from, the *)
(* cache that lives as long as one request or bundle, and what regime,     *)
(* fingerprint, analogs and liquidity make of it.  Percentages, points,    *)
(* basis points and ratios are in hundredths.  Below the bundle lies the   *)
(* cache of TtlMarketCache: a call may bring anything that is new.         *)
(***************************************************************************)
EXTENDS Integers, Sequences, FiniteSetsExt

CONSTANTS
    Ids,        \* the instruments (shockQuoteIDs)
    Moves,      \* days of the market: instrument |-> its change
    Spreads,    \* spreads a broker or a book may show, 0: no bid or ask
    Chains      \* option chains a broker may send

VARIABLES
    todo,       \* the cards that are still to be served
    quotes, depth, options,     \* bundleMarketCache: what came
    fetched,                    \* ... and what was asked for: [quotes, depth, options]
    failed,                     \* ... which of the three ever had an error
    cards                       \* the cards served

vars == <<todo, quotes, depth, options, fetched, failed, cards>>

Normal == [SPY |-> 400, QQQ |-> 400, IWM |-> 200, TLT |-> 200, HYG |-> 800, LQD |-> 500]
LiquidityIds == Ids \cap DOMAIN Normal
BrokerIds == Ids \cap {"SPY", "QQQ", "IWM", "TLT", "HYG", "LQD", "GLD", "USO", "UUP", "VIXY"}
Underlyings == Ids \cap {"SPY", "QQQ", "IWM", "VIXY"}

-----------------------------------------------------------------------------
(* BrokerQuoteAdapter.Quotes: Yahoo's batch first, which knows no bid and   *)
(* ask; each quote of the broker that has a price goes over it, also one    *)
(* that knows no previous close and hence no change.  The error says what   *)
(* did not work; the quotes that came are returned with it.                 *)
YahooQuotes(ids, move) ==
    {[i \in some |-> [pct |-> move[i], spread |-> 0]] : some \in SUBSET ids}
BrokerQuotes(ids, move) ==
    UNION {{[i \in some |-> [pct |-> IF i \in noClose THEN 0 ELSE move[i], spread |-> s[i]]] :
                noClose \in SUBSET some, s \in [some -> Spreads]} :
           some \in SUBSET (ids \cap BrokerIds)}

Overlay(yahoo, broker) ==
    [i \in DOMAIN yahoo \cup DOMAIN broker |->
        IF i \in DOMAIN broker THEN broker[i] ELSE yahoo[i]]

(* summarizeOptionStress: of the first expiry, calls and puts as sequences  *)
(* of [strike, iv, vol, oi].                                                *)
Distance(a, b) == IF a > b THEN a - b ELSE b - a
Nearest(opts, spot) ==
    opts[CHOOSE i \in DOMAIN opts :
            \A j \in DOMAIN opts :
                \/ Distance(opts[i].strike, spot) < Distance(opts[j].strike, spot)
                \/ Distance(opts[i].strike, spot) = Distance(opts[j].strike, spot) /\ i <= j]
Iv(opts, spot) == IF opts = <<>> \/ spot <= 0 THEN 0 ELSE Nearest(opts, spot).iv
Both(chain) == chain.calls \o chain.puts
Volume(chain) == MapThenSumSet(LAMBDA i : Both(chain)[i].vol, DOMAIN Both(chain))
OpenInterest(chain) == MapThenSumSet(LAMBDA i : Both(chain)[i].oi, DOMAIN Both(chain))

HasRow(chain) ==
    /\ Both(chain) # <<>>
    /\ \/ Iv(chain.calls, chain.spot) > 0 \/ Iv(chain.puts, chain.spot) > 0
       \/ Volume(chain) # 0 \/ OpenInterest(chain) # 0
OptionStress(chain) ==
    LET call == Iv(chain.calls, chain.spot)
        put == Iv(chain.puts, chain.spot)
    IN [skew |-> IF call > 0 /\ put > 0 THEN put - call ELSE 0,
        missing |-> {m \in {"underlying_price", "iv_skew", "volume", "open_interest"} :
                        CASE m = "underlying_price" -> chain.spot <= 0
                          [] m = "iv_skew" -> call <= 0 \/ put <= 0
                          [] m = "volume" -> Volume(chain) <= 0
                          [] OTHER -> OpenInterest(chain) <= 0}]

-----------------------------------------------------------------------------
(* liquidity.go: a book stands in for a bid and ask the quote lacks.        *)
RowSpread(q, book, i) ==
    IF q[i].spread > 0 \/ i \notin DOMAIN book THEN q[i].spread ELSE book[i]
LiquidityState(ratio, spread) ==
    IF ratio >= 800 \/ spread >= 7500 THEN "severe"
    ELSE IF ratio >= 350 \/ spread >= 2000 THEN "stressed"
    ELSE IF ratio >= 250 THEN "watch" ELSE "normal"
Liquidity(q, book) ==
    [i \in LiquidityIds |->
        IF i \notin DOMAIN q THEN [state |-> "missing", ratio |-> 0]
        ELSE LET spread == RowSpread(q, book, i)
                 ratio == (100 * spread) \div Normal[i]
             IN IF spread <= 0 THEN [state |-> "missing", ratio |-> 0]
                ELSE [state |-> LiquidityState(ratio, spread), ratio |-> ratio]]
Stressed(liq) == {i \in DOMAIN liq : liq[i].state \in {"stressed", "severe"}}

(* regime.go: the confirmations, each with its contribution.                *)
Fall(q, i) == IF i \in DOMAIN q THEN -q[i].pct ELSE 0
Abs(x) == IF x < 0 THEN -x ELSE x
UncappedEquity(fall) == 5 * fall        \* mutant: no cap on one index
EquityPoints(fall) == Min({5 * fall, 2200})

Confirmations(q, liq) ==
    {[id |-> "VIX", dim |-> "volatility", points |-> -2 * Fall(q, "VIX")] :
        i \in {i \in {"VIX"} : Fall(q, i) < 0}}
    \cup {[id |-> i, dim |-> "equity", points |-> EquityPoints(Fall(q, i))] :
        i \in {i \in {"SPY", "QQQ"} : Fall(q, i) >= 100}}
    \cup {[id |-> i, dim |-> "credit", points |-> Min({7 * Fall(q, i), 1800})] :
        i \in {i \in {"HYG"} : Fall(q, i) >= 75}}
    \cup {[id |-> i, dim |-> "cross", points |-> Min({3 * Abs(Fall(q, i)), 1200})] :
        i \in {i \in {"TLT", "UUP", "USO", "GLD"} : Abs(Fall(q, i)) >= 100}}
    \cup {[id |-> i, dim |-> "liquidity",
           points |-> Min({800 + 3 * Max({0, liq[i].ratio - 100}), 2200})] : i \in Stressed(liq)}

Score(q, liq) == Min({10000, MapThenSumSet(LAMBDA c : c.points, Confirmations(q, liq))})
State(score) ==
    IF score >= 8000 THEN "critical" ELSE IF score >= 5500 THEN "shock"
    ELSE IF score >= 2500 THEN "watch" ELSE "normal"
TriggersShock(q, liq) == State(Score(q, liq)) \in {"shock", "critical"}

(* fingerprint.go: rows of <<instrument, threshold, points>>; a threshold   *)
(* below zero asks for a fall.                                              *)
Signs == [supply |-> {<<"USO", 300, 35>>, <<"US10Y", 75, 25>>, <<"UUP", 75, 20>>, <<"GLD", 50, 10>>},
          demand |-> {<<"SPY", -100, 25>>, <<"QQQ", -100, 20>>, <<"HYG", -75, 25>>, <<"USO", -200, 20>>},
          liquidity |-> {<<"VIX", 1000, 30>>, <<"HYG", -75, 25>>},
          policy |-> {<<"US10Y", 75, 35>>, <<"UUP", 75, 25>>, <<"SPY", -100, 20>>, <<"QQQ", -100, 20>>}]
Shown(q, sign) ==
    /\ sign[1] \in DOMAIN q
    /\ IF sign[2] > 0 THEN q[sign[1]].pct >= sign[2] ELSE q[sign[1]].pct <= sign[2]
SkewElevated(opts) == \E u \in DOMAIN opts : "iv_skew" \notin opts[u].missing /\ opts[u].skew >= 5

FingerprintScore(kind, q, liq, opts) ==
    Min({100, MapThenSumSet(LAMBDA s : IF Shown(q, s) THEN s[3] ELSE 0, Signs[kind])
              + (IF kind = "liquidity" /\ Stressed(liq) # {} THEN 35 ELSE 0)
              + (IF kind = "liquidity" /\ SkewElevated(opts) THEN 20 ELSE 0)})
Fingerprint(q, liq, opts) ==
    [kind \in DOMAIN Signs |->
        [active |-> FingerprintScore(kind, q, liq, opts) >= 50,
         missing |-> {s[1] : s \in {s \in Signs[kind] : s[1] \notin DOMAIN q}}
                     \cup UNION {opts[u].missing : u \in IF kind = "liquidity" THEN DOMAIN opts
                                                         ELSE {}}]]

(* analogs.go: one score per feature, in thousandths.                       *)
Template(name, vector) == [name |-> name, vector |-> vector]
Scales == <<600, 4500, 300, 250, 250, 1400, 400>>
Templates == {Template("liquidity", <<-450, 3800, -200, -100, 50, -600, 120>>),
              Template("policy", <<-320, 2200, -110, 130, 110, 180, -70>>),
              Template("demand", <<-200, 1800, -80, -20, -40, -250, 30>>),
              Template("supply", <<-60, 800, -20, 20, 30, 1200, 150>>)}
ChangeOf(q, i) == -Fall(q, i)
ShockVector(q) ==
    LET indexes == {"SPY", "QQQ"} \cap DOMAIN q
        equity == IF indexes = {} THEN 0
                  ELSE MapThenSumSet(LAMBDA i : q[i].pct, indexes) \div Cardinality(indexes)
    IN <<equity>> \o [k \in 1 .. 6 |-> ChangeOf(q, <<"VIX", "HYG", "US10Y", "UUP", "USO", "GLD">>[k])]
FeatureScore(x, y, scale) ==
    LET score == 1000 - Min({(1000 * Abs(x - y)) \div scale, 1000})
    IN IF x * y > 0 THEN Min({score + 120, 1000}) ELSE score
Similarity(v, w) == MapThenSumSet(LAMBDA k : FeatureScore(v[k], w[k], Scales[k]), 1 .. 7) \div 7
Analogs(q) == [t \in Templates |-> Similarity(ShockVector(q), t.vector)]

-----------------------------------------------------------------------------
(* bundleMarketCache: what was asked for once is not asked for again,       *)
(* whether it came or not; an error is handed to every later reader.        *)
AskAgain(ids, asked, got) == ids \ DOMAIN got   \* mutant: only what came counts
Missing(ids, asked, got) == ids \ asked

Merge(old, new) == Overlay(old, new)

Needs(card) ==
    [quotes |-> IF card = "liquidity" THEN LiquidityIds ELSE Ids,
     depth |-> IF card = "analogs" THEN {} ELSE LiquidityIds,
     options |-> IF card = "fingerprint" THEN Underlyings ELSE {}]

(* Whose errors become warnings: regime and fingerprint drop the warnings   *)
(* of the liquidity they build on.                                          *)
Warns(card) ==
    {"quotes"} \cup (IF card = "liquidity" THEN {"depth"} ELSE {})
               \cup (IF card = "fingerprint" THEN {"options"} ELSE {})

Init ==
    /\ todo \in {<<"regime", "fingerprint", "analogs", "liquidity">>,
                 <<"regime">>, <<"fingerprint">>, <<"analogs">>, <<"liquidity">>}
    /\ quotes = <<>> /\ depth = <<>> /\ options = <<>>
    /\ fetched = [quotes |-> {}, depth |-> {}, options |-> {}]
    /\ failed = {} /\ cards = <<>>

(* The inner calls for what is missing.                                     *)
FetchQuotes(ids) ==
    LET missing == Missing(ids, fetched.quotes, quotes)
    IN IF missing = {} THEN UNCHANGED quotes
       ELSE \E move \in Moves :
            \E yahoo \in YahooQuotes(missing, move), broker \in BrokerQuotes(missing, move) :
                quotes' = Merge(quotes, Overlay(yahoo, broker))
FetchDepth(ids) ==
    LET missing == Missing(ids, fetched.depth, depth)
    IN IF missing = {} THEN UNCHANGED depth
       ELSE \E some \in SUBSET (missing \cap BrokerIds) : \E book \in [some -> Spreads] :
                depth' = Merge(depth, book)
FetchOptions(ids) ==
    LET missing == Missing(ids, fetched.options, options)
    IN IF missing = {} THEN UNCHANGED options
       ELSE \E some \in SUBSET missing : \E chain \in [some -> Chains] :
                options' = Merge(options, [u \in {u \in some : HasRow(chain[u])} |->
                                              OptionStress(chain[u])])

(* A card: its calls, and what it shows of their results.                   *)
Serve(card) ==
    LET need == Needs(card)
    IN /\ FetchQuotes(need.quotes) /\ FetchDepth(need.depth) /\ FetchOptions(need.options)
       /\ fetched' = [k \in DOMAIN fetched |-> fetched[k] \cup need[k]]
       /\ failed' \in {failed \cup more :
                         more \in SUBSET {k \in DOMAIN need : ~(need[k] \subseteq fetched[k])}}
       /\ cards' = Append(cards,
            [card |-> card,
             quotes |-> [i \in need.quotes \cap DOMAIN quotes' |-> quotes'[i]],
             liquidity |-> IF need.depth = {} THEN <<>> ELSE Liquidity(quotes', depth'),
             alarm |-> card = "regime" /\ TriggersShock(quotes', Liquidity(quotes', depth')),
             prints |-> IF card = "fingerprint"
                        THEN Fingerprint(quotes', Liquidity(quotes', depth'), options') ELSE <<>>,
             analogs |-> IF card = "analogs" THEN Analogs(quotes') ELSE <<>>,
             warned |-> failed' \cap Warns(card)])

ServeNext == todo # <<>> /\ Serve(Head(todo)) /\ todo' = Tail(todo)

Next == ServeNext
Spec == Init /\ [][Next]_vars

-----------------------------------------------------------------------------
TypeOK ==
    /\ DOMAIN quotes \subseteq Ids /\ DOMAIN depth \subseteq LiquidityIds
    /\ failed \subseteq {"quotes", "depth", "options"}

(* The view of the console is taken over only on evidence: VIX, or three    *)
(* confirmations of at least two instruments.  No price, however extreme or *)
(* wrong, of one instrument alone does it, and no quote that is missing.    *)
Evidence(q, liq) == {c \in Confirmations(q, liq) : c.points > 0}
AlarmsNeedEvidence ==
    \A k \in DOMAIN cards : cards[k].alarm =>
        LET evidence == Evidence(cards[k].quotes, cards[k].liquidity)
        IN \/ \E c \in evidence : c.id = "VIX"
           \/ Cardinality(evidence) >= 3 /\ Cardinality({c.id : c \in evidence}) >= 2

(* The cards of a bundle tell one story: an instrument shows the same quote *)
(* and the same liquidity on all of them, and what failed before one of     *)
(* them is a warning on all that follow and use it.                         *)
CardsAgree ==
    \A j, k \in DOMAIN cards : j < k =>
        /\ \A i \in Ids : (i \in DOMAIN cards[j].quotes /\ i \in DOMAIN cards[k].quotes) =>
                cards[j].quotes[i] = cards[k].quotes[i]
        /\ (cards[j].liquidity # <<>> /\ cards[k].liquidity # <<>>) =>
                cards[j].liquidity = cards[k].liquidity
        /\ "quotes" \in cards[j].warned => "quotes" \in cards[k].warned

=============================================================================
