--------------------------- MODULE PortfolioRisk ---------------------------
(***************************************************************************)
(* The account commands (internal/cli portfolio, greeks, stress, positions)*)
(* over internal/server/account_svc.go and internal/portfolio: read the    *)
(* holdings, mark them, and report how concentrated they are, what their   *)
(* Greeks are and what a shock would cost.  Prices and Greeks are small    *)
(* numbers; a contract multiplies by 2.  The betas are the only state that *)
(* outlives a command.                                                     *)
(***************************************************************************)
EXTENDS Integers, Sequences, FiniteSetsExt, SequencesExt

CONSTANTS
    Books,          \* sets of holdings: sequences of [sym, sec, cur, qty, exp]
    Sector,         \* symbol |-> sector
    Configs,        \* texts of portfolio.yaml: sequences of [indent, key, ok]
    MaxAge, MaxNow  \* of a beta, in days

VARIABLES
    now,
    betas,          \* symbol_beta: symbol |-> [beta, asOf, updatedAt]
    command,        \* "concentration", "greeks", "stress" or "none"
    step,           \* what the command did last, or how it ended
    book,           \* the holdings, their marks and market values
    exposure,       \* the concentration report
    greeks,         \* the Greeks: the groups, and the legs for the stress
    pnl,            \* the stress report: scenario |-> group |-> P&L
    used            \* its beta sources

reportVars == <<exposure, greeks, pnl, used>>
vars == <<now, betas, command, step, book, reportVars>>

Abs(x) == IF x < 0 THEN -x ELSE x
Sum(Of(_), S) == SumFunctionOnSet([x \in S |-> Of(x)], S)

-----------------------------------------------------------------------------
(* config.go: LoadConfig over the lines of the file.  A key carries its     *)
(* dash; a value parses or does not.                                        *)
Sections == {"concentration", "greeks", "iv_staleness", "stress"}
Keys == [concentration |-> {"warn_pct", "red_pct", "top_n"},
         greeks |-> {"risk_free_rate"}, iv_staleness |-> {"fresh_max", "stale_max"},
         stress |-> {}]
NewScenario == [id |-> FALSE, label |-> FALSE, shocks |-> <<>>]
NewShock == [axis |-> FALSE, magnitude |-> FALSE]
NoConfig == [ok |-> TRUE, section |-> "", seen |-> {}, inScenarios |-> FALSE, scenarios |-> <<>>]

ParseLine(c, l) ==
    LET n == Len(c.scenarios)
        shocks == IF n = 0 THEN <<>> ELSE c.scenarios[n].shocks
        listed == c.section = "stress" /\ c.inScenarios
        Put(k) == IF k \in {"id", "label"} THEN [c EXCEPT !.scenarios[n][k] = l.ok]
                  ELSE [c EXCEPT !.ok = FALSE]
        PutShock(d, m) ==
            IF l.key \in {"axis", "magnitude"} /\ (l.ok \/ l.key = "axis")
            THEN [d EXCEPT !.scenarios[n].shocks[m][l.key] = l.ok] ELSE [d EXCEPT !.ok = FALSE]
    IN CASE ~c.ok -> c
         [] l.indent = 0 /\ l.key = "sectors_file" -> [c EXCEPT !.section = "", !.inScenarios = FALSE]
         [] l.indent = 0 /\ l.key # "sectors_file" ->
                [c EXCEPT !.ok = l.key \in Sections \ c.seen, !.section = l.key,
                          !.seen = @ \cup {l.key}, !.inScenarios = FALSE]
         [] c.section = "stress" /\ l.indent = 2 /\ l.key = "scenarios" ->
                [c EXCEPT !.scenarios = <<>>, !.inScenarios = TRUE]
         [] listed /\ l.indent = 4 /\ l.key = "- id" ->
                [c EXCEPT !.scenarios = Append(@, [NewScenario EXCEPT !.id = l.ok])]
         [] listed /\ l.indent # 4 /\ n = 0 -> c
         [] listed /\ l.indent = 6 /\ l.key = "shocks" -> c
         [] listed /\ l.indent = 6 /\ l.key # "shocks" /\ n > 0 -> Put(l.key)
         [] listed /\ l.indent = 8 /\ l.key = "- axis" /\ n > 0 ->
                [c EXCEPT !.scenarios[n].shocks = Append(@, [NewShock EXCEPT !.axis = l.ok])]
         [] listed /\ l.indent = 10 /\ shocks # <<>> -> PutShock(c, Len(shocks))
         [] OTHER -> IF c.section = "" THEN c
                     ELSE [c EXCEPT !.ok = l.key \in Keys[c.section] /\ l.ok]

(* No scenario at all means the default ones.  A scenario needs an id of    *)
(* its own, a label and shocks that are complete.                           *)
LoadConfig(lines) ==
    LET c == FoldLeft(ParseLine, NoConfig, lines)
    IN c.ok /\ \A i \in DOMAIN c.scenarios :
                LET s == c.scenarios[i]
                IN s.id /\ s.label /\ s.shocks # <<>>
                   /\ \A j \in DOMAIN s.shocks : s.shocks[j].axis /\ s.shocks[j].magnitude

(* embed.go: a map that is asked for must load; one that is found and is    *)
(* broken fails, one that is empty is passed over.                          *)
ResolveSectorMap(asked, found) ==
    IF asked # "none" THEN asked = "good" ELSE \A f \in found : f # "broken"

-----------------------------------------------------------------------------
(* What counts: not a closed position, not one in another currency.  Every  *)
(* view filters for itself.                                                 *)
Residual(p) == p.qty = 0
NonUSD(p) == p.cur # "USD"
Option(p) == p.sec = "OPT"
Multiplier(p) == IF Option(p) THEN 2 ELSE 1
Live == {i \in DOMAIN book : ~Residual(book[i]) /\ ~NonUSD(book[i])}

AllCurrenciesNLV == Sum(LAMBDA i : Abs(book[i].mv), {i \in DOMAIN book : ~Residual(book[i])})   \* mutant
FallbackNLV == Sum(LAMBDA i : Abs(book[i].mv), Live)

(* concentration.go: Compute.                                               *)
Bucket(weights) ==
    LET hhi == Sum(LAMBDA t : weights[t] * weights[t], DOMAIN weights)
    IN IF hhi <= 1500 THEN "diversified" ELSE IF hhi >= 2500 THEN "concentrated" ELSE "moderate"
TopK(weights, k) ==
    Sum(LAMBDA t : weights[t],
        {t \in DOMAIN weights : k > Cardinality({o \in DOMAIN weights : weights[o] > weights[t]})})
Flags(weights) ==
    {<<t, IF weights[t] > 20 THEN "red" ELSE "warn">> : t \in {t \in DOMAIN weights : weights[t] > 10}}
    \cup (IF TopK(weights, 2) > 30 THEN {<<"top 2", "warn">>} ELSE {})
    \cup (IF TopK(weights, 5) > 60 THEN {<<"top 5", "warn">>} ELSE {})

Compute(nlv) ==
    LET names == {book[i].sym : i \in Live}
        mv == [t \in names |-> Sum(LAMBDA i : Abs(book[i].mv), {i \in Live : book[i].sym = t})]
        weights == [t \in names |-> IF nlv > 0 THEN (100 * mv[t]) \div nlv ELSE 0]
        deployed == Sum(LAMBDA t : mv[t], names)
        sectors == {Sector[t] : t \in names}
    IN [mv |-> mv, nlv |-> nlv, deployed |-> deployed,
        cash |-> IF nlv > deployed THEN nlv - deployed ELSE 0,
        unmarked |-> {book[i].sym : i \in {i \in Live : Option(book[i]) /\ book[i].mv = 0}},
        elided |-> {book[i].sym : i \in {i \in DOMAIN book : ~Residual(book[i]) /\ NonUSD(book[i])}},
        sectors |-> [s \in sectors |-> Sum(LAMBDA t : mv[t], {t \in names : Sector[t] = s})],
        bucket |-> Bucket(weights), flags |-> Flags(weights)]

-----------------------------------------------------------------------------
(* greeks.go.  A chain tells the spot and, with open interest, the IV of    *)
(* its contracts; the chain with open interest is asked for only when a leg *)
(* has no mark.  The spot of an underlying may come from any of its chains. *)
Spot == 10
Value(spot, iv) == (IF spot > 9 THEN spot - 9 ELSE 0) + iv
Legs == {i \in Live : Option(book[i])}
ChainOf(i) == <<book[i].sym, book[i].exp>>
NeedsOI == {ChainOf(i) : i \in {i \in Legs : book[i].mark = 0}}
NoChain == [spot |-> 0, iv |-> 0]
ChainsFor(k) == {NoChain, [spot |-> Spot, iv |-> 0]}
                \cup (IF k \in NeedsOI THEN {[spot |-> Spot, iv |-> 2]} ELSE {})
SpotOf(i, chains) ==
    IF \E k \in DOMAIN chains : k[1] = book[i].sym /\ chains[k].spot > 0 THEN Spot ELSE 0

(* priceOneLeg: the engine inverts marks ("no" when it does not converge)   *)
(* and prices, well or not at all.                                          *)
ResolveIV(i, chains, inverts) ==
    IF book[i].exp = "today" THEN 0
    ELSE IF chains[ChainOf(i)].iv > 0 THEN chains[ChainOf(i)].iv
    ELSE IF book[i].mark > 0 /\ inverts THEN 1 ELSE 0

LegMV(i) == Abs(book[i].mv)

PriceOneLeg(i, chains, inverts, engine) ==
    LET scale == book[i].qty * 2
        iv == ResolveIV(i, chains, inverts)
        reason == IF SpotOf(i, chains) = 0 THEN "no_mark" ELSE IF iv = 0 THEN "no_iv"
                  ELSE IF engine = "down" THEN "price_error"
                  ELSE IF engine = "garbage" THEN "non_finite" ELSE ""
    IN [sym |-> book[i].sym, skipped |-> reason, mv |-> LegMV(i), iv |-> iv,
        base |-> Value(Spot, iv), scale |-> scale]

AggregateGreeks(by, chains, inverts, engine) ==
    LET Key(t) == IF by = "sector" THEN Sector[t] ELSE t
        stocks == Live \ Legs
        counted == {i \in stocks : book[i].mv # 0}
        legs == [i \in Legs |-> PriceOneLeg(i, chains, inverts, engine[i])]
        priced == {i \in Legs : legs[i].skipped = ""}
        keys == {Key(book[i].sym) : i \in Live}
        Of(k, S) == {i \in S : Key(book[i].sym) = k}
    IN [groups |-> [k \in keys |->
            [mv |-> Sum(LAMBDA i : Abs(book[i].mv), Of(k, counted))
                        + Sum(LAMBDA i : legs[i].mv, Of(k, Legs)),
             dollarDelta |-> Sum(LAMBDA i : book[i].mv, Of(k, counted))
                        + Sum(LAMBDA i : legs[i].scale * Spot, Of(k, priced)),
             vega |-> Sum(LAMBDA i : legs[i].scale, Of(k, priced)),
             legs |-> Cardinality(Of(k, counted \cup priced)),
             skipped |-> Cardinality(Of(k, (stocks \ counted) \cup (Legs \ priced)))]],
        stocks |-> counted, options |-> priced, leg |-> legs,
        skipped |-> {<<i, "no_mark">> : i \in stocks \ counted}
                    \cup {<<i, legs[i].skipped>> : i \in Legs \ priced}]

-----------------------------------------------------------------------------
(* beta.go, stress_beta.go: the beta of a group from the table when it is   *)
(* fresh, else from bars, and then it is kept.  Without the bars of SPY     *)
(* none is computed any more.  bars: symbol |-> the day of the last pair of *)
(* returns, 0 when there are too few.                                       *)
UpdatedRecently(b) == now - b.updatedAt <= MaxAge       \* mutant: as_of is not looked at
Fresh(b) == now - b.updatedAt <= MaxAge /\ now - b.asOf <= MaxAge
Cached(t) == t \in DOMAIN betas /\ Fresh(betas[t])
Computed(groups, spy, bars) ==
    {t \in groups : spy /\ ~Cached(t) /\ bars[t] > 0 /\ now - bars[t] <= MaxAge}
BetaSources(groups, spy, bars) ==
    [t \in groups |->
        IF Cached(t) THEN [source |-> "cache", beta |-> betas[t].beta, asOf |-> betas[t].asOf]
        ELSE IF t \in Computed(groups, spy, bars)
        THEN [source |-> "computed", beta |-> 2, asOf |-> bars[t]]
        ELSE [source |-> "static", beta |-> 1, asOf |-> now]]
StoredBetas(groups, spy, bars, writable) ==
    [t \in DOMAIN betas \cup {t \in Computed(groups, spy, bars) : writable} |->
        IF writable /\ t \in Computed(groups, spy, bars)
        THEN [beta |-> 2, asOf |-> bars[t], updatedAt |-> now] ELSE betas[t]]

(* stress.go: a shock moves the spot by points of its beta, and the IV.     *)
(* The first call of a scenario that the engine fails ends the pricing of   *)
(* the scenario; that leg and those after it are estimated from the Greeks, *)
(* as is a leg whose price or shocked spot makes no sense.                  *)
Scenarios == [spy_down |-> [spot |-> -1, iv |-> 0, nonsense |-> FALSE],
              iv_up |-> [spot |-> 0, iv |-> 1, nonsense |-> FALSE],
              crash |-> [spot |-> -5, iv |-> 1, nonsense |-> TRUE]]

Taylor(leg, points, iv) == leg.scale * (Spot * points + iv)
Reprice(leg, points, iv) ==
    IF Spot + points <= 0 \/ leg.base <= 0 THEN Taylor(leg, points, iv)
    ELSE leg.scale * (Value(Spot + points, leg.iv + iv) - leg.base)

OptionPnL(i, shock, points, failsAt) ==
    LET leg == greeks.leg[i]
    IN IF i >= failsAt \/ shock.nonsense THEN Taylor(leg, points, shock.iv)
       ELSE Reprice(leg, points, shock.iv)

GroupPnL(k, shock, beta, failsAt) ==
    LET points == shock.spot * beta
    IN IF greeks.stocks \cup greeks.options = {}
       THEN greeks.groups[k].dollarDelta * points + greeks.groups[k].vega * shock.iv
       ELSE Sum(LAMBDA i : book[i].mv * points, {i \in greeks.stocks : book[i].sym = k})
            + Sum(LAMBDA i : OptionPnL(i, shock, points, failsAt),
                  {i \in greeks.options : book[i].sym = k})

-----------------------------------------------------------------------------
(* A command.  Flags and configuration first, then the database, the broker *)
(* and the holdings: on the fallback broker there are none to read.         *)
NoExposure == [nlv |-> 0]
NoGreeks == [groups |-> <<>>]

Init ==
    /\ now = 1 /\ betas = <<>> /\ command = "none" /\ step = "idle" /\ book = <<>>
    /\ exposure = NoExposure /\ greeks = NoGreeks /\ pnl = <<>> /\ used = <<>>

Run(c, flagsOk, lines) ==
    /\ command = "none"
    /\ command' = c
    /\ step' = IF flagsOk /\ LoadConfig(lines) THEN "configured" ELSE "exit 1"
    /\ UNCHANGED <<now, betas, book, reportVars>>

OpenStore(ok) ==
    /\ step = "configured" /\ step' = IF ok THEN "open" ELSE "exit sqlite"
    /\ UNCHANGED <<now, betas, command, book, reportVars>>

(* Connect, fall back, GetPositions; the holdings have no marks yet.        *)
Positions(broker, holdings) ==
    /\ step = "open"
    /\ IF broker = "ibkr"
       THEN /\ book' = [i \in DOMAIN holdings |->
                            [mark |-> 0, mv |-> 0, sym |-> holdings[i].sym, sec |-> holdings[i].sec,
                             cur |-> holdings[i].cur, qty |-> holdings[i].qty, exp |-> holdings[i].exp]]
            /\ step' = "positions"
       ELSE book' = book /\ step' = "exit unreachable"
    /\ UNCHANGED <<now, betas, command, reportVars>>

(* enrich: a goroutine for each holding; a mark that does not come is left  *)
(* out without a word.                                                      *)
Enrich(marks) ==
    /\ step = "positions" /\ step' = "marked"
    /\ book' = [i \in DOMAIN book |->
                    [book[i] EXCEPT !.mark = marks[i],
                                    !.mv = book[i].qty * marks[i] * Multiplier(book[i])]]
    /\ UNCHANGED <<now, betas, command, reportVars>>

(* The net liquidation value is a flag; without it the sum of what is held. *)
Anchor(flag) == IF flag > 0 THEN flag ELSE FallbackNLV

Concentration(flag, mapOk) ==
    /\ step = "marked" /\ command = "concentration"
    /\ IF mapOk THEN exposure' = Compute(Anchor(flag)) /\ step' = "exit 0"
       ELSE exposure' = exposure /\ step' = "exit 1"
    /\ UNCHANGED <<now, betas, command, book, greeks, pnl, used>>

Greeks(by, mapOk, chains, inverts, engine) ==
    /\ step = "marked" /\ command \in {"greeks", "stress"}
    /\ command = "stress" => by = "underlying"
    /\ IF mapOk
       THEN /\ greeks' = AggregateGreeks(by, chains, inverts, engine)
            /\ step' = IF command = "stress" THEN "greeks" ELSE "exit 0"
       ELSE greeks' = greeks /\ step' = "exit 1"
    /\ UNCHANGED <<now, betas, command, book, exposure, pnl, used>>

Stress(spy, bars, writable, failsAt) ==
    /\ step = "greeks" /\ step' = "exit 0"
    /\ LET groups == DOMAIN greeks.groups
       IN /\ used' = BetaSources(groups, spy, bars)
          /\ betas' = StoredBetas(groups, spy, bars, writable)
          /\ pnl' = [s \in DOMAIN Scenarios |-> [k \in groups |->
                        GroupPnL(k, Scenarios[s], used'[k].beta, failsAt)]]
    /\ UNCHANGED <<now, command, book, exposure, greeks>>

(* The process is over; the table stays.                                    *)
Exit ==
    /\ step \in {"exit 0", "exit 1", "exit sqlite", "exit unreachable"}
    /\ command' = "none" /\ step' = "idle" /\ book' = <<>>
    /\ exposure' = NoExposure /\ greeks' = NoGreeks /\ pnl' = <<>> /\ used' = <<>>
    /\ UNCHANGED <<now, betas>>

Tick == command = "none" /\ now < MaxNow /\ now' = now + 1
        /\ UNCHANGED <<betas, command, step, book, reportVars>>

(* What a run meets; the first conjuncts only spare TLC the choices.        *)
Next ==
    \/ /\ command = "none"
       /\ \E c \in {"concentration", "greeks", "stress"}, flagsOk \in BOOLEAN, lines \in Configs :
            Run(c, flagsOk, lines)
    \/ \E ok \in BOOLEAN : OpenStore(ok)
    \/ /\ step = "open"
       /\ \E broker \in {"ibkr", "yfinance", "none"}, holdings \in Books : Positions(broker, holdings)
    \/ /\ step = "positions"
       /\ \E marks \in [DOMAIN book -> {0, 3}] : Enrich(marks)
    \/ /\ step = "marked"
       /\ \E flag \in {0, 20}, asked \in {"none", "good", "broken"}, found \in SUBSET {"empty", "broken"} :
            Concentration(flag, ResolveSectorMap(asked, found))
    \/ /\ step = "marked" /\ command # "concentration"
       /\ \E by \in {"underlying", "sector"}, mapOk \in {ResolveSectorMap(a, {}) : a \in {"none", "broken"}},
             inverts \in BOOLEAN, engine \in [Legs -> {"up", "down", "garbage"}],
             chains \in [{ChainOf(i) : i \in Legs} -> UNION {ChainsFor(ChainOf(i)) : i \in Legs}] :
            /\ \A k \in DOMAIN chains : chains[k] \in ChainsFor(k)
            /\ Greeks(by, mapOk, chains, inverts, engine)
    \/ /\ step = "greeks"
       /\ \E spy, writable \in BOOLEAN, failsAt \in greeks.options \cup {Len(book) + 1} :
          \E bars \in [DOMAIN greeks.groups -> IF spy THEN {0, now - MaxAge, now} ELSE {0}] :
            Stress(spy, bars, writable, failsAt)
    \/ Exit \/ Tick

Spec == Init /\ [][Next]_vars

-----------------------------------------------------------------------------
TypeOK == now \in 1 .. MaxNow /\ command \in {"none", "concentration", "greeks", "stress"}

(* The views of the account are of the same holdings, though each filters   *)
(* and adds up for itself: without a net liquidation value what is deployed *)
(* is all of it, and what the Greeks count or skip, with or without prices, *)
(* chains and an engine, has the market value that concentration shows; the *)
(* stress is of the same groups.                                            *)
ViewsAgree ==
    LET held == Compute(FallbackNLV)
        grouped == [k \in DOMAIN greeks.groups |-> greeks.groups[k].mv]
    IN /\ held.deployed = held.nlv
       /\ exposure # NoExposure => exposure.mv = held.mv
       /\ greeks # NoGreeks => grouped \in {held.mv, held.sectors}
       /\ \A s \in DOMAIN pnl : DOMAIN pnl[s] = DOMAIN greeks.groups

(* A beta that is not the static one is of bars that are recent, however    *)
(* long it was kept and whenever it was written.                            *)
BetasAreRecent == \A t \in DOMAIN used : now - used[t].asOf <= MaxAge

=============================================================================
