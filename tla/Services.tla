------------------------------ MODULE Services ------------------------------
(***************************************************************************)
(* The services and commands beside pool, scheduler and journals.  They    *)
(* share no state the models tell apart: a behaviour is one of them, the   *)
(* variables of the others keep their first value.                         *)
(***************************************************************************)
EXTENDS SharedFetch, Integers, Sequences

CONSTANTS
    Requests, Ids, CacheMaxNow,                         \* TtlMarketCache
    MaxCommits,                                         \* DataMigrate
    MaxSignals,                                         \* ProcessShutdown
    Calendar,                                           \* IntelViews
    Symbols, Workers,                                   \* IntradaySnapshot
    Instruments, ShockDays, Spreads, OptionChains,      \* ShockIntel
    Watchlists, Curated, Industries, Windows, Feeds,    \* MarketReports
    Statements, Tones, GapMaxNow,
    Books, Sectors, Configs, MaxAge,                    \* PortfolioRisk
    Samplers, Grids, Prices                             \* AnalysisFetch

ASSUME RequestsAssumption == IsFiniteSet(Ids) /\ CacheMaxNow \in Nat
ASSUME CommitsAssumption == MaxCommits \in Nat
ASSUME AgesAssumption == MaxAge \in Nat
ASSUME ShockAssumption ==
    /\ \A move \in ShockDays : \A i \in Instruments : move[i] \in Int
    /\ Spreads \subseteq Nat
ASSUME BooksAssumption ==
    \A holdings \in Books :
        IsFiniteSet(DOMAIN holdings) /\ \A i \in DOMAIN holdings : holdings[i].qty \in Int
ASSUME ChainsAssumption ==
    /\ IsFiniteSet(Samplers) /\ Samplers # {}
    /\ Grids \subseteq Seq(Nat)
    /\ \A source \in {"ibkr", "yfinance"} : Prices[source] \subseteq Nat

(* The days of the calendar follow one another.                             *)
ASSUME CalendarAssumption ==
    \A day \in DOMAIN Calendar :
        /\ day \in Nat /\ 0 .. day \subseteq DOMAIN Calendar
        /\ Calendar[day] \in {"session", "half", "holiday", "weekend"}

VARIABLES
    which,
    mNow, mQuotes, mFetched, expiry, want, began, missing, got, mAlive, mPc,
    attempt, flights, denied,
    commits, target, sidecar, backup, pending, dPc, before, foreign,
    server, signals, rootCh, root, suppressed, relay, dog, dogCh, main, refresh,
    store, exit,
    t, override, view, shown,
    conn, ctx, jobs, hand, iQuotes, bars, iPc, warned, rows,
    todo, sQuotes, depth, options, sFetched, failed, cards,
    rNow, gapStats, card,
    pNow, betas, command, step, book, exposure, greeks, pnl, used,
    request, aCtx, aPc, cached, asking, answers, spotCtx, resolver, spare, hint,
    chain, queue, worker, queried, stored

mVars == <<mNow, mQuotes, mFetched, expiry, want, began, missing, got, mAlive, mPc,
           attempt, flights, denied>>
dVars == <<commits, target, sidecar, backup, pending, dPc, before, foreign>>
xVars == <<server, signals, rootCh, root, suppressed, relay, dog, dogCh, main, refresh,
           store, exit>>
vVars == <<t, override, view, shown>>
iVars == <<conn, ctx, jobs, hand, iQuotes, bars, iPc, warned, rows>>
sVars == <<todo, sQuotes, depth, options, sFetched, failed, cards>>
rVars == <<rNow, gapStats, card>>
pVars == <<pNow, betas, command, step, book, exposure, greeks, pnl, used>>
aVars == <<request, aCtx, aPc, cached, asking, answers, spotCtx, resolver, spare, hint,
           chain, queue, worker, queried, stored>>
allVars == <<which, vars, mVars, dVars, xVars, vVars, iVars, sVars, rVars, pVars, aVars>>

-----------------------------------------------------------------------------
TC == INSTANCE TtlMarketCache WITH
        MaxNow <- CacheMaxNow, now <- mNow, quotes <- mQuotes, fetched <- mFetched,
        alive <- mAlive, pc <- mPc

DM == INSTANCE DataMigrate WITH pc <- dPc

(* The files of a migration as the contract sees them.                      *)
MV == INSTANCE AtomicMove WITH
        source <- commits, floor <- before, sure <- target.durable,
        home <- [by |-> target.by, commits |-> target.commits, whole |-> target.whole],
        kept <- [commits |-> backup.commits, whole |-> backup.whole],
        told <- IF DM!Running THEN "nothing" ELSE dPc

PS == INSTANCE ProcessShutdown

IV == INSTANCE IntelViews

IS == INSTANCE IntradaySnapshot WITH quotes <- iQuotes, pc <- iPc

SI == INSTANCE ShockIntel WITH
        Ids <- Instruments, Moves <- ShockDays, Chains <- OptionChains,
        quotes <- sQuotes, fetched <- sFetched

MR == INSTANCE MarketReports WITH
        Sector <- Industries, Hits <- Tones, MaxNow <- GapMaxNow, now <- rNow

PR == INSTANCE PortfolioRisk WITH Sector <- Sectors, now <- pNow

AF == INSTANCE AnalysisFetch WITH
        ctx <- aCtx, pc <- aPc, backup <- spare, asked <- queried

-----------------------------------------------------------------------------
(* The state of what a behaviour is not about.                              *)
NoFetch == Init /\ kind = "pulse"
NoMigrate == DM!Init /\ ~sidecar
NoSignal == PS!Init /\ ~server
NoView == t = 0 /\ IV!Init
NoCards == SI!Init /\ todo = <<"regime">>
NoAnalysis ==
    /\ AF!Init
    /\ request = [kind |-> "structure", exp |-> "", broker |-> "ibkr", hint |-> 0]
    /\ cached = [bars |-> "none", fresh |-> FALSE]

ServicesInit ==
    /\ which \in {"fetch", "cache", "migrate", "shutdown", "views", "intraday", "shock",
                  "reports", "portfolio", "analysis"}
    /\ TC!Init /\ IS!Init /\ MR!Init /\ PR!Init
    /\ IF which = "fetch" THEN Init ELSE NoFetch
    /\ IF which = "migrate" THEN DM!Init ELSE NoMigrate
    /\ IF which = "shutdown" THEN PS!Init ELSE NoSignal
    /\ IF which = "views" THEN IV!Init ELSE NoView
    /\ IF which = "shock" THEN SI!Init ELSE NoCards
    /\ IF which = "analysis" THEN AF!Init ELSE NoAnalysis

Fetching == which = "fetch" /\ Next
    /\ UNCHANGED <<mVars, dVars, xVars, vVars, iVars, sVars, rVars, pVars, aVars>>
Caching == which = "cache" /\ TC!Next
    /\ UNCHANGED <<vars, dVars, xVars, vVars, iVars, sVars, rVars, pVars, aVars>>
Migrating == which = "migrate" /\ DM!Next
    /\ UNCHANGED <<vars, mVars, xVars, vVars, iVars, sVars, rVars, pVars, aVars>>
ShuttingDown == which = "shutdown" /\ PS!Next
    /\ UNCHANGED <<vars, mVars, dVars, vVars, iVars, sVars, rVars, pVars, aVars>>
Viewing == which = "views" /\ IV!Next
    /\ UNCHANGED <<vars, mVars, dVars, xVars, iVars, sVars, rVars, pVars, aVars>>
Loading == which = "intraday" /\ IS!Next
    /\ UNCHANGED <<vars, mVars, dVars, xVars, vVars, sVars, rVars, pVars, aVars>>
Alarming == which = "shock" /\ SI!Next
    /\ UNCHANGED <<vars, mVars, dVars, xVars, vVars, iVars, rVars, pVars, aVars>>
Reporting == which = "reports" /\ MR!Next
    /\ UNCHANGED <<vars, mVars, dVars, xVars, vVars, iVars, sVars, pVars, aVars>>
Weighing == which = "portfolio" /\ PR!Next
    /\ UNCHANGED <<vars, mVars, dVars, xVars, vVars, iVars, sVars, rVars, aVars>>
Analysing == which = "analysis" /\ AF!Next
    /\ UNCHANGED <<vars, mVars, dVars, xVars, vVars, iVars, sVars, rVars, pVars>>

ServicesNext ==
    /\ UNCHANGED which
    /\ \/ Fetching \/ Caching \/ Migrating \/ ShuttingDown \/ Viewing
       \/ Loading \/ Alarming \/ Reporting \/ Weighing \/ Analysing

ServicesSpec == ServicesInit /\ [][ServicesNext]_allVars

-----------------------------------------------------------------------------
(* The shared expiry lets the fetch of one id prolong the life of another,  *)
(* yet nobody is served a quote older than a lifetime per id of the cache,  *)
(* however requests overlap and however often they ask.                     *)
AgeBounded ==
    \A r \in Requests : mPc[r] = "read" =>
        \A i \in TC!Answer(r) : began[r] <= mQuotes[i] + Cardinality(Ids) * TTL

(* What a cached quote says of the market, present or missing, was true of  *)
(* it at most a lifetime per instrument ago.                                *)
CacheTellsTheMarket == TC!MissingWasDenied /\ AgeBounded

(* An alarm is raised on evidence, and all cards are of the same evidence.  *)
AlarmsAreFounded == SI!AlarmsNeedEvidence /\ SI!CardsAgree

(* A migration ends with one home that has every commit of the old one, or  *)
(* with the old one as it was.                                              *)
MigrationLosesNothing == DM!MigrationLosesNothing

(* However staging, copying, linking and syncing are cut short, by an error,*)
(* a kill or a loss of power: seen from outside a migration is one step, or *)
(* none.                                                                    *)
MigrationIsAtomic == MV!Spec

(* A process that was told to stop ends without help of a third party.      *)
ShutdownNeedsNobody == which = "shutdown" => PS!ShutdownNeedsNobody

(* The transition a view announces is the next moment its phase changes.    *)
TransitionIsNextChange == which = "views" => IV!TransitionIsNextChange

(* A row of an intraday snapshot shows only what was read, and says what    *)
(* it lacks.                                                                *)
RowsAreHonest == IS!RowsAreHonest

(* What a report could not use is named in it, and its age is its oldest.   *)
MissingIsNamed == MR!MissingIsNamed

(* The risk commands value one account alike, with betas that were computed *)
(* within their lifetime.                                                   *)
RiskIsFounded == which = "portfolio" => PR!ViewsAgree /\ PR!BetasAreRecent

(* A chain is sampled around a price that was quoted, the nearest contracts *)
(* first, and nobody is left behind when the fetch has returned.            *)
ChainIsFounded == AF!SpotIsQuoted /\ AF!NearestFirst /\ AF!NobodyIsStuck
=============================================================================
