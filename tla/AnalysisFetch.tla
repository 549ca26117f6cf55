---------------------------- MODULE AnalysisFetch ----------------------------
(***************************************************************************)
(* What the analysis of a symbol is made of: FetchSymbolDataOpt (server/   *)
(* fetch.go) and the market data service it calls (server/                 *)
(* marketdata_svc.go), on an ibkr client that looks for the spot price     *)
(* while it discovers the contracts, and then asks IB for each of them     *)
(* near the spot with a few workers (getOptionChainWithOI, broker/ibkr/    *)
(* client.go), or on Yahoo Finance.                                        *)
(***************************************************************************)
EXTENDS Integers, Sequences, FiniteSets, SequencesExt

CONSTANTS
    Samplers,       \* the workers, oiMaxConcurrent
    Grids,          \* sequences of strikes, ascending
    Prices          \* what a source may quote, 0 if it has no price

Sources == {"ibkr", "yfinance"}
Strikes == UNION {{g[i] : i \in DOMAIN g} : g \in Grids}
Bars == [bars : {"none", "few", "enough"}, fresh : BOOLEAN]
Contracts == {"C", "P"} \X Strikes
None == 0
Idle == [at |-> "idle", job |-> <<"", None>>]
Off == [at |-> "off", job |-> <<"", None>>]

VARIABLES
    request, ctx, pc,
    cached,         \* the bars of ohlcv_bars, and whether the newest is of two days
    asking, answers, spotCtx, resolver, backup, hint,   \* the spot
    chain, queue, worker, asked,                        \* the contracts
    stored          \* the chain of option_quotes

vars == <<request, ctx, pc, cached, asking, answers, spotCtx, resolver, backup, hint,
          chain, queue, worker, asked, stored>>
spotVars == <<asking, answers, spotCtx, resolver, backup, hint>>
jobVars == <<queue, worker, asked>>

AnalysisRequests ==
    [kind : {"structure", "oi"}, exp : {"", "near", "gone"}, broker : Sources, hint : {None}]
    \cup [kind : {"sample"}, exp : {""}, broker : Sources, hint : Prices["ibkr"]]

NoChain == [price |-> None, source |-> "", strikes |-> <<>>]
Fetching == request.kind # "sample"

Init ==
    /\ request \in AnalysisRequests
    /\ ctx = "live"
    /\ pc = IF request.kind = "sample" THEN "chain" ELSE "quote"
    /\ cached \in Bars \ {[bars |-> "none", fresh |-> TRUE]}
    /\ asking = {} /\ answers = <<>> /\ spotCtx = "live" /\ resolver = "off"
    /\ backup = None /\ hint = <<>>
    /\ chain = NoChain /\ stored = NoChain
    /\ queue = <<>> /\ worker = [w \in Samplers |-> Off] /\ asked = {}

Step(from, to) == pc = from /\ pc' = to

-----------------------------------------------------------------------------
(* FetchSymbolDataOpt: the quote, and the bars of the cache unless they are *)
(* old, of the broker otherwise, and the old ones if it fails.              *)
Quote ==
    /\ \/ ctx = "live" /\ Step("quote", "bars")
       \/ Step("quote", "failed")
    /\ UNCHANGED <<request, ctx, cached, spotVars, chain, jobVars, stored>>

After(bars) == IF bars = "enough" THEN "chain" ELSE "failed"

Kept(old, new) ==
    CASE new = "none" \/ old = "enough" -> {old}
      [] old = "none" \/ new = "enough" -> {new}
      [] OTHER -> {"few", "enough"}

LoadBars ==
    /\ pc = "bars"
    /\ \E read \in {cached, [bars |-> "none", fresh |-> FALSE]} :     \* GetBars may fail
        IF read.bars # "none" /\ read.fresh
        THEN pc' = After(read.bars) /\ UNCHANGED cached
        ELSE \/ /\ ctx = "live"
                /\ \E fetched \in Bars :
                     /\ pc' = After(fetched.bars)
                     /\ cached' \in {cached} \cup
                            [bars : Kept(cached.bars, fetched.bars),
                             fresh : {cached.fresh \/ (fetched.bars # "none" /\ fetched.fresh)}]
             \/ pc' = After(read.bars) /\ UNCHANGED cached       \* the broker fails
    /\ UNCHANGED <<request, ctx, spotVars, chain, jobVars, stored>>

-----------------------------------------------------------------------------
(* getOptionChainWithOI: a goroutine takes the caller's hint or asks both   *)
(* sources, while GetOptionChain is under way (started later, it would only *)
(* answer later).                                                           *)
Returned == IF Fetching THEN "backfill" ELSE "done"
Refused == IF request.kind = "oi" THEN "structure" ELSE "failed"

AskSpot ==
    /\ pc = "chain" /\ request.kind # "structure" /\ request.broker = "ibkr"
    /\ resolver = "off"
    /\ IF request.hint > 0
       THEN /\ hint' = <<[price |-> request.hint, source |-> "caller"]>>
            /\ resolver' = "sent"
            /\ UNCHANGED asking
       ELSE resolver' = "waiting" /\ asking' = Sources /\ UNCHANGED hint
    /\ UNCHANGED <<request, ctx, pc, cached, answers, spotCtx, backup, chain, jobVars, stored>>

SpotDead == spotCtx = "dead" \/ ctx = "dead"
NoBuffer == 0                           \* mutant: an answer waits for its reader
ResultsBuffer == 2

SpotAnswers ==
    \E s \in asking, p \in Prices["ibkr"] \cup Prices["yfinance"] :
        /\ p \in Prices[s] /\ (p > 0 => ~SpotDead)
        /\ Len(answers) < ResultsBuffer \/ resolver = "waiting"
        /\ asking' = asking \ {s}
        /\ answers' = Append(answers, [price |-> p, source |-> s])
        /\ UNCHANGED <<request, ctx, pc, cached, spotCtx, resolver, backup, hint, chain, jobVars, stored>>

(* resolveOptionSpot: IB's price as soon as it is there, Yahoo's when both  *)
(* have answered or the time is up.                                         *)
Hint(price, source) == hint' = <<[price |-> price, source |-> source]>> /\ resolver' = "sent"

ResolverReads ==
    /\ resolver = "waiting" /\ answers # <<>>
    /\ answers' = Tail(answers)
    /\ LET r == Head(answers)
           last == asking = {} /\ Len(answers) = 1
           known == IF r.source = "yfinance" /\ r.price > 0 THEN r.price ELSE backup
       IN /\ backup' = known
          /\ IF r.source = "ibkr" /\ r.price > 0 THEN Hint(r.price, "ibkr")
             ELSE IF last THEN Hint(known, "yfinance") ELSE UNCHANGED <<hint, resolver>>
    /\ UNCHANGED <<request, ctx, pc, cached, asking, spotCtx, chain, jobVars, stored>>

ResolverGivesUp ==
    /\ resolver = "waiting" /\ SpotDead
    /\ Hint(backup, "yfinance")
    /\ UNCHANGED <<request, ctx, pc, cached, asking, answers, spotCtx, backup, chain, jobVars, stored>>

SpotTimesOut ==
    /\ resolver = "waiting" /\ spotCtx' = "dead" /\ spotCtx = "live"
    /\ UNCHANGED <<request, ctx, pc, cached, asking, answers, resolver, backup, hint, chain, jobVars, stored>>

(* GetOptionChain and pickRequestedExpiry: a miss of the expiration that    *)
(* was asked for is the user's and ends the fetch.                          *)
Discover ==
    /\ pc = "chain" /\ request.kind # "structure" /\ request.broker = "ibkr"
    /\ resolver # "off"
    /\ \/ /\ ctx = "live" /\ request.exp # "gone"
          /\ \E g \in Grids : chain' = [NoChain EXCEPT !.strikes = g]
          /\ pc' = "hint" /\ UNCHANGED spotCtx
       \/ /\ pc' \in {Refused} \cup (IF request.exp = "gone" THEN {"failed"} ELSE {})
          /\ spotCtx' = "dead" /\ UNCHANGED chain               \* defer cancelSpot()
    /\ UNCHANGED <<request, ctx, cached, asking, answers, resolver, backup, hint, jobVars, stored>>

(* The contracts of at most 15 % from the spot, the nearest first, calls    *)
(* before puts; of a sample only the nearest call and the nearest put.      *)
Distance(c, spot) == IF c[2] > spot THEN c[2] - spot ELSE spot - c[2]
InWindow(strikes, spot) ==
    {"C", "P"} \X {k \in {strikes[i] : i \in DOMAIN strikes} : 100 * k >= 85 * spot /\ 100 * k <= 115 * spot}
Before(c, d, spot) ==
    \/ Distance(c, spot) < Distance(d, spot)
    \/ /\ Distance(c, spot) = Distance(d, spot)
       /\ (c[1] = "C" /\ d[1] = "P") \/ (c[1] = d[1] /\ c[2] < d[2])
AsListed(jobs, spot) ==                 \* mutant: all calls by strike, then the puts
    SetToSortSeq(jobs, LAMBDA c, d : (c[1] = "C" /\ d[1] = "P") \/ (c[1] = d[1] /\ c[2] < d[2]))
Prioritized(jobs, spot) ==              \* the n-th has n - 1 of them before it
    [n \in 1 .. Cardinality(jobs) |->
        CHOOSE c \in jobs : Cardinality({d \in jobs : Before(d, c, spot)}) = n - 1]
AtmJobs(sorted) ==
    LET first(right) == CHOOSE i \in DOMAIN sorted :
            sorted[i][1] = right /\ \A j \in 1 .. (i - 1) : sorted[j][1] # right
    IN <<sorted[first("C")], sorted[first("P")]>>

TakeHint ==
    /\ pc = "hint" /\ hint # <<>>
    /\ hint' = <<>>
    /\ LET spot == Head(hint).price
           window == InWindow(chain.strikes, spot)
           jobs == Prioritized(window, spot)
       IN IF spot > 0
          THEN /\ chain' = [chain EXCEPT !.price = spot, !.source = Head(hint).source]
               /\ IF window = {} THEN pc' = Returned /\ UNCHANGED <<queue, worker>>
                  ELSE /\ pc' = "metrics"
                       /\ queue' = IF request.kind = "sample" THEN AtmJobs(jobs) ELSE jobs
                       /\ worker' = [w \in Samplers |-> Idle]
          ELSE /\ pc' = IF chain.strikes = <<>> THEN Returned ELSE Refused
               /\ chain' = IF chain.strikes = <<>> THEN chain ELSE NoChain
               /\ UNCHANGED <<queue, worker>>
    /\ spotCtx' = IF pc' = "metrics" THEN spotCtx ELSE "dead"
    /\ UNCHANGED <<request, ctx, cached, asking, answers, resolver, backup, asked, stored>>

(* A worker takes a contract, looks at the context, asks IB and waits; one  *)
(* that finds the context dead drops its contract and ends.                 *)
At(w, state) == worker[w].at = state
Goes(w, state) == worker' = [worker EXCEPT ![w] = state]

Works(w) ==
    /\ pc = "metrics"
    /\ \/ /\ At(w, "idle") /\ queue # <<>>
          /\ Goes(w, [at |-> "took", job |-> Head(queue)]) /\ queue' = Tail(queue)
          /\ UNCHANGED asked
       \/ At(w, "idle") /\ queue = <<>> /\ Goes(w, Off) /\ UNCHANGED <<queue, asked>>
       \/ At(w, "took") /\ ctx = "dead" /\ Goes(w, Off) /\ UNCHANGED <<queue, asked>>
       \/ /\ At(w, "took") /\ ctx = "live"
          /\ Goes(w, [worker[w] EXCEPT !.at = "asks"])
          /\ asked' = asked \cup {worker[w].job} /\ UNCHANGED queue
       \/ At(w, "asks") /\ Goes(w, Idle) /\ UNCHANGED <<queue, asked>>
    /\ UNCHANGED <<request, ctx, pc, cached, spotVars, chain, stored>>

Sampled ==
    /\ pc = "metrics" /\ \A w \in Samplers : At(w, "off")
    /\ pc' = Returned /\ spotCtx' = "dead"
    /\ UNCHANGED <<request, ctx, cached, asking, answers, resolver, backup, hint, chain, jobVars, stored>>

-----------------------------------------------------------------------------
(* Without per-contract data: GetOptionChain of the broker in use; and of   *)
(* Yahoo, whose chain has its open interest, for either kind of fetch.      *)
(* Where no chain can be had, the analysis goes on without.                 *)
Structure ==
    /\ \/ pc = "structure"
       \/ pc = "chain" /\ (request.kind = "structure" \/ request.broker = "yfinance")
    /\ \/ /\ ctx = "live" /\ request.exp # "gone" /\ Fetching
          /\ \E g \in Grids : chain' = [NoChain EXCEPT !.strikes = g]
          /\ pc' = "backfill"
       \/ /\ UNCHANGED chain
          /\ pc' \in {IF pc = "structure" \/ request.kind = "structure" THEN "done" ELSE Refused}
                     \cup (IF request.exp = "gone" THEN {"failed"} ELSE {})
    /\ UNCHANGED <<request, ctx, cached, spotVars, jobVars, stored>>

(* backfillOptionChainUnderlyingPrice, then UpsertOptionChain, both best    *)
(* effort; a chain without expirations is not stored.                       *)
Backfill ==
    /\ Step("backfill", "done")
    /\ \E p \in IF chain.price > 0 THEN {chain.price}
                ELSE {None} \cup (IF ctx = "live" THEN Prices[request.broker] ELSE {}) :
          chain' = [chain EXCEPT !.price = p]
    /\ stored' \in {stored} \cup (IF ctx = "live" THEN {chain'} ELSE {})
    /\ UNCHANGED <<request, ctx, cached, spotVars, jobVars>>

ContextEnds ==
    /\ ctx = "live" /\ ctx' = "dead" /\ pc \notin {"done", "failed"}
    /\ UNCHANGED <<request, pc, cached, spotVars, chain, jobVars, stored>>

Next ==
    \/ Quote \/ LoadBars \/ AskSpot \/ SpotAnswers \/ ResolverReads \/ ResolverGivesUp
    \/ SpotTimesOut \/ Discover \/ TakeHint \/ Sampled \/ Structure \/ Backfill \/ ContextEnds
    \/ \E w \in Samplers : Works(w)

Spec == Init /\ [][Next]_vars

-----------------------------------------------------------------------------
TypeOK ==
    /\ request \in AnalysisRequests /\ ctx \in {"live", "dead"}
    /\ asking \subseteq Sources /\ asked \subseteq Contracts
    /\ resolver \in {"off", "waiting", "sent"}

(* The spot that selects contracts is a quote, never the median strike, and *)
(* carries the name of the source that gave it, whatever comes late.        *)
SpotIsQuoted ==
    chain.source # "" =>
        /\ chain.price > 0
        /\ chain.price \in IF chain.source = "caller" THEN {request.hint} ELSE Prices[chain.source]

(* The nearest contracts are asked for first: when the time is up, a worker *)
(* each may have dropped a nearer one than the farthest that was asked; and *)
(* if there is time, all in the window are asked, or of a sample one call   *)
(* and one put.                                                             *)
NearestFirst ==
    LET window == InWindow(chain.strikes, chain.price)
        nearer(c) == {d \in window \ asked : Distance(d, chain.price) < Distance(c, chain.price)}
        sides(c) == {d \in window : d[1] = c[1]}
    IN /\ asked \subseteq window
       /\ request.kind = "oi" => \A c \in asked : Cardinality(nearer(c)) < Cardinality(Samplers)
       /\ request.kind = "sample" =>
            \A c \in asked : \A d \in sides(c) :
                d # c => d \notin asked /\ Distance(c, chain.price) <= Distance(d, chain.price)
       /\ pc \in {"backfill", "done"} /\ ctx = "live" /\ chain.source # "" =>
            IF request.kind = "sample" THEN window # {} => Cardinality(asked) = 2 ELSE asked = window

(* Nobody is left behind by a fetch that returned: a goroutine that still   *)
(* asks for the spot can hand over its answer though nobody reads it.       *)
NobodyIsStuck ==
    pc \in {"done", "failed"} =>
        resolver = "waiting" \/ Len(answers) + Cardinality(asking) <= ResultsBuffer

=============================================================================
