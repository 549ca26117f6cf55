--------------------------- MODULE MarketReports ---------------------------
(***************************************************************************)
(* The premarket, postclose and event cards (internal/premarket, postclose,*)
(* eventintel) as their HTTP handlers serve them.  A card is made in one   *)
(* go of what the sources send, any part of which may be missing; only the *)
(* gap statistics are kept, in the database.  Days and half hours of New   *)
(* York stand for time, hundredths for percent.                            *)
(***************************************************************************)
EXTENDS Integers, Sequences, FiniteSetsExt

CONSTANTS
    Watchlists, Curated,    \* sets of symbols; a symbol is a number
    Sector,                 \* symbol |-> sector
    Windows,                \* time |-> the daily bars Yahoo sends then
    Feeds,                  \* symbol |-> bars: the intraday bars of a load
    Statements, Hits,       \* sequences of sentences; sentence |-> its tone
    TTL, MaxNow

VARIABLES
    now,
    gapStats,       \* premarket_gap_stats: <<direction, band>> |-> row
    card            \* the last card served

vars == <<now, gapStats, card>>

Change(from, to) == IF from > 0 THEN (10000 * (to - from)) \div from ELSE 0
Abs(x) == IF x < 0 THEN -x ELSE x
NoCard == [name |-> "none", code |-> 200, rows |-> {}, missing |-> {}, old |-> "no", warned |-> {}]

(* A handler answers 503 without its service.  The services themselves      *)
(* never fail: what fails becomes a warning.  The card goes out as it is.   *)
Serve(name, rows, missing, old, warned) ==
    /\ \/ card' = [NoCard EXCEPT !.name = name, !.code = 503]
       \/ card' = [name |-> name, code |-> 200, rows |-> rows, missing |-> missing,
                   old |-> old, warned |-> warned]
    /\ UNCHANGED now

(* The watchlist and the curated names; a watchlist that cannot be read is  *)
(* an empty one, without a word.                                            *)
Universe(watchlist) == watchlist \cup Curated

-----------------------------------------------------------------------------
(* gaps.go.                                                                 *)
Classify(gap) ==
    IF Abs(gap) < 25 THEN <<>>
    ELSE <<IF gap < 0 THEN "down" ELSE "up",
           IF Abs(gap) < 50 THEN "0.25-0.5" ELSE IF Abs(gap) < 100 THEN "0.5-1" ELSE "1+">>

Filled(key, prev, bar) == IF key[1] = "up" THEN bar.low <= prev.close ELSE bar.high >= prev.close

ComputeGapStats(bars) ==
    LET key(i) == Classify(Change(bars[i - 1].close, bars[i].open))
        gaps == {i \in 2 .. Len(bars) : bars[i - 1].close > 0 /\ key(i) # <<>>}
    IN [k \in {key(i) : i \in gaps} |->
            LET mine == {i \in gaps : key(i) = k}
            IN [filled |-> Cardinality({i \in mine : Filled(k, bars[i - 1], bars[i])}),
                total |-> Cardinality(mine), asOf |-> now]]

(* UpsertGapStats replaces the bands that occur; GetGapStats tells the age  *)
(* of the oldest.                                                           *)
Upsert(fresh) ==
    [k \in DOMAIN fresh \cup DOMAIN gapStats |->
        IF k \in DOMAIN fresh THEN fresh[k] ELSE gapStats[k]]
AsOfs == {gapStats[k].asOf : k \in DOMAIN gapStats}
NewestAsOf == IF AsOfs = {} THEN 0 ELSE Max(AsOfs)      \* mutant
OldestAsOf == IF AsOfs = {} THEN 0 ELSE Min(AsOfs)

Stale == gapStats = <<>> \/ now - OldestAsOf > TTL

ImpliedGap(es) == [gap |-> es, key |-> Classify(es)]

(* Gaps: the statistics of the cache, or fresh ones when that is stale and  *)
(* the bars come, have a gap and are stored; then the opening that ES       *)
(* implies.                                                                 *)
Gaps(readOk, barsOk, storeOk, es) ==
    LET fresh == ComputeGapStats(Windows[now])
        fetched == readOk /\ Stale /\ barsOk /\ Len(Windows[now]) >= 2 /\ storeOk
        rows == IF ~readOk THEN <<>> ELSE IF fetched /\ fresh # <<>> THEN fresh ELSE gapStats
        implied == IF es = <<>> THEN <<>> ELSE ImpliedGap(es[1]).key
    IN /\ gapStats' = IF fetched THEN Upsert(fresh) ELSE gapStats
       /\ Serve("gaps", {[key |-> k, row |-> rows[k], here |-> k = implied] : k \in DOMAIN rows},
                IF es = <<>> THEN {"ES"} ELSE {},
                IF \A k \in DOMAIN rows : now - rows[k].asOf <= TTL THEN "no"
                ELSE IF fetched THEN "gapless" ELSE "unread",
                (IF ~readOk \/ (Stale /\ ~fetched) THEN {"gaps"} ELSE {})
                \cup (IF rows = <<>> THEN {"no statistics"} ELSE {})
                \cup (IF es = <<>> THEN {"ES"} ELSE {}))

(* overnight.go and sentiment.go.                                           *)
Chain == <<"N225", "TSMC_TW", "SX5E", "ES">>
Overnight(quotes) ==
    LET here == {i \in DOMAIN Chain : Chain[i] \in DOMAIN quotes}
        same == {i \in here : (quotes[Chain[i]] >= 0) = (quotes[Chain[Min(here)]] >= 0)}
    IN /\ Serve("overnight",
                {[id |-> Chain[i], same |-> Cardinality(same), total |-> Cardinality(here)] :
                    i \in here},
                {Chain[i] : i \in DOMAIN Chain} \ DOMAIN quotes, "no",
                {Chain[i] : i \in DOMAIN Chain} \ DOMAIN quotes)
       /\ UNCHANGED gapStats

RegimeLabel(pc, term) ==        \* 0: not known
    LET options == IF pc >= 115 THEN 1 ELSE IF pc > 0 /\ pc <= 85 THEN -1 ELSE 0
        curve == IF term > 0 /\ term < 100 THEN 1 ELSE IF term >= 105 THEN -1 ELSE 0
    IN IF pc = 0 /\ term = 0 THEN "unavailable"
       ELSE IF options + curve >= 1 THEN "defensive"
       ELSE IF options + curve <= -1 THEN "bullish" ELSE "neutral"
Sentiment(vix, vix3m, pc) ==
    LET missing == {m \in {"VIX", "VIX3M", "P/C"} :
                        0 = CASE m = "VIX" -> vix [] m = "VIX3M" -> vix3m [] OTHER -> pc}
    IN /\ Serve("sentiment",
                {[label |-> RegimeLabel(pc, IF vix = 0 THEN 0 ELSE (100 * vix3m) \div vix)]},
                missing, "no", missing)
       /\ UNCHANGED gapStats

-----------------------------------------------------------------------------
(* Intraday bars: [day, slot, close, vol], in order.  A 16:00 bar is after  *)
(* hours before the open and regular after the close; neither knows half    *)
(* days.                                                                    *)
IsPremarket(b) == b.slot \in 8 .. 18
IsRegular(b) == b.slot \in 19 .. 31
IsRegularOrClose(b) == b.slot \in 19 .. 32
IsPostclose(b) == b.slot \in 33 .. 39
Some(bars, P(_)) == {i \in DOMAIN bars : P(bars[i])}
VolumeOf(bars, is) == MapThenSumSet(LAMBDA i : bars[i].vol, is)
LastClose(bars, is) == IF is = {} THEN 0 ELSE bars[Max(is)].close

(* Movers: the price before the open against the last regular close, or     *)
(* against itself when there is none; a symbol without a price is left out. *)
PremarketMove(bars, today) ==
    LET window == Some(bars, LAMBDA b : b.day = today /\ IsPremarket(b))
        past == Some(bars, LAMBDA b : b.day < today /\ IsPremarket(b))
        closes == Some(bars, LAMBDA b : b.day < today /\ IsRegular(b) /\ b.close > 0)
        last == LastClose(bars, window)
        prev == IF closes = {} THEN last ELSE LastClose(bars, closes)
    IN [ok |-> last > 0, pct |-> Change(prev, last),
        ratio |-> VolumeOf(bars, window) > 0 /\ VolumeOf(bars, past) > 0]

Ranked(pct) ==                      \* the best eight and the worst eight
    {s \in DOMAIN pct :
        8 > Cardinality({o \in DOMAIN pct :
                IF pct[s] >= 0 THEN pct[o] > pct[s] ELSE pct[o] < pct[s]})}

PremarketMovers(watchlist, feed, today) ==
    LET priced == {s \in Universe(watchlist) \cap DOMAIN feed : PremarketMove(feed[s], today).ok}
        moves == [s \in priced |-> PremarketMove(feed[s], today)]
        ranked == Ranked([s \in priced |-> moves[s].pct])
    IN /\ Serve("premarket movers",
                {[id |-> s, pct |-> moves[s].pct, watch |-> s \in watchlist] : s \in ranked}, {}, "no",
                (IF \E s \in priced : ~moves[s].ratio THEN {"volume ratio"} ELSE {})
                \cup (IF ranked = {} THEN {"no data"} ELSE {}))
       /\ UNCHANGED gapStats

(* Postclose: the latest day with a bar until now, its regular and after    *)
(* hours part against the close before.  Too little leaves the symbol out.  *)
PostcloseMove(bars, at) ==
    LET day == Max({0} \cup {bars[i].day : i \in Some(bars, LAMBDA b :
                    b.day <= at /\ (IsRegularOrClose(b) \/ IsPostclose(b)))})
        prev == LastClose(bars, Some(bars, LAMBDA b : b.day < day /\ IsRegularOrClose(b)))
        regular == LastClose(bars, Some(bars, LAMBDA b : b.day = day /\ IsRegularOrClose(b)))
        late == LastClose(bars, Some(bars, LAMBDA b : b.day = day /\ IsPostclose(b)))
        after == IF late > 0 THEN late ELSE regular
    IN [ok |-> day > 0 /\ prev > 0 /\ regular > 0, hasAfter |-> late > 0,
        afterPct |-> Change(regular, after), combined |-> Change(prev, after)]

(* read_across.go: up to three others of the sector of each driver.         *)
Drives(m) == Abs(m.afterPct) >= 200
ReadAcross(moves) ==
    LET peers(d) == {p \in DOMAIN moves \ {d} : Sector[p] = Sector[d]}
    IN {e \in (DOMAIN moves) \X (DOMAIN moves) :
            /\ Drives(moves[e[1]]) /\ e[2] \in peers(e[1])
            /\ 3 > Cardinality({q \in peers(e[1]) : q < e[2]})}

(* earnings.go: 30 days back and ahead, stale after 14.                     *)
Reports(raw, today) ==
    {[at |-> e.at, stale |-> e.at < today - 14, label |-> e.label] :
        e \in {e \in raw : e.at \in today - 30 .. today + 30}}

(* timeline.go: the newest sixteen.  A report that is scheduled is newer    *)
(* than anything of today.                                                  *)
Timeline(reports, moves, today) ==
    LET events == {[at |-> r.at, kind |-> "earnings", who |-> 0] : r \in reports}
                  \cup {[at |-> today, kind |-> "mover", who |-> s] :
                        s \in {s \in DOMAIN moves : Drives(moves[s])}}
                  \cup {[at |-> today, kind |-> "read_across", who |-> e[1]] : e \in ReadAcross(moves)}
    IN {e \in events : 16 > Cardinality({o \in events : o.at > e.at})}

PostcloseCards(watchlist, feed, raw, at) ==
    LET enough == {s \in Universe(watchlist) \cap DOMAIN feed : PostcloseMove(feed[s], at).ok}
        all == [s \in enough |-> PostcloseMove(feed[s], at)]
        ranked == Ranked([s \in enough |-> all[s].combined])
        moves == [s \in ranked |-> all[s]]
        moverWarnings == {"no after hours" : s \in {s \in enough : ~all[s].hasAfter}}
                         \cup (IF ranked = {} THEN {"no data"} ELSE {})
        reports == Reports(raw, at)
        reportWarnings == IF reports = {} THEN {"no reports"} ELSE {}
        edgeWarnings == IF ReadAcross(moves) = {} THEN {"no edges"} ELSE {}
        events == Timeline(reports, moves, at)
    IN /\ \/ Serve("postclose movers", {[id |-> s] : s \in ranked}, {}, "no", moverWarnings)
          \/ Serve("earnings", reports, {}, "no", reportWarnings)
          \/ Serve("read across", ReadAcross(moves), {}, "no", moverWarnings \cup edgeWarnings)
          \/ Serve("timeline", events, {}, "no",
                   moverWarnings \cup reportWarnings \cup edgeWarnings
                   \cup (IF events = {} THEN {"no events"} ELSE {}))
       /\ UNCHANGED gapStats

-----------------------------------------------------------------------------
(* rates.go: against the first bar, or the change the quote tells.          *)
Rates(quotes, bars, ids) ==
    LET baseline(i) == IF i \in DOMAIN bars THEN bars[i] ELSE quotes[i]
        missing == {i \in ids : i \notin DOMAIN quotes \/ baseline(i) <= 0}
    IN /\ Serve("rates", {[id |-> i, pct |-> Change(baseline(i), quotes[i])] : i \in ids \ missing},
                missing, "no", missing)
       /\ UNCHANGED gapStats

(* diff.go: what is new speaks for itself, what is gone for the contrary.   *)
Count(text, other, tone) ==
    Cardinality({i \in DOMAIN text : (\A j \in DOMAIN other : other[j] # text[i]) /\ tone \in Hits[text[i]]})
Hawkish(prior, current) == Count(current, prior, "hawkish") + Count(prior, current, "dovish")
Dovish(prior, current) == Count(current, prior, "dovish") + Count(prior, current, "hawkish")
Verdict(prior, current) ==
    LET h == Hawkish(prior, current)
        d == Dovish(prior, current)
    IN IF h = 0 /\ d = 0 THEN "neutral"
       ELSE IF h > 0 /\ d > 0 /\ Abs(h - d) <= 1 THEN "mixed"
       ELSE IF h > d THEN "hawkish" ELSE IF d > h THEN "dovish" ELSE "mixed"

(* Diff: two statements of the Fed; the two fixtures instead when either    *)
(* does not come.                                                           *)
Diff(prior, current, came) ==
    /\ Serve("diff", {[verdict |-> Verdict(prior, current)]}, IF came THEN {} ELSE {"fed.gov"}, "no",
             IF came THEN {} ELSE {"fed.gov"})
    /\ UNCHANGED gapStats

(* source.go: the local calendar, and over it what the Fed and the BLS say. *)
EventDates(fed, bls, calendar) ==
    [dates |-> calendar \cup fed \cup bls,
     warned |-> (IF fed = {} THEN {"fed.gov"} ELSE {}) \cup (IF bls = {} THEN {"bls.gov"} ELSE {})]

(* patterns.go, sensitivity.go: the event day and the next against the day  *)
(* before each; bars are a sequence of [day, close].                        *)
EventWindows(bars, dates) ==
    {[day |-> bars[i].day, move |-> Change(bars[i - 1].close, bars[i].close),
      next |-> Change(bars[i].close, bars[i + 1].close)] :
        i \in {i \in 2 .. Len(bars) - 1 :
                bars[i].day \in dates /\ bars[i - 1].close > 0 /\ bars[i].close > 0}}
Sign(x) == IF x > 0 THEN 1 ELSE IF x < 0 THEN -1 ELSE 0
Aligned(ws, drivers) ==             \* the sum of signs and how many there are
    LET pairs == {p \in ws \X drivers : p[1].day = p[2].day /\ p[1].move # 0 /\ p[2].move # 0}
    IN <<MapThenSumSet(LAMBDA p : Sign(p[1].move) * Sign(p[2].move), pairs), Cardinality(pairs)>>

EventCards(bars, ids, events) ==
    LET windows == [i \in ids |-> IF i \in DOMAIN bars THEN EventWindows(bars[i], events.dates) ELSE {}]
        missing == {i \in ids : windows[i] = {}}
        up(i) == Cardinality({w \in windows[i] : w.move > 0})
        down(i) == Cardinality({w \in windows[i] : w.move < 0})
    IN /\ \/ Serve("patterns", {[id |-> i, n |-> Cardinality(windows[i]), one |-> Max({up(i), down(i)})] :
                                i \in ids}, missing, "no", missing \cup events.warned)
          \/ Serve("sensitivity", {[id |-> i, to |-> [j \in ids |-> Aligned(windows[i], windows[j])]] :
                                   i \in ids}, missing, "no", missing \cup events.warned)
       /\ UNCHANGED gapStats

-----------------------------------------------------------------------------
Init == now = 1 /\ gapStats = <<>> /\ card = NoCard

Tick == now < MaxNow /\ now' = now + 1 /\ UNCHANGED <<gapStats, card>>

(* The cards that keep nothing are asked for once, on the first day.        *)
First == now = 1 /\ gapStats = <<>> /\ card = NoCard
Rated == {"US10Y", "SPX"}
Moves(ids) == UNION {[some -> {-100, 0, 50}] : some \in SUBSET ids}
Daily(c) == <<[day |-> 1, close |-> 100], [day |-> 2, close |-> c], [day |-> 3, close |-> 102]>>

Next ==
    \/ Tick
    \/ card.name \in {"none", "gaps"} /\ \E readOk, barsOk, storeOk \in BOOLEAN, es \in {<<>>, <<30>>, <<-120>>} :
            Gaps(readOk, barsOk, storeOk, es)
    \/ First /\ \E quotes \in Moves({"N225", "TSMC_TW", "SX5E", "ES"}) : Overnight(quotes)
    \/ First /\ \E vix, vix3m \in {0, 18, 20}, pc \in {0, 80, 100, 120} : Sentiment(vix, vix3m, pc)
    \/ First /\ \E w \in Watchlists \cup {{}}, feed \in Feeds, at \in {2, 3} :
            \/ PremarketMovers(w, feed, at)
            \/ \E raw \in SUBSET {[at |-> d, label |-> "beat"] : d \in {-40, -20, 1, 20}} :
                    PostcloseCards(w, feed, raw, at)
    \/ First /\ \E quotes, bars \in Moves(Rated) : Rates(quotes, bars, Rated)
    \/ First /\ \E prior, current \in Statements, came \in BOOLEAN : Diff(prior, current, came)
    \/ First /\ \E fed, bls \in SUBSET {2, 3}, c \in {98, 100, 101}, some \in SUBSET Rated :
            EventCards([i \in some |-> Daily(c)], Rated, EventDates(fed, bls, {2}))

Spec == Init /\ [][Next]_vars

-----------------------------------------------------------------------------
TypeOK == now \in 1 .. MaxNow /\ card.code \in {200, 503}

(* What a card does not know it says: each instrument that is missing from  *)
(* a fixed list is named, a card without rows has a warning, and statistics *)
(* of gaps that are older than their time to live are shown only with one,  *)
(* or after bars came in which there was no gap: those replace nothing and  *)
(* say nothing.  (Symbols of a ranking that have no bars are left out in    *)
(* silence.)                                                                *)
MissingIsNamed ==
    card.code = 200 /\ card.name # "none" =>
        /\ card.missing \subseteq card.warned
        /\ card.rows = {} => card.warned # {}
        /\ card.old = "unread" => card.warned \ {"ES"} # {}

=============================================================================
