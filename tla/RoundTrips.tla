----------------------------- MODULE RoundTrips -----------------------------
(***************************************************************************)
(* The round trips of the trade journal: how MatchRoundTrips               *)
(* (journal/matcher.go) makes the fills of an instrument out of the rows   *)
(* of the journal, and how ListRoundTrips and Review (server/              *)
(* journal_svc.go) sum the trips up.  One account, symbol and currency;    *)
(* a day is two instants long.                                             *)
(***************************************************************************)
EXTENDS FifoMatcher, FiniteSetsExt

CONSTANT Histories      \* sequences of rows of trade_journal, oldest first

VARIABLE rows

allVars == <<rows, vars>>

-----------------------------------------------------------------------------
(* groupByPermID: the rows of each order; a row without a PermID is alone.  *)
(* A map is iterated over in any order, the single rows follow.             *)
Orders == {rows[i].perm : i \in DOMAIN rows} \cup {0}

groupByPermID(i) ==
    IF rows[i].perm = 0 THEN {i} ELSE {j \in DOMAIN rows : rows[j].perm = rows[i].perm}

Iterations ==
    {place \in Injection(Orders, 1 .. Cardinality(Orders)) : place[0] = Cardinality(Orders)}

(* enrichBAGFromLegs: the combo row stands for its group, with the last     *)
(* expiration of its legs; of several combo rows, the last one does.        *)
Combos(i) == {j \in groupByPermID(i) : rows[j].sec = "BAG"}
LegExps(i) == {rows[j].exp : j \in {l \in groupByPermID(i) : rows[l].sec = "OPT"}} \ {Never}

enrichBAGFromLegs == {i \in DOMAIN rows : Combos(i) # {} => i = Max(Combos(i))}

KeyOf(i) ==
    [sec |-> rows[i].sec,
     exp |-> IF Combos(i) = {} \/ LegExps(i) = {} THEN rows[i].exp ELSE Max(LegExps(i))]

AsFill(i) ==
    [id |-> i, side |-> rows[i].side, qty |-> rows[i].qty, time |-> rows[i].time,
     price |-> IF rows[i].sec = "BAG" /\ rows[i].price < 0   \* normalizeBAGPrice
               THEN -rows[i].price ELSE rows[i].price]

(* The fills of an instrument, by time; those of one time stay in the order *)
(* of their groups, and in a group in that of the rows.                     *)
FillsOf(k) == {i \in enrichBAGFromLegs : KeyOf(i) = k}

Sooner(i, j, place) ==
    LET here == place[rows[i].perm]
        there == place[rows[j].perm]
    IN \/ rows[i].time < rows[j].time
       \/ /\ rows[i].time = rows[j].time
          /\ here < there \/ (here = there /\ i < j)

ByTime(some, place) ==                  \* the n-th has n - 1 of them before it
    [n \in 1 .. Cardinality(some) |->
        CHOOSE i \in some : Cardinality({j \in some : Sooner(j, i, place)}) = n - 1]

GroupOf(k, place) ==
    LET sorted == ByTime(FillsOf(k), place)
    IN [n \in DOMAIN sorted |-> AsFill(sorted[n])]

MatchInit ==
    /\ rows \in Histories
    /\ \E k \in {KeyOf(i) : i \in enrichBAGFromLegs}, place \in Iterations :
          Start(k, GroupOf(k, place))

MatchNext == Next /\ UNCHANGED rows

MatchSpec == MatchInit /\ [][MatchNext]_allVars

-----------------------------------------------------------------------------
(* ListRoundTrips: an inclusive window on the close; with one, open trips   *)
(* are dropped.  Zero is no bound.                                          *)
ClosedBefore(trip, until) ==            \* mutant: the end of the window is left out
    until = 0 \/ trip.closeTime < until

ClosedUntil(trip, until) == until = 0 \/ trip.closeTime <= until

ListRoundTrips(since, until) ==
    {n \in DOMAIN trips :
        \/ since = 0 /\ until = 0
        \/ /\ trips[n].closeTime # Never
           /\ since = 0 \/ trips[n].closeTime >= since
           /\ ClosedUntil(trips[n], until)}

Review(since, until) ==
    LET listed == ListRoundTrips(since, until)
        With(status) == {n \in listed : trips[n].status = status}
        ended == With("closed") \cup With("expired")
    IN [open |-> Cardinality(With("open")),
        closed |-> Cardinality(With("closed")),
        expired |-> Cardinality(With("expired")),
        wins |-> Cardinality({n \in ended : trips[n].pnl > 0}),
        losses |-> Cardinality({n \in ended : trips[n].pnl < 0}),
        pnl |-> SumFunctionOnSet([n \in DOMAIN trips |-> trips[n].pnl], ended)]

(* The first and the last instant of a day, as the CLI and the pages ask    *)
(* for --since and --until: "t.Add(24h - 1s)".                              *)
DayStart(d) == 2 * d
DayEnd(d) == 2 * d + 1

-----------------------------------------------------------------------------
(* Reference: what a fill opens and closes follows from the position before *)
(* it, and the units opened first are closed first.                         *)
Signed(f) == IF f.side = "BOT" THEN f.qty ELSE -f.qty
SumTo(n, f) == SumFunctionOnSet(f, 1 .. n)
Position(n) == SumTo(n - 1, [m \in DOMAIN input |-> Signed(input[m])])
Positive(x) == IF x > 0 THEN x ELSE 0

(* side: the side that opens the trips.                                     *)
Other(side) == IF side = "BOT" THEN "SLD" ELSE "BOT"
Held(side, n) == Positive(IF side = "BOT" THEN Position(n) ELSE -Position(n))
Closes(side, n) ==
    IF input[n].side = side THEN 0 ELSE Lesser(input[n].qty, Held(side, n))
Opens(side, n) ==
    IF input[n].side # side THEN 0 ELSE input[n].qty - Closes(Other(side), n)

OpenedBy(side, n) == SumTo(n, [m \in DOMAIN input |-> Opens(side, m)])
ClosedBy(side, n) == SumTo(n, [m \in DOMAIN input |-> Closes(side, m)])

(* Of the units of a fill those that are among the units from .. to.        *)
Among(side, i, from, to) ==
    LET before == OpenedBy(side, i - 1)
        start == IF before > from THEN before ELSE from
    IN Positive(Lesser(OpenedBy(side, i), to) - start)

Overlap(side, i, j) == Among(side, i, ClosedBy(side, j - 1), ClosedBy(side, j))

Matched(direction, i, j) ==
    SumFunctionOnSet([n \in DOMAIN trips |-> trips[n].qty],
        {n \in DOMAIN trips :
            /\ trips[n].status = "closed" /\ trips[n].direction = direction
            /\ trips[n].openId = input[i].id /\ trips[n].closeId = input[j].id})

(* Of the fills it is given matchGroup closes the oldest lots first, however *)
(* they scale in, scale out or reverse, and uses up every unit of them.     *)
FirstInFirstOut == OldestFirst /\ EveryUnitOnce

(* Every pair of fills is matched by exactly the units that first-in        *)
(* first-out gives it.                                                      *)
AsComputed ==
    \A i, j \in DOMAIN input :
        /\ Matched("LONG", i, j) = Overlap("BOT", i, j)
        /\ Matched("SHORT", i, j) = Overlap("SLD", i, j)

(* matchGroup is given proper fills, however the rows come; the trips that  *)
(* did not close are the position that the rows of the journal leave in the *)
(* instrument, where a combo order is its last combo row and its legs are   *)
(* not counted.                                                             *)
Represents(i, k) ==
    LET group == IF rows[i].perm = 0 THEN {i}
                 ELSE {j \in DOMAIN rows : rows[j].perm = rows[i].perm}
        bags == {j \in group : rows[j].sec = "BAG"}
        exps == {rows[j].exp : j \in {l \in group : rows[l].sec = "OPT"}} \ {Never}
    IN /\ rows[i].sec = k.sec
       /\ IF bags = {} THEN rows[i].exp = k.exp
          ELSE i = Max(bags) /\ k.exp = (IF exps = {} THEN rows[i].exp ELSE Max(exps))

PositionKept ==
    /\ ProperFills
    /\ pc = "done" =>
          /\ AsComputed
          /\ SumFunctionOnSet([n \in DOMAIN trips |->
                                  IF trips[n].direction = "LONG" THEN trips[n].qty
                                                                 ELSE -trips[n].qty],
                              {n \in DOMAIN trips : trips[n].status # "closed"})
             = SumFunctionOnSet([i \in DOMAIN rows |-> Signed(rows[i])],
                                {i \in DOMAIN rows : Represents(i, key)})

(* The reviews of single days add up to the review of all time: no trip     *)
(* falls between two windows or into both.                                  *)
ReviewedDays == 1 .. AsOf \div 2
ReviewsAddUp ==
    pc = "done" =>
        LET all == Review(0, 0)
            day == [d \in ReviewedDays |-> Review(DayStart(d), DayEnd(d))]
            Total(of) == SumFunctionOnSet(of, ReviewedDays)
        IN /\ Total([d \in ReviewedDays |-> day[d].pnl]) = all.pnl
           /\ Total([d \in ReviewedDays |-> day[d].closed + day[d].expired])
                = all.closed + all.expired
           /\ Total([d \in ReviewedDays |-> day[d].wins]) = all.wins

=============================================================================
