----------------------------- MODULE FifoMatcher -----------------------------
(***************************************************************************)
(* matchGroup of journal/matcher.go: the fills of one instrument, in the   *)
(* order of their times, open lots and close the oldest lots of the other  *)
(* side.  One step is one iteration of a loop of the code.                 *)
(***************************************************************************)
EXTENDS Integers, Sequences, Functions

CONSTANTS
    Keys,       \* instruments: security type, last second of the expiration day
    Inputs,     \* sequences of fills of one instrument
    AsOf        \* when the round trips are asked for

Never == 0
Options == {"OPT", "BAG"}

VARIABLES
    key,        \* the instrument
    input,      \* what matchGroup was given
    fills,      \* ... and has yet to take
    hand,       \* the fill at hand, with the quantity that is left of it
    longs,      \* longOpens
    shorts,     \* shortOpens
    trips,
    pc

vars == <<key, input, fills, hand, longs, shorts, trips, pc>>

NoFill == [id |-> 0, side |-> "BOT", qty |-> 0, price |-> 0, time |-> 0]

Start(k, group) ==
    /\ key = k /\ input = group /\ fills = group
    /\ hand = NoFill
    /\ longs = <<>> /\ shorts = <<>> /\ trips = <<>>
    /\ pc = "next"

Init == \E k \in Keys, group \in Inputs : Start(k, group)

-----------------------------------------------------------------------------
TakeFill ==
    /\ pc = "next" /\ fills # <<>>
    /\ hand' = Head(fills)
    /\ fills' = Tail(fills)
    /\ pc' = "match"
    /\ UNCHANGED <<key, input, longs, shorts, trips>>

multiplierFor(sec) == IF sec \in Options THEN 100 ELSE 1

Lesser(a, b) == IF a < b THEN a ELSE b

ReduceWhole(lots, take) == Tail(lots)   \* mutant: the rest of a lot goes with it

(* The front lot without what was taken of it; an empty one goes.           *)
Reduce(lots, take) ==
    IF Head(lots).qty = take THEN Tail(lots)
    ELSE <<[Head(lots) EXCEPT !.qty = @ - take]>> \o Tail(lots)

ClosedTrip(direction, lot, take) ==
    [direction |-> direction, status |-> "closed", qty |-> take,
     openId |-> lot.id, closeId |-> hand.id,
     openTime |-> lot.time, closeTime |-> hand.time,
     pnl |-> multiplierFor(key.sec) * take *
                (IF direction = "LONG" THEN hand.price - lot.price
                                       ELSE lot.price - hand.price)]

BuyCloses ==
    /\ pc = "match" /\ hand.side = "BOT" /\ hand.qty > 0 /\ shorts # <<>>
    /\ LET take == Lesser(hand.qty, Head(shorts).qty)
       IN /\ trips' = Append(trips, ClosedTrip("SHORT", Head(shorts), take))
          /\ shorts' = Reduce(shorts, take)
          /\ hand' = [hand EXCEPT !.qty = @ - take]
    /\ UNCHANGED <<key, input, fills, longs, pc>>

SaleCloses ==
    /\ pc = "match" /\ hand.side = "SLD" /\ hand.qty > 0 /\ longs # <<>>
    /\ LET take == Lesser(hand.qty, Head(longs).qty)
       IN /\ trips' = Append(trips, ClosedTrip("LONG", Head(longs), take))
          /\ longs' = Reduce(longs, take)
          /\ hand' = [hand EXCEPT !.qty = @ - take]
    /\ UNCHANGED <<key, input, fills, shorts, pc>>

AsLot == [id |-> hand.id, qty |-> hand.qty, price |-> hand.price, time |-> hand.time]

OpenAnyway(opposite) == TRUE            \* mutant: a fill only closes or only opens
NothingToClose(opposite) == hand.qty = 0 \/ opposite = <<>>

PushLot(lots) ==                        \* mutant: last in, first out
    IF hand.qty > 0 THEN <<AsLot>> \o lots ELSE lots

OpenLot(lots) == IF hand.qty > 0 THEN Append(lots, AsLot) ELSE lots

BuyOpens ==
    /\ pc = "match" /\ hand.side = "BOT" /\ NothingToClose(shorts)
    /\ longs' = OpenLot(longs)
    /\ hand' = NoFill
    /\ pc' = "next"
    /\ UNCHANGED <<key, input, fills, shorts, trips>>

SaleOpens ==
    /\ pc = "match" /\ hand.side = "SLD" /\ NothingToClose(longs)
    /\ shorts' = OpenLot(shorts)
    /\ hand' = NoFill
    /\ pc' = "next"
    /\ UNCHANGED <<key, input, fills, longs, trips>>

(* A lot that is left is open, or expired worthless.                        *)
emitOpen(direction, lot) ==
    LET expired == key.sec \in Options /\ key.exp # Never /\ key.exp < AsOf
        cost == lot.price * lot.qty * multiplierFor(key.sec)
    IN [direction |-> direction, qty |-> lot.qty,
        status |-> IF expired THEN "expired" ELSE "open",
        openId |-> lot.id, closeId |-> 0,
        openTime |-> lot.time, closeTime |-> IF expired THEN key.exp ELSE Never,
        pnl |-> IF ~expired THEN 0
                ELSE IF direction = "LONG" THEN -cost ELSE cost]

EmitLots ==
    /\ pc = "next" /\ fills = <<>>
    /\ trips' = trips \o [i \in DOMAIN longs |-> emitOpen("LONG", longs[i])]
                      \o [i \in DOMAIN shorts |-> emitOpen("SHORT", shorts[i])]
    /\ pc' = "done"
    /\ UNCHANGED <<key, input, fills, hand, longs, shorts>>

Next == TakeFill \/ BuyCloses \/ SaleCloses \/ BuyOpens \/ SaleOpens \/ EmitLots

Spec == Init /\ [][Next]_vars

-----------------------------------------------------------------------------
Fills == [id : Nat \ {0}, side : {"BOT", "SLD"}, qty : Nat \ {0}, price : Nat, time : Nat]

(* What matchGroup is given: fills with an ID each, in the order of time.   *)
ProperFills ==
    /\ input \in Seq(Fills)
    /\ \A i, j \in DOMAIN input : i < j =>
          input[i].id # input[j].id /\ input[i].time <= input[j].time

Closed == {n \in DOMAIN trips : trips[n].status = "closed"}

(* A closed trip is of two fills, the later on the other side, has at most  *)
(* the quantity of either, and its gain is that of their prices.            *)
TripOf(trip, i, j) ==
    /\ i < j /\ input[i].side # input[j].side
    /\ input[i].side = IF trip.direction = "LONG" THEN "BOT" ELSE "SLD"
    /\ trip.openId = input[i].id /\ trip.openTime = input[i].time
    /\ trip.closeId = input[j].id /\ trip.closeTime = input[j].time
    /\ trip.qty \in 1 .. Lesser(input[i].qty, input[j].qty)
    /\ trip.pnl = multiplierFor(key.sec) * trip.qty *
            (IF trip.direction = "LONG" THEN input[j].price - input[i].price
                                        ELSE input[i].price - input[j].price)

(* No fill of that ID comes after one of the other.                         *)
NotAfter(id, other) ==
    \A i, j \in DOMAIN input : input[i].id = id /\ input[j].id = other => i <= j

(* The lots never hold both sides of an instrument; trips close in the      *)
(* order in which they were opened, and no lot that is left is older than   *)
(* one that was closed.                                                     *)
OldestFirst ==
    /\ longs = <<>> \/ shorts = <<>>
    /\ \A n \in Closed : \E i, j \in DOMAIN input : TripOf(trips[n], i, j)
    /\ \A m, n \in Closed : m < n /\ trips[m].direction = trips[n].direction =>
          /\ NotAfter(trips[m].openId, trips[n].openId)
          /\ NotAfter(trips[m].closeId, trips[n].closeId)
    /\ \A n \in Closed : \A k \in DOMAIN longs :
          trips[n].direction = "LONG" => NotAfter(trips[n].openId, longs[k].id)
    /\ \A n \in Closed : \A k \in DOMAIN shorts :
          trips[n].direction = "SHORT" => NotAfter(trips[n].openId, shorts[k].id)

(* What the trips have of a fill.                                           *)
Units(id) ==
    SumFunctionOnSet([n \in DOMAIN trips |-> trips[n].qty],
                     {n \in DOMAIN trips : id \in {trips[n].openId, trips[n].closeId}})

(* Every unit of every fill is opened or closed by one trip.                *)
EveryUnitOnce == pc = "done" => \A i \in DOMAIN input : Units(input[i].id) = input[i].qty

=============================================================================
