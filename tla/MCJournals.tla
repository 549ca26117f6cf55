----------------------------- MODULE MCJournals -----------------------------
(* Values of the constants of Journals for TLC.                             *)
EXTENDS Journals, TLC

Symmetry == Permutations(Reconcilers)

(* Two candidates of one scan, one of them above and one below the close;   *)
(* a batch that comes late under an old scan date; one that is refused.     *)
Row(rank, expiry, strike, priceOK) ==
    [rank |-> rank, sym |-> "A", expiry |-> expiry, strike |-> strike, priced |-> priceOK]
Payloads ==
    {[scan |-> 0, rows |-> <<Row(1, 2, 1, TRUE), Row(2, 3, 1, TRUE)>>],
     [scan |-> 1, rows |-> <<Row(1, 2, 1, TRUE)>>],
     [scan |-> 1, rows |-> <<Row(1, 2, 2, TRUE), Row(2, 2, 1, FALSE)>>]}

(* Of the days of the scans, two are expiry days: their closes vary.        *)
Closes == {[s \in {"A"} |-> [d \in 1 .. 5 |-> IF d = 2 THEN x ELSE IF d = 3 THEN y ELSE 1]] :
            x \in {1, 2}, y \in {1, 2}}

(* The price of an asset, quarter by quarter.                               *)
Rises == [q \in 1 .. 4 |-> IF q > 2 THEN 2 ELSE 1]

(* Four fills of a stock, two of them of orders filled in the same second;  *)
(* three of options that expired or did not; a combo with its legs that is  *)
(* opened and closed.                                                       *)
Fill4(perms, qtys, prices, time) ==
    [perm : perms, sec : {"STK"}, side : {"BOT", "SLD"}, qty : qtys, price : prices,
     exp : {0}, time : {time}]
Stock == {<<a, b, c, d>> :
    a \in Fill4({0}, {1, 2}, {1}, 2), b \in Fill4({0, 1}, {1, 2}, {2}, 3),
    c \in Fill4({0, 2}, {1, 3}, {1}, 3), d \in Fill4({0, 1}, {1, 2}, {1, 2}, 6)}

Option(exps, sides, time) ==
    [perm : {0}, sec : {"OPT"}, side : sides, qty : {1, 2}, price : {1, 2},
     exp : exps, time : {time}]
Single == {<<a, b, c>> :
    a \in Option({5, 9}, {"SLD"}, 2), b \in Option({5, 9}, {"BOT", "SLD"}, 3),
    c \in Option({5}, {"BOT"}, 4)}

Combo(perm, side, qty, price, time) ==
    [perm |-> perm, sec |-> "BAG", side |-> side, qty |-> qty, price |-> price,
     exp |-> 0, time |-> time]
Leg(perm, side, qty, exp, time) ==
    [perm |-> perm, sec |-> "OPT", side |-> side, qty |-> qty, price |-> 1,
     exp |-> exp, time |-> time]
Spread == {<<Combo(1, "SLD", 2, -1, 2), Leg(1, "SLD", 2, 5, 2), Leg(1, "BOT", 2, e, 2),
             Combo(2, s, q, p, 3), Leg(2, "BOT", q, 5, 3), Leg(p2, "SLD", q, e, 3)>> :
    e \in {5, 9}, s \in {"BOT", "SLD"}, q \in {1, 2, 3}, p \in {-2, 1}, p2 \in {0, 2}}

Fillings == Stock \cup Single \cup Spread
=============================================================================
