----------------------------- MODULE MCServices -----------------------------
(* Values of the constants of Services for TLC.                             *)
EXTENDS Services, TLC

Symmetry == Permutations(Requests) \cup Permutations(Ids)

(* A half day before a weekend that runs into a holiday, and one between    *)
(* two others; a calendar that ends in a session.                           *)
Days == <<"half", "weekend", "holiday", "session", "half", "session">>
Week == [d \in 0 .. 5 |-> Days[d + 1]]

(* A panic in which one instrument moves more than twice what the score     *)
(* counts, and a day on which nothing does; a chain with a skew, and one    *)
(* that came without its spot price.                                        *)
PanicOrCalm == {[VIX |-> 800, SPY |-> -1200, HYG |-> -100],
                [VIX |-> 0, SPY |-> -300, HYG |-> -300]}
Option(strike, iv, volume) == [strike |-> strike, iv |-> iv, vol |-> volume, oi |-> volume]
SkewOrNoSpot ==
    {[spot |-> 100, calls |-> <<Option(95, 20, 0), Option(101, 22, 1)>>,
      puts |-> <<Option(99, 30, 1)>>],
     [spot |-> 0, calls |-> <<Option(95, 20, 0)>>, puts |-> <<>>]}
NoneOrWide == {0, 8000}

(* Daily bars of four loads: gaps up that fill or hold, a gap within the    *)
(* noise, a load without any; intraday bars of a load: none, early, late    *)
(* and after the close.                                                     *)
Bar(o, l, h, c) == [open |-> o, low |-> l, high |-> h, close |-> c]
First == Bar(1000, 990, 1010, 1000)
Holds == Bar(1020, 1015, 1030, 1025)
Loads == <<<<First, Holds, Bar(1000, 990, 1010, 1005)>>,
           <<First, Bar(1020, 995, 1030, 1025), Bar(1024, 1000, 1030, 1020)>>,
           <<First, First>>, <<First, Holds>>>>
Slot(day, slot, close, volume) == [day |-> day, slot |-> slot, close |-> close, vol |-> volume]
Feed == {past \o now2 :
    past \in {<<>>, <<Slot(1, 10, 99, 1), Slot(1, 31, 100, 5)>>},
    now2 \in {<<>>, <<Slot(2, 12, 103, 2)>>, <<Slot(2, 20, 103, 2), Slot(2, 34, 99, 1)>>,
              <<Slot(2, 31, 98, 2), Slot(2, 32, 101, 2)>>}}
IntradayLoads == [{1, 2} -> Feed] \cup {(3 :> f) : f \in Feed}
Lists == {{1}, {3}}
ThreeIndustries == <<"tech", "tech", "bank">>
Texts == {<<>>, <<1>>, <<2>>, <<1, 2>>, <<2, 3>>, <<3, 1>>}
ThreeTones == <<{"hawkish"}, {"dovish"}, {"hawkish", "dovish"}>>

(* Shares and options of two symbols, long and short, of today and later; a *)
(* holding in another currency; a stock held twice, once with nothing left. *)
Holding(sym, sec, cur, qty, exp) ==
    [sym |-> sym, sec |-> sec, cur |-> cur, qty |-> qty, exp |-> exp]
Accounts == {
    <<>>,
    <<Holding("A", "STK", "USD", 1, ""), Holding("A", "OPT", "USD", -1, "far"),
      Holding("B", "OPT", "USD", 1, "today")>>,
    <<Holding("A", "OPT", "USD", 1, "far"), Holding("A", "OPT", "USD", -1, "later"),
      Holding("C", "STK", "HKD", 2, "")>>,
    <<Holding("B", "STK", "USD", -1, ""), Holding("B", "STK", "USD", 0, ""),
      Holding("A", "OPT", "USD", 2, "far")>>}

(* A file without settings, a good one, and those that end too early, have  *)
(* a bad value, repeat a section or begin with an unknown one.              *)
Line(indent, key, ok) == [indent |-> indent, key |-> key, ok |-> ok]
Good == <<Line(0, "stress", TRUE), Line(2, "scenarios", TRUE), Line(4, "- id", TRUE),
          Line(6, "label", TRUE), Line(6, "shocks", TRUE), Line(8, "- axis", TRUE),
          Line(10, "magnitude", TRUE)>>
Files == {<<>>, Good, SubSeq(Good, 1, 6),
    Good \o <<Line(0, "greeks", TRUE), Line(2, "risk_free_rate", FALSE)>>,
    Good \o <<Line(0, "stress", TRUE)>>,
    <<Line(0, "sectors_file", TRUE), Line(2, "x", TRUE), Line(0, "concentration", TRUE),
      Line(2, "warn_pct", TRUE)>>,
    <<Line(0, "other", TRUE)>>}
TwoSectors == ("A" :> "tech") @@ ("B" :> "tech") @@ ("C" :> "bank")

(* No strikes, one far from the spot, three of which one is; a price of     *)
(* IB's that differs from Yahoo's.                                          *)
StrikeGrids == {<<>>, <<80>>, <<80, 99, 105>>, <<92, 98, 112>>}
SpotPrices == [ibkr |-> {0, 100}, yfinance |-> {0, 108}]
=============================================================================
