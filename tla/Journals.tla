------------------------------ MODULE Journals ------------------------------
(***************************************************************************)
(* The journals beside each other: trades, scans and judgments, and the    *)
(* round trips made of the trades.  They share a database and no table, so *)
(* that a behaviour is one of TradeJournal, ScanJournal, IntelJudgments or *)
(* RoundTrips; the variables of the others keep a value of their own.      *)
(***************************************************************************)
EXTENDS TradeJournal, Integers, Sequences

CONSTANTS
    Reconcilers,                                    \* of scans and of judgments
    Batches, Symbols, Markets, Grace, LastDay,      \* ScanJournal
    Judges, Checkpoints, Directions, Market,        \* IntelJudgments
    Threshold, Tolerance, Retention, LastQuarter,
    AsOf, Histories                                 \* RoundTrips

(* A candidate is of a symbol that has daily bars; days and quarters are    *)
(* numbers.                                                                 *)
ASSUME BatchesAssumption ==
    \A batch \in Batches : \A i \in DOMAIN batch.rows :
        batch.rows[i].sym \in Symbols /\ batch.rows[i].expiry \in Nat
ASSUME DaysAssumption == Grace \in Nat /\ LastDay \in Nat \ {0}
ASSUME QuartersAssumption ==
    /\ LastQuarter \in Nat \ {0} /\ Tolerance \in Nat /\ Retention \in Nat
    /\ Checkpoints \subseteq Nat

(* A row of the trade journal; only the price of a combo can be negative.   *)
(* Its times are of the past, from the first day on.                        *)
TradeRows ==
    [perm : Nat, sec : {"STK", "OPT", "BAG"}, side : {"BOT", "SLD"}, qty : Nat \ {0},
     price : Int, exp : {0} \cup (Nat \ {0, 1}), time : 2 .. AsOf]
ASSUME HistoriesAssumption ==
    /\ AsOf \in Nat
    /\ \A history \in Histories :
          /\ history \in Seq(TradeRows)
          /\ \A i \in DOMAIN history : history[i].price < 0 => history[i].sec = "BAG"

VARIABLES
    which,
    third, closes, candidates, recs, spc, today, todo, found, bars,
    quarter, barsAt, judgments, scores, ipc, unscored, priced, missed,
    rows, key, input, fills, hand, longs, shorts, trips, mpc

scanVars == <<third, closes, candidates, recs, spc, today, todo, found, bars>>
intelVars == <<quarter, barsAt, judgments, scores, ipc, unscored, priced, missed>>
matchVars == <<rows, key, input, fills, hand, longs, shorts, trips, mpc>>
allVars == <<which, vars, scanVars, intelVars, matchVars>>

SJ == INSTANCE ScanJournal WITH pc <- spc

IJ == INSTANCE IntelJudgments WITH
        now <- quarter, recs <- scores, pc <- ipc, todo <- unscored

RT == INSTANCE RoundTrips WITH Keys <- {}, Inputs <- {}, pc <- mpc

-----------------------------------------------------------------------------
NoMatch ==
    /\ rows = <<>> /\ key = [sec |-> "STK", exp |-> 0] /\ input = <<>> /\ fills = <<>>
    /\ hand = RT!NoFill /\ longs = <<>> /\ shorts = <<>> /\ trips = <<>> /\ mpc = "idle"

JournalsInit ==
    /\ which \in {"trade", "scan", "intel", "match"}
    /\ Init /\ SJ!Init /\ IJ!Init
    /\ which # "scan" => closes = CHOOSE market \in Markets : TRUE
    /\ IF which = "match" THEN RT!MatchInit ELSE NoMatch

Trading == which = "trade" /\ Next /\ UNCHANGED <<scanVars, intelVars, matchVars>>
Scanning == which = "scan" /\ SJ!Next /\ UNCHANGED <<vars, intelVars, matchVars>>
Judging == which = "intel" /\ IJ!Next /\ UNCHANGED <<vars, scanVars, matchVars>>
Matching == which = "match" /\ RT!MatchNext /\ UNCHANGED <<vars, scanVars, intelVars>>

JournalsNext ==
    /\ UNCHANGED which
    /\ Trading \/ Scanning \/ Judging \/ Matching

JournalsSpec == JournalsInit /\ [][JournalsNext]_allVars

-----------------------------------------------------------------------------
(* Reconciliations and scores are written once, whoever else reconciles.    *)
AppendOnly == SJ!RowsAreFinal /\ IJ!ScoresAreFinal

(* A candidate is settled by the close of its expiration day.               *)
SettledByExpiryClose == SJ!SettledByExpiryClose

(* A reconciliation that returns has settled all it could.                  *)
ReturnSettlesAll == SJ!ReturnSettlesAll

(* A judgment is scored with the bars of its own horizon.                   *)
ScoredWithoutHindsight == IJ!ScoredWithoutHindsight

(* Units are closed in the order in which they were opened, and all of them *)
(* are used up.                                                             *)
FirstInFirstOut == RT!FirstInFirstOut

(* Trips are those of the reference, and the open ones are the position     *)
(* that the journal leaves.                                                 *)
PositionKept == RT!PositionKept

(* The reviews of adjacent windows add up to that of both.                  *)
ReviewsAddUp == RT!ReviewsAddUp
=============================================================================
