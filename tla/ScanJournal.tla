----------------------------- MODULE ScanJournal -----------------------------
(***************************************************************************)
(* The sell-put scan journal (scanjournal/, datastore/sqlite/              *)
(* scan_journal.go): `register` stores the candidates of a scan,           *)
(* `reconcile` settles the expired ones from daily bars.  Each command is  *)
(* a process of its own; several may run on the same database.             *)
(*                                                                         *)
(* Time is counted in thirds of a UTC day.  A daily bar carries midnight   *)
(* UTC of its trading day; in New York that is still the day before.       *)
(***************************************************************************)
EXTENDS Integers, Sequences

CONSTANTS
    Reconcilers,    \* runs of `optix scan-journal reconcile`
    Batches,        \* payloads of `optix scan-journal register`
    Symbols,
    Markets,        \* what the days may bring: closing prices by symbol and day
    Grace,          \* GraceDays
    LastDay         \* bound of the model

VARIABLES
    third,          \* now
    closes,         \* the market: closing price of each symbol and day
    candidates,     \* scan_candidates
    recs,           \* scan_reconciliations
    pc, today,      \* of a reconciler: its place, todayNY when it began
    todo,           \* ... the candidates it has yet to settle
    found,          \* ... history: all it found expired
    bars            \* ... the daily bars it got: days by symbol

runVars == <<pc, today, todo, found, bars>>
vars == <<third, closes, candidates, recs, runVars>>

Days == 1 .. LastDay
UTCDay(t) == t \div 3
NYDay(t) == (t - 1) \div 3
Midnight(d) == 3 * d            \* the timestamp of the bar of day d

Init ==
    /\ third = 4                \* day 1 has just begun in New York
    /\ closes \in Markets
    /\ candidates = {} /\ recs = {}
    /\ pc = [r \in Reconcilers |-> "idle"]
    /\ today = [r \in Reconcilers |-> 0]
    /\ todo = [r \in Reconcilers |-> {}]
    /\ found = [r \in Reconcilers |-> {}]
    /\ bars = [r \in Reconcilers |-> [s \in Symbols |-> {}]]

Settled(c) == \E x \in recs : x.cand = c

-----------------------------------------------------------------------------
(* Register: a batch is refused as a whole when one of its rows is wrong.   *)
Valid(rows, scanDate) ==
    /\ rows # <<>>
    /\ \A i \in DOMAIN rows :
          /\ rows[i].rank = i
          /\ rows[i].priced
          /\ rows[i].expiry > scanDate

(* CandidateID names the same columns as UNIQUE(scan_date, symbol, expiry,  *)
(* strike).                                                                 *)
CandidateID(scanDate, row) ==
    [scan |-> scanDate, sym |-> row.sym, expiry |-> row.expiry, strike |-> row.strike]

(* One transaction; a candidate that is there already is skipped.  The scan *)
(* date of a payload may be any, today's when it has none.                  *)
Register(batch) ==
    LET scanDate == IF batch.scan = 0 THEN NYDay(third) ELSE batch.scan
        rows == batch.rows
    IN /\ Valid(rows, scanDate)
       /\ candidates' =
            candidates \cup {CandidateID(scanDate, rows[i]) : i \in DOMAIN rows}
       /\ UNCHANGED <<third, closes, recs, runVars>>

-----------------------------------------------------------------------------
(* Reconcile: what expired before today and has no row yet.                 *)
Begin(r) ==
    /\ pc[r] = "idle"
    /\ LET day == NYDay(third)
           expired == {c \in candidates : c.expiry < day /\ ~Settled(c)}
       IN /\ expired # {}
          /\ today' = [today EXCEPT ![r] = day]
          /\ todo' = [todo EXCEPT ![r] = expired]
          /\ found' = [found EXCEPT ![r] = expired]
    /\ pc' = [pc EXCEPT ![r] = "bars"]
    /\ UNCHANGED <<third, closes, candidates, recs, bars>>

End(r) ==
    /\ pc' = [pc EXCEPT ![r] = "idle"]
    /\ today' = [today EXCEPT ![r] = 0]
    /\ todo' = [todo EXCEPT ![r] = {}]
    /\ found' = [found EXCEPT ![r] = {}]
    /\ bars' = [bars EXCEPT ![r] = [s \in Symbols |-> {}]]

(* Yahoo Finance answers with the days that are over, for the symbols and   *)
(* days it happens to have.                                                 *)
DailyBars(r) ==
    /\ pc[r] = "bars"
    /\ \E got \in [Symbols -> SUBSET {d \in Days : Midnight(d + 1) <= third}] :
          bars' = [bars EXCEPT ![r] = got]
    /\ pc' = [pc EXCEPT ![r] = "settle"]
    /\ UNCHANGED <<third, closes, candidates, recs, today, todo, found>>

(* No bars at all: everything is left pending, nothing is written.          *)
BarsUnavailable(r) ==
    /\ pc[r] = "bars"
    /\ End(r)
    /\ UNCHANGED <<third, closes, candidates, recs>>

BarDateNY(d) == NYDay(Midnight(d))      \* mutant: Timestamp.In(NY())

BarDate(d) == UTCDay(Midnight(d))

(* settleCandidate: the verdict on a candidate from the bars at hand.       *)
Verdict(r, c) ==
    LET dated == {d \in bars[r][c.sym] : BarDate(d) = c.expiry}
        atExpiry == CHOOSE d \in dated : TRUE
    IN IF dated # {}
       THEN LET close == closes[c.sym][atExpiry]
            IN [state |-> "settled", close |-> close,
                outcome |-> IF close > c.strike THEN "hit" ELSE "miss"]
       ELSE IF today[r] - c.expiry <= Grace
            THEN [state |-> "pending", close |-> 0, outcome |-> "none"]
            ELSE [state |-> "void", close |-> 0, outcome |-> "void"]

(* INSERT with candidate_id UNIQUE.                                         *)
InsertRowReplace(c, v) ==               \* mutant: INSERT OR REPLACE
    recs' = {x \in recs : x.cand # c}
                \cup {[cand |-> c, close |-> v.close, outcome |-> v.outcome]}

InsertRow(c, v) ==
    /\ ~Settled(c)
    /\ recs' = recs \cup {[cand |-> c, close |-> v.close, outcome |-> v.outcome]}

(* The candidates go by expiry and symbol; one that stays pending does not  *)
(* stop the batch.                                                          *)
Earliest(r) == {c \in todo[r] : \A d \in todo[r] : c.expiry <= d.expiry}
NextOf(r) == CHOOSE c \in Earliest(r) : TRUE

DoneWithBatch(r) == todo' = [todo EXCEPT ![r] = {}]     \* mutant: break

Done(r) == todo' = [todo EXCEPT ![r] = @ \ {NextOf(r)}]

LeavePending(r) ==
    /\ pc[r] = "settle" /\ todo[r] # {}
    /\ Verdict(r, NextOf(r)).state = "pending"
    /\ Done(r)
    /\ UNCHANGED <<third, closes, candidates, recs, pc, today, found, bars>>

InsertReconciliation(r) ==
    /\ pc[r] = "settle" /\ todo[r] # {}
    /\ LET c == NextOf(r)
           v == Verdict(r, c)
       IN v.state # "pending" /\ InsertRow(c, v)
    /\ Done(r)
    /\ UNCHANGED <<third, closes, candidates, pc, today, found, bars>>

(* An INSERT that fails, for another run was faster or the database is      *)
(* busy, ends the batch with an error.                                      *)
InsertFails(r) ==
    /\ pc[r] = "settle" /\ todo[r] # {}
    /\ Verdict(r, NextOf(r)).state # "pending"
    /\ End(r)
    /\ UNCHANGED <<third, closes, candidates, recs>>

Return(r) ==
    /\ pc[r] = "settle" /\ todo[r] = {}
    /\ End(r)
    /\ UNCHANGED <<third, closes, candidates, recs>>

Tick ==
    /\ third < Midnight(LastDay) + 2
    /\ third' = third + 1
    /\ UNCHANGED <<closes, candidates, recs, runVars>>

Next ==
    \/ \E batch \in Batches : Register(batch)
    \/ \E r \in Reconcilers :
          \/ Begin(r) \/ DailyBars(r) \/ BarsUnavailable(r) \/ LeavePending(r)
          \/ InsertReconciliation(r) \/ InsertFails(r) \/ Return(r)
    \/ Tick

Spec == Init /\ [][Next]_vars

-----------------------------------------------------------------------------
TypeOK ==
    /\ third \in 4 .. Midnight(LastDay) + 2
    /\ \A c \in candidates : c.scan < c.expiry
    /\ \A x \in recs : x.cand \in candidates
    /\ pc \in [Reconcilers -> {"idle", "bars", "settle"}]
    /\ \A r \in Reconcilers : todo[r] \subseteq found[r] /\ found[r] \subseteq candidates

(* A candidate that was settled was settled by the close of its own expiry  *)
(* day: a timestamp read in the wrong zone would take the day before or     *)
(* after.                                                                   *)
SettledByExpiryClose ==
    \A x \in recs :
        x.outcome # "void" =>
            LET close == closes[x.cand.sym][x.cand.expiry]
            IN /\ x.close = close
               /\ x.outcome = (IF close > x.cand.strike THEN "hit" ELSE "miss")

(* The journal is append-only: two runs that settle the same candidate from *)
(* different bars leave one row, and no row changes or goes.                *)
RowsAreFinal ==
    /\ [][recs \subseteq recs']_vars
    /\ [][\A x, y \in recs' : x.cand = y.cand => x = y]_vars

(* A run that returns without an error has settled whatever it found        *)
(* expired; what it left is within the grace period and had no bar.         *)
ReturnSettlesAll ==
    [][\A r \in Reconcilers :
          Return(r) => \A c \in found[r] :
              Settled(c) \/ (c.expiry + Grace >= today[r] /\ c.expiry \notin bars[r][c.sym])]_vars

=============================================================================
