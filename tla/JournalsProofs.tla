--------------------------- MODULE JournalsProofs ---------------------------
(***************************************************************************)
(* The scan journal and the judgments, for any number of overlapping       *)
(* reconciliations, of candidates, judgments and bars.                     *)
(*                                                                         *)
(* Each component has an inductive invariant of its own; a step of the     *)
(* composition is a step of the component or leaves its variables alone.   *)
(* ScanSafe says what a reconciliation that is under way has in its hands, *)
(* JudgedSafe that the price it looked up is one of the judgment that it   *)
(* will score with it: its list does not change between the two.  InTime   *)
(* dates the lists of the reconciliations.                                 *)
(* StockFits ties the lots of the matcher to the units that are open by a  *)
(* position computed from the fills alone.                                 *)
(***************************************************************************)
EXTENDS Journals, Sequences, SumTheorems

-----------------------------------------------------------------------------
(* Scans. *)

ScanShapes ==
    /\ third \in Int
    /\ \A c \in candidates : c.sym \in Symbols /\ c.expiry \in Nat
    /\ spc \in [Reconcilers -> {"idle", "bars", "settle"}]
    /\ today \in [Reconcilers -> Int]
    /\ todo \in [Reconcilers -> SUBSET candidates]
    /\ found \in [Reconcilers -> SUBSET candidates]
    /\ bars \in [Reconcilers -> [Symbols -> SUBSET Nat]]

(* What a reconciliation is through with.                                   *)
Settles(r, c) ==
    \/ SJ!Settled(c)
    \/ c.expiry + Grace >= today[r] /\ c.expiry \notin bars[r][c.sym]

Through ==
    \A r \in Reconcilers :
        /\ spc[r] = "bars" => todo[r] = found[r]
        /\ spc[r] = "settle" => \A c \in found[r] \ todo[r] : Settles(r, c)

OneRow == \A x, y \in recs : x.cand = y.cand => x = y

ScanSafe == ScanShapes /\ Through /\ OneRow /\ SettledByExpiryClose

LEMMA ScanInit == JournalsInit => ScanSafe
<1>1. JournalsInit => recs = {}
  BY DEF JournalsInit, SJ!Init
<1>2. JournalsInit => OneRow /\ SettledByExpiryClose
  BY <1>1 DEF OneRow, SettledByExpiryClose, SJ!SettledByExpiryClose
<1>3. JournalsInit => ScanShapes /\ Through
  BY DEF JournalsInit, SJ!Init, ScanShapes, Through
<1>. QED
  BY <1>2, <1>3 DEF ScanSafe

(* The next candidate is one of those left.                                 *)
LEMMA NextIsLeft ==
    ASSUME ScanShapes, NEW r \in Reconcilers, todo[r] # {}
    PROVE  SJ!NextOf(r) \in todo[r]
<1>. DEFINE E == {c.expiry : c \in todo[r]}
<1>1. todo[r] \subseteq candidates /\ E \subseteq Nat /\ E # {}
  BY DEF ScanShapes
<1>2. PICK e \in E : \A f \in E : e <= f
  BY <1>1, LeastNumber
<1>3. SJ!Earliest(r) # {}
  BY <1>2 DEF SJ!Earliest
<1>. QED
  BY <1>3 DEF SJ!NextOf, SJ!Earliest

(* A bar bears the date of its day.                                         *)
LEMMA BarOfDay == \A d \in Nat : SJ!BarDate(d) = d
BY DEF SJ!BarDate, SJ!UTCDay, SJ!Midnight

(* What the verdict on a candidate rests on.                                *)
LEMMA VerdictIsFounded ==
    ASSUME ScanShapes, NEW r \in Reconcilers, NEW c \in candidates
    PROVE  /\ SJ!Verdict(r, c).state = "pending" =>
                 c.expiry + Grace >= today[r] /\ c.expiry \notin bars[r][c.sym]
           /\ SJ!Verdict(r, c).state # "pending" /\ SJ!Verdict(r, c).outcome # "void" =>
                 /\ SJ!Verdict(r, c).close = closes[c.sym][c.expiry]
                 /\ SJ!Verdict(r, c).outcome =
                       (IF closes[c.sym][c.expiry] > c.strike THEN "hit" ELSE "miss")
<1>. DEFINE dated == {d \in bars[r][c.sym] : SJ!BarDate(d) = c.expiry}
<1>1. bars[r][c.sym] \subseteq Nat /\ c.expiry \in Nat /\ today[r] \in Int
  BY DEF ScanShapes
<1>2. dated = {} \/ dated = {c.expiry}
  BY <1>1, BarOfDay
<1>3. dated = {} => c.expiry \notin bars[r][c.sym]
  BY <1>1, BarOfDay
<1>4. CASE dated = {}
  <2>1. SJ!Verdict(r, c) =
          IF today[r] - c.expiry <= Grace
          THEN [state |-> "pending", close |-> 0, outcome |-> "none"]
          ELSE [state |-> "void", close |-> 0, outcome |-> "void"]
    BY <1>4 DEF SJ!Verdict
  <2>. QED
    BY <1>1, <1>3, <1>4, <2>1, DaysAssumption
<1>5. CASE dated = {c.expiry}
  <2>1. (CHOOSE d \in dated : TRUE) = c.expiry
    BY <1>5
  <2>2. SJ!Verdict(r, c) =
          [state |-> "settled", close |-> closes[c.sym][c.expiry],
           outcome |-> IF closes[c.sym][c.expiry] > c.strike THEN "hit" ELSE "miss"]
    BY <1>5, <2>1 DEF SJ!Verdict
  <2>. QED
    BY <2>2
<1>. QED
  BY <1>2, <1>4, <1>5

-----------------------------------------------------------------------------
(* The shapes, one action at a time.                                        *)
LEMMA ScanShapesKept ==
    ASSUME ScanShapes, [SJ!Next]_SJ!vars
    PROVE  ScanShapes'
<1>. USE DEF ScanShapes
<1>1. ASSUME NEW batch \in Batches, SJ!Register(batch)
      PROVE  ScanShapes'
  <2>1. \A c \in candidates' : c.sym \in Symbols /\ c.expiry \in Nat
    BY <1>1, BatchesAssumption DEF SJ!Register, SJ!CandidateID
  <2>2. candidates \subseteq candidates'
    BY <1>1 DEF SJ!Register
  <2>. QED
    BY <1>1, <2>1, <2>2 DEF SJ!Register, SJ!runVars
<1>2. ASSUME NEW r \in Reconcilers, SJ!Begin(r)
      PROVE  ScanShapes'
  BY <1>2 DEF SJ!Begin, SJ!NYDay
<1>3. ASSUME NEW r \in Reconcilers, SJ!DailyBars(r)
      PROVE  ScanShapes'
  <2>1. SJ!Days \subseteq Nat
    BY DaysAssumption DEF SJ!Days
  <2>2. bars' \in [Reconcilers -> [Symbols -> SUBSET Nat]]
    <3>1. PICK got \in [Symbols -> SUBSET {d \in SJ!Days : SJ!Midnight(d + 1) <= third}] :
              bars' = [bars EXCEPT ![r] = got]
      BY <1>3 DEF SJ!DailyBars
    <3>2. got \in [Symbols -> SUBSET Nat]
      BY <2>1
    <3>. QED
      BY <3>1, <3>2
  <2>. QED
    BY <1>3, <2>2 DEF SJ!DailyBars
<1>4. ASSUME NEW r \in Reconcilers, SJ!End(r), UNCHANGED <<third, closes, candidates, recs>>
      PROVE  ScanShapes'
  BY <1>4 DEF SJ!End
<1>5. ASSUME NEW r \in Reconcilers, SJ!LeavePending(r)
      PROVE  ScanShapes'
  BY <1>5 DEF SJ!LeavePending, SJ!Done
<1>6. ASSUME NEW r \in Reconcilers, SJ!InsertReconciliation(r)
      PROVE  ScanShapes'
  BY <1>6 DEF SJ!InsertReconciliation, SJ!Done
<1>7. CASE SJ!Tick
  BY <1>7 DEF SJ!Tick, SJ!runVars
<1>8. CASE UNCHANGED SJ!vars
  BY <1>8 DEF SJ!vars, SJ!runVars
<1>. QED
  BY <1>1, <1>2, <1>3, <1>4, <1>5, <1>6, <1>7, <1>8
     DEF SJ!Next, SJ!BarsUnavailable, SJ!InsertFails, SJ!Return

(* A step leaves the rows alone or adds the verdict on a candidate that has *)
(* none.                                                                    *)
RowAdded(r, c) ==
    /\ c \in candidates /\ ~ SJ!Settled(c)
    /\ SJ!Verdict(r, c).state # "pending"
    /\ recs' = recs \cup {[cand |-> c, close |-> SJ!Verdict(r, c).close,
                           outcome |-> SJ!Verdict(r, c).outcome]}

LEMMA RowsOfAStep ==
    ASSUME ScanShapes, [SJ!Next]_SJ!vars
    PROVE  /\ UNCHANGED closes
           /\ \/ UNCHANGED recs
              \/ \E r \in Reconcilers, c \in candidates : RowAdded(r, c)
<1>1. ASSUME NEW r \in Reconcilers, SJ!InsertReconciliation(r)
      PROVE  UNCHANGED closes /\ RowAdded(r, SJ!NextOf(r)) /\ SJ!NextOf(r) \in candidates
  <2>1. SJ!NextOf(r) \in candidates
    BY <1>1, NextIsLeft DEF SJ!InsertReconciliation, ScanShapes
  <2>. QED
    BY <1>1, <2>1 DEF SJ!InsertReconciliation, SJ!InsertRow, RowAdded
<1>2. ASSUME NEW r \in Reconcilers,
             SJ!Begin(r) \/ SJ!DailyBars(r) \/ SJ!BarsUnavailable(r) \/ SJ!LeavePending(r)
                \/ SJ!InsertFails(r) \/ SJ!Return(r)
      PROVE  UNCHANGED <<closes, recs>>
  BY <1>2 DEF SJ!Begin, SJ!DailyBars, SJ!BarsUnavailable, SJ!LeavePending, SJ!InsertFails,
              SJ!Return
<1>3. CASE \E batch \in Batches : SJ!Register(batch)
  BY <1>3 DEF SJ!Register
<1>4. CASE SJ!Tick \/ UNCHANGED SJ!vars
  BY <1>4 DEF SJ!Tick, SJ!vars
<1>. QED
  BY <1>1, <1>2, <1>3, <1>4 DEF SJ!Next

LEMMA OneRowKept ==
    ASSUME ScanShapes, OneRow, [SJ!Next]_SJ!vars
    PROVE  OneRow' /\ recs \subseteq recs'
<1>1. CASE UNCHANGED recs
  BY <1>1 DEF OneRow
<1>2. ASSUME NEW r \in Reconcilers, NEW c \in candidates, RowAdded(r, c)
      PROVE  OneRow' /\ recs \subseteq recs'
  BY <1>2 DEF OneRow, RowAdded, SJ!Settled
<1>. QED
  BY <1>1, <1>2, RowsOfAStep

LEMMA SettledKept ==
    ASSUME ScanShapes, SettledByExpiryClose, [SJ!Next]_SJ!vars
    PROVE  SettledByExpiryClose'
<1>. USE DEF SettledByExpiryClose, SJ!SettledByExpiryClose
<1>1. UNCHANGED closes
  BY RowsOfAStep
<1>2. CASE UNCHANGED recs
  BY <1>1, <1>2
<1>3. ASSUME NEW r \in Reconcilers, NEW c \in candidates, RowAdded(r, c)
      PROVE  SettledByExpiryClose'
  <2>. DEFINE v == SJ!Verdict(r, c)
              new == [cand |-> c, close |-> v.close, outcome |-> v.outcome]
  <2>1. new.outcome # "void" =>
            /\ new.close = closes[new.cand.sym][new.cand.expiry]
            /\ new.outcome = (IF closes[new.cand.sym][new.cand.expiry] > new.cand.strike
                              THEN "hit" ELSE "miss")
    BY <1>3, VerdictIsFounded DEF RowAdded
  <2>2. recs' = recs \cup {new}
    BY <1>3 DEF RowAdded
  <2>. QED
    BY <1>1, <2>1, <2>2
<1>. QED
  BY <1>2, <1>3, RowsOfAStep

LEMMA ThroughKept ==
    ASSUME ScanShapes, Through, [SJ!Next]_SJ!vars, recs \subseteq recs'
    PROVE  Through'
<1>1. \A c : SJ!Settled(c) => SJ!Settled(c)'
  BY DEF SJ!Settled
<1>2. ASSUME NEW r \in Reconcilers,
             UNCHANGED <<spc[r], todo[r], found[r], today[r], bars[r]>>
      PROVE  /\ spc'[r] = "bars" => todo'[r] = found'[r]
             /\ spc'[r] = "settle" => \A c \in found'[r] \ todo'[r] : Settles(r, c)'
  BY <1>1, <1>2 DEF Through, Settles
<1>3. ASSUME NEW r \in Reconcilers, SJ!Begin(r)
      PROVE  Through'
  <2>1. spc'[r] = "bars" /\ todo'[r] = found'[r]
    BY <1>3 DEF SJ!Begin, ScanShapes
  <2>2. \A q \in Reconcilers \ {r} :
            UNCHANGED <<spc[q], todo[q], found[q], today[q], bars[q]>>
    BY <1>3 DEF SJ!Begin, ScanShapes
  <2>. QED
    BY <1>2, <2>1, <2>2 DEF Through
<1>4. ASSUME NEW r \in Reconcilers, SJ!DailyBars(r)
      PROVE  Through'
  <2>1. spc'[r] = "settle" /\ found'[r] \ todo'[r] = {}
    BY <1>4 DEF SJ!DailyBars, ScanShapes, Through
  <2>2. \A q \in Reconcilers \ {r} :
            UNCHANGED <<spc[q], todo[q], found[q], today[q], bars[q]>>
    BY <1>4 DEF SJ!DailyBars, ScanShapes
  <2>. QED
    BY <1>2, <2>1, <2>2 DEF Through
<1>5. ASSUME NEW r \in Reconcilers, SJ!End(r)
      PROVE  Through'
  <2>1. spc'[r] = "idle"
    BY <1>5 DEF SJ!End, ScanShapes
  <2>2. \A q \in Reconcilers \ {r} :
            UNCHANGED <<spc[q], todo[q], found[q], today[q], bars[q]>>
    BY <1>5 DEF SJ!End, ScanShapes
  <2>. QED
    BY <1>2, <2>1, <2>2 DEF Through
<1>6. ASSUME NEW r \in Reconcilers, SJ!LeavePending(r) \/ SJ!InsertReconciliation(r)
      PROVE  Through'
  <2>0. PICK n : n = SJ!NextOf(r)
    OBVIOUS
  <2>1. n \in candidates
    BY <1>6, <2>0, NextIsLeft DEF SJ!LeavePending, SJ!InsertReconciliation, ScanShapes
  <2>2. Settles(r, n)'
    <3>1. CASE SJ!LeavePending(r)
      BY <3>1, <2>0, <2>1, VerdictIsFounded DEF SJ!LeavePending, Settles
    <3>2. CASE SJ!InsertReconciliation(r)
      <4>1. PICK v : SJ!InsertRow(n, v)
        BY <3>2, <2>0 DEF SJ!InsertReconciliation
      <4>2. \E x \in recs' : x.cand = n
        <5>. DEFINE new == [cand |-> n, close |-> v.close, outcome |-> v.outcome]
        <5>1. new \in recs' /\ new.cand = n
          BY <4>1 DEF SJ!InsertRow
        <5>. QED
          BY <5>1
      <4>. QED
        BY <4>2 DEF SJ!Settled, Settles
    <3>. QED
      BY <1>6, <3>1, <3>2
  <2>3. /\ spc'[r] = "settle" /\ spc[r] = "settle" /\ found'[r] = found[r]
        /\ todo'[r] = todo[r] \ {n}
        /\ UNCHANGED <<today[r], bars[r]>>
    BY <1>6, <2>0 DEF SJ!LeavePending, SJ!InsertReconciliation, SJ!Done, ScanShapes
  <2>4. \A c \in found[r] \ todo[r] : Settles(r, c)'
    BY <1>1, <2>3 DEF Through, Settles
  <2>5. \A q \in Reconcilers \ {r} :
            UNCHANGED <<spc[q], todo[q], found[q], today[q], bars[q]>>
    BY <1>6 DEF SJ!LeavePending, SJ!InsertReconciliation, SJ!Done, ScanShapes
  <2>. QED
    BY <1>2, <2>2, <2>3, <2>4, <2>5 DEF Through
<1>7. CASE UNCHANGED SJ!runVars
  BY <1>2, <1>7 DEF SJ!runVars, Through
<1>. QED
  BY <1>3, <1>4, <1>5, <1>6, <1>7
     DEF SJ!Next, SJ!vars, SJ!Register, SJ!BarsUnavailable, SJ!InsertFails, SJ!Return, SJ!Tick

LEMMA ScanKept ==
    ASSUME ScanSafe, [SJ!Next]_SJ!vars
    PROVE  ScanSafe'
BY ScanShapesKept, OneRowKept, SettledKept, ThroughKept DEF ScanSafe

(* A step of the journals is one of the scan journal or leaves it alone.    *)
LEMMA ScanStep == [JournalsNext]_allVars => [SJ!Next]_SJ!vars
BY DEF JournalsNext, Trading, Scanning, Judging, Matching, allVars, scanVars, SJ!vars,
       SJ!runVars

LEMMA ScanAlways == JournalsSpec => []ScanSafe
<1>1. ScanSafe /\ [JournalsNext]_allVars => ScanSafe'
  BY ScanKept, ScanStep
<1>. QED
  BY ScanInit, <1>1, PTL DEF JournalsSpec

-----------------------------------------------------------------------------
(* A candidate is settled by the close of its expiration day: reconcile     *)
(* takes the bar that bears the date, whoever else reconciles beside it.    *)
THEOREM CandidatesSettleByTheirDay == JournalsSpec => []SettledByExpiryClose
BY ScanAlways, PTL DEF ScanSafe

(* A reconcile that returns has settled what it found expired, but for the  *)
(* candidates within the grace period that had no bar.                      *)
THEOREM ReturnLeavesNothing == JournalsSpec => ReturnSettlesAll
<1>. DEFINE Settling ==
        \A r \in Reconcilers :
            SJ!Return(r) => \A c \in found[r] :
                SJ!Settled(c) \/ (c.expiry + Grace >= today[r] /\ c.expiry \notin bars[r][c.sym])
<1>1. ScanSafe /\ [SJ!Next]_SJ!vars => Settling
  BY DEF ScanSafe, Through, Settles, SJ!Return
<1>2. JournalsSpec => [][Settling]_SJ!vars
  <2>. HIDE DEF Settling
  <2>. QED
    BY <1>1, ScanAlways, ScanStep, PTL DEF JournalsSpec
<1>. QED
  BY <1>2 DEF ReturnSettlesAll, SJ!ReturnSettlesAll

-----------------------------------------------------------------------------
(* What is settled was over, by the calendar of New York: InTime says of    *)
(* the lists of the runs and of the rows what the theorem says of the rows. *)

NewYork == SJ!NYDay(third)

InTime ==
    /\ third \in 4 .. SJ!Midnight(LastDay) + 2
    /\ \A r \in Reconcilers :
          /\ todo[r] \subseteq found[r] /\ today[r] <= NewYork
          /\ \A c \in found[r] : c.expiry < today[r]

NotTooSoon ==
    \A x \in recs :
        /\ x.cand \in candidates /\ x.cand.expiry < NewYork
        /\ x.outcome = "void" => x.cand.expiry + Grace < NewYork

LEMMA VoidIsLate ==
    ASSUME ScanShapes, NEW r \in Reconcilers, NEW c \in candidates,
           SJ!Verdict(r, c).state # "pending", SJ!Verdict(r, c).outcome = "void"
    PROVE  c.expiry + Grace < today[r]
<1>. DEFINE dated == {d \in bars[r][c.sym] : SJ!BarDate(d) = c.expiry}
<1>1. c.expiry \in Nat /\ today[r] \in Int
  BY DEF ScanShapes
<1>2. CASE dated = {}
  <2>1. SJ!Verdict(r, c) =
          IF today[r] - c.expiry <= Grace
          THEN [state |-> "pending", close |-> 0, outcome |-> "none"]
          ELSE [state |-> "void", close |-> 0, outcome |-> "void"]
    BY <1>2 DEF SJ!Verdict
  <2>. QED
    BY <1>1, <2>1, DaysAssumption
<1>3. CASE dated # {}
  BY <1>3 DEF SJ!Verdict
<1>. QED
  BY <1>2, <1>3

LEMMA InTimeKept ==
    ASSUME ScanShapes, InTime, [SJ!Next]_SJ!vars
    PROVE  InTime' /\ NewYork <= NewYork'
<1>0. /\ third \in Nat /\ third >= 4 /\ NewYork \in Nat /\ NewYork >= 1
      /\ today \in [Reconcilers -> Int] /\ todo \in [Reconcilers -> SUBSET candidates]
      /\ found \in [Reconcilers -> SUBSET candidates]
  BY DEF InTime, ScanShapes, NewYork, SJ!NYDay
<1>1. CASE SJ!Tick
  <2>1. third' = third + 1 /\ third' \in 4 .. SJ!Midnight(LastDay) + 2
    BY <1>0, <1>1, DaysAssumption DEF SJ!Tick, SJ!Midnight
  <2>2. NewYork <= NewYork' /\ NewYork' \in Nat
    BY <1>0, <2>1 DEF NewYork, SJ!NYDay
  <2>3. UNCHANGED <<today, todo, found>>
    BY <1>1 DEF SJ!Tick, SJ!runVars
  <2>4. ASSUME NEW r \in Reconcilers
        PROVE  /\ todo'[r] \subseteq found'[r] /\ today'[r] <= NewYork'
               /\ \A c \in found'[r] : c.expiry < today'[r]
    <3>1. today[r] \in Int /\ today[r] <= NewYork
      BY <1>0 DEF InTime
    <3>. QED BY <1>0, <2>2, <2>3, <3>1 DEF InTime
  <2>. QED BY <2>1, <2>2, <2>4 DEF InTime
<1>2. CASE third' = third
  <2>0. NewYork' = NewYork
    BY <1>2 DEF NewYork, SJ!NYDay
  <2>1. ASSUME NEW r \in Reconcilers, SJ!Begin(r) PROVE InTime'
    BY <1>0, <1>2, <2>0, <2>1 DEF SJ!Begin, InTime, NewYork
  <2>2. ASSUME NEW r \in Reconcilers, SJ!End(r) PROVE InTime'
    BY <1>0, <1>2, <2>0, <2>2 DEF SJ!End, InTime
  <2>3. ASSUME NEW r \in Reconcilers, SJ!Done(r), UNCHANGED <<today, found>> PROVE InTime'
    BY <1>0, <1>2, <2>0, <2>3 DEF SJ!Done, InTime
  <2>4. ASSUME UNCHANGED <<today, todo, found>> PROVE InTime'
    BY <1>0, <1>2, <2>0, <2>4 DEF InTime
  <2>. QED
    BY <1>0, <1>2, <2>0, <2>1, <2>2, <2>3, <2>4
       DEF SJ!Next, SJ!vars, SJ!runVars, SJ!Register, SJ!DailyBars, SJ!BarsUnavailable,
           SJ!LeavePending, SJ!InsertReconciliation, SJ!InsertFails, SJ!Return, SJ!Tick
<1>. QED
  BY <1>0, <1>1, <1>2 DEF SJ!Next, SJ!vars, SJ!Register, SJ!Begin, SJ!DailyBars,
     SJ!BarsUnavailable, SJ!LeavePending, SJ!InsertReconciliation, SJ!InsertFails, SJ!Return

LEMMA NotTooSoonKept ==
    ASSUME ScanShapes, InTime, NotTooSoon, [SJ!Next]_SJ!vars
    PROVE  NotTooSoon'
<1>0. NewYork \in Int /\ NewYork' \in Int /\ NewYork <= NewYork'
  BY InTimeKept DEF InTime, NewYork, SJ!NYDay
<1>1. candidates \subseteq candidates' /\ \A c \in candidates : c.expiry \in Nat
  BY DEF SJ!Next, SJ!vars, SJ!Register, SJ!Begin, SJ!DailyBars, SJ!BarsUnavailable,
     SJ!LeavePending, SJ!InsertReconciliation, SJ!InsertFails, SJ!Return, SJ!Tick, ScanShapes
<1>2. ASSUME NEW x \in recs
      PROVE  /\ x.cand \in candidates' /\ x.cand.expiry < NewYork'
             /\ x.outcome = "void" => x.cand.expiry + Grace < NewYork'
  BY <1>0, <1>1, DaysAssumption DEF NotTooSoon
<1>3. CASE recs' = recs
  BY <1>2, <1>3 DEF NotTooSoon
<1>4. ASSUME NEW r \in Reconcilers, SJ!InsertReconciliation(r) PROVE NotTooSoon'
  <2>. DEFINE c == SJ!NextOf(r)
              v == SJ!Verdict(r, c)
  <2>1. c \in todo[r] /\ c \in found[r] /\ c \in candidates
    BY <1>4, NextIsLeft DEF SJ!InsertReconciliation, ScanShapes, InTime
  <2>2. c.expiry \in Nat /\ today[r] \in Int /\ c.expiry < today[r] /\ today[r] <= NewYork
    BY <2>1 DEF InTime, ScanShapes
  <2>3. /\ v.state # "pending"
        /\ recs' = recs \cup {[cand |-> c, close |-> v.close, outcome |-> v.outcome]}
    BY <1>4 DEF SJ!InsertReconciliation, SJ!InsertRow
  <2>4. v.outcome = "void" => c.expiry + Grace < today[r]
    BY <2>1, <2>3, VoidIsLate
  <2>. HIDE DEF c, v
  <2>5. ASSUME NEW x \in recs', x \notin recs
        PROVE  /\ x.cand \in candidates' /\ x.cand.expiry < NewYork'
               /\ x.outcome = "void" => x.cand.expiry + Grace < NewYork'
    <3>1. x.cand = c /\ x.outcome = v.outcome
      BY <2>3, <2>5
    <3>. QED BY <1>0, <1>1, <2>1, <2>2, <2>4, <3>1, DaysAssumption
  <2>. QED BY <1>2, <2>5 DEF NotTooSoon
<1>. QED
  BY <1>3, <1>4 DEF SJ!Next, SJ!vars, SJ!Register, SJ!Begin, SJ!DailyBars,
     SJ!BarsUnavailable, SJ!LeavePending, SJ!InsertFails, SJ!Return, SJ!Tick

LEMMA AlwaysInTime == JournalsSpec => [](InTime /\ NotTooSoon)
<1>1. JournalsInit => InTime /\ NotTooSoon
  BY DaysAssumption DEF JournalsInit, SJ!Init, InTime, NotTooSoon, NewYork, SJ!NYDay,
     SJ!Midnight
<1>2. /\ ScanSafe /\ InTime /\ [JournalsNext]_allVars => InTime'
      /\ ScanSafe /\ InTime /\ NotTooSoon /\ [JournalsNext]_allVars => NotTooSoon'
  BY ScanStep, InTimeKept, NotTooSoonKept DEF ScanSafe
<1>. QED
  BY <1>1, <1>2, ScanAlways, PTL DEF JournalsSpec

(* No candidate is settled before its expiration day is over in New York,   *)
(* and none is given up as void before the days of grace are over as well,  *)
(* however long the run that decides it has been under way.                 *)
THEOREM NothingIsSettledEarly == JournalsSpec => []NotTooSoon
BY AlwaysInTime, PTL

-----------------------------------------------------------------------------
(* Judgments. *)

JudgedShapes ==
    /\ quarter \in Nat /\ barsAt \subseteq Nat \ {IJ!NoBar}
    /\ judgments = [j \in Judges |-> judgments[j]]
    /\ scores = [j \in Judges |-> scores[j]]
    /\ \A j \in Judges : IJ!Registered(j) => judgments[j].expiry \in Nat
    /\ ipc \in [Reconcilers -> {"idle", "price", "insert"}]
    /\ unscored \in [Reconcilers -> SUBSET Judges]
    /\ priced = [r \in Reconcilers |-> priced[r]]

(* What is on a list has expired; what was looked up is the close of the    *)
(* judgment that comes next, or was missed.                                 *)
Due(j) == IJ!Registered(j) /\ judgments[j].expiry <= quarter

ClosesTo(j, at) ==
    IF at = IJ!NoBar THEN j \in missed
    ELSE at <= judgments[j].expiry /\ at >= judgments[j].expiry - Tolerance

LookedUp ==
    \A r \in Reconcilers :
        /\ \A j \in unscored[r] : Due(j)
        /\ ipc[r] = "insert" => unscored[r] # {} /\ ClosesTo(IJ!NextOf(r), priced[r])

(* A score is of a judgment that was due.                                   *)
ScoredWell ==
    \A j \in Judges : IJ!Scored(j) =>
        /\ Due(j) /\ ClosesTo(j, scores[j].at)
        /\ scores[j].at = IJ!NoBar => scores[j].outcome = "void"

JudgedSafe == JudgedShapes /\ LookedUp /\ ScoredWell

LEMMA JudgedInit == JournalsInit => JudgedSafe
BY DEF JournalsInit, IJ!Init, JudgedSafe, JudgedShapes, LookedUp, ScoredWell, IJ!Scored,
       IJ!Registered

LEMMA NextIsUnscored ==
    ASSUME JudgedShapes, LookedUp, NEW r \in Reconcilers, unscored[r] # {}
    PROVE  IJ!NextOf(r) \in unscored[r]
<1>. DEFINE E == {e \in Nat : \E j \in unscored[r] : judgments[j].expiry = e}
<1>1. \A j \in unscored[r] : judgments[j].expiry \in E
  BY DEF JudgedShapes, LookedUp, Due
<1>2. PICK e \in E : \A f \in E : e <= f
  BY <1>1, LeastNumber
<1>3. IJ!Earliest(r) # {}
  BY <1>1, <1>2 DEF IJ!Earliest
<1>. QED
  BY <1>3 DEF IJ!NextOf, IJ!Earliest

(* The bar that PulseCloseNear answers is of the tolerance before.          *)
LEMMA CloseIsNear ==
    ASSUME NEW at \in Nat, barsAt \subseteq Nat \ {IJ!NoBar},
           IJ!PulseCloseNear(at) # IJ!NoBar
    PROVE  IJ!PulseCloseNear(at) <= at /\ IJ!PulseCloseNear(at) >= at - Tolerance
<1>. DEFINE near == IJ!BarsNear(at)
            before == {n \in Nat : at - n \in near}
<1>1. near # {} /\ \A q \in near : q \in Nat /\ q <= at /\ at - Tolerance <= q
  BY DEF IJ!PulseCloseNear, IJ!BarsNear
<1>2. \A q \in near : at - q \in before
  BY <1>1
<1>3. PICK d \in before : \A e \in before : d <= e
  <2>1. before # {} /\ before \subseteq Nat
    BY <1>1, <1>2
  <2>. QED
    BY <2>1, LeastNumber
<1>4. \E q \in near : \A p \in near : q >= p
  BY <1>1, <1>2, <1>3
<1>5. IJ!Latest(near) \in near
  BY <1>4 DEF IJ!Latest
<1>. QED
  BY <1>1, <1>5, QuartersAssumption DEF IJ!PulseCloseNear

-----------------------------------------------------------------------------
LEMMA JudgedShapesKept ==
    ASSUME JudgedShapes, [IJ!Next]_IJ!vars
    PROVE  JudgedShapes'
<1>. USE DEF JudgedShapes
<1>1. ASSUME NEW j \in Judges, NEW d \in Directions, NEW c \in Checkpoints,
             NEW s \in Judges \cup {IJ!NoOne}, IJ!RegisterJudgment(j, d, c, s)
      PROVE  JudgedShapes'
  BY <1>1, QuartersAssumption DEF IJ!RegisterJudgment, IJ!Registered
<1>2. CASE IJ!UpsertPulseBars
  BY <1>2, QuartersAssumption DEF IJ!UpsertPulseBars, IJ!Registered, IJ!Quarters, IJ!NoBar
<1>3. CASE IJ!PrunePulseBars
  BY <1>3 DEF IJ!PrunePulseBars, IJ!Registered
<1>4. ASSUME NEW r \in Reconcilers, IJ!Begin(r)
      PROVE  JudgedShapes'
  BY <1>4 DEF IJ!Begin, IJ!Registered, IJ!ExpiredUnsettledJudgments
<1>5. ASSUME NEW r \in Reconcilers, IJ!LookUpPrice(r)
      PROVE  JudgedShapes'
  BY <1>5 DEF IJ!LookUpPrice, IJ!Registered
<1>6. ASSUME NEW r \in Reconcilers, IJ!End(r), UNCHANGED <<quarter, barsAt, judgments, scores>>
      PROVE  JudgedShapes'
  BY <1>6 DEF IJ!End, IJ!Registered
<1>7. ASSUME NEW r \in Reconcilers, IJ!InsertReconciliation(r)
      PROVE  JudgedShapes'
  BY <1>7 DEF IJ!InsertReconciliation, IJ!InsertOrIgnore, IJ!Registered
<1>8. CASE IJ!Tick
  BY <1>8 DEF IJ!Tick, IJ!Registered
<1>9. CASE UNCHANGED IJ!vars
  BY <1>9 DEF IJ!vars, IJ!Registered
<1>. QED
  BY <1>1, <1>2, <1>3, <1>4, <1>5, <1>6, <1>7, <1>8, <1>9
     DEF IJ!Next, IJ!LookUpFails, IJ!InsertFails, IJ!Return

(* Time passes, what is due stays due, and what was missed stays missed.    *)
LEMMA DueStaysDue ==
    ASSUME JudgedShapes, [IJ!Next]_IJ!vars
    PROVE  /\ \A j \in Judges : IJ!Registered(j) => judgments'[j] = judgments[j]
           /\ \A j \in Judges : Due(j) => Due(j)'
           /\ \A j \in Judges : \A at : Due(j) /\ ClosesTo(j, at) => ClosesTo(j, at)'
<1>1. /\ \A j \in Judges : IJ!Registered(j) => judgments'[j] = judgments[j]
      /\ quarter' \in {quarter, quarter + 1}
      /\ missed \subseteq missed'
  <2>1. ASSUME NEW j \in Judges, NEW d \in Directions, NEW c \in Checkpoints,
               NEW s \in Judges \cup {IJ!NoOne}, IJ!RegisterJudgment(j, d, c, s)
        PROVE  <1>1!:
    BY <2>1 DEF IJ!RegisterJudgment, JudgedShapes
  <2>2. ASSUME NEW r \in Reconcilers,
               IJ!Begin(r) \/ IJ!LookUpPrice(r) \/ IJ!LookUpFails(r)
                  \/ IJ!InsertReconciliation(r) \/ IJ!InsertFails(r) \/ IJ!Return(r)
        PROVE  <1>1!:
    BY <2>2 DEF IJ!Begin, IJ!LookUpPrice, IJ!LookUpFails, IJ!InsertReconciliation,
                IJ!InsertFails, IJ!Return
  <2>3. CASE IJ!UpsertPulseBars \/ IJ!PrunePulseBars \/ IJ!Tick \/ UNCHANGED IJ!vars
    BY <2>3 DEF IJ!UpsertPulseBars, IJ!PrunePulseBars, IJ!Tick, IJ!vars
  <2>. QED
    BY <2>1, <2>2, <2>3 DEF IJ!Next
<1>2. \A j \in Judges : Due(j) => Due(j)'
  BY <1>1 DEF JudgedShapes, Due, IJ!Registered
<1>. QED
  BY <1>1, <1>2 DEF ClosesTo, Due

(* The others' lists and prices are left alone, and so is what comes next.  *)
LEMMA LookedUpOf ==
    ASSUME JudgedShapes, LookedUp, [IJ!Next]_IJ!vars, NEW r \in Reconcilers,
           UNCHANGED <<ipc[r], unscored[r], priced[r]>>
    PROVE  /\ \A j \in unscored'[r] : Due(j)'
           /\ ipc'[r] = "insert" =>
                 unscored'[r] # {} /\ ClosesTo(IJ!NextOf(r), priced[r])'
<1>1. \A j \in unscored[r] : judgments'[j] = judgments[j] /\ Due(j) /\ Due(j)'
  BY DueStaysDue DEF JudgedShapes, LookedUp, Due
<1>2. IJ!NextOf(r)' = IJ!NextOf(r)
  <2>1. IJ!Earliest(r)' = IJ!Earliest(r)
    BY <1>1 DEF IJ!Earliest
  <2>. QED
    BY <2>1 DEF IJ!NextOf
<1>3. ASSUME ipc[r] = "insert"
      PROVE  ClosesTo(IJ!NextOf(r), priced[r])'
  <2>1. PICK n : n = IJ!NextOf(r)
    OBVIOUS
  <2>2. PICK at : at = priced[r]
    OBVIOUS
  <2>3. n \in Judges /\ Due(n) /\ ClosesTo(n, at)
    BY <1>3, <2>1, <2>2, NextIsUnscored DEF LookedUp, JudgedShapes
  <2>4. ClosesTo(n, at)'
    BY <2>3, DueStaysDue
  <2>5. IJ!NextOf(r)' = n /\ priced'[r] = at
    BY <1>2, <2>1, <2>2
  <2>. QED
    BY <2>4, <2>5 DEF ClosesTo
<1>. QED
  BY <1>1, <1>3 DEF LookedUp

LEMMA LookedUpKept ==
    ASSUME JudgedShapes, LookedUp, [IJ!Next]_IJ!vars
    PROVE  LookedUp'
<1>1. ASSUME NEW r \in Reconcilers,
             \A q \in Reconcilers \ {r} : UNCHANGED <<ipc[q], unscored[q], priced[q]>>,
             \A j \in unscored'[r] : Due(j)',
             ipc'[r] # "insert"
      PROVE  LookedUp'
  BY <1>1, LookedUpOf DEF LookedUp
<1>2. CASE UNCHANGED <<ipc, unscored, priced>>
  BY <1>2, LookedUpOf DEF LookedUp
<1>3. ASSUME NEW r \in Reconcilers, IJ!Begin(r)
      PROVE  LookedUp'
  <2>1. ipc'[r] = "price" /\ unscored'[r] = IJ!ExpiredUnsettledJudgments
    BY <1>3 DEF IJ!Begin, JudgedShapes
  <2>2. \A j \in unscored'[r] : Due(j)'
    BY <2>1, DueStaysDue DEF IJ!ExpiredUnsettledJudgments, Due
  <2>3. \A q \in Reconcilers \ {r} : UNCHANGED <<ipc[q], unscored[q], priced[q]>>
    BY <1>3 DEF IJ!Begin, JudgedShapes
  <2>. QED
    BY <1>1, <2>1, <2>2, <2>3
<1>4. ASSUME NEW r \in Reconcilers, IJ!End(r)
      PROVE  LookedUp'
  <2>1. ipc'[r] = "idle" /\ unscored'[r] = {}
    BY <1>4 DEF IJ!End, JudgedShapes
  <2>2. \A q \in Reconcilers \ {r} : UNCHANGED <<ipc[q], unscored[q], priced[q]>>
    BY <1>4 DEF IJ!End, JudgedShapes
  <2>. QED
    BY <1>1, <2>1, <2>2
<1>5. ASSUME NEW r \in Reconcilers, IJ!InsertReconciliation(r)
      PROVE  LookedUp'
  <2>1. ipc'[r] = "price" /\ unscored'[r] \subseteq unscored[r]
    BY <1>5 DEF IJ!InsertReconciliation, JudgedShapes
  <2>2. \A j \in unscored'[r] : Due(j)'
    BY <2>1, DueStaysDue DEF LookedUp, JudgedShapes
  <2>3. \A q \in Reconcilers \ {r} : UNCHANGED <<ipc[q], unscored[q], priced[q]>>
    BY <1>5 DEF IJ!InsertReconciliation, JudgedShapes
  <2>. QED
    BY <1>1, <2>1, <2>2, <2>3
<1>6. ASSUME NEW r \in Reconcilers, IJ!LookUpPrice(r)
      PROVE  LookedUp'
  <2>1. PICK n : n = IJ!NextOf(r)
    OBVIOUS
  <2>2. PICK at : at = IJ!PulseCloseNear(judgments[n].expiry)
    OBVIOUS
  <2>3. /\ unscored[r] # {} /\ unscored' = unscored /\ judgments' = judgments
        /\ ipc'[r] = "insert" /\ priced'[r] = at
        /\ at = IJ!NoBar => n \in missed'
    BY <1>6, <2>1, <2>2 DEF IJ!LookUpPrice, JudgedShapes
  <2>4. n \in unscored[r] /\ judgments[n].expiry \in Nat
    BY <2>1, <2>3, NextIsUnscored DEF LookedUp, JudgedShapes, Due
  <2>5. ClosesTo(n, at)'
    BY <2>2, <2>3, <2>4, CloseIsNear DEF ClosesTo, JudgedShapes
  <2>6. IJ!NextOf(r)' = n
    BY <2>1, <2>3 DEF IJ!NextOf, IJ!Earliest
  <2>7. ClosesTo(IJ!NextOf(r), priced[r])'
    BY <2>3, <2>5, <2>6 DEF ClosesTo
  <2>8. \A q \in Reconcilers \ {r} : UNCHANGED <<ipc[q], unscored[q], priced[q]>>
    BY <1>6 DEF IJ!LookUpPrice, JudgedShapes
  <2>9. \A j \in unscored'[r] : Due(j)'
    BY <2>3, DueStaysDue DEF LookedUp, JudgedShapes
  <2>. QED
    BY <2>3, <2>4, <2>7, <2>8, <2>9, LookedUpOf DEF LookedUp
<1>. QED
  BY <1>2, <1>3, <1>4, <1>5, <1>6
     DEF IJ!Next, IJ!vars, IJ!RegisterJudgment, IJ!UpsertPulseBars, IJ!PrunePulseBars,
         IJ!LookUpFails, IJ!InsertFails, IJ!Return, IJ!Tick

(* A step leaves the scores alone or scores a judgment that had none, with  *)
(* the price that was looked up for it.                                     *)
ScoredNow(j) ==
    /\ Due(j)
    /\ \A k \in Judges \ {j} : scores'[k] = scores[k]
    /\ \/ scores'[j] = scores[j]
       \/ /\ ~ IJ!Scored(j)
          /\ ClosesTo(j, scores'[j].at)
          /\ scores'[j].at = IJ!NoBar => scores'[j].outcome = "void"

LEMMA ScoresOfAStep ==
    ASSUME JudgedShapes, LookedUp, [IJ!Next]_IJ!vars
    PROVE  UNCHANGED scores \/ \E j \in Judges : ScoredNow(j)
<1>1. ASSUME NEW r \in Reconcilers, IJ!InsertReconciliation(r)
      PROVE  \E j \in Judges : ScoredNow(j)
  <2>1. PICK j : j = IJ!NextOf(r)
    OBVIOUS
  <2>2. ipc[r] = "insert" /\ unscored[r] # {}
    BY <1>1 DEF IJ!InsertReconciliation, LookedUp
  <2>3. j \in Judges /\ Due(j) /\ ClosesTo(j, priced[r])
    BY <2>1, <2>2, NextIsUnscored DEF LookedUp, JudgedShapes
  <2>4. PICK rec : /\ rec = [outcome |-> IJ!OutcomeOf(j, priced[r]), at |-> priced[r]]
                   /\ scores' = [scores EXCEPT ![j] = IF IJ!Scored(j) THEN @ ELSE rec]
    BY <1>1, <2>1 DEF IJ!InsertReconciliation, IJ!InsertOrIgnore
  <2>5. rec.at = priced[r] /\ (rec.at = IJ!NoBar => rec.outcome = "void")
    BY <2>4 DEF IJ!OutcomeOf
  <2>6. \A k \in Judges \ {j} : scores'[k] = scores[k]
    BY <2>4 DEF JudgedShapes
  <2>7. scores'[j] = IF IJ!Scored(j) THEN scores[j] ELSE rec
    BY <2>3, <2>4 DEF JudgedShapes
  <2>. QED
    BY <2>3, <2>5, <2>6, <2>7 DEF ScoredNow
<1>2. ASSUME NEW r \in Reconcilers,
             IJ!Begin(r) \/ IJ!LookUpPrice(r) \/ IJ!LookUpFails(r) \/ IJ!InsertFails(r)
                \/ IJ!Return(r)
      PROVE  UNCHANGED scores
  BY <1>2 DEF IJ!Begin, IJ!LookUpPrice, IJ!LookUpFails, IJ!InsertFails, IJ!Return
<1>. QED
  BY <1>1, <1>2 DEF IJ!Next, IJ!vars, IJ!RegisterJudgment, IJ!UpsertPulseBars,
                    IJ!PrunePulseBars, IJ!Tick

LEMMA ScoredWellKept ==
    ASSUME JudgedShapes, LookedUp, ScoredWell, [IJ!Next]_IJ!vars
    PROVE  ScoredWell'
<1>1. ASSUME NEW j \in Judges, scores'[j] = scores[j], IJ!Scored(j)'
      PROVE  /\ Due(j)' /\ ClosesTo(j, scores[j].at)'
             /\ scores'[j].at = IJ!NoBar => scores'[j].outcome = "void"
  <2>1. PICK at : at = scores[j].at
    OBVIOUS
  <2>2. Due(j) /\ ClosesTo(j, at) /\ (at = IJ!NoBar => scores[j].outcome = "void")
    BY <1>1, <2>1 DEF ScoredWell, IJ!Scored
  <2>3. Due(j)' /\ ClosesTo(j, at)' /\ scores'[j].at = at
    BY <1>1, <2>1, <2>2, DueStaysDue
  <2>. QED
    BY <1>1, <2>2, <2>3 DEF ClosesTo
<1>2. CASE UNCHANGED scores
  BY <1>1, <1>2 DEF ScoredWell
<1>3. ASSUME NEW j \in Judges, ScoredNow(j), scores'[j] # scores[j]
      PROVE  /\ Due(j)' /\ ClosesTo(j, scores[j].at)'
             /\ scores'[j].at = IJ!NoBar => scores'[j].outcome = "void"
  <2>1. PICK at : at = scores'[j].at
    OBVIOUS
  <2>2. Due(j) /\ ClosesTo(j, at) /\ (at = IJ!NoBar => scores'[j].outcome = "void")
    BY <1>3, <2>1 DEF ScoredNow
  <2>3. Due(j)' /\ ClosesTo(j, at)'
    BY <2>2, DueStaysDue
  <2>. QED
    BY <2>1, <2>2, <2>3 DEF ClosesTo
<1>4. ASSUME NEW j \in Judges, ScoredNow(j)
      PROVE  ScoredWell'
  BY <1>1, <1>3, <1>4 DEF ScoredWell, ScoredNow
<1>. QED
  BY <1>2, <1>4, ScoresOfAStep

LEMMA JudgedStep == [JournalsNext]_allVars => [IJ!Next]_IJ!vars
BY DEF JournalsNext, Trading, Scanning, Judging, Matching, allVars, intelVars, IJ!vars

LEMMA JudgedAlways == JournalsSpec => []JudgedSafe
<1>1. JudgedSafe /\ [JournalsNext]_allVars => JudgedSafe'
  BY JudgedStep, JudgedShapesKept, LookedUpKept, ScoredWellKept DEF JudgedSafe
<1>. QED
  BY JudgedInit, <1>1, PTL DEF JournalsSpec

(* A judgment is scored with a bar of the tolerance before its checkpoint,  *)
(* however late the reconcile and whatever was stored or pruned since, and  *)
(* void for want of a bar only if one looked when none was there.           *)
THEOREM NoScoreByHindsight == JournalsSpec => []ScoredWithoutHindsight
<1>1. JudgedSafe => ScoredWithoutHindsight
  BY DEF JudgedSafe, ScoredWell, Due, ClosesTo, ScoredWithoutHindsight,
         IJ!ScoredWithoutHindsight
<1>. QED
  BY <1>1, JudgedAlways, PTL

-----------------------------------------------------------------------------
(* No score changes; and a counted one leaves the hit rate by a judgment    *)
(* that is new and supersedes it.                                           *)
LEMMA ScoresStay ==
    ASSUME JudgedShapes, LookedUp, [IJ!Next]_IJ!vars
    PROVE  /\ \A j \in Judges : IJ!Scored(j) => scores'[j] = scores[j]
           /\ \A j \in IJ!Counted \ IJ!Counted' :
                 \E k \in Judges : ~ IJ!Registered(k) /\ judgments'[k].supersedes = j
<1>1. ASSUME NEW j \in Judges, IJ!Scored(j)
      PROVE  scores'[j] = scores[j]
  BY <1>1, ScoresOfAStep DEF ScoredNow
<1>2. ASSUME NEW j \in IJ!Counted, j \notin IJ!Counted'
      PROVE  \E k \in Judges : ~ IJ!Registered(k) /\ judgments'[k].supersedes = j
  <2>1. j \in Judges /\ scores[j].outcome \in {"hit", "miss"} /\ j \notin IJ!Superseded
    BY <1>2 DEF IJ!Counted
  <2>2. IJ!Scored(j)
    BY <2>1 DEF IJ!Scored, IJ!Unscored
  <2>3. scores'[j] = scores[j]
    BY <1>1, <2>1, <2>2
  <2>4. j \in IJ!Superseded'
    BY <1>2, <2>1, <2>3 DEF IJ!Counted
  <2>5. PICK k \in Judges : IJ!Registered(k)' /\ judgments'[k].supersedes = j
    BY <2>4 DEF IJ!Superseded
  <2>6. ~ IJ!Registered(k)
    BY <2>1, <2>5, DueStaysDue DEF IJ!Superseded
  <2>. QED
    BY <2>5, <2>6
<1>. QED
  BY <1>1, <1>2

(* What a reconcile has written stays, and is written once: rows of the     *)
(* scan journal and scores of the judgments, whoever else reconciles.       *)
THEOREM WrittenOnce == JournalsSpec => AppendOnly
<1>1. ScanSafe /\ [SJ!Next]_SJ!vars => [recs \subseteq recs']_SJ!vars
  BY OneRowKept DEF ScanSafe
<1>2. ScanSafe /\ [SJ!Next]_SJ!vars =>
        [\A x, y \in recs' : x.cand = y.cand => x = y]_SJ!vars
  BY OneRowKept DEF ScanSafe, OneRow
<1>3. JudgedSafe /\ [IJ!Next]_IJ!vars =>
        [/\ \A j \in Judges : IJ!Scored(j) => scores'[j] = scores[j]
         /\ \A j \in IJ!Counted \ IJ!Counted' :
               \E k \in Judges : ~ IJ!Registered(k) /\ judgments'[k].supersedes = j]_IJ!vars
  BY ScoresStay DEF JudgedSafe
<1>4. JournalsSpec => SJ!RowsAreFinal
  BY <1>1, <1>2, ScanAlways, ScanStep, PTL DEF JournalsSpec, SJ!RowsAreFinal
<1>5. JournalsSpec => IJ!ScoresAreFinal
  BY <1>3, JudgedAlways, JudgedStep, PTL DEF JournalsSpec, IJ!ScoresAreFinal
<1>. QED
  BY <1>4, <1>5 DEF AppendOnly

-----------------------------------------------------------------------------
(* Types.  What the two invariants leave open of them: a candidate expires  *)
(* after its scan, and no bar is of the future.                             *)

ExpiresLater == \A c \in candidates : c.scan < c.expiry

BarsOfThePast == quarter \in 1 .. LastQuarter /\ barsAt \subseteq 1 .. quarter

LEMMA ExpiresLaterKept == ExpiresLater /\ [SJ!Next]_SJ!vars => ExpiresLater'
<1>. SUFFICES ASSUME ExpiresLater, [SJ!Next]_SJ!vars PROVE ExpiresLater'
  OBVIOUS
<1>1. ASSUME NEW batch \in Batches, SJ!Register(batch) PROVE ExpiresLater'
  BY <1>1 DEF SJ!Register, SJ!Valid, SJ!CandidateID, ExpiresLater
<1>2. CASE candidates' = candidates
  BY <1>2 DEF ExpiresLater
<1>. QED
  BY <1>1, <1>2 DEF SJ!Next, SJ!vars, SJ!Begin, SJ!DailyBars, SJ!BarsUnavailable,
     SJ!LeavePending, SJ!InsertReconciliation, SJ!InsertFails, SJ!Return, SJ!Tick

LEMMA BarsOfThePastKept == BarsOfThePast /\ [IJ!Next]_IJ!vars => BarsOfThePast'
<1>. SUFFICES ASSUME BarsOfThePast, [IJ!Next]_IJ!vars PROVE BarsOfThePast'
  OBVIOUS
<1>. USE QuartersAssumption DEF BarsOfThePast
<1>1. CASE IJ!UpsertPulseBars
  BY <1>1 DEF IJ!UpsertPulseBars, IJ!Quarters
<1>2. CASE IJ!PrunePulseBars
  BY <1>2 DEF IJ!PrunePulseBars
<1>3. CASE IJ!Tick
  BY <1>3 DEF IJ!Tick
<1>4. CASE UNCHANGED <<quarter, barsAt>>
  BY <1>4
<1>. QED
  BY <1>1, <1>2, <1>3, <1>4 DEF IJ!Next, IJ!vars, IJ!RegisterJudgment, IJ!Begin,
     IJ!LookUpPrice, IJ!LookUpFails, IJ!InsertReconciliation, IJ!InsertFails, IJ!Return

(* Types of the scan journal and of the judgments: lists are of what the    *)
(* run found, rows of candidates that are there, scores of judgments.       *)
THEOREM ScansAndJudgmentsAreTyped == JournalsSpec => [](SJ!TypeOK /\ IJ!TypeOK)
<1>1. JournalsInit => ExpiresLater /\ BarsOfThePast
  BY QuartersAssumption DEF JournalsInit, SJ!Init, IJ!Init, ExpiresLater, BarsOfThePast
<1>2. ExpiresLater /\ [JournalsNext]_allVars => ExpiresLater'
  BY ExpiresLaterKept, ScanStep
<1>3. BarsOfThePast /\ [JournalsNext]_allVars => BarsOfThePast'
  BY BarsOfThePastKept, JudgedStep
<1>4. ScanSafe /\ InTime /\ NotTooSoon /\ ExpiresLater => SJ!TypeOK
  BY DEF ScanSafe, ScanShapes, InTime, NotTooSoon, ExpiresLater, SJ!TypeOK
<1>5. JudgedSafe /\ BarsOfThePast => IJ!TypeOK
  BY DEF JudgedSafe, JudgedShapes, LookedUp, ScoredWell, Due, BarsOfThePast, IJ!TypeOK,
     IJ!Quarters
<1>. QED
  BY <1>1, <1>2, <1>3, <1>4, <1>5, ScanAlways, AlwaysInTime, JudgedAlways, PTL
     DEF JournalsSpec

-----------------------------------------------------------------------------
(* Round trips: lots hold fills that were taken, the oldest first, and what *)
(* is left of the fill at hand.                                             *)

Taken == Len(input) - Len(fills)

SideOf(direction) == IF direction = "LONG" THEN "BOT" ELSE "SLD"

IsSeq(s) == s \in Seq({s[n] : n \in DOMAIN s})

Lot == [id : Nat, qty : Nat, price : Nat, time : Nat]

Hands == [id : Nat, side : {"BOT", "SLD"}, qty : Nat, price : Nat, time : Nat]

InHand ==
    /\ fills \in Seq(RT!Fills) /\ Len(fills) <= Len(input)
    /\ \A n \in DOMAIN fills : fills[n] = input[Taken + n]
    /\ hand \in Hands
    /\ mpc = "match" =>
          /\ Taken >= 1
          /\ hand.id = input[Taken].id /\ hand.side = input[Taken].side
          /\ hand.price = input[Taken].price /\ hand.time = input[Taken].time
          /\ hand.qty \in 0 .. input[Taken].qty

LotIs(lot, i) ==
    /\ lot.id = input[i].id /\ lot.price = input[i].price /\ lot.time = input[i].time
    /\ lot.qty \in 1 .. input[i].qty

Elder(lot, other) == lot.id # other.id /\ RT!NotAfter(lot.id, other.id)

LotsFit(lots, side) ==
    /\ lots \in Seq(Lot)
    /\ \A k \in DOMAIN lots : \E i \in DOMAIN input :
          /\ i <= Taken /\ (mpc = "match" => i < Taken)
          /\ input[i].side = side /\ LotIs(lots[k], i)
    /\ \A k, l \in DOMAIN lots : k < l => Elder(lots[k], lots[l])

ClosedIn(ts) == {n \in DOMAIN ts : ts[n].status = "closed"}

TripsFit(ts) ==
    /\ IsSeq(ts)
    /\ \A n \in ClosedIn(ts) : \E i, j \in DOMAIN input :
          j <= Taken /\ RT!TripOf(ts[n], i, j)
    /\ \A m, n \in ClosedIn(ts) : m < n /\ ts[m].direction = ts[n].direction =>
          /\ RT!NotAfter(ts[m].openId, ts[n].openId)
          /\ RT!NotAfter(ts[m].closeId, ts[n].closeId)

Passed(ts, direction, lots) ==
    \A n \in ClosedIn(ts) : \A k \in DOMAIN lots :
        ts[n].direction = direction => RT!NotAfter(ts[n].openId, lots[k].id)

MatchSafe ==
    /\ InHand
    /\ LotsFit(longs, "BOT") /\ LotsFit(shorts, "SLD")
    /\ longs = <<>> \/ shorts = <<>>
    /\ TripsFit(trips) /\ Passed(trips, "LONG", longs) /\ Passed(trips, "SHORT", shorts)

(* The IDs of proper fills are their places.                                *)
LEMMA Placed ==
    ASSUME RT!ProperFills, NEW i \in DOMAIN input, NEW j \in DOMAIN input, i <= j
    PROVE  RT!NotAfter(input[i].id, input[j].id)
<1>1. SUFFICES ASSUME NEW p \in DOMAIN input, NEW q \in DOMAIN input,
                      input[p].id = input[i].id, input[q].id = input[j].id
               PROVE  p <= q
  BY DEF RT!NotAfter
<1>2. DOMAIN input \subseteq Int
  BY DEF RT!ProperFills
<1>3. \A x, y \in DOMAIN input : input[x].id = input[y].id => x = y
  BY <1>2 DEF RT!ProperFills
<1>4. p = i /\ q = j
  BY <1>1, <1>3, Zenon
<1>. QED
  BY <1>4

LEMMA SeqOfItself == ASSUME NEW S, NEW s \in Seq(S) PROVE IsSeq(s)
<1>. DEFINE T == {s[n] : n \in DOMAIN s}
<1>1. \A n \in DOMAIN s : s[n] \in T
  OBVIOUS
<1>2. DOMAIN s = 1 .. Len(s) /\ Len(s) \in Nat /\ s = [n \in 1 .. Len(s) |-> s[n]]
  OBVIOUS
<1>3. s \in [1 .. Len(s) -> T]
  BY <1>1, <1>2, Zenon
<1>. QED
  BY <1>2, <1>3 DEF IsSeq

LEMMA Appended ==
    ASSUME NEW s, IsSeq(s), NEW e
    PROVE  /\ IsSeq(Append(s, e))
           /\ DOMAIN Append(s, e) = 1 .. Len(s) + 1
           /\ \A n \in DOMAIN s : Append(s, e)[n] = s[n]
           /\ Append(s, e)[Len(s) + 1] = e
           /\ DOMAIN s = 1 .. Len(s) /\ Len(s) \in Nat
<1>. DEFINE S == {s[n] : n \in DOMAIN s} \cup {e}
            t == Append(s, e)
<1>1. s \in Seq(S) /\ e \in S
  BY DEF IsSeq
<1>2. t \in Seq(S) /\ Len(t) = Len(s) + 1 /\ DOMAIN t = 1 .. Len(s) + 1
  BY <1>1
<1>3. IsSeq(t)
  BY <1>2, SeqOfItself
<1>. QED
  BY <1>1, <1>2, <1>3 DEF t

LEMMA FillTyped ==
    ASSUME RT!ProperFills, NEW i \in DOMAIN input
    PROVE  /\ input[i].id \in Nat /\ input[i].price \in Nat /\ input[i].time \in Nat
           /\ input[i].qty \in Nat \ {0} /\ input[i].side \in {"BOT", "SLD"}
<1>1. input[i] \in RT!Fills
  BY DEF RT!ProperFills
<1>. QED
  BY <1>1 DEF RT!Fills

LEMMA LotLess ==
    ASSUME NEW lot \in Lot, NEW q \in Nat
    PROVE  LET rest == [lot EXCEPT !.qty = q]
           IN /\ rest \in Lot /\ rest.id = lot.id /\ rest.price = lot.price
              /\ rest.time = lot.time /\ rest.qty = q
BY DEF Lot

(* What is left of the lots after a closing: the first lot loses what was   *)
(* taken of it.                                                             *)
LeftOf(left, lots, take) ==
    /\ \A k \in DOMAIN left : \E l \in DOMAIN lots :
          left[k].id = lots[l].id /\ left[k].qty = lots[l].qty - (IF l = 1 THEN take ELSE 0)
    /\ \A l \in DOMAIN lots : l # 1 \/ lots[1].qty # take
          => \E k \in DOMAIN left : left[k].id = lots[l].id

LEMMA Reduced ==
    ASSUME RT!ProperFills, InHand, NEW side, NEW lots, LotsFit(lots, side), lots # <<>>,
           NEW take \in Nat, 0 < take, take <= Head(lots).qty
    PROVE  /\ LotsFit(RT!Reduce(lots, take), side)
           /\ LeftOf(RT!Reduce(lots, take), lots, take)
<1>. DEFINE left == RT!Reduce(lots, take)
<1>0. /\ lots \in Seq(Lot) /\ Len(lots) \in Nat /\ Len(lots) > 0
      /\ DOMAIN lots = 1 .. Len(lots) /\ Head(lots) = lots[1] /\ lots[1] \in Lot
  BY DEF LotsFit
<1>1. /\ Tail(lots) \in Seq(Lot) /\ Len(Tail(lots)) = Len(lots) - 1
      /\ DOMAIN Tail(lots) = 1 .. Len(lots) - 1
      /\ \A k \in 1 .. Len(lots) - 1 : Tail(lots)[k] = lots[k + 1]
  BY <1>0
<1>2. \A k \in DOMAIN lots : lots[k].qty \in Nat
  <2>1. \A lot \in Lot : lot.qty \in Nat
    BY DEF Lot
  <2>2. \A k \in DOMAIN lots : lots[k] \in Lot
    BY <1>0
  <2>. QED
    BY <2>1, <2>2
<1>3. CASE Head(lots).qty = take
  <2>1. left = Tail(lots)
    BY <1>3 DEF RT!Reduce
  <2>2. \A k \in DOMAIN left : k + 1 \in DOMAIN lots /\ left[k] = lots[k + 1]
    BY <1>0, <1>1, <2>1
  <2>3. DOMAIN left \subseteq Nat
    BY <1>0, <1>1, <2>1
  <2>. HIDE DEF left
  <2>4. \A k, l \in DOMAIN left : k < l => Elder(left[k], left[l])
    <3>1. SUFFICES ASSUME NEW k \in DOMAIN left, NEW l \in DOMAIN left, k < l
                   PROVE  Elder(left[k], left[l])
      OBVIOUS
    <3>2. k + 1 < l + 1
      BY <2>3, <3>1
    <3>. QED
      BY <2>2, <3>1, <3>2 DEF LotsFit
  <2>5. left \in Seq(Lot)
    BY <1>1, <2>1
  <2>6. LotsFit(left, side)
    BY <2>2, <2>4, <2>5 DEF LotsFit
  <2>7. \A l \in DOMAIN lots : l # 1 => l - 1 \in DOMAIN left /\ left[l - 1] = lots[l]
    BY <1>0, <1>1, <2>1 DEF left
  <2>8. \A k \in DOMAIN left : k + 1 # 1 /\ lots[k + 1].qty \in Nat
    BY <1>2, <2>2, <2>3
  <2>9. \A k \in DOMAIN left : left[k].qty = lots[k + 1].qty - 0
    BY <2>2, <2>8
  <2>10. LeftOf(left, lots, take)
    BY <1>0, <1>3, <2>2, <2>7, <2>8, <2>9 DEF LeftOf
  <2>. QED
    BY <2>6, <2>10 DEF left
<1>4. CASE Head(lots).qty # take
  <2>. DEFINE rest == [lots[1] EXCEPT !.qty = @ - take]
  <2>1. left = <<rest>> \o Tail(lots)
    BY <1>0, <1>4 DEF RT!Reduce
  <2>2. /\ rest \in Lot /\ rest.id = lots[1].id /\ rest.price = lots[1].price
        /\ rest.time = lots[1].time /\ rest.qty = lots[1].qty - take /\ rest.qty > 0
    <3>1. lots[1].qty \in Nat /\ lots[1].qty - take \in Nat /\ lots[1].qty - take > 0
      BY <1>0, <1>4 DEF Lot
    <3>. QED
      BY <1>0, <3>1, LotLess
  <2>. HIDE DEF rest
  <2>3. /\ left \in Seq(Lot) /\ Len(left) = Len(lots) /\ DOMAIN left = DOMAIN lots
        /\ left[1] = rest /\ \A k \in DOMAIN lots \ {1} : left[k] = lots[k]
    <3>1. <<rest>> \in Seq(Lot) /\ Len(<<rest>>) = 1 /\ <<rest>>[1] = rest
      BY <2>2
    <3>2. /\ left \in Seq(Lot) /\ Len(left) = 1 + (Len(lots) - 1)
      BY <1>1, <2>1, <3>1
    <3>3. DOMAIN left = 1 .. Len(lots)
      BY <1>0, <3>2
    <3>4. \A k \in 1 .. Len(lots) : left[k] = IF k <= 1 THEN <<rest>>[k] ELSE Tail(lots)[k - 1]
      BY <1>0, <1>1, <2>1, <3>1
    <3>. QED
      BY <1>0, <1>1, <3>1, <3>2, <3>3, <3>4
  <2>. HIDE DEF left
  <2>4. \A k \in DOMAIN left : left[k].id = lots[k].id
    BY <2>2, <2>3
  <2>5. \A k \in DOMAIN left : \E i \in DOMAIN input :
           /\ i <= Taken /\ (mpc = "match" => i < Taken)
           /\ input[i].side = side /\ LotIs(left[k], i)
    <3>1. SUFFICES ASSUME NEW k \in DOMAIN left
                   PROVE  \E i \in DOMAIN input :
                             /\ i <= Taken /\ (mpc = "match" => i < Taken)
                             /\ input[i].side = side /\ LotIs(left[k], i)
      OBVIOUS
    <3>2. PICK i \in DOMAIN input :
             /\ i <= Taken /\ (mpc = "match" => i < Taken)
             /\ input[i].side = side /\ LotIs(lots[k], i)
      BY <2>3 DEF LotsFit
    <3>3. input[i].qty \in Nat
      BY FillTyped
    <3>4. CASE k = 1
      BY <2>2, <2>3, <3>2, <3>3, <3>4 DEF LotIs
    <3>5. CASE k # 1
      BY <2>3, <3>2, <3>5
    <3>. QED
      BY <3>2, <3>4, <3>5
  <2>6. LotsFit(left, side)
    BY <2>3, <2>4, <2>5 DEF LotsFit, Elder
  <2>7. \A k \in DOMAIN left : left[k].qty = lots[k].qty - (IF k = 1 THEN take ELSE 0)
    BY <1>2, <2>2, <2>3
  <2>8. LeftOf(left, lots, take)
    BY <2>3, <2>4, <2>7 DEF LeftOf
  <2>. QED
    BY <2>6, <2>8 DEF left
<1>. QED
  BY <1>3, <1>4

(* A closing by the fill at hand adds a trip that fits.                     *)
LEMMA TripAdded ==
    ASSUME RT!ProperFills, InHand, mpc = "match",
           NEW direction \in {"LONG", "SHORT"}, NEW lots, LotsFit(lots, SideOf(direction)),
           NEW ts, TripsFit(ts), Passed(ts, direction, lots),
           hand.side # SideOf(direction), hand.qty > 0, lots # <<>>,
           NEW take, take = RT!Lesser(hand.qty, Head(lots).qty)
    PROVE  LET more == Append(ts, RT!ClosedTrip(direction, Head(lots), take))
               left == RT!Reduce(lots, take)
           IN /\ take \in Nat /\ 0 < take /\ take <= hand.qty
              /\ TripsFit(more) /\ Passed(more, direction, left)
              /\ LotsFit(left, SideOf(direction))
<1>. DEFINE new == RT!ClosedTrip(direction, Head(lots), take)
            more == Append(ts, new)
            left == RT!Reduce(lots, take)
<1>1. /\ Taken \in DOMAIN input /\ hand.id = input[Taken].id /\ hand.side = input[Taken].side
      /\ hand.price = input[Taken].price /\ hand.time = input[Taken].time
      /\ hand.qty \in Nat /\ hand.qty <= input[Taken].qty /\ Taken \in Int
  <2>1. /\ Taken >= 1 /\ Len(fills) \in Nat /\ Len(input) \in Nat
        /\ DOMAIN input = 1 .. Len(input)
    BY DEF InHand, RT!ProperFills
  <2>2. Taken \in DOMAIN input
    BY <2>1 DEF Taken
  <2>3. input[Taken].qty \in Nat
    BY <2>2, FillTyped
  <2>. QED
    BY <2>1, <2>2, <2>3 DEF InHand
<1>2. Head(lots) = lots[1] /\ 1 \in DOMAIN lots /\ lots[1] \in Lot
  BY DEF LotsFit
<1>3. PICK i \in DOMAIN input : i < Taken /\ input[i].side = SideOf(direction) /\ LotIs(lots[1], i)
  BY <1>2 DEF LotsFit
<1>4. /\ input[i].qty \in Nat /\ input[Taken].qty \in Nat
      /\ lots[1].qty \in 1 .. input[i].qty
  BY <1>1, <1>3, FillTyped DEF LotIs
<1>5. /\ take \in Nat /\ 0 < take /\ take <= hand.qty /\ take <= lots[1].qty
      /\ take \in 1 .. RT!Lesser(input[i].qty, input[Taken].qty)
  BY <1>1, <1>2, <1>4 DEF RT!Lesser
<1>6. /\ LotsFit(left, SideOf(direction))
      /\ \A k \in DOMAIN left : \E l \in DOMAIN lots : left[k].id = lots[l].id
  BY <1>2, <1>5, Reduced DEF LeftOf
<1>7. /\ new.direction = direction /\ new.status = "closed"
      /\ new.openId = input[i].id /\ new.closeId = input[Taken].id
      /\ RT!TripOf(new, i, Taken)
  <2>1. /\ new.direction = direction /\ new.status = "closed" /\ new.qty = take
        /\ new.openId = lots[1].id /\ new.closeId = hand.id
        /\ new.openTime = lots[1].time /\ new.closeTime = hand.time
        /\ new.pnl = RT!multiplierFor(key.sec) * take *
                (IF direction = "LONG" THEN hand.price - lots[1].price
                                       ELSE lots[1].price - hand.price)
    BY <1>2, Zenon DEF RT!ClosedTrip
  <2>2. /\ lots[1].id = input[i].id /\ lots[1].price = input[i].price
        /\ lots[1].time = input[i].time
    BY <1>3 DEF LotIs
  <2>3. input[i].side # input[Taken].side
    BY <1>1, <1>3
  <2>4. new.pnl = RT!multiplierFor(key.sec) * new.qty *
            (IF new.direction = "LONG" THEN input[Taken].price - input[i].price
                                       ELSE input[i].price - input[Taken].price)
    BY <1>1, <2>1, <2>2, Zenon
  <2>. HIDE DEF new
  <2>. QED
    BY <1>1, <1>3, <1>5, <2>1, <2>2, <2>3, <2>4 DEF RT!TripOf, SideOf
<1>. HIDE DEF new, left
<1>8. /\ IsSeq(more) /\ DOMAIN more = 1 .. Len(ts) + 1 /\ Len(ts) \in Nat
      /\ \A n \in DOMAIN ts : more[n] = ts[n]
      /\ more[Len(ts) + 1] = new /\ DOMAIN ts = 1 .. Len(ts)
  BY Appended DEF TripsFit
<1>. HIDE DEF more
<1>9. \A n \in ClosedIn(more) : n = Len(ts) + 1 \/ (n \in ClosedIn(ts) /\ n <= Len(ts) /\ more[n] = ts[n])
  BY <1>8 DEF ClosedIn
<1>10. \A n \in ClosedIn(more) : \E p, q \in DOMAIN input :
          q <= Taken /\ RT!TripOf(more[n], p, q)
  <2>1. Taken <= Taken
    BY <1>1
  <2>. QED
    BY <1>1, <1>3, <1>7, <1>8, <1>9, <2>1, Zenon DEF TripsFit
<1>11. ASSUME NEW m \in ClosedIn(ts), ts[m].direction = direction
       PROVE  /\ RT!NotAfter(ts[m].openId, new.openId)
              /\ RT!NotAfter(ts[m].closeId, new.closeId)
  <2>1. PICK p \in DOMAIN input, q \in DOMAIN input : q <= Taken /\ RT!TripOf(ts[m], p, q)
    BY DEF TripsFit
  <2>2. RT!NotAfter(input[q].id, input[Taken].id)
    BY <1>1, <2>1, Placed
  <2>3. ts[m].closeId = input[q].id
    BY <2>1 DEF RT!TripOf
  <2>4. RT!NotAfter(ts[m].openId, lots[1].id)
    BY <1>2, <1>11 DEF Passed
  <2>. QED
    BY <1>3, <1>7, <2>2, <2>3, <2>4 DEF LotIs
<1>12. ASSUME NEW m \in ClosedIn(more), NEW n \in ClosedIn(more), m < n,
              more[m].direction = more[n].direction
       PROVE  /\ RT!NotAfter(more[m].openId, more[n].openId)
              /\ RT!NotAfter(more[m].closeId, more[n].closeId)
  <2>1. m \in 1 .. Len(ts) + 1 /\ n \in 1 .. Len(ts) + 1
    BY <1>8 DEF ClosedIn
  <2>2. m \in ClosedIn(ts) /\ more[m] = ts[m]
    BY <1>8, <1>9, <1>12, <2>1
  <2>3. CASE n = Len(ts) + 1
    BY <1>7, <1>8, <1>11, <1>12, <2>2, <2>3
  <2>4. CASE n # Len(ts) + 1
    BY <1>9, <1>12, <2>2, <2>4 DEF TripsFit
  <2>. QED
    BY <2>3, <2>4
<1>13. Passed(more, direction, left)
  <2>1. SUFFICES ASSUME NEW n \in ClosedIn(more), NEW k \in DOMAIN left,
                        more[n].direction = direction
                 PROVE  RT!NotAfter(more[n].openId, left[k].id)
    BY DEF Passed
  <2>2. PICK l \in DOMAIN lots : left[k].id = lots[l].id
    BY <1>6
  <2>3. CASE n = Len(ts) + 1
    <3>1. l = 1 \/ 1 < l
      BY DEF LotsFit
    <3>2. RT!NotAfter(input[i].id, input[i].id)
      BY <1>3, Placed DEF RT!ProperFills
    <3>3. 1 < l => RT!NotAfter(lots[1].id, lots[l].id)
      BY <1>2 DEF LotsFit, Elder
    <3>4. RT!NotAfter(lots[1].id, lots[l].id)
      BY <1>3, <3>1, <3>2, <3>3 DEF LotIs
    <3>. QED
      BY <1>3, <1>7, <1>8, <2>2, <2>3, <3>4 DEF LotIs
  <2>4. CASE n # Len(ts) + 1
    BY <1>9, <2>1, <2>2, <2>4 DEF Passed
  <2>. QED
    BY <2>3, <2>4
<1>14. TripsFit(more)
  BY <1>8, <1>10, <1>12 DEF TripsFit
<1>. QED
  BY <1>5, <1>6, <1>13, <1>14 DEF more, left, new

-----------------------------------------------------------------------------
(* Steps of the matcher. *)

(* What is not at hand stays where it is.                                   *)
Onward == /\ UNCHANGED <<input, key>> /\ Taken <= Taken'
          /\ mpc' = "match" => mpc = "match" \/ Taken < Taken'

LEMMA TakenWhole == ASSUME RT!ProperFills, InHand PROVE Taken \in Nat /\ DOMAIN input \subseteq Nat
<1>1. Len(fills) \in Nat /\ Len(input) \in Nat /\ Len(fills) <= Len(input) /\ DOMAIN input = 1 .. Len(input)
  BY DEF InHand, RT!ProperFills
<1>. QED
  BY <1>1 DEF Taken

LEMMA LotsStay ==
    ASSUME RT!ProperFills, InHand, Onward, Taken' \in Nat, NEW lots
    PROVE  /\ LotsFit(lots, "BOT") /\ longs' = lots => LotsFit(longs, "BOT")'
           /\ LotsFit(lots, "SLD") /\ shorts' = lots => LotsFit(shorts, "SLD")'
<1>1. \A i \in DOMAIN input :
         i <= Taken /\ (mpc = "match" => i < Taken)
            => i <= Taken' /\ (mpc' = "match" => i < Taken')
  BY TakenWhole DEF Onward
<1>. QED
  BY <1>1 DEF LotsFit, LotIs, Elder, RT!NotAfter, Onward

LEMMA TripsStay ==
    ASSUME RT!ProperFills, InHand, Onward, Taken' \in Nat,
           NEW ts, TripsFit(ts), trips' = ts
    PROVE  TripsFit(trips)'
<1>1. \A j \in DOMAIN input : j <= Taken => j <= Taken'
  BY TakenWhole DEF Onward
<1>. QED
  BY <1>1 DEF TripsFit, IsSeq, ClosedIn, RT!TripOf, RT!NotAfter, Onward

LEMMA PassedStay ==
    ASSUME Onward, NEW ts, NEW lots, trips' = ts
    PROVE  /\ Passed(ts, "LONG", lots) /\ longs' = lots => Passed(trips, "LONG", longs)'
           /\ Passed(ts, "SHORT", lots) /\ shorts' = lots => Passed(trips, "SHORT", shorts)'
BY DEF Passed, ClosedIn, RT!NotAfter, Onward

LEMMA TakeFillFits ==
    ASSUME RT!ProperFills, MatchSafe, RT!TakeFill
    PROVE  MatchSafe'
<1>1. /\ fills \in Seq(RT!Fills) /\ fills # <<>> /\ Len(fills) \in Nat /\ Len(fills) > 0
      /\ fills' = Tail(fills) /\ hand' = Head(fills) /\ mpc' = "match"
      /\ UNCHANGED <<key, input, longs, shorts, trips>>
  BY DEF RT!TakeFill, MatchSafe, InHand
<1>2. Taken \in Nat /\ Taken' = Taken + 1
  BY <1>1, TakenWhole DEF MatchSafe, Taken
<1>3. hand' = input[Taken + 1] /\ Taken + 1 \in DOMAIN input
  BY <1>1, TakenWhole DEF MatchSafe, InHand, RT!ProperFills, Taken
<1>4. input[Taken + 1].qty \in Nat /\ hand' \in Hands
  <2>1. \A f \in RT!Fills : f \in Hands
    BY DEF RT!Fills, Hands
  <2>2. input[Taken + 1] \in RT!Fills
    BY <1>3 DEF RT!ProperFills
  <2>3. hand' = input[Taken + 1]
    BY <1>3
  <2>. QED
    BY <1>3, <2>1, <2>2, <2>3, FillTyped
<1>5. fills' \in Seq(RT!Fills) /\ Len(fills') <= Len(input')
  BY <1>1 DEF MatchSafe, InHand, RT!ProperFills
<1>6. \A n \in DOMAIN fills' : fills'[n] = input'[Taken' + n]
  <2>1. SUFFICES ASSUME NEW n \in DOMAIN fills' PROVE fills'[n] = input[Taken + (n + 1)]
    BY <1>1, <1>2
  <2>2. n + 1 \in DOMAIN fills /\ fills'[n] = fills[n + 1]
    BY <1>1
  <2>. QED
    BY <2>2 DEF MatchSafe, InHand
<1>7. InHand'
  BY <1>1, <1>2, <1>3, <1>4, <1>5, <1>6 DEF InHand
<1>8. Onward /\ Taken' \in Nat
  BY <1>1, <1>2 DEF Onward
<1>. QED
  BY <1>1, <1>7, <1>8, LotsStay, TripsStay, PassedStay DEF MatchSafe

LEMMA HandLess ==
    ASSUME NEW h \in Hands, NEW q \in Nat
    PROVE  LET rest == [h EXCEPT !.qty = q]
           IN /\ rest \in Hands /\ rest.id = h.id /\ rest.side = h.side
              /\ rest.price = h.price /\ rest.time = h.time /\ rest.qty = q
BY DEF Hands

LEMMA HandLeft ==
    ASSUME RT!ProperFills, InHand, mpc = "match", UNCHANGED <<key, input, fills, mpc>>,
           NEW take \in Nat, 0 < take, take <= hand.qty,
           hand' = [hand EXCEPT !.qty = @ - take]
    PROVE  InHand' /\ Onward /\ Taken' \in Nat
<1>1. Taken \in Nat /\ Taken' = Taken
  BY TakenWhole DEF Taken
<1>2. Onward
  BY <1>1 DEF Onward
<1>3. hand.qty \in 0 .. input[Taken].qty /\ input[Taken].qty \in Nat
  BY <1>1, FillTyped, TakenWhole DEF InHand, RT!ProperFills, Taken
<1>4. hand \in Hands /\ hand.qty - take \in Nat
  BY <1>3 DEF InHand
<1>5. /\ hand' \in Hands /\ hand'.qty = hand.qty - take
      /\ hand'.id = hand.id /\ hand'.side = hand.side
      /\ hand'.price = hand.price /\ hand'.time = hand.time
  BY <1>4, HandLess
<1>. QED
  BY <1>1, <1>2, <1>3, <1>4, <1>5 DEF InHand

(* A trip of one direction passes no lot of the other.                      *)
LEMMA OthersPassed ==
    ASSUME NEW ts, TripsFit(ts), NEW new, NEW direction, NEW lots,
           Passed(ts, direction, lots), new.direction # direction
    PROVE  Passed(Append(ts, new), direction, lots)
<1>1. /\ DOMAIN Append(ts, new) = 1 .. Len(ts) + 1 /\ DOMAIN ts = 1 .. Len(ts)
      /\ \A n \in DOMAIN ts : Append(ts, new)[n] = ts[n]
      /\ Append(ts, new)[Len(ts) + 1] = new /\ Len(ts) \in Nat
  BY Appended DEF TripsFit
<1>2. \A n \in DOMAIN Append(ts, new) : n \in DOMAIN ts \/ n = Len(ts) + 1
  BY <1>1
<1>. QED
  BY <1>1, <1>2 DEF Passed, ClosedIn

LEMMA BuyClosesFits ==
    ASSUME RT!ProperFills, MatchSafe, RT!BuyCloses
    PROVE  MatchSafe'
<1>. DEFINE take == RT!Lesser(hand.qty, Head(shorts).qty)
            new == RT!ClosedTrip("SHORT", Head(shorts), take)
            more == Append(trips, new)
            left == RT!Reduce(shorts, take)
<1>1. /\ mpc = "match" /\ hand.side = "BOT" /\ hand.qty > 0 /\ shorts # <<>>
      /\ trips' = more /\ shorts' = left
      /\ hand' = [hand EXCEPT !.qty = @ - take]
      /\ UNCHANGED <<key, input, fills, longs, mpc>>
  BY DEF RT!BuyCloses
<1>2. /\ take \in Nat /\ 0 < take /\ take <= hand.qty
      /\ TripsFit(more) /\ Passed(more, "SHORT", left) /\ LotsFit(left, "SLD")
  <2>1. SideOf("SHORT") = "SLD"
    BY DEF SideOf
  <2>2. /\ InHand /\ LotsFit(shorts, SideOf("SHORT")) /\ hand.side # SideOf("SHORT")
        /\ TripsFit(trips) /\ Passed(trips, "SHORT", shorts)
    BY <1>1, <2>1 DEF MatchSafe
  <2>. QED
    BY <1>1, <2>1, <2>2, TripAdded
<1>3. new.direction # "LONG"
  BY Zenon DEF RT!ClosedTrip
<1>4. longs = <<>>
  BY <1>1 DEF MatchSafe
<1>. HIDE DEF take, new, left
<1>5. Passed(more, "LONG", longs)
  BY <1>3, OthersPassed DEF MatchSafe
<1>. HIDE DEF more
<1>6. InHand' /\ Onward /\ Taken' \in Nat
  BY <1>1, <1>2, HandLeft DEF MatchSafe
<1>7. /\ LotsFit(longs, "BOT")' /\ LotsFit(shorts, "SLD")' /\ TripsFit(trips)'
      /\ Passed(trips, "LONG", longs)' /\ Passed(trips, "SHORT", shorts)'
  BY <1>1, <1>2, <1>5, <1>6, LotsStay, TripsStay, PassedStay DEF MatchSafe
<1>. QED
  BY <1>1, <1>4, <1>6, <1>7 DEF MatchSafe

LEMMA SaleClosesFits ==
    ASSUME RT!ProperFills, MatchSafe, RT!SaleCloses
    PROVE  MatchSafe'
<1>. DEFINE take == RT!Lesser(hand.qty, Head(longs).qty)
            new == RT!ClosedTrip("LONG", Head(longs), take)
            more == Append(trips, new)
            left == RT!Reduce(longs, take)
<1>1. /\ mpc = "match" /\ hand.side = "SLD" /\ hand.qty > 0 /\ longs # <<>>
      /\ trips' = more /\ longs' = left
      /\ hand' = [hand EXCEPT !.qty = @ - take]
      /\ UNCHANGED <<key, input, fills, shorts, mpc>>
  BY DEF RT!SaleCloses
<1>2. /\ take \in Nat /\ 0 < take /\ take <= hand.qty
      /\ TripsFit(more) /\ Passed(more, "LONG", left) /\ LotsFit(left, "BOT")
  <2>1. SideOf("LONG") = "BOT"
    BY DEF SideOf
  <2>2. /\ InHand /\ LotsFit(longs, SideOf("LONG")) /\ hand.side # SideOf("LONG")
        /\ TripsFit(trips) /\ Passed(trips, "LONG", longs)
    BY <1>1, <2>1 DEF MatchSafe
  <2>. QED
    BY <1>1, <2>1, <2>2, TripAdded
<1>3. new.direction # "SHORT"
  BY Zenon DEF RT!ClosedTrip
<1>4. shorts = <<>>
  BY <1>1 DEF MatchSafe
<1>. HIDE DEF take, new, left
<1>5. Passed(more, "SHORT", shorts)
  BY <1>3, OthersPassed DEF MatchSafe
<1>. HIDE DEF more
<1>6. InHand' /\ Onward /\ Taken' \in Nat
  BY <1>1, <1>2, HandLeft DEF MatchSafe
<1>7. /\ LotsFit(longs, "BOT")' /\ LotsFit(shorts, "SLD")' /\ TripsFit(trips)'
      /\ Passed(trips, "LONG", longs)' /\ Passed(trips, "SHORT", shorts)'
  BY <1>1, <1>2, <1>5, <1>6, LotsStay, TripsStay, PassedStay DEF MatchSafe
<1>. QED
  BY <1>1, <1>4, <1>6, <1>7 DEF MatchSafe

LEMMA HandPut ==
    ASSUME RT!ProperFills, InHand, mpc = "match", UNCHANGED <<key, input, fills>>,
           hand' = RT!NoFill, mpc' = "next"
    PROVE  InHand' /\ Onward /\ Taken' \in Nat
<1>1. Taken \in Nat /\ Taken' = Taken
  BY TakenWhole DEF Taken
<1>2. Onward
  BY <1>1 DEF Onward
<1>3. hand' \in Hands
  BY DEF RT!NoFill, Hands
<1>. QED
  BY <1>1, <1>2, <1>3 DEF InHand

(* A lot that is opened is the youngest of its side.                        *)
LEMMA LotAdded ==
    ASSUME RT!ProperFills, InHand, mpc = "match", mpc' = "next", UNCHANGED input,
           Taken' = Taken, NEW side, hand.side = side, NEW lots, LotsFit(lots, side),
           NEW ts, TripsFit(ts), NEW direction, Passed(ts, direction, lots)
    PROVE  LET more == RT!OpenLot(lots)
           IN /\ Passed(ts, direction, more)
              /\ more \in Seq(Lot)
              /\ \A k \in DOMAIN more : \E i \in DOMAIN input :
                    i <= Taken /\ input[i].side = side /\ LotIs(more[k], i)
              /\ \A k, l \in DOMAIN more : k < l => Elder(more[k], more[l])
<1>. DEFINE more == RT!OpenLot(lots)
<1>1. CASE ~ (hand.qty > 0)
  <2>1. more = lots
    BY <1>1 DEF RT!OpenLot
  <2>. QED
    BY <2>1 DEF LotsFit
<1>2. CASE hand.qty > 0
  <2>1. more = Append(lots, RT!AsLot)
    BY <1>2 DEF RT!OpenLot
  <2>2. Taken \in DOMAIN input /\ Taken <= Taken
    BY DEF InHand, RT!ProperFills, Taken
  <2>3. /\ RT!AsLot.id = input[Taken].id /\ RT!AsLot.price = input[Taken].price
        /\ RT!AsLot.time = input[Taken].time /\ RT!AsLot.qty = hand.qty
        /\ RT!AsLot \in Lot
    <3>1. hand \in Hands
      BY DEF InHand
    <3>2. RT!AsLot \in Lot
      BY <3>1 DEF RT!AsLot, Lot, Hands
    <3>. QED
      BY <3>2 DEF RT!AsLot, InHand
  <2>4. LotIs(RT!AsLot, Taken) /\ input[Taken].side = side
    <3>1. input[Taken].qty \in Nat /\ hand.qty \in 0 .. input[Taken].qty
      BY <2>2, FillTyped DEF InHand
    <3>. QED
      BY <1>2, <2>3, <3>1 DEF LotIs, InHand
  <2>5. /\ more \in Seq(Lot) /\ DOMAIN lots = 1 .. Len(lots) /\ Len(lots) \in Nat
        /\ DOMAIN more = 1 .. Len(lots) + 1 /\ more[Len(lots) + 1] = RT!AsLot
        /\ \A k \in DOMAIN lots : more[k] = lots[k]
    <3>1. lots \in Seq(Lot)
      BY DEF LotsFit
    <3>. QED
      BY <2>1, <2>3, <3>1
  <2>. HIDE DEF more
  <2>6. \A k \in DOMAIN more : (k \in DOMAIN lots /\ k <= Len(lots)) \/ k = Len(lots) + 1
    BY <2>5
  <2>7. \A k \in DOMAIN more : \E i \in DOMAIN input :
           i <= Taken /\ input[i].side = side /\ LotIs(more[k], i)
    <3>1. SUFFICES ASSUME NEW k \in DOMAIN more
                   PROVE  \E i \in DOMAIN input :
                             i <= Taken /\ input[i].side = side /\ LotIs(more[k], i)
      OBVIOUS
    <3>2. CASE k = Len(lots) + 1
      BY <2>2, <2>4, <2>5, <3>2
    <3>3. CASE k # Len(lots) + 1
      BY <2>5, <2>6, <3>3 DEF LotsFit
    <3>. QED
      BY <3>2, <3>3
  <2>8. \A k \in DOMAIN lots : Elder(lots[k], RT!AsLot)
    <3>1. SUFFICES ASSUME NEW k \in DOMAIN lots PROVE Elder(lots[k], RT!AsLot)
      OBVIOUS
    <3>2. PICK i \in DOMAIN input : i < Taken /\ LotIs(lots[k], i)
      BY DEF LotsFit
    <3>3. RT!NotAfter(lots[k].id, RT!AsLot.id)
      BY <2>2, <2>3, <3>2, TakenWhole, Placed DEF LotIs
    <3>4. lots[k].id # RT!AsLot.id
      BY <2>2, <2>3, <3>2 DEF LotIs, RT!ProperFills
    <3>. QED
      BY <3>3, <3>4 DEF Elder
  <2>9. ASSUME NEW k \in DOMAIN more, NEW l \in DOMAIN more, k < l
        PROVE  Elder(more[k], more[l])
    <3>1. k \in DOMAIN lots
      BY <2>5, <2>9
    <3>2. CASE l = Len(lots) + 1
      BY <2>5, <2>8, <3>1, <3>2
    <3>3. CASE l # Len(lots) + 1
      BY <2>5, <2>6, <2>9, <3>1, <3>3 DEF LotsFit
    <3>. QED
      BY <3>2, <3>3
  <2>10. \A n \in ClosedIn(ts) : RT!NotAfter(ts[n].openId, RT!AsLot.id)
    <3>1. SUFFICES ASSUME NEW n \in ClosedIn(ts) PROVE RT!NotAfter(ts[n].openId, RT!AsLot.id)
      OBVIOUS
    <3>2. PICK i \in DOMAIN input, j \in DOMAIN input : j <= Taken /\ RT!TripOf(ts[n], i, j)
      BY DEF TripsFit
    <3>3. i <= Taken /\ ts[n].openId = input[i].id
      BY <2>2, <3>2, TakenWhole DEF RT!TripOf
    <3>. QED
      BY <2>2, <2>3, <3>3, Placed
  <2>11. Passed(ts, direction, more)
    BY <2>5, <2>6, <2>10 DEF Passed
  <2>. QED
    BY <2>5, <2>7, <2>9, <2>11 DEF more
<1>. QED
  BY <1>1, <1>2

LEMMA BuyOpensFits ==
    ASSUME RT!ProperFills, MatchSafe, RT!BuyOpens
    PROVE  MatchSafe'
<1>. DEFINE more == RT!OpenLot(longs)
<1>1. /\ mpc = "match" /\ mpc' = "next" /\ hand.side = "BOT" /\ hand' = RT!NoFill
      /\ longs' = more /\ UNCHANGED <<key, input, fills, shorts, trips>>
  BY DEF RT!BuyOpens
<1>2. InHand' /\ Onward /\ Taken' \in Nat /\ Taken' = Taken
  BY <1>1, HandPut DEF MatchSafe, Taken
<1>3. /\ Passed(trips, "LONG", more) /\ more \in Seq(Lot)
      /\ \A k \in DOMAIN more : \E i \in DOMAIN input :
            i <= Taken /\ input[i].side = "BOT" /\ LotIs(more[k], i)
      /\ \A k, l \in DOMAIN more : k < l => Elder(more[k], more[l])
  BY <1>1, <1>2, LotAdded DEF MatchSafe
<1>4. more = <<>> \/ shorts = <<>>
  BY DEF RT!BuyOpens, RT!NothingToClose, RT!OpenLot, MatchSafe, InHand, Hands
<1>. HIDE DEF more
<1>5. LotsFit(longs, "BOT")'
  BY <1>1, <1>2, <1>3 DEF LotsFit, LotIs, Elder, RT!NotAfter
<1>6. LotsFit(shorts, "SLD")' /\ TripsFit(trips)'
  BY <1>1, <1>2, LotsStay, TripsStay DEF MatchSafe
<1>7. Passed(trips, "LONG", longs)' /\ Passed(trips, "SHORT", shorts)'
  BY <1>1, <1>2, <1>3, PassedStay DEF MatchSafe
<1>. QED
  BY <1>1, <1>2, <1>4, <1>5, <1>6, <1>7 DEF MatchSafe

LEMMA SaleOpensFits ==
    ASSUME RT!ProperFills, MatchSafe, RT!SaleOpens
    PROVE  MatchSafe'
<1>. DEFINE more == RT!OpenLot(shorts)
<1>1. /\ mpc = "match" /\ mpc' = "next" /\ hand.side = "SLD" /\ hand' = RT!NoFill
      /\ shorts' = more /\ UNCHANGED <<key, input, fills, longs, trips>>
  BY DEF RT!SaleOpens
<1>2. InHand' /\ Onward /\ Taken' \in Nat /\ Taken' = Taken
  BY <1>1, HandPut DEF MatchSafe, Taken
<1>3. /\ Passed(trips, "SHORT", more) /\ more \in Seq(Lot)
      /\ \A k \in DOMAIN more : \E i \in DOMAIN input :
            i <= Taken /\ input[i].side = "SLD" /\ LotIs(more[k], i)
      /\ \A k, l \in DOMAIN more : k < l => Elder(more[k], more[l])
  BY <1>1, <1>2, LotAdded DEF MatchSafe
<1>4. more = <<>> \/ longs = <<>>
  BY DEF RT!SaleOpens, RT!NothingToClose, RT!OpenLot, MatchSafe, InHand, Hands
<1>. HIDE DEF more
<1>5. LotsFit(shorts, "SLD")'
  BY <1>1, <1>2, <1>3 DEF LotsFit, LotIs, Elder, RT!NotAfter
<1>6. LotsFit(longs, "BOT")' /\ TripsFit(trips)'
  BY <1>1, <1>2, LotsStay, TripsStay DEF MatchSafe
<1>7. Passed(trips, "LONG", longs)' /\ Passed(trips, "SHORT", shorts)'
  BY <1>1, <1>2, <1>3, PassedStay DEF MatchSafe
<1>. QED
  BY <1>1, <1>2, <1>4, <1>5, <1>6, <1>7 DEF MatchSafe

(* The trips of the lots that are left are not closed ones.                 *)
LEMMA EmitLotsFits ==
    ASSUME RT!ProperFills, MatchSafe, RT!EmitLots
    PROVE  MatchSafe'
<1>. DEFINE bought == [i \in DOMAIN longs |-> RT!emitOpen("LONG", longs[i])]
            sold == [i \in DOMAIN shorts |-> RT!emitOpen("SHORT", shorts[i])]
            more == trips \o bought \o sold
<1>1. /\ trips' = more /\ mpc' = "done"
      /\ UNCHANGED <<key, input, fills, hand, longs, shorts>>
  BY DEF RT!EmitLots
<1>2. \A direction, lot : RT!emitOpen(direction, lot).status # "closed"
  BY DEF RT!emitOpen
<1>. DEFINE S == {trips[n] : n \in DOMAIN trips} \cup {bought[n] : n \in DOMAIN bought}
                     \cup {sold[n] : n \in DOMAIN sold}
<1>3. /\ DOMAIN longs = 1 .. Len(longs) /\ Len(longs) \in Nat
      /\ DOMAIN shorts = 1 .. Len(shorts) /\ Len(shorts) \in Nat
  BY DEF MatchSafe, LotsFit
<1>4. bought \in Seq(S) /\ sold \in Seq(S)
  <2>1. bought \in [1 .. Len(longs) -> S] /\ sold \in [1 .. Len(shorts) -> S]
    BY <1>3
  <2>. QED
    BY <1>3, <2>1
<1>5. trips \in Seq(S)
  <2>1. trips \in Seq({trips[n] : n \in DOMAIN trips})
    BY DEF MatchSafe, TripsFit, IsSeq
  <2>2. \A n \in DOMAIN trips : trips[n] \in S
    OBVIOUS
  <2>. HIDE DEF S
  <2>. QED
    BY <2>1, <2>2
<1>6. /\ more \in Seq(S) /\ DOMAIN trips \subseteq DOMAIN more /\ DOMAIN more \subseteq Int
      /\ \A n \in DOMAIN trips : more[n] = trips[n]
      /\ \A n \in DOMAIN more : n \in DOMAIN trips \/ more[n].status # "closed"
  <2>1. /\ \A n \in DOMAIN bought : bought[n].status # "closed"
        /\ \A n \in DOMAIN sold : sold[n].status # "closed"
    BY <1>2
  <2>. HIDE DEF S, bought, sold
  <2>. DEFINE most == trips \o bought
  <2>2. /\ most \in Seq(S) /\ DOMAIN trips \subseteq DOMAIN most
        /\ \A n \in DOMAIN trips : most[n] = trips[n]
        /\ \A n \in DOMAIN most : n \in DOMAIN trips \/ most[n].status # "closed"
    BY <1>4, <1>5, <2>1
  <2>3. more = most \o sold
    OBVIOUS
  <2>. HIDE DEF most, more
  <2>4. /\ more \in Seq(S) /\ DOMAIN most \subseteq DOMAIN more /\ DOMAIN more \subseteq Int
        /\ \A n \in DOMAIN most : more[n] = most[n]
        /\ \A n \in DOMAIN more : n \in DOMAIN most \/ more[n].status # "closed"
    BY <1>4, <2>1, <2>2, <2>3
  <2>. QED
    BY <2>2, <2>4
<1>. HIDE DEF more, S, bought, sold
<1>7. ClosedIn(more) = ClosedIn(trips) /\ \A n \in ClosedIn(trips) : more[n] = trips[n]
  BY <1>6 DEF ClosedIn
<1>8. IsSeq(more)
  BY <1>6, SeqOfItself
<1>9. TripsFit(more)
  BY <1>7, <1>8, Zenon DEF TripsFit, MatchSafe
<1>10. Passed(more, "LONG", longs) /\ Passed(more, "SHORT", shorts)
  BY <1>7 DEF Passed, MatchSafe
<1>11. Taken \in Nat /\ Taken' = Taken /\ Onward
  BY <1>1, TakenWhole DEF MatchSafe, Taken, Onward
<1>12. InHand'
  BY <1>1, <1>11 DEF MatchSafe, InHand
<1>. QED
  BY <1>1, <1>9, <1>10, <1>11, <1>12, LotsStay, TripsStay, PassedStay DEF MatchSafe

LEMMA MatchInit == JournalsInit /\ RT!ProperFills => MatchSafe
<1>1. SUFFICES ASSUME JournalsInit, RT!ProperFills PROVE MatchSafe
  OBVIOUS
<1>2. /\ fills = input /\ hand = RT!NoFill
      /\ longs = <<>> /\ shorts = <<>> /\ trips = <<>> /\ mpc # "match"
  <2>1. CASE which = "match"
    BY <1>1, <2>1 DEF JournalsInit, RT!MatchInit, RT!Start
  <2>2. CASE which # "match"
    BY <1>1, <2>2 DEF JournalsInit, NoMatch
  <2>. QED
    BY <2>1, <2>2
<1>3. Taken = 0 /\ Len(input) \in Nat
  BY <1>1, <1>2 DEF Taken, RT!ProperFills
<1>4. InHand
  BY <1>1, <1>2, <1>3 DEF InHand, RT!ProperFills, RT!NoFill, Hands
<1>5. LotsFit(longs, "BOT") /\ LotsFit(shorts, "SLD")
  BY <1>2 DEF LotsFit
<1>6. TripsFit(trips) /\ Passed(trips, "LONG", longs) /\ Passed(trips, "SHORT", shorts)
  BY <1>2 DEF TripsFit, IsSeq, ClosedIn, Passed
<1>. QED
  BY <1>2, <1>4, <1>5, <1>6 DEF MatchSafe

LEMMA MatchStep ==
    (RT!ProperFills => MatchSafe) /\ [JournalsNext]_allVars => (RT!ProperFills => MatchSafe)'
<1>1. SUFFICES ASSUME RT!ProperFills => MatchSafe, [JournalsNext]_allVars, RT!ProperFills'
               PROVE  MatchSafe'
  OBVIOUS
<1>2. CASE UNCHANGED matchVars
  <2>1. RT!ProperFills
    BY <1>1, <1>2 DEF matchVars, RT!ProperFills
  <2>2. MatchSafe /\ Taken' = Taken /\ Taken \in Nat
    BY <1>1, <1>2, <2>1, TakenWhole DEF matchVars, MatchSafe, Taken
  <2>3. InHand' /\ Onward
    BY <1>2, <2>2 DEF matchVars, MatchSafe, InHand, Onward
  <2>. QED
    BY <1>2, <2>1, <2>2, <2>3, LotsStay, TripsStay, PassedStay DEF matchVars, MatchSafe
<1>3. CASE RT!MatchNext
  <2>1. UNCHANGED input
    BY <1>3 DEF RT!MatchNext, RT!Next, RT!TakeFill, RT!BuyCloses, RT!SaleCloses,
                RT!BuyOpens, RT!SaleOpens, RT!EmitLots
  <2>2. RT!ProperFills
    BY <1>1, <2>1 DEF RT!ProperFills
  <2>. QED
    BY <1>1, <1>3, <2>2, TakeFillFits, BuyClosesFits, SaleClosesFits, BuyOpensFits,
       SaleOpensFits, EmitLotsFits DEF RT!MatchNext, RT!Next
<1>. QED
  BY <1>1, <1>2, <1>3
     DEF JournalsNext, Trading, Scanning, Judging, Matching, allVars, matchVars

-----------------------------------------------------------------------------
(* Units of the fills. *)

Touching(ts, id) == {n \in DOMAIN ts : id \in {ts[n].openId, ts[n].closeId}}

UnitsIn(ts, id) == SumFunctionOnSet([n \in DOMAIN ts |-> ts[n].qty], Touching(ts, id))

LEMMA UnitsAreOfTrips == \A id : RT!Units(id) = UnitsIn(trips, id)
BY Zenon DEF RT!Units, UnitsIn, Touching, RT!SumFunctionOnSet, SumFunctionOnSet, RT!FoldFunctionOnSet,
       FoldFunctionOnSet, RT!MapThenFoldSet, MapThenFoldSet

(* What new trips add to the units of a fill.                               *)
LEMMA UnitsGrow ==
    ASSUME NEW ts, IsSeq(ts), NEW more, IsSeq(more), DOMAIN ts \subseteq DOMAIN more,
           \A n \in DOMAIN ts : more[n] = ts[n], \A n \in DOMAIN more : more[n].qty \in Int,
           NEW id
    PROVE  /\ UnitsIn(ts, id) \in Int
           /\ Touching(more, id) \subseteq DOMAIN ts => UnitsIn(more, id) = UnitsIn(ts, id)
           /\ \A y \in Touching(more, id) \ DOMAIN ts :
                 Touching(more, id) \subseteq DOMAIN ts \cup {y}
                     => UnitsIn(more, id) = UnitsIn(ts, id) + more[y].qty
<1>. DEFINE f == [n \in DOMAIN ts |-> ts[n].qty]
            e == [n \in DOMAIN more |-> more[n].qty]
            T == Touching(ts, id)
            U == Touching(more, id)
<1>1. /\ IsFiniteSet(T) /\ T \subseteq U /\ T \subseteq DOMAIN ts
      /\ \A n \in T : f[n] = e[n] /\ e[n] \in Int
      /\ \A n \in U : e[n] = more[n].qty
      /\ \A n \in U : n \in DOMAIN ts => n \in T
  <2>1. DOMAIN ts = 1 .. Len(ts) /\ Len(ts) \in Nat
    BY DEF IsSeq
  <2>2. IsFiniteSet(DOMAIN ts)
    BY <2>1, FS_Interval
  <2>3. T \subseteq DOMAIN ts
    BY DEF Touching
  <2>4. IsFiniteSet(T)
    BY <2>2, <2>3, FS_Subset
  <2>. QED
    BY <2>3, <2>4 DEF Touching
<1>2. /\ UnitsIn(ts, id) = SumFunctionOnSet(f, T)
      /\ UnitsIn(more, id) = SumFunctionOnSet(e, U)
  BY DEF UnitsIn
<1>. HIDE DEF f, e, T
<1>3. SumFunctionOnSet(f, T) = SumFunctionOnSet(e, T) /\ SumFunctionOnSet(e, T) \in Int
  BY <1>1, SumOfSame, SumIsNumber
<1>4. U \subseteq DOMAIN ts => U = T
  BY <1>1
<1>5. ASSUME NEW y \in U \ DOMAIN ts, U \subseteq DOMAIN ts \cup {y}
      PROVE  SumFunctionOnSet(e, U) = SumFunctionOnSet(e, T) + e[y]
  <2>1. U = T \cup {y} /\ y \notin T
    BY <1>1, <1>5
  <2>2. \A n \in T \cup {y} : e[n] \in Int
    BY <1>1, <1>5 DEF Touching
  <2>. HIDE DEF U
  <2>. QED
    BY <1>1, <2>1, <2>2, SumOfMore
<1>. QED
  BY <1>1, <1>2, <1>3, <1>4, <1>5

(* What is left of a fill that was taken is at hand or one lot.             *)
AreUnits(ts) == \A n \in DOMAIN ts : ts[n].qty \in Int

Account(ts, lots) ==
    \A i \in DOMAIN input : \A k \in DOMAIN lots :
        lots[k].id = input[i].id => UnitsIn(ts, input[i].id) + lots[k].qty = input[i].qty

Gone(lots, id) == \A k \in DOMAIN lots : lots[k].id # id

UnitsFit ==
    /\ AreUnits(trips)
    /\ mpc = "done" => fills = <<>>
    /\ mpc # "done" => Account(trips, longs) /\ Account(trips, shorts)
    /\ \A i \in DOMAIN input :
          /\ i > Taken => UnitsIn(trips, input[i].id) = 0
          /\ mpc = "match" /\ i = Taken
                => UnitsIn(trips, input[i].id) + hand.qty = input[i].qty
          /\ /\ i <= Taken /\ (mpc = "match" => i # Taken)
             /\ mpc = "done" \/ (Gone(longs, input[i].id) /\ Gone(shorts, input[i].id))
             => UnitsIn(trips, input[i].id) = input[i].qty

LEMMA UnitsAppended ==
    ASSUME NEW ts, IsSeq(ts), AreUnits(ts), NEW new, new.qty \in Int, NEW id
    PROVE  /\ UnitsIn(ts, id) \in Int /\ AreUnits(Append(ts, new))
           /\ id \in {new.openId, new.closeId}
                 => UnitsIn(Append(ts, new), id) = UnitsIn(ts, id) + new.qty
           /\ id \notin {new.openId, new.closeId}
                 => UnitsIn(Append(ts, new), id) = UnitsIn(ts, id)
<1>. DEFINE more == Append(ts, new)
            N == Len(ts) + 1
<1>1. /\ IsSeq(more) /\ DOMAIN more = 1 .. N /\ \A n \in DOMAIN ts : more[n] = ts[n]
      /\ more[N] = new /\ DOMAIN ts = 1 .. Len(ts) /\ Len(ts) \in Nat
  BY Appended
<1>. HIDE DEF more
<1>2. /\ DOMAIN ts \subseteq DOMAIN more /\ N \in DOMAIN more /\ N \notin DOMAIN ts
      /\ DOMAIN more = DOMAIN ts \cup {N}
  BY <1>1
<1>. HIDE DEF N
<1>3. AreUnits(more)
  BY <1>1, <1>2 DEF AreUnits
<1>4. Touching(more, id) \subseteq DOMAIN ts \cup {N}
  BY <1>2 DEF Touching
<1>5. id \in {new.openId, new.closeId} => N \in Touching(more, id) \ DOMAIN ts
  BY <1>1, <1>2 DEF Touching
<1>6. id \notin {new.openId, new.closeId} => Touching(more, id) \subseteq DOMAIN ts
  BY <1>1, <1>2 DEF Touching
<1>7. \A n \in DOMAIN more : more[n].qty \in Int
  BY <1>3 DEF AreUnits
<1>8. /\ UnitsIn(ts, id) \in Int
      /\ Touching(more, id) \subseteq DOMAIN ts => UnitsIn(more, id) = UnitsIn(ts, id)
      /\ \A y \in Touching(more, id) \ DOMAIN ts :
            Touching(more, id) \subseteq DOMAIN ts \cup {y}
                => UnitsIn(more, id) = UnitsIn(ts, id) + more[y].qty
  BY <1>1, <1>2, <1>7, UnitsGrow
<1>9. id \in {new.openId, new.closeId} => UnitsIn(more, id) = UnitsIn(ts, id) + new.qty
  BY <1>1, <1>4, <1>5, <1>8
<1>. QED
  BY <1>3, <1>6, <1>8, <1>9 DEF more

LEMMA ClosingAccounts ==
    ASSUME RT!ProperFills, InHand, mpc = "match",
           NEW direction \in {"LONG", "SHORT"}, NEW lots, LotsFit(lots, SideOf(direction)),
           NEW ts, TripsFit(ts), Passed(ts, direction, lots), AreUnits(ts), Account(ts, lots),
           hand.side # SideOf(direction), hand.qty > 0, lots # <<>>,
           NEW take, take = RT!Lesser(hand.qty, Head(lots).qty)
    PROVE  LET more == Append(ts, RT!ClosedTrip(direction, Head(lots), take))
               left == RT!Reduce(lots, take)
           IN /\ AreUnits(more) /\ Account(more, left)
              /\ UnitsIn(more, hand.id) = UnitsIn(ts, hand.id) + take
              /\ UnitsIn(ts, hand.id) \in Int /\ take \in Int
              /\ \A i \in DOMAIN input : i # Taken =>
                    /\ i > Taken => UnitsIn(more, input[i].id) = UnitsIn(ts, input[i].id)
                    /\ Gone(left, input[i].id) =>
                          IF Gone(lots, input[i].id)
                          THEN UnitsIn(more, input[i].id) = UnitsIn(ts, input[i].id)
                          ELSE UnitsIn(more, input[i].id) = input[i].qty
<1>. DEFINE new == RT!ClosedTrip(direction, Head(lots), take)
            more == Append(ts, new)
            left == RT!Reduce(lots, take)
<1>1. /\ take \in Nat /\ 0 < take /\ take <= hand.qty
      /\ take <= lots[1].qty /\ lots[1].qty \in Nat /\ 1 \in DOMAIN lots /\ Head(lots) = lots[1]
  <2>1. Head(lots) = lots[1] /\ 1 \in DOMAIN lots /\ lots[1] \in Lot
    BY DEF LotsFit
  <2>2. lots[1].qty \in Nat /\ hand.qty \in Nat
    BY <2>1 DEF Lot, InHand, Hands
  <2>3. take \in Nat /\ 0 < take /\ take <= hand.qty
    BY TripAdded
  <2>4. take <= lots[1].qty
    BY <2>1, <2>2 DEF RT!Lesser
  <2>. QED
    BY <2>1, <2>2, <2>3, <2>4
<1>2. new.openId = lots[1].id /\ new.closeId = hand.id /\ new.qty = take
  BY <1>1, Zenon DEF RT!ClosedTrip
<1>. HIDE DEF new
<1>3. /\ LeftOf(left, lots, take)
      /\ LotsFit(left, SideOf(direction))
  BY <1>1, Reduced
<1>. HIDE DEF left
<1>4. \A id : /\ UnitsIn(ts, id) \in Int /\ AreUnits(more)
              /\ id \in {lots[1].id, hand.id} => UnitsIn(more, id) = UnitsIn(ts, id) + take
              /\ id \notin {lots[1].id, hand.id} => UnitsIn(more, id) = UnitsIn(ts, id)
  <2>1. IsSeq(ts) /\ new.qty \in Int
    BY <1>1, <1>2 DEF TripsFit
  <2>. QED
    BY <1>2, <2>1, UnitsAppended
<1>. HIDE DEF more
<1>5. /\ Taken \in DOMAIN input /\ hand.id = input[Taken].id /\ Taken \in Nat
      /\ \A i, j \in DOMAIN input : input[i].id = input[j].id => i = j
      /\ DOMAIN input \subseteq Nat
  <2>1. \A i, j \in DOMAIN input : input[i].id = input[j].id => i = j
    BY TakenWhole DEF RT!ProperFills
  <2>2. Taken \in DOMAIN input /\ hand.id = input[Taken].id
    BY DEF InHand, RT!ProperFills, Taken
  <2>. QED
    BY <2>1, <2>2, TakenWhole
<1>6. \A l \in DOMAIN lots : lots[l].qty \in Nat /\ lots[l].id # hand.id
  <2>1. SUFFICES ASSUME NEW l \in DOMAIN lots PROVE lots[l].qty \in Nat /\ lots[l].id # hand.id
    OBVIOUS
  <2>2. PICK i \in DOMAIN input : i < Taken /\ LotIs(lots[l], i)
    BY DEF LotsFit
  <2>3. lots[l].id # hand.id
    BY <1>5, <2>2 DEF LotIs
  <2>4. lots[l] \in Lot
    BY DEF LotsFit
  <2>5. \A lot \in Lot : lot.qty \in Nat
    BY DEF Lot
  <2>. QED
    BY <2>3, <2>4, <2>5
<1>7. \A l \in DOMAIN lots : l # 1 => lots[l].id # lots[1].id
  <2>1. \A l \in DOMAIN lots : l # 1 => 1 < l
    BY DEF LotsFit
  <2>. QED
    BY <1>1, <2>1 DEF LotsFit, Elder
<1>8. Account(more, left)
  <2>1. SUFFICES ASSUME NEW i \in DOMAIN input, NEW k \in DOMAIN left, left[k].id = input[i].id
                 PROVE  UnitsIn(more, input[i].id) + left[k].qty = input[i].qty
    BY DEF Account
  <2>2. PICK l \in DOMAIN lots : /\ left[k].id = lots[l].id
                                 /\ left[k].qty = lots[l].qty - (IF l = 1 THEN take ELSE 0)
    BY <1>3 DEF LeftOf
  <2>3. UnitsIn(ts, input[i].id) + lots[l].qty = input[i].qty
    BY <2>1, <2>2 DEF Account
  <2>4. UnitsIn(ts, input[i].id) \in Int /\ lots[l].qty \in Nat
    BY <1>4, <1>6
  <2>5. CASE l = 1
    <3>1. UnitsIn(more, input[i].id) = UnitsIn(ts, input[i].id) + take
      BY <1>4, <2>1, <2>2, <2>5
    <3>. QED
      BY <1>1, <2>2, <2>3, <2>4, <2>5, <3>1
  <2>6. CASE l # 1
    <3>1. UnitsIn(more, input[i].id) = UnitsIn(ts, input[i].id)
      BY <1>4, <1>6, <1>7, <2>1, <2>2, <2>6
    <3>. QED
      BY <1>1, <2>2, <2>3, <2>4, <2>6, <3>1
  <2>. QED
    BY <2>5, <2>6
<1>9. ASSUME NEW i \in DOMAIN input, i # Taken
      PROVE  /\ Gone(lots, input[i].id) => UnitsIn(more, input[i].id) = UnitsIn(ts, input[i].id)
             /\ Gone(left, input[i].id) /\ ~ Gone(lots, input[i].id)
                  => UnitsIn(more, input[i].id) = input[i].qty
             /\ i > Taken => UnitsIn(more, input[i].id) = UnitsIn(ts, input[i].id)
  <2>1. input[i].id # hand.id
    BY <1>5, <1>9
  <2>2. Gone(lots, input[i].id) => UnitsIn(more, input[i].id) = UnitsIn(ts, input[i].id)
    BY <1>1, <1>4, <2>1 DEF Gone
  <2>3. ASSUME Gone(left, input[i].id), ~ Gone(lots, input[i].id)
        PROVE  UnitsIn(more, input[i].id) = input[i].qty
    <3>1. PICK l \in DOMAIN lots : lots[l].id = input[i].id
      BY <2>3 DEF Gone
    <3>2. l = 1 /\ lots[1].qty = take
      BY <1>3, <2>3, <3>1 DEF Gone, LeftOf
    <3>3. UnitsIn(ts, input[i].id) + take = input[i].qty
      BY <3>1, <3>2 DEF Account
    <3>. QED
      BY <1>4, <3>1, <3>2, <3>3
  <2>4. ASSUME i > Taken PROVE Gone(lots, input[i].id)
    <3>1. SUFFICES ASSUME NEW k \in DOMAIN lots, lots[k].id = input[i].id PROVE FALSE
      BY DEF Gone
    <3>2. PICK j \in DOMAIN input : j < Taken /\ LotIs(lots[k], j)
      BY DEF LotsFit
    <3>3. j = i
      BY <1>5, <3>1, <3>2 DEF LotIs
    <3>. QED
      BY <1>5, <2>4, <3>2, <3>3
  <2>. QED
    BY <2>2, <2>3, <2>4
<1>. QED
  BY <1>1, <1>4, <1>8, <1>9 DEF more, left, new

LEMMA BuyClosesAccounts ==
    ASSUME RT!ProperFills, MatchSafe, UnitsFit, RT!BuyCloses
    PROVE  UnitsFit'
<1>. DEFINE take == RT!Lesser(hand.qty, Head(shorts).qty)
            more == Append(trips, RT!ClosedTrip("SHORT", Head(shorts), take))
            left == RT!Reduce(shorts, take)
<1>1. /\ mpc = "match" /\ hand.side = "BOT" /\ hand.qty > 0 /\ shorts # <<>>
      /\ trips' = more /\ shorts' = left
      /\ hand' = [hand EXCEPT !.qty = @ - take]
      /\ UNCHANGED <<key, input, fills, longs, mpc>> /\ longs = <<>>
  BY DEF RT!BuyCloses, MatchSafe
<1>2. /\ AreUnits(more) /\ Account(more, left)
      /\ UnitsIn(more, hand.id) = UnitsIn(trips, hand.id) + take
      /\ UnitsIn(trips, hand.id) \in Int /\ take \in Int
      /\ \A i \in DOMAIN input : i # Taken =>
            /\ i > Taken => UnitsIn(more, input[i].id) = UnitsIn(trips, input[i].id)
            /\ Gone(left, input[i].id) =>
                  IF Gone(shorts, input[i].id)
                  THEN UnitsIn(more, input[i].id) = UnitsIn(trips, input[i].id)
                  ELSE UnitsIn(more, input[i].id) = input[i].qty
  <2>1. SideOf("SHORT") = "SLD"
    BY DEF SideOf
  <2>2. /\ InHand /\ LotsFit(shorts, SideOf("SHORT")) /\ hand.side # SideOf("SHORT")
        /\ TripsFit(trips) /\ Passed(trips, "SHORT", shorts)
        /\ AreUnits(trips) /\ Account(trips, shorts)
    BY <1>1, <2>1 DEF MatchSafe, UnitsFit
  <2>. QED
    BY <1>1, <2>1, <2>2, ClosingAccounts
<1>. HIDE DEF take, left, more
<1>3. /\ Taken \in Nat /\ Taken' = Taken /\ DOMAIN input \subseteq Nat
      /\ hand.id = input[Taken].id /\ hand.qty \in Nat
      /\ hand'.qty = hand.qty - take
  BY <1>1, <1>2, TakenWhole DEF MatchSafe, Taken, InHand, Hands
<1>4. AreUnits(trips)' /\ Account(trips, longs)' /\ Account(trips, shorts)'
  BY <1>1, <1>2 DEF AreUnits, Account
<1>5. \A id : Gone(longs, id)
  BY <1>1 DEF Gone
<1>6. ASSUME NEW i \in DOMAIN input
      PROVE  /\ i > Taken => UnitsIn(more, input[i].id) = 0
             /\ i = Taken => UnitsIn(more, input[i].id) + hand'.qty = input[i].qty
             /\ i <= Taken /\ i # Taken /\ Gone(left, input[i].id)
                  => UnitsIn(more, input[i].id) = input[i].qty
  <2>1. i > Taken => UnitsIn(more, input[i].id) = 0
    BY <1>2, <1>3 DEF UnitsFit
  <2>2. i = Taken => UnitsIn(more, input[i].id) + hand'.qty = input[i].qty
    <3>1. i = Taken => UnitsIn(trips, hand.id) + hand.qty = input[i].qty
      BY <1>1, <1>3 DEF UnitsFit
    <3>. QED
      BY <1>2, <1>3, <3>1
  <2>3. i <= Taken /\ i # Taken /\ Gone(left, input[i].id)
                  => UnitsIn(more, input[i].id) = input[i].qty
    BY <1>1, <1>2, <1>5 DEF UnitsFit
  <2>. QED
    BY <2>1, <2>2, <2>3
<1>. QED
  BY <1>1, <1>3, <1>4, <1>6 DEF UnitsFit, Gone

LEMMA SaleClosesAccounts ==
    ASSUME RT!ProperFills, MatchSafe, UnitsFit, RT!SaleCloses
    PROVE  UnitsFit'
<1>. DEFINE take == RT!Lesser(hand.qty, Head(longs).qty)
            more == Append(trips, RT!ClosedTrip("LONG", Head(longs), take))
            left == RT!Reduce(longs, take)
<1>1. /\ mpc = "match" /\ hand.side = "SLD" /\ hand.qty > 0 /\ longs # <<>>
      /\ trips' = more /\ longs' = left
      /\ hand' = [hand EXCEPT !.qty = @ - take]
      /\ UNCHANGED <<key, input, fills, shorts, mpc>> /\ shorts = <<>>
  BY DEF RT!SaleCloses, MatchSafe
<1>2. /\ AreUnits(more) /\ Account(more, left)
      /\ UnitsIn(more, hand.id) = UnitsIn(trips, hand.id) + take
      /\ UnitsIn(trips, hand.id) \in Int /\ take \in Int
      /\ \A i \in DOMAIN input : i # Taken =>
            /\ i > Taken => UnitsIn(more, input[i].id) = UnitsIn(trips, input[i].id)
            /\ Gone(left, input[i].id) =>
                  IF Gone(longs, input[i].id)
                  THEN UnitsIn(more, input[i].id) = UnitsIn(trips, input[i].id)
                  ELSE UnitsIn(more, input[i].id) = input[i].qty
  <2>1. SideOf("LONG") = "BOT"
    BY DEF SideOf
  <2>2. /\ InHand /\ LotsFit(longs, SideOf("LONG")) /\ hand.side # SideOf("LONG")
        /\ TripsFit(trips) /\ Passed(trips, "LONG", longs)
        /\ AreUnits(trips) /\ Account(trips, longs)
    BY <1>1, <2>1 DEF MatchSafe, UnitsFit
  <2>. QED
    BY <1>1, <2>1, <2>2, ClosingAccounts
<1>. HIDE DEF take, left, more
<1>3. /\ Taken \in Nat /\ Taken' = Taken /\ DOMAIN input \subseteq Nat
      /\ hand.id = input[Taken].id /\ hand.qty \in Nat
      /\ hand'.qty = hand.qty - take
  BY <1>1, <1>2, TakenWhole DEF MatchSafe, Taken, InHand, Hands
<1>4. AreUnits(trips)' /\ Account(trips, longs)' /\ Account(trips, shorts)'
  BY <1>1, <1>2 DEF AreUnits, Account
<1>5. \A id : Gone(shorts, id)
  BY <1>1 DEF Gone
<1>6. ASSUME NEW i \in DOMAIN input
      PROVE  /\ i > Taken => UnitsIn(more, input[i].id) = 0
             /\ i = Taken => UnitsIn(more, input[i].id) + hand'.qty = input[i].qty
             /\ i <= Taken /\ i # Taken /\ Gone(left, input[i].id)
                  => UnitsIn(more, input[i].id) = input[i].qty
  <2>1. i > Taken => UnitsIn(more, input[i].id) = 0
    BY <1>2, <1>3 DEF UnitsFit
  <2>2. i = Taken => UnitsIn(more, input[i].id) + hand'.qty = input[i].qty
    <3>1. i = Taken => UnitsIn(trips, hand.id) + hand.qty = input[i].qty
      BY <1>1, <1>3 DEF UnitsFit
    <3>. QED
      BY <1>2, <1>3, <3>1
  <2>3. i <= Taken /\ i # Taken /\ Gone(left, input[i].id)
                  => UnitsIn(more, input[i].id) = input[i].qty
    BY <1>1, <1>2, <1>5 DEF UnitsFit
  <2>. QED
    BY <2>1, <2>2, <2>3
<1>. QED
  BY <1>1, <1>3, <1>4, <1>6 DEF UnitsFit, Gone

LEMMA TakeFillAccounts ==
    ASSUME RT!ProperFills, MatchSafe, UnitsFit, RT!TakeFill
    PROVE  UnitsFit'
<1>1. /\ fills \in Seq(RT!Fills) /\ fills # <<>> /\ Len(fills) \in Nat /\ Len(fills) > 0
      /\ fills' = Tail(fills) /\ hand' = Head(fills) /\ mpc = "next" /\ mpc' = "match"
      /\ UNCHANGED <<key, input, longs, shorts, trips>>
  BY DEF RT!TakeFill, MatchSafe, InHand
<1>2. Taken \in Nat /\ Taken' = Taken + 1 /\ DOMAIN input \subseteq Nat
  BY <1>1, TakenWhole DEF MatchSafe, Taken
<1>3. hand' = input[Taken + 1] /\ Taken + 1 \in DOMAIN input
  BY <1>1, TakenWhole DEF MatchSafe, InHand, RT!ProperFills, Taken
<1>4. AreUnits(trips)' /\ Account(trips, longs)' /\ Account(trips, shorts)'
  BY <1>1 DEF UnitsFit, AreUnits, Account
<1>5. ASSUME NEW i \in DOMAIN input
      PROVE  /\ i > Taken + 1 => UnitsIn(trips, input[i].id) = 0
             /\ i = Taken + 1 => UnitsIn(trips, input[i].id) + hand'.qty = input[i].qty
             /\ /\ i <= Taken + 1 /\ i # Taken + 1
                /\ Gone(longs, input[i].id) /\ Gone(shorts, input[i].id)
                => UnitsIn(trips, input[i].id) = input[i].qty
  <2>1. i > Taken => UnitsIn(trips, input[i].id) = 0
    BY DEF UnitsFit
  <2>2. i = Taken + 1 => UnitsIn(trips, input[i].id) + hand'.qty = input[i].qty
    <3>1. input[Taken + 1].qty \in Nat
      BY <1>3, FillTyped
    <3>. QED
      BY <1>2, <1>3, <2>1, <3>1
  <2>. QED
    BY <1>1, <1>2, <2>1, <2>2 DEF UnitsFit
<1>. QED
  BY <1>1, <1>2, <1>4, <1>5 DEF UnitsFit, Gone

LEMMA UnitsAreIntegers ==
    ASSUME NEW ts, IsSeq(ts), AreUnits(ts), NEW id
    PROVE  UnitsIn(ts, id) \in Int
BY UnitsGrow DEF AreUnits

(* A fill that closes nothing more is one lot more, or used up.             *)
LEMMA OpeningAccounts ==
    ASSUME RT!ProperFills, InHand, mpc = "match", NEW side, NEW lots, LotsFit(lots, side),
           NEW ts, Account(ts, lots), UnitsIn(ts, hand.id) + hand.qty = input[Taken].qty
    PROVE  LET more == RT!OpenLot(lots)
           IN /\ Account(ts, more)
              /\ \A id : Gone(more, id) => Gone(lots, id)
              /\ Gone(more, hand.id) => hand.qty = 0
<1>. DEFINE more == RT!OpenLot(lots)
<1>1. hand.qty \in Nat
  BY DEF InHand, Hands
<1>2. CASE ~ (hand.qty > 0)
  <2>1. more = lots /\ hand.qty = 0
    BY <1>1, <1>2 DEF RT!OpenLot
  <2>. QED
    BY <2>1
<1>3. CASE hand.qty > 0
  <2>1. more = Append(lots, RT!AsLot) /\ RT!AsLot.id = hand.id /\ RT!AsLot.qty = hand.qty
    BY <1>3 DEF RT!OpenLot, RT!AsLot
  <2>2. /\ DOMAIN lots = 1 .. Len(lots) /\ Len(lots) \in Nat
        /\ DOMAIN more = 1 .. Len(lots) + 1 /\ more[Len(lots) + 1] = RT!AsLot
        /\ \A k \in DOMAIN lots : more[k] = lots[k]
    <3>1. lots \in Seq(Lot) /\ RT!AsLot \in Lot
      BY DEF LotsFit, InHand, Hands, RT!AsLot, Lot
    <3>. QED
      BY <2>1, <3>1
  <2>. HIDE DEF more
  <2>3. \A k \in DOMAIN more : k \in DOMAIN lots \/ k = Len(lots) + 1
    BY <2>2
  <2>4. Len(lots) + 1 \in DOMAIN more /\ DOMAIN lots \subseteq DOMAIN more
    BY <2>2
  <2>5. /\ \A id : Gone(more, id) => Gone(lots, id)
        /\ ~ Gone(more, hand.id)
    BY <2>1, <2>2, <2>4 DEF Gone
  <2>6. ASSUME NEW i \in DOMAIN input, NEW k \in DOMAIN more, more[k].id = input[i].id
        PROVE  UnitsIn(ts, input[i].id) + more[k].qty = input[i].qty
    <3>1. CASE k \in DOMAIN lots
      BY <2>2, <2>6, <3>1 DEF Account
    <3>2. CASE k = Len(lots) + 1
      <4>1. /\ Taken \in DOMAIN input /\ hand.id = input[Taken].id
            /\ \A p, q \in DOMAIN input : input[p].id = input[q].id => p = q
        BY TakenWhole DEF InHand, RT!ProperFills, Taken
      <4>2. more[k].id = hand.id /\ more[k].qty = hand.qty
        BY <2>1, <2>2, <3>2
      <4>3. i = Taken
        BY <2>6, <4>1, <4>2
      <4>. QED
        BY <4>1, <4>2, <4>3
    <3>. QED
      BY <2>3, <3>1, <3>2
  <2>. QED
    BY <2>5, <2>6 DEF Account, more
<1>. QED
  BY <1>2, <1>3

LEMMA BuyOpensAccounts ==
    ASSUME RT!ProperFills, MatchSafe, UnitsFit, RT!BuyOpens
    PROVE  UnitsFit'
<1>. DEFINE more == RT!OpenLot(longs)
<1>1. /\ mpc = "match" /\ mpc' = "next" /\ longs' = more
      /\ UNCHANGED <<key, input, fills, shorts, trips>>
  BY DEF RT!BuyOpens
<1>2. /\ Taken \in Nat /\ Taken' = Taken /\ DOMAIN input \subseteq Nat
      /\ Taken \in DOMAIN input /\ hand.id = input[Taken].id
  BY <1>1, TakenWhole DEF MatchSafe, Taken, InHand, RT!ProperFills
<1>3. UnitsIn(trips, hand.id) + hand.qty = input[Taken].qty
  BY <1>1, <1>2 DEF UnitsFit
<1>4. /\ Account(trips, more)
      /\ \A id : Gone(more, id) => Gone(longs, id)
      /\ Gone(more, hand.id) => hand.qty = 0
  BY <1>1, <1>3, OpeningAccounts DEF MatchSafe, UnitsFit
<1>. HIDE DEF more
<1>5. AreUnits(trips)' /\ Account(trips, longs)' /\ Account(trips, shorts)'
  BY <1>1, <1>4 DEF UnitsFit, AreUnits, Account
<1>6. UnitsIn(trips, hand.id) \in Int
  BY UnitsAreIntegers DEF UnitsFit, MatchSafe, TripsFit
<1>7. ASSUME NEW i \in DOMAIN input
      PROVE  /\ i > Taken => UnitsIn(trips, input[i].id) = 0
             /\ i <= Taken /\ Gone(more, input[i].id) /\ Gone(shorts, input[i].id)
                => UnitsIn(trips, input[i].id) = input[i].qty
  <2>1. i > Taken => UnitsIn(trips, input[i].id) = 0
    BY DEF UnitsFit
  <2>2. CASE i = Taken
    BY <1>2, <1>3, <1>4, <1>6, <2>2
  <2>3. CASE i # Taken
    BY <1>1, <1>4, <2>1, <2>3 DEF UnitsFit
  <2>. QED
    BY <1>2, <2>2, <2>3
<1>. QED
  BY <1>1, <1>2, <1>5, <1>7 DEF UnitsFit, Gone

LEMMA SaleOpensAccounts ==
    ASSUME RT!ProperFills, MatchSafe, UnitsFit, RT!SaleOpens
    PROVE  UnitsFit'
<1>. DEFINE more == RT!OpenLot(shorts)
<1>1. /\ mpc = "match" /\ mpc' = "next" /\ shorts' = more
      /\ UNCHANGED <<key, input, fills, longs, trips>>
  BY DEF RT!SaleOpens
<1>2. /\ Taken \in Nat /\ Taken' = Taken /\ DOMAIN input \subseteq Nat
      /\ Taken \in DOMAIN input /\ hand.id = input[Taken].id
  BY <1>1, TakenWhole DEF MatchSafe, Taken, InHand, RT!ProperFills
<1>3. UnitsIn(trips, hand.id) + hand.qty = input[Taken].qty
  BY <1>1, <1>2 DEF UnitsFit
<1>4. /\ Account(trips, more)
      /\ \A id : Gone(more, id) => Gone(shorts, id)
      /\ Gone(more, hand.id) => hand.qty = 0
  BY <1>1, <1>3, OpeningAccounts DEF MatchSafe, UnitsFit
<1>. HIDE DEF more
<1>5. AreUnits(trips)' /\ Account(trips, longs)' /\ Account(trips, shorts)'
  BY <1>1, <1>4 DEF UnitsFit, AreUnits, Account
<1>6. UnitsIn(trips, hand.id) \in Int
  BY UnitsAreIntegers DEF UnitsFit, MatchSafe, TripsFit
<1>7. ASSUME NEW i \in DOMAIN input
      PROVE  /\ i > Taken => UnitsIn(trips, input[i].id) = 0
             /\ i <= Taken /\ Gone(longs, input[i].id) /\ Gone(more, input[i].id)
                => UnitsIn(trips, input[i].id) = input[i].qty
  <2>1. i > Taken => UnitsIn(trips, input[i].id) = 0
    BY DEF UnitsFit
  <2>2. CASE i = Taken
    BY <1>2, <1>3, <1>4, <1>6, <2>2
  <2>3. CASE i # Taken
    BY <1>1, <1>4, <2>1, <2>3 DEF UnitsFit
  <2>. QED
    BY <1>2, <2>2, <2>3
<1>. QED
  BY <1>1, <1>2, <1>5, <1>7 DEF UnitsFit, Gone

(* The lots that are left become trips of what is left of their fills.      *)
Emitted(direction, lots) == [k \in DOMAIN lots |-> RT!emitOpen(direction, lots[k])]

LEMMA LotsEmitted ==
    ASSUME RT!ProperFills, NEW side, NEW lots, LotsFit(lots, side),
           NEW ts, IsSeq(ts), AreUnits(ts), Account(ts, lots), NEW direction
    PROVE  LET more == ts \o Emitted(direction, lots)
           IN /\ IsSeq(more) /\ AreUnits(more)
              /\ \A i \in DOMAIN input :
                    UnitsIn(more, input[i].id) = IF Gone(lots, input[i].id)
                                                 THEN UnitsIn(ts, input[i].id)
                                                 ELSE input[i].qty
<1>. DEFINE emitted == Emitted(direction, lots)
            more == ts \o emitted
            N == Len(ts)
<1>1. /\ DOMAIN lots = 1 .. Len(lots) /\ Len(lots) \in Nat
      /\ \A k \in DOMAIN lots : lots[k].qty \in Nat
      /\ \A k, l \in DOMAIN lots : lots[k].id = lots[l].id => k = l
  <2>1. lots \in Seq(Lot) /\ DOMAIN lots = 1 .. Len(lots) /\ Len(lots) \in Nat
    BY DEF LotsFit
  <2>2. \A lot \in Lot : lot.qty \in Nat
    BY DEF Lot
  <2>3. \A k \in DOMAIN lots : lots[k] \in Lot
    BY <2>1
  <2>4. \A k, l \in DOMAIN lots : k < l => lots[k].id # lots[l].id
    BY DEF LotsFit, Elder
  <2>. QED
    BY <2>1, <2>2, <2>3, <2>4
<1>2. \A k \in DOMAIN lots : /\ emitted[k].qty = lots[k].qty
                             /\ emitted[k].openId = lots[k].id /\ emitted[k].closeId = 0
  <2>1. \A lot : LET trip == RT!emitOpen(direction, lot)
                 IN trip.qty = lot.qty /\ trip.openId = lot.id /\ trip.closeId = 0
    BY DEF RT!emitOpen
  <2>. QED
    BY <2>1 DEF Emitted
<1>3. /\ IsSeq(more) /\ N \in Nat /\ DOMAIN ts = 1 .. N
      /\ DOMAIN more = 1 .. N + Len(lots)
      /\ \A n \in DOMAIN ts : more[n] = ts[n]
      /\ \A k \in DOMAIN lots : more[N + k] = emitted[k]
  <2>. DEFINE S == {ts[n] : n \in DOMAIN ts} \cup {emitted[n] : n \in DOMAIN lots}
  <2>1. emitted \in Seq(S) /\ Len(emitted) = Len(lots)
    <3>1. emitted \in [1 .. Len(lots) -> S]
      BY <1>1 DEF Emitted
    <3>. HIDE DEF emitted, S
    <3>. QED
      BY <1>1, <3>1
  <2>2. ts \in Seq(S)
    <3>1. ts \in Seq({ts[n] : n \in DOMAIN ts}) /\ \A n \in DOMAIN ts : ts[n] \in S
      BY DEF IsSeq
    <3>. HIDE DEF S
    <3>. QED
      BY <3>1
  <2>. HIDE DEF emitted, S
  <2>3. /\ more \in Seq(S) /\ N \in Nat /\ DOMAIN ts = 1 .. N
        /\ DOMAIN more = 1 .. N + Len(lots) /\ Len(more) = N + Len(lots)
        /\ \A n \in DOMAIN ts : more[n] = ts[n]
        /\ \A k \in DOMAIN lots : more[N + k] = emitted[k]
    BY <1>1, <2>1, <2>2
  <2>4. IsSeq(more)
    BY <2>3, SeqOfItself
  <2>. QED
    BY <2>3, <2>4
<1>. HIDE DEF emitted, more
<1>4. \A n \in DOMAIN more : n \in DOMAIN ts \/ \E k \in DOMAIN lots : n = N + k
  <2>1. SUFFICES ASSUME NEW n \in DOMAIN more, n \notin DOMAIN ts
                 PROVE  \E k \in DOMAIN lots : n = N + k
    OBVIOUS
  <2>2. n - N \in DOMAIN lots /\ n = N + (n - N)
    BY <1>1, <1>3, <2>1
  <2>. QED
    BY <2>2
<1>5. \A k \in DOMAIN lots : N + k \in DOMAIN more \ DOMAIN ts
  BY <1>1, <1>3
<1>6. DOMAIN ts \subseteq DOMAIN more
  BY <1>1, <1>3
<1>. HIDE DEF N
<1>7. AreUnits(more)
  BY <1>1, <1>2, <1>3, <1>4 DEF AreUnits
<1>8. ASSUME NEW i \in DOMAIN input
      PROVE  UnitsIn(more, input[i].id) = IF Gone(lots, input[i].id)
                                          THEN UnitsIn(ts, input[i].id) ELSE input[i].qty
  <2>. DEFINE id == input[i].id
  <2>1. id # 0
    <3>1. input[i] \in RT!Fills
      BY DEF RT!ProperFills
    <3>. QED
      BY <3>1 DEF RT!Fills
  <2>2. \A k \in DOMAIN lots : N + k \in Touching(more, id) <=> lots[k].id = id
    BY <1>2, <1>3, <1>5, <2>1 DEF Touching
  <2>. HIDE DEF id
  <2>3. /\ Touching(more, id) \subseteq DOMAIN ts => UnitsIn(more, id) = UnitsIn(ts, id)
        /\ \A y \in Touching(more, id) \ DOMAIN ts :
              Touching(more, id) \subseteq DOMAIN ts \cup {y}
                  => UnitsIn(more, id) = UnitsIn(ts, id) + more[y].qty
    <3>1. \A n \in DOMAIN more : more[n].qty \in Int
      BY <1>7 DEF AreUnits
    <3>2. IsSeq(more) /\ \A n \in DOMAIN ts : more[n] = ts[n]
      BY <1>3
    <3>. QED
      BY <1>6, <3>1, <3>2, UnitsGrow
  <2>4. CASE Gone(lots, id)
    <3>1. Touching(more, id) \subseteq DOMAIN ts
      BY <1>4, <2>2, <2>4 DEF Touching, Gone
    <3>. QED
      BY <2>3, <2>4, <3>1 DEF id
  <2>5. CASE ~ Gone(lots, id)
    <3>1. PICK k \in DOMAIN lots : lots[k].id = id
      BY <2>5 DEF Gone
    <3>2. Touching(more, id) \subseteq DOMAIN ts \cup {N + k}
      BY <1>1, <1>4, <2>2, <3>1 DEF Touching
    <3>3. N + k \in Touching(more, id) \ DOMAIN ts
      BY <1>5, <2>2, <3>1
    <3>4. UnitsIn(more, id) = UnitsIn(ts, id) + lots[k].qty
      BY <1>2, <1>3, <2>3, <3>2, <3>3
    <3>. QED
      BY <2>5, <3>1, <3>4 DEF Account, id
  <2>. QED
    BY <2>4, <2>5
<1>. QED
  BY <1>3, <1>7, <1>8 DEF more, emitted

LEMMA EmitLotsAccounts ==
    ASSUME RT!ProperFills, MatchSafe, UnitsFit, RT!EmitLots
    PROVE  UnitsFit'
<1>. DEFINE bought == Emitted("LONG", longs)
            sold == Emitted("SHORT", shorts)
<1>1. /\ mpc = "next" /\ mpc' = "done" /\ fills = <<>>
      /\ trips' = trips \o bought \o sold
      /\ UNCHANGED <<key, input, fills, hand, longs, shorts>>
  BY DEF RT!EmitLots, Emitted
<1>2. /\ Taken' = Taken /\ Taken \in Nat /\ DOMAIN input \subseteq Nat
      /\ \A i \in DOMAIN input : ~ (i > Taken)
  BY <1>1, TakenWhole DEF MatchSafe, Taken, RT!ProperFills
<1>3. /\ LotsFit(longs, "BOT") /\ LotsFit(shorts, "SLD") /\ (longs = <<>> \/ shorts = <<>>)
      /\ IsSeq(trips) /\ AreUnits(trips) /\ Account(trips, longs) /\ Account(trips, shorts)
  BY <1>1 DEF MatchSafe, UnitsFit, TripsFit
<1>4. \A i \in DOMAIN input :
         Gone(longs, input[i].id) /\ Gone(shorts, input[i].id)
             => UnitsIn(trips, input[i].id) = input[i].qty
  BY <1>1, <1>2 DEF UnitsFit
<1>5. /\ AreUnits(trips')
      /\ \A i \in DOMAIN input : UnitsIn(trips', input[i].id) = input[i].qty
  <2>. DEFINE S == {trips[n] : n \in DOMAIN trips}
  <2>1. trips \in Seq(S)
    BY <1>3 DEF IsSeq
  <2>2. CASE longs = <<>>
    <3>1. bought = <<>> /\ \A id : Gone(longs, id)
      BY <2>2 DEF Gone, Emitted
    <3>. HIDE DEF S, bought
    <3>2. trips \o bought = trips
      BY <2>1, <3>1
    <3>3. trips' = trips \o sold
      BY <1>1, <3>2
    <3>4. /\ AreUnits(trips \o sold)
          /\ \A i \in DOMAIN input :
                UnitsIn(trips \o sold, input[i].id) = IF Gone(shorts, input[i].id)
                                                      THEN UnitsIn(trips, input[i].id)
                                                      ELSE input[i].qty
      BY <1>3, LotsEmitted
    <3>. QED
      BY <1>4, <3>1, <3>3, <3>4
  <2>3. CASE shorts = <<>>
    <3>1. sold = <<>> /\ \A id : Gone(shorts, id)
      BY <2>3 DEF Gone, Emitted
    <3>2. /\ IsSeq(trips \o bought) /\ AreUnits(trips \o bought)
          /\ \A i \in DOMAIN input :
                UnitsIn(trips \o bought, input[i].id) = IF Gone(longs, input[i].id)
                                                        THEN UnitsIn(trips, input[i].id)
                                                        ELSE input[i].qty
      BY <1>3, LotsEmitted
    <3>. DEFINE most == trips \o bought
                T == {most[n] : n \in DOMAIN most}
    <3>3. most \in Seq(T)
      BY <3>2 DEF IsSeq
    <3>. HIDE DEF T, most, sold
    <3>4. most \o sold = most
      BY <3>1, <3>3
    <3>5. trips' = most
      BY <1>1, <3>4 DEF most
    <3>. QED
      BY <1>4, <3>1, <3>2, <3>5 DEF most
  <2>. QED
    BY <1>3, <2>2, <2>3
<1>. HIDE DEF bought, sold
<1>6. AreUnits(trips)'
  BY <1>5 DEF AreUnits
<1>. QED
  BY <1>1, <1>2, <1>5, <1>6 DEF UnitsFit

LEMMA UnitsInit == JournalsInit /\ RT!ProperFills => UnitsFit
<1>1. SUFFICES ASSUME JournalsInit, RT!ProperFills PROVE UnitsFit
  OBVIOUS
<1>2. /\ fills = input /\ longs = <<>> /\ shorts = <<>> /\ trips = <<>> /\ mpc \in {"next", "idle"}
  <2>1. CASE which = "match"
    BY <1>1, <2>1 DEF JournalsInit, RT!MatchInit, RT!Start
  <2>2. CASE which # "match"
    BY <1>1, <2>2 DEF JournalsInit, NoMatch
  <2>. QED
    BY <2>1, <2>2
<1>3. \A i \in DOMAIN input : ~ (i <= Taken)
  BY <1>1, <1>2 DEF Taken, RT!ProperFills
<1>4. \A id : UnitsIn(trips, id) = 0
  <2>1. SUFFICES ASSUME NEW id PROVE UnitsIn(trips, id) = 0
    OBVIOUS
  <2>2. Touching(trips, id) = {}
    BY <1>2 DEF Touching
  <2>. QED
    BY <2>2, SumOfNone DEF UnitsIn
<1>. QED
  BY <1>2, <1>3, <1>4 DEF UnitsFit, AreUnits, Account

LEMMA UnitsStep ==
    /\ RT!ProperFills => MatchSafe /\ UnitsFit
    /\ [JournalsNext]_allVars
    => (RT!ProperFills => UnitsFit)'
<1>1. SUFFICES ASSUME RT!ProperFills => MatchSafe /\ UnitsFit, [JournalsNext]_allVars,
                      RT!ProperFills'
               PROVE  UnitsFit'
  OBVIOUS
<1>2. CASE UNCHANGED matchVars
  <2>1. RT!ProperFills
    BY <1>1, <1>2 DEF matchVars, RT!ProperFills
  <2>. QED
    BY <1>1, <1>2, <2>1 DEF matchVars, UnitsFit, AreUnits, Account, Gone, Taken
<1>3. CASE RT!MatchNext
  <2>1. UNCHANGED input
    BY <1>3 DEF RT!MatchNext, RT!Next, RT!TakeFill, RT!BuyCloses, RT!SaleCloses,
                RT!BuyOpens, RT!SaleOpens, RT!EmitLots
  <2>2. RT!ProperFills
    BY <1>1, <2>1 DEF RT!ProperFills
  <2>. QED
    BY <1>1, <1>3, <2>2, TakeFillAccounts, BuyClosesAccounts, SaleClosesAccounts,
       BuyOpensAccounts, SaleOpensAccounts, EmitLotsAccounts DEF RT!MatchNext, RT!Next
<1>. QED
  BY <1>1, <1>2, <1>3
     DEF JournalsNext, Trading, Scanning, Judging, Matching, allVars, matchVars

-----------------------------------------------------------------------------
(* The fills that the matcher is given: the rows that stand for an order,   *)
(* in the order of their times.                                             *)

Row(i) ==
    /\ rows[i].perm \in Nat /\ rows[i].sec \in {"STK", "OPT", "BAG"}
    /\ rows[i].side \in {"BOT", "SLD"} /\ rows[i].qty \in Nat \ {0}
    /\ rows[i].price \in Int /\ (rows[i].price < 0 => rows[i].sec = "BAG")
    /\ rows[i].exp \in {0} \cup (Nat \ {0, 1}) /\ rows[i].time \in 2 .. AsOf

Journal ==
    /\ rows \in Histories
    /\ IsFiniteSet(DOMAIN rows) /\ DOMAIN rows \subseteq Nat \ {0}
    /\ \A i \in DOMAIN rows : Row(i)

LEMMA RowsTyped == ASSUME rows \in Histories PROVE Journal
<1>1. rows \in Seq(TradeRows) /\ \A i \in DOMAIN rows : rows[i].price < 0 => rows[i].sec = "BAG"
  BY HistoriesAssumption
<1>2. PICK n \in Nat : DOMAIN rows = 1 .. n
  BY <1>1
<1>3. IsFiniteSet(DOMAIN rows) /\ DOMAIN rows \subseteq Nat \ {0}
  BY <1>2, FS_Interval
<1>4. ASSUME NEW i \in DOMAIN rows PROVE Row(i)
  <2>1. rows[i] \in TradeRows
    BY <1>1
  <2>. QED
    BY <1>1, <2>1 DEF TradeRows, Row
<1>. QED
  BY <1>3, <1>4 DEF Journal

(* The largest of some numbers is one of them.                              *)
LEMMA MaxIsOne ==
    ASSUME NEW S, IsFiniteSet(S), S \subseteq Nat, S # {}
    PROVE  RT!Max(S) \in S
<1>1. PICK R : R = {p \in S \X S : p[1] < p[2]}
  BY Zenon
<1>2. \A x, y \in S : <<x, y>> \in R <=> x < y
  BY <1>1
<1>3. Orders(R, S)
  <2>1. \A x \in S : x \in Int
    OBVIOUS
  <2>. QED
    BY <1>2, <2>1 DEF Orders
<1>4. Cardinality(S) \in Nat /\ Cardinality(S) # 0
  BY FS_CardinalityType, FS_EmptySet
<1>5. PICK N \in Nat : N = Cardinality(S) /\ N \in 1 .. N
  BY <1>4
<1>6. PICK x \in S : Rank(x, R, S) = N - 1
  BY <1>3, <1>5, EveryRankIsTaken
<1>7. ASSUME NEW y \in S PROVE x >= y
  <2>1. Rank(y, R, S) \in 0 .. N - 1
    BY <1>3, <1>5, RanksRise
  <2>2. ~(Rank(x, R, S) < Rank(y, R, S))
    BY <1>5, <1>6, <2>1
  <2>3. ~(<<x, y>> \in R)
    BY <1>3, <2>2, RanksRise
  <2>. QED
    BY <1>2, <2>3
<1>. QED
  BY <1>7, Zenon DEF RT!Max

LEMMA KeysTyped ==
    ASSUME Journal, NEW i \in DOMAIN rows
    PROVE  RT!KeyOf(i).exp \in {0} \cup (Nat \ {0, 1})
<1>1. rows[i].exp \in {0} \cup (Nat \ {0, 1})
  BY DEF Journal, Row
<1>2. RT!groupByPermID(i) \subseteq DOMAIN rows
  BY DEF RT!groupByPermID
<1>3. CASE RT!LegExps(i) # {}
  <2>. DEFINE legs == {l \in RT!groupByPermID(i) : rows[l].sec = "OPT"}
  <2>1. legs \subseteq DOMAIN rows
    BY <1>2
  <2>2. IsFiniteSet(legs)
    BY <2>1, FS_Subset DEF Journal
  <2>3. RT!LegExps(i) \subseteq Nat \ {0, 1}
    <3>1. \A j \in legs : rows[j].exp \in {0} \cup (Nat \ {0, 1})
      BY <2>1 DEF Journal, Row
    <3>2. RT!LegExps(i) = {rows[j].exp : j \in legs} \ {0}
      BY Zenon DEF RT!LegExps, RT!Never
    <3>. HIDE DEF legs
    <3>. QED
      BY <3>1, <3>2
  <2>4. IsFiniteSet(RT!LegExps(i))
    <3>1. PICK f : f = [j \in legs |-> rows[j].exp]
      BY Zenon
    <3>2. IsFiniteSet({f[j] : j \in legs})
      BY <2>2, ImageIsSmaller
    <3>3. RT!LegExps(i) \in SUBSET {f[j] : j \in legs}
      BY <3>1 DEF RT!LegExps
    <3>. QED
      BY <3>2, <3>3, FS_Subset
  <2>5. RT!Max(RT!LegExps(i)) \in RT!LegExps(i)
    BY <1>3, <2>3, <2>4, MaxIsOne
  <2>. QED
    BY <1>1, <2>3, <2>5 DEF RT!KeyOf
<1>4. CASE RT!LegExps(i) = {}
  BY <1>1, <1>4 DEF RT!KeyOf
<1>. QED
  BY <1>3, <1>4

Before(S, place) == {p \in S \X S : RT!Sooner(p[1], p[2], place)}

LEMMA SoonerIsAnOrder ==
    ASSUME Journal, NEW place \in RT!Iterations, NEW S, S \subseteq DOMAIN rows
    PROVE  /\ Orders(Before(S, place), S)
           /\ \A i, j \in S : <<i, j>> \in Before(S, place) <=> RT!Sooner(i, j, place)
<1>. DEFINE at(i) == place[rows[i].perm]
            time(i) == rows[i].time
<1>1. \A i \in S : i \in Int /\ at(i) \in Int /\ time(i) \in Int
  <2>1. \A i \in S : i \in Int /\ time(i) \in Int /\ rows[i].perm \in RT!Orders
    BY DEF Journal, Row, RT!Orders
  <2>2. \A o \in RT!Orders : place[o] \in Int
    <3>1. place \in [RT!Orders -> 1 .. RT!Cardinality(RT!Orders)]
      BY DEF RT!Iterations, RT!Injection
    <3>. QED
      BY <3>1
  <2>. QED
    BY <2>1, <2>2
<1>2. \A i, j : RT!Sooner(i, j, place) <=>
        \/ time(i) < time(j)
        \/ time(i) = time(j) /\ (at(i) < at(j) \/ (at(i) = at(j) /\ i < j))
  BY DEF RT!Sooner
<1>. HIDE DEF at, time
<1>3. \A i, j \in S : <<i, j>> \in Before(S, place) <=> RT!Sooner(i, j, place)
  BY DEF Before
<1>4. \A i, j \in S : i # j => RT!Sooner(i, j, place) \/ RT!Sooner(j, i, place)
  BY <1>1, <1>2
<1>5. \A i \in S : ~RT!Sooner(i, i, place)
  BY <1>1, <1>2
<1>6. \A i, j, l \in S : RT!Sooner(i, j, place) /\ RT!Sooner(j, l, place) => RT!Sooner(i, l, place)
  BY <1>1, <1>2
<1>7. Orders(Before(S, place), S)
  BY <1>3, <1>4, <1>5, <1>6, Zenon DEF Orders
<1>. QED
  BY <1>3, <1>7

LEMMA ByTimeSorts ==
    ASSUME Journal, NEW place \in RT!Iterations, NEW S, S \subseteq DOMAIN rows
    PROVE  Sorts(RT!ByTime(S, place), Before(S, place), S)
<1>. DEFINE s == RT!ByTime(S, place)
<1>0. PICK R : R = Before(S, place)
  BY Zenon
<1>1. IsFiniteSet(S) /\ Orders(R, S)
      /\ \A i, j \in S : <<i, j>> \in R <=> RT!Sooner(i, j, place)
  <2>1. IsFiniteSet(S)
    BY FS_Subset DEF Journal
  <2>. QED
    BY <1>0, <2>1, SoonerIsAnOrder
<1>2. \A i \in S : Cardinality({j \in S : RT!Sooner(j, i, place)}) = Rank(i, R, S)
  <2>1. \A i \in S : {j \in S : RT!Sooner(j, i, place)} = Lower(i, R, S)
    BY <1>1 DEF Lower
  <2>. QED
    BY <2>1, Zenon DEF Rank
<1>3. s = [n \in 1 .. Cardinality(S) |->
             CHOOSE i \in S : Cardinality({j \in S : RT!Sooner(j, i, place)}) = n - 1]
  BY Zenon DEF RT!ByTime, RT!Cardinality, Cardinality
<1>. HIDE DEF s
<1>4. \A n \in 1 .. Cardinality(S) : s[n] = CHOOSE i \in S : Rank(i, R, S) = n - 1
  <2>1. ASSUME NEW n
        PROVE  (CHOOSE i \in S : Cardinality({j \in S : RT!Sooner(j, i, place)}) = n - 1)
                = CHOOSE i \in S : Rank(i, R, S) = n - 1
    BY <1>2
  <2>. QED
    BY <1>3, <2>1, Zenon
<1>5. \A n \in 1 .. Cardinality(S) : \E i \in S : Rank(i, R, S) = n - 1
  BY <1>1, EveryRankIsTaken
<1>6. \A n \in 1 .. Cardinality(S) : s[n] \in S /\ Rank(s[n], R, S) = n - 1
  BY <1>4, <1>5, Zenon
<1>7. s \in [1 .. Cardinality(S) -> S]
  BY <1>3, <1>6, Zenon
<1>8. Sorts(s, R, S)
  BY <1>1, <1>6, <1>7, RanksSort, Zenon
<1>. QED
  BY <1>0, <1>8, Zenon DEF s

InputDated == \A n \in DOMAIN input : input[n].time \in 2 .. AsOf

LEMMA FillTypes ==
    ASSUME Journal, NEW i \in DOMAIN rows
    PROVE  /\ RT!AsFill(i) \in RT!Fills
           /\ RT!AsFill(i).id = i /\ RT!AsFill(i).time = rows[i].time
<1>1. RT!AsFill(i) = [id |-> i, side |-> rows[i].side, qty |-> rows[i].qty, time |-> rows[i].time,
                      price |-> RT!AsFill(i).price]
  BY DEF RT!AsFill
<1>2. RT!AsFill(i).price = IF rows[i].sec = "BAG" /\ rows[i].price < 0
                           THEN -rows[i].price ELSE rows[i].price
  BY DEF RT!AsFill
<1>3. RT!AsFill(i).price \in Nat
  BY <1>2 DEF Journal, Row
<1>4. i \in Nat \ {0} /\ rows[i].side \in {"BOT", "SLD"} /\ rows[i].qty \in Nat \ {0}
      /\ rows[i].time \in Nat
  <2>1. AsOf \in Nat
    BY HistoriesAssumption
  <2>. QED
    BY <2>1 DEF Journal, Row
<1>. QED
  BY <1>1, <1>3, <1>4 DEF RT!Fills

LEMMA FillsAreProper ==
    ASSUME Journal, NEW place \in RT!Iterations, NEW k, input = RT!GroupOf(k, place)
    PROVE  RT!ProperFills /\ InputDated
<1>1. PICK S : S = RT!FillsOf(k) /\ S \subseteq DOMAIN rows
  BY DEF RT!FillsOf, RT!enrichBAGFromLegs
<1>2. PICK s : s = RT!ByTime(S, place)
  BY Zenon
<1>3. Sorts(s, Before(S, place), S)
  BY <1>1, <1>2, ByTimeSorts, Zenon
<1>4. input = [n \in DOMAIN s |-> RT!AsFill(s[n])]
  BY <1>1, <1>2, Zenon DEF RT!GroupOf
<1>5. s \in Seq(S) /\ DOMAIN s = 1 .. Len(s) /\ Len(s) \in Nat
  BY <1>3 DEF Sorts
<1>6. ASSUME NEW n \in DOMAIN s
      PROVE  /\ s[n] \in S /\ input[n] = RT!AsFill(s[n])
             /\ input[n] \in RT!Fills /\ input[n].id = s[n] /\ input[n].time = rows[s[n]].time
  <2>1. s[n] \in S /\ s[n] \in DOMAIN rows
    BY <1>1, <1>5
  <2>2. input[n] = RT!AsFill(s[n])
    BY <1>4
  <2>. QED
    BY <2>1, <2>2, FillTypes
<1>7. DOMAIN input = DOMAIN s
  BY <1>4
<1>8. input \in Seq(RT!Fills)
  <2>1. input = [n \in 1 .. Len(s) |-> input[n]]
    BY <1>4, <1>5
  <2>2. input \in [1 .. Len(s) -> RT!Fills]
    BY <1>5, <1>6, <2>1
  <2>. QED
    BY <1>5, <2>2
<1>9. ASSUME NEW m \in DOMAIN s, NEW n \in DOMAIN s, m < n
      PROVE  input[m].id # input[n].id /\ input[m].time <= input[n].time
  <2>1. <<s[m], s[n]>> \in Before(S, place) /\ s[m] # s[n]
    <3>1. m # n
      BY <1>5, <1>9
    <3>. QED
      BY <1>3, <1>9, <3>1 DEF Sorts
  <2>2. RT!Sooner(s[m], s[n], place)
    BY <2>1 DEF Before
  <2>3. rows[s[m]].time \in Int /\ rows[s[n]].time \in Int
    BY <1>1, <1>6 DEF Journal, Row
  <2>4. rows[s[m]].time <= rows[s[n]].time
    BY <2>2, <2>3 DEF RT!Sooner
  <2>. QED
    BY <1>6, <2>1, <2>4
<1>10. InputDated
  BY <1>1, <1>6, <1>7 DEF InputDated, Journal, Row
<1>. QED
  BY <1>7, <1>8, <1>9, <1>10 DEF RT!ProperFills

KeyDated == key.exp \in {0} \cup (Nat \ {0, 1})

LEMMA GivenInit == JournalsInit => RT!ProperFills /\ InputDated /\ KeyDated
<1>. SUFFICES ASSUME JournalsInit PROVE RT!ProperFills /\ InputDated /\ KeyDated
  OBVIOUS
<1>1. CASE which = "match"
  <2>1. PICK place \in RT!Iterations, i \in RT!enrichBAGFromLegs :
            RT!Start(RT!KeyOf(i), RT!GroupOf(RT!KeyOf(i), place))
    BY <1>1, Zenon DEF JournalsInit, RT!MatchInit
  <2>2. Journal
    BY <1>1, RowsTyped DEF JournalsInit, RT!MatchInit
  <2>3. key = RT!KeyOf(i) /\ input = RT!GroupOf(RT!KeyOf(i), place)
    BY <2>1, Zenon DEF RT!Start
  <2>4. i \in DOMAIN rows
    BY DEF RT!enrichBAGFromLegs
  <2>5. KeyDated
    BY <2>2, <2>3, <2>4, KeysTyped DEF KeyDated
  <2>. QED
    BY <2>2, <2>3, <2>5, FillsAreProper
<1>2. CASE which # "match"
  <2>1. input = <<>> /\ key = [sec |-> "STK", exp |-> 0]
    BY <1>2 DEF JournalsInit, NoMatch
  <2>. QED
    BY <2>1 DEF RT!ProperFills, InputDated, KeyDated
<1>. QED
  BY <1>1, <1>2

(* ... and they stay what they are.                                         *)
Given == RT!ProperFills /\ InputDated /\ KeyDated

LEMMA GivenStays == Given /\ [JournalsNext]_allVars => Given'
<1>1. [JournalsNext]_allVars => UNCHANGED <<input, key>>
  BY Zenon DEF JournalsNext, Trading, Scanning, Judging, Matching, allVars, matchVars, RT!MatchNext,
     RT!Next, RT!TakeFill, RT!BuyCloses, RT!SaleCloses, RT!BuyOpens, RT!SaleOpens, RT!EmitLots
<1>. QED
  BY <1>1 DEF Given, RT!ProperFills, InputDated, KeyDated

LEMMA AlwaysGiven == JournalsSpec => []Given
<1>1. JournalsInit => Given
  BY GivenInit DEF Given
<1>. QED
  BY <1>1, GivenStays, PTL DEF JournalsSpec

LEMMA AlwaysMatched == JournalsSpec => [](Given /\ MatchSafe)
<1>1. JournalsSpec => [](RT!ProperFills => MatchSafe)
  BY MatchInit, MatchStep, PTL DEF JournalsSpec
<1>2. Given => RT!ProperFills
  BY DEF Given
<1>. QED
  BY <1>1, <1>2, AlwaysGiven, PTL

(* Whatever fills come in, scale out or reverse: every closed trip is of an *)
(* earlier and a later fill of opposite sides, at their prices, nothing is  *)
(* closed before what was opened earlier, and in the end the trips have     *)
(* every unit of every fill once: none is lost, and none is closed twice    *)
(* (matchGroup in internal/journal/matcher.go).                             *)
THEOREM UnitsCloseFirstInFirstOut == JournalsSpec => []FirstInFirstOut
<1>1. MatchSafe => RT!OldestFirst
  <2>1. SUFFICES ASSUME MatchSafe PROVE RT!OldestFirst
    OBVIOUS
  <2>2. RT!Closed = ClosedIn(trips)
    BY DEF RT!Closed, ClosedIn
  <2>3. TripsFit(trips) /\ Passed(trips, "LONG", longs) /\ Passed(trips, "SHORT", shorts)
    BY <2>1 DEF MatchSafe
  <2>. QED
    BY <2>1, <2>2, <2>3, Zenon DEF MatchSafe, RT!OldestFirst, TripsFit, Passed
<1>2. RT!ProperFills /\ UnitsFit => RT!EveryUnitOnce
  <2>1. SUFFICES ASSUME RT!ProperFills, UnitsFit, mpc = "done", NEW i \in DOMAIN input
                 PROVE  UnitsIn(trips, input[i].id) = input[i].qty
    BY UnitsAreOfTrips DEF RT!EveryUnitOnce
  <2>2. i <= Taken
    BY <2>1 DEF UnitsFit, Taken, RT!ProperFills
  <2>. QED
    BY <2>1, <2>2 DEF UnitsFit
<1>3. Given /\ MatchSafe /\ (RT!ProperFills => UnitsFit) => FirstInFirstOut
  BY <1>1, <1>2 DEF FirstInFirstOut, RT!FirstInFirstOut, Given
<1>4. JournalsSpec => [](Given /\ MatchSafe)
  BY AlwaysMatched
<1>5. JournalsSpec => [](RT!ProperFills => UnitsFit)
  <2>1. JournalsInit => (RT!ProperFills => UnitsFit)
    BY UnitsInit
  <2>2. /\ Given /\ MatchSafe
        /\ RT!ProperFills => UnitsFit
        /\ [JournalsNext]_allVars
        => (RT!ProperFills => UnitsFit)'
    BY UnitsStep
  <2>. QED
    BY <1>4, <2>1, <2>2, PTL DEF JournalsSpec
<1>. QED
  BY <1>3, <1>4, <1>5, PTL

-----------------------------------------------------------------------------
(* The reviews.  A trip that has ended ended on one of the days until the   *)
(* review; one that is open has no close.                                   *)

Dated(trip) ==
    /\ trip.pnl \in Int
    /\ \/ trip.status \in {"closed", "expired"} /\ trip.closeTime \in 2 .. AsOf
       \/ trip.status = "open" /\ trip.closeTime = 0

DatesSafe == \A n \in DOMAIN trips : Dated(trips[n])

LEMMA ClosedIsDated ==
    ASSUME Given, MatchSafe, mpc = "match", NEW direction, NEW side, NEW lots,
           LotsFit(lots, side), lots # <<>>,
           NEW take, take = RT!Lesser(hand.qty, Head(lots).qty)
    PROVE  Dated(RT!ClosedTrip(direction, Head(lots), take))
<1>1. Head(lots) \in Lot
  BY DEF LotsFit
<1>2. PICK lot \in Lot : lot = Head(lots)
  BY <1>1
<1>3. PICK price, qty : price = lot.price /\ qty = lot.qty /\ price \in Int /\ qty \in Int
  BY DEF Lot
<1>4. hand.price \in Int /\ hand.qty \in Int /\ hand.time \in 2 .. AsOf
  <2>1. hand \in Hands /\ hand.time = input[Taken].time /\ Taken >= 1
    BY DEF MatchSafe, InHand
  <2>2. Taken \in DOMAIN input
    <3>1. /\ Len(fills) \in Nat /\ Len(input) \in Nat /\ DOMAIN input = 1 .. Len(input)
      BY DEF MatchSafe, InHand, Given, RT!ProperFills
    <3>. QED
      BY <2>1, <3>1 DEF Taken
  <2>. QED
    BY <2>1, <2>2 DEF Hands, Given, InputDated
<1>5. PICK times, m : /\ times = take /\ m = RT!multiplierFor(key.sec)
                      /\ times \in Int /\ m \in Int
  BY <1>2, <1>3, <1>4 DEF RT!Lesser, RT!multiplierFor
<1>6. PICK diff : diff \in Int /\ diff = (IF direction = "LONG" THEN hand.price - price
                                                              ELSE price - hand.price)
  BY <1>3, <1>4
<1>7. m * times * diff \in Int
  BY <1>5, <1>6
<1>8. RT!ClosedTrip(direction, Head(lots), take).pnl = m * times * diff
  <2>1. RT!ClosedTrip(direction, Head(lots), take).pnl =
          RT!multiplierFor(key.sec) * take *
                (IF direction = "LONG" THEN hand.price - Head(lots).price
                                       ELSE Head(lots).price - hand.price)
    BY Zenon DEF RT!ClosedTrip
  <2>. QED
    BY <1>2, <1>3, <1>5, <1>6, <2>1, Zenon
<1>9. /\ RT!ClosedTrip(direction, Head(lots), take).status = "closed"
      /\ RT!ClosedTrip(direction, Head(lots), take).closeTime = hand.time
  BY Zenon DEF RT!ClosedTrip
<1>. QED
  BY <1>4, <1>7, <1>8, <1>9 DEF Dated

LEMMA LeftIsDated ==
    ASSUME Given, NEW direction, NEW lot \in Lot
    PROVE  Dated(RT!emitOpen(direction, lot))
<1>1. PICK expired : expired \in BOOLEAN /\ (expired <=>
            key.sec \in RT!Options /\ key.exp # RT!Never /\ key.exp < AsOf)
  OBVIOUS
<1>2. PICK m, price, qty : /\ m = RT!multiplierFor(key.sec) /\ price = lot.price /\ qty = lot.qty
                           /\ m \in Int /\ price \in Int /\ qty \in Int
  BY DEF Lot, RT!multiplierFor
<1>3. PICK cost : cost = price * qty * m /\ cost \in Int
  BY <1>2
<1>. DEFINE trip == RT!emitOpen(direction, lot)
<1>4. /\ trip.status = IF expired THEN "expired" ELSE "open"
      /\ trip.closeTime = IF expired THEN key.exp ELSE RT!Never
  BY <1>1 DEF RT!emitOpen
<1>5. trip.pnl \in {0, cost, -cost}
  <2>1. lot.price * lot.qty * RT!multiplierFor(key.sec) = cost
    BY <1>2, <1>3, Zenon
  <2>2. trip.pnl = IF ~(key.sec \in RT!Options /\ key.exp # RT!Never /\ key.exp < AsOf) THEN 0
                   ELSE IF direction = "LONG"
                    THEN -(lot.price * lot.qty * RT!multiplierFor(key.sec))
                        ELSE lot.price * lot.qty * RT!multiplierFor(key.sec)
    BY Zenon DEF RT!emitOpen
  <2>. QED
    BY <2>1, <2>2, Zenon
<1>. HIDE DEF trip
<1>6. trip.pnl \in Int
  BY <1>3, <1>5
<1>7. expired => key.exp \in 2 .. AsOf
  <2>1. AsOf \in Nat
    BY HistoriesAssumption
  <2>. QED
    BY <1>1, <2>1 DEF Given, KeyDated, RT!Never
<1>. QED
  BY <1>4, <1>6, <1>7 DEF Dated, RT!Never, trip

LEMMA DatesStep ==
    ASSUME Given, MatchSafe, DatesSafe, [JournalsNext]_allVars
    PROVE  DatesSafe'
<1>1. CASE UNCHANGED trips
  BY <1>1 DEF DatesSafe
<1>2. IsSeq(trips)
  BY DEF MatchSafe, TripsFit
<1>3. ASSUME NEW new, Dated(new), trips' = Append(trips, new) PROVE DatesSafe'
  <2>1. /\ DOMAIN trips' = 1 .. Len(trips) + 1 /\ DOMAIN trips = 1 .. Len(trips)
        /\ \A n \in DOMAIN trips : trips'[n] = trips[n]
        /\ trips'[Len(trips) + 1] = new /\ Len(trips) \in Nat
    BY <1>2, <1>3, Appended
  <2>2. \A n \in DOMAIN trips' : n \in DOMAIN trips \/ n = Len(trips) + 1
    BY <2>1
  <2>3. \A n \in DOMAIN trips' : Dated(trips'[n])
    BY <1>3, <2>1, <2>2, Zenon DEF DatesSafe
  <2>. QED
    BY <2>3 DEF DatesSafe, Dated
<1>4. CASE RT!BuyCloses
  <2>1. /\ mpc = "match" /\ shorts # <<>>
        /\ trips' = Append(trips, RT!ClosedTrip("SHORT", Head(shorts),
                                      RT!Lesser(hand.qty, Head(shorts).qty)))
    BY <1>4, Zenon DEF RT!BuyCloses
  <2>2. PICK take : take = RT!Lesser(hand.qty, Head(shorts).qty)
    BY Zenon
  <2>3. Dated(RT!ClosedTrip("SHORT", Head(shorts), take))
    BY <2>1, <2>2, ClosedIsDated DEF MatchSafe
  <2>. QED
    BY <1>3, <2>1, <2>2, <2>3
<1>5. CASE RT!SaleCloses
  <2>1. /\ mpc = "match" /\ longs # <<>>
        /\ trips' = Append(trips, RT!ClosedTrip("LONG", Head(longs),
                                      RT!Lesser(hand.qty, Head(longs).qty)))
    BY <1>5, Zenon DEF RT!SaleCloses
  <2>2. PICK take : take = RT!Lesser(hand.qty, Head(longs).qty)
    BY Zenon
  <2>3. Dated(RT!ClosedTrip("LONG", Head(longs), take))
    BY <2>1, <2>2, ClosedIsDated DEF MatchSafe
  <2>. QED
    BY <1>3, <2>1, <2>2, <2>3
<1>6. CASE RT!EmitLots
  <2>1. PICK bought, sold : /\ bought = Emitted("LONG", longs) /\ sold = Emitted("SHORT", shorts)
                            /\ trips' = trips \o bought \o sold
    BY <1>6 DEF RT!EmitLots, Emitted
  <2>2. ASSUME NEW direction, NEW side, NEW lots, LotsFit(lots, side)
        PROVE  \E T : Emitted(direction, lots) \in Seq(T) /\ \A trip \in T : Dated(trip)
    <3>1. lots \in Seq(Lot) /\ DOMAIN lots = 1 .. Len(lots) /\ Len(lots) \in Nat
      BY <2>2 DEF LotsFit
    <3>2. \A n \in DOMAIN lots : lots[n] \in Lot
      BY <3>1
    <3>3. \A n \in DOMAIN lots : Dated(RT!emitOpen(direction, lots[n]))
      BY <3>2, LeftIsDated
    <3>4. PICK T : T = {RT!emitOpen(direction, lots[n]) : n \in DOMAIN lots}
      BY Zenon
    <3>5. Emitted(direction, lots) \in [1 .. Len(lots) -> T]
      BY <3>1, <3>3, <3>4, Zenon DEF Emitted
    <3>6. Emitted(direction, lots) \in Seq(T)
      BY <3>1, <3>5
    <3>7. \A trip \in T : Dated(trip)
      BY <3>3, <3>4, Zenon
    <3>. QED
      BY <3>6, <3>7, Zenon
  <2>3. PICK B : bought \in Seq(B) /\ \A trip \in B : Dated(trip)
    BY <2>1, <2>2, Zenon DEF MatchSafe
  <2>4. PICK S : sold \in Seq(S) /\ \A trip \in S : Dated(trip)
    BY <2>1, <2>2, Zenon DEF MatchSafe
  <2>5. PICK T : trips \in Seq(T) /\ \A trip \in T : Dated(trip)
    <3>1. PICK T : T = {trips[n] : n \in DOMAIN trips}
      BY Zenon
    <3>2. trips \in Seq(T)
      BY <1>2, <3>1 DEF IsSeq
    <3>. QED
      BY <3>1, <3>2 DEF DatesSafe
  <2>6. PICK all : all = T \cup B \cup S
    BY Zenon
  <2>7. trips \in Seq(all) /\ bought \in Seq(all) /\ sold \in Seq(all)
    BY <2>3, <2>4, <2>5, <2>6
  <2>8. trips' \in Seq(all)
    BY <2>1, <2>7
  <2>9. \A n \in DOMAIN trips' : trips'[n] \in all
    BY <2>8
  <2>10. \A n \in DOMAIN trips' : Dated(trips'[n])
    BY <2>3, <2>4, <2>5, <2>6, <2>9
  <2>. QED
    BY <2>10 DEF DatesSafe, Dated
<1>. QED
  BY <1>1, <1>4, <1>5, <1>6, Zenon
     DEF JournalsNext, Trading, Scanning, Judging, Matching, allVars, matchVars, RT!MatchNext,
     RT!Next, RT!TakeFill, RT!BuyOpens, RT!SaleOpens

LEMMA AlwaysDated == JournalsSpec => [](Given /\ MatchSafe /\ DatesSafe)
<1>1. JournalsInit => DatesSafe
  <2>1. JournalsInit => trips = <<>>
    <3>1. CASE which = "match"
      BY <3>1, Zenon DEF JournalsInit, RT!MatchInit, RT!Start
    <3>2. CASE which # "match"
      BY <3>2, Zenon DEF JournalsInit, NoMatch
    <3>. QED
      BY <3>1, <3>2
  <2>. QED
    BY <2>1 DEF DatesSafe
<1>2. Given /\ MatchSafe /\ DatesSafe /\ [JournalsNext]_allVars => DatesSafe'
  BY DatesStep
<1>. QED
  BY <1>1, <1>2, AlwaysMatched, PTL DEF JournalsSpec

DayOfClose == [n \in DOMAIN trips |-> trips[n].closeTime \div 2]
Gains == [n \in DOMAIN trips |-> trips[n].pnl]

Ended == {n \in DOMAIN trips : trips[n].status \in {"closed", "expired"}}
EndedOn(d) == {n \in Ended : DayOfClose[n] = d}
Days == RT!ReviewedDays

LEMMA DaysAreWhole ==
    /\ Days \subseteq Nat \ {0} /\ IsFiniteSet(Days)
    /\ \A time \in 2 .. AsOf : time \div 2 \in Days
    /\ \A time \in 2 .. AsOf, d \in Days :
          time >= RT!DayStart(d) /\ time <= RT!DayEnd(d) <=> time \div 2 = d
<1>1. AsOf \in Nat
  BY HistoriesAssumption
<1>2. PICK last \in Nat : last = AsOf \div 2 /\ Days = 1 .. last
  BY <1>1 DEF Days, RT!ReviewedDays
<1>3. IsFiniteSet(Days)
  BY <1>2, FS_Interval
<1>4. ASSUME NEW time \in 2 .. AsOf PROVE time \div 2 \in Days
  BY <1>1, <1>2
<1>5. ASSUME NEW time \in 2 .. AsOf, NEW d \in Days
      PROVE  time >= RT!DayStart(d) /\ time <= RT!DayEnd(d) <=> time \div 2 = d
  BY <1>1, <1>2 DEF RT!DayStart, RT!DayEnd
<1>. QED
  BY <1>2, <1>3, <1>4, <1>5

(* What a review counts, of those that ended: all, or those of a day.       *)
Counts(review, ended) ==
    /\ review.pnl = SumFunctionOnSet(Gains, ended)
    /\ review.closed + review.expired = Cardinality(ended)
    /\ review.wins = Cardinality({n \in ended : Gains[n] > 0})

LEMMA ReviewCounts ==
    ASSUME DatesSafe, IsFiniteSet(DOMAIN trips), NEW since, NEW until, NEW ended,
           ended = {n \in RT!ListRoundTrips(since, until) : n \in Ended}
    PROVE  Counts(RT!Review(since, until), ended)
<1>. DEFINE listed == RT!ListRoundTrips(since, until)
            With(status) == {n \in listed : trips[n].status = status}
<1>1. listed \subseteq DOMAIN trips
  BY DEF RT!ListRoundTrips
<1>2. ended = With("closed") \cup With("expired")
  BY <1>1 DEF Ended
<1>3. /\ IsFiniteSet(With("closed")) /\ IsFiniteSet(With("expired"))
      /\ With("closed") \cap With("expired") = {}
  <2>1. With("closed") \in SUBSET DOMAIN trips /\ With("expired") \in SUBSET DOMAIN trips
    BY <1>1
  <2>2. With("closed") \cap With("expired") = {}
    OBVIOUS
  <2>. HIDE DEF With
  <2>. QED
    BY <2>1, <2>2, FS_Subset
<1>4. /\ RT!Review(since, until).closed = Cardinality(With("closed"))
      /\ RT!Review(since, until).expired = Cardinality(With("expired"))
      /\ RT!Review(since, until).wins =
            Cardinality({n \in With("closed") \cup With("expired") : trips[n].pnl > 0})
      /\ RT!Review(since, until).pnl =
            SumFunctionOnSet([n \in DOMAIN trips |-> trips[n].pnl],
                             With("closed") \cup With("expired"))
  <2>1. \A S : RT!Cardinality(S) = Cardinality(S)
    BY Zenon DEF RT!Cardinality, Cardinality
  <2>2. \A f, S : RT!SumFunctionOnSet(f, S) = SumFunctionOnSet(f, S)
    BY Zenon DEF RT!SumFunctionOnSet, SumFunctionOnSet, RT!FoldFunctionOnSet,
       FoldFunctionOnSet, RT!MapThenFoldSet, MapThenFoldSet
  <2>. HIDE DEF listed
  <2>3. /\ RT!Review(since, until).closed = RT!Cardinality(With("closed"))
        /\ RT!Review(since, until).expired = RT!Cardinality(With("expired"))
        /\ RT!Review(since, until).wins =
              RT!Cardinality({n \in With("closed") \cup With("expired") : trips[n].pnl > 0})
        /\ RT!Review(since, until).pnl =
              RT!SumFunctionOnSet([n \in DOMAIN trips |-> trips[n].pnl],
                                  With("closed") \cup With("expired"))
    BY Zenon DEF RT!Review, listed
  <2>. HIDE DEF With
  <2>. QED
    BY <2>1, <2>2, <2>3, Zenon
<1>. HIDE DEF With, listed
<1>5. Cardinality(ended) = Cardinality(With("closed")) + Cardinality(With("expired"))
  <2>1. Cardinality(With("closed") \cup With("expired")) =
            Cardinality(With("closed")) + Cardinality(With("expired"))
              - Cardinality(With("closed") \cap With("expired"))
    BY <1>3, FS_Union
  <2>2. Cardinality(With("closed") \cap With("expired")) = 0
    BY <1>3, FS_EmptySet
  <2>3. PICK closed \in Nat, expired \in Nat :
            closed = Cardinality(With("closed")) /\ expired = Cardinality(With("expired"))
    BY <1>3, FS_CardinalityType, Zenon
  <2>4. Cardinality(With("closed") \cup With("expired")) = closed + expired - 0
    BY <2>1, <2>2, <2>3, Zenon
  <2>5. closed + expired - 0 = closed + expired
    BY <2>3
  <2>. QED
    BY <1>2, <2>3, <2>4, <2>5, Zenon
<1>6. {n \in ended : Gains[n] > 0} = {n \in With("closed") \cup With("expired") : trips[n].pnl > 0}
  <2>1. \A n \in ended : Gains[n] = trips[n].pnl
    BY DEF Gains, Ended
  <2>. QED
    BY <1>2, <2>1
<1>. QED
  BY <1>2, <1>4, <1>5, <1>6 DEF Counts, Gains

LEMMA ReviewsOfDays ==
    ASSUME DatesSafe, IsFiniteSet(DOMAIN trips)
    PROVE  /\ Counts(RT!Review(0, 0), Ended)
           /\ \A d \in Days : Counts(RT!Review(RT!DayStart(d), RT!DayEnd(d)), EndedOn(d))
<1>1. \A n \in Ended : trips[n].closeTime \in 2 .. AsOf /\ n \in DOMAIN trips
  BY DEF DatesSafe, Dated, Ended
<1>2. Counts(RT!Review(0, 0), Ended)
  <2>1. Ended = {n \in RT!ListRoundTrips(0, 0) : n \in Ended}
    BY DEF RT!ListRoundTrips, Ended
  <2>. QED
    BY <2>1, ReviewCounts
<1>3. ASSUME NEW d \in Days
      PROVE  Counts(RT!Review(RT!DayStart(d), RT!DayEnd(d)), EndedOn(d))
  <2>1. PICK since, until : since = RT!DayStart(d) /\ until = RT!DayEnd(d)
    BY Zenon
  <2>2. since # 0 /\ until # 0
    <3>1. d \in Nat \ {0}
      BY DaysAreWhole, Zenon
    <3>. QED
      BY <2>1, <3>1 DEF RT!DayStart, RT!DayEnd
  <2>3. ASSUME NEW n \in Ended
        PROVE  n \in RT!ListRoundTrips(since, until) <=> DayOfClose[n] = d
    <3>1. PICK time \in 2 .. AsOf : time = trips[n].closeTime
      BY <1>1
    <3>2. n \in RT!ListRoundTrips(since, until) <=> time >= since /\ time <= until
      BY <1>1, <2>2, <3>1 DEF RT!ListRoundTrips, RT!ClosedUntil, RT!Never
    <3>3. DayOfClose[n] = time \div 2
      BY <1>1, <3>1 DEF DayOfClose
    <3>. QED
      BY <2>1, <3>2, <3>3, DaysAreWhole
  <2>4. EndedOn(d) = {n \in RT!ListRoundTrips(since, until) : n \in Ended}
    <3>1. RT!ListRoundTrips(since, until) \subseteq DOMAIN trips
      BY DEF RT!ListRoundTrips
    <3>. QED
      BY <2>3 DEF EndedOn
  <2>5. Counts(RT!Review(since, until), EndedOn(d))
    BY <2>4, ReviewCounts
  <2>. QED
    BY <2>1, <2>5
<1>. QED
  BY <1>2, <1>3

(* The reviews of single days add up to the review of all time: a trip ends *)
(* in the window of one day, to the second, and one that is open in none    *)
(* (ListRoundTrips and Review, internal/server/journal_svc.go, with the     *)
(* windows that internal/cli/journal.go asks for).                          *)
THEOREM DaysAddUp == JournalsSpec => []ReviewsAddUp
<1>1. Given /\ MatchSafe /\ DatesSafe => ReviewsAddUp
  <2>. SUFFICES ASSUME Given, MatchSafe, DatesSafe PROVE RT!ReviewsAddUp
    BY DEF ReviewsAddUp
  <2>1. IsFiniteSet(DOMAIN trips)
    <3>1. IsSeq(trips)
      BY DEF MatchSafe, TripsFit
    <3>2. DOMAIN trips = 1 .. Len(trips) /\ Len(trips) \in Nat
      BY <3>1 DEF IsSeq
    <3>. QED
      BY <3>2, FS_Interval
  <2>2. /\ Counts(RT!Review(0, 0), Ended)
        /\ \A d \in Days : Counts(RT!Review(RT!DayStart(d), RT!DayEnd(d)), EndedOn(d))
    BY <2>1, ReviewsOfDays
  <2>3. /\ IsFiniteSet(Ended) /\ Ended \subseteq DOMAIN trips
        /\ \A n \in Ended : Gains[n] \in Int /\ DayOfClose[n] \in Days
    <3>1. Ended \in SUBSET DOMAIN trips
      BY DEF Ended
    <3>2. \A n \in Ended : trips[n].closeTime \in 2 .. AsOf /\ trips[n].pnl \in Int
      BY DEF DatesSafe, Dated, Ended
    <3>3. \A n \in Ended : Gains[n] = trips[n].pnl /\ DayOfClose[n] = trips[n].closeTime \div 2
      BY <3>1 DEF Gains, DayOfClose
    <3>. QED
      BY <2>1, <3>1, <3>2, <3>3, FS_Subset, DaysAreWhole
  <2>4. IsFiniteSet(Days)
    BY DaysAreWhole
  <2>. DEFINE review == [d \in Days |-> RT!Review(RT!DayStart(d), RT!DayEnd(d))]
  <2>5. \A f, S : RT!SumFunctionOnSet(f, S) = SumFunctionOnSet(f, S)
    BY Zenon DEF RT!SumFunctionOnSet, SumFunctionOnSet, RT!FoldFunctionOnSet,
       FoldFunctionOnSet, RT!MapThenFoldSet, MapThenFoldSet
  <2>6. \A d \in Days : Counts(review[d], EndedOn(d))
    BY <2>2
  <2>. HIDE DEF review
  <2>7. SumFunctionOnSet([d \in Days |-> review[d].pnl], Days) = RT!Review(0, 0).pnl
    <3>1. SumFunctionOnSet(
              [d \in Days |-> SumFunctionOnSet(Gains, {n \in Ended : DayOfClose[n] = d})], Days)
            = SumFunctionOnSet(Gains, Ended)
      BY <2>3, <2>4, SumOfParts
    <3>2. [d \in Days |-> review[d].pnl]
            = [d \in Days |-> SumFunctionOnSet(Gains, {n \in Ended : DayOfClose[n] = d})]
      BY <2>6 DEF Counts, EndedOn
    <3>. QED
      BY <2>2, <3>1, <3>2 DEF Counts
  <2>8. SumFunctionOnSet([d \in Days |-> review[d].closed + review[d].expired], Days)
          = RT!Review(0, 0).closed + RT!Review(0, 0).expired
    <3>1. SumFunctionOnSet([d \in Days |-> Cardinality({n \in Ended : DayOfClose[n] = d})], Days)
            = Cardinality(Ended)
      BY <2>3, <2>4, CountOfParts
    <3>2. [d \in Days |-> review[d].closed + review[d].expired]
            = [d \in Days |-> Cardinality({n \in Ended : DayOfClose[n] = d})]
      BY <2>6 DEF Counts, EndedOn
    <3>. QED
      BY <2>2, <3>1, <3>2 DEF Counts
  <2>9. SumFunctionOnSet([d \in Days |-> review[d].wins], Days) = RT!Review(0, 0).wins
    <3>1. PICK won : won = {n \in Ended : Gains[n] > 0}
      BY Zenon
    <3>2. IsFiniteSet(won) /\ \A n \in won : DayOfClose[n] \in Days
      BY <2>3, <3>1, FS_Subset
    <3>3. SumFunctionOnSet([d \in Days |-> Cardinality({n \in won : DayOfClose[n] = d})], Days)
            = Cardinality(won)
      BY <2>4, <3>2, CountOfParts
    <3>4. \A d : {n \in EndedOn(d) : Gains[n] > 0} = {n \in won : DayOfClose[n] = d}
      BY <3>1 DEF EndedOn
    <3>5. [d \in Days |-> review[d].wins]
            = [d \in Days |-> Cardinality({n \in won : DayOfClose[n] = d})]
      BY <2>6, <3>4 DEF Counts
    <3>. QED
      BY <2>2, <3>1, <3>3, <3>5 DEF Counts
  <2>. QED
    BY <2>5, <2>7, <2>8, <2>9, Zenon DEF RT!ReviewsAddUp, Days, review
<1>. QED
  BY <1>1, AlwaysDated, PTL

-----------------------------------------------------------------------------
(* The reference of the round trips. *)

-----------------------------------------------------------------------------
(* The reference.  Both sides of the position are reckoned fill by fill.    *)

LEMMA SameSums == \A f, S : RT!SumFunctionOnSet(f, S) = SumFunctionOnSet(f, S)
BY Zenon DEF RT!SumFunctionOnSet, SumFunctionOnSet, RT!FoldFunctionOnSet,
   FoldFunctionOnSet, RT!MapThenFoldSet, MapThenFoldSet

LEMMA SumsRise ==
    ASSUME NEW N \in Nat, NEW f, \A m \in 1 .. N : f[m] \in Int
    PROVE  /\ RT!SumTo(0, f) = 0
           /\ \A n \in 0 .. N : RT!SumTo(n, f) \in Int
           /\ \A n \in 1 .. N : RT!SumTo(n, f) = RT!SumTo(n - 1, f) + f[n]
<1>1. \A n : RT!SumTo(n, f) = SumFunctionOnSet(f, 1 .. n)
  BY SameSums DEF RT!SumTo
<1>2. RT!SumTo(0, f) = 0
  <2>1. 1 .. 0 = {}
    OBVIOUS
  <2>. QED
    BY <1>1, <2>1, SumOfNone
<1>3. ASSUME NEW n \in 0 .. N
      PROVE  IsFiniteSet(1 .. n) /\ RT!SumTo(n, f) \in Int
  <2>1. IsFiniteSet(1 .. n)
    BY FS_Interval
  <2>2. \A m \in 1 .. n : f[m] \in Int
    OBVIOUS
  <2>. QED
    BY <1>1, <2>1, <2>2, SumIsNumber
<1>4. ASSUME NEW n \in 1 .. N
      PROVE  RT!SumTo(n, f) = RT!SumTo(n - 1, f) + f[n]
  <2>1. PICK S : S = 1 .. n - 1
    BY Zenon
  <2>2. 1 .. n = S \cup {n} /\ n \notin S /\ n - 1 \in 0 .. N
    BY <2>1
  <2>3. IsFiniteSet(S)
    BY <1>3, <2>1, <2>2
  <2>4. \A m \in S \cup {n} : f[m] \in Int
    BY <2>1
  <2>5. SumFunctionOnSet(f, S \cup {n}) = SumFunctionOnSet(f, S) + f[n]
    BY <2>2, <2>3, <2>4, SumOfMore
  <2>6. RT!SumTo(n, f) = SumFunctionOnSet(f, S \cup {n})
    BY <1>1, <2>2, Zenon
  <2>7. RT!SumTo(n - 1, f) = SumFunctionOnSet(f, S)
    BY <1>1, <2>1, Zenon
  <2>. QED
    BY <2>5, <2>6, <2>7, Zenon
<1>. QED
  BY <1>2, <1>3, <1>4

LEMMA FillsAreNumbered ==
    ASSUME RT!ProperFills
    PROVE  /\ Len(input) \in Nat /\ DOMAIN input = 1 .. Len(input)
           /\ \A n \in DOMAIN input :
                 input[n].qty \in Nat \ {0} /\ input[n].side \in {"BOT", "SLD"}
<1>1. Len(input) \in Nat /\ DOMAIN input = 1 .. Len(input)
  BY DEF RT!ProperFills
<1>. QED
  BY <1>1, FillTyped

LEMMA PositionRises ==
    ASSUME RT!ProperFills
    PROVE  /\ RT!Position(1) = 0
           /\ \A n \in 1 .. Len(input) + 1 : RT!Position(n) \in Int
           /\ \A n \in DOMAIN input : RT!Position(n + 1) = RT!Position(n) + RT!Signed(input[n])
<1>1. PICK f : f = [m \in DOMAIN input |-> RT!Signed(input[m])]
  BY Zenon
<1>2. \A n : RT!Position(n) = RT!SumTo(n - 1, f)
  BY <1>1, Zenon DEF RT!Position
<1>3. PICK N \in Nat : N = Len(input) /\ DOMAIN input = 1 .. N
  BY FillsAreNumbered
<1>4. \A m \in 1 .. N : f[m] \in Int /\ f[m] = RT!Signed(input[m])
  <2>1. ASSUME NEW m \in 1 .. N PROVE RT!Signed(input[m]) \in Int
    BY <1>3, FillsAreNumbered DEF RT!Signed
  <2>. QED
    BY <1>1, <1>3, <2>1
<1>5. /\ RT!SumTo(0, f) = 0
      /\ \A n \in 0 .. N : RT!SumTo(n, f) \in Int
      /\ \A n \in 1 .. N : RT!SumTo(n, f) = RT!SumTo(n - 1, f) + f[n]
  BY <1>4, SumsRise
<1>6. \A n \in 1 .. N + 1 : n - 1 \in 0 .. N
  OBVIOUS
<1>7. \A n \in 1 .. N : (n + 1) - 1 = n
  OBVIOUS
<1>8. 1 - 1 = 0
  OBVIOUS
<1>9. RT!Position(1) = 0
  BY <1>2, <1>5, <1>8
<1>10. \A n \in 1 .. N + 1 : RT!Position(n) \in Int
  BY <1>2, <1>5, <1>6
<1>11. \A n \in 1 .. N : RT!Position(n + 1) = RT!Position(n) + RT!Signed(input[n])
  <2>1. ASSUME NEW n \in 1 .. N
        PROVE  RT!Position(n + 1) = RT!Position(n) + RT!Signed(input[n])
    <3>1. RT!Position(n + 1) = RT!SumTo(n, f)
      BY <1>2, <1>7
    <3>2. RT!SumTo(n, f) = RT!SumTo(n - 1, f) + f[n]
      BY <1>5
    <3>. QED
      BY <1>2, <1>4, <3>1, <3>2
  <2>. QED
    BY <2>1
<1>. QED
  BY <1>3, <1>9, <1>10, <1>11

(* What is held of a side grows by what a fill opens and shrinks by what it *)
(* closes.                                                                  *)
LEMMA HeldRises ==
    ASSUME RT!ProperFills, NEW side \in {"BOT", "SLD"}
    PROVE  /\ RT!Held(side, 1) = 0
           /\ \A n \in 1 .. Len(input) + 1 : RT!Held(side, n) \in Nat
           /\ \A n \in DOMAIN input :
                 /\ RT!Opens(side, n) \in Nat /\ RT!Closes(side, n) \in Nat
                 /\ RT!Held(side, n + 1)
                      = RT!Held(side, n) + RT!Opens(side, n) - RT!Closes(side, n)
<1>1. RT!Held(side, 1) = 0
  BY PositionRises DEF RT!Held, RT!Positive
<1>2. \A n \in 1 .. Len(input) + 1 : RT!Held(side, n) \in Nat
  BY PositionRises DEF RT!Held, RT!Positive
<1>3. ASSUME NEW n \in DOMAIN input
      PROVE  /\ RT!Opens(side, n) \in Nat /\ RT!Closes(side, n) \in Nat
             /\ RT!Held(side, n + 1)
                      = RT!Held(side, n) + RT!Opens(side, n) - RT!Closes(side, n)
  <2>1. PICK q \in Nat : q = input[n].qty
    BY FillsAreNumbered
  <2>2. input[n].side \in {"BOT", "SLD"}
    BY FillsAreNumbered
  <2>3. PICK p \in Int : p = RT!Position(n)
    <3>1. n \in 1 .. Len(input) + 1
      BY FillsAreNumbered
    <3>. QED
      BY <3>1, PositionRises
  <2>4. RT!Position(n + 1) = p + (IF input[n].side = "BOT" THEN q ELSE -q)
    BY <2>1, <2>3, PositionRises DEF RT!Signed
  <2>5. /\ RT!Held("BOT", n) = (IF p > 0 THEN p ELSE 0)
        /\ RT!Held("SLD", n) = (IF -p > 0 THEN -p ELSE 0)
    BY <2>3 DEF RT!Held, RT!Positive
  <2>6. /\ RT!Held("BOT", n + 1) = (IF RT!Position(n + 1) > 0 THEN RT!Position(n + 1) ELSE 0)
        /\ RT!Held("SLD", n + 1) = (IF -RT!Position(n + 1) > 0 THEN -RT!Position(n + 1) ELSE 0)
    BY DEF RT!Held, RT!Positive
  <2>7. \A s \in {"BOT", "SLD"} :
            RT!Closes(s, n) = IF input[n].side = s THEN 0
                              ELSE IF q < RT!Held(s, n) THEN q ELSE RT!Held(s, n)
    BY <2>1 DEF RT!Closes, RT!Lesser
  <2>8. /\ RT!Opens("BOT", n) = IF input[n].side # "BOT" THEN 0 ELSE q - RT!Closes("SLD", n)
        /\ RT!Opens("SLD", n) = IF input[n].side # "SLD" THEN 0 ELSE q - RT!Closes("BOT", n)
    BY <2>1 DEF RT!Opens, RT!Other
  <2>9. CASE input[n].side = "BOT"
    <3>1. /\ RT!Closes("BOT", n) = 0
          /\ RT!Closes("SLD", n) = IF q < RT!Held("SLD", n) THEN q ELSE RT!Held("SLD", n)
          /\ RT!Opens("BOT", n) = q - RT!Closes("SLD", n) /\ RT!Opens("SLD", n) = 0
          /\ RT!Position(n + 1) = p + q
      BY <2>4, <2>7, <2>8, <2>9
    <3>. QED
      BY <2>5, <2>6, <3>1
  <2>10. CASE input[n].side = "SLD"
    <3>1. /\ RT!Closes("SLD", n) = 0
          /\ RT!Closes("BOT", n) = IF q < RT!Held("BOT", n) THEN q ELSE RT!Held("BOT", n)
          /\ RT!Opens("SLD", n) = q - RT!Closes("BOT", n) /\ RT!Opens("BOT", n) = 0
          /\ RT!Position(n + 1) = p - q
      BY <2>4, <2>7, <2>8, <2>10
    <3>. QED
      BY <2>5, <2>6, <3>1
  <2>. QED
    BY <2>2, <2>9, <2>10
<1>. QED
  BY <1>1, <1>2, <1>3

(* A tally of units never falls.                                            *)
LEMMA TallyRises ==
    ASSUME NEW N \in Nat, NEW g, \A n \in 0 .. N : g[n] \in Int,
           \A n \in 1 .. N : g[n - 1] <= g[n]
    PROVE  \A m, n \in 0 .. N : m <= n => g[m] <= g[n]
<1>1. SUFFICES ASSUME NEW m \in 0 .. N, NEW e \in 0 .. N, m <= e, ~ (g[m] <= g[e])
               PROVE  FALSE
  OBVIOUS
<1>. DEFINE T == {n \in m .. N : ~ (g[m] <= g[n])}
<1>2. T \subseteq Nat /\ T # {}
  BY <1>1
<1>3. PICK n \in T : \A k \in T : n <= k
  BY <1>2, LeastNumber
<1>4. n # m /\ n \in 1 .. N /\ n - 1 \in m .. N /\ n - 1 \in 0 .. N /\ n \in 0 .. N
  BY <1>1, <1>3
<1>5. n - 1 \notin T
  BY <1>3, <1>4
<1>6. g[m] <= g[n - 1] /\ g[n - 1] <= g[n]
  BY <1>4, <1>5
<1>7. g[m] \in Int /\ g[n - 1] \in Int /\ g[n] \in Int
  BY <1>1, <1>4
<1>8. g[m] <= g[n]
  BY <1>6, <1>7
<1>. QED
  BY <1>3, <1>8

OpenedUp(side) == [n \in 0 .. Len(input) |-> RT!OpenedBy(side, n)]
ClosedUp(side) == [n \in 0 .. Len(input) |-> RT!ClosedBy(side, n)]

Tally(g) ==
    /\ \A n \in 0 .. Len(input) : g[n] \in Nat
    /\ g[0] = 0
    /\ \A m, n \in 0 .. Len(input) : m <= n => g[m] <= g[n]

LEMMA SumsAreTallies ==
    ASSUME RT!ProperFills, NEW f, \A n \in DOMAIN input : f[n] \in Nat,
           NEW g, \A n \in 0 .. Len(input) : g[n] = RT!SumTo(n, f)
    PROVE  Tally(g) /\ \A n \in DOMAIN input : g[n] = g[n - 1] + f[n]
<1>1. PICK N \in Nat : N = Len(input) /\ DOMAIN input = 1 .. N
  BY FillsAreNumbered
<1>2. /\ RT!SumTo(0, f) = 0
      /\ \A n \in 0 .. N : RT!SumTo(n, f) \in Int
      /\ \A n \in 1 .. N : RT!SumTo(n, f) = RT!SumTo(n - 1, f) + f[n]
  <2>1. \A m \in 1 .. N : f[m] \in Int
    BY <1>1
  <2>. QED
    BY <2>1, SumsRise
<1>3. /\ g[0] = 0 /\ \A n \in 0 .. N : g[n] \in Int
      /\ \A n \in 1 .. N : g[n] = g[n - 1] + f[n] /\ f[n] \in Nat
  <2>1. 0 \in 0 .. N /\ \A n \in 1 .. N : n \in 0 .. N /\ n - 1 \in 0 .. N
    OBVIOUS
  <2>2. \A n \in 0 .. N : g[n] = RT!SumTo(n, f)
    BY <1>1
  <2>3. \A n \in 1 .. N : g[n] = g[n - 1] + f[n]
    BY <1>2, <2>1, <2>2, Zenon
  <2>4. g[0] = 0
    BY <1>2, <2>1, <2>2, Zenon
  <2>. QED
    BY <1>1, <1>2, <2>2, <2>3, <2>4
<1>4. \A n \in 1 .. N : g[n - 1] <= g[n]
  <2>1. \A n \in 1 .. N : n - 1 \in 0 .. N
    OBVIOUS
  <2>. QED
    BY <1>3, <2>1
<1>5. \A m, n \in 0 .. N : m <= n => g[m] <= g[n]
  BY <1>3, <1>4, TallyRises
<1>6. \A n \in 0 .. N : g[n] \in Nat
  <2>1. ASSUME NEW n \in 0 .. N PROVE g[n] \in Nat
    <3>1. 0 \in 0 .. N /\ 0 <= n
      OBVIOUS
    <3>2. g[0] <= g[n] /\ g[n] \in Int
      BY <1>3, <1>5, <3>1
    <3>. QED
      BY <1>3, <3>2
  <2>. QED
    BY <2>1
<1>. QED
  BY <1>1, <1>3, <1>5, <1>6 DEF Tally

(* ... and what is held is what was opened and has not been closed.         *)
LEMMA Reckoned ==
    ASSUME RT!ProperFills, NEW side \in {"BOT", "SLD"}
    PROVE  /\ Tally(OpenedUp(side)) /\ Tally(ClosedUp(side))
           /\ \A n \in DOMAIN input :
                 /\ RT!Opens(side, n) \in Nat /\ RT!Closes(side, n) \in Nat
                 /\ OpenedUp(side)[n] = OpenedUp(side)[n - 1] + RT!Opens(side, n)
                 /\ ClosedUp(side)[n] = ClosedUp(side)[n - 1] + RT!Closes(side, n)
                 /\ RT!Held(side, n) = OpenedUp(side)[n - 1] - ClosedUp(side)[n - 1]
<1>1. PICK N \in Nat : N = Len(input) /\ DOMAIN input = 1 .. N
  BY FillsAreNumbered
<1>2. PICK ob : ob = OpenedUp(side)
  BY Zenon
<1>3. PICK cb : cb = ClosedUp(side)
  BY Zenon
<1>4. PICK f : f = [m \in DOMAIN input |-> RT!Opens(side, m)]
  BY Zenon
<1>5. PICK g : g = [m \in DOMAIN input |-> RT!Closes(side, m)]
  BY Zenon
<1>6. \A n \in DOMAIN input : /\ f[n] = RT!Opens(side, n) /\ f[n] \in Nat
                              /\ g[n] = RT!Closes(side, n) /\ g[n] \in Nat
  BY <1>4, <1>5, HeldRises
<1>7. \A n \in 0 .. Len(input) : ob[n] = RT!SumTo(n, f) /\ cb[n] = RT!SumTo(n, g)
  <2>1. \A n : RT!OpenedBy(side, n) = RT!SumTo(n, f)
    BY <1>4, Zenon DEF RT!OpenedBy
  <2>2. \A n : RT!ClosedBy(side, n) = RT!SumTo(n, g)
    BY <1>5, Zenon DEF RT!ClosedBy
  <2>. QED
    BY <1>2, <1>3, <2>1, <2>2, Zenon DEF OpenedUp, ClosedUp
<1>8. Tally(ob) /\ \A n \in DOMAIN input : ob[n] = ob[n - 1] + f[n]
  BY <1>6, <1>7, SumsAreTallies
<1>9. Tally(cb) /\ \A n \in DOMAIN input : cb[n] = cb[n - 1] + g[n]
  BY <1>6, <1>7, SumsAreTallies
<1>10. \A n \in DOMAIN input : RT!Held(side, n) = ob[n - 1] - cb[n - 1]
  <2>. DEFINE T == {n \in DOMAIN input : RT!Held(side, n) # ob[n - 1] - cb[n - 1]}
  <2>1. SUFFICES ASSUME T # {} PROVE FALSE
    OBVIOUS
  <2>2. T \subseteq Nat
    BY <1>1
  <2>3. PICK n \in T : \A k \in T : n <= k
    BY <2>1, <2>2, LeastNumber
  <2>4. n # 1
    <3>1. ob[0] = 0 /\ cb[0] = 0
      BY <1>8, <1>9 DEF Tally
    <3>2. RT!Held(side, 1) = ob[1 - 1] - cb[1 - 1]
      BY <3>1, HeldRises
    <3>. QED
      BY <2>3, <3>2
  <2>5. PICK m \in 1 .. N : n = m + 1 /\ m \in DOMAIN input
    <3>1. n - 1 \in 1 .. N /\ n = (n - 1) + 1
      BY <1>1, <2>3, <2>4
    <3>. QED
      BY <1>1, <3>1
  <2>6. RT!Held(side, m) = ob[m - 1] - cb[m - 1]
    BY <2>3, <2>5
  <2>7. RT!Held(side, m + 1) = RT!Held(side, m) + f[m] - g[m]
    BY <1>6, <2>5, HeldRises
  <2>8. ob[m] = ob[m - 1] + f[m] /\ cb[m] = cb[m - 1] + g[m]
    BY <1>8, <1>9, <2>5
  <2>9. ob[m - 1] \in Nat /\ cb[m - 1] \in Nat /\ f[m] \in Nat /\ g[m] \in Nat
    <3>1. m - 1 \in 0 .. Len(input)
      BY <1>1
    <3>. QED
      BY <1>6, <1>8, <1>9, <2>5, <3>1 DEF Tally
  <2>10. RT!Held(side, m + 1) = ob[m] - cb[m]
    BY <2>6, <2>7, <2>8, <2>9
  <2>11. (m + 1) - 1 = m
    OBVIOUS
  <2>. QED
    BY <2>3, <2>5, <2>10, <2>11
<1>. QED
  BY <1>2, <1>3, <1>6, <1>8, <1>9, <1>10

(* The units that are opened and not closed are in the lots: closed of them *)
(* are closed by the fills before done and what was taken of the next.      *)
Larger(a, b) == IF a > b THEN a ELSE b

InStock(lots, ob, done, closed) ==
    /\ done \in 0 .. Len(input) /\ closed \in Nat /\ closed <= ob[done]
    /\ \A k \in DOMAIN lots : \A i \in DOMAIN input : lots[k].id = input[i].id
          => i <= done /\ lots[k].qty = ob[i] - Larger(ob[i - 1], closed)
    /\ \A i \in DOMAIN input : i <= done /\ ob[i - 1] < ob[i] /\ closed < ob[i]
          => ~ Gone(lots, input[i].id)

LEMMA TallyAt ==
    ASSUME RT!ProperFills, NEW g, Tally(g), NEW i \in DOMAIN input
    PROVE  i \in Nat /\ i >= 1 /\ g[i] \in Nat /\ g[i - 1] \in Nat /\ g[i - 1] <= g[i]
<1>1. PICK N \in Nat : N = Len(input) /\ DOMAIN input = 1 .. N
  BY FillsAreNumbered
<1>2. i \in 0 .. N /\ i - 1 \in 0 .. N /\ i - 1 <= i
  BY <1>1
<1>. QED
  BY <1>1, <1>2 DEF Tally

LEMMA FrontOfStock ==
    ASSUME RT!ProperFills, NEW ob, Tally(ob), NEW side, NEW lots, LotsFit(lots, side),
           NEW done, NEW closed, InStock(lots, ob, done, closed)
    PROVE  /\ lots = <<>> => closed = ob[done]
           /\ lots # <<>> => \E m \in DOMAIN input :
                 /\ m <= done /\ ob[m - 1] <= closed /\ closed < ob[m]
                 /\ lots[1].id = input[m].id /\ lots[1].qty = ob[m] - closed
                 /\ \A k \in DOMAIN lots : \A i \in DOMAIN input :
                       k # 1 /\ lots[k].id = input[i].id => m < i
<1>. DEFINE T == {m \in DOMAIN input : m <= done /\ closed < ob[m]}
<1>1. PICK N \in Nat : N = Len(input) /\ DOMAIN input = 1 .. N
  BY FillsAreNumbered
<1>2. /\ done \in 0 .. N /\ closed \in Nat /\ closed <= ob[done]
      /\ \A n \in 0 .. N : ob[n] \in Nat
      /\ ob[0] = 0 /\ \A m, n \in 0 .. N : m <= n => ob[m] <= ob[n]
  BY <1>1 DEF InStock, Tally
<1>3. ASSUME T # {}
      PROVE  \E m \in T : /\ ob[m - 1] <= closed /\ \A n \in T : m <= n
                          /\ \E k \in DOMAIN lots : lots[k].id = input[m].id
  <2>1. T \subseteq Nat
    BY <1>1
  <2>2. PICK m \in T : \A n \in T : m <= n
    BY <1>3, <2>1, LeastNumber
  <2>3. m \in 1 .. N /\ m <= done /\ closed < ob[m] /\ m - 1 \in 0 .. N
    BY <1>1
  <2>4. ob[m - 1] <= closed
    <3>1. CASE m = 1
      BY <1>2, <3>1
    <3>2. CASE m # 1
      <4>1. m - 1 \in 1 .. N /\ m - 1 <= done /\ ~ (m <= m - 1)
        BY <1>2, <2>3, <3>2
      <4>2. ~ (closed < ob[m - 1])
        BY <1>1, <2>2, <4>1
      <4>. QED
        BY <1>2, <2>3, <4>2
    <3>. QED
      BY <3>1, <3>2
  <2>5. ob[m - 1] < ob[m]
    <3>1. ob[m] \in Nat /\ ob[m - 1] \in Nat /\ closed \in Nat
      BY <1>2, <2>3
    <3>. QED
      BY <2>3, <2>4, <3>1
  <2>6. \E k \in DOMAIN lots : lots[k].id = input[m].id
    BY <2>3, <2>5 DEF InStock, Gone
  <2>. QED
    BY <2>2, <2>4, <2>6
<1>4. lots = <<>> => closed = ob[done]
  <2>1. SUFFICES ASSUME lots = <<>>, closed # ob[done] PROVE FALSE
    OBVIOUS
  <2>2. closed < ob[done] /\ done # 0
    BY <1>2, <2>1
  <2>3. done \in T
    BY <1>1, <1>2, <2>2
  <2>4. PICK k \in DOMAIN lots : TRUE
    BY <1>3, <2>3
  <2>. QED
    BY <2>1, <2>4
<1>5. ASSUME lots # <<>>
      PROVE  \E m \in DOMAIN input :
                 /\ m <= done /\ ob[m - 1] <= closed /\ closed < ob[m]
                 /\ lots[1].id = input[m].id /\ lots[1].qty = ob[m] - closed
                 /\ \A k \in DOMAIN lots : \A i \in DOMAIN input :
                       k # 1 /\ lots[k].id = input[i].id => m < i
  <2>1. 1 \in DOMAIN lots /\ DOMAIN lots \subseteq Nat \ {0}
    BY <1>5 DEF LotsFit
  <2>2. PICK i \in DOMAIN input : LotIs(lots[1], i)
    BY <2>1 DEF LotsFit
  <2>3. /\ lots[1].id = input[i].id /\ lots[1].qty > 0
        /\ i <= done /\ lots[1].qty = ob[i] - Larger(ob[i - 1], closed)
    BY <2>1, <2>2, FillTyped DEF LotIs, InStock
  <2>4. ob[i] \in Nat /\ ob[i - 1] \in Nat
    BY TallyAt
  <2>5. closed < ob[i]
    BY <1>2, <2>3, <2>4 DEF Larger
  <2>6. i \in T
    BY <2>3, <2>5
  <2>7. PICK m \in T : /\ ob[m - 1] <= closed /\ \A n \in T : m <= n
                       /\ \E k \in DOMAIN lots : lots[k].id = input[m].id
    BY <1>3, <2>6
  <2>8. PICK k \in DOMAIN lots : lots[k].id = input[m].id
    BY <2>7
  <2>9. k = 1
    <3>1. SUFFICES ASSUME k # 1 PROVE FALSE
      OBVIOUS
    <3>2. 1 < k
      BY <2>1, <3>1
    <3>3. lots[1].id # lots[k].id /\ RT!NotAfter(lots[1].id, lots[k].id)
      BY <2>1, <3>2 DEF LotsFit, Elder
    <3>4. i <= m /\ m <= i
      BY <2>3, <2>6, <2>7, <2>8, <3>3 DEF RT!NotAfter
    <3>5. i = m
      BY <1>1, <3>4
    <3>. QED
      BY <2>3, <2>8, <3>3, <3>5
  <2>10. lots[1].qty = ob[m] - closed
    <3>1. lots[1].qty = ob[m] - Larger(ob[m - 1], closed)
      BY <2>1, <2>8, <2>9 DEF InStock
    <3>2. ob[m - 1] \in Nat
      BY TallyAt
    <3>. QED
      BY <1>2, <2>7, <3>1, <3>2 DEF Larger
  <2>11. ASSUME NEW l \in DOMAIN lots, NEW j \in DOMAIN input, l # 1, lots[l].id = input[j].id
         PROVE  m < j
    <3>1. 1 < l
      BY <2>1, <2>11
    <3>2. lots[1].id # lots[l].id /\ RT!NotAfter(lots[1].id, lots[l].id)
      BY <2>1, <3>1 DEF LotsFit, Elder
    <3>3. m <= j
      BY <2>8, <2>9, <2>11, <3>2 DEF RT!NotAfter
    <3>4. m # j
      BY <2>8, <2>9, <2>11, <3>2
    <3>. QED
      BY <1>1, <3>3, <3>4
  <2>. QED
    BY <2>7, <2>8, <2>9, <2>10, <2>11
<1>. QED
  BY <1>4, <1>5

LEMMA StockLess ==
    ASSUME RT!ProperFills, InHand, NEW ob, Tally(ob), NEW side, NEW lots, LotsFit(lots, side),
           NEW done, NEW closed, InStock(lots, ob, done, closed), lots # <<>>,
           NEW take \in Nat, 0 < take, take <= Head(lots).qty
    PROVE  InStock(RT!Reduce(lots, take), ob, done, closed + take)
<1>. DEFINE left == RT!Reduce(lots, take)
<1>1. PICK m \in DOMAIN input :
         /\ m <= done /\ ob[m - 1] <= closed /\ closed < ob[m]
         /\ lots[1].id = input[m].id /\ lots[1].qty = ob[m] - closed
         /\ \A k \in DOMAIN lots : \A i \in DOMAIN input :
               k # 1 /\ lots[k].id = input[i].id => m < i
  BY FrontOfStock
<1>2. LeftOf(left, lots, take)
  BY Reduced
<1>. HIDE DEF left
<1>3. Head(lots) = lots[1] /\ 1 \in DOMAIN lots /\ DOMAIN lots \subseteq Nat
  BY DEF LotsFit
<1>4. /\ done \in 0 .. Len(input) /\ Len(input) \in Nat /\ DOMAIN input = 1 .. Len(input)
      /\ closed \in Nat /\ closed <= ob[done] /\ ob[done] \in Nat
      /\ \A m1, n \in 0 .. Len(input) : m1 <= n => ob[m1] <= ob[n]
  BY FillsAreNumbered DEF InStock, Tally
<1>5. \A i \in DOMAIN input : i \in Nat /\ ob[i] \in Nat /\ ob[i - 1] \in Nat /\ ob[i - 1] <= ob[i]
  BY TallyAt
<1>6. closed + take <= ob[m] /\ ob[m] <= ob[done] /\ closed + take \in Nat
  <2>1. m \in 0 .. Len(input)
    BY <1>4
  <2>. QED
    BY <1>1, <1>3, <1>4, <1>5, <2>1
<1>7. ASSUME NEW i \in DOMAIN input, m < i
      PROVE  ob[m] <= ob[i - 1]
  <2>1. m \in 0 .. Len(input) /\ i - 1 \in 0 .. Len(input) /\ m <= i - 1
    BY <1>4, <1>7
  <2>. QED
    BY <1>4, <2>1
<1>8. \A i, j \in DOMAIN input : input[i].id = input[j].id => i = j
  BY <1>4 DEF RT!ProperFills
<1>9. ASSUME NEW k \in DOMAIN left, NEW i \in DOMAIN input, left[k].id = input[i].id
      PROVE  i <= done /\ left[k].qty = ob[i] - Larger(ob[i - 1], closed + take)
  <2>1. PICK l \in DOMAIN lots : /\ left[k].id = lots[l].id
                                 /\ left[k].qty = lots[l].qty - (IF l = 1 THEN take ELSE 0)
    BY <1>2 DEF LeftOf
  <2>2. i <= done /\ lots[l].qty = ob[i] - Larger(ob[i - 1], closed)
    BY <1>9, <2>1 DEF InStock
  <2>3. CASE l = 1
    <3>1. i = m
      BY <1>1, <1>8, <1>9, <2>1, <2>3
    <3>2. left[k].qty = (ob[m] - closed) - take
      BY <1>1, <2>1, <2>3
    <3>. QED
      BY <1>1, <1>4, <1>5, <1>6, <2>2, <3>1, <3>2 DEF Larger
  <2>4. CASE l # 1
    <3>1. m < i
      BY <1>1, <1>9, <2>1, <2>4
    <3>2. ob[m] <= ob[i - 1]
      BY <1>7, <3>1
    <3>3. Larger(ob[i - 1], closed + take) = ob[i - 1] /\ Larger(ob[i - 1], closed) = ob[i - 1]
      <4>1. PICK a \in Nat, d \in Nat : a = ob[i - 1] /\ d = ob[m] /\ d <= a /\ closed + take <= d
        BY <1>5, <1>6, <3>2
      <4>2. Larger(a, closed + take) = a /\ Larger(a, closed) = a
        BY <1>4, <4>1 DEF Larger
      <4>. QED
        BY <4>1, <4>2
    <3>4. left[k].qty = (ob[i] - ob[i - 1]) - 0
      BY <2>1, <2>2, <2>4, <3>3
    <3>. QED
      BY <1>5, <2>2, <3>3, <3>4
  <2>. QED
    BY <2>3, <2>4
<1>10. ASSUME NEW i \in DOMAIN input, i <= done, ob[i - 1] < ob[i], closed + take < ob[i]
       PROVE  ~ Gone(left, input[i].id)
  <2>1. closed < ob[i]
    BY <1>4, <1>5, <1>10
  <2>2. PICK l \in DOMAIN lots : lots[l].id = input[i].id
    BY <1>10, <2>1 DEF InStock, Gone
  <2>3. l # 1 \/ lots[1].qty # take
    <3>1. SUFFICES ASSUME l = 1, lots[1].qty = take PROVE FALSE
      OBVIOUS
    <3>2. i = m
      BY <1>1, <1>8, <2>2, <3>1
    <3>. QED
      BY <1>1, <1>4, <1>5, <1>10, <3>1, <3>2
  <2>4. \E k \in DOMAIN left : left[k].id = lots[l].id
    BY <1>2, <2>3 DEF LeftOf
  <2>. QED
    BY <2>2, <2>4 DEF Gone
<1>11. closed + take <= ob[done]
  BY <1>4, <1>5, <1>6
<1>. QED
  BY <1>4, <1>6, <1>9, <1>10, <1>11 DEF InStock, left

(* A fill that has closed what it can is done with: the rest of it is a lot *)
(* of its side.                                                             *)
LEMMA StockMore ==
    ASSUME RT!ProperFills, InHand, mpc = "match", NEW ob, Tally(ob),
           NEW side, NEW lots, LotsFit(lots, side),
           NEW done, done = Taken - 1, NEW closed, InStock(lots, ob, done, closed)
    PROVE  /\ ob[Taken] = ob[done] => InStock(lots, ob, Taken, closed)
           /\ ob[Taken] = ob[done] + hand.qty => InStock(RT!OpenLot(lots), ob, Taken, closed)
<1>1. /\ Len(input) \in Nat /\ DOMAIN input = 1 .. Len(input)
      /\ Taken \in DOMAIN input /\ hand.id = input[Taken].id /\ hand.qty \in Nat
  <2>1. Len(input) \in Nat /\ DOMAIN input = 1 .. Len(input)
    BY FillsAreNumbered
  <2>2. Taken \in Nat /\ Taken >= 1 /\ Taken <= Len(input)
    BY <2>1, TakenWhole DEF InHand, Taken
  <2>. QED
    BY <2>1, <2>2 DEF InHand, Hands
<1>2. /\ Taken \in 0 .. Len(input) /\ done \in Nat /\ closed \in Nat
      /\ closed <= ob[done] /\ ob[done] \in Nat /\ ob[Taken] \in Nat /\ ob[done] <= ob[Taken]
  BY <1>1, TallyAt DEF InStock
<1>3. \A i \in DOMAIN input : i <= Taken => i <= done \/ i = Taken
  BY <1>1, <1>2
<1>4. \A i \in DOMAIN input : i <= done => i <= Taken
  BY <1>1, <1>2
<1>5. closed <= ob[Taken]
  BY <1>2
<1>6. \A i, j \in DOMAIN input : input[i].id = input[j].id => i = j
  BY <1>1 DEF RT!ProperFills
<1>7. ASSUME ob[Taken] = ob[done] PROVE InStock(lots, ob, Taken, closed)
  <2>1. ~ (ob[Taken - 1] < ob[Taken])
    BY <1>2, <1>7
  <2>2. \A i \in DOMAIN input : i <= Taken /\ ob[i - 1] < ob[i] => i <= done
    BY <1>3, <2>1
  <2>. QED
    BY <1>2, <1>4, <1>5, <2>2 DEF InStock
<1>8. ASSUME ob[Taken] = ob[done] + hand.qty PROVE InStock(RT!OpenLot(lots), ob, Taken, closed)
  <2>1. CASE ~ (hand.qty > 0)
    <3>1. RT!OpenLot(lots) = lots /\ ob[Taken] = ob[done]
      BY <1>1, <1>2, <1>8, <2>1 DEF RT!OpenLot
    <3>. QED
      BY <1>7, <3>1
  <2>2. CASE hand.qty > 0
    <3>. DEFINE more == RT!OpenLot(lots)
    <3>1. more = Append(lots, RT!AsLot) /\ RT!AsLot.id = hand.id /\ RT!AsLot.qty = hand.qty
      BY <2>2 DEF RT!OpenLot, RT!AsLot
    <3>2. /\ DOMAIN lots = 1 .. Len(lots) /\ Len(lots) \in Nat
          /\ DOMAIN more = 1 .. Len(lots) + 1 /\ more[Len(lots) + 1] = RT!AsLot
          /\ \A k \in DOMAIN lots : more[k] = lots[k]
      <4>1. lots \in Seq(Lot) /\ RT!AsLot \in Lot
        BY DEF LotsFit, InHand, Hands, RT!AsLot, Lot
      <4>. QED
        BY <3>1, <4>1
    <3>. HIDE DEF more
    <3>3. \A k \in DOMAIN more : k \in DOMAIN lots \/ k = Len(lots) + 1
      BY <3>2
    <3>4. Len(lots) + 1 \in DOMAIN more /\ DOMAIN lots \subseteq DOMAIN more
      BY <3>2
    <3>5. ASSUME NEW k \in DOMAIN more, NEW i \in DOMAIN input, more[k].id = input[i].id
          PROVE  i <= Taken /\ more[k].qty = ob[i] - Larger(ob[i - 1], closed)
      <4>1. CASE k \in DOMAIN lots
        BY <1>4, <3>2, <3>5, <4>1 DEF InStock
      <4>2. CASE k = Len(lots) + 1
        <5>1. more[k].id = input[Taken].id /\ more[k].qty = hand.qty
          BY <1>1, <3>1, <3>2, <4>2
        <5>2. i = Taken
          BY <1>1, <1>6, <3>5, <5>1
        <5>3. Larger(ob[i - 1], closed) = ob[done]
          BY <1>2, <5>2 DEF Larger
        <5>. QED
          BY <1>1, <1>2, <1>8, <5>1, <5>2, <5>3
      <4>. QED
        BY <3>3, <4>1, <4>2
    <3>6. ASSUME NEW i \in DOMAIN input, i <= Taken, ob[i - 1] < ob[i], closed < ob[i]
          PROVE  ~ Gone(more, input[i].id)
      <4>1. CASE i <= done
        <5>1. PICK k \in DOMAIN lots : lots[k].id = input[i].id
          BY <3>6, <4>1 DEF InStock, Gone
        <5>. QED
          BY <3>2, <3>4, <5>1 DEF Gone
      <4>2. CASE i = Taken
        BY <1>1, <3>1, <3>2, <3>4, <4>2 DEF Gone
      <4>. QED
        BY <1>3, <3>6, <4>1, <4>2
    <3>. QED
      BY <1>2, <1>5, <3>5, <3>6 DEF InStock, more
  <2>. QED
    BY <2>1, <2>2
<1>. QED
  BY <1>7, <1>8

(* What a closing takes is of the fill in front, and of no other.           *)
AmongOf(ob, i, from, to) == RT!Positive(RT!Lesser(ob[i], to) - Larger(ob[i - 1], from))

LEMMA AmongGrows ==
    ASSUME RT!ProperFills, NEW ob, Tally(ob), NEW m \in DOMAIN input, NEW i \in DOMAIN input,
           NEW from \in Nat, NEW closed \in Nat, NEW take \in Nat, 0 < take,
           from <= closed, ob[m - 1] <= closed, closed + take <= ob[m]
    PROVE  /\ AmongOf(ob, i, from, closed) \in Nat
           /\ AmongOf(ob, i, from, closed + take)
                = AmongOf(ob, i, from, closed) + (IF i = m THEN take ELSE 0)
<1>1. PICK a \in Nat, b \in Nat : a = ob[i - 1] /\ b = ob[i] /\ a <= b
  BY TallyAt
<1>2. PICK c \in Nat, d \in Nat : c = ob[m - 1] /\ d = ob[m] /\ c <= d
  BY TallyAt
<1>3. /\ Len(input) \in Nat /\ DOMAIN input = 1 .. Len(input)
      /\ \A m1, n \in 0 .. Len(input) : m1 <= n => ob[m1] <= ob[n]
  BY FillsAreNumbered DEF Tally
<1>4. i = m => a = c /\ b = d
  BY <1>1, <1>2
<1>5. i < m => b <= c
  <2>1. i < m => i \in 0 .. Len(input) /\ m - 1 \in 0 .. Len(input) /\ i <= m - 1
    BY <1>3
  <2>. QED
    BY <1>1, <1>2, <1>3, <2>1
<1>6. m < i => d <= a
  <2>1. m < i => m \in 0 .. Len(input) /\ i - 1 \in 0 .. Len(input) /\ m <= i - 1
    BY <1>3
  <2>. QED
    BY <1>1, <1>2, <1>3, <2>1
<1>7. i = m \/ i < m \/ m < i
  BY <1>3
<1>8. /\ AmongOf(ob, i, from, closed) = RT!Positive(RT!Lesser(b, closed) - Larger(a, from))
      /\ AmongOf(ob, i, from, closed + take)
           = RT!Positive(RT!Lesser(b, closed + take) - Larger(a, from))
  BY <1>1, Zenon DEF AmongOf
<1>9. c <= closed /\ closed + take <= d
  BY <1>2
<1>10. AmongOf(ob, i, from, closed) \in Nat
  BY <1>8 DEF RT!Positive, RT!Lesser, Larger
<1>11. CASE i = m
  BY <1>4, <1>8, <1>9, <1>11 DEF RT!Positive, RT!Lesser, Larger
<1>12. CASE i < m
  <2>1. i # m
    BY <1>3, <1>12
  <2>. QED
    BY <1>5, <1>8, <1>9, <1>12, <2>1 DEF RT!Positive, RT!Lesser, Larger
<1>13. CASE m < i
  <2>1. i # m
    BY <1>3, <1>13
  <2>. QED
    BY <1>6, <1>8, <1>9, <1>13, <2>1 DEF RT!Positive, RT!Lesser, Larger
<1>. QED
  BY <1>7, <1>10, <1>11, <1>12, <1>13

LEMMA AmongNone ==
    ASSUME RT!ProperFills, NEW ob, Tally(ob), NEW i \in DOMAIN input, NEW closed \in Nat
    PROVE  AmongOf(ob, i, closed, closed) = 0
<1>1. PICK a \in Nat, b \in Nat : a = ob[i - 1] /\ b = ob[i] /\ a <= b
  BY TallyAt
<1>2. RT!Positive(RT!Lesser(b, closed) - Larger(a, closed)) = 0
  BY DEF RT!Positive, RT!Lesser, Larger
<1>. QED
  BY <1>1, <1>2, Zenon DEF AmongOf

(* What trips have of a pair of fills.                                      *)
Pairing(ts, direction, i, j) ==
    {n \in DOMAIN ts :
        /\ ts[n].status = "closed" /\ ts[n].direction = direction
        /\ ts[n].openId = input[i].id /\ ts[n].closeId = input[j].id}

MatchedIn(ts, direction, i, j) ==
    SumFunctionOnSet([n \in DOMAIN ts |-> ts[n].qty], Pairing(ts, direction, i, j))

LEMMA MatchedIsIn ==
    \A direction, i, j : RT!Matched(direction, i, j) = MatchedIn(trips, direction, i, j)
BY SameSums, Zenon DEF RT!Matched, MatchedIn, Pairing

LEMMA MatchedGrows ==
    ASSUME NEW ts, IsSeq(ts), NEW more, IsSeq(more), DOMAIN ts \subseteq DOMAIN more,
           \A n \in DOMAIN ts : more[n] = ts[n], AreUnits(more), NEW direction, NEW i, NEW j
    PROVE  /\ Pairing(more, direction, i, j) \subseteq DOMAIN ts
                => MatchedIn(more, direction, i, j) = MatchedIn(ts, direction, i, j)
           /\ \A y \in Pairing(more, direction, i, j) \ DOMAIN ts :
                 Pairing(more, direction, i, j) \subseteq DOMAIN ts \cup {y}
                     => MatchedIn(more, direction, i, j)
                          = MatchedIn(ts, direction, i, j) + more[y].qty
<1>. DEFINE f == [n \in DOMAIN ts |-> ts[n].qty]
            e == [n \in DOMAIN more |-> more[n].qty]
            T == Pairing(ts, direction, i, j)
            U == Pairing(more, direction, i, j)
<1>1. /\ IsFiniteSet(T) /\ T \subseteq U /\ T \subseteq DOMAIN ts
      /\ \A n \in T : f[n] = e[n] /\ e[n] \in Int
      /\ \A n \in U : e[n] = more[n].qty /\ e[n] \in Int
      /\ \A n \in U : n \in DOMAIN ts => n \in T
  <2>1. DOMAIN ts = 1 .. Len(ts) /\ Len(ts) \in Nat
    BY DEF IsSeq
  <2>2. IsFiniteSet(DOMAIN ts)
    BY <2>1, FS_Interval
  <2>3. T \subseteq DOMAIN ts /\ U \subseteq DOMAIN more
    BY DEF Pairing
  <2>4. IsFiniteSet(T)
    BY <2>2, <2>3, FS_Subset
  <2>5. T \subseteq U /\ \A n \in U : n \in DOMAIN ts => n \in T
    BY DEF Pairing
  <2>6. \A n \in DOMAIN more : more[n].qty \in Int
    BY DEF AreUnits
  <2>7. \A n \in U : e[n] = more[n].qty /\ e[n] \in Int
    BY <2>3, <2>6
  <2>8. \A n \in T : f[n] = e[n]
    BY <2>3, <2>5
  <2>. QED
    BY <2>3, <2>4, <2>5, <2>7, <2>8
<1>2. /\ MatchedIn(ts, direction, i, j) = SumFunctionOnSet(f, T)
      /\ MatchedIn(more, direction, i, j) = SumFunctionOnSet(e, U)
  BY DEF MatchedIn
<1>. HIDE DEF f, e, T, U
<1>3. SumFunctionOnSet(f, T) = SumFunctionOnSet(e, T)
  BY <1>1, SumOfSame
<1>4. U \subseteq DOMAIN ts => U = T
  BY <1>1
<1>5. ASSUME NEW y \in U \ DOMAIN ts, U \subseteq DOMAIN ts \cup {y}
      PROVE  SumFunctionOnSet(e, U) = SumFunctionOnSet(e, T) + e[y]
  <2>1. U = T \cup {y} /\ y \notin T
    BY <1>1, <1>5
  <2>2. \A n \in T \cup {y} : e[n] \in Int
    BY <1>1, <1>5
  <2>. QED
    BY <1>1, <2>1, <2>2, SumOfMore
<1>6. ASSUME U \subseteq DOMAIN ts
      PROVE  MatchedIn(more, direction, i, j) = MatchedIn(ts, direction, i, j)
  BY <1>2, <1>3, <1>4, <1>6, Zenon
<1>7. ASSUME NEW y \in U \ DOMAIN ts, U \subseteq DOMAIN ts \cup {y}
      PROVE  MatchedIn(more, direction, i, j) = MatchedIn(ts, direction, i, j) + more[y].qty
  <2>1. e[y] = more[y].qty
    BY <1>1
  <2>2. SumFunctionOnSet(e, U) = SumFunctionOnSet(e, T) + e[y]
    BY <1>5, <1>7
  <2>. QED
    BY <1>2, <1>3, <2>1, <2>2, Zenon
<1>. QED
  BY <1>6, <1>7 DEF U

Pairs(new, direction, i, j) ==
    /\ new.status = "closed" /\ new.direction = direction
    /\ new.openId = input[i].id /\ new.closeId = input[j].id

LEMMA MatchedAppended ==
    ASSUME NEW ts, IsSeq(ts), AreUnits(ts), NEW new, new.qty \in Int,
           NEW direction, NEW i, NEW j
    PROVE  /\ Pairs(new, direction, i, j)
                => MatchedIn(Append(ts, new), direction, i, j)
                     = MatchedIn(ts, direction, i, j) + new.qty
           /\ ~ Pairs(new, direction, i, j)
                => MatchedIn(Append(ts, new), direction, i, j) = MatchedIn(ts, direction, i, j)
<1>. DEFINE more == Append(ts, new)
            N == Len(ts) + 1
            U == Pairing(more, direction, i, j)
<1>1. /\ IsSeq(more) /\ DOMAIN more = 1 .. N /\ \A n \in DOMAIN ts : more[n] = ts[n]
      /\ more[N] = new /\ DOMAIN ts = 1 .. Len(ts) /\ Len(ts) \in Nat
  BY Appended
<1>. HIDE DEF more
<1>2. /\ DOMAIN ts \subseteq DOMAIN more /\ N \in DOMAIN more /\ N \notin DOMAIN ts
      /\ DOMAIN more = DOMAIN ts \cup {N}
  BY <1>1
<1>. HIDE DEF N
<1>3. AreUnits(more)
  BY <1>1, <1>2 DEF AreUnits
<1>4. U \subseteq DOMAIN ts \cup {N}
  BY <1>2 DEF Pairing
<1>5. Pairs(new, direction, i, j) => N \in U \ DOMAIN ts
  BY <1>1, <1>2 DEF Pairing, Pairs
<1>6. ~ Pairs(new, direction, i, j) => U \subseteq DOMAIN ts
  BY <1>1, <1>2 DEF Pairing, Pairs
<1>7. /\ U \subseteq DOMAIN ts
           => MatchedIn(more, direction, i, j) = MatchedIn(ts, direction, i, j)
      /\ \A y \in U \ DOMAIN ts : U \subseteq DOMAIN ts \cup {y}
           => MatchedIn(more, direction, i, j) = MatchedIn(ts, direction, i, j) + more[y].qty
  BY <1>1, <1>2, <1>3, MatchedGrows
<1>. HIDE DEF U
<1>8. Pairs(new, direction, i, j)
        => MatchedIn(more, direction, i, j) = MatchedIn(ts, direction, i, j) + new.qty
  BY <1>1, <1>4, <1>5, <1>7
<1>. QED
  BY <1>6, <1>7, <1>8 DEF more

(* The pairs are matched by first-in first-out, as far as it has come.      *)
Upto(cb, done, closed, j) == IF j <= done THEN cb[j] ELSE closed

PairsFit(ts, direction, ob, cb, done, closed) ==
    \A i, j \in DOMAIN input :
        MatchedIn(ts, direction, i, j)
          = AmongOf(ob, i, Upto(cb, done, closed, j - 1), Upto(cb, done, closed, j))

LEMMA PairsGrow ==
    ASSUME RT!ProperFills, InHand, mpc = "match", NEW direction, NEW side,
           NEW lots, LotsFit(lots, side), lots # <<>>,
           NEW ts, IsSeq(ts), AreUnits(ts), NEW ob, Tally(ob), NEW cb, Tally(cb),
           NEW done, done = Taken - 1, NEW closed, InStock(lots, ob, done, closed),
           cb[done] <= closed, PairsFit(ts, direction, ob, cb, done, closed),
           NEW take \in Nat, 0 < take, take <= Head(lots).qty
    PROVE  LET more == Append(ts, RT!ClosedTrip(direction, Head(lots), take))
           IN /\ PairsFit(more, direction, ob, cb, done, closed + take)
              /\ \A other, i, j : other # direction
                    => MatchedIn(more, other, i, j) = MatchedIn(ts, other, i, j)
<1>. DEFINE new == RT!ClosedTrip(direction, Head(lots), take)
            more == Append(ts, new)
<1>1. PICK m \in DOMAIN input :
         /\ m <= done /\ ob[m - 1] <= closed /\ closed < ob[m]
         /\ lots[1].id = input[m].id /\ lots[1].qty = ob[m] - closed
  BY FrontOfStock
<1>2. Head(lots) = lots[1]
  BY DEF LotsFit
<1>3. /\ new.direction = direction /\ new.status = "closed" /\ new.qty = take
      /\ new.openId = lots[1].id /\ new.closeId = hand.id
  BY <1>2, Zenon DEF RT!ClosedTrip
<1>. HIDE DEF new
<1>4. /\ Len(input) \in Nat /\ DOMAIN input = 1 .. Len(input)
      /\ Taken \in DOMAIN input /\ hand.id = input[Taken].id
  <2>1. Len(input) \in Nat /\ DOMAIN input = 1 .. Len(input)
    BY FillsAreNumbered
  <2>2. Taken \in Nat /\ Taken >= 1 /\ Taken <= Len(input)
    BY <2>1, TakenWhole DEF InHand, Taken
  <2>. QED
    BY <2>1, <2>2 DEF InHand
<1>5. \A i, j \in DOMAIN input : input[i].id = input[j].id => i = j
  BY <1>4 DEF RT!ProperFills
<1>6. \A i, j \in DOMAIN input : Pairs(new, direction, i, j) <=> i = m /\ j = Taken
  BY <1>1, <1>3, <1>4, <1>5 DEF Pairs
<1>7. \A i, j \in DOMAIN input :
         MatchedIn(more, direction, i, j)
           = MatchedIn(ts, direction, i, j) + (IF i = m /\ j = Taken THEN take ELSE 0)
  <2>1. SUFFICES ASSUME NEW i \in DOMAIN input, NEW j \in DOMAIN input
                 PROVE  MatchedIn(more, direction, i, j)
                          = MatchedIn(ts, direction, i, j)
                              + (IF i = m /\ j = Taken THEN take ELSE 0)
    OBVIOUS
  <2>2. take \in Int
    OBVIOUS
  <2>3. /\ Pairs(new, direction, i, j)
             => MatchedIn(more, direction, i, j) = MatchedIn(ts, direction, i, j) + take
        /\ ~ Pairs(new, direction, i, j)
             => MatchedIn(more, direction, i, j) = MatchedIn(ts, direction, i, j)
    BY <1>3, <2>2, MatchedAppended
  <2>4. MatchedIn(ts, direction, i, j) \in Int
    <3>1. DOMAIN ts = 1 .. Len(ts) /\ Len(ts) \in Nat
      BY DEF IsSeq
    <3>2. IsFiniteSet(DOMAIN ts) /\ Pairing(ts, direction, i, j) \subseteq DOMAIN ts
      BY <3>1, FS_Interval DEF Pairing
    <3>3. IsFiniteSet(Pairing(ts, direction, i, j))
      BY <3>2, FS_Subset
    <3>. DEFINE f == [n \in DOMAIN ts |-> ts[n].qty]
    <3>4. \A n \in Pairing(ts, direction, i, j) : f[n] \in Int
      BY <3>2 DEF AreUnits
    <3>. HIDE DEF f
    <3>5. SumFunctionOnSet(f, Pairing(ts, direction, i, j)) \in Int
      BY <3>3, <3>4, SumIsNumber
    <3>. QED
      BY <3>5 DEF f, MatchedIn
  <2>5. CASE i = m /\ j = Taken
    BY <1>6, <2>3, <2>5
  <2>6. CASE ~ (i = m /\ j = Taken)
    <3>1. MatchedIn(more, direction, i, j) = MatchedIn(ts, direction, i, j)
      BY <1>6, <2>3, <2>6
    <3>. QED
      BY <2>4, <2>6, <3>1
  <2>. QED
    BY <2>5, <2>6
<1>8. PICK x \in Nat : x = cb[done] /\ x <= closed
  BY DEF InStock, Tally
<1>9. closed \in Nat /\ closed + take \in Nat /\ done \in Nat /\ done = Taken - 1 /\ Taken \in Nat
  BY <1>4 DEF InStock
<1>10. closed + take <= ob[m]
  <2>1. ob[m] \in Nat
    BY TallyAt
  <2>. QED
    BY <1>1, <1>2, <1>9, <2>1
<1>11. ASSUME NEW i \in DOMAIN input, NEW j \in DOMAIN input
       PROVE  MatchedIn(more, direction, i, j)
                = AmongOf(ob, i, Upto(cb, done, closed + take, j - 1),
                                 Upto(cb, done, closed + take, j))
  <2>1. MatchedIn(ts, direction, i, j)
          = AmongOf(ob, i, Upto(cb, done, closed, j - 1), Upto(cb, done, closed, j))
    BY DEF PairsFit
  <2>2. MatchedIn(more, direction, i, j)
           = MatchedIn(ts, direction, i, j) + (IF i = m /\ j = Taken THEN take ELSE 0)
    BY <1>7
  <2>3. j \in Nat /\ j >= 1
    BY <1>4
  <2>4. CASE j = Taken
    <3>1. j - 1 <= done /\ ~ (j <= done) /\ j - 1 = done
      BY <1>9, <2>3, <2>4
    <3>2. /\ Upto(cb, done, closed, j - 1) = x /\ Upto(cb, done, closed + take, j - 1) = x
          /\ Upto(cb, done, closed, j) = closed
          /\ Upto(cb, done, closed + take, j) = closed + take
      BY <1>8, <3>1 DEF Upto
    <3>3. /\ AmongOf(ob, i, x, closed) \in Nat
          /\ AmongOf(ob, i, x, closed + take)
               = AmongOf(ob, i, x, closed) + (IF i = m THEN take ELSE 0)
      <4>1. x \in Nat /\ closed \in Nat /\ take \in Nat /\ 0 < take /\ x <= closed
        BY <1>8, <1>9
      <4>2. ob[m - 1] <= closed /\ closed + take <= ob[m]
        BY <1>1, <1>10
      <4>. QED
        BY <4>1, <4>2, AmongGrows
    <3>. QED
      BY <2>1, <2>2, <2>4, <3>2, <3>3
  <2>5. CASE j < Taken
    <3>1. j - 1 <= done /\ j <= done /\ j # Taken
      BY <1>9, <2>3, <2>5
    <3>2. /\ Upto(cb, done, closed, j - 1) = Upto(cb, done, closed + take, j - 1)
          /\ Upto(cb, done, closed, j) = Upto(cb, done, closed + take, j)
      BY <3>1 DEF Upto
    <3>3. MatchedIn(more, direction, i, j) = MatchedIn(ts, direction, i, j)
      <4>1. ~ Pairs(new, direction, i, j)
        BY <1>6, <3>1
      <4>2. take \in Int
        OBVIOUS
      <4>. QED
        BY <1>3, <4>1, <4>2, MatchedAppended
    <3>. QED
      BY <2>1, <3>2, <3>3
  <2>6. CASE j > Taken
    <3>1. ~ (j - 1 <= done) /\ ~ (j <= done) /\ j # Taken
      BY <1>9, <2>3, <2>6
    <3>2. /\ Upto(cb, done, closed, j - 1) = closed /\ Upto(cb, done, closed, j) = closed
          /\ Upto(cb, done, closed + take, j - 1) = closed + take
          /\ Upto(cb, done, closed + take, j) = closed + take
      BY <3>1 DEF Upto
    <3>3. AmongOf(ob, i, closed, closed) = 0 /\ AmongOf(ob, i, closed + take, closed + take) = 0
      BY <1>9, AmongNone
    <3>4. MatchedIn(more, direction, i, j) = MatchedIn(ts, direction, i, j) + 0
      BY <2>2, <3>1
    <3>. QED
      BY <2>1, <3>2, <3>3, <3>4
  <2>. QED
    BY <1>9, <2>3, <2>4, <2>5, <2>6
<1>12. ASSUME NEW other, NEW i, NEW j, other # direction
       PROVE  MatchedIn(more, other, i, j) = MatchedIn(ts, other, i, j)
  <2>1. take \in Int /\ ~ Pairs(new, other, i, j)
    BY <1>3, <1>12 DEF Pairs
  <2>. QED
    BY <1>3, <2>1, MatchedAppended
<1>. QED
  BY <1>11, <1>12 DEF PairsFit, more, new

Done == IF mpc = "match" THEN Taken - 1 ELSE Taken

(* What the fill at hand has taken already is of the other side.            *)
ClosedNow(side) ==
    ClosedUp(side)[Done]
      + (IF mpc = "match" /\ hand.side # side THEN input[Taken].qty - hand.qty ELSE 0)

SideFits(side, direction, lots) ==
    /\ InStock(lots, OpenedUp(side), Done, ClosedNow(side))
    /\ PairsFit(trips, direction, OpenedUp(side), ClosedUp(side), Done, ClosedNow(side))

StockFits == SideFits("BOT", "LONG", longs) /\ SideFits("SLD", "SHORT", shorts)

LEMMA ReckoningStays ==
    ASSUME UNCHANGED input, NEW side
    PROVE  OpenedUp(side)' = OpenedUp(side) /\ ClosedUp(side)' = ClosedUp(side)
BY Zenon DEF OpenedUp, ClosedUp, RT!OpenedBy, RT!ClosedBy, RT!Opens, RT!Closes, RT!Held,
   RT!Position, RT!Signed

LEMMA SideStays ==
    ASSUME UNCHANGED input, NEW lots, NEW ts, trips' = ts, NEW ob, NEW cb, NEW done, NEW closed,
           NEW side, NEW direction, InStock(lots, ob, done, closed),
           PairsFit(ts, direction, ob, cb, done, closed),
           ob = OpenedUp(side), cb = ClosedUp(side), Done' = done, ClosedNow(side)' = closed
    PROVE  /\ longs' = lots => SideFits(side, direction, longs)'
           /\ shorts' = lots => SideFits(side, direction, shorts)'
<1>1. OpenedUp(side)' = ob /\ ClosedUp(side)' = cb
  BY ReckoningStays
<1>2. longs' = lots => InStock(longs, OpenedUp(side), Done, ClosedNow(side))'
  BY <1>1 DEF InStock, Gone
<1>3. shorts' = lots => InStock(shorts, OpenedUp(side), Done, ClosedNow(side))'
  BY <1>1 DEF InStock, Gone
<1>4. \A i, j : MatchedIn(trips, direction, i, j)' = MatchedIn(ts, direction, i, j)
  BY Zenon DEF MatchedIn, Pairing
<1>5. PairsFit(trips, direction, OpenedUp(side), ClosedUp(side), Done, ClosedNow(side))'
  BY <1>1, <1>4 DEF PairsFit, AmongOf, Upto
<1>. QED
  BY <1>2, <1>3, <1>5 DEF SideFits

LEMMA InMatch ==
    ASSUME RT!ProperFills, InHand, mpc = "match"
    PROVE  /\ Len(input) \in Nat /\ DOMAIN input = 1 .. Len(input)
           /\ Taken \in Nat /\ Taken \in DOMAIN input /\ Done = Taken - 1
           /\ hand.side = input[Taken].side /\ hand.side \in {"BOT", "SLD"}
           /\ hand.qty \in Nat /\ input[Taken].qty \in Nat /\ hand.qty <= input[Taken].qty
<1>1. Len(input) \in Nat /\ DOMAIN input = 1 .. Len(input)
  BY FillsAreNumbered
<1>2. Taken \in Nat /\ Taken >= 1 /\ Taken <= Len(input)
  BY <1>1, TakenWhole DEF InHand, Taken
<1>3. input[Taken].qty \in Nat /\ input[Taken].side \in {"BOT", "SLD"}
  BY <1>1, <1>2, FillTyped
<1>. QED
  BY <1>1, <1>2, <1>3 DEF InHand, Done

LEMMA PairsPass ==
    ASSUME RT!ProperFills, NEW ts, NEW direction, NEW ob, NEW cb, NEW done \in Nat,
           NEW closed, closed = cb[done + 1], PairsFit(ts, direction, ob, cb, done, closed)
    PROVE  PairsFit(ts, direction, ob, cb, done + 1, closed)
<1>1. \A j \in Nat : Upto(cb, done, closed, j) = Upto(cb, done + 1, closed, j)
  <2>1. SUFFICES ASSUME NEW j \in Nat
                 PROVE  Upto(cb, done, closed, j) = Upto(cb, done + 1, closed, j)
    OBVIOUS
  <2>2. j <= done \/ j = done + 1 \/ j > done + 1
    OBVIOUS
  <2>3. CASE j <= done
    BY <2>3 DEF Upto
  <2>4. CASE j = done + 1
    BY <2>4 DEF Upto
  <2>5. CASE j > done + 1
    BY <2>5 DEF Upto
  <2>. QED
    BY <2>2, <2>3, <2>4, <2>5
<1>2. \A j \in DOMAIN input : j \in Nat /\ j - 1 \in Nat
  BY FillsAreNumbered
<1>. QED
  BY <1>1, <1>2, Zenon DEF PairsFit

LEMMA TakeFillStock ==
    ASSUME RT!ProperFills, MatchSafe, StockFits, RT!TakeFill
    PROVE  StockFits'
<1>1. /\ fills \in Seq(RT!Fills) /\ fills # <<>> /\ Len(fills) \in Nat /\ Len(fills) > 0
      /\ fills' = Tail(fills) /\ hand' = Head(fills) /\ mpc = "next" /\ mpc' = "match"
      /\ UNCHANGED <<key, input, longs, shorts, trips>>
  BY DEF RT!TakeFill, MatchSafe, InHand
<1>2. Taken \in Nat /\ Taken' = Taken + 1
  BY <1>1, TakenWhole DEF MatchSafe, Taken
<1>3. hand' = input[Taken + 1] /\ Taken + 1 \in DOMAIN input
  BY <1>1, TakenWhole DEF MatchSafe, InHand, RT!ProperFills, Taken
<1>4. Done = Taken /\ Done' = Taken
  BY <1>1, <1>2 DEF Done
<1>5. \A side \in {"BOT", "SLD"} : ClosedNow(side)' = ClosedNow(side)
  <2>1. SUFFICES ASSUME NEW side \in {"BOT", "SLD"} PROVE ClosedNow(side)' = ClosedNow(side)
    OBVIOUS
  <2>2. ClosedUp(side)' = ClosedUp(side)
    BY <1>1, ReckoningStays
  <2>3. PICK c \in Nat : c = ClosedUp(side)[Taken]
    <3>1. Taken \in 0 .. Len(input)
      BY <1>2, <1>3, FillsAreNumbered
    <3>. QED
      BY <3>1, Reckoned DEF Tally
  <2>4. input'[Taken'].qty = hand'.qty /\ hand'.qty \in Nat
    BY <1>1, <1>2, <1>3, FillTyped
  <2>5. ClosedNow(side) = c + 0
    BY <1>1, <1>4, <2>3 DEF ClosedNow
  <2>6. ClosedNow(side)' = c + 0
    BY <1>1, <1>4, <2>2, <2>3, <2>4 DEF ClosedNow
  <2>. QED
    BY <2>5, <2>6
<1>. QED
  BY <1>1, <1>4, <1>5, SideStays DEF StockFits, SideFits

LEMMA ClosingStock ==
    ASSUME RT!ProperFills, InHand, mpc = "match", UNCHANGED <<key, input, fills, mpc>>,
           NEW direction, NEW side \in {"BOT", "SLD"}, NEW lots, LotsFit(lots, side), lots # <<>>,
           hand.side # side, hand.qty > 0, IsSeq(trips), AreUnits(trips),
           SideFits(side, direction, lots),
           NEW mine, mine = hand.side, NEW across, across # direction,
           NEW others, SideFits(mine, across, others),
           NEW take, take = RT!Lesser(hand.qty, Head(lots).qty),
           trips' = Append(trips, RT!ClosedTrip(direction, Head(lots), take)),
           hand' = [hand EXCEPT !.qty = @ - take]
    PROVE  /\ longs' = RT!Reduce(lots, take) => SideFits(side, direction, longs)'
           /\ shorts' = RT!Reduce(lots, take) => SideFits(side, direction, shorts)'
           /\ longs' = others => SideFits(mine, across, longs)'
           /\ shorts' = others => SideFits(mine, across, shorts)'
<1>1. /\ Taken \in Nat /\ Taken \in DOMAIN input /\ Done = Taken - 1
      /\ hand.side \in {"BOT", "SLD"} /\ hand.qty \in Nat /\ input[Taken].qty \in Nat
      /\ hand.qty <= input[Taken].qty
  BY InMatch
<1>2. take \in Nat /\ 0 < take /\ take <= Head(lots).qty /\ take <= hand.qty
  <2>1. 1 \in DOMAIN lots /\ Head(lots) = lots[1]
    BY DEF LotsFit
  <2>2. PICK i \in DOMAIN input : LotIs(lots[1], i)
    BY <2>1 DEF LotsFit
  <2>3. lots[1].qty \in Nat /\ 0 < lots[1].qty
    BY <2>2, FillTyped DEF LotIs
  <2>. QED
    BY <1>1, <2>1, <2>3 DEF RT!Lesser
<1>3. /\ Taken' = Taken /\ Done' = Done /\ mpc' = "match"
      /\ hand'.side = hand.side /\ hand'.qty = hand.qty - take
  <2>1. Taken' = Taken /\ Done' = Done
    BY DEF Taken, Done
  <2>2. hand \in Hands /\ hand.qty - take \in Nat
    BY <1>1, <1>2 DEF InHand
  <2>. QED
    BY <2>1, <2>2, HandLess
<1>4. PICK more : more = Append(trips, RT!ClosedTrip(direction, Head(lots), take)) /\ trips' = more
  BY Zenon
<1>5. PICK left : left = RT!Reduce(lots, take)
  BY Zenon
<1>6. PICK done : done = Done /\ done = Taken - 1
  BY <1>1
<1>7. PICK ob, cb, closed : ob = OpenedUp(side) /\ cb = ClosedUp(side) /\ closed = ClosedNow(side)
  BY Zenon
<1>8. Tally(ob) /\ Tally(cb)
  BY <1>7, Reckoned
<1>9. cb[done] \in Nat /\ closed = cb[done] + (input[Taken].qty - hand.qty)
  <2>1. done \in 0 .. Len(input)
    BY <1>1, <1>6, FillsAreNumbered
  <2>2. cb[done] \in Nat
    BY <1>8, <2>1 DEF Tally
  <2>. QED
    BY <1>6, <1>7, <2>2, Zenon DEF ClosedNow
<1>10. closed \in Nat /\ cb[done] <= closed
  BY <1>1, <1>9
<1>11. InStock(lots, ob, done, closed) /\ PairsFit(trips, direction, ob, cb, done, closed)
  BY <1>6, <1>7, Zenon DEF SideFits
<1>12. InStock(left, ob, done, closed + take)
  BY <1>2, <1>5, <1>8, <1>11, StockLess
<1>13. /\ PairsFit(more, direction, ob, cb, done, closed + take)
       /\ \A d, i, j : d # direction => MatchedIn(more, d, i, j) = MatchedIn(trips, d, i, j)
  <2>1. /\ PairsFit(Append(trips, RT!ClosedTrip(direction, Head(lots), take)),
                    direction, ob, cb, done, closed + take)
        /\ \A d, i, j : d # direction =>
              MatchedIn(Append(trips, RT!ClosedTrip(direction, Head(lots), take)), d, i, j)
                = MatchedIn(trips, d, i, j)
    BY <1>2, <1>6, <1>8, <1>10, <1>11, PairsGrow
  <2>. QED
    BY <1>4, <2>1, Zenon
<1>14. ClosedNow(side)' = closed + take
  <2>1. ClosedUp(side)' = cb
    BY <1>7, ReckoningStays
  <2>2. ClosedNow(side)' = cb[done] + (input[Taken].qty - (hand.qty - take))
    BY <1>3, <1>6, <2>1 DEF ClosedNow
  <2>. QED
    BY <1>1, <1>2, <1>9, <2>2
<1>15. /\ longs' = left => SideFits(side, direction, longs)'
       /\ shorts' = left => SideFits(side, direction, shorts)'
  <2>1. Done' = done
    BY <1>3, <1>6
  <2>. QED
    BY <1>4, <1>7, <1>12, <1>13, <1>14, <2>1, SideStays
<1>16. PICK og, cg, gone : og = OpenedUp(mine) /\ cg = ClosedUp(mine) /\ gone = ClosedNow(mine)
  BY Zenon
<1>17. InStock(others, og, done, gone) /\ PairsFit(trips, across, og, cg, done, gone)
  BY <1>6, <1>16, Zenon DEF SideFits
<1>18. PairsFit(more, across, og, cg, done, gone)
  <2>1. \A i, j : MatchedIn(more, across, i, j) = MatchedIn(trips, across, i, j)
    BY <1>13
  <2>. QED
    BY <1>17, <2>1, Zenon DEF PairsFit
<1>19. ClosedNow(mine)' = gone
  <2>1. ClosedUp(mine)' = cg
    BY <1>16, ReckoningStays
  <2>2. gone = cg[done] + 0
    BY <1>6, <1>16, Zenon DEF ClosedNow
  <2>3. ClosedNow(mine)' = cg[done] + 0
    BY <1>3, <1>6, <2>1, Zenon DEF ClosedNow
  <2>. QED
    BY <2>2, <2>3
<1>20. /\ longs' = others => SideFits(mine, across, longs)'
       /\ shorts' = others => SideFits(mine, across, shorts)'
  <2>1. Done' = done
    BY <1>3, <1>6
  <2>. QED
    BY <1>4, <1>16, <1>17, <1>18, <1>19, <2>1, SideStays
<1>. QED
  BY <1>5, <1>15, <1>20

LEMMA BuyClosesStock ==
    ASSUME RT!ProperFills, MatchSafe, UnitsFit, StockFits, RT!BuyCloses
    PROVE  StockFits'
<1>1. PICK take : /\ take = RT!Lesser(hand.qty, Head(shorts).qty)
                  /\ trips' = Append(trips, RT!ClosedTrip("SHORT", Head(shorts), take))
                  /\ shorts' = RT!Reduce(shorts, take)
                  /\ hand' = [hand EXCEPT !.qty = @ - take]
  BY Zenon DEF RT!BuyCloses
<1>2. /\ mpc = "match" /\ hand.side = "BOT" /\ hand.qty > 0 /\ shorts # <<>>
      /\ UNCHANGED <<key, input, fills, mpc>> /\ longs' = longs
  BY DEF RT!BuyCloses
<1>3. /\ InHand /\ LotsFit(shorts, "SLD") /\ IsSeq(trips) /\ AreUnits(trips)
      /\ SideFits("SLD", "SHORT", shorts) /\ SideFits("BOT", "LONG", longs)
  BY DEF MatchSafe, TripsFit, UnitsFit, StockFits
<1>4. "SLD" \in {"BOT", "SLD"} /\ hand.side # "SLD" /\ "BOT" = hand.side /\ "LONG" # "SHORT"
  BY <1>2
<1>5. SideFits("SLD", "SHORT", shorts)' /\ SideFits("BOT", "LONG", longs)'
  BY <1>1, <1>2, <1>3, <1>4, ClosingStock
<1>. QED
  BY <1>5 DEF StockFits

LEMMA SaleClosesStock ==
    ASSUME RT!ProperFills, MatchSafe, UnitsFit, StockFits, RT!SaleCloses
    PROVE  StockFits'
<1>1. PICK take : /\ take = RT!Lesser(hand.qty, Head(longs).qty)
                  /\ trips' = Append(trips, RT!ClosedTrip("LONG", Head(longs), take))
                  /\ longs' = RT!Reduce(longs, take)
                  /\ hand' = [hand EXCEPT !.qty = @ - take]
  BY Zenon DEF RT!SaleCloses
<1>2. /\ mpc = "match" /\ hand.side = "SLD" /\ hand.qty > 0 /\ longs # <<>>
      /\ UNCHANGED <<key, input, fills, mpc>> /\ shorts' = shorts
  BY DEF RT!SaleCloses
<1>3. /\ InHand /\ LotsFit(longs, "BOT") /\ IsSeq(trips) /\ AreUnits(trips)
      /\ SideFits("SLD", "SHORT", shorts) /\ SideFits("BOT", "LONG", longs)
  BY DEF MatchSafe, TripsFit, UnitsFit, StockFits
<1>4. "BOT" \in {"BOT", "SLD"} /\ hand.side # "BOT" /\ "SLD" = hand.side /\ "SHORT" # "LONG"
  BY <1>2
<1>5. SideFits("SLD", "SHORT", shorts)' /\ SideFits("BOT", "LONG", longs)'
  BY <1>1, <1>2, <1>3, <1>4, ClosingStock
<1>. QED
  BY <1>5 DEF StockFits

LEMMA OpeningStock ==
    ASSUME RT!ProperFills, InHand, mpc = "match", mpc' = "next",
           UNCHANGED <<key, input, fills, trips>>,
           NEW mine \in {"BOT", "SLD"}, mine = hand.side, NEW direction,
           NEW lots, LotsFit(lots, mine), SideFits(mine, direction, lots),
           NEW side \in {"BOT", "SLD"}, side # mine, NEW across,
           NEW others, LotsFit(others, side), SideFits(side, across, others),
           RT!NothingToClose(others)
    PROVE  /\ longs' = RT!OpenLot(lots) => SideFits(mine, direction, longs)'
           /\ shorts' = RT!OpenLot(lots) => SideFits(mine, direction, shorts)'
           /\ longs' = others => SideFits(side, across, longs)'
           /\ shorts' = others => SideFits(side, across, shorts)'
<1>1. /\ Len(input) \in Nat /\ DOMAIN input = 1 .. Len(input)
      /\ Taken \in Nat /\ Taken \in DOMAIN input /\ Done = Taken - 1
      /\ hand.side = input[Taken].side /\ hand.qty \in Nat
      /\ input[Taken].qty \in Nat /\ hand.qty <= input[Taken].qty
  BY InMatch
<1>2. PICK done \in Nat : done = Done /\ done = Taken - 1 /\ done + 1 = Taken
  BY <1>1
<1>3. PICK q \in Nat, rest \in Nat : q = input[Taken].qty /\ rest = hand.qty /\ rest <= q
  BY <1>1
<1>4. PICK om, cm, nm : om = OpenedUp(mine) /\ cm = ClosedUp(mine) /\ nm = ClosedNow(mine)
  BY Zenon
<1>5. PICK os, cs, ns : os = OpenedUp(side) /\ cs = ClosedUp(side) /\ ns = ClosedNow(side)
  BY Zenon
<1>6. /\ Tally(om) /\ Tally(cm) /\ Tally(os) /\ Tally(cs)
      /\ om[Taken] = om[done] + RT!Opens(mine, Taken)
      /\ cm[Taken] = cm[done] + RT!Closes(mine, Taken)
      /\ os[Taken] = os[done] + RT!Opens(side, Taken)
      /\ cs[Taken] = cs[done] + RT!Closes(side, Taken)
      /\ RT!Held(side, Taken) = os[done] - cs[done]
  BY <1>1, <1>2, <1>4, <1>5, Reckoned
<1>7. om[done] \in Nat /\ cm[done] \in Nat /\ os[done] \in Nat /\ cs[done] \in Nat
  <2>1. done \in 0 .. Len(input)
    BY <1>1, <1>2
  <2>. QED
    BY <1>6, <2>1 DEF Tally
<1>8. /\ InStock(lots, om, done, nm) /\ PairsFit(trips, direction, om, cm, done, nm)
      /\ InStock(others, os, done, ns) /\ PairsFit(trips, across, os, cs, done, ns)
  BY <1>2, <1>4, <1>5, Zenon DEF SideFits
<1>9. nm = cm[done] + 0 /\ ns = cs[done] + (q - rest)
  BY <1>2, <1>3, <1>4, <1>5, Zenon DEF ClosedNow
<1>10. ns <= os[done] /\ (others = <<>> => ns = os[done])
  BY <1>6, <1>8, FrontOfStock DEF InStock
<1>11. RT!Closes(side, Taken) = q - rest
  <2>1. rest = 0 \/ others = <<>>
    BY <1>3 DEF RT!NothingToClose
  <2>2. input[Taken].side # side
    BY <1>1
  <2>3. RT!Closes(side, Taken) = RT!Lesser(q, RT!Held(side, Taken))
    BY <1>3, <2>2, Zenon DEF RT!Closes
  <2>. QED
    BY <1>6, <1>7, <1>9, <1>10, <2>1, <2>3 DEF RT!Lesser
<1>12. RT!Closes(mine, Taken) = 0 /\ RT!Opens(side, Taken) = 0
  BY <1>1 DEF RT!Closes, RT!Opens
<1>13. RT!Opens(mine, Taken) = rest
  <2>1. RT!Other(mine) = side
    BY DEF RT!Other
  <2>2. RT!Opens(mine, Taken) = q - RT!Closes(side, Taken)
    BY <1>1, <1>3, <2>1, Zenon DEF RT!Opens
  <2>. QED
    BY <1>11, <2>2
<1>14. om[Taken] = om[done] + hand.qty /\ os[Taken] = os[done]
  BY <1>3, <1>6, <1>7, <1>12, <1>13
<1>15. nm = cm[Taken] /\ ns = cs[Taken]
  BY <1>6, <1>7, <1>9, <1>11, <1>12
<1>16. InStock(RT!OpenLot(lots), om, Taken, nm) /\ InStock(others, os, Taken, ns)
  BY <1>2, <1>6, <1>8, <1>14, StockMore
<1>17. PairsFit(trips, direction, om, cm, Taken, nm) /\ PairsFit(trips, across, os, cs, Taken, ns)
  <2>1. nm = cm[done + 1] /\ ns = cs[done + 1]
    BY <1>2, <1>15, Zenon
  <2>2. /\ PairsFit(trips, direction, om, cm, done + 1, nm)
        /\ PairsFit(trips, across, os, cs, done + 1, ns)
    BY <1>8, <2>1, PairsPass
  <2>. QED
    BY <1>2, <2>2, Zenon
<1>18. /\ Done' = Taken /\ ClosedNow(mine)' = nm /\ ClosedNow(side)' = ns
  <2>1. ClosedUp(mine)' = cm /\ ClosedUp(side)' = cs
    BY <1>4, <1>5, ReckoningStays
  <2>2. Done' = Taken
    BY DEF Done, Taken
  <2>3. ClosedNow(mine)' = cm[Taken] + 0 /\ ClosedNow(side)' = cs[Taken] + 0
    BY <2>1, <2>2 DEF ClosedNow
  <2>4. cm[Taken] \in Nat /\ cs[Taken] \in Nat
    BY <1>1, <1>6, TallyAt
  <2>. QED
    BY <1>15, <2>2, <2>3, <2>4
<1>19. /\ longs' = RT!OpenLot(lots) => SideFits(mine, direction, longs)'
       /\ shorts' = RT!OpenLot(lots) => SideFits(mine, direction, shorts)'
  BY <1>4, <1>16, <1>17, <1>18, SideStays
<1>20. /\ longs' = others => SideFits(side, across, longs)'
       /\ shorts' = others => SideFits(side, across, shorts)'
  BY <1>5, <1>16, <1>17, <1>18, SideStays
<1>. QED
  BY <1>19, <1>20

LEMMA BuyOpensStock ==
    ASSUME RT!ProperFills, MatchSafe, StockFits, RT!BuyOpens
    PROVE  StockFits'
<1>1. /\ mpc = "match" /\ mpc' = "next" /\ hand.side = "BOT" /\ RT!NothingToClose(shorts)
      /\ longs' = RT!OpenLot(longs) /\ shorts' = shorts
      /\ UNCHANGED <<key, input, fills, trips>>
  BY DEF RT!BuyOpens
<1>2. /\ InHand /\ LotsFit(longs, "BOT") /\ LotsFit(shorts, "SLD")
      /\ SideFits("BOT", "LONG", longs) /\ SideFits("SLD", "SHORT", shorts)
  BY DEF MatchSafe, StockFits
<1>3. "BOT" \in {"BOT", "SLD"} /\ "SLD" \in {"BOT", "SLD"} /\ "SLD" # "BOT"
  OBVIOUS
<1>4. SideFits("SLD", "SHORT", shorts)' /\ SideFits("BOT", "LONG", longs)'
  BY <1>1, <1>2, <1>3, OpeningStock
<1>. QED
  BY <1>4 DEF StockFits

LEMMA SaleOpensStock ==
    ASSUME RT!ProperFills, MatchSafe, StockFits, RT!SaleOpens
    PROVE  StockFits'
<1>1. /\ mpc = "match" /\ mpc' = "next" /\ hand.side = "SLD" /\ RT!NothingToClose(longs)
      /\ shorts' = RT!OpenLot(shorts) /\ longs' = longs
      /\ UNCHANGED <<key, input, fills, trips>>
  BY DEF RT!SaleOpens
<1>2. /\ InHand /\ LotsFit(longs, "BOT") /\ LotsFit(shorts, "SLD")
      /\ SideFits("BOT", "LONG", longs) /\ SideFits("SLD", "SHORT", shorts)
  BY DEF MatchSafe, StockFits
<1>3. "BOT" \in {"BOT", "SLD"} /\ "SLD" \in {"BOT", "SLD"} /\ "BOT" # "SLD"
  OBVIOUS
<1>4. SideFits("SLD", "SHORT", shorts)' /\ SideFits("BOT", "LONG", longs)'
  BY <1>1, <1>2, <1>3, OpeningStock
<1>. QED
  BY <1>4 DEF StockFits

(* The trips of what is left come after the others and have not closed.     *)
AreLeft(s, direction, lots) ==
    \E T : /\ s \in Seq(T)
           /\ \A trip \in T : \E k \in DOMAIN lots : trip = RT!emitOpen(direction, lots[k])

LEMMA LeftInOrder ==
    ASSUME NEW direction, NEW side, NEW lots, LotsFit(lots, side)
    PROVE  AreLeft(Emitted(direction, lots), direction, lots)
<1>1. lots \in Seq(Lot) /\ DOMAIN lots = 1 .. Len(lots) /\ Len(lots) \in Nat
  BY DEF LotsFit
<1>2. PICK T : T = {RT!emitOpen(direction, lots[n]) : n \in DOMAIN lots}
  BY Zenon
<1>3. Emitted(direction, lots) \in [1 .. Len(lots) -> T]
  BY <1>1, <1>2, Zenon DEF Emitted
<1>4. Emitted(direction, lots) \in Seq(T)
  BY <1>1, <1>3
<1>5. \A trip \in T : \E k \in DOMAIN lots : trip = RT!emitOpen(direction, lots[k])
  BY <1>2, Zenon
<1>. QED
  BY <1>4, <1>5, Zenon DEF AreLeft

LEMMA TripsEmitted ==
    ASSUME MatchSafe, RT!EmitLots
    PROVE  /\ IsSeq(trips') /\ DOMAIN trips \subseteq DOMAIN trips'
           /\ \A n \in DOMAIN trips : trips'[n] = trips[n]
           /\ \A n \in DOMAIN trips' \ DOMAIN trips :
                 \/ \E k \in DOMAIN longs : trips'[n] = RT!emitOpen("LONG", longs[k])
                 \/ \E k \in DOMAIN shorts : trips'[n] = RT!emitOpen("SHORT", shorts[k])
<1>1. PICK bought, sold : /\ bought = Emitted("LONG", longs) /\ sold = Emitted("SHORT", shorts)
                          /\ trips' = trips \o bought \o sold
  BY DEF RT!EmitLots, Emitted
<1>2. PICK B : /\ bought \in Seq(B)
               /\ \A trip \in B : \E k \in DOMAIN longs : trip = RT!emitOpen("LONG", longs[k])
  <2>1. LotsFit(longs, "BOT")
    BY DEF MatchSafe
  <2>2. AreLeft(bought, "LONG", longs)
    BY <1>1, <2>1, LeftInOrder
  <2>. QED
    BY <2>2, Zenon DEF AreLeft
<1>3. PICK S : /\ sold \in Seq(S)
               /\ \A trip \in S : \E k \in DOMAIN shorts : trip = RT!emitOpen("SHORT", shorts[k])
  <2>1. LotsFit(shorts, "SLD")
    BY DEF MatchSafe
  <2>2. AreLeft(sold, "SHORT", shorts)
    BY <1>1, <2>1, LeftInOrder
  <2>. QED
    BY <2>2, Zenon DEF AreLeft
<1>4. PICK T : trips \in Seq(T)
  BY DEF MatchSafe, TripsFit, IsSeq
<1>5. PICK all : all = T \cup B \cup S
  BY Zenon
<1>6. trips \in Seq(all) /\ bought \in Seq(all) /\ sold \in Seq(all)
  BY <1>2, <1>3, <1>4, <1>5
<1>7. PICK two : two = trips \o bought
  BY Zenon
<1>8. /\ two \in Seq(all) /\ Len(two) = Len(trips) + Len(bought)
      /\ \A n \in 1 .. Len(two) : two[n] = IF n <= Len(trips) THEN trips[n]
                                          ELSE bought[n - Len(trips)]
  BY <1>6, <1>7
<1>9. /\ trips' \in Seq(all) /\ Len(trips') = Len(two) + Len(sold)
      /\ \A n \in 1 .. Len(trips') : trips'[n] = IF n <= Len(two) THEN two[n]
                                                ELSE sold[n - Len(two)]
  BY <1>1, <1>6, <1>7, <1>8
<1>10. /\ Len(trips) \in Nat /\ Len(bought) \in Nat /\ Len(sold) \in Nat
       /\ DOMAIN trips = 1 .. Len(trips) /\ DOMAIN trips' = 1 .. Len(trips')
       /\ \A n \in 1 .. Len(bought) : bought[n] \in B
       /\ \A n \in 1 .. Len(sold) : sold[n] \in S
  BY <1>2, <1>3, <1>4, <1>9
<1>11. IsSeq(trips')
  BY <1>9, SeqOfItself
<1>12. DOMAIN trips \subseteq DOMAIN trips'
  BY <1>8, <1>9, <1>10
<1>13. ASSUME NEW n \in DOMAIN trips PROVE trips'[n] = trips[n]
  <2>1. n \in 1 .. Len(trips') /\ n \in 1 .. Len(two) /\ n <= Len(two) /\ n <= Len(trips)
    BY <1>8, <1>9, <1>10
  <2>. QED
    BY <1>8, <1>9, <2>1
<1>14. ASSUME NEW n \in DOMAIN trips' \ DOMAIN trips PROVE trips'[n] \in B \cup S
  <2>1. n \in Nat /\ n \in 1 .. Len(trips') /\ n > Len(trips)
    BY <1>10
  <2>2. CASE n <= Len(two)
    <3>1. n \in 1 .. Len(two) /\ ~ (n <= Len(trips)) /\ n - Len(trips) \in 1 .. Len(bought)
      BY <1>8, <1>10, <2>1, <2>2
    <3>. QED
      BY <1>8, <1>9, <1>10, <2>1, <2>2, <3>1
  <2>3. CASE ~ (n <= Len(two))
    <3>1. n - Len(two) \in 1 .. Len(sold)
      BY <1>8, <1>9, <1>10, <2>1, <2>3
    <3>. QED
      BY <1>9, <1>10, <2>1, <2>3, <3>1
  <2>. QED
    BY <2>2, <2>3
<1>. QED
  BY <1>2, <1>3, <1>11, <1>12, <1>13, <1>14

LEMMA EmitLotsStock ==
    ASSUME RT!ProperFills, MatchSafe, UnitsFit, StockFits, RT!EmitLots
    PROVE  StockFits'
<1>1. /\ mpc = "next" /\ mpc' = "done"
      /\ UNCHANGED <<key, input, fills, hand, longs, shorts>>
  BY DEF RT!EmitLots
<1>2. PICK more : more = trips'
  BY Zenon
<1>3. /\ IsSeq(more) /\ DOMAIN trips \subseteq DOMAIN more
      /\ \A n \in DOMAIN trips : more[n] = trips[n]
      /\ \A n \in DOMAIN more \ DOMAIN trips :
            \/ \E k \in DOMAIN longs : more[n] = RT!emitOpen("LONG", longs[k])
            \/ \E k \in DOMAIN shorts : more[n] = RT!emitOpen("SHORT", shorts[k])
  BY <1>2, TripsEmitted
<1>4. AreUnits(more)
  <2>1. UnitsFit'
    BY EmitLotsAccounts
  <2>. QED
    BY <1>2, <2>1 DEF UnitsFit, AreUnits
<1>5. \A d, i, j : MatchedIn(more, d, i, j) = MatchedIn(trips, d, i, j)
  <2>1. \A d, lot : RT!emitOpen(d, lot).status # "closed"
    BY DEF RT!emitOpen
  <2>2. \A n \in DOMAIN more \ DOMAIN trips : more[n].status # "closed"
    BY <1>3, <2>1
  <2>3. \A d, i, j : Pairing(more, d, i, j) \subseteq DOMAIN trips
    BY <2>2 DEF Pairing
  <2>4. IsSeq(trips)
    BY DEF MatchSafe, TripsFit
  <2>. QED
    BY <1>3, <1>4, <2>3, <2>4, MatchedGrows
<1>6. Taken \in Nat /\ Done = Taken /\ Done' = Taken
  BY <1>1, TakenWhole DEF Taken, Done, MatchSafe
<1>7. ASSUME NEW side, NEW direction, NEW lots, SideFits(side, direction, lots)
      PROVE  /\ longs' = lots => SideFits(side, direction, longs)'
             /\ shorts' = lots => SideFits(side, direction, shorts)'
  <2>1. PICK ob, cb, closed : ob = OpenedUp(side) /\ cb = ClosedUp(side) /\ closed = ClosedNow(side)
    BY Zenon
  <2>2. InStock(lots, ob, Taken, closed) /\ PairsFit(trips, direction, ob, cb, Taken, closed)
    BY <1>6, <1>7, <2>1, Zenon DEF SideFits
  <2>3. PairsFit(more, direction, ob, cb, Taken, closed)
    <3>1. \A i, j : MatchedIn(more, direction, i, j) = MatchedIn(trips, direction, i, j)
      BY <1>5
    <3>. QED
      BY <2>2, <3>1, Zenon DEF PairsFit
  <2>4. ClosedNow(side)' = closed
    <3>1. ClosedUp(side)' = cb
      BY <1>1, <2>1, ReckoningStays
    <3>2. closed = cb[Taken] + 0
      BY <1>1, <1>6, <2>1 DEF ClosedNow
    <3>3. ClosedNow(side)' = cb[Taken] + 0
      BY <1>1, <1>6, <3>1 DEF ClosedNow
    <3>. QED
      BY <3>2, <3>3
  <2>. QED
    BY <1>1, <1>2, <1>6, <2>1, <2>2, <2>3, <2>4, SideStays
<1>. QED
  BY <1>1, <1>7 DEF StockFits

LEMMA StockInit == JournalsInit /\ RT!ProperFills => StockFits
<1>1. SUFFICES ASSUME JournalsInit, RT!ProperFills PROVE StockFits
  OBVIOUS
<1>2. /\ fills = input /\ longs = <<>> /\ shorts = <<>> /\ trips = <<>> /\ mpc \in {"next", "idle"}
  <2>1. CASE which = "match"
    BY <1>1, <2>1 DEF JournalsInit, RT!MatchInit, RT!Start
  <2>2. CASE which # "match"
    BY <1>1, <2>2 DEF JournalsInit, NoMatch
  <2>. QED
    BY <2>1, <2>2
<1>3. Len(input) \in Nat /\ DOMAIN input = 1 .. Len(input)
  BY <1>1, FillsAreNumbered
<1>4. Done = 0
  BY <1>2, <1>3 DEF Done, Taken
<1>5. \A direction, i, j : MatchedIn(trips, direction, i, j) = 0
  <2>1. \A direction, i, j : Pairing(trips, direction, i, j) = {}
    BY <1>2 DEF Pairing
  <2>. QED
    BY <2>1, SumOfNone DEF MatchedIn
<1>6. ASSUME NEW side \in {"BOT", "SLD"}, NEW direction PROVE SideFits(side, direction, <<>>)
  <2>1. PICK ob, cb : ob = OpenedUp(side) /\ cb = ClosedUp(side)
    BY Zenon
  <2>2. Tally(ob) /\ Tally(cb) /\ ob[0] = 0 /\ cb[0] = 0
    BY <1>1, <2>1, Reckoned DEF Tally
  <2>3. ClosedNow(side) = 0
    <3>1. ClosedNow(side) = cb[0] + 0
      BY <1>2, <1>4, <2>1 DEF ClosedNow
    <3>. QED
      BY <2>2, <3>1
  <2>4. InStock(<<>>, ob, 0, 0)
    <3>1. 0 \in 0 .. Len(input) /\ 0 <= ob[0] /\ \A i \in DOMAIN input : ~ (i <= 0)
      BY <1>3, <2>2
    <3>. QED
      BY <3>1 DEF InStock
  <2>5. PairsFit(trips, direction, ob, cb, 0, 0)
    <3>1. ASSUME NEW i \in DOMAIN input, NEW j \in DOMAIN input
          PROVE  AmongOf(ob, i, Upto(cb, 0, 0, j - 1), Upto(cb, 0, 0, j)) = 0
      <4>1. j \in Nat /\ j >= 1
        BY <1>3
      <4>2. Upto(cb, 0, 0, j - 1) = 0 /\ Upto(cb, 0, 0, j) = 0
        <5>1. j - 1 <= 0 => j - 1 = 0
          BY <4>1
        <5>2. ~ (j <= 0)
          BY <4>1
        <5>. QED
          BY <2>2, <5>1, <5>2 DEF Upto
      <4>3. AmongOf(ob, i, 0, 0) = 0
        BY <1>1, <2>2, AmongNone
      <4>. QED
        BY <4>2, <4>3
    <3>. QED
      BY <1>5, <3>1 DEF PairsFit
  <2>. QED
    BY <1>4, <2>1, <2>3, <2>4, <2>5 DEF SideFits
<1>. QED
  BY <1>2, <1>6 DEF StockFits

LEMMA StockStep ==
    /\ Given /\ MatchSafe /\ UnitsFit /\ StockFits
    /\ [JournalsNext]_allVars
    => StockFits'
<1>1. SUFFICES ASSUME Given, MatchSafe, UnitsFit, StockFits, [JournalsNext]_allVars
               PROVE  StockFits'
  OBVIOUS
<1>2. RT!ProperFills
  BY <1>1 DEF Given
<1>3. CASE UNCHANGED matchVars
  <2>1. /\ UNCHANGED <<input, trips, longs, shorts, hand, mpc, fills>>
    BY <1>3 DEF matchVars
  <2>2. Done' = Done
    BY <2>1 DEF Done, Taken
  <2>3. \A side : ClosedUp(side)' = ClosedUp(side)
    BY <2>1, ReckoningStays
  <2>4. \A side : ClosedNow(side)' = ClosedNow(side)
    BY <2>1, <2>2, <2>3 DEF ClosedNow, Taken
  <2>. QED
    BY <1>1, <2>1, <2>2, <2>4, SideStays DEF StockFits, SideFits
<1>4. CASE RT!MatchNext
  BY <1>1, <1>2, <1>4, TakeFillStock, BuyClosesStock, SaleClosesStock,
     BuyOpensStock, SaleOpensStock, EmitLotsStock DEF RT!MatchNext, RT!Next
<1>. QED
  BY <1>1, <1>3, <1>4
     DEF JournalsNext, Trading, Scanning, Judging, Matching, allVars, matchVars

(* ... and when all fills are taken the trips have the pairs that the       *)
(* reference gives.                                                         *)
LEMMA StockIsComputed ==
    ASSUME RT!ProperFills, UnitsFit, StockFits, mpc = "done"
    PROVE  RT!AsComputed
<1>1. Len(input) \in Nat /\ DOMAIN input = 1 .. Len(input)
  BY FillsAreNumbered
<1>2. Done = Len(input)
  BY <1>1 DEF UnitsFit, Done, Taken
<1>3. ASSUME NEW side, NEW direction, NEW lots, SideFits(side, direction, lots),
             NEW i \in DOMAIN input, NEW j \in DOMAIN input
      PROVE  RT!Matched(direction, i, j) = RT!Overlap(side, i, j)
  <2>1. PICK ob, cb, closed : ob = OpenedUp(side) /\ cb = ClosedUp(side) /\ closed = ClosedNow(side)
    BY Zenon
  <2>2. MatchedIn(trips, direction, i, j)
          = AmongOf(ob, i, Upto(cb, Done, closed, j - 1), Upto(cb, Done, closed, j))
    BY <1>3, <2>1 DEF SideFits, PairsFit
  <2>3. /\ i \in 0 .. Len(input) /\ i - 1 \in 0 .. Len(input)
        /\ j \in 0 .. Len(input) /\ j - 1 \in 0 .. Len(input)
        /\ j <= Done /\ j - 1 <= Done
    BY <1>1, <1>2
  <2>4. Upto(cb, Done, closed, j - 1) = cb[j - 1] /\ Upto(cb, Done, closed, j) = cb[j]
    BY <2>3 DEF Upto
  <2>5. /\ ob[i] = RT!OpenedBy(side, i) /\ ob[i - 1] = RT!OpenedBy(side, i - 1)
        /\ cb[j] = RT!ClosedBy(side, j) /\ cb[j - 1] = RT!ClosedBy(side, j - 1)
    BY <2>1, <2>3 DEF OpenedUp, ClosedUp
  <2>6. RT!Overlap(side, i, j) = AmongOf(ob, i, cb[j - 1], cb[j])
    BY <2>5, Zenon DEF RT!Overlap, RT!Among, AmongOf, Larger
  <2>. QED
    BY <2>2, <2>4, <2>6, MatchedIsIn
<1>. QED
  BY <1>3 DEF StockFits, RT!AsComputed

(* A trip that did not close was opened by a fill of its side.              *)
LeftOver(trip) ==
    /\ trip.closeId = 0
    /\ \E i \in DOMAIN input :
          trip.openId = input[i].id /\ input[i].side = SideOf(trip.direction)

LeftFit == \A n \in DOMAIN trips : trips[n].status # "closed" => LeftOver(trips[n])

LEMMA LeftStep == MatchSafe /\ LeftFit /\ [JournalsNext]_allVars => LeftFit'
<1>1. SUFFICES ASSUME MatchSafe, LeftFit, [JournalsNext]_allVars PROVE LeftFit'
  OBVIOUS
<1>2. UNCHANGED input
  BY <1>1, Zenon DEF JournalsNext, Trading, Scanning, Judging, Matching, allVars, matchVars,
     RT!MatchNext, RT!Next, RT!TakeFill, RT!BuyCloses, RT!SaleCloses, RT!BuyOpens,
     RT!SaleOpens, RT!EmitLots
<1>3. CASE UNCHANGED trips
  BY <1>1, <1>2, <1>3 DEF LeftFit, LeftOver
<1>4. ASSUME NEW new, new.status = "closed", trips' = Append(trips, new) PROVE LeftFit'
  <2>1. /\ DOMAIN trips' = 1 .. Len(trips) + 1 /\ DOMAIN trips = 1 .. Len(trips)
        /\ \A n \in DOMAIN trips : trips'[n] = trips[n]
        /\ trips'[Len(trips) + 1] = new /\ Len(trips) \in Nat
    BY <1>1, <1>4, Appended DEF MatchSafe, TripsFit
  <2>2. \A n \in DOMAIN trips' : n \in DOMAIN trips \/ n = Len(trips) + 1
    BY <2>1
  <2>3. \A n \in DOMAIN trips' : trips'[n].status # "closed" => LeftOver(trips'[n])
    BY <1>1, <1>4, <2>1, <2>2, Zenon DEF LeftFit
  <2>. QED
    BY <1>2, <2>3 DEF LeftFit, LeftOver
<1>5. CASE RT!BuyCloses
  <2>1. PICK new : new = RT!ClosedTrip("SHORT", Head(shorts), RT!Lesser(hand.qty, Head(shorts).qty))
                   /\ trips' = Append(trips, new)
    BY <1>5, Zenon DEF RT!BuyCloses
  <2>2. new.status = "closed"
    BY <2>1, Zenon DEF RT!ClosedTrip
  <2>. QED
    BY <1>4, <2>1, <2>2
<1>6. CASE RT!SaleCloses
  <2>1. PICK new : new = RT!ClosedTrip("LONG", Head(longs), RT!Lesser(hand.qty, Head(longs).qty))
                   /\ trips' = Append(trips, new)
    BY <1>6, Zenon DEF RT!SaleCloses
  <2>2. new.status = "closed"
    BY <2>1, Zenon DEF RT!ClosedTrip
  <2>. QED
    BY <1>4, <2>1, <2>2
<1>7. CASE RT!EmitLots
  <2>1. /\ \A n \in DOMAIN trips : trips'[n] = trips[n]
        /\ \A n \in DOMAIN trips' \ DOMAIN trips :
              \/ \E k \in DOMAIN longs : trips'[n] = RT!emitOpen("LONG", longs[k])
              \/ \E k \in DOMAIN shorts : trips'[n] = RT!emitOpen("SHORT", shorts[k])
    BY <1>1, <1>7, TripsEmitted
  <2>2. ASSUME NEW direction, NEW lots, LotsFit(lots, SideOf(direction)), NEW k \in DOMAIN lots
        PROVE  LeftOver(RT!emitOpen(direction, lots[k]))
    <3>1. PICK i \in DOMAIN input : input[i].side = SideOf(direction) /\ lots[k].id = input[i].id
      BY <2>2 DEF LotsFit, LotIs
    <3>2. /\ RT!emitOpen(direction, lots[k]).openId = lots[k].id
          /\ RT!emitOpen(direction, lots[k]).closeId = 0
          /\ RT!emitOpen(direction, lots[k]).direction = direction
      BY DEF RT!emitOpen
    <3>. QED
      BY <3>1, <3>2 DEF LeftOver
  <2>3. LotsFit(longs, SideOf("LONG")) /\ LotsFit(shorts, SideOf("SHORT"))
    BY <1>1 DEF MatchSafe, SideOf
  <2>4. /\ \A k \in DOMAIN longs : LeftOver(RT!emitOpen("LONG", longs[k]))
        /\ \A k \in DOMAIN shorts : LeftOver(RT!emitOpen("SHORT", shorts[k]))
    BY <2>2, <2>3
  <2>5. \A n \in DOMAIN trips' : trips'[n].status # "closed" => LeftOver(trips'[n])
    BY <1>1, <2>1, <2>4, Zenon DEF LeftFit
  <2>. QED
    BY <1>2, <2>5 DEF LeftFit, LeftOver
<1>. QED
  BY <1>1, <1>3, <1>5, <1>6, <1>7, Zenon
     DEF JournalsNext, Trading, Scanning, Judging, Matching, allVars, matchVars, RT!MatchNext,
     RT!Next, RT!TakeFill, RT!BuyOpens, RT!SaleOpens

(* The fills are the rows that stand for an order of the instrument.        *)
Drawn ==
    mpc # "idle" =>
        /\ Journal /\ key = [sec |-> key.sec, exp |-> key.exp]
        /\ \A i \in DOMAIN input :
              /\ input[i].id \in RT!FillsOf(key)
              /\ input[i].side = rows[input[i].id].side /\ input[i].qty = rows[input[i].id].qty
        /\ \A r \in RT!FillsOf(key) : \E i \in DOMAIN input : input[i].id = r

LEMMA DrawnInit == JournalsInit => Drawn
<1>. SUFFICES ASSUME JournalsInit, mpc # "idle" PROVE Drawn
  BY DEF Drawn
<1>1. which = "match"
  BY DEF JournalsInit, NoMatch
<1>2. PICK place \in RT!Iterations, i \in RT!enrichBAGFromLegs :
          RT!Start(RT!KeyOf(i), RT!GroupOf(RT!KeyOf(i), place))
  BY <1>1, Zenon DEF JournalsInit, RT!MatchInit
<1>3. Journal
  BY <1>1, RowsTyped DEF JournalsInit, RT!MatchInit
<1>4. key = RT!KeyOf(i) /\ input = RT!GroupOf(key, place)
  BY <1>2, Zenon DEF RT!Start
<1>5. key = [sec |-> key.sec, exp |-> key.exp]
  BY <1>4 DEF RT!KeyOf
<1>6. PICK S : S = RT!FillsOf(key) /\ S \subseteq DOMAIN rows
  BY DEF RT!FillsOf, RT!enrichBAGFromLegs
<1>7. PICK s : s = RT!ByTime(S, place)
  BY Zenon
<1>8. Sorts(s, Before(S, place), S)
  BY <1>3, <1>6, <1>7, ByTimeSorts, Zenon
<1>9. input = [n \in DOMAIN s |-> RT!AsFill(s[n])]
  BY <1>4, <1>6, <1>7, Zenon DEF RT!GroupOf
<1>10. \A n \in DOMAIN s : s[n] \in S
  BY <1>8 DEF Sorts
<1>11. \A r \in S : \E n \in DOMAIN s : s[n] = r
  BY <1>8, Zenon DEF Sorts
<1>12. ASSUME NEW r
       PROVE  /\ RT!AsFill(r).id = r /\ RT!AsFill(r).side = rows[r].side
              /\ RT!AsFill(r).qty = rows[r].qty
  BY Zenon DEF RT!AsFill
<1>13. ASSUME NEW n \in DOMAIN input
       PROVE  /\ input[n].id \in S
              /\ input[n].side = rows[input[n].id].side /\ input[n].qty = rows[input[n].id].qty
  BY <1>9, <1>10, <1>12
<1>14. \A r \in S : \E n \in DOMAIN input : input[n].id = r
  BY <1>9, <1>11, <1>12
<1>. QED
  BY <1>3, <1>5, <1>6, <1>13, <1>14 DEF Drawn

LEMMA DrawnStays == Drawn /\ [JournalsNext]_allVars => Drawn'
<1>1. SUFFICES ASSUME Drawn, [JournalsNext]_allVars PROVE Drawn'
  OBVIOUS
<1>2. UNCHANGED <<input, key, rows>> /\ (mpc' # "idle" => mpc # "idle")
  BY <1>1, Zenon DEF JournalsNext, Trading, Scanning, Judging, Matching, allVars, matchVars,
     RT!MatchNext, RT!Next, RT!TakeFill, RT!BuyCloses, RT!SaleCloses, RT!BuyOpens,
     RT!SaleOpens, RT!EmitLots
<1>3. RT!FillsOf(key)' = RT!FillsOf(key)
  <2>1. rows' = rows /\ key' = key
    BY <1>2
  <2>2. \A i : RT!groupByPermID(i)' = RT!groupByPermID(i)
    BY <2>1, Zenon DEF RT!groupByPermID
  <2>3. \A i : RT!Combos(i)' = RT!Combos(i) /\ RT!LegExps(i)' = RT!LegExps(i)
    BY <2>1, <2>2, Zenon DEF RT!Combos, RT!LegExps
  <2>4. \A i : RT!KeyOf(i)' = RT!KeyOf(i)
    <3>1. SUFFICES ASSUME NEW i PROVE RT!KeyOf(i)' = RT!KeyOf(i)
      OBVIOUS
    <3>2. RT!LegExps(i)' = RT!LegExps(i) /\ RT!Combos(i)' = RT!Combos(i)
      BY <2>3
    <3>3. RT!Max(RT!LegExps(i))' = RT!Max(RT!LegExps(i))
      BY <3>2, Zenon DEF RT!Max
    <3>4. (IF RT!Combos(i) = {} \/ RT!LegExps(i) = {} THEN rows[i].exp
           ELSE RT!Max(RT!LegExps(i)))'
          = IF RT!Combos(i) = {} \/ RT!LegExps(i) = {} THEN rows[i].exp
            ELSE RT!Max(RT!LegExps(i))
      BY <2>1, <3>2, <3>3
    <3>. QED
      BY <2>1, <3>4, Zenon DEF RT!KeyOf
  <2>5. RT!enrichBAGFromLegs' = RT!enrichBAGFromLegs
    BY <2>1, <2>3, Zenon DEF RT!enrichBAGFromLegs, RT!Max
  <2>. QED
    BY <2>1, <2>4, <2>5, Zenon DEF RT!FillsOf
<1>. QED
  BY <1>1, <1>2, <1>3 DEF Drawn, Journal, Row

LEMMA FillsRepresent ==
    ASSUME key = [sec |-> key.sec, exp |-> key.exp]
    PROVE  {i \in DOMAIN rows : RT!Represents(i, key)} = RT!FillsOf(key)
<1>1. ASSUME NEW i
      PROVE  RT!Represents(i, key) <=>
                /\ rows[i].sec = key.sec
                /\ IF RT!Combos(i) = {} THEN rows[i].exp = key.exp
                   ELSE /\ i = RT!Max(RT!Combos(i))
                        /\ key.exp = (IF RT!LegExps(i) = {} THEN rows[i].exp
                                                            ELSE RT!Max(RT!LegExps(i)))
  BY Zenon DEF RT!Represents, RT!Combos, RT!LegExps, RT!groupByPermID
<1>2. ASSUME NEW i
      PROVE  RT!KeyOf(i) = key <=>
                /\ rows[i].sec = key.sec
                /\ key.exp = (IF RT!Combos(i) = {} \/ RT!LegExps(i) = {} THEN rows[i].exp
                              ELSE RT!Max(RT!LegExps(i)))
  <2>1. PICK e : e = (IF RT!Combos(i) = {} \/ RT!LegExps(i) = {} THEN rows[i].exp
                      ELSE RT!Max(RT!LegExps(i)))
    BY Zenon
  <2>2. RT!KeyOf(i) = [sec |-> rows[i].sec, exp |-> e]
    BY <2>1, Zenon DEF RT!KeyOf
  <2>3. PICK s, x : s = key.sec /\ x = key.exp /\ key = [sec |-> s, exp |-> x]
    OBVIOUS
  <2>. QED
    BY <2>1, <2>2, <2>3
<1>3. ASSUME NEW i \in DOMAIN rows
      PROVE  RT!Represents(i, key) <=> i \in RT!FillsOf(key)
  <2>1. i \in RT!FillsOf(key) <=>
           (RT!Combos(i) # {} => i = RT!Max(RT!Combos(i))) /\ RT!KeyOf(i) = key
    BY Zenon DEF RT!FillsOf, RT!enrichBAGFromLegs
  <2>2. CASE RT!Combos(i) = {}
    BY <1>1, <1>2, <2>1, <2>2
  <2>3. CASE RT!Combos(i) # {}
    BY <1>1, <1>2, <2>1, <2>3
  <2>. QED
    BY <2>2, <2>3
<1>4. RT!FillsOf(key) \subseteq DOMAIN rows
  BY Zenon DEF RT!FillsOf, RT!enrichBAGFromLegs
<1>. QED
  BY <1>3, <1>4, Zenon

(* What a trip moves the position by when it is opened.                     *)
Moves(trip) == IF trip.direction = "LONG" THEN trip.qty ELSE -trip.qty

(* The trips that a fill opened and the trips that it closed have its       *)
(* units.                                                                   *)
LEMMA MovesOfFill ==
    ASSUME RT!ProperFills, MatchSafe, UnitsFit, LeftFit, mpc = "done", NEW i \in DOMAIN input,
           NEW s, \A n \in DOMAIN trips : s[n] = Moves(trips[n]),
           NEW r, \A n \in DOMAIN trips : r[n] = -Moves(trips[n])
    PROVE  SumFunctionOnSet(s, {n \in DOMAIN trips : trips[n].openId = input[i].id})
              + SumFunctionOnSet(r, {n \in ClosedIn(trips) : trips[n].closeId = input[i].id})
            = RT!Signed(input[i])
<1>1. PICK id, q \in Nat : id = input[i].id /\ q = input[i].qty /\ id \in Nat /\ id # 0
  <2>1. input[i] \in RT!Fills
    BY DEF RT!ProperFills
  <2>. QED
    BY <2>1 DEF RT!Fills
<1>2. PICK A, B : /\ A = {n \in DOMAIN trips : trips[n].openId = id}
                  /\ B = {n \in ClosedIn(trips) : trips[n].closeId = id}
  BY Zenon
<1>3. PICK f : f = [n \in DOMAIN trips |-> trips[n].qty]
  BY Zenon
<1>4. /\ IsFiniteSet(A) /\ IsFiniteSet(B) /\ A \subseteq DOMAIN trips /\ B \subseteq DOMAIN trips
  <2>1. DOMAIN trips = 1 .. Len(trips) /\ Len(trips) \in Nat
    BY DEF MatchSafe, TripsFit, IsSeq
  <2>2. IsFiniteSet(DOMAIN trips) /\ A \subseteq DOMAIN trips /\ B \subseteq DOMAIN trips
    BY <1>2, <2>1, FS_Interval DEF ClosedIn
  <2>. QED
    BY <2>2, FS_Subset
<1>5. \A n \in DOMAIN trips : f[n] = trips[n].qty /\ f[n] \in Int
  BY <1>3 DEF UnitsFit, AreUnits
<1>6. \A x, y \in DOMAIN input : input[x].id = input[y].id => x = y
  BY FillsAreNumbered DEF RT!ProperFills
<1>7. ASSUME NEW n \in ClosedIn(trips)
      PROVE  /\ n \in A => /\ n \notin B
                           /\ trips[n].direction = "LONG" <=> input[i].side = "BOT"
             /\ n \in B => (trips[n].direction = "LONG" <=> input[i].side # "BOT")
  <2>1. PICK x \in DOMAIN input, y \in DOMAIN input : RT!TripOf(trips[n], x, y)
    BY DEF MatchSafe, TripsFit
  <2>2. /\ x # y /\ input[x].side # input[y].side
        /\ input[x].side = (IF trips[n].direction = "LONG" THEN "BOT" ELSE "SLD")
        /\ trips[n].openId = input[x].id /\ trips[n].closeId = input[y].id
    <3>1. x \in Nat /\ y \in Nat
      BY FillsAreNumbered
    <3>. QED
      BY <2>1, <3>1 DEF RT!TripOf
  <2>3. input[x].side \in {"BOT", "SLD"} /\ input[y].side \in {"BOT", "SLD"}
    BY FillsAreNumbered
  <2>4. n \in A => x = i
    BY <1>1, <1>2, <1>6, <2>2
  <2>5. n \in B => y = i
    BY <1>1, <1>2, <1>6, <2>2
  <2>. QED
    BY <2>2, <2>3, <2>4, <2>5
<1>8. ASSUME NEW n \in A, n \notin ClosedIn(trips)
      PROVE  trips[n].direction = "LONG" <=> input[i].side = "BOT"
  <2>1. n \in DOMAIN trips /\ trips[n].openId = id /\ trips[n].status # "closed"
    BY <1>2, <1>8 DEF ClosedIn
  <2>2. PICK x \in DOMAIN input :
           trips[n].openId = input[x].id /\ input[x].side = SideOf(trips[n].direction)
    BY <2>1 DEF LeftFit, LeftOver
  <2>3. x = i
    BY <1>1, <1>6, <2>1, <2>2
  <2>. QED
    BY <2>2, <2>3 DEF SideOf
<1>9. A \cap B = {}
  BY <1>2, <1>7
<1>10. SumFunctionOnSet(f, A \cup B) = q
  <2>1. i <= Taken
    BY FillsAreNumbered DEF UnitsFit, Taken
  <2>2. UnitsIn(trips, id) = q
    BY <1>1, <2>1 DEF UnitsFit
  <2>3. Touching(trips, id) = A \cup B
    <3>1. \A n \in DOMAIN trips : n \notin ClosedIn(trips) => trips[n].closeId # id
      BY <1>1 DEF LeftFit, LeftOver, ClosedIn
    <3>. QED
      BY <1>2, <3>1 DEF Touching, ClosedIn
  <2>. QED
    BY <1>3, <2>2, <2>3, Zenon DEF UnitsIn
<1>11. SumFunctionOnSet(f, A \cup B) = SumFunctionOnSet(f, A) + SumFunctionOnSet(f, B)
  <2>1. \A n \in A \cup B : f[n] \in Int
    BY <1>4, <1>5
  <2>. QED
    BY <1>4, <1>9, <2>1, SumOfUnion
<1>12. SumFunctionOnSet(f, A) \in Int /\ SumFunctionOnSet(f, B) \in Int
  <2>1. (\A n \in A : f[n] \in Int) /\ \A n \in B : f[n] \in Int
    BY <1>4, <1>5
  <2>. QED
    BY <1>4, <2>1, SumIsNumber
<1>13. \A n \in A : s[n] = (IF input[i].side = "BOT" THEN f[n] ELSE -f[n]) /\ f[n] \in Int
  <2>1. ASSUME NEW n \in A
        PROVE  s[n] = (IF input[i].side = "BOT" THEN f[n] ELSE -f[n]) /\ f[n] \in Int
    <3>1. trips[n].direction = "LONG" <=> input[i].side = "BOT"
      BY <1>7, <1>8
    <3>. QED
      BY <1>4, <1>5, <3>1 DEF Moves
  <2>. QED
    BY <2>1
<1>14. \A n \in B : r[n] = (IF input[i].side = "BOT" THEN f[n] ELSE -f[n]) /\ f[n] \in Int
  <2>1. ASSUME NEW n \in B
        PROVE  r[n] = (IF input[i].side = "BOT" THEN f[n] ELSE -f[n]) /\ f[n] \in Int
    <3>1. n \in ClosedIn(trips)
      BY <1>2
    <3>2. trips[n].direction = "LONG" <=> input[i].side # "BOT"
      BY <1>7, <3>1
    <3>3. n \in DOMAIN trips /\ f[n] \in Int /\ f[n] = trips[n].qty
      BY <1>4, <1>5
    <3>4. r[n] = -Moves(trips[n])
      BY <3>3
    <3>. QED
      BY <3>2, <3>3, <3>4 DEF Moves
  <2>. QED
    BY <2>1
<1>15. CASE input[i].side = "BOT"
  <2>1. /\ SumFunctionOnSet(s, A) = SumFunctionOnSet(f, A)
        /\ SumFunctionOnSet(r, B) = SumFunctionOnSet(f, B)
    BY <1>4, <1>13, <1>14, <1>15, SumOfSame
  <2>2. SumFunctionOnSet(s, A) + SumFunctionOnSet(r, B) = q
    BY <1>10, <1>11, <2>1
  <2>3. RT!Signed(input[i]) = q
    BY <1>1, <1>15 DEF RT!Signed
  <2>. QED
    BY <1>1, <1>2, <2>2, <2>3, Zenon
<1>16. CASE input[i].side # "BOT"
  <2>1. /\ SumFunctionOnSet(s, A) = -SumFunctionOnSet(f, A)
        /\ SumFunctionOnSet(r, B) = -SumFunctionOnSet(f, B)
    BY <1>4, <1>13, <1>14, <1>16, SumOfOpposites
  <2>2. SumFunctionOnSet(s, A) + SumFunctionOnSet(r, B) = -q
    BY <1>10, <1>11, <1>12, <2>1
  <2>3. RT!Signed(input[i]) = -q
    BY <1>1, <1>16 DEF RT!Signed
  <2>. QED
    BY <1>1, <1>2, <2>2, <2>3, Zenon
<1>. QED
  BY <1>15, <1>16

(* What closed has moved the position forth and back; what is left moves it *)
(* by what the rows do.                                                     *)
LEMMA NetPosition ==
    ASSUME RT!ProperFills, MatchSafe, UnitsFit, LeftFit, Drawn, mpc = "done"
    PROVE  SumFunctionOnSet([n \in DOMAIN trips |-> Moves(trips[n])],
                            {n \in DOMAIN trips : trips[n].status # "closed"})
            = SumFunctionOnSet([i \in DOMAIN rows |-> RT!Signed(rows[i])], RT!FillsOf(key))
<1>1. PICK D, C, O : /\ D = DOMAIN trips /\ C = ClosedIn(trips)
                     /\ O = {n \in DOMAIN trips : trips[n].status # "closed"}
  BY Zenon
<1>2. PICK T : T = RT!FillsOf(key)
  BY Zenon
<1>3. PICK s, r, g :
         /\ s = [n \in D |-> Moves(trips[n])] /\ r = [n \in D |-> -Moves(trips[n])]
         /\ g = [i \in DOMAIN rows |-> RT!Signed(rows[i])]
  BY Zenon
<1>4. PICK opener, closer :
         /\ opener = [n \in D |-> trips[n].openId] /\ closer = [n \in D |-> trips[n].closeId]
  BY Zenon
<1>5. /\ IsFiniteSet(D) /\ IsFiniteSet(C) /\ IsFiniteSet(O)
      /\ C \subseteq D /\ O \subseteq D /\ D = C \cup O /\ C \cap O = {}
  <2>1. DOMAIN trips = 1 .. Len(trips) /\ Len(trips) \in Nat
    BY DEF MatchSafe, TripsFit, IsSeq
  <2>2. /\ IsFiniteSet(D) /\ C \subseteq D /\ O \subseteq D
        /\ D = C \cup O /\ C \cap O = {}
    BY <1>1, <2>1, FS_Interval DEF ClosedIn
  <2>. QED
    BY <2>2, FS_Subset
<1>6. IsFiniteSet(T) /\ T \subseteq DOMAIN rows
  <2>1. T \subseteq DOMAIN rows
    BY <1>2, Zenon DEF RT!FillsOf, RT!enrichBAGFromLegs
  <2>. QED
    BY <2>1, FS_Subset DEF Drawn, Journal
<1>7. \A n \in D : Moves(trips[n]) \in Int
  BY <1>1 DEF UnitsFit, AreUnits, Moves
<1>8. \A n \in D : s[n] \in Int /\ r[n] \in Int /\ s[n] = Moves(trips[n]) /\ r[n] = -s[n]
  BY <1>3, <1>7
<1>9. \A i \in DOMAIN input : input[i].id \in T
  BY <1>2 DEF Drawn
<1>10. \A n \in C : opener[n] \in T /\ closer[n] \in T
  <2>1. SUFFICES ASSUME NEW n \in C PROVE opener[n] \in T /\ closer[n] \in T
    OBVIOUS
  <2>2. PICK i \in DOMAIN input, j \in DOMAIN input : RT!TripOf(trips[n], i, j)
    BY <1>1 DEF MatchSafe, TripsFit
  <2>3. trips[n].openId = input[i].id /\ trips[n].closeId = input[j].id
    BY <2>2 DEF RT!TripOf
  <2>. QED
    BY <1>4, <1>5, <1>9, <2>3
<1>11. \A n \in O : opener[n] \in T
  <2>1. SUFFICES ASSUME NEW n \in O PROVE opener[n] \in T
    OBVIOUS
  <2>2. LeftOver(trips[n])
    BY <1>1 DEF LeftFit
  <2>. QED
    BY <1>4, <1>5, <1>9, <2>2 DEF LeftOver
<1>12. PICK a, b :
          /\ a = [t \in T |-> SumFunctionOnSet(s, {n \in D : opener[n] = t})]
          /\ b = [t \in T |-> SumFunctionOnSet(r, {n \in C : closer[n] = t})]
  BY Zenon
<1>13. SumFunctionOnSet(a, T) = SumFunctionOnSet(s, D)
  <2>1. (\A n \in D : s[n] \in Int) /\ \A n \in D : opener[n] \in T
    BY <1>5, <1>8, <1>10, <1>11
  <2>2. SumFunctionOnSet([t \in T |-> SumFunctionOnSet(s, {n \in D : opener[n] = t})], T)
          = SumFunctionOnSet(s, D)
    BY <1>5, <1>6, <2>1, SumOfParts
  <2>. QED
    BY <1>12, <2>2, Zenon
<1>14. SumFunctionOnSet(b, T) = SumFunctionOnSet(r, C)
  <2>1. (\A n \in C : r[n] \in Int) /\ \A n \in C : closer[n] \in T
    BY <1>5, <1>8, <1>10
  <2>2. SumFunctionOnSet([t \in T |-> SumFunctionOnSet(r, {n \in C : closer[n] = t})], T)
          = SumFunctionOnSet(r, C)
    BY <1>5, <1>6, <2>1, SumOfParts
  <2>. QED
    BY <1>12, <2>2, Zenon
<1>15. \A id \in T : a[id] \in Int /\ b[id] \in Int /\ g[id] = a[id] + b[id]
  <2>1. SUFFICES ASSUME NEW id \in T
                 PROVE  a[id] \in Int /\ b[id] \in Int /\ g[id] = a[id] + b[id]
    OBVIOUS
  <2>2. PICK A, B : A = {n \in D : opener[n] = id} /\ B = {n \in C : closer[n] = id}
    BY Zenon
  <2>3. a[id] = SumFunctionOnSet(s, A) /\ b[id] = SumFunctionOnSet(r, B)
    BY <1>12, <2>2
  <2>4. A \subseteq D /\ B \subseteq D /\ IsFiniteSet(A) /\ IsFiniteSet(B)
    BY <1>5, <2>2, FS_Subset
  <2>5. (\A n \in A : s[n] \in Int) /\ \A n \in B : r[n] \in Int
    BY <1>8, <2>4
  <2>6. a[id] \in Int /\ b[id] \in Int
    BY <2>3, <2>4, <2>5, SumIsNumber
  <2>7. PICK i \in DOMAIN input : input[i].id = id
    BY <1>2 DEF Drawn
  <2>8. /\ \A n \in DOMAIN trips : s[n] = Moves(trips[n])
        /\ \A n \in DOMAIN trips : r[n] = -Moves(trips[n])
    BY <1>1, <1>8
  <2>9. SumFunctionOnSet(s, {n \in DOMAIN trips : trips[n].openId = input[i].id})
          + SumFunctionOnSet(r, {n \in ClosedIn(trips) : trips[n].closeId = input[i].id})
          = RT!Signed(input[i])
    BY <2>8, MovesOfFill
  <2>10. /\ A = {n \in DOMAIN trips : trips[n].openId = input[i].id}
         /\ B = {n \in ClosedIn(trips) : trips[n].closeId = input[i].id}
    BY <1>1, <1>4, <1>5, <2>2, <2>7
  <2>11. a[id] + b[id] = RT!Signed(input[i])
    BY <2>3, <2>9, <2>10, Zenon
  <2>12. g[id] = RT!Signed(rows[id])
    BY <1>3, <1>6
  <2>13. input[i].side = rows[id].side /\ input[i].qty = rows[id].qty
    BY <2>7 DEF Drawn
  <2>14. RT!Signed(input[i]) = RT!Signed(rows[id])
    BY <2>13, Zenon DEF RT!Signed
  <2>. QED
    BY <2>6, <2>11, <2>12, <2>14
<1>16. SumFunctionOnSet(g, T) = SumFunctionOnSet(a, T) + SumFunctionOnSet(b, T)
  BY <1>6, <1>15, SumOfBoth
<1>17. /\ SumFunctionOnSet(s, D) = SumFunctionOnSet(s, C) + SumFunctionOnSet(s, O)
       /\ SumFunctionOnSet(s, C) \in Int /\ SumFunctionOnSet(s, O) \in Int
  <2>1. (\A n \in C : s[n] \in Int) /\ (\A n \in O : s[n] \in Int)
        /\ \A n \in C \cup O : s[n] \in Int
    BY <1>5, <1>8
  <2>. QED
    BY <1>5, <2>1, SumOfUnion, SumIsNumber
<1>18. SumFunctionOnSet(r, C) = -SumFunctionOnSet(s, C)
  <2>1. \A n \in C : s[n] \in Int /\ r[n] = -s[n]
    BY <1>5, <1>8
  <2>. QED
    BY <1>5, <2>1, SumOfOpposites
<1>19. SumFunctionOnSet(s, O) = SumFunctionOnSet(g, T)
  BY <1>13, <1>14, <1>16, <1>17, <1>18
<1>. QED
  BY <1>1, <1>2, <1>3, <1>19, Zenon

(* Whatever rows a journal holds and in whatever order it hands them over:  *)
(* every pair of fills is matched by the units that first-in first-out      *)
(* gives it, computed from the positions before the two and not by taking   *)
(* lots off a queue, and the trips that are left are the position that the  *)
(* rows leave in the instrument (matchGroup, enrichBAGFromLegs and          *)
(* groupByPermID in internal/journal/matcher.go).                           *)
THEOREM PositionIsKept == JournalsSpec => []PositionKept
<1>1. RT!ProperFills /\ MatchSafe /\ UnitsFit /\ StockFits /\ LeftFit /\ Drawn => PositionKept
  <2>1. SUFFICES ASSUME RT!ProperFills, MatchSafe, UnitsFit, StockFits, LeftFit, Drawn,
                        mpc = "done"
                 PROVE  /\ RT!AsComputed
                        /\ RT!SumFunctionOnSet(
                              [n \in DOMAIN trips |->
                                  IF trips[n].direction = "LONG" THEN trips[n].qty
                                                                 ELSE -trips[n].qty],
                              {n \in DOMAIN trips : trips[n].status # "closed"})
                           = RT!SumFunctionOnSet([i \in DOMAIN rows |-> RT!Signed(rows[i])],
                                {i \in DOMAIN rows : RT!Represents(i, key)})
    BY Zenon DEF PositionKept, RT!PositionKept
  <2>2. RT!AsComputed
    BY <2>1, StockIsComputed
  <2>3. {i \in DOMAIN rows : RT!Represents(i, key)} = RT!FillsOf(key)
    <3>1. key = [sec |-> key.sec, exp |-> key.exp]
      BY <2>1 DEF Drawn
    <3>. QED
      BY <3>1, FillsRepresent
  <2>4. [n \in DOMAIN trips |->
            IF trips[n].direction = "LONG" THEN trips[n].qty ELSE -trips[n].qty]
          = [n \in DOMAIN trips |-> Moves(trips[n])]
    BY DEF Moves
  <2>5. SumFunctionOnSet([n \in DOMAIN trips |-> Moves(trips[n])],
                         {n \in DOMAIN trips : trips[n].status # "closed"})
          = SumFunctionOnSet([i \in DOMAIN rows |-> RT!Signed(rows[i])], RT!FillsOf(key))
    BY <2>1, NetPosition
  <2>. QED
    BY <2>2, <2>3, <2>4, <2>5, SameSums, Zenon
<1>2. JournalsSpec => [](Given /\ MatchSafe)
  BY AlwaysMatched
<1>3. Given => RT!ProperFills
  BY DEF Given
<1>4. JournalsSpec => []UnitsFit
  <2>1. JournalsInit => (RT!ProperFills => UnitsFit)
    BY UnitsInit
  <2>2. /\ Given /\ MatchSafe
        /\ RT!ProperFills => UnitsFit
        /\ [JournalsNext]_allVars
        => (RT!ProperFills => UnitsFit)'
    BY UnitsStep
  <2>. QED
    BY <1>2, <1>3, <2>1, <2>2, PTL DEF JournalsSpec
<1>5. JournalsSpec => []StockFits
  <2>1. JournalsInit => (RT!ProperFills => StockFits)
    BY StockInit
  <2>. QED
    BY <1>2, <1>3, <1>4, <2>1, StockStep, PTL DEF JournalsSpec
<1>6. JournalsSpec => []LeftFit
  <2>1. JournalsInit => LeftFit
    <3>1. JournalsInit => trips = <<>>
      <4>1. CASE which = "match"
        BY <4>1, Zenon DEF JournalsInit, RT!MatchInit, RT!Start
      <4>2. CASE which # "match"
        BY <4>2, Zenon DEF JournalsInit, NoMatch
      <4>. QED
        BY <4>1, <4>2
    <3>. QED
      BY <3>1 DEF LeftFit
  <2>. QED
    BY <1>2, <2>1, LeftStep, PTL DEF JournalsSpec
<1>7. JournalsSpec => []Drawn
  BY DrawnInit, DrawnStays, PTL DEF JournalsSpec
<1>. QED
  BY <1>1, <1>2, <1>3, <1>4, <1>5, <1>6, <1>7, PTL
=============================================================================
