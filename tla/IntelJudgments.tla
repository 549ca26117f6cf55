--------------------------- MODULE IntelJudgments ---------------------------
(***************************************************************************)
(* The judgments of the intel journal (intel/journal.go, datastore/sqlite/ *)
(* intel_journal.go, pulse_bars.go): `optix intel judge` registers one     *)
(* with the price of the moment, `optix intel reconcile` scores those      *)
(* whose checkpoint has passed against the stored pulse bars, which only   *)
(* appear when somebody looks at a pulse and are pruned after a while.     *)
(*                                                                         *)
(* One asset.  Time is counted in quarters of an hour.                     *)
(***************************************************************************)
EXTENDS Integers

CONSTANTS
    Reconcilers,    \* runs of `optix intel reconcile`
    Checkpoints,    \* the times of the day's checkpoints
    Directions,     \* a subset of {"up", "down", "flat"}
    Judges,         \* identities of judgments
    Market,         \* the price of every quarter
    Threshold,      \* in the unit of the prices
    Tolerance,      \* reconcileTolerance
    Retention,      \* PulseBarRetention
    LastQuarter     \* bound of the model

VARIABLES
    now,
    barsAt,         \* market_pulse_bars: the quarters stored
    judgments,      \* intel_judgments, by identity
    recs,           \* intel_reconciliations, by identity
    pc, todo,       \* of a reconciler: its place, the judgments it has yet to score
    priced,         \* ... the quarter PulseCloseNear answered for the next one
    missed          \* history: judgments looked up when no bar was there

vars == <<now, barsAt, judgments, recs, pc, todo, priced, missed>>

Quarters == 1 .. LastQuarter
NoBar == 0
NoOne == "none"
Nothing == [kind |-> "none"]
Unscored == [outcome |-> "none", at |-> NoBar]

Registered(j) == judgments[j] # Nothing
Scored(j) == recs[j] # Unscored

Init ==
    /\ now = 1
    /\ barsAt = {}
    /\ judgments = [j \in Judges |-> Nothing]
    /\ recs = [j \in Judges |-> Unscored]
    /\ pc = [r \in Reconcilers |-> "idle"]
    /\ todo = [r \in Reconcilers |-> {}]
    /\ priced = [r \in Reconcilers |-> NoBar]
    /\ missed = {}

-----------------------------------------------------------------------------
(* The quote is fetched after the checkpoint was found to be in the future; *)
(* both happen within a quarter.                                            *)
RegisterJudgment(j, direction, expiry, supersedes) ==
    /\ ~Registered(j)
    /\ expiry > now
    /\ judgments' = [judgments EXCEPT ![j] =
            [kind |-> "judgment", direction |-> direction, expiry |-> expiry,
             price |-> Market[now], supersedes |-> supersedes]]
    /\ UNCHANGED <<now, barsAt, recs, pc, todo, priced, missed>>

(* A pulse with sparklines stores the bars up to now that the source has.   *)
UpsertPulseBars ==
    /\ \E got \in SUBSET {q \in Quarters : q <= now /\ now - q <= Retention} :
          got # {} /\ barsAt' = barsAt \cup got
    /\ UNCHANGED <<now, judgments, recs, pc, todo, priced, missed>>

PrunePulseBars ==
    /\ barsAt' = {q \in barsAt : now - q <= Retention}
    /\ UNCHANGED <<now, judgments, recs, pc, todo, priced, missed>>

-----------------------------------------------------------------------------
(* ReadJournal: superseded judgments keep their row and leave the hit rate. *)
Superseded ==
    {j \in Judges : \E k \in Judges : Registered(k) /\ judgments[k].supersedes = j}
Counted == {j \in Judges \ Superseded : recs[j].outcome \in {"hit", "miss"}}

-----------------------------------------------------------------------------
ExpiredUnsettledJudgments ==
    {j \in Judges : Registered(j) /\ judgments[j].expiry <= now /\ ~Scored(j)}

End(r) ==
    /\ pc' = [pc EXCEPT ![r] = "idle"]
    /\ todo' = [todo EXCEPT ![r] = {}]
    /\ priced' = [priced EXCEPT ![r] = NoBar]

Begin(r) ==
    /\ pc[r] = "idle" /\ ExpiredUnsettledJudgments # {}
    /\ pc' = [pc EXCEPT ![r] = "price"]
    /\ todo' = [todo EXCEPT ![r] = ExpiredUnsettledJudgments]
    /\ UNCHANGED <<now, barsAt, judgments, recs, priced, missed>>

Latest(S) == CHOOSE q \in S : \A p \in S : q >= p

BarsUntilNow(at) == {q \in barsAt : at - Tolerance <= q}  \* mutant: no upper bound

BarsNear(at) == {q \in barsAt : at - Tolerance <= q /\ q <= at}

(* The last bar of [at - tolerance, at], or none.                           *)
PulseCloseNear(at) == IF BarsNear(at) = {} THEN NoBar ELSE Latest(BarsNear(at))

Earliest(r) ==
    {j \in todo[r] : \A k \in todo[r] : judgments[j].expiry <= judgments[k].expiry}
NextOf(r) == CHOOSE j \in Earliest(r) : TRUE

LookUpPrice(r) ==
    /\ pc[r] = "price" /\ todo[r] # {}
    /\ LET j == NextOf(r)
           bar == PulseCloseNear(judgments[j].expiry)
       IN /\ priced' = [priced EXCEPT ![r] = bar]
          /\ missed' = IF bar = NoBar THEN missed \cup {j} ELSE missed
    /\ pc' = [pc EXCEPT ![r] = "insert"]
    /\ UNCHANGED <<now, barsAt, judgments, recs, todo>>

(* A database error is not a missing price: it ends the batch.              *)
LookUpFails(r) ==
    /\ pc[r] = "price" /\ todo[r] # {}
    /\ End(r)
    /\ UNCHANGED <<now, barsAt, judgments, recs, missed>>

Score(direction, delta) ==
    LET hit == CASE direction = "up"   -> delta >= Threshold
                 [] direction = "down" -> delta <= -Threshold
                 [] direction = "flat" -> -Threshold <= delta /\ delta <= Threshold
    IN IF hit THEN "hit" ELSE "miss"

OutcomeOf(j, bar) ==
    IF bar = NoBar \/ Market[bar] <= 0 \/ judgments[j].price <= 0
    THEN "void"
    ELSE Score(judgments[j].direction, Market[bar] - judgments[j].price)

InsertOrReplace(j, rec) ==              \* mutant: INSERT OR REPLACE
    recs' = [recs EXCEPT ![j] = rec]

InsertOrIgnore(j, rec) ==
    recs' = [recs EXCEPT ![j] = IF Scored(j) THEN @ ELSE rec]

InsertReconciliation(r) ==
    /\ pc[r] = "insert"
    /\ LET j == NextOf(r)
       IN /\ InsertOrIgnore(j, [outcome |-> OutcomeOf(j, priced[r]), at |-> priced[r]])
          /\ todo' = [todo EXCEPT ![r] = @ \ {j}]
    /\ pc' = [pc EXCEPT ![r] = "price"]
    /\ priced' = [priced EXCEPT ![r] = NoBar]
    /\ UNCHANGED <<now, barsAt, judgments, missed>>

InsertFails(r) ==
    /\ pc[r] = "insert"
    /\ End(r)
    /\ UNCHANGED <<now, barsAt, judgments, recs, missed>>

Return(r) ==
    /\ pc[r] = "price" /\ todo[r] = {}
    /\ End(r)
    /\ UNCHANGED <<now, barsAt, judgments, recs, missed>>

Tick ==
    /\ now < LastQuarter
    /\ now' = now + 1
    /\ UNCHANGED <<barsAt, judgments, recs, pc, todo, priced, missed>>

Next ==
    \/ \E j \in Judges, d \in Directions, c \in Checkpoints, s \in Judges \cup {NoOne} :
          RegisterJudgment(j, d, c, s)
    \/ UpsertPulseBars \/ PrunePulseBars
    \/ \E r \in Reconcilers :
          \/ Begin(r) \/ LookUpPrice(r) \/ LookUpFails(r)
          \/ InsertReconciliation(r) \/ InsertFails(r) \/ Return(r)
    \/ Tick

Spec == Init /\ [][Next]_vars

-----------------------------------------------------------------------------
TypeOK ==
    /\ now \in Quarters /\ barsAt \subseteq 1 .. now
    /\ \A j \in Judges : Scored(j) => Registered(j)
    /\ \A r \in Reconcilers :
          /\ pc[r] \in {"idle", "price", "insert"}
          /\ pc[r] = "insert" => todo[r] # {}
          /\ \A j \in todo[r] : Registered(j) /\ judgments[j].expiry <= now

(* A judgment is scored with a price of the tolerance before its expiry,    *)
(* never with a later one, however late the reconcile runs and whatever     *)
(* has been stored or pruned since; and it is void only if some reconcile   *)
(* looked when no such bar was there.                                       *)
ScoredWithoutHindsight ==
    \A j \in Judges :
        Scored(j) =>
            /\ judgments[j].expiry <= now
            /\ IF recs[j].at = NoBar THEN recs[j].outcome = "void" /\ j \in missed
               ELSE /\ recs[j].at <= judgments[j].expiry
                    /\ recs[j].at >= judgments[j].expiry - Tolerance

(* Scores are final: overlapping reconciles, one of which found no price,   *)
(* never turn a hit or a miss into a void, or anything into another; and a  *)
(* score leaves the hit rate only by a new judgment that supersedes it.     *)
ScoresAreFinal ==
    [][/\ \A j \in Judges : Scored(j) => recs'[j] = recs[j]
       /\ \A j \in Counted \ Counted' :
             \E k \in Judges : ~Registered(k) /\ judgments'[k].supersedes = j]_vars

=============================================================================
