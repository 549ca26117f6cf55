----------------------------- MODULE IntelViews -----------------------------
(***************************************************************************)
(* Which market phase it is, which view that asks for, and what the intel  *)
(* journal shows of a day (internal/intel: phase, calendar, checkpoints,   *)
(* view_resolver, journal, handlers).  Time is in half hours of New York:  *)
(* every boundary of the code is a multiple of that.  The calendar gives   *)
(* the kind of each day; daylight saving is left to the time library.      *)
(***************************************************************************)
EXTENDS Integers, Sequences, FiniteSetsExt

CONSTANT Calendar       \* day |-> "session", "half", "holiday", "weekend"

VARIABLES
    t,          \* the time, in half hours since the first day began
    override,   \* shockOverrideCache: "none", "shock", "calm"
    view,       \* what the last automatic request was shown
    shown       \* the journal it was shown

vars == <<t, override, view, shown>>

SlotsPerDay == 48
DayOf(u) == u \div SlotsPerDay
Slot(u) == u % SlotsPerDay
Days == DOMAIN Calendar
Times == {u \in 0 .. SlotsPerDay * (Cardinality(Days) + 1) : DayOf(u) \in Days}

(* calendar.go                                                              *)
IsTradingDay(u) == Calendar[DayOf(u)] \notin {"weekend", "holiday"}
EarlyClose(u) == Calendar[DayOf(u)] = "half"
PreOpen == 8                    \* 04:00
Open == 19                      \* 09:30
Close(u) == IF EarlyClose(u) THEN 26 ELSE 32

(* phase.go                                                                 *)
PhaseAt(u) ==
    IF ~IsTradingDay(u) THEN "closed"
    ELSE CASE Slot(u) \in PreOpen .. Open - 1             -> "premarket"
           [] Slot(u) \in Open .. Close(u) - 1            -> "intraday"
           [] Slot(u) \in Close(u) .. Close(u) + 8 - 1    -> "postclose"
           [] OTHER                                       -> "closed"

WholeDayBoundaries(u) ==                \* mutant: half days are forgotten
    IF ~IsTradingDay(u) THEN {}
    ELSE {DayOf(u) * SlotsPerDay + s : s \in {PreOpen, Open, 32, 40}}
DayBoundaries(u) ==
    IF ~IsTradingDay(u) THEN {}
    ELSE {DayOf(u) * SlotsPerDay + s : s \in {PreOpen, Open, Close(u), Close(u) + 8}}

(* The first boundary after u of this day or one of the thirteen that       *)
(* follow.                                                                  *)
NextTransition(u) ==
    LET ahead == {b \in UNION {DayBoundaries(u + SlotsPerDay * d) :
                               d \in {d \in 0 .. 13 : DayOf(u) + d \in Days}} : b > u}
    IN IF ahead = {} THEN [at |-> 0, phase |-> "closed"]
       ELSE [at |-> Min(ahead), phase |-> PhaseAt(Min(ahead))]

ViewFor(phase) == IF phase \in {"premarket", "intraday"} THEN phase ELSE "postclose"

-----------------------------------------------------------------------------
(* checkpoints.go: the four of a day, in its order.                         *)
CheckpointSlots == [script |-> 16, first_check |-> 21, set_tone |-> 30, reconcile |-> 33]
DailyCheckpoints == DOMAIN CheckpointSlots
CheckpointTime(day, kind) == day * SlotsPerDay + CheckpointSlots[kind]

CheckpointStatus(u, written) ==
    [kind \in DailyCheckpoints |->
        IF kind \in written THEN "written"
        ELSE IF u >= CheckpointTime(DayOf(u), kind) THEN "due" ELSE "pending"]

(* ReadJournal.  narratives: a sequence of [kind, id] in the order they were *)
(* written; judgments: a set of [id, kind, supersedes]; outcomes of the     *)
(* reconciled ones.  A past day is urged for nothing.                       *)
Superseded(judgments) == {j.supersedes : j \in judgments}
HitRate(judgments, outcomes) ==
    LET counted(outcome) == {j \in judgments : /\ j.id \in DOMAIN outcomes
                                               /\ j.id \notin Superseded(judgments)
                                               /\ outcomes[j.id] = outcome}
    IN [hit |-> Cardinality(counted("hit")), miss |-> Cardinality(counted("miss"))]

LatestNarratives(narratives) ==
    LET kinds == {narratives[i].kind : i \in DOMAIN narratives}
    IN [k \in kinds |-> narratives[Max({i \in DOMAIN narratives : narratives[i].kind = k})]]

ReadJournal(u, day, narratives, judgments, outcomes) ==
    LET written == {narratives[i].kind : i \in DOMAIN narratives} \cup {j.kind : j \in judgments}
        status == CheckpointStatus(u, written)
    IN [narratives |-> LatestNarratives(narratives),
        checkpoints |-> IF day = DayOf(u) THEN status
                        ELSE [k \in DailyCheckpoints |->
                                IF k \in written THEN "written" ELSE "pending"],
        hitRate |-> HitRate(judgments, outcomes)]

(* Status: today's journal and the phase of the clock.                      *)
Status(u, narratives, judgments, outcomes) ==
    [phase |-> PhaseAt(u), tradingDay |-> IsTradingDay(u),
     journal |-> ReadJournal(u, DayOf(u), narratives, judgments, outcomes)]

-----------------------------------------------------------------------------
(* resolveAutoView: a shock goes before an event, an event before the       *)
(* phase.  The verdict on the shock, a failure to tell included, holds for  *)
(* a minute; an event counts on the date it is scheduled for.               *)
NoEntries == [checkpoints |-> <<>>]
Init == t \in Times /\ override = "none" /\ view = ViewFor(PhaseAt(t))
        /\ shown = NoEntries

ShockOverride(regime) ==
    IF override # "none" THEN override ELSE IF regime = "shock" THEN "shock" ELSE "calm"

AutoView(regime, eventDays) ==
    /\ override' = ShockOverride(regime)
    /\ view' = IF override' = "shock" THEN "shock"
               ELSE IF DayOf(t) \in eventDays THEN "event" ELSE ViewFor(PhaseAt(t))
    /\ UNCHANGED <<t, shown>>

MinutePasses == override # "none" /\ override' = "none" /\ UNCHANGED <<t, view, shown>>
ClockMoves == t + 1 \in Times /\ t' = t + 1 /\ override' = "none" /\ shown' = NoEntries /\ UNCHANGED view

(* handleJournal and the status command; each reads the rows of one day.    *)
ReadADay(day, narratives, judgments, outcomes) ==
    /\ \/ shown' = ReadJournal(t, day, narratives, judgments, outcomes)
       \/ day = DayOf(t) /\ shown' = Status(t, narratives, judgments, outcomes).journal
    /\ UNCHANGED <<t, override, view>>

Written == {<<>>, <<[kind |-> "script", id |-> 1], [kind |-> "script", id |-> 2]>>}
Judged == [id |-> 1, kind |-> "first_check", supersedes |-> 0]
Withdrawn == [id |-> 2, kind |-> "set_tone", supersedes |-> 1]

Next ==
    \/ \E regime \in {"shock", "calm", "failed"}, eventDays \in {{}, {DayOf(t)}} :
          AutoView(regime, eventDays)
    \/ \E day \in {DayOf(t), DayOf(t) - 1} \cap Days, narratives \in Written,
          judgments \in {{}, {Judged, Withdrawn}}, scored \in BOOLEAN :
       /\ shown = NoEntries          \* bound: one reading in half an hour
       /\ ReadADay(day, narratives, judgments,
                   [i \in {j.id : j \in judgments} |-> IF scored THEN "miss" ELSE "unscored"])
    \/ MinutePasses \/ ClockMoves

Spec == Init /\ [][Next]_vars

-----------------------------------------------------------------------------
TypeOK == t \in Times /\ override \in {"none", "shock", "calm"}

(* The transition that is announced is the next change of the phase: until  *)
(* then it stays what it is, and then it is the one that was announced, on  *)
(* half days and across weekends and holidays.                              *)
TransitionIsNextChange ==
    LET next == NextTransition(t)
    IN next.at # 0 =>
          /\ \A u \in t .. next.at - 1 : PhaseAt(u) = PhaseAt(t)
          /\ PhaseAt(next.at) = next.phase /\ next.phase # PhaseAt(t)

=============================================================================
