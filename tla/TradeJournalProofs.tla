-------------------------- MODULE TradeJournalProofs --------------------------
(***************************************************************************)
(* That the trade journal loses no execution in silence, for any number of *)
(* syncs and executions and any window and gap that leave two half days    *)
(* between them.                                                           *)
(*                                                                         *)
(* NoSilentLoss alone is not inductive: whether an execution that is being *)
(* forgotten was warned of depends on what the state row claims.  A stamp  *)
(* is earned (Earned): what happened more than one half day before it is   *)
(* accounted for, and so is what happened before a last_sync_at that a     *)
(* failing sync has read and will write back.  A running sync owes this to *)
(* its answer (Owed), which it fetched less than a half day ago.           *)
(***************************************************************************)
EXTENDS TradeJournal, TLAPS

(* In the journal, warned of, or left out by an answer cut short.           *)
Known(e) == e \in journal \cup warned \cup cut

(* A last_sync_at of t says: what happened before is accounted for.         *)
Claims(t) == \A e \in Execs : filled[e] # Never /\ filled[e] + 1 < t => Known(e)

Earned ==
    /\ Claims(row.at)
    /\ \A s \in Syncers : Claims(read[s])

Owed ==
    \A s \in Syncers, e \in Execs :
        filled[e] # Never /\ filled[e] + late[s] < now =>
            /\ pc[s] = "upsert" => Known(e) \/ e \in answer[s]
            /\ pc[s] = "stamp" => Known(e)

WarnedInTime == \A e \in Execs : Remembered(e) /\ GapWarning => e \in warned

IInv == TypeOK /\ Earned /\ Owed /\ WarnedInTime /\ NoSilentLoss

-----------------------------------------------------------------------------
(* What was known stays known.                                              *)
LEMMA KnownStays ==
    ASSUME TypeOK, [Next]_vars, NEW e \in Execs, Known(e)
    PROVE  Known(e)'
<1>1. warned \subseteq warned'
  BY DEF Next, Warn, vars
<1>2. journal \subseteq journal' /\ cut \subseteq cut'
  <2>1. CASE UNCHANGED vars
    BY <2>1 DEF vars
  <2>2. CASE Tick
    BY <2>2 DEF Tick
  <2>3. CASE \E x \in Execs : Fill(x)
    BY <2>3 DEF Fill
  <2>4. ASSUME NEW s \in Syncers, Sync(s)
        PROVE  journal \subseteq journal' /\ cut \subseteq cut'
    BY <2>4 DEF Sync, Start, CtxDone, Connect, NoGateway, NoBroker, Fetch, FetchFails,
                ReadRow, ReportFailure, UpsertExecutions, UpsertFails, Stamp
  <2> QED
    BY <2>1, <2>2, <2>3, <2>4 DEF Next, Step
<1> QED
  BY <1>1, <1>2 DEF Known

-----------------------------------------------------------------------------
(* The initial state has its types.                                         *)
LEMMA InitType == Init => TypeOK
  BY TimesAssumption DEF Init, TypeOK, Syncers, Never

(* A sync leaves the clock alone; each of its steps keeps the types.        *)
LEMMA SyncType ==
    ASSUME TypeOK, NEW s \in Syncers, Sync(s), now' = now, warned' \subseteq Execs
    PROVE  TypeOK'
<1> USE DEF TypeOK
<1>1. CASE Start(s)
  BY <1>1 DEF Start, Goto
<1>2. CASE CtxDone(s)
  BY <1>2 DEF CtxDone
<1>3. CASE Connect(s)
  BY <1>3 DEF Connect, Goto
<1>4. CASE NoGateway(s)
  BY <1>4 DEF NoGateway, Goto
<1>5. CASE NoBroker(s)
  BY <1>5 DEF NoBroker, Return, Goto, HangUp, Never
<1>6. CASE Fetch(s)
  BY <1>6 DEF Fetch, Goto, HangUpServer, HangUp
<1>7. CASE FetchFails(s)
  BY <1>7 DEF FetchFails, Goto, HangUpServer, HangUp
<1>8. CASE ReadRow(s)
  BY <1>8 DEF ReadRow, Goto, Never
<1>9. CASE ReportFailure(s)
  <2>1. read[s] \in 0 .. now
    OBVIOUS
  <2>2. row' \in [at : 0 .. now', error : BOOLEAN]
    <3>1. CASE UNCHANGED row
      BY <3>1
    <3>2. CASE row' = [at |-> read[s], error |-> TRUE]
      BY <2>1, <3>2
    <3> QED
      BY <1>9, <3>1, <3>2 DEF ReportFailure, RowOfFailure
  <2> QED
    BY <1>9, <2>2 DEF ReportFailure, Return, Goto, HangUp, Never
<1>10. CASE UpsertExecutions(s)
  BY <1>10 DEF UpsertExecutions, Goto
<1>11. CASE UpsertFails(s)
  BY <1>11 DEF UpsertFails, Return, Goto, HangUp, Never
<1>12. CASE Stamp(s)
  <2>1. row' \in [at : 0 .. now', error : BOOLEAN]
    <3>1. CASE UNCHANGED row
      BY <3>1
    <3>2. CASE row' = [at |-> now, error |-> FALSE]
      BY <3>2
    <3> QED
      BY <1>12, <3>1, <3>2 DEF Stamp
  <2> QED
    BY <1>12, <2>1 DEF Stamp, Return, Goto, HangUp, Never
<1> QED
  BY <1>1, <1>2, <1>3, <1>4, <1>5, <1>6, <1>7, <1>8, <1>9, <1>10, <1>11, <1>12 DEF Sync

(* Every step keeps the types: time, an execution, a sync.                  *)
LEMMA StepType == TypeOK /\ [Next]_vars => TypeOK'
<1> SUFFICES ASSUME TypeOK, [Next]_vars
             PROVE  TypeOK'
  OBVIOUS
<1>1. CASE UNCHANGED vars
  BY <1>1 DEF TypeOK, vars, syncVars
<1>2. CASE Next
  <2>1. warned' \subseteq Execs
    BY <1>2 DEF Next, Warn, TypeOK
  <2>2. CASE Tick
    BY <2>1, <2>2, TimesAssumption DEF Tick, TypeOK
  <2>3. ASSUME NEW e \in Execs, Fill(e), UNCHANGED now
        PROVE  TypeOK'
    BY <2>1, <2>3 DEF Fill, TypeOK, syncVars
  <2>4. ASSUME NEW s \in Syncers, Sync(s), UNCHANGED now
        PROVE  TypeOK'
    BY <2>1, <2>4, SyncType
  <2> QED
    BY <1>2, <2>2, <2>3, <2>4 DEF Next, Step
<1> QED
  BY <1>1, <1>2

(* The types hold in every state: the clock, the journal, the state row and *)
(* the local variables of SyncExecutions.                                   *)
THEOREM TypeCorrect == Spec => []TypeOK
  BY InitType, StepType, PTL DEF Spec

-----------------------------------------------------------------------------
(* Initially nothing has happened, and nothing is claimed.                  *)
LEMMA InitIInv == Init => IInv
<1> SUFFICES ASSUME Init
             PROVE  IInv
  OBVIOUS
<1>1. Earned /\ Owed
  BY DEF Init, Earned, Claims, Owed, Never
<1>2. WarnedInTime /\ NoSilentLoss
  BY DEF Init, WarnedInTime, NoSilentLoss, Remembered, Never
<1> QED
  BY <1>1, <1>2, InitType DEF IInv

(* What Warn has just written: it looks at the state a step leads to.       *)
LEMMA WarnWarns ==
    ASSUME Warn
    PROVE  WarnedInTime'
BY DEF Warn, WarnedInTime

(* The state row, and what a failing sync read of it, change only to what   *)
(* was earned: a stamp is of a sync that owes nothing more.                 *)
LEMMA SyncEarned ==
    ASSUME IInv, Next, NEW s \in Syncers, Sync(s), now' = now
    PROVE  Earned'
<1>1. filled' = filled
  BY DEF Sync, Start, CtxDone, Connect, NoGateway, NoBroker, Fetch, FetchFails,
         ReadRow, ReportFailure, UpsertExecutions, UpsertFails, Stamp
<1>2. \A e \in Execs : Known(e) => Known(e)'
  BY KnownStays DEF IInv
<1>3. \/ row'.at = row.at
      \/ row'.at = read[s]
      \/ pc[s] = "stamp" /\ row'.at = now
  BY DEF Sync, Start, CtxDone, Connect, NoGateway, NoBroker, Fetch, FetchFails,
         ReadRow, ReportFailure, RowOfFailure, UpsertExecutions, UpsertFails, Stamp
<1>4. \A r \in Syncers : read'[r] \in {read[r], row.at, Never}
  BY DEF IInv, TypeOK, Return, Sync, Start, CtxDone, Connect, NoGateway, NoBroker, Fetch,
         FetchFails, ReadRow, ReportFailure, UpsertExecutions, UpsertFails, Stamp
<1>5. SUFFICES ASSUME NEW e \in Execs, filled[e] # Never
               PROVE  /\ filled[e] + 1 < row'.at => Known(e)'
                      /\ \A r \in Syncers : filled[e] + 1 < read'[r] => Known(e)'
  BY <1>1 DEF Earned, Claims
<1>6. filled[e] \in Nat /\ now \in Nat /\ late[s] \in 0 .. 1
  BY DEF IInv, TypeOK
<1>7. pc[s] = "stamp" /\ filled[e] + 1 < now => Known(e)
  BY <1>5, <1>6 DEF IInv, Owed
<1>8. filled[e] + 1 < row'.at => Known(e)
  BY <1>3, <1>5, <1>7 DEF IInv, Earned, Claims
<1>9. ASSUME NEW r \in Syncers, filled[e] + 1 < read'[r]
      PROVE  Known(e)
  BY <1>4, <1>5, <1>6, <1>9 DEF IInv, Earned, Claims, Never
<1> QED
  BY <1>2, <1>8, <1>9

(* An answer has what happened before it and was not forgotten; the upsert  *)
(* puts it into the journal; everybody else owes what he owed.              *)
LEMMA SyncOwed ==
    ASSUME IInv, Next, NEW s \in Syncers, Sync(s), now' = now
    PROVE  Owed'
<1>1. filled' = filled
  BY DEF Sync, Start, CtxDone, Connect, NoGateway, NoBroker, Fetch, FetchFails,
         ReadRow, ReportFailure, UpsertExecutions, UpsertFails, Stamp
<1>2. \A e \in Execs : Known(e) => Known(e)'
  BY KnownStays DEF IInv
<1>3. \A r \in Syncers \ {s} :
        pc'[r] = pc[r] /\ answer'[r] = answer[r] /\ late'[r] = late[r]
  BY DEF IInv, TypeOK, Return, Goto, Sync, Start, CtxDone, Connect, NoGateway, NoBroker,
         Fetch, FetchFails, ReadRow, ReportFailure, UpsertExecutions, UpsertFails, Stamp
<1>4. SUFFICES ASSUME NEW e \in Execs, filled[e] # Never, filled[e] + late'[s] < now
               PROVE  /\ pc'[s] = "upsert" => Known(e)' \/ e \in answer'[s]
                      /\ pc'[s] = "stamp" => Known(e)'
  BY <1>1, <1>2, <1>3 DEF IInv, Owed
<1>5. CASE Fetch(s)
  <2>1. pc'[s] = "upsert" /\ late' = late
    BY <1>5 DEF Fetch, Goto, IInv, TypeOK
  <2>2. CASE Remembered(e)
    BY <1>5, <2>1, <2>2 DEF Fetch, Known, IInv, TypeOK
  <2>3. CASE ~Remembered(e)
    BY <1>2, <1>4, <2>1, <2>3 DEF IInv, NoSilentLoss, Known
  <2> QED
    BY <2>1, <2>2, <2>3
<1>6. CASE UpsertExecutions(s)
  <2>1. pc[s] = "upsert" /\ pc'[s] = "stamp" /\ late' = late
    BY <1>6 DEF UpsertExecutions, Goto, IInv, TypeOK
  <2>2. Known(e) \/ e \in answer[s]
    BY <1>4, <2>1 DEF IInv, Owed
  <2>3. e \in answer[s] => Known(e)'
    BY <1>6 DEF UpsertExecutions, Known
  <2> QED
    BY <1>2, <2>1, <2>2, <2>3
<1>7. CASE CtxDone(s)
  BY <1>2, <1>4, <1>7 DEF CtxDone, IInv, Owed
<1>8. CASE ~Fetch(s) /\ ~UpsertExecutions(s) /\ ~CtxDone(s)
  <2>1. pc'[s] \in {"idle", "connect", "fetch", "failed", "report"}
    BY <1>8 DEF IInv, TypeOK, Return, Goto, Sync, Start, Connect, NoGateway, NoBroker,
                FetchFails, ReadRow, ReportFailure, UpsertFails, Stamp
  <2> QED
    BY <2>1
<1> QED
  BY <1>5, <1>6, <1>7, <1>8

(* A sync makes nobody forget: only time does.                              *)
LEMMA SyncSafe ==
    ASSUME IInv, Next, NEW s \in Syncers, Sync(s), now' = now
    PROVE  NoSilentLoss'
<1>1. filled' = filled
  BY DEF Sync, Start, CtxDone, Connect, NoGateway, NoBroker, Fetch, FetchFails,
         ReadRow, ReportFailure, UpsertExecutions, UpsertFails, Stamp
<1> QED
  BY <1>1, KnownStays DEF IInv, NoSilentLoss, Remembered, Known

(* A fill is of this instant: nobody claimed it, and IB remembers it.       *)
LEMMA FillIInv ==
    ASSUME IInv, Next, NEW x \in Execs, Fill(x), now' = now, TypeOK'
    PROVE  Earned' /\ Owed' /\ NoSilentLoss'
<1>1. \A e \in Execs : Known(e) => Known(e)'
  BY KnownStays DEF IInv
<1>2. filled'[x] = now /\ \A e \in Execs \ {x} : filled'[e] = filled[e]
  BY DEF Fill, IInv, TypeOK
<1>3. /\ now \in Nat /\ row.at \in 0 .. now /\ \A s \in Syncers : read[s] \in 0 .. now
      /\ \A s \in Syncers : late[s] \in 0 .. 1
  BY DEF IInv, TypeOK
<1>4. row' = row /\ read' = read /\ pc' = pc /\ answer' = answer /\ late' = late
  BY DEF Fill, syncVars
<1>5. Earned'
  BY <1>1, <1>2, <1>3, <1>4 DEF IInv, Earned, Claims
<1>6. Owed'
  BY <1>1, <1>2, <1>3, <1>4 DEF IInv, Owed
<1>7. NoSilentLoss'
  BY <1>1, <1>2, <1>3, TimesAssumption DEF IInv, NoSilentLoss, Remembered, Known
<1> QED
  BY <1>5, <1>6, <1>7

(* What is forgotten as half a day passes was warned of, or the state row   *)
(* claims it: the window is two half days longer than the gap.              *)
LEMMA TickIInv ==
    ASSUME IInv, Next, Tick
    PROVE  Earned' /\ Owed' /\ NoSilentLoss'
<1>1. \A e \in Execs : Known(e) => Known(e)'
  BY KnownStays DEF IInv
<1>2. now' = now + 1 /\ UNCHANGED <<filled, row, read, pc, answer>>
  BY DEF Tick
<1>3. \A s \in Syncers : pc[s] # "idle" => late[s] = 0 /\ late'[s] = 1
  BY DEF Tick, Busy, IInv, TypeOK
<1>4. now \in Nat /\ filled \in [Execs -> Nat] /\ row.at \in Nat
  BY DEF IInv, TypeOK
<1>5. Earned'
  BY <1>1, <1>2 DEF IInv, Earned, Claims
<1>6. Owed'
  <2>1. SUFFICES ASSUME NEW s \in Syncers, NEW e \in Execs, pc[s] \in {"upsert", "stamp"},
                        filled[e] # Never, filled[e] + 1 < now + 1
                 PROVE  /\ pc[s] = "upsert" => Known(e) \/ e \in answer[s]
                        /\ pc[s] = "stamp" => Known(e)
    BY <1>1, <1>2, <1>3 DEF Owed
  <2>2. filled[e] + late[s] < now
    BY <1>3, <1>4, <2>1
  <2> QED
    BY <2>1, <2>2 DEF IInv, Owed
<1>7. NoSilentLoss'
  <2>1. SUFFICES ASSUME NEW e \in Execs, filled[e] # Never, now + 1 - filled[e] > Window
                 PROVE  Known(e)
    BY <1>1, <1>2, <1>4, TimesAssumption DEF NoSilentLoss, Remembered, Known
  <2>2. CASE ~Remembered(e)
    BY <2>1, <2>2 DEF IInv, NoSilentLoss, Known
  <2>3. CASE Remembered(e) /\ GapWarning
    BY <2>3 DEF IInv, WarnedInTime, Known
  <2>4. CASE Remembered(e) /\ ~GapWarning
    <3>1. filled[e] + 1 < row.at
      BY <1>4, <2>1, <2>4, TimesAssumption DEF Remembered, GapWarning
    <3> QED
      BY <2>1, <3>1 DEF IInv, Earned, Claims
  <2> QED
    BY <2>2, <2>3, <2>4
<1> QED
  BY <1>5, <1>6, <1>7

(* The invariant is inductive.                                              *)
LEMMA StepIInv == IInv /\ [Next]_vars => IInv'
<1> SUFFICES ASSUME IInv, [Next]_vars
             PROVE  IInv'
  OBVIOUS
<1>1. TypeOK'
  BY StepType DEF IInv
<1>2. CASE UNCHANGED vars
  BY <1>1, <1>2 DEF IInv, Earned, Claims, Owed, WarnedInTime, NoSilentLoss, Known,
                    Remembered, GapWarning, vars, syncVars
<1>3. CASE Next
  <2>1. WarnedInTime'
    BY <1>3, WarnWarns DEF Next
  <2>2. Earned' /\ Owed' /\ NoSilentLoss'
    <3>1. ASSUME NEW s \in Syncers, Sync(s), UNCHANGED now
          PROVE  Earned' /\ Owed' /\ NoSilentLoss'
      BY <1>3, <3>1, SyncEarned, SyncOwed, SyncSafe
    <3>2. ASSUME NEW x \in Execs, Fill(x), UNCHANGED now
          PROVE  Earned' /\ Owed' /\ NoSilentLoss'
      BY <1>1, <1>3, <3>2, FillIInv
    <3>3. CASE Tick
      BY <1>3, <3>3, TickIInv
    <3> QED
      BY <1>3, <3>1, <3>2, <3>3 DEF Next, Step
  <2> QED
    BY <1>1, <2>1, <2>2 DEF IInv
<1> QED
  BY <1>2, <1>3

(* However syncs overlap, fail or are cut off, an execution that IB forgot  *)
(* before it reached the journal was warned of in time, or left out by an   *)
(* answer that an IB error had cut short.                                   *)
THEOREM NothingIsLostInSilence == Spec => []NoSilentLoss
<1>1. IInv => NoSilentLoss
  BY DEF IInv
<1> QED
  BY <1>1, InitIInv, StepIInv, PTL DEF Spec
=============================================================================
