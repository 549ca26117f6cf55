------------------------- MODULE BrokerPoolProofs --------------------------
(***************************************************************************)
(* The broker pool, for any number of slots, requests and broker objects:  *)
(* who owns a slot (Owned) and, from that, that the pool implements        *)
(* SlotLease; who disconnects the brokers (Disposal); how long a           *)
(* connection must hold and failures must wait (Dwelt, Waited).            *)
(***************************************************************************)
EXTENDS BrokerPoolLease, BrokerPoolHistory, FiniteSetTheorems, SequenceTheorems, TLAPS

-----------------------------------------------------------------------------
(* Queues of distinct slots: what a receive and a send do to them.          *)

LEMMA EmptyQueue == Range(<<>>) = {} /\ IsInjective(<<>>)
BY DEF Range, IsInjective

LEMMA Receive ==
    ASSUME NEW S, NEW q \in Seq(S), q # <<>>
    PROVE  /\ Head(q) \in S /\ Tail(q) \in Seq(S) /\ Head(q) \in Range(q)
           /\ Range(q) = {Head(q)} \cup Range(Tail(q))
           /\ IsInjective(q) => /\ IsInjective(Tail(q))
                                /\ Head(q) \notin Range(Tail(q))
<1>1. /\ Head(q) = q[1] /\ Head(q) \in S /\ Tail(q) \in Seq(S)
      /\ Len(q) \in Nat /\ Len(q) >= 1
      /\ DOMAIN q = 1 .. Len(q) /\ DOMAIN Tail(q) = 1 .. (Len(q) - 1)
      /\ \A i \in 1 .. (Len(q) - 1) : Tail(q)[i] = q[i + 1]
  BY SMT
<1>2. Range(q) = {Head(q)} \cup Range(Tail(q))
  <2>1. ASSUME NEW x \in Range(q) PROVE x \in {Head(q)} \cup Range(Tail(q))
    <3>1. PICK i \in 1 .. Len(q) : x = q[i]
      BY <1>1, <2>1 DEF Range
    <3>2. CASE i = 1
      BY <3>1, <3>2, <1>1
    <3>3. CASE i # 1
      <4>1. i - 1 \in 1 .. (Len(q) - 1) /\ Tail(q)[i - 1] = x
        BY <3>1, <3>3, <1>1
      <4>2. QED BY <4>1, <1>1 DEF Range
    <3>4. QED BY <3>2, <3>3
  <2>2. Head(q) \in Range(q)
    BY <1>1 DEF Range
  <2>3. ASSUME NEW x \in Range(Tail(q)) PROVE x \in Range(q)
    <3>1. PICK i \in 1 .. (Len(q) - 1) : x = Tail(q)[i]
      BY <1>1, <2>3 DEF Range
    <3>2. i + 1 \in 1 .. Len(q) /\ q[i + 1] = x
      BY <3>1, <1>1
    <3>3. QED BY <3>2, <1>1 DEF Range
  <2>4. QED BY <2>1, <2>2, <2>3
<1>3. ASSUME IsInjective(q)
      PROVE  IsInjective(Tail(q)) /\ Head(q) \notin Range(Tail(q))
  <2>1. IsInjective(Tail(q))
    BY <1>1, <1>3 DEF IsInjective
  <2>2. Head(q) \notin Range(Tail(q))
    <3>1. SUFFICES ASSUME NEW i \in 1 .. (Len(q) - 1), Tail(q)[i] = Head(q)
                   PROVE  FALSE
      BY <1>1 DEF Range
    <3>2. q[i + 1] = q[1] /\ i + 1 \in DOMAIN q /\ 1 \in DOMAIN q
      BY <3>1, <1>1
    <3>3. QED BY <3>2, <1>3 DEF IsInjective
  <2>3. QED BY <2>1, <2>2
<1>4. QED BY <1>1, <1>2, <1>3

LEMMA Send ==
    ASSUME NEW S, NEW q \in Seq(S), NEW x \in S
    PROVE  /\ Append(q, x) \in Seq(S) /\ Append(q, x) # <<>>
           /\ Range(Append(q, x)) = Range(q) \cup {x}
           /\ IsInjective(q) /\ x \notin Range(q) => IsInjective(Append(q, x))
<1>1. /\ Append(q, x) \in Seq(S) /\ Append(q, x) # <<>>
      /\ Len(q) \in Nat /\ DOMAIN q = 1 .. Len(q)
      /\ DOMAIN Append(q, x) = 1 .. (Len(q) + 1)
      /\ \A i \in 1 .. Len(q) : Append(q, x)[i] = q[i]
      /\ Append(q, x)[Len(q) + 1] = x
  BY SMT
<1>2. Range(Append(q, x)) = Range(q) \cup {x}
  <2>1. ASSUME NEW y \in Range(Append(q, x)) PROVE y \in Range(q) \cup {x}
    BY <1>1, <2>1 DEF Range
  <2>2. x \in Range(Append(q, x))
    BY <1>1 DEF Range
  <2>3. ASSUME NEW y \in Range(q) PROVE y \in Range(Append(q, x))
    <3>1. PICK i \in 1 .. Len(q) : y = q[i]
      BY <1>1, <2>3 DEF Range
    <3>2. i \in 1 .. (Len(q) + 1) /\ Append(q, x)[i] = y
      BY <3>1, <1>1
    <3>3. QED BY <3>2, <1>1 DEF Range
  <2>4. QED BY <2>1, <2>2, <2>3
<1>3. ASSUME IsInjective(q), x \notin Range(q)
      PROVE  IsInjective(Append(q, x))
  <2>1. SUFFICES ASSUME NEW i \in 1 .. (Len(q) + 1), NEW j \in 1 .. (Len(q) + 1),
                        Append(q, x)[i] = Append(q, x)[j], i < j
                 PROVE  FALSE
    BY <1>1 DEF IsInjective
  <2>2. i \in 1 .. Len(q) /\ Append(q, x)[i] = q[i]
    BY <2>1, <1>1
  <2>3. CASE j = Len(q) + 1
    <3>1. q[i] = x BY <2>1, <2>2, <2>3, <1>1
    <3>2. QED BY <3>1, <2>2, <1>1, <1>3 DEF Range
  <2>4. CASE j # Len(q) + 1
    <3>1. j \in 1 .. Len(q) BY <2>1, <2>4, <1>1
    <3>2. Append(q, x)[j] = q[j] BY <3>1, <1>1
    <3>3. q[i] = q[j] BY <3>2, <2>1, <2>2
    <3>4. QED BY <3>1, <3>3, <2>1, <2>2, <1>1, <1>3 DEF IsInjective
  <2>5. QED BY <2>3, <2>4
<1>4. QED BY <1>1, <1>2, <1>3

-----------------------------------------------------------------------------
(* Types.  A request's program counter says whether it holds a slot, and    *)
(* the health checker's whether it holds any; without these, Append and     *)
(* Head would be applied to what is not a slot.                             *)

PcAgrees == \A r \in Requests : slotOf[r] = NoSlot <=> pc[r] \in {"idle", "select"}

CkAgrees ==
    /\ ckPc \in {"probe", "disc", "dial", "requeue"} => checked # <<>>
    /\ ckPc \in {"wait", "stopped"} => checked = <<>>
    /\ ckPc = "drain" => ckLeft # 0

Typing == TypeOK /\ PcAgrees /\ CkAgrees

LEMMA BackoffType == \A f \in Nat : BackoffFor(f) \in Nat
BY BackoffAssumption DEF BackoffFor, Doubled

LEMMA OutcomeTypes ==
    ASSUME TypeOK, NEW s \in Slots, NEW live \in BOOLEAN, TrackReconnectOutcome(s, live)
    PROVE  /\ connectedSince' \in [Slots -> Nat] /\ failCount' \in [Slots -> Nat]
           /\ nextRetry' \in [Slots -> Nat]
<1>1. now \in Nat /\ failCount[s] + 1 \in Nat
  BY NowAssumption DEF TypeOK
<1>2. now + BackoffFor(failCount[s] + 1) \in Nat
  BY <1>1, BackoffType
<1>3. CASE live
  BY <1>1, <1>3 DEF TypeOK, TrackReconnectOutcome, Succeed, Fail
<1>4. CASE ~live
  <2>1. /\ connectedSince' = [connectedSince EXCEPT ![s] = 0]
        /\ failCount' = [failCount EXCEPT ![s] = failCount[s] + 1]
        /\ nextRetry' = [nextRetry EXCEPT ![s] = now + BackoffFor(failCount[s] + 1)]
    BY <1>4 DEF TypeOK, TrackReconnectOutcome, Succeed, Fail
  <2>2. QED BY <1>1, <1>2, <2>1 DEF TypeOK
<1>5. QED BY <1>3, <1>4

LEMMA InitTyping == Init => Typing
<1> SUFFICES ASSUME Init PROVE Typing
  OBVIOUS
<1>1. avail \in Seq(Slots)
  <2>1. Cardinality(Slots) \in Nat
    BY SlotsAssumption, FS_CardinalityType
  <2>2. avail \in [1 .. Cardinality(Slots) -> Slots]
    BY DEF Init, Bijection, Injection
  <2>3. QED BY <2>1, <2>2, SeqDef
<1>2. PcAgrees /\ CkAgrees
  BY DEF Init, PcAgrees, CkAgrees
<1>3. link \in [Slots -> [Conns -> LinkStates]]
  BY DEF Init, LinkStates
<1>4. now \in 1 .. MaxNow
  BY NowAssumption DEF Init
<1>5. /\ failCount \in [Slots -> Nat] /\ nextRetry \in [Slots -> Nat]
      /\ connectedSince \in [Slots -> Nat] /\ ckLeft \in Nat
  BY DEF Init
<1>7. tick \in BOOLEAN
  BY DEF Init
<1>8. checked \in Seq(Slots)
  BY EmptySeq DEF Init
<1>6. /\ pc \in [Requests -> {"idle", "select", "disc", "dial", "using"}]
      /\ slotOf \in [Requests -> Slots \cup {NoSlot}]
      /\ ctxDone \in [Requests -> BOOLEAN]
      /\ repairPc \in [Slots -> {"none", "disc", "dial", "requeue"}]
      /\ closer \in [Slots -> {"none", "lock", "disc", "abandoned", "done"}]
      /\ b \in [Slots -> Conns \cup {NoConn}] /\ snap \in [Slots -> Conns \cup {NoConn}]
  BY DEF Init
<1>9. TypeOK
  BY <1>1, <1>3, <1>4, <1>5, <1>6, <1>7, <1>8 DEF Init, TypeOK
<1>10. QED BY <1>2, <1>9 DEF Typing

LEMMA NextTyping == Typing /\ [Next]_vars => Typing'
<1> SUFFICES ASSUME Typing, [Next]_vars PROVE Typing'
  OBVIOUS
<1> USE DEF Typing, TypeOK
<1>1. ASSUME NEW r \in Requests, RequestStep(r) PROVE Typing'
  <2>1. CASE Arrive(r)
    BY <2>1 DEF Arrive, PcAgrees, CkAgrees, reqVars, ckVars, brokVars, timeVars,
         dwellVars, closeVars
  <2>2. CASE CtxDone(r)
    BY <2>2 DEF CtxDone, PcAgrees, CkAgrees, reqVars, ckVars, brokVars, timeVars,
         dwellVars, closeVars
  <2>3. CASE AcquireTake(r)
    <3>1. Head(avail) \in Slots /\ Tail(avail) \in Seq(Slots)
      BY <2>3, Receive DEF AcquireTake, Dequeue
    <3>2. Head(avail) # NoSlot
      BY <3>1, SlotsAssumption
    <3>3. QED
      BY <2>3, <3>1, <3>2 DEF AcquireTake, Dequeue, PcAgrees, CkAgrees, ckVars,
         brokVars, timeVars, dwellVars, closeVars
  <2>4. CASE AcquireGiveUp(r)
    BY <2>4 DEF AcquireGiveUp, PcAgrees, CkAgrees, ckVars, brokVars, timeVars,
         dwellVars, closeVars
  <2>5. CASE AcquireTeardown(r)
    BY <2>5 DEF AcquireTeardown, Teardown, TakeOut, LinkStates, PcAgrees, CkAgrees,
         reqVars, ckVars, brokVars, timeVars, dwellVars, closeVars
  <2>6. CASE AcquireDialed(r)
    <3>1. PICK source \in Sources, c \in Conns :
              /\ link' = [link EXCEPT ![slotOf[r]][c] = source]
              /\ b' = [b EXCEPT ![slotOf[r]] = c]
      BY <2>6 DEF AcquireDialed, Install
    <3>2. link' \in [Slots -> [Conns -> LinkStates]] /\ b' \in [Slots -> Conns \cup {NoConn}]
      BY <3>1 DEF Sources, LinkStates
    <3>3. QED
      BY <2>6, <3>2 DEF AcquireDialed, PcAgrees, CkAgrees, reqVars, ckVars,
         brokVars, timeVars, dwellVars, closeVars
  <2>7. CASE AcquireDialFailed(r)
    <3>1. slotOf[r] \in Slots
      BY <2>7 DEF AcquireDialFailed, Enqueue, PcAgrees
    <3>2. Append(avail, slotOf[r]) \in Seq(Slots)
      BY <3>1
    <3>3. QED
      BY <2>7, <3>1, <3>2, SlotsAssumption DEF AcquireDialFailed, Enqueue,
         PcAgrees, CkAgrees, reqVars, ckVars, brokVars, timeVars, dwellVars,
         closeVars
  <2>8. CASE ReleaseHealthy(r)
    <3>1. slotOf[r] \in Slots
      BY <2>8 DEF ReleaseHealthy, Enqueue, PcAgrees
    <3>2. Append(avail, slotOf[r]) \in Seq(Slots)
      BY <3>1
    <3>3. QED
      BY <2>8, <3>1, <3>2, SlotsAssumption DEF ReleaseHealthy, Enqueue, PcAgrees,
         CkAgrees, reqVars, ckVars, brokVars, timeVars, dwellVars, closeVars
  <2>9. CASE ReleaseUnhealthy(r)
    BY <2>9 DEF ReleaseUnhealthy, PcAgrees, CkAgrees, reqVars, ckVars, brokVars,
         timeVars, dwellVars, closeVars
  <2>10. QED
    BY <1>1, <2>1, <2>2, <2>3, <2>4, <2>5, <2>6, <2>7, <2>8, <2>9 DEF RequestStep
<1>2. ASSUME NEW s \in Slots, RepairStep(s) PROVE Typing'
  <2>1. CASE RepairTeardown(s)
    BY <2>1 DEF RepairTeardown, Teardown, TakeOut, LinkStates, PcAgrees, CkAgrees,
         reqVars, ckVars, brokVars, timeVars, dwellVars, closeVars
  <2>2. CASE RepairDialed(s)
    <3>1. PICK source \in Sources, c \in Conns :
              /\ link' = [link EXCEPT ![s][c] = source]
              /\ b' = [b EXCEPT ![s] = c]
      BY <2>2 DEF RepairDialed, PoolDial, Install
    <3>2. link' \in [Slots -> [Conns -> LinkStates]]
      BY <3>1 DEF Sources, LinkStates
    <3>3. b' \in [Slots -> Conns \cup {NoConn}]
      BY <3>1
    <3>4. repairPc' \in [Slots -> {"none", "disc", "dial", "requeue"}]
      BY <2>2 DEF RepairDialed
    <3>5. UNCHANGED <<avail, reqVars, ckVars, timeVars, dwellVars, closeVars>>
      BY <2>2 DEF RepairDialed
    <3>6. UNCHANGED <<pc, slotOf, ctxDone, ckPc, checked, ckLeft>>
      BY <3>5 DEF reqVars, ckVars
    <3>7. PcAgrees' /\ CkAgrees'
      BY <3>6 DEF PcAgrees, CkAgrees
    <3>8. TypeOK'
      BY <3>2, <3>3, <3>4, <3>5, <2>2 DEF reqVars, ckVars, timeVars, dwellVars,
         closeVars, RepairDialed, PoolDial, Install
    <3>9. QED
      BY <3>7, <3>8
  <2>3. CASE RepairDialFailed(s)
    BY <2>3 DEF RepairDialFailed, PcAgrees, CkAgrees, reqVars, ckVars, brokVars,
         timeVars, dwellVars, closeVars
  <2>4. CASE RepairRequeue(s)
    BY <2>4, Send DEF RepairRequeue, Enqueue, PcAgrees, CkAgrees, reqVars, ckVars,
         brokVars, timeVars, dwellVars, closeVars
  <2>5. CASE RepairDrop(s)
    BY <2>5 DEF RepairDrop, MayDrop, PcAgrees, CkAgrees, reqVars, ckVars, brokVars,
         timeVars, dwellVars, closeVars
  <2>6. QED BY <1>2, <2>1, <2>2, <2>3, <2>4, <2>5 DEF RepairStep
<1>3. ASSUME NEW s \in Slots, CloserStep(s) PROVE Typing'
  <2>1. CASE CloserLock(s)
    BY <2>1 DEF CloserLock, TakeOut, PcAgrees, CkAgrees, reqVars, ckVars, brokVars,
         timeVars, dwellVars, closeVars
  <2>2. CASE CloserAbandon(s)
    BY <2>2 DEF CloserAbandon, PcAgrees, CkAgrees, reqVars, ckVars, brokVars,
         timeVars, dwellVars, closeVars
  <2>3. CASE CloserDisconnected(s)
    BY <2>3 DEF CloserDisconnected, LinkStates, PcAgrees, CkAgrees, reqVars,
         ckVars, brokVars, timeVars, dwellVars, closeVars
  <2>4. QED BY <1>3, <2>1, <2>2, <2>3 DEF CloserStep
<1>4. ASSUME NEW s \in Slots, Environment(s) PROVE Typing'
  <2>1. PICK from \in LinkStates, to \in LinkStates : LinkChanges(s, from, to)
    BY <1>4 DEF Environment, LinkDrops, LinkStalls, LinkRecovers, LinkStates
  <2>2. QED
    BY <2>1 DEF LinkChanges, PcAgrees, CkAgrees, reqVars, ckVars, brokVars,
         timeVars, dwellVars, closeVars
<1>5. ASSUME CheckerStep PROVE Typing'
  <2>1. CASE CkStart
    <3>1. Len(avail) \in Nat /\ (avail # <<>> => Len(avail) # 0)
      OBVIOUS
    <3>2. QED BY <2>1, <3>1 DEF CkStart, PcAgrees, CkAgrees, reqVars, ckVars,
         brokVars, timeVars, dwellVars, closeVars
  <2>2. CASE CkDrain
    <3>1. CASE avail = <<>>
      BY <2>2, <3>1 DEF CkDrain, Dequeue, PcAgrees, CkAgrees, reqVars, ckVars,
         brokVars, timeVars, dwellVars, closeVars
    <3>2. CASE avail # <<>>
      <4>1. Head(avail) \in Slots /\ Tail(avail) \in Seq(Slots)
        BY <3>2, Receive
      <4>2. Append(checked, Head(avail)) \in Seq(Slots) /\ Append(checked, Head(avail)) # <<>>
        BY <4>1, Send
      <4>3. QED
        <5>1. ckLeft' \in Nat /\ (ckLeft > 1 => ckLeft' # 0)
          BY <2>2 DEF CkDrain, Dequeue, CkAgrees
        <5>2. QED
          BY <2>2, <3>2, <4>1, <4>2, <5>1 DEF CkDrain, Dequeue, PcAgrees, CkAgrees,
         reqVars, ckVars, brokVars, timeVars, dwellVars, closeVars
    <3>3. QED BY <3>1, <3>2
  <2>3. CASE CkProbeUnhealthy
    BY <2>3 DEF CkProbeUnhealthy, PcAgrees, CkAgrees, reqVars, ckVars, brokVars,
         timeVars, dwellVars, closeVars
  <2>4. CASE CkProbeHealthy
    <3>1. /\ connectedSince' \in [Slots -> Nat] /\ failCount' \in [Slots -> Nat]
          /\ nextRetry' \in [Slots -> Nat]
      <4>1. Head(checked) \in Slots /\ now \in Nat
        BY <2>4, NowAssumption, Receive DEF CkProbeHealthy, CkAgrees
      <4>2. QED BY <2>4, <4>1 DEF CkProbeHealthy, ClearBackoffIfStable
    <3>2. QED
      BY <2>4, <3>1 DEF CkProbeHealthy, PcAgrees, CkAgrees, reqVars, ckVars,
         brokVars, timeVars, dwellVars, closeVars
  <2>5. CASE CkTeardown
    BY <2>5 DEF CkTeardown, Teardown, TakeOut, LinkStates, PcAgrees, CkAgrees,
         reqVars, ckVars, brokVars, timeVars, dwellVars, closeVars
  <2>6. CASE CkDialed
    <3>1. Head(checked) \in Slots
      BY <2>6, Receive DEF CkDialed, PoolDial, CkAgrees
    <3>2. PICK source \in Sources \cup {"dropped"}, c \in Conns :
              /\ link' = [link EXCEPT ![Head(checked)][c] = source]
              /\ b' = [b EXCEPT ![Head(checked)] = c]
              /\ TrackReconnectOutcome(Head(checked), source = "ibkr")
      BY <2>6 DEF CkDialed, PoolDial, Install
    <3>3. link' \in [Slots -> [Conns -> LinkStates]] /\ b' \in [Slots -> Conns \cup {NoConn}]
      BY <3>2 DEF Sources, LinkStates
    <3>4. /\ connectedSince' \in [Slots -> Nat] /\ failCount' \in [Slots -> Nat]
          /\ nextRetry' \in [Slots -> Nat]
      BY <3>1, <3>2, OutcomeTypes
    <3>5. QED
      BY <2>6, <3>3, <3>4 DEF CkDialed, PoolDial, PcAgrees, CkAgrees, reqVars,
         ckVars, brokVars, timeVars, dwellVars, closeVars
  <2>7. CASE CkDialFailed
    <3>1. Head(checked) \in Slots
      BY <2>7, Receive DEF CkDialFailed, CkAgrees
    <3>2. /\ connectedSince' \in [Slots -> Nat] /\ failCount' \in [Slots -> Nat]
          /\ nextRetry' \in [Slots -> Nat]
      BY <2>7, <3>1, OutcomeTypes DEF CkDialFailed
    <3>3. QED
      BY <2>7, <3>2 DEF CkDialFailed, PcAgrees, CkAgrees, reqVars, ckVars,
         brokVars, timeVars, dwellVars, closeVars
  <2>8. CASE CkRequeue
    <3>1. Head(checked) \in Slots /\ Tail(checked) \in Seq(Slots)
      BY <2>8, Receive DEF CkRequeue, Enqueue, CkAgrees
    <3>2. Append(avail, Head(checked)) \in Seq(Slots)
      BY <3>1, Send
    <3>3. QED BY <2>8, <3>1, <3>2 DEF CkRequeue, Enqueue, PcAgrees, CkAgrees,
         reqVars, ckVars, brokVars, timeVars, dwellVars, closeVars
  <2>9. CASE CkDrop
    BY <2>9 DEF CkDrop, MayDrop, PcAgrees, CkAgrees, reqVars, ckVars, brokVars,
         timeVars, dwellVars, closeVars
  <2>10. CASE CkStop
    BY <2>10 DEF CkStop, PcAgrees, CkAgrees, reqVars, ckVars, brokVars, timeVars,
         dwellVars, closeVars
  <2>11. QED
    BY <1>5, <2>1, <2>2, <2>3, <2>4, <2>5, <2>6, <2>7, <2>8, <2>9, <2>10 DEF CheckerStep
<1>6. CASE CloseStep
  <2>1. CASE Close
    <3>1. closer' \in [Slots -> {"none", "lock", "disc", "abandoned", "done"}]
      BY <2>1 DEF Close
    <3> QED
      BY <2>1, <3>1 DEF Close, PcAgrees, CkAgrees, reqVars, ckVars, brokVars,
         timeVars, dwellVars
  <2>2. CASE CloseReturn
    BY <2>2 DEF CloseReturn, PcAgrees, CkAgrees, reqVars, ckVars, brokVars,
         timeVars, dwellVars
  <2>3. CASE CloseTimeout
    BY <2>3 DEF CloseTimeout, PcAgrees, CkAgrees, reqVars, ckVars, brokVars,
         timeVars, dwellVars
  <2> QED BY <1>6, <2>1, <2>2, <2>3 DEF CloseStep
<1>7. CASE Tick
  BY <1>7, NowAssumption DEF Tick, PcAgrees, CkAgrees, reqVars, ckVars, brokVars,
         timeVars, dwellVars, closeVars
<1>8. CASE UNCHANGED vars
  BY <1>8 DEF vars, PcAgrees, CkAgrees, reqVars, ckVars, brokVars, timeVars,
         dwellVars, closeVars
<1>9. QED
  BY <1>1, <1>2, <1>3, <1>4, <1>5, <1>6, <1>7, <1>8 DEF Next

(* Every variable of the pool keeps its type: in particular only slots are  *)
(* ever sent on avail, and the health checker never looks at an empty slice.*)
THEOREM TypeCorrect == Spec => []TypeOK
<1>1. Typing => TypeOK
  BY DEF Typing
<1>2. QED BY InitTyping, NextTyping, <1>1, PTL DEF Spec

-----------------------------------------------------------------------------
(* Where slots move.  Of the pool's many actions only nine move a slot, and *)
(* what they do to it fits in a line each; the rest of the proofs look at   *)
(* these moves instead of the actions.                                      *)

Repaired == {s \in Slots : UnderRepair(s)}

Still == UNCHANGED <<avail, slotOf, checked, Repaired>>

Quiet == Still /\ Open' = Open

Shut == Still /\ Open /\ ~Open'

Take(r) ==
    /\ avail # <<>> /\ slotOf[r] = NoSlot
    /\ avail' = Tail(avail) /\ slotOf' = [slotOf EXCEPT ![r] = Head(avail)]
    /\ UNCHANGED <<checked, Repaired, Open>>

GiveBack(r) ==
    /\ slotOf[r] \in Slots
    /\ avail' = Append(avail, slotOf[r]) /\ slotOf' = [slotOf EXCEPT ![r] = NoSlot]
    /\ UNCHANGED <<checked, Repaired, Open>>

SendToRepair(r) ==
    /\ slotOf[r] \in Slots
    /\ Repaired' = Repaired \cup {slotOf[r]} /\ slotOf' = [slotOf EXCEPT ![r] = NoSlot]
    /\ UNCHANGED <<avail, checked, Open>>

ReturnRepaired(s) ==
    /\ s \in Repaired
    /\ avail' = Append(avail, s) /\ Repaired' = Repaired \ {s}
    /\ UNCHANGED <<slotOf, checked, Open>>

LoseRepaired(s) ==
    /\ s \in Repaired /\ ~Open
    /\ Repaired' = Repaired \ {s}
    /\ UNCHANGED <<avail, slotOf, checked, Open>>

Drain ==
    /\ avail # <<>>
    /\ avail' = Tail(avail) /\ checked' = Append(checked, Head(avail))
    /\ UNCHANGED <<slotOf, Repaired, Open>>

ReturnChecked ==
    /\ checked # <<>>
    /\ avail' = Append(avail, Head(checked)) /\ checked' = Tail(checked)
    /\ UNCHANGED <<slotOf, Repaired, Open>>

LoseChecked ==
    /\ ~Open /\ checked' = <<>>
    /\ UNCHANGED <<avail, slotOf, Repaired, Open>>

Move ==
    \/ Quiet \/ Shut \/ Drain \/ ReturnChecked \/ LoseChecked
    \/ \E r \in Requests : Take(r) \/ GiveBack(r) \/ SendToRepair(r)
    \/ \E s \in Slots : ReturnRepaired(s) \/ LoseRepaired(s)

LEMMA StepsMove == Typing /\ [Next]_vars => Move
<1> SUFFICES ASSUME Typing, [Next]_vars PROVE Move
  OBVIOUS
<1> USE DEF Typing, TypeOK
<1>1. ASSUME NEW r \in Requests, RequestStep(r) PROVE Move
  <2>1. ASSUME Arrive(r) \/ CtxDone(r) \/ AcquireGiveUp(r) \/ AcquireTeardown(r)
               \/ AcquireDialed(r)
        PROVE  Quiet
    BY <2>1 DEF Arrive, CtxDone, AcquireGiveUp, AcquireTeardown, AcquireDialed,
         Quiet, Still, Open, Repaired, UnderRepair, closeVars, timeVars, ckVars
  <2>2. CASE AcquireTake(r)
    <3>1. Take(r)
      BY <2>2 DEF AcquireTake, Dequeue, Take, PcAgrees, Open, Repaired,
         UnderRepair, closeVars, timeVars, ckVars
    <3>2. QED BY <3>1 DEF Move
  <2>3. CASE AcquireDialFailed(r) \/ ReleaseHealthy(r)
    <3>1. slotOf[r] \in Slots
      BY <2>3 DEF AcquireDialFailed, Enqueue, ReleaseHealthy, PcAgrees
    <3>2. GiveBack(r)
      BY <2>3, <3>1 DEF AcquireDialFailed, Enqueue, ReleaseHealthy, GiveBack, Open,
         Repaired, UnderRepair, closeVars, timeVars, ckVars
    <3>3. QED BY <3>2 DEF Move
  <2>4. CASE ReleaseUnhealthy(r)
    <3>1. slotOf[r] \in Slots
      BY <2>4 DEF ReleaseUnhealthy, PcAgrees
    <3>2. SendToRepair(r)
      BY <2>4, <3>1 DEF ReleaseUnhealthy, SendToRepair, Open, Repaired,
         UnderRepair, closeVars, timeVars, ckVars
    <3>3. QED BY <3>2 DEF Move
  <2>5. QED BY <1>1, <2>1, <2>2, <2>3, <2>4 DEF RequestStep, Move
<1>2. ASSUME NEW s \in Slots, RepairStep(s) PROVE Move
  <2>1. ASSUME RepairTeardown(s) \/ RepairDialed(s) \/ RepairDialFailed(s)
        PROVE  Quiet
    BY <2>1 DEF RepairTeardown, RepairDialed, PoolDial, RepairDialFailed, Quiet,
         Still, Open, Repaired, UnderRepair, reqVars, closeVars, timeVars, ckVars
  <2>2. CASE RepairRequeue(s)
    <3>1. ReturnRepaired(s)
      BY <2>2 DEF RepairRequeue, Enqueue, ReturnRepaired, Open, Repaired,
         UnderRepair, reqVars, closeVars, timeVars, ckVars
    <3>2. QED BY <3>1 DEF Move
  <2>3. CASE RepairDrop(s)
    <3>1. LoseRepaired(s)
      BY <2>3 DEF RepairDrop, MayDrop, LoseRepaired, Open, Repaired, UnderRepair,
         reqVars, closeVars, timeVars, ckVars
    <3>2. QED BY <3>1 DEF Move
  <2>4. QED BY <1>2, <2>1, <2>2, <2>3 DEF RepairStep, Move
<1>3. ASSUME NEW s \in Slots, CloserStep(s) \/ Environment(s) PROVE Quiet
  BY <1>3 DEF CloserStep, CloserLock, TakeOut, CloserAbandon, CloserDisconnected,
         Environment, LinkDrops, LinkStalls, LinkRecovers, LinkChanges, Quiet,
         Still, Open, Repaired, UnderRepair, reqVars, closeVars, timeVars, ckVars
<1>4. ASSUME CheckerStep PROVE Move
  <2>1. ASSUME CkStart \/ CkProbeUnhealthy \/ CkProbeHealthy \/ CkTeardown \/ CkDialed
               \/ CkDialFailed \/ CkStop
        PROVE  Quiet
    BY <2>1 DEF CkStart, CkProbeUnhealthy, CkProbeHealthy, CkTeardown, CkDialed,
         PoolDial, CkDialFailed, CkStop, Quiet, Still, Open, Repaired, UnderRepair,
         reqVars, closeVars, timeVars
  <2>2. CASE CkDrain
    <3>1. Drain \/ Quiet
      BY <2>2 DEF CkDrain, Dequeue, Drain, Quiet, Still, Open, Repaired,
         UnderRepair, reqVars, closeVars, timeVars
    <3>2. QED BY <3>1 DEF Move
  <2>3. CASE CkRequeue
    <3>1. ReturnChecked
      BY <2>3 DEF CkRequeue, Enqueue, ReturnChecked, CkAgrees, Open, Repaired,
         UnderRepair, reqVars, closeVars, timeVars
    <3>2. QED BY <3>1 DEF Move
  <2>4. CASE CkDrop
    <3>1. LoseChecked
      BY <2>4 DEF CkDrop, MayDrop, LoseChecked, Open, Repaired, UnderRepair,
         reqVars, closeVars, timeVars
    <3>2. QED BY <3>1 DEF Move
  <2>5. QED BY <1>4, <2>1, <2>2, <2>3, <2>4 DEF CheckerStep, Move
<1>5. CASE Close
  <2>1. Shut
    BY <1>5 DEF Close, Shut, Still, Open, Repaired, UnderRepair, reqVars, ckVars
  <2>2. QED BY <2>1 DEF Move
<1>6. ASSUME CloseReturn \/ CloseTimeout \/ Tick \/ UNCHANGED vars PROVE Quiet
  BY <1>6 DEF CloseReturn, CloseTimeout, Tick, vars, Quiet, Still, Open, Repaired,
         UnderRepair, reqVars, closeVars, timeVars, ckVars
<1>7. QED BY <1>1, <1>2, <1>3, <1>4, <1>5, <1>6 DEF Next, CloseStep, Move

-----------------------------------------------------------------------------
(* Ownership.  ExclusiveSlots, written over the sets that a move changes.   *)

Queued  == Range(avail)
Drained == Range(checked)

Disjoint ==
    /\ IsInjective(avail) /\ IsInjective(checked)
    /\ Queued \cap Drained = {} /\ Queued \cap Repaired = {} /\ Drained \cap Repaired = {}
    /\ \A r \in Requests : slotOf[r] \notin Queued \cup Drained \cup Repaired
    /\ \A q, r \in Requests : slotOf[q] = slotOf[r] /\ q # r => slotOf[q] = NoSlot

Covered ==
    Open => \A s \in Slots : s \in Queued \cup Drained \cup Repaired
                             \/ \E r \in Requests : slotOf[r] = s

Owned == Typing /\ Disjoint /\ Covered

LEMMA InitOwned == Init => Owned
<1> SUFFICES ASSUME Init PROVE Owned
  OBVIOUS
<1>1. Typing
  BY InitTyping
<1>2. avail \in [1 .. Cardinality(Slots) -> Slots] /\ IsInjective(avail)
  BY DEF Init, Bijection, Injection
<1>3. \A s \in Slots : \E i \in 1 .. Cardinality(Slots) : avail[i] = s
  BY DEF Init, Bijection, Surjection
<1>4. Queued = Slots
  BY <1>2, <1>3 DEF Queued, Range
<1>5. Drained = {} /\ IsInjective(checked)
  BY EmptyQueue DEF Init, Drained
<1>6. Repaired = {}
  BY DEF Init, Repaired, UnderRepair
<1>7. \A r \in Requests : slotOf[r] = NoSlot
  BY DEF Init
<1>8. Disjoint
  BY <1>2, <1>4, <1>5, <1>6, <1>7, SlotsAssumption DEF Disjoint
<1>9. QED BY <1>1, <1>4, <1>8 DEF Owned, Covered

LEMMA NextOwned == Owned /\ [Next]_vars => Owned'
<1> SUFFICES ASSUME Owned, [Next]_vars PROVE Owned'
  OBVIOUS
<1>1. Typing'
  BY NextTyping DEF Owned
<1>2. Move
  BY StepsMove DEF Owned
<1>3. /\ avail \in Seq(Slots) /\ checked \in Seq(Slots)
      /\ slotOf \in [Requests -> Slots \cup {NoSlot}]
      /\ NoSlot \notin Slots /\ Repaired \subseteq Slots
  BY SlotsAssumption DEF Owned, Typing, TypeOK, Repaired
<1>4. Queued \subseteq Slots /\ Drained \subseteq Slots
  BY <1>3 DEF Queued, Drained, Range
<1>5. Disjoint /\ Covered
  BY DEF Owned
<1>6. ASSUME Quiet \/ Shut PROVE Disjoint' /\ Covered'
  <2>1. UNCHANGED <<avail, slotOf, checked, Queued, Drained, Repaired>>
    BY <1>6 DEF Quiet, Shut, Still, Queued, Drained
  <2>2. Open' => Open
    BY <1>6 DEF Quiet, Shut
  <2>3. QED BY <1>5, <2>1, <2>2 DEF Disjoint, Covered
<1>7. ASSUME NEW r \in Requests, Take(r) PROVE Disjoint' /\ Covered'
  <2>1. /\ Queued = {Head(avail)} \cup Queued' /\ Head(avail) \notin Queued'
        /\ IsInjective(avail')
    BY <1>3, <1>5, <1>7, Receive DEF Take, Queued, Disjoint
  <2>2. UNCHANGED <<checked, Drained, Repaired, Open>>
    BY <1>7 DEF Take, Drained
  <2>3. slotOf[r] = NoSlot /\ slotOf' = [slotOf EXCEPT ![r] = Head(avail)]
    BY <1>7 DEF Take
  <2>4. Disjoint'
    BY <1>3, <1>4, <1>5, <2>1, <2>2, <2>3 DEF Disjoint
  <2>5. Covered'
    BY <1>3, <1>5, <2>1, <2>2, <2>3 DEF Covered
  <2>6. QED BY <2>4, <2>5
<1>8. ASSUME NEW r \in Requests, GiveBack(r) PROVE Disjoint' /\ Covered'
  <2>1. slotOf[r] \notin Queued
    BY <1>5 DEF Disjoint
  <2>2. Queued' = Queued \cup {slotOf[r]} /\ IsInjective(avail')
    BY <1>3, <1>5, <1>8, <2>1, Send DEF GiveBack, Queued, Disjoint
  <2>3. UNCHANGED <<checked, Drained, Repaired, Open>>
    BY <1>8 DEF GiveBack, Drained
  <2>4. slotOf[r] \in Slots /\ slotOf' = [slotOf EXCEPT ![r] = NoSlot]
    BY <1>8 DEF GiveBack
  <2>5. Disjoint'
    BY <1>3, <1>4, <1>5, <2>2, <2>3, <2>4 DEF Disjoint
  <2>6. Covered'
    BY <1>3, <1>5, <2>2, <2>3, <2>4 DEF Covered
  <2>7. QED BY <2>5, <2>6
<1>9. ASSUME NEW r \in Requests, SendToRepair(r) PROVE Disjoint' /\ Covered'
  <2>1. UNCHANGED <<avail, checked, Queued, Drained, Open>>
    BY <1>9 DEF SendToRepair, Queued, Drained
  <2>2. /\ slotOf[r] \in Slots /\ slotOf' = [slotOf EXCEPT ![r] = NoSlot]
        /\ Repaired' = Repaired \cup {slotOf[r]}
    BY <1>9 DEF SendToRepair
  <2>3. Disjoint'
    BY <1>3, <1>4, <1>5, <2>1, <2>2 DEF Disjoint
  <2>4. Covered'
    BY <1>3, <1>5, <2>1, <2>2 DEF Covered
  <2>5. QED BY <2>3, <2>4
<1>10. ASSUME NEW s \in Slots, ReturnRepaired(s) PROVE Disjoint' /\ Covered'
  <2>1. s \notin Queued
    BY <1>5, <1>10 DEF Disjoint, ReturnRepaired
  <2>2. Queued' = Queued \cup {s} /\ IsInjective(avail')
    BY <1>3, <1>5, <1>10, <2>1, Send DEF ReturnRepaired, Queued, Disjoint
  <2>3. UNCHANGED <<slotOf, checked, Drained, Open>> /\ s \in Repaired
        /\ Repaired' = Repaired \ {s}
    BY <1>10 DEF ReturnRepaired, Drained
  <2>4. QED BY <1>3, <1>4, <1>5, <2>2, <2>3 DEF Disjoint, Covered
<1>11. ASSUME NEW s \in Slots, LoseRepaired(s) PROVE Disjoint' /\ Covered'
  <2>1. UNCHANGED <<avail, slotOf, checked, Queued, Drained>> /\ ~Open'
        /\ Repaired' = Repaired \ {s}
    BY <1>11 DEF LoseRepaired, Queued, Drained
  <2>2. QED BY <1>5, <2>1 DEF Disjoint, Covered
<1>12. ASSUME Drain PROVE Disjoint' /\ Covered'
  <2>1. /\ Queued = {Head(avail)} \cup Queued' /\ Head(avail) \notin Queued'
        /\ IsInjective(avail') /\ Head(avail) \in Slots
    BY <1>3, <1>5, <1>12, Receive DEF Drain, Queued, Disjoint
  <2>2. Head(avail) \notin Drained
    BY <1>5, <2>1 DEF Disjoint
  <2>3. Drained' = Drained \cup {Head(avail)} /\ IsInjective(checked')
    BY <1>3, <1>5, <1>12, <2>1, <2>2, Send DEF Drain, Drained, Disjoint
  <2>4. UNCHANGED <<slotOf, Repaired, Open>>
    BY <1>12 DEF Drain
  <2>5. QED BY <1>3, <1>4, <1>5, <2>1, <2>3, <2>4 DEF Disjoint, Covered
<1>13. ASSUME ReturnChecked PROVE Disjoint' /\ Covered'
  <2>1. /\ Drained = {Head(checked)} \cup Drained' /\ Head(checked) \notin Drained'
        /\ IsInjective(checked') /\ Head(checked) \in Slots
    BY <1>3, <1>5, <1>13, Receive DEF ReturnChecked, Drained, Disjoint
  <2>2. Head(checked) \notin Queued
    BY <1>5, <2>1 DEF Disjoint
  <2>3. Queued' = Queued \cup {Head(checked)} /\ IsInjective(avail')
    BY <1>3, <1>5, <1>13, <2>1, <2>2, Send DEF ReturnChecked, Queued, Disjoint
  <2>4. UNCHANGED <<slotOf, Repaired, Open>>
    BY <1>13 DEF ReturnChecked
  <2>5. QED BY <1>3, <1>4, <1>5, <2>1, <2>3, <2>4 DEF Disjoint, Covered
<1>14. ASSUME LoseChecked PROVE Disjoint' /\ Covered'
  <2>1. UNCHANGED <<avail, slotOf, Queued, Repaired>> /\ ~Open'
    BY <1>14 DEF LoseChecked, Queued
  <2>2. Drained' = {} /\ IsInjective(checked')
    BY <1>14, EmptyQueue DEF LoseChecked, Drained
  <2>3. QED BY <1>5, <2>1, <2>2 DEF Disjoint, Covered
<1>15. QED
  BY <1>1, <1>2, <1>6, <1>7, <1>8, <1>9, <1>10, <1>11, <1>12, <1>13, <1>14 DEF Owned, Move

LEMMA AlwaysOwned == Spec => []Owned
BY InitOwned, NextOwned, PTL DEF Spec

(* A slot is never in two places, whatever requests, repairs, the health    *)
(* checker and close() do: the sole ownership on which every unlocked field *)
(* of pooledConn relies.                                                    *)
THEOREM SlotsAreExclusive == Spec => []ExclusiveSlots
<1>1. Owned => ExclusiveSlots
  BY DEF Owned, Disjoint, ExclusiveSlots, Idle, HeldByRequest, HeldByChecker, UnderRepair,
     Queued, Drained, Repaired
<1>2. QED BY AlwaysOwned, <1>1, PTL

(* Until close() no slot is lost: the pool stays at full capacity through   *)
(* failed dials, repairs and health checks.                                 *)
THEOREM CapacityIsKept == Spec => []CapacityKept
<1>1. Owned => CapacityKept
  BY DEF Owned, Covered, CapacityKept, Idle, HeldByRequest, HeldByChecker, UnderRepair,
     Queued, Drained, Repaired
<1>2. QED BY AlwaysOwned, <1>1, PTL

(* While the pool is open, every slot is in exactly one place.              *)
THEOREM SlotsAreAccountedFor == Spec => []SlotsAccountedFor
<1>1. ExclusiveSlots /\ CapacityKept => SlotsAccountedFor
  BY DEF SlotsAccountedFor
<1>2. QED BY SlotsAreExclusive, CapacityIsKept, <1>1, PTL

-----------------------------------------------------------------------------
(* Refinement.  A move is a step of the lease contract, or leaves it alone. *)

LEMMA InitLease == Init => Lease!Init
<1> SUFFICES ASSUME Init PROVE Lease!Init
  OBVIOUS
<1>1. avail \in [1 .. Cardinality(Slots) -> Slots]
      /\ \A s \in Slots : \E i \in 1 .. Cardinality(Slots) : avail[i] = s
  BY DEF Init, Bijection, Injection, Surjection
<1>2. idleBar = Slots
  BY <1>1 DEF idleBar, Range
<1>3. leasedBar = {}
  BY SlotsAssumption DEF Init, leasedBar
<1>4. serviceBar = {}
  BY EmptyQueue DEF Init, serviceBar, UnderRepair, HeldByChecker
<1>5. Open = TRUE
  BY DEF Init, Open
<1>6. QED BY <1>2, <1>3, <1>4, <1>5 DEF Lease!Init

LEMMA NextLease == Owned /\ [Next]_vars => [Lease!Next]_(Lease!vars)
<1> SUFFICES ASSUME Owned, [Next]_vars PROVE [Lease!Next]_(Lease!vars)
  OBVIOUS
<1>1. Move
  BY StepsMove DEF Owned
<1>2. /\ avail \in Seq(Slots) /\ checked \in Seq(Slots)
      /\ slotOf \in [Requests -> Slots \cup {NoSlot}]
      /\ NoSlot \notin Slots /\ Repaired \subseteq Slots /\ Disjoint
  BY SlotsAssumption DEF Owned, Typing, TypeOK, Repaired
<1>3. leasedBar' = {p \in Slots \X Requests : slotOf'[p[2]] = p[1]}
  BY DEF leasedBar
<1>4. serviceBar' = {p \in Slots \X {"repair", "check"} :
                       \/ p[2] = "repair" /\ p[1] \in Repaired'
                       \/ p[2] = "check" /\ p[1] \in Drained'}
  BY DEF serviceBar, Repaired, Drained, UnderRepair, HeldByChecker
<1>5. serviceBar = {p \in Slots \X {"repair", "check"} :
                       \/ p[2] = "repair" /\ p[1] \in Repaired
                       \/ p[2] = "check" /\ p[1] \in Drained}
  BY DEF serviceBar, Repaired, Drained, UnderRepair, HeldByChecker
<1>6. idleBar = Queued /\ idleBar' = Queued'
  BY DEF idleBar, Queued
<1>7. CASE Quiet
  <2>1. UNCHANGED <<slotOf, Queued, Drained, Repaired, Open>>
    BY <1>7 DEF Quiet, Still, Queued, Drained
  <2>2. QED BY <1>3, <1>4, <1>5, <1>6, <2>1 DEF leasedBar, Lease!vars
<1>8. CASE Shut
  <2>1. UNCHANGED <<slotOf, Queued, Drained, Repaired>> /\ Open /\ Open' = FALSE
    BY <1>8 DEF Shut, Still, Queued, Drained, Open
  <2>2. Lease!Shutdown
    BY <1>3, <1>4, <1>5, <1>6, <2>1 DEF leasedBar, Lease!Shutdown
  <2>3. QED BY <2>2 DEF Lease!Next
<1>9. ASSUME NEW r \in Requests, Take(r) PROVE Lease!Next
  <2>1. /\ Head(avail) \in Queued /\ Queued = {Head(avail)} \cup Queued'
        /\ Head(avail) \notin Queued' /\ Head(avail) \in Slots
    BY <1>2, <1>9, Receive DEF Take, Queued, Disjoint
  <2>2. UNCHANGED <<Drained, Repaired, Open>> /\ slotOf[r] = NoSlot
        /\ slotOf' = [slotOf EXCEPT ![r] = Head(avail)]
    BY <1>9 DEF Take, Drained
  <2>3. leasedBar' = leasedBar \cup {<<Head(avail), r>>}
    BY <1>2, <1>3, <2>1, <2>2 DEF leasedBar
  <2>4. Lease!Lease(Head(avail), r)
    BY <1>2, <1>4, <1>5, <1>6, <2>1, <2>2, <2>3 DEF leasedBar, Lease!Lease
  <2>5. QED BY <2>1, <2>4 DEF Lease!Next
<1>10. ASSUME NEW r \in Requests, GiveBack(r) PROVE Lease!Next
  <2>1. slotOf[r] \in Slots /\ Queued' = Queued \cup {slotOf[r]}
    BY <1>2, <1>10, Send DEF GiveBack, Queued
  <2>2. UNCHANGED <<Drained, Repaired, Open>> /\ slotOf' = [slotOf EXCEPT ![r] = NoSlot]
    BY <1>10 DEF GiveBack, Drained
  <2>3. leasedBar' = leasedBar \ {<<slotOf[r], r>>} /\ <<slotOf[r], r>> \in leasedBar
    BY <1>2, <1>3, <2>1, <2>2 DEF leasedBar
  <2>4. Lease!Return(slotOf[r], r)
    BY <1>4, <1>5, <1>6, <2>1, <2>2, <2>3 DEF Lease!Return
  <2>5. QED BY <2>1, <2>4 DEF Lease!Next
<1>11. ASSUME NEW r \in Requests, SendToRepair(r) PROVE Lease!Next
  <2>1. /\ slotOf[r] \in Slots /\ Repaired' = Repaired \cup {slotOf[r]}
        /\ slotOf' = [slotOf EXCEPT ![r] = NoSlot] /\ UNCHANGED <<Queued, Drained, Open>>
    BY <1>11 DEF SendToRepair, Queued, Drained
  <2>2. leasedBar' = leasedBar \ {<<slotOf[r], r>>} /\ <<slotOf[r], r>> \in leasedBar
    BY <1>2, <1>3, <2>1 DEF leasedBar
  <2>3. serviceBar' = serviceBar \cup {<<slotOf[r], "repair">>}
    BY <1>4, <1>5, <2>1
  <2>4. Lease!Retire(slotOf[r], r)
    BY <1>6, <2>1, <2>2, <2>3 DEF Lease!Retire
  <2>5. QED BY <2>1, <2>4 DEF Lease!Next
<1>12. ASSUME NEW s \in Slots, ReturnRepaired(s) PROVE Lease!Next
  <2>1. Queued' = Queued \cup {s}
    BY <1>2, <1>12, Send DEF ReturnRepaired, Queued
  <2>2. s \in Repaired /\ Repaired' = Repaired \ {s} /\ UNCHANGED <<slotOf, Drained, Open>>
    BY <1>12 DEF ReturnRepaired, Drained
  <2>3. serviceBar' = serviceBar \ {<<s, "repair">>} /\ <<s, "repair">> \in serviceBar
    BY <1>4, <1>5, <2>2
  <2>4. Lease!Restore(s, "repair")
    BY <1>3, <1>6, <2>1, <2>2, <2>3 DEF leasedBar, Lease!Restore
  <2>5. QED BY <2>4 DEF Lease!Next
<1>13. ASSUME NEW s \in Slots, LoseRepaired(s) PROVE Lease!Next
  <2>1. s \in Repaired /\ Repaired' = Repaired \ {s} /\ ~Open
        /\ UNCHANGED <<slotOf, Queued, Drained, Open>>
    BY <1>13 DEF LoseRepaired, Queued, Drained
  <2>2. serviceBar' = serviceBar \ {<<s, "repair">>} /\ {<<s, "repair">>} \subseteq serviceBar
    BY <1>4, <1>5, <2>1
  <2>3. Lease!Lose({<<s, "repair">>})
    BY <1>3, <1>6, <2>1, <2>2 DEF leasedBar, Lease!Lose
  <2>4. QED BY <2>2, <2>3 DEF Lease!Next
<1>14. ASSUME Drain PROVE Lease!Next
  <2>1. /\ Head(avail) \in Queued /\ Queued = {Head(avail)} \cup Queued'
        /\ Head(avail) \notin Queued' /\ Head(avail) \in Slots
    BY <1>2, <1>14, Receive DEF Drain, Queued, Disjoint
  <2>2. Drained' = Drained \cup {Head(avail)} /\ UNCHANGED <<slotOf, Repaired, Open>>
    BY <1>2, <1>14, <2>1, Send DEF Drain, Drained
  <2>3. serviceBar' = serviceBar \cup {<<Head(avail), "check">>}
    BY <1>4, <1>5, <2>1, <2>2
  <2>4. Lease!Inspect(Head(avail))
    BY <1>3, <1>6, <2>1, <2>2, <2>3 DEF leasedBar, Lease!Inspect
  <2>5. QED BY <2>1, <2>4 DEF Lease!Next
<1>15. ASSUME ReturnChecked PROVE Lease!Next
  <2>1. /\ Drained = {Head(checked)} \cup Drained' /\ Head(checked) \notin Drained'
        /\ Head(checked) \in Slots
    BY <1>2, <1>15, Receive DEF ReturnChecked, Drained, Disjoint
  <2>2. Queued' = Queued \cup {Head(checked)} /\ UNCHANGED <<slotOf, Repaired, Open>>
    BY <1>2, <1>15, <2>1, Send DEF ReturnChecked, Queued
  <2>3. /\ serviceBar' = serviceBar \ {<<Head(checked), "check">>}
        /\ <<Head(checked), "check">> \in serviceBar
    BY <1>4, <1>5, <2>1, <2>2
  <2>4. Lease!Restore(Head(checked), "check")
    BY <1>3, <1>6, <2>2, <2>3 DEF leasedBar, Lease!Restore
  <2>5. QED BY <2>1, <2>4 DEF Lease!Next
<1>16. ASSUME LoseChecked PROVE Lease!Next
  <2>1. Drained' = {} /\ ~Open /\ UNCHANGED <<slotOf, Queued, Repaired, Open>>
    BY <1>16, EmptyQueue DEF LoseChecked, Queued, Drained
  <2>2. serviceBar' = serviceBar \ {p \in serviceBar : p[2] = "check"}
    BY <1>4, <1>5, <2>1
  <2>3. Lease!Lose({p \in serviceBar : p[2] = "check"})
    BY <1>3, <1>6, <2>1, <2>2 DEF leasedBar, Lease!Lose
  <2>4. {p \in serviceBar : p[2] = "check"} \in SUBSET serviceBar
    OBVIOUS
  <2>5. QED BY <2>3, <2>4 DEF Lease!Next
<1>17. QED
  BY <1>1, <1>7, <1>8, <1>9, <1>10, <1>11, <1>12, <1>13, <1>14, <1>15, <1>16 DEF Move

(* The pool keeps the contract of SlotLease: seen from its callers, a slot  *)
(* is idle, leased to one of them or in service, and changes hands in one   *)
(* atomic step.                                                             *)
THEOREM PoolImplementsLease == Spec => ImplementsLease
<1>1. Spec => []Owned
  BY AlwaysOwned
<1>2. QED
  BY <1>1, InitLease, NextLease, PTL DEF Spec, ImplementsLease, Lease!Spec

-----------------------------------------------------------------------------
(* What follows for a caller who knows no more than the contract.           *)

LeaseTypes ==
    leasedBar \subseteq Slots \X Requests /\ serviceBar \subseteq Slots \X {"repair", "check"}

LEMMA LeaseBegins == Lease!Init => Lease!Promise
BY DEF Lease!Init, Lease!Promise

LEMMA LeaseGoesOn ==
    ASSUME LeaseTypes, Lease!Promise, [Lease!Next]_Lease!vars
    PROVE  Lease!Promise'
<1>1. CASE UNCHANGED Lease!vars
  BY <1>1 DEF Lease!vars, Lease!Promise
<1>2. ASSUME NEW s \in Slots, NEW c \in Requests, Lease!Lease(s, c)
      PROVE  Lease!Promise'
  <2>1. \A p \in leasedBar : p[2] # c
    <3>1. \A p \in leasedBar : p = <<p[1], p[2]>> /\ p[1] \in Slots
      BY DEF LeaseTypes
    <3> QED BY <1>2, <3>1 DEF Lease!Lease
  <2>2. \A p \in leasedBar \cup serviceBar : p[1] # s
    BY <1>2 DEF Lease!Lease, Lease!Promise
  <2>3. PICK new : new = <<s, c>>
    OBVIOUS
  <2>4. new[1] = s /\ new[2] = c
    BY <2>3
  <2>5. /\ idleBar' = idleBar \ {s} /\ leasedBar' = leasedBar \cup {new}
        /\ serviceBar' = serviceBar /\ Open' = Open
    BY <1>2, <2>3 DEF Lease!Lease
  <2> QED BY <2>1, <2>2, <2>4, <2>5, Zenon DEF Lease!Promise
<1>3. ASSUME NEW s \in Slots, NEW c \in Requests, Lease!Return(s, c)
      PROVE  Lease!Promise'
  BY <1>3 DEF Lease!Return, Lease!Promise
<1>4. ASSUME NEW s \in Slots, NEW c \in Requests, Lease!Retire(s, c)
      PROVE  Lease!Promise'
  <2>1. PICK old, new : old = <<s, c>> /\ new = <<s, "repair">>
    OBVIOUS
  <2>2. old[1] = s /\ new[1] = s
    BY <2>1
  <2>3. /\ old \in leasedBar /\ leasedBar' = leasedBar \ {old}
        /\ serviceBar' = serviceBar \cup {new}
        /\ idleBar' = idleBar /\ Open' = Open
    BY <1>4, <2>1 DEF Lease!Retire
  <2>4. s \notin idleBar /\ \A p \in serviceBar : p[1] # s
    BY <2>2, <2>3 DEF Lease!Promise
  <2>5. \A p \in leasedBar' : p \in leasedBar /\ p[1] # s
    BY <2>2, <2>3, Zenon DEF Lease!Promise
  <2>6. /\ \A p \in leasedBar' :
             /\ p[1] \notin idleBar'
             /\ \A q \in leasedBar' : p[1] = q[1] \/ p[2] = q[2] => p = q
             /\ \A q \in serviceBar' : p[1] # q[1]
    BY <2>2, <2>3, <2>5 DEF Lease!Promise
  <2>7. \A p \in serviceBar' :
             /\ p[1] \notin idleBar'
             /\ \A q \in serviceBar' : p[1] = q[1] => p = q
    BY <2>2, <2>3, <2>4 DEF Lease!Promise
  <2>8. Open' => \A x \in Slots : \/ x \in idleBar'
                                 \/ \E p \in leasedBar' \cup serviceBar' : p[1] = x
    <3> SUFFICES ASSUME Open', NEW x \in Slots, x # s
                 PROVE  x \in idleBar' \/ \E p \in leasedBar' \cup serviceBar' : p[1] = x
      BY <2>2, <2>3
    <3> QED BY <2>2, <2>3, Zenon DEF Lease!Promise
  <2> QED BY <2>6, <2>7, <2>8, Zenon DEF Lease!Promise
<1>5. ASSUME NEW s \in Slots, Lease!Inspect(s)
      PROVE  Lease!Promise'
  <2>1. PICK new : new = <<s, "check">>
    OBVIOUS
  <2>2. new[1] = s
    BY <2>1
  <2>3. /\ s \in idleBar /\ idleBar' = idleBar \ {s}
        /\ serviceBar' = serviceBar \cup {new}
        /\ leasedBar' = leasedBar /\ Open' = Open
    BY <1>5, <2>1 DEF Lease!Inspect
  <2> QED BY <2>2, <2>3, Zenon DEF Lease!Promise
<1>6. ASSUME NEW s \in Slots, NEW kind \in {"repair", "check"}, Lease!Restore(s, kind)
      PROVE  Lease!Promise'
  BY <1>6 DEF Lease!Restore, Lease!Promise
<1>7. CASE Lease!Shutdown
  BY <1>7 DEF Lease!Shutdown, Lease!Promise
<1>8. ASSUME NEW dropped \in SUBSET serviceBar, Lease!Lose(dropped)
      PROVE  Lease!Promise'
  BY <1>8 DEF Lease!Lose, Lease!Promise
<1> QED
  BY <1>1, <1>2, <1>3, <1>4, <1>5, <1>6, <1>7, <1>8 DEF Lease!Next

(* Whoever acquires a slot from the pool has it to himself until he         *)
(* releases it: a slot is idle, leased or in service and never two of       *)
(* these, a caller has one at most, and none is missing while the pool is   *)
(* open, because the contract says so and the pool keeps it.                *)
THEOREM LeasesAreWhole == Spec => []Lease!Promise
<1>1. LeaseTypes /\ LeaseTypes'
  BY DEF LeaseTypes, leasedBar, serviceBar
<1>2. Lease!Promise /\ [Lease!Next]_Lease!vars => Lease!Promise'
  BY <1>1, LeaseGoesOn
<1> QED
  BY <1>2, LeaseBegins, PoolImplementsLease, PTL DEF ImplementsLease, Lease!Spec

-----------------------------------------------------------------------------
(* Disposal.  OneDisposer is not inductive: an Install into a slot that     *)
(* still has its broker would leave that one without an owner.  A slot that *)
(* is dialled is empty (DialledAreEmpty); only its single holder can fill   *)
(* it, as Owned says; and close()'s goroutine for the slot, which is no     *)
(* holder, only ever empties it (ClosersAgree).                             *)

(* The slots whose factory call is running.                                 *)
Dialled ==
    {s \in Slots : \/ \E r \in Requests : slotOf[r] = s /\ pc[r] = "dial"
                   \/ repairPc[s] = "dial"
                   \/ ckPc = "dial" /\ Head(checked) = s}

InUse == {s \in Slots : \E r \in Requests : slotOf[r] = s /\ pc[r] = "using"}

DialledAreEmpty == \A s \in Dialled : b[s] = NoConn

ClosersAgree ==
    /\ \A s \in Slots : snap[s] # NoConn <=> closer[s] \in {"disc", "abandoned"}
    /\ Open => \A s \in Slots : closer[s] = "none"

Disposal == OneDisposer /\ DialledAreEmpty /\ ClosersAgree

-----------------------------------------------------------------------------
(* What a step does to the brokers of the pool, and to the time since when  *)
(* the checker knows them to be live.                                       *)

SameSince(s) == connectedSince'[s] \in {0, connectedSince[s]}

LeaveAlone ==
    /\ UNCHANGED <<b, link, closeVars>> /\ Dialled' \subseteq Dialled
    /\ now' \in Nat /\ now' >= now
    /\ \A s \in Slots : \/ SameSince(s)
                        \/ /\ connectedSince'[s] = now /\ now' = now
                           /\ b[s] # NoConn /\ s \notin Dialled'

Unplug(s) ==
    /\ s \notin InUse /\ b' = [b EXCEPT ![s] = NoConn]
    /\ link' = IF b[s] = NoConn THEN link ELSE [link EXCEPT ![s][b[s]] = "gone"]
    /\ UNCHANGED <<now, closeVars>> /\ Dialled' \subseteq Dialled \cup {s}
    /\ connectedSince' = [connectedSince EXCEPT ![s] = 0]

Plug(s) ==
    /\ s \in Dialled \ InUse
    /\ \E source \in LinkStates \ {"gone"} : Install(s, source)
    /\ UNCHANGED <<now, closeVars>> /\ Dialled' \subseteq Dialled \ {s}
    /\ \E since \in {0, now, connectedSince[s]} :
          connectedSince' = [connectedSince EXCEPT ![s] = since]

Signal(s) ==
    /\ Link(s) # "gone"
    /\ \E to \in LinkStates \ {"gone"} : link' = [link EXCEPT ![s][b[s]] = to]
    /\ UNCHANGED <<b, now, connectedSince, closeVars>> /\ Dialled' \subseteq Dialled

Shutdown ==
    /\ Close \/ CloseReturn \/ CloseTimeout \/ \E s \in Slots : CloserStep(s)
    /\ Dialled' = Dialled

Handle ==
    \/ LeaveAlone \/ Shutdown
    \/ \E s \in Slots : Unplug(s) \/ Plug(s) \/ Signal(s)

(* A holder of a slot is its only one.                                      *)
LEMMA OnlyHolder ==
    ASSUME Owned
    PROVE  /\ \A r \in Requests : slotOf[r] \in Slots =>
                 /\ repairPc[slotOf[r]] = "none"
                 /\ ckPc \in {"probe", "disc", "dial"} => Head(checked) # slotOf[r]
                 /\ \A q \in Requests : slotOf[q] = slotOf[r] => q = r
           /\ \A s \in Slots : repairPc[s] # "none" /\ ckPc \in {"probe", "disc", "dial"}
                               => Head(checked) # s
           /\ ckPc \in {"probe", "disc", "dial", "requeue"} => Head(checked) \in Slots
<1>1. checked \in Seq(Slots) /\ NoSlot \notin Slots
  BY SlotsAssumption DEF Owned, Typing, TypeOK
<1>2. ckPc \in {"probe", "disc", "dial", "requeue"} =>
        Head(checked) \in Drained /\ Head(checked) \in Slots
  BY <1>1, Receive DEF Owned, Typing, CkAgrees, Drained
<1>3. Disjoint
  BY DEF Owned
<1> QED
  BY <1>1, <1>2, <1>3 DEF Disjoint, Repaired, UnderRepair

(* Every step of the pool is one of these.                                  *)
LEMMA StepsHandle ==
    ASSUME Owned, [Next]_vars
    PROVE  Handle
<1>0. Typing
  BY DEF Owned
<1> USE <1>0 DEF Typing, TypeOK
<1>1. ASSUME NEW r \in Requests, RequestStep(r) PROVE Handle
  <2>1. CASE AcquireTeardown(r)
    <3>1. slotOf[r] \in Slots
      BY <2>1 DEF AcquireTeardown, PcAgrees
    <3>2. slotOf[r] \notin InUse
      BY <2>1, <3>1, OnlyHolder DEF AcquireTeardown, InUse
    <3>3. Dialled' \subseteq Dialled \cup {slotOf[r]}
      BY <2>1 DEF AcquireTeardown, Dialled, ckVars
    <3>4. Unplug(slotOf[r])
      BY <2>1, <3>2, <3>3 DEF AcquireTeardown, Teardown, TakeOut, Unplug, timeVars
    <3> QED BY <3>1, <3>4 DEF Handle
  <2>2. CASE AcquireDialed(r)
    <3>1. slotOf[r] \in Slots
      BY <2>2 DEF AcquireDialed, PcAgrees
    <3>2. slotOf[r] \in Dialled \ InUse
      BY <2>2, <3>1, OnlyHolder DEF AcquireDialed, Dialled, InUse
    <3>3. Dialled' \subseteq Dialled \ {slotOf[r]}
      BY <2>2, <3>1, OnlyHolder DEF AcquireDialed, Dialled, ckVars
    <3>4. Plug(slotOf[r])
      BY <2>2, <3>2, <3>3 DEF AcquireDialed, Sources, LinkStates, Plug, timeVars, dwellVars
    <3> QED BY <3>1, <3>4 DEF Handle
  <2>3. CASE ~AcquireTeardown(r) /\ ~AcquireDialed(r)
    <3>1. UNCHANGED <<b, link, closeVars, ckVars, connectedSince, now>>
      BY <1>1, <2>3 DEF RequestStep, Arrive, CtxDone, AcquireTake, AcquireGiveUp,
         AcquireDialFailed, ReleaseHealthy, ReleaseUnhealthy, brokVars, dwellVars, timeVars
    <3>2. /\ \A q \in Requests : pc'[q] = "dial" => pc[q] = "dial" /\ slotOf'[q] = slotOf[q]
          /\ \A s \in Slots : repairPc'[s] = "dial" => repairPc[s] = "dial"
      BY <1>1, <2>3 DEF RequestStep, Arrive, CtxDone, AcquireTake, AcquireGiveUp,
         AcquireDialFailed, ReleaseHealthy, ReleaseUnhealthy
    <3>3. Dialled' \subseteq Dialled
      BY <3>1, <3>2 DEF Dialled, ckVars
    <3> QED BY <3>1, <3>3, NowAssumption DEF LeaveAlone, SameSince, Handle
  <2> QED BY <2>1, <2>2, <2>3
<1>2. ASSUME NEW s \in Slots, RepairStep(s) PROVE Handle
  <2>1. CASE RepairTeardown(s)
    <3>1. s \notin InUse
      BY <2>1, OnlyHolder DEF RepairTeardown, InUse
    <3>2. Dialled' \subseteq Dialled \cup {s}
      BY <2>1 DEF RepairTeardown, Dialled, reqVars, ckVars
    <3>3. Unplug(s)
      BY <2>1, <3>1, <3>2 DEF RepairTeardown, Teardown, TakeOut, Unplug, timeVars
    <3> QED BY <3>3 DEF Handle
  <2>2. CASE RepairDialed(s)
    <3>1. s \in Dialled \ InUse
      BY <2>2, OnlyHolder DEF RepairDialed, Dialled, InUse
    <3>2. Dialled' \subseteq Dialled \ {s}
      BY <2>2, OnlyHolder DEF RepairDialed, Dialled, reqVars, ckVars
    <3>3. Plug(s)
      BY <2>2, <3>1, <3>2 DEF RepairDialed, PoolDial, Sources, LinkStates, Plug, timeVars,
         dwellVars
    <3> QED BY <3>3 DEF Handle
  <2>3. CASE RepairDialFailed(s) \/ RepairRequeue(s) \/ RepairDrop(s)
    <3>1. UNCHANGED <<b, link, closeVars, ckVars, reqVars, connectedSince, now>>
      BY <2>3 DEF RepairDialFailed, RepairRequeue, RepairDrop, brokVars, dwellVars, timeVars
    <3>2. \A u \in Slots : repairPc'[u] = "dial" => repairPc[u] = "dial"
      BY <2>3 DEF RepairDialFailed, RepairRequeue, RepairDrop
    <3>3. Dialled' \subseteq Dialled
      BY <3>1, <3>2 DEF Dialled, ckVars, reqVars
    <3> QED BY <3>1, <3>3, NowAssumption DEF LeaveAlone, SameSince, Handle
  <2> QED BY <1>2, <2>1, <2>2, <2>3 DEF RepairStep
<1>3. ASSUME CheckerStep PROVE Handle
  <2>1. CASE CkTeardown
    <3>1. Head(checked) \in Slots \ InUse
      BY <2>1, OnlyHolder DEF CkTeardown, InUse
    <3>2. Dialled' \subseteq Dialled \cup {Head(checked)}
      BY <2>1 DEF CkTeardown, Dialled, reqVars
    <3>3. Unplug(Head(checked))
      BY <2>1, <3>1, <3>2 DEF CkTeardown, Teardown, TakeOut, Unplug, timeVars
    <3> QED BY <3>1, <3>3 DEF Handle
  <2>2. CASE CkDialed
    <3>1. Head(checked) \in Slots /\ Head(checked) \in Dialled \ InUse
      BY <2>2, OnlyHolder DEF CkDialed, Dialled, InUse
    <3>2. Dialled' \subseteq Dialled \ {Head(checked)}
      BY <2>2, OnlyHolder DEF CkDialed, Dialled, reqVars
    <3>3. Plug(Head(checked))
      BY <2>2, <3>1, <3>2 DEF CkDialed, PoolDial, TrackReconnectOutcome, Sources, LinkStates,
         Plug, timeVars
    <3> QED BY <3>1, <3>3 DEF Handle
  <2>3. CASE ~CkTeardown /\ ~CkDialed
    <3>1. UNCHANGED <<b, link, closeVars, reqVars, repairPc>> /\ ckPc' # "dial"
      BY <1>3, <2>3 DEF CheckerStep, CkStart, CkDrain, CkProbeUnhealthy, CkProbeHealthy,
         CkDialFailed, CkRequeue, CkDrop, CkStop, brokVars
    <3>2. Dialled' \subseteq Dialled
      BY <3>1 DEF Dialled, reqVars
    <3>3. now' = now
      BY <1>3, <2>3 DEF CheckerStep, CkStart, CkDrain, CkProbeUnhealthy, CkProbeHealthy,
         CkDialFailed, CkRequeue, CkDrop, CkStop, timeVars
    <3>4. \A s \in Slots : \/ SameSince(s)
                           \/ /\ connectedSince'[s] = now /\ now' = now
                              /\ b[s] # NoConn /\ s \notin Dialled'
      <4>1. CASE CkProbeHealthy
        <5>1. \A s \in Slots \ {Head(checked)} : SameSince(s)
          BY <4>1 DEF CkProbeHealthy, ClearBackoffIfStable, SameSince
        <5>2. Head(checked) \notin Dialled'
          BY <3>1, <4>1, OnlyHolder DEF CkProbeHealthy, Dialled, reqVars
        <5>3. \/ SameSince(Head(checked))
              \/ connectedSince'[Head(checked)] = now /\ b[Head(checked)] # NoConn
          BY <4>1, OnlyHolder DEF CkProbeHealthy, ClearBackoffIfStable, SameSince, Link
        <5> QED BY <3>3, <5>1, <5>2, <5>3
      <4>2. CASE CkDialFailed
        BY <4>2 DEF CkDialFailed, TrackReconnectOutcome, SameSince
      <4>3. CASE ~CkProbeHealthy /\ ~CkDialFailed
        BY <1>3, <2>3, <4>3 DEF CheckerStep, CkStart, CkDrain, CkProbeUnhealthy, CkRequeue,
           CkDrop, CkStop, dwellVars, SameSince
      <4> QED BY <4>1, <4>2, <4>3
    <3> QED BY <3>1, <3>2, <3>3, <3>4, NowAssumption DEF LeaveAlone, Handle
  <2> QED BY <2>1, <2>2, <2>3
<1>4. ASSUME NEW s \in Slots, Environment(s) PROVE Handle
  <2>1. Dialled' = Dialled
    BY <1>4 DEF Environment, LinkDrops, LinkStalls, LinkRecovers, LinkChanges, Dialled,
       reqVars, ckVars
  <2>2. Signal(s)
    BY <1>4, <2>1 DEF Environment, LinkDrops, LinkStalls, LinkRecovers, LinkChanges,
       Signal, LinkStates, timeVars, dwellVars
  <2> QED BY <2>2 DEF Handle
<1>5. ASSUME \/ Close \/ CloseReturn \/ CloseTimeout \/ \E s \in Slots : CloserStep(s)
      PROVE  Handle
  <2>1. UNCHANGED <<reqVars, repairPc, ckVars>>
    BY <1>5 DEF Close, CloseReturn, CloseTimeout, CloserStep, CloserLock, CloserAbandon,
       CloserDisconnected
  <2>2. Dialled' = Dialled
    BY <2>1 DEF Dialled, reqVars, ckVars
  <2> QED BY <1>5, <2>2 DEF Shutdown, Handle
<1>6. CASE Tick \/ UNCHANGED vars
  <2>1. UNCHANGED <<b, link, closeVars, reqVars, repairPc, ckVars, connectedSince>>
    BY <1>6 DEF Tick, vars, brokVars, dwellVars
  <2>2. Dialled' = Dialled
    BY <2>1 DEF Dialled, reqVars, ckVars
  <2>3. now' \in Nat /\ now' >= now
    BY <1>6, NowAssumption DEF Tick, vars, timeVars
  <2> QED BY <2>1, <2>2, <2>3 DEF LeaveAlone, SameSince, Handle
<1> QED
  BY <1>1, <1>2, <1>3, <1>4, <1>5, <1>6 DEF Next, CloseStep

-----------------------------------------------------------------------------
(* Initially the pool has dialled nothing.                                  *)
LEMMA InitDisposal == Init => Disposal
BY ConnsAssumption DEF Init, Disposal, OneDisposer, DialledAreEmpty, Dialled, ClosersAgree, Open

(* Each broker that is dialled goes to an empty slot, each that leaves its  *)
(* slot is gone or with the slot's closer.                                  *)
LEMMA NextDisposal ==
    ASSUME Owned, Disposal, [Next]_vars
    PROVE  Disposal'
<1>0. Typing
  BY DEF Owned
<1> USE <1>0, ConnsAssumption DEF Typing, TypeOK
<1>1. Handle
  BY StepsHandle
<1>2. CASE LeaveAlone
  BY <1>2 DEF LeaveAlone, Disposal, OneDisposer, DialledAreEmpty, ClosersAgree, Open,
     closeVars
<1>3. ASSUME NEW s \in Slots, Unplug(s) PROVE Disposal'
  <2>1. OneDisposer'
    BY <1>3 DEF Unplug, Disposal, OneDisposer, closeVars
  <2>2. DialledAreEmpty'
    BY <1>3 DEF Unplug, Disposal, DialledAreEmpty, Dialled
  <2>3. ClosersAgree'
    BY <1>3 DEF Unplug, Disposal, ClosersAgree, Open, closeVars
  <2> QED BY <2>1, <2>2, <2>3 DEF Disposal
<1>4. ASSUME NEW s \in Slots, Plug(s) PROVE Disposal'
  <2>1. b[s] = NoConn
    BY <1>4 DEF Plug, Disposal, DialledAreEmpty
  <2>2. OneDisposer'
    BY <1>4, <2>1 DEF Plug, Install, Disposal, OneDisposer, closeVars, LinkStates
  <2>3. DialledAreEmpty'
    BY <1>4 DEF Plug, Install, Disposal, DialledAreEmpty, Dialled
  <2>4. ClosersAgree'
    BY <1>4 DEF Plug, Disposal, ClosersAgree, Open, closeVars
  <2> QED BY <2>2, <2>3, <2>4 DEF Disposal
<1>5. ASSUME NEW s \in Slots, Signal(s) PROVE Disposal'
  <2>1. b[s] # NoConn /\ link[s][b[s]] # "gone"
    BY <1>5 DEF Signal, Link
  <2>2. OneDisposer'
    BY <1>5, <2>1 DEF Signal, Disposal, OneDisposer, closeVars
  <2>3. DialledAreEmpty' /\ ClosersAgree'
    BY <1>5 DEF Signal, Disposal, DialledAreEmpty, ClosersAgree, Open, closeVars
  <2> QED BY <2>2, <2>3 DEF Disposal
<1>6. CASE Shutdown
  <2>1. CASE Close \/ CloseReturn \/ CloseTimeout
    <3>1. UNCHANGED <<b, link, snap>> /\ Dialled' = Dialled
      BY <1>6, <2>1 DEF Shutdown, Close, CloseReturn, CloseTimeout, brokVars
    <3>2. ClosersAgree'
      BY <2>1 DEF Close, CloseReturn, CloseTimeout, Disposal, ClosersAgree, Open
    <3> QED BY <3>1, <3>2 DEF Disposal, OneDisposer, DialledAreEmpty
  <2>2. ASSUME NEW s \in Slots, CloserStep(s) PROVE Disposal'
    <3>1. Dialled' = Dialled /\ closing' = closing /\ ~Open
      BY <1>6, <2>2 DEF Shutdown, CloserStep, CloserLock, CloserAbandon, CloserDisconnected,
         Disposal, ClosersAgree, closeVars
    <3>2. CASE CloserLock(s)
      <4>1. snap[s] = NoConn
        BY <3>2 DEF CloserLock, Disposal, ClosersAgree
      <4>2. OneDisposer'
        BY <3>2, <4>1 DEF CloserLock, TakeOut, Disposal, OneDisposer
      <4>3. DialledAreEmpty'
        BY <3>1, <3>2 DEF CloserLock, TakeOut, Disposal, DialledAreEmpty, Dialled
      <4>4. ClosersAgree'
        BY <3>1, <3>2, <4>1 DEF CloserLock, TakeOut, Disposal, ClosersAgree, Open
      <4> QED BY <4>2, <4>3, <4>4 DEF Disposal
    <3>3. CASE CloserAbandon(s)
      BY <3>1, <3>3 DEF CloserAbandon, brokVars, Disposal, OneDisposer, DialledAreEmpty,
         ClosersAgree, Open
    <3>4. CASE CloserDisconnected(s)
      <4>1. snap[s] # NoConn
        BY <3>4 DEF CloserDisconnected, Disposal, ClosersAgree
      <4>2. OneDisposer'
        BY <3>4, <4>1 DEF CloserDisconnected, Disposal, OneDisposer
      <4>3. DialledAreEmpty' /\ ClosersAgree'
        BY <3>1, <3>4 DEF CloserDisconnected, Disposal, DialledAreEmpty, ClosersAgree, Open
      <4> QED BY <4>2, <4>3 DEF Disposal
    <3> QED BY <2>2, <3>2, <3>3, <3>4 DEF CloserStep
  <2> QED BY <1>6, <2>1, <2>2 DEF Shutdown
<1> QED
  BY <1>1, <1>2, <1>3, <1>4, <1>5, <1>6 DEF Handle

(* Every broker object that was dialled and not disconnected has exactly    *)
(* one party that will disconnect it: its slot, or the slot's goroutine of  *)
(* close().  None is disconnected twice, and no TWS connection is lost.     *)
THEOREM EveryBrokerHasOneDisposer == Spec => []OneDisposer
<1>1. Disposal => OneDisposer
  BY DEF Disposal
<1> QED
  BY <1>1, AlwaysOwned, InitDisposal, NextDisposal, PTL DEF Spec

-----------------------------------------------------------------------------
(* A step replaces the broker of a slot only if nobody uses it, or at close. *)
LEMMA NextKeepsUsed ==
    ASSUME Owned, Disposal, [Next]_vars, NEW r \in Requests,
           pc[r] = "using", Open'
    PROVE  b'[slotOf[r]] = b[slotOf[r]]
<1>0. Typing
  BY DEF Owned
<1> USE <1>0 DEF Typing, TypeOK
<1>1. slotOf[r] \in InUse /\ slotOf[r] \in Slots
  BY DEF PcAgrees, InUse
<1>2. CASE LeaveAlone
  BY <1>2 DEF LeaveAlone
<1>3. ASSUME NEW s \in Slots, Unplug(s) \/ Plug(s) \/ Signal(s)
      PROVE  b'[slotOf[r]] = b[slotOf[r]]
  BY <1>1, <1>3 DEF Unplug, Plug, Install, Signal
<1>4. CASE Shutdown
  <2>1. CASE \E s \in Slots : CloserStep(s)
    <3>1. closing' = closing
      BY <2>1 DEF CloserStep, CloserLock, CloserAbandon, CloserDisconnected, closeVars
    <3>2. \A s \in Slots : closer[s] = "none"
      BY <3>1 DEF Disposal, ClosersAgree, Open
    <3> QED
      BY <2>1, <3>2 DEF CloserStep, CloserLock, CloserAbandon, CloserDisconnected
  <2>2. CASE Close \/ CloseReturn \/ CloseTimeout
    BY <2>2 DEF Close, CloseReturn, CloseTimeout, brokVars
  <2> QED BY <1>4, <2>1, <2>2 DEF Shutdown
<1> QED
  BY <1>2, <1>3, <1>4, StepsHandle DEF Handle

(* While the pool is open, nobody replaces the broker under a handler that  *)
(* uses conn.b without a lock, be it a repair, the health checker, another  *)
(* request's reconnect or close().                                          *)
THEOREM HandlersKeepTheirBroker == Spec => UsedBrokerIntact
<1>1. ASSUME Owned, Disposal, [Next]_vars
      PROVE  [\A r \in Requests : pc[r] = "using" /\ pc'[r] = "using" /\ Open'
                => b'[slotOf[r]] = b[slotOf[r]]]_vars
  BY <1>1, NextKeepsUsed
<1> QED
  BY <1>1, AlwaysOwned, InitDisposal, NextDisposal, PTL DEF Spec, UsedBrokerIntact

-----------------------------------------------------------------------------
(* What keeps the liveness of the pool from being a matter of capacity: the *)
(* channel and the model's broker objects never run out.                    *)

(* Whoever has a slot finds room for it in the channel.                     *)
SendsFit ==
    \A s \in Slots : HeldByRequest(s) \/ HeldByChecker(s) \/ UnderRepair(s) =>
                         Len(avail) < Cardinality(Slots)

(* A dial that succeeds can be installed.                                   *)
DialsFit == \A s \in Dialled : \E c \in Conns : link[s][c] = "gone"

(* The channel is as long as the pool has slots, and it never holds one     *)
(* that somebody else has: no send to avail, of a handler that returns, a   *)
(* repair or the health checker, ever blocks, not even during close().      *)
THEOREM SendsNeverBlock == Spec => []SendsFit
<1>1. ASSUME Owned, NEW s \in Slots, HeldByRequest(s) \/ HeldByChecker(s) \/ UnderRepair(s)
      PROVE  Len(avail) < Cardinality(Slots)
  <2>1. avail \in Seq(Slots) /\ IsInjective(avail)
    BY <1>1 DEF Owned, Typing, TypeOK, Disjoint
  <2>2. s \notin Queued
    BY <1>1 DEF Owned, Disjoint, HeldByRequest, HeldByChecker, UnderRepair, Drained, Repaired
  <2> DEFINE n == Len(avail)
             Others == Slots \ {s}
  <2>3. n \in Nat /\ avail \in [1 .. n -> Others]
    BY <2>1, <2>2 DEF Queued, Range
  <2>4. avail \in Injection(1 .. n, Others)
    BY <2>1, <2>3 DEF Injection, IsInjective
  <2>5. IsFiniteSet(Others) /\ Cardinality(Others) = Cardinality(Slots) - 1
    BY SlotsAssumption, FS_RemoveElement
  <2>6. Cardinality(1 .. n) = n
    BY <2>3, FS_Interval
  <2>7. n <= Cardinality(Others)
    <3> HIDE DEF n, Others
    <3> QED BY <2>4, <2>5, <2>6, FS_Injection
  <2>8. Cardinality(Slots) \in Nat
    BY SlotsAssumption, FS_CardinalityType
  <2> QED BY <2>3, <2>5, <2>7, <2>8
<1>2. Owned => SendsFit
  BY <1>1 DEF SendsFit
<1> QED BY AlwaysOwned, <1>2, PTL

(* A slot that is dialled has at most the broker its closer disconnects, so *)
(* that two objects are enough: the bound on Conns leaves out no dial.      *)
THEOREM DialsAlwaysFit == Spec => []DialsFit
<1>1. ASSUME Disposal, NEW s \in Dialled PROVE \E c \in Conns : link[s][c] = "gone"
  <2>1. s \in Slots /\ b[s] = NoConn
    BY <1>1 DEF Disposal, DialledAreEmpty, Dialled
  <2>2. PICK c \in Conns : c # snap[s]
    BY ConnsAssumption
  <2>3. c \notin {b[s], snap[s]}
    BY <2>1, <2>2, ConnsAssumption
  <2> QED BY <1>1, <2>1, <2>3 DEF Disposal, OneDisposer
<1>2. Disposal => DialsFit
  BY <1>1 DEF DialsFit
<1> QED BY AlwaysOwned, InitDisposal, NextDisposal, <1>2, PTL DEF Spec

-----------------------------------------------------------------------------
(* The past of a slot.  Its connection was dialled before the checker first *)
(* saw it live; a slot under a dial has no such time (Dwelt).  The backoff  *)
(* runs from the last failure, and who reconnects has waited it out         *)
(* (Waited): requests and repairs, which never look at it, count nothing.   *)

Dwelt ==
    /\ dialledAt \in [Slots -> Nat]
    /\ \A s \in Slots : b[s] # NoConn =>
          /\ dialledAt[s] # 0 /\ dialledAt[s] <= now
          /\ connectedSince[s] # 0 => dialledAt[s] <= connectedSince[s]
    /\ \A s \in Dialled : connectedSince[s] = 0

Waited ==
    /\ failedAt \in [Slots -> Nat]
    /\ \A s \in Slots : failCount[s] > 0 =>
          nextRetry[s] = failedAt[s] + BackoffFor(failCount[s])
    /\ ckPc \in {"disc", "dial"} => now >= nextRetry[Head(checked)]

LEMMA InitPast == HInit => Dwelt /\ Waited
BY DEF HInit, Init, Dwelt, Waited, Dialled

(* For each slot of its own, whatever the others do.                        *)
LEMMA DwellOfSlot ==
    ASSUME Owned, Disposal, Dwelt, [Next]_vars, NEW s \in Slots
    PROVE  /\ now' \in Nat /\ now' >= now /\ now >= 1
           /\ connectedSince'[s] \in Nat
           /\ s \in Dialled' => connectedSince'[s] = 0
           /\ \/ b'[s] = NoConn
              \/ /\ b'[s] = b[s]
                 /\ SameSince(s) \/ connectedSince'[s] = now
              \/ /\ b'[s] # b[s]
                 /\ connectedSince'[s] \in {0, now}
<1>0. Typing
  BY DEF Owned
<1>. USE <1>0 DEF Typing, TypeOK
<1>1. connectedSince[s] \in Nat /\ now \in Nat /\ now >= 1
  BY NowAssumption
<1>2. CASE LeaveAlone
  BY <1>1, <1>2 DEF LeaveAlone, SameSince, Dwelt
<1>3. ASSUME NEW t \in Slots, Unplug(t)
      PROVE  /\ now' = now
             /\ IF s = t THEN b'[s] = NoConn /\ connectedSince'[s] = 0
                ELSE b'[s] = b[s] /\ connectedSince'[s] = connectedSince[s]
             /\ s \in Dialled' => s \in Dialled \/ s = t
  BY <1>3 DEF Unplug
<1>4. ASSUME NEW t \in Slots, Plug(t)
      PROVE  /\ now' = now
             /\ IF s = t
                THEN s \notin Dialled' /\ b[s] = NoConn /\ connectedSince'[s] \in {0, now}
                ELSE b'[s] = b[s] /\ connectedSince'[s] = connectedSince[s]
             /\ s \in Dialled' => s \in Dialled
  BY <1>4 DEF Plug, Install, Dwelt, Disposal, DialledAreEmpty
<1>5. ASSUME NEW t \in Slots, Signal(t)
      PROVE  /\ now' = now /\ b' = b /\ connectedSince' = connectedSince
             /\ s \in Dialled' => s \in Dialled
  BY <1>5 DEF Signal
<1>6. CASE Shutdown
  <2>1. now' = now /\ connectedSince' = connectedSince
    BY <1>6 DEF Shutdown, Close, CloseReturn, CloseTimeout, CloserStep, CloserLock,
       CloserAbandon, CloserDisconnected, timeVars, dwellVars
  <2>2. b'[s] \in {NoConn, b[s]}
    BY <1>6 DEF Shutdown, Close, CloseReturn, CloseTimeout, CloserStep, CloserLock,
       CloserAbandon, CloserDisconnected, TakeOut, brokVars
  <2>. QED
    BY <1>1, <1>6, <2>1, <2>2 DEF Shutdown, SameSince, Dwelt
<1>. DEFINE Goal ==
       /\ now' \in Nat /\ now' >= now /\ now >= 1
       /\ connectedSince'[s] \in Nat
       /\ s \in Dialled' => connectedSince'[s] = 0
       /\ \/ b'[s] = NoConn
          \/ b'[s] = b[s] /\ (SameSince(s) \/ connectedSince'[s] = now)
          \/ b'[s] # b[s] /\ connectedSince'[s] \in {0, now}
<1>7. s \in Dialled => connectedSince[s] = 0
  BY DEF Dwelt
<1>8. ASSUME NEW t \in Slots, Unplug(t) \/ Plug(t) \/ Signal(t) PROVE Goal
  <2>1. CASE Unplug(t)
    BY <1>1, <1>3, <1>7, <2>1 DEF SameSince
  <2>2. CASE Plug(t)
    BY <1>1, <1>4, <1>7, <2>2 DEF SameSince
  <2>3. CASE Signal(t)
    BY <1>1, <1>5, <1>7, <2>3 DEF SameSince
  <2>. QED
    BY <1>8, <2>1, <2>2, <2>3
<1>9. CASE LeaveAlone \/ Shutdown
  BY <1>2, <1>6, <1>9
<1>. QED
  BY <1>8, <1>9, StepsHandle, Zenon DEF Handle

LEMMA NextDwelt ==
    ASSUME Owned, Disposal, Dwelt, Next /\ Record
    PROVE  Dwelt'
<1>1. dialledAt' \in [Slots -> Nat]
  <2>1. now \in Nat
    BY NowAssumption DEF Owned, Typing, TypeOK
  <2>. QED
    BY <2>1 DEF Record, Dwelt
<1>2. ASSUME NEW s \in Slots, b'[s] # NoConn
      PROVE  /\ dialledAt'[s] # 0 /\ dialledAt'[s] <= now'
             /\ connectedSince'[s] # 0 => dialledAt'[s] <= connectedSince'[s]
  <2>1. dialledAt'[s] = IF b[s] # b'[s] THEN now ELSE dialledAt[s]
    BY <1>2 DEF Record
  <2>2. now \in Nat /\ dialledAt[s] \in Nat
    BY NowAssumption DEF Owned, Typing, TypeOK, Dwelt
  <2>3. CASE b'[s] = b[s]
    BY <1>2, <2>1, <2>2, <2>3, DwellOfSlot DEF Dwelt, SameSince
  <2>4. CASE b'[s] # b[s]
    BY <1>2, <2>1, <2>2, <2>4, DwellOfSlot
  <2>. QED
    BY <2>3, <2>4
<1>3. \A s \in Dialled' : connectedSince'[s] = 0
  BY DwellOfSlot DEF Dialled
<1>. QED
  BY <1>1, <1>2, <1>3 DEF Dwelt

(* What a step may do to a slot's backoff.                                  *)
CountsFailure(s) ==
    /\ ckPc = "dial" /\ s = Head(checked)
    /\ failCount'[s] = failCount[s] + 1
    /\ nextRetry'[s] = now + BackoffFor(failCount[s] + 1)

ClearsBackoff(s) ==
    /\ failCount'[s] = 0
    /\ b[s] # NoConn /\ connectedSince[s] # 0 /\ now - connectedSince[s] >= DwellWindow

Backoffs ==
    /\ now' >= now
    /\ \A s \in Slots : \/ failCount'[s] = failCount[s] /\ nextRetry'[s] = nextRetry[s]
                        \/ CountsFailure(s) \/ ClearsBackoff(s)
    /\ ckPc' \in {"disc", "dial"} =>
          /\ checked' = checked /\ nextRetry' = nextRetry
          /\ ckPc \in {"disc", "dial"} \/ MayRetry(Head(checked))

LEMMA StepsBackoff ==
    ASSUME Owned, [Next]_vars
    PROVE  Backoffs
<1>0. Typing
  BY DEF Owned
<1>. USE <1>0 DEF Typing, TypeOK
<1>1. now \in Nat
  BY NowAssumption
<1>2. CASE CkProbeHealthy
  <2>. DEFINE h == Head(checked)
  <2>1. h \in Slots /\ now' = now /\ checked' = checked
    BY <1>2, OnlyHolder DEF CkProbeHealthy, timeVars
  <2>2. \A s \in Slots \ {h} : failCount'[s] = failCount[s] /\ nextRetry'[s] = nextRetry[s]
    BY <1>2 DEF CkProbeHealthy, ClearBackoffIfStable
  <2>3. \/ UNCHANGED <<failCount, nextRetry>>
        \/ ~IsOnFallback(h) /\ ClearsBackoff(h)
    BY <1>2, <2>1 DEF CkProbeHealthy, ClearBackoffIfStable, ClearsBackoff, Link
  <2>4. ckPc' \in {"disc", "dial"} => IsOnFallback(h) /\ MayRetry(h)
    BY <1>2 DEF CkProbeHealthy
  <2>5. IsOnFallback(h) => UNCHANGED nextRetry
    BY <1>2 DEF CkProbeHealthy, ClearBackoffIfStable
  <2>. QED
    BY <1>1, <2>1, <2>2, <2>3, <2>4, <2>5 DEF Backoffs
<1>3. CASE CkDialed \/ CkDialFailed
  <2>. DEFINE h == Head(checked)
  <2>1. h \in Slots /\ now' = now /\ ckPc = "dial" /\ ckPc' = "requeue"
    BY <1>3, OnlyHolder DEF CkDialed, CkDialFailed, timeVars
  <2>2. PICK live \in BOOLEAN : TrackReconnectOutcome(h, live)
    BY <1>3 DEF CkDialed, CkDialFailed
  <2>3. CASE live
    BY <1>1, <2>1, <2>2, <2>3 DEF TrackReconnectOutcome, Succeed, Backoffs
  <2>4. CASE ~live
    <3>1. /\ failCount' = [failCount EXCEPT ![h] = @ + 1]
          /\ nextRetry' = [nextRetry EXCEPT ![h] = now + BackoffFor(failCount[h] + 1)]
      BY <2>2, <2>4 DEF TrackReconnectOutcome, Fail
    <3>2. CountsFailure(h)
      BY <2>1, <3>1 DEF CountsFailure
    <3>3. \A s \in Slots \ {h} : failCount'[s] = failCount[s] /\ nextRetry'[s] = nextRetry[s]
      BY <3>1
    <3>. QED
      BY <1>1, <2>1, <3>2, <3>3 DEF Backoffs
  <2>. QED
    BY <2>3, <2>4
<1>4. CASE CkProbeUnhealthy \/ CkTeardown
  <2>1. UNCHANGED <<checked, now, failCount, nextRetry>>
    BY <1>4 DEF CkProbeUnhealthy, CkTeardown, timeVars, dwellVars
  <2>2. ckPc' \in {"disc", "dial"} => ckPc \in {"disc", "dial"} \/ MayRetry(Head(checked))
    BY <1>4 DEF CkProbeUnhealthy, CkTeardown
  <2>. QED
    BY <1>1, <2>1, <2>2 DEF Backoffs
<1>5. CASE CkStart \/ CkDrain \/ CkRequeue \/ CkDrop \/ CkStop
  <2>1. UNCHANGED <<now, failCount, nextRetry>> /\ ckPc' \notin {"disc", "dial"}
    BY <1>5 DEF CkStart, CkDrain, CkRequeue, CkDrop, CkStop, timeVars, dwellVars
  <2>. QED
    BY <1>1, <2>1 DEF Backoffs
<1>6. CASE \E r \in Requests : RequestStep(r)
  <2>1. UNCHANGED <<ckVars, now, failCount, nextRetry>>
    BY <1>6 DEF RequestStep, Arrive, CtxDone, AcquireTake, AcquireGiveUp, AcquireTeardown,
       AcquireDialed, AcquireDialFailed, ReleaseHealthy, ReleaseUnhealthy, timeVars, dwellVars
  <2>. QED
    BY <1>1, <2>1 DEF Backoffs, ckVars
<1>7. CASE \E s \in Slots : RepairStep(s) \/ CloserStep(s) \/ Environment(s)
  <2>1. UNCHANGED <<ckVars, now, failCount, nextRetry>>
    BY <1>7 DEF RepairStep, RepairTeardown, RepairDialed, RepairDialFailed, RepairRequeue,
       RepairDrop, CloserStep, CloserLock, CloserAbandon, CloserDisconnected, Environment,
       LinkDrops, LinkStalls, LinkRecovers, LinkChanges, timeVars, dwellVars
  <2>. QED
    BY <1>1, <2>1 DEF Backoffs, ckVars
<1>8. CASE CloseStep \/ Tick \/ UNCHANGED vars
  <2>1. UNCHANGED <<ckVars, failCount, nextRetry>> /\ now' >= now
    BY <1>1, <1>8 DEF CloseStep, Close, CloseReturn, CloseTimeout, Tick, vars, timeVars,
       dwellVars
  <2>. QED
    BY <1>1, <2>1 DEF Backoffs, ckVars
<1>. QED
  BY <1>2, <1>3, <1>4, <1>5, <1>6, <1>7, <1>8 DEF Next, CheckerStep

LEMMA NextWaited ==
    ASSUME Owned, Waited, Next /\ Record
    PROVE  Waited'
<1>0. Typing /\ Backoffs /\ now \in Nat
  BY StepsBackoff, NowAssumption DEF Owned, Typing, TypeOK
<1>. USE <1>0 DEF Typing, TypeOK
<1>1. failedAt' \in [Slots -> Nat]
  BY DEF Waited, Record
<1>2. ASSUME NEW s \in Slots, failCount'[s] > 0
      PROVE  nextRetry'[s] = failedAt'[s] + BackoffFor(failCount'[s])
  <2>1. failedAt'[s] = IF failCount'[s] > failCount[s] THEN now ELSE failedAt[s]
    BY DEF Record
  <2>2. failCount[s] \in Nat
    OBVIOUS
  <2>3. CASE failCount'[s] = failCount[s] /\ nextRetry'[s] = nextRetry[s]
    BY <1>2, <2>1, <2>2, <2>3 DEF Waited
  <2>4. CASE CountsFailure(s)
    BY <2>1, <2>2, <2>4 DEF CountsFailure
  <2>. QED
    BY <1>2, <2>3, <2>4 DEF Backoffs, ClearsBackoff
<1>3. ASSUME ckPc' \in {"disc", "dial"}
      PROVE  now' >= nextRetry'[Head(checked')]
  <2>1. Typing' /\ checked' = checked
    BY <1>3, NextTyping DEF Backoffs
  <2>2. checked # <<>> /\ now' \in Nat
    BY <1>3, <2>1, NowAssumption DEF CkAgrees
  <2>3. Head(checked) \in Slots
    BY <2>2, Receive
  <2>4. now >= nextRetry[Head(checked)]
    BY <1>3 DEF Backoffs, MayRetry, Waited
  <2>5. nextRetry' = nextRetry /\ now' >= now
    BY <1>3 DEF Backoffs
  <2>6. nextRetry[Head(checked)] \in Nat
    BY <2>3
  <2>. QED
    BY <2>1, <2>2, <2>4, <2>5, <2>6
<1>. QED
  BY <1>1, <1>2, <1>3 DEF Waited

LEMMA PastKept ==
    Owned /\ Disposal /\ Dwelt /\ Waited /\ [Next /\ Record]_hvars => (Dwelt /\ Waited)'
<1>1. CASE UNCHANGED hvars
  BY <1>1 DEF hvars, vars, reqVars, ckVars, timeVars, brokVars, dwellVars, Dwelt, Waited, Dialled
<1>. QED
  BY <1>1, NextDwelt, NextWaited

LEMMA HistoryOfPool == HSpec => [](Owned /\ Disposal /\ Dwelt /\ Waited)
<1>1. HInit => Init
  BY DEF HInit
<1>2. [Next /\ Record]_hvars => [Next]_vars
  BY DEF hvars
<1>3. HSpec => Spec
  BY <1>1, <1>2, PTL DEF HSpec, Spec
<1>4. HSpec => [](Owned /\ Disposal)
  BY <1>3, AlwaysOwned, InitDisposal, NextDisposal, PTL DEF Spec
<1>. QED
  BY <1>4, InitPast, PastKept, PTL DEF HSpec

(* "A flapping gateway (handshake then drop) cannot reset the backoff via a *)
(* momentary success", whoever dials, repairs or closes meanwhile: when it  *)
(* clears, the slot's connection is one dialled a dwell window ago.         *)
THEOREM BackoffSurvivesFlapping == HSpec => FlapNeverClears
<1>1. ASSUME Owned, Dwelt, [Next /\ Record]_hvars
      PROVE  [\A s \in Slots : failCount[s] > 0 /\ failCount'[s] = 0
                => dialledAt[s] # 0 /\ now - dialledAt[s] >= DwellWindow]_hvars
  <2>1. SUFFICES ASSUME Next, NEW s \in Slots, failCount[s] > 0, failCount'[s] = 0
                 PROVE  dialledAt[s] # 0 /\ now - dialledAt[s] >= DwellWindow
    BY <1>1
  <2>2. /\ dialledAt[s] \in Nat /\ connectedSince[s] \in Nat /\ now \in Nat
        /\ failCount[s] \in Nat
    BY <1>1, NowAssumption DEF Owned, Typing, TypeOK, Dwelt
  <2>3. ClearsBackoff(s)
    BY <1>1, <2>1, <2>2, StepsBackoff DEF Backoffs, CountsFailure
  <2>. QED
    BY <1>1, <2>2, <2>3 DEF ClearsBackoff, Dwelt, DwellWindow
<1>. QED
  BY <1>1, HistoryOfPool, PTL DEF HSpec, FlapNeverClears

(* A failure that follows another of the same slot comes no sooner than     *)
(* that one's backoff, however the slot changed hands in between.           *)
THEOREM FailuresArePaced == HSpec => FailuresPaced
<1>1. ASSUME Owned, Waited, [Next /\ Record]_hvars
      PROVE  [\A s \in Slots : failCount[s] > 0 /\ failCount'[s] > failCount[s]
                => now >= failedAt[s] + BackoffFor(failCount[s])]_hvars
  <2>1. SUFFICES ASSUME Next, NEW s \in Slots, failCount[s] > 0, failCount'[s] > failCount[s]
                 PROVE  now >= failedAt[s] + BackoffFor(failCount[s])
    BY <1>1
  <2>2. failCount[s] \in Nat
    BY <1>1 DEF Owned, Typing, TypeOK
  <2>3. CountsFailure(s)
    BY <1>1, <2>1, <2>2, StepsBackoff DEF Backoffs, ClearsBackoff
  <2>. QED
    BY <1>1, <2>1, <2>3 DEF CountsFailure, Waited
<1>. QED
  BY <1>1, HistoryOfPool, PTL DEF HSpec, FailuresPaced
=============================================================================
