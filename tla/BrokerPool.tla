----------------------------- MODULE BrokerPool -----------------------------
(***************************************************************************)
(* The web UI's pool of broker connections, internal/webui/broker_pool.go. *)
(*                                                                         *)
(* A pool has a fixed set of slots (one IBKR ClientID each).  The buffered *)
(* channel avail is both the queue of idle slots and the semaphore.  Four  *)
(* kinds of goroutine move a slot around: the HTTP requests (acquire ...   *)
(* release), the repair goroutine release() spawns for a slot that came    *)
(* back dead, the background health checker, and one closer per slot that  *)
(* close() spawns.  Time is counted in health check intervals (30s); it    *)
(* starts at 1 so that 0 can be Go's zero time.Time.                       *)
(***************************************************************************)
EXTENDS Naturals, Sequences, FiniteSets, Functions

CONSTANTS
    Slots,       \* the pooledConn objects, one per ClientID
    Requests,    \* HTTP handler goroutines that use the pool
    Conns,       \* identities a slot's broker objects may have
    NoSlot,      \* a request that holds no slot
    NoConn,      \* a nil broker.Broker
    MaxBackoff,  \* maxReconnectBackoff, in health check intervals (30)
    MaxNow       \* bound: the clock stops here

ASSUME SlotsAssumption == IsFiniteSet(Slots) /\ NoSlot \notin Slots
(* Every dial makes a new object; a slot has its broker and, while close()  *)
(* disconnects that, a later one.                                           *)
ASSUME ConnsAssumption == NoConn \notin Conns /\ \E c, d \in Conns : c # d
ASSUME BackoffAssumption == MaxBackoff \in Nat /\ MaxBackoff >= 2
ASSUME NowAssumption == MaxNow \in Nat /\ MaxNow >= 1

VARIABLES
    avail,           \* the channel of idle slots, oldest first
    pc,              \* where each request is in acquire ... release
    slotOf,          \* the slot a request has taken from avail
    ctxDone,         \* the request's context is cancelled or timed out
    repairPc,        \* the goroutine release() spawned for a slot
    ckPc,            \* the health checker
    ckLeft,          \* receives left in checkIdleConnections' drain loop
    checked,         \* slots the health checker drained and has not returned
    tick,            \* a tick waits in the checker's time.Ticker channel
    now,             \* p.now()
    b,               \* pooledConn.b
    link,            \* state of every broker object of a slot
    failCount, nextRetry, connectedSince,  \* pooledConn's backoff state
    closing,         \* close(): "open", then p.ctx is cancelled
    closer,          \* close()'s goroutine for a slot
    snap             \* the broker that goroutine took out of the slot

reqVars   == <<pc, slotOf, ctxDone>>
ckVars    == <<ckPc, ckLeft, checked>>
brokVars  == <<b, link>>
timeVars  == <<tick, now>>
dwellVars == <<failCount, nextRetry, connectedSince>>
closeVars == <<closing, closer, snap>>
vars == <<avail, reqVars, repairPc, ckVars, timeVars, brokVars, dwellVars,
          closeVars>>

-----------------------------------------------------------------------------
(* A broker object is gone before it is dialled and after Disconnect().     *)
(* "ibkr" answers a Ping; "stalled" is the TCP zombie: IsConnected() is     *)
(* still true and a Ping times out; "dropped" has seen ConnectionClosed;    *)
(* "fallback" serves yfinance, whose Ping and IsConnected never fail.       *)
LinkStates == {"gone", "ibkr", "stalled", "dropped", "fallback"}

Open == closing = "open"

Link(s) == IF b[s] = NoConn THEN "gone" ELSE link[s][b[s]]

IsConnected(s) == Link(s) \in {"ibkr", "stalled", "fallback"}
IsOnFallback(s) == Link(s) = "fallback"

(* The Ping of isUnhealthy runs under p.ctx: once that is cancelled, IBKR's *)
(* answer may lose the race against it.                                     *)
Unhealthy(s) == \/ Link(s) \in {"gone", "dropped", "stalled"}
                \/ Link(s) = "ibkr" /\ ~Open

(* 2 intervals for the first failure, doubling, capped.  32 intervals are   *)
(* above the cap of the code, so the table needs no further row.            *)
Doubled(f) == CASE f = 1 -> 2 [] f = 2 -> 4 [] f = 3 -> 8 [] f = 4 -> 16
                [] OTHER -> 32
BackoffFor(f) == IF f = 0 THEN 0
                 ELSE IF Doubled(f) >= MaxBackoff THEN MaxBackoff
                 ELSE Doubled(f)

DwellWindow == 2

(* Who holds conn.mu across a whole reconnect().                            *)
Reconnecting(s) ==
    \/ \E r \in Requests : slotOf[r] = s /\ pc[r] \in {"disc", "dial"}
    \/ repairPc[s] \in {"disc", "dial"}
    \/ ckPc \in {"disc", "dial"} /\ Head(checked) = s

-----------------------------------------------------------------------------
Init ==
    /\ avail \in Bijection(1 .. Cardinality(Slots), Slots)
    /\ pc = [r \in Requests |-> "idle"]
    /\ slotOf = [r \in Requests |-> NoSlot]
    /\ ctxDone = [r \in Requests |-> FALSE]
    /\ repairPc = [s \in Slots |-> "none"]
    /\ ckPc = "wait" /\ ckLeft = 0 /\ checked = <<>>
    /\ tick = FALSE /\ now = 1
    /\ b = [s \in Slots |-> NoConn]
    /\ link = [s \in Slots |-> [c \in Conns |-> "gone"]]
    /\ failCount = [s \in Slots |-> 0]
    /\ nextRetry = [s \in Slots |-> 0]
    /\ connectedSince = [s \in Slots |-> 0]
    /\ closing = "open"
    /\ closer = [s \in Slots |-> "none"]
    /\ snap = [s \in Slots |-> NoConn]

-----------------------------------------------------------------------------
(* A send to and a receive from avail.                                      *)
EnqueueLost(s)  == UNCHANGED avail                  \* mutant: not sent
EnqueueNil(s)   == avail' = Append(avail, NoSlot)   \* mutant: sends nil
EnqueueTwice(s) == avail' = avail \o <<s, s>>       \* mutant: sends twice

Enqueue(s) ==
    /\ Len(avail) < Cardinality(Slots)
    /\ avail' = Append(avail, s)

DequeuePeek == UNCHANGED avail   \* mutant: looks without receiving

Dequeue == avail' = Tail(avail)

(* Every select with a p.ctx.Done() arm may take it once p.ctx is cancelled.*)
MayDropAlways == TRUE            \* mutant: drops when the send would block

MayDrop == ~Open

TakeOutKeeps(s) == UNCHANGED b   \* mutant: conn.b is not cleared

TakeOut(s) == b' = [b EXCEPT ![s] = NoConn]

(* Mutant: connectedSince survives a reconnect.                             *)
TeardownKeepsDwell(s) ==
    /\ link' = IF b[s] = NoConn THEN link
               ELSE [link EXCEPT ![s][b[s]] = "gone"]
    /\ TakeOut(s)
    /\ UNCHANGED connectedSince

(* reconnect(), in the two steps that may take long: disconnecting the old  *)
(* broker, and the factory's dial.  The factory returns IBKR or the         *)
(* yfinance fallback; with its context cancelled it returns an error.       *)
Teardown(s) ==
    /\ link' = IF b[s] = NoConn THEN link
               ELSE [link EXCEPT ![s][b[s]] = "gone"]
    /\ TakeOut(s)
    /\ connectedSince' = [connectedSince EXCEPT ![s] = 0]

Install(s, source) ==
    \E c \in Conns :
        /\ link[s][c] = "gone"
        /\ link' = [link EXCEPT ![s][c] = source]
        /\ b' = [b EXCEPT ![s] = c]

Sources == {"ibkr", "fallback"}

(* The dials of the pool's own goroutines run under p.ctx.                  *)
PoolDialDetached(s, source) == Install(s, source)   \* mutant: Background()

PoolDial(s, source) == Open /\ Install(s, source)

-----------------------------------------------------------------------------
(* Requests: acquire, use, release.                                         *)

Arrive(r) ==
    /\ pc[r] = "idle" /\ Open
    /\ pc' = [pc EXCEPT ![r] = "select"]
    /\ ctxDone' = [ctxDone EXCEPT ![r] = FALSE]
    /\ UNCHANGED <<avail, slotOf, repairPc, ckVars, timeVars, brokVars,
                   dwellVars, closeVars>>

(* The client goes away or the request's own timeout fires.                 *)
CtxDone(r) ==
    /\ pc[r] \in {"select", "disc", "dial"} /\ ~ctxDone[r]
    /\ ctxDone' = [ctxDone EXCEPT ![r] = TRUE]
    /\ UNCHANGED <<avail, pc, slotOf, repairPc, ckVars, timeVars, brokVars,
                   dwellVars, closeVars>>

AcquireTake(r) ==
    /\ pc[r] = "select" /\ avail # <<>>
    /\ slotOf' = [slotOf EXCEPT ![r] = Head(avail)]
    /\ Dequeue
    /\ pc' = [pc EXCEPT ![r] = IF IsConnected(Head(avail)) THEN "using"
                                                           ELSE "disc"]
    /\ UNCHANGED <<ctxDone, repairPc, ckVars, timeVars, brokVars, dwellVars,
                   closeVars>>

AcquireGiveUp(r) ==
    /\ pc[r] = "select" /\ ctxDone[r]
    /\ pc' = [pc EXCEPT ![r] = "idle"]
    /\ UNCHANGED <<avail, slotOf, ctxDone, repairPc, ckVars, timeVars,
                   brokVars, dwellVars, closeVars>>

AcquireTeardown(r) ==
    /\ pc[r] = "disc"
    /\ Teardown(slotOf[r])
    /\ pc' = [pc EXCEPT ![r] = "dial"]
    /\ UNCHANGED <<avail, slotOf, ctxDone, repairPc, ckVars, timeVars,
                   failCount, nextRetry, closeVars>>

AcquireDialed(r) ==
    /\ pc[r] = "dial" /\ ~ctxDone[r]
    /\ \E source \in Sources : Install(slotOf[r], source)
    /\ pc' = [pc EXCEPT ![r] = "using"]
    /\ UNCHANGED <<avail, slotOf, ctxDone, repairPc, ckVars, timeVars,
                   dwellVars, closeVars>>

(* The dial failed or ran out of reconnectTimeout: the slot goes back.      *)
AcquireDialFailed(r) ==
    /\ pc[r] = "dial"
    /\ Enqueue(slotOf[r])
    /\ slotOf' = [slotOf EXCEPT ![r] = NoSlot]
    /\ pc' = [pc EXCEPT ![r] = "idle"]
    /\ UNCHANGED <<ctxDone, repairPc, ckVars, timeVars, brokVars, dwellVars,
                   closeVars>>

(* Callers pass healthy = TRUE or an isConnected() they read after an error;*)
(* a dropped connection never comes back, so release's test is IsConnected. *)
ReleaseHealthy(r) ==
    /\ pc[r] = "using" /\ IsConnected(slotOf[r])
    /\ Enqueue(slotOf[r])
    /\ slotOf' = [slotOf EXCEPT ![r] = NoSlot]
    /\ pc' = [pc EXCEPT ![r] = "idle"]
    /\ UNCHANGED <<ctxDone, repairPc, ckVars, timeVars, brokVars, dwellVars,
                   closeVars>>

ReleaseUnhealthy(r) ==
    /\ pc[r] = "using" /\ ~IsConnected(slotOf[r])
    /\ repairPc' = [repairPc EXCEPT ![slotOf[r]] = "disc"]
    /\ slotOf' = [slotOf EXCEPT ![r] = NoSlot]
    /\ pc' = [pc EXCEPT ![r] = "idle"]
    /\ UNCHANGED <<avail, ctxDone, ckVars, timeVars, brokVars, dwellVars,
                   closeVars>>

-----------------------------------------------------------------------------
(* release()'s asynchronous repair, under p.ctx.                            *)

RepairTeardown(s) ==
    /\ repairPc[s] = "disc"
    /\ Teardown(s)
    /\ repairPc' = [repairPc EXCEPT ![s] = "dial"]
    /\ UNCHANGED <<avail, reqVars, ckVars, timeVars, failCount, nextRetry,
                   closeVars>>

RepairDialed(s) ==
    /\ repairPc[s] = "dial"
    /\ \E source \in Sources : PoolDial(s, source)
    /\ repairPc' = [repairPc EXCEPT ![s] = "requeue"]
    /\ UNCHANGED <<avail, reqVars, ckVars, timeVars, dwellVars, closeVars>>

RepairDialFailed(s) ==
    /\ repairPc[s] = "dial"
    /\ repairPc' = [repairPc EXCEPT ![s] = "requeue"]
    /\ UNCHANGED <<avail, reqVars, ckVars, timeVars, brokVars, dwellVars,
                   closeVars>>

RepairRequeue(s) ==
    /\ repairPc[s] = "requeue"
    /\ Enqueue(s)
    /\ repairPc' = [repairPc EXCEPT ![s] = "none"]
    /\ UNCHANGED <<reqVars, ckVars, timeVars, brokVars, dwellVars, closeVars>>

(* The select's other arm: p.ctx is cancelled and the slot is dropped.      *)
RepairDrop(s) ==
    /\ repairPc[s] = "requeue" /\ MayDrop
    /\ repairPc' = [repairPc EXCEPT ![s] = "none"]
    /\ UNCHANGED <<avail, reqVars, ckVars, timeVars, brokVars, dwellVars,
                   closeVars>>

-----------------------------------------------------------------------------
(* The health checker.                                                      *)

(* select may pick the tick although p.ctx is done.                         *)
CkStart ==
    /\ ckPc = "wait" /\ tick
    /\ tick' = FALSE
    /\ ckLeft' = Len(avail)
    /\ ckPc' = IF avail = <<>> THEN "wait" ELSE "drain"
    /\ UNCHANGED <<avail, reqVars, repairPc, checked, now, brokVars,
                   dwellVars, closeVars>>

(* One non-blocking receive; requests may have emptied avail meanwhile.     *)
CkDrain ==
    /\ ckPc = "drain"
    /\ ckLeft' = ckLeft - 1
    /\ checked' = IF avail = <<>> THEN checked
                                  ELSE Append(checked, Head(avail))
    /\ IF avail = <<>> THEN UNCHANGED avail ELSE Dequeue
    /\ ckPc' = IF ckLeft > 1 THEN "drain"
               ELSE IF checked' = <<>> THEN "wait" ELSE "probe"
    /\ UNCHANGED <<reqVars, repairPc, timeVars, brokVars, dwellVars,
                   closeVars>>

MayRetry(s) == now >= nextRetry[s]

(* An unhealthy slot is reconnected once its backoff has run out; nothing   *)
(* else about it changes.                                                   *)
CkProbeUnhealthy ==
    /\ ckPc = "probe" /\ Unhealthy(Head(checked))
    /\ ckPc' = IF MayRetry(Head(checked)) THEN "disc" ELSE "requeue"
    /\ UNCHANGED <<avail, reqVars, repairPc, ckLeft, checked, timeVars,
                   brokVars, dwellVars, closeVars>>

ClearBackoffIfStable(s) ==
    LET live   == Link(s) # "gone" /\ ~IsOnFallback(s)
        since  == connectedSince[s]
        stable == live /\ since # 0 /\ now - since >= DwellWindow
    IN /\ connectedSince' = [connectedSince EXCEPT ![s] =
                               IF ~live THEN 0 ELSE IF since = 0 THEN now
                                                    ELSE since]
       /\ failCount' = IF stable THEN [failCount EXCEPT ![s] = 0]
                                 ELSE failCount
       /\ nextRetry' = IF stable THEN [nextRetry EXCEPT ![s] = 0]
                                 ELSE nextRetry

CkProbeHealthy ==
    /\ ckPc = "probe" /\ Link(Head(checked)) \in {"ibkr", "fallback"}
    /\ ClearBackoffIfStable(Head(checked))
    /\ ckPc' = IF IsOnFallback(Head(checked)) /\ MayRetry(Head(checked))
               THEN "disc" ELSE "requeue"
    /\ UNCHANGED <<avail, reqVars, repairPc, ckLeft, checked, timeVars,
                   brokVars, closeVars>>

CkTeardown ==
    /\ ckPc = "disc"
    /\ Teardown(Head(checked))
    /\ ckPc' = "dial"
    /\ UNCHANGED <<avail, reqVars, repairPc, ckLeft, checked, timeVars,
                   failCount, nextRetry, closeVars>>

(* trackReconnectOutcome, told whether the slot is now live on IBKR.        *)
SucceedClears(s) ==       \* mutant: one successful reconnect clears the backoff
    /\ failCount' = [failCount EXCEPT ![s] = 0]
    /\ nextRetry' = [nextRetry EXCEPT ![s] = 0]

Succeed(s) == UNCHANGED <<failCount, nextRetry>>

FailUncounted(s) ==       \* mutant: the backoff precedes the count
    /\ failCount' = [failCount EXCEPT ![s] = @ + 1]
    /\ nextRetry' = [nextRetry EXCEPT ![s] = now + BackoffFor(failCount[s])]

Fail(s) ==
    /\ failCount' = [failCount EXCEPT ![s] = @ + 1]
    /\ nextRetry' = [nextRetry EXCEPT ![s] = now + BackoffFor(failCount[s] + 1)]

TrackReconnectOutcome(s, live) ==
    /\ connectedSince' = [connectedSince EXCEPT ![s] = IF live THEN now ELSE 0]
    /\ IF live THEN Succeed(s) ELSE Fail(s)

(* The new connection may drop before trackReconnectOutcome looks at it.     *)
CkDialed ==
    /\ ckPc = "dial"
    /\ \E source \in Sources \cup {"dropped"} :
         /\ PoolDial(Head(checked), source)
         /\ TrackReconnectOutcome(Head(checked), source = "ibkr")
    /\ ckPc' = "requeue"
    /\ UNCHANGED <<avail, reqVars, repairPc, ckLeft, checked, timeVars,
                   closeVars>>

CkDialFailed ==
    /\ ckPc = "dial"
    /\ TrackReconnectOutcome(Head(checked), FALSE)
    /\ ckPc' = "requeue"
    /\ UNCHANGED <<avail, reqVars, repairPc, ckLeft, checked, timeVars,
                   brokVars, closeVars>>

CkRequeue ==
    /\ ckPc = "requeue"
    /\ Enqueue(Head(checked))
    /\ checked' = Tail(checked)
    /\ ckPc' = IF Tail(checked) = <<>> THEN "wait" ELSE "probe"
    /\ UNCHANGED <<reqVars, repairPc, ckLeft, timeVars, brokVars, dwellVars,
                   closeVars>>

(* p.ctx is done: return at once, with every slot not yet returned.         *)
CkDrop ==
    /\ ckPc = "requeue" /\ MayDrop
    /\ checked' = <<>>
    /\ ckPc' = "wait"
    /\ UNCHANGED <<avail, reqVars, repairPc, ckLeft, timeVars, brokVars,
                   dwellVars, closeVars>>

CkStop ==
    /\ ckPc = "wait" /\ ~Open
    /\ ckPc' = "stopped"
    /\ UNCHANGED <<avail, reqVars, repairPc, ckLeft, checked, timeVars,
                   brokVars, dwellVars, closeVars>>

-----------------------------------------------------------------------------
(* close(), and the goroutine it starts for every slot.                     *)

Close ==
    /\ closing = "open"
    /\ closing' = "waiting"
    /\ closer' = [s \in Slots |-> "lock"]
    /\ UNCHANGED <<avail, reqVars, repairPc, ckVars, timeVars, brokVars,
                   dwellVars, snap>>

CloserLock(s) ==
    /\ closer[s] = "lock" /\ ~Reconnecting(s)
    /\ snap' = [snap EXCEPT ![s] = b[s]]
    /\ TakeOut(s)
    /\ closer' = [closer EXCEPT ![s] = IF b[s] = NoConn THEN "done" ELSE "disc"]
    /\ UNCHANGED <<avail, reqVars, repairPc, ckVars, timeVars, link,
                   dwellVars, closing>>

(* disconnectTimeout: the slot counts as done, its Disconnect() runs on.    *)
CloserAbandon(s) ==
    /\ closer[s] = "disc"
    /\ closer' = [closer EXCEPT ![s] = "abandoned"]
    /\ UNCHANGED <<avail, reqVars, repairPc, ckVars, timeVars, brokVars,
                   dwellVars, closing, snap>>

CloserDisconnected(s) ==
    /\ closer[s] \in {"disc", "abandoned"}
    /\ link' = [link EXCEPT ![s][snap[s]] = "gone"]
    /\ snap' = [snap EXCEPT ![s] = NoConn]
    /\ closer' = [closer EXCEPT ![s] = "done"]
    /\ UNCHANGED <<avail, reqVars, repairPc, ckVars, timeVars, b, dwellVars,
                   closing>>

(* All closers are done, or closeTimeout fires: close() returns either way. *)
CloseReturn ==
    /\ closing = "waiting"
    /\ \A s \in Slots : closer[s] \in {"abandoned", "done"}
    /\ closing' = "returned"
    /\ UNCHANGED <<avail, reqVars, repairPc, ckVars, timeVars, brokVars,
                   dwellVars, closer, snap>>

CloseTimeout ==
    /\ closing = "waiting"
    /\ closing' = "returned"
    /\ UNCHANGED <<avail, reqVars, repairPc, ckVars, timeVars, brokVars,
                   dwellVars, closer, snap>>

-----------------------------------------------------------------------------
(* The clock and the gateway.                                               *)

Tick ==
    /\ now < MaxNow
    /\ now' = now + 1
    /\ tick' = TRUE
    /\ UNCHANGED <<avail, reqVars, repairPc, ckVars, brokVars, dwellVars,
                   closeVars>>

LinkChanges(s, from, to) ==
    /\ Link(s) = from
    /\ link' = [link EXCEPT ![s][b[s]] = to]
    /\ UNCHANGED <<avail, reqVars, repairPc, ckVars, timeVars, b, dwellVars,
                   closeVars>>

LinkDrops(s) == \E from \in {"ibkr", "stalled"} : LinkChanges(s, from, "dropped")
LinkStalls(s) == LinkChanges(s, "ibkr", "stalled")
LinkRecovers(s) == LinkChanges(s, "stalled", "ibkr")

-----------------------------------------------------------------------------
RequestStep(r) ==
    \/ Arrive(r) \/ CtxDone(r) \/ AcquireTake(r) \/ AcquireGiveUp(r)
    \/ AcquireTeardown(r) \/ AcquireDialed(r) \/ AcquireDialFailed(r)
    \/ ReleaseHealthy(r) \/ ReleaseUnhealthy(r)

RepairStep(s) ==
    \/ RepairTeardown(s) \/ RepairDialed(s) \/ RepairDialFailed(s)
    \/ RepairRequeue(s) \/ RepairDrop(s)

CheckerStep ==
    \/ CkStart \/ CkDrain \/ CkProbeUnhealthy \/ CkProbeHealthy
    \/ CkTeardown \/ CkDialed \/ CkDialFailed
    \/ CkRequeue \/ CkDrop \/ CkStop

CloserStep(s) == CloserLock(s) \/ CloserAbandon(s) \/ CloserDisconnected(s)

CloseStep == Close \/ CloseReturn \/ CloseTimeout

Environment(s) == LinkDrops(s) \/ LinkStalls(s) \/ LinkRecovers(s)

Next ==
    \/ \E r \in Requests : RequestStep(r)
    \/ \E s \in Slots : RepairStep(s) \/ CloserStep(s) \/ Environment(s)
    \/ CheckerStep
    \/ CloseStep
    \/ Tick

Spec == Init /\ [][Next]_vars

(* Every goroutine that can move does.  Dials are bounded by                *)
(* reconnectTimeout, handlers by their own timeouts, Disconnect() by        *)
(* nothing (the comment on disconnectTimeout): Fairness leaves it out, and   *)
(* the properties that need it name DisconnectReturns.                      *)
(* A Go channel serves its blocked receivers first come first served, hence *)
(* strong fairness for AcquireTake.                                         *)
Fairness ==
    /\ \A r \in Requests :
         /\ SF_vars(AcquireTake(r))
         /\ WF_vars(AcquireGiveUp(r))
         /\ WF_vars(AcquireDialed(r) \/ AcquireDialFailed(r))
         /\ WF_vars(ReleaseHealthy(r) \/ ReleaseUnhealthy(r))
    /\ \A s \in Slots :
         /\ WF_vars(RepairDialed(s) \/ RepairDialFailed(s))
         /\ WF_vars(RepairRequeue(s) \/ RepairDrop(s))
         /\ WF_vars(CloserLock(s)) /\ WF_vars(CloserAbandon(s))
    /\ WF_vars(CheckerStep /\ ~CkTeardown)
    /\ WF_vars(CloseReturn) /\ WF_vars(CloseTimeout)

DisconnectReturns ==
    /\ \A r \in Requests : WF_vars(AcquireTeardown(r))
    /\ \A s \in Slots : WF_vars(RepairTeardown(s)) /\ WF_vars(CloserDisconnected(s))
    /\ WF_vars(CkTeardown)

FairSpec == Spec /\ Fairness

-----------------------------------------------------------------------------
(* Type invariant.                                                          *)
TypeOK ==
    /\ avail \in Seq(Slots)
    /\ pc \in [Requests -> {"idle", "select", "disc", "dial", "using"}]
    /\ slotOf \in [Requests -> Slots \cup {NoSlot}]
    /\ ctxDone \in [Requests -> BOOLEAN]
    /\ repairPc \in [Slots -> {"none", "disc", "dial", "requeue"}]
    /\ ckPc \in {"wait", "drain", "probe", "disc", "dial", "requeue", "stopped"}
    /\ ckLeft \in Nat
    /\ checked \in Seq(Slots)
    /\ tick \in BOOLEAN
    /\ now \in 1 .. MaxNow
    /\ b \in [Slots -> Conns \cup {NoConn}]
    /\ link \in [Slots -> [Conns -> LinkStates]]
    /\ failCount \in [Slots -> Nat]
    /\ nextRetry \in [Slots -> Nat]
    /\ connectedSince \in [Slots -> Nat]
    /\ closing \in {"open", "waiting", "returned"}
    /\ closer \in [Slots -> {"none", "lock", "disc", "abandoned", "done"}]
    /\ snap \in [Slots -> Conns \cup {NoConn}]

HeldByRequest(s) == \E r \in Requests : slotOf[r] = s
HeldByChecker(s) == s \in Range(checked)
UnderRepair(s) == repairPc[s] # "none"
Idle(s) == s \in Range(avail)

(* The ownership discipline every unlocked field of pooledConn relies on:   *)
(* a slot is never in two places (twice in avail, in avail and in a         *)
(* handler, with two handlers, under repair and drained by the checker ...).*)
ExclusiveSlots ==
    /\ IsInjective(avail) /\ IsInjective(checked)
    /\ \A q, r \in Requests : slotOf[q] = slotOf[r] /\ q # r => slotOf[q] = NoSlot
    /\ \A s \in Slots :
         /\ ~(Idle(s) /\ HeldByRequest(s)) /\ ~(Idle(s) /\ HeldByChecker(s))
         /\ ~(Idle(s) /\ UnderRepair(s)) /\ ~(HeldByRequest(s) /\ HeldByChecker(s))
         /\ ~(HeldByRequest(s) /\ UnderRepair(s))
         /\ ~(HeldByChecker(s) /\ UnderRepair(s))

(* "so the pool stays at full capacity" (acquire's and release's error      *)
(* paths): until close(), no slot is ever lost.                             *)
CapacityKept ==
    Open => \A s \in Slots : Idle(s) \/ HeldByRequest(s) \/ HeldByChecker(s)
                             \/ UnderRepair(s)

(* While the pool is open every slot is in one place, and never in two.     *)
SlotsAccountedFor == ExclusiveSlots /\ CapacityKept

(* Every broker object that was dialled and not disconnected has exactly    *)
(* one party that will disconnect it, its slot or that slot's closer: no    *)
(* Disconnect() is called twice on one object (close()'s doc comment), and  *)
(* no TWS connection is left without an owner.                              *)
OneDisposer ==
    \A s \in Slots :
        /\ \A c \in Conns : link[s][c] # "gone" <=> c \in {b[s], snap[s]}
        /\ b[s] = snap[s] => b[s] = NoConn

(* While the pool is open, nobody replaces the broker under a handler that  *)
(* has taken the slot and uses conn.b without a lock.                       *)
UsedBrokerIntact ==
    [][\A r \in Requests : pc[r] = "using" /\ pc'[r] = "using" /\ Open'
            => b'[slotOf[r]] = b[slotOf[r]]]_vars

(* A caller blocked in acquire gets a slot, an error or the shutdown, as    *)
(* long as Disconnect() returns.                                            *)
AcquireAnswered ==
    DisconnectReturns =>
        \A r \in Requests : pc[r] = "select" ~> pc[r] # "select" \/ ~Open

(* A slot the pool took in for repair or for a health check comes back.     *)
ComesBack(s) ==
    UnderRepair(s) \/ HeldByChecker(s) ~> Idle(s) \/ HeldByRequest(s) \/ ~Open

(* ... as long as Disconnect() returns.                                     *)
SlotsComeBack == DisconnectReturns => \A s \in Slots : ComesBack(s)

(* "Always re-queue (even on failure) so the pool stays at full capacity"   *)
(* (release's comment), whatever Disconnect() does.                         *)
SlotsAlwaysComeBack == \A s \in Slots : ComesBack(s)

(* close() returns, whatever Disconnect() or a lock holder does.            *)
CloseReturns == closing = "waiting" ~> closing = "returned"
=============================================================================
