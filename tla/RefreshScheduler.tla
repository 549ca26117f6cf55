-------------------------- MODULE RefreshScheduler --------------------------
(***************************************************************************)
(* The background refresh of the watchlist, internal/scheduler, with the   *)
(* tables it shares with the web UI and the CLI (internal/datastore).      *)
(*                                                                         *)
(* Once a minute the generator queries the symbols that are due, groups    *)
(* them by refresh interval and sends a batch of each group to a bounded   *)
(* queue.  Workers take tasks, record a job, fetch and save, and arm a     *)
(* timer that re-queues a failed task.  Queue, timers and batch times are  *)
(* in memory; watchlist, jobs and caches survive a restart.                *)
(*                                                                         *)
(* Times are ages in minutes, so that time needs no bound: of ages above   *)
(* every interval only their order is kept, which is all the code looks    *)
(* at.  The delay of a retry (1, 5, 15 minutes) is left open: a timer may  *)
(* fire at any time.                                                       *)
(***************************************************************************)
EXTENDS Naturals, FiniteSets, SequencesExt

CONSTANTS
    Symbols,     \* ticker symbols
    Workers,     \* Config.WorkerCount goroutines
    Intervals,   \* refresh_interval_minutes the user may choose
    QueueSize,   \* Config.QueueSize (100)
    BatchSize,   \* symbols of a group in one batch (5)
    JobIds,      \* ids of background_jobs rows that a task may still refer to
    None,        \* Task.RetryOf = 0, and a worker without a task
    MaxTimers,   \* bound: pending retry timers
    MaxCrashes   \* bound: restarts of the server

ASSUME SymbolsAssumption == IsFiniteSet(Symbols) /\ IsFiniteSet(Workers)
ASSUME IntervalsAssumption ==
    Intervals \subseteq Nat \ {0} /\ Intervals # {} /\ IsFiniteSet(Intervals)
ASSUME SizesAssumption == QueueSize \in Nat \ {0} /\ BatchSize \in Nat \ {0}
ASSUME BoundsAssumption == MaxTimers \in Nat /\ MaxCrashes \in Nat
ASSUME NoneAssumption == None \notin JobIds
(* A new job finds an id: ids are unique in the code (AUTOINCREMENT), and   *)
(* here an id is used again once nothing refers to its row.                 *)
ASSUME JobIdsAssumption ==
    Cardinality(JobIds) >= Cardinality(Workers) + QueueSize + MaxTimers

VARIABLES
    row,        \* watchlist row: absent, auto refresh off, or on
    ivl,        \* watchlist.refresh_interval_minutes
    since,      \* age of watchlist.last_refreshed_at
    jobs,       \* background_jobs
    cached,     \* symbols with an analysis_cache row
    removing,   \* symbols whose row is deleted, their derived data not yet
    tick,       \* a tick waits in s.ticker.C
    groups,     \* generateBatch: groups still to look at, oldest symbol first
    sending,    \* generateBatch: rest of the batch being sent
    batchAge,   \* age of s.lastBatch[interval]
    gen,        \* the generator goroutine
    queue,      \* s.taskQueue
    timers,     \* retries armed by time.AfterFunc
    wk,         \* the workers
    ctx,        \* the server's context
    crashes

tables  == <<row, ivl, since>>
derived == <<cached, removing>>
genVars == <<tick, groups, sending, batchAge, gen>>
vars == <<tables, jobs, derived, genVars, queue, timers, wk, ctx, crashes>>

Cap   == Max(Intervals)
Never == Cap + Cardinality(Symbols) + 1   \* NULL, or Go's zero time

MaxRetries == 3
NoRow == [sym |-> None, status |-> "none", retry |-> 0]
AtRest(pc) == [pc |-> pc, sym |-> None, job |-> None, retry |-> 0]
Task(s, j) == [sym |-> s, retryOf |-> j]

-----------------------------------------------------------------------------
Init ==
    /\ row \in [Symbols -> {"absent", "on"}]
    /\ ivl \in [Symbols -> Intervals]
    /\ since = [s \in Symbols |-> Never]
    /\ jobs = [j \in JobIds |-> NoRow]
    /\ cached = {} /\ removing = {}
    /\ tick = FALSE
    /\ groups = [i \in Intervals |-> <<>>] /\ sending = <<>>
    /\ batchAge = [i \in Intervals |-> Never]
    /\ gen = "running"
    /\ queue = <<>> /\ timers = {}
    /\ wk = [w \in Workers |-> AtRest("idle")]
    /\ ctx = "live" /\ crashes = 0

-----------------------------------------------------------------------------
(* Time and the generator.                                                  *)

Busy == sending # <<>> \/ \E i \in Intervals : groups[i] # <<>>

(* Of what is older than Cap, the n-th youngest has age Cap + n.            *)
Older(s) ==
    LET old == {since[u] : u \in {v \in Symbols : since[v] \in Cap .. (Never - 1)}}
    IN CASE since[s] < Cap   -> since[s] + 1
         [] since[s] = Never -> Never
         [] OTHER            -> Cap + Cardinality({a \in old : a <= since[s]})

(* A pass of generateBatch is over well before the next minute.             *)
Tick ==
    /\ ~tick /\ ~Busy
    /\ tick' = TRUE
    /\ since' = [s \in Symbols |-> Older(s)]
    /\ batchAge' = [i \in Intervals |-> IF batchAge[i] > Cap THEN batchAge[i]
                                      ELSE batchAge[i] + 1]
    /\ UNCHANGED <<row, ivl, jobs, derived, groups, sending, gen, queue, timers,
                   wk, ctx, crashes>>

(* The WHERE clause of GetSymbolsNeedingRefresh.                            *)
Due(s) == row[s] = "on" /\ since[s] >= ivl[s]

(* Its ORDER BY leaves ties open.                                           *)
OldestFirst(order) ==
    \A m, n \in DOMAIN order : m < n => since[order[m]] >= since[order[n]]

(* groupByInterval: a group has its symbols in the order of the query.      *)
Groupings(i) ==
    {order \in SetToSeqs({s \in Symbols : Due(s) /\ ivl[s] = i}) : OldestFirst(order)}

GenQuery ==
    /\ gen = "running" /\ tick /\ ~Busy
    /\ tick' = FALSE
    /\ \E g \in [Intervals -> UNION {Groupings(i) : i \in Intervals}] :
         /\ \A i \in Intervals : g[i] \in Groupings(i)
         /\ groups' = g
    /\ UNCHANGED <<tables, jobs, derived, sending, batchAge, gen, queue, timers,
                   wk, ctx, crashes>>

(* The query fails: no work in this minute.                                 *)
GenQueryFails ==
    /\ gen = "running" /\ tick /\ ~Busy
    /\ tick' = FALSE
    /\ UNCHANGED <<tables, jobs, derived, groups, sending, batchAge, gen, queue,
                   timers, wk, ctx, crashes>>

(* shouldDispatchBatch; count is the number of symbols due now.             *)
BatchesNeeded(count) == (count + BatchSize - 1) \div BatchSize

ShouldDispatchAfter(i, count) ==   \* mutant: elapsed > batchInterval
    batchAge[i] = Never \/ batchAge[i] * BatchesNeeded(count) > i

ShouldDispatch(i, count) ==
    batchAge[i] = Never \/ batchAge[i] * BatchesNeeded(count) >= i

(* Next group, in Go's map order.  lastBatch is read by this goroutine only,*)
(* so that setting it before the sends instead of after makes no difference.*)
GenGroup(i) ==
    /\ sending = <<>> /\ groups[i] # <<>>
    /\ groups' = [groups EXCEPT ![i] = <<>>]
    /\ IF ShouldDispatch(i, Len(groups[i]))
       THEN /\ batchAge' = [batchAge EXCEPT ![i] = 0]
            /\ sending' = SubSeq(groups[i], 1, Min({BatchSize, Len(groups[i])}))
       ELSE UNCHANGED <<batchAge, sending>>
    /\ UNCHANGED <<tables, jobs, derived, tick, gen, queue, timers, wk, ctx,
                   crashes>>

(* UpdateLastRefreshTime; no row, no update.                                *)
MarkRefreshedNot(s) == UNCHANGED since     \* mutant: never marked

MarkRefreshed(s) ==
    IF row[s] = "absent" THEN UNCHANGED since
                         ELSE since' = [since EXCEPT ![s] = 0]

GenSend ==
    /\ sending # <<>> /\ Len(queue) < QueueSize
    /\ queue' = Append(queue, Task(Head(sending), None))
    /\ sending' = Tail(sending)
    /\ MarkRefreshed(Head(sending)) \/ UNCHANGED since    \* or the UPDATE fails
    /\ UNCHANGED <<row, ivl, jobs, derived, tick, groups, batchAge, gen, timers,
                   wk, ctx, crashes>>

(* "Task queue full, dropping task".                                        *)
GenDrop ==
    /\ sending # <<>> /\ Len(queue) = QueueSize
    /\ sending' = Tail(sending)
    /\ UNCHANGED <<tables, jobs, derived, tick, groups, batchAge, gen, queue,
                   timers, wk, ctx, crashes>>

GenStop ==
    /\ gen = "running" /\ ~Busy /\ ctx = "cancelled"
    /\ gen' = "stopped"
    /\ UNCHANGED <<tables, jobs, derived, tick, groups, sending, batchAge, queue,
                   timers, wk, ctx, crashes>>

-----------------------------------------------------------------------------
(* The workers.                                                             *)

Queued == {queue[n] : n \in DOMAIN queue}

Referenced(q) ==
    {wk[w].job : w \in Workers} \cup {q[n].retryOf : n \in DOMAIN q}
        \cup {t.retryOf : t \in timers}

(* The retry count of a new job: a row that was deleted, or that cannot be  *)
(* read (the error is ignored), counts for none.                            *)
RetryCounts(task) ==
    {0} \cup {jobs[j].retry + 1 :
                j \in {k \in {task.retryOf} \ {None} : jobs[k].status # "none"}}

(* select may take a task although ctx is done.  Rows that nothing refers   *)
(* to any more are forgotten here: no step reads them.                      *)
Start(w) ==
    /\ wk[w].pc = "idle" /\ queue # <<>>
    /\ queue' = Tail(queue)
    /\ LET task == Head(queue) IN
       \E j \in JobIds \ Referenced(Tail(queue)), count \in RetryCounts(task) :
         /\ jobs' = [k \in JobIds |->
                       IF k = j THEN [sym |-> task.sym, status |-> "running",
                                      retry |-> count]
                       ELSE IF k \in Referenced(Tail(queue)) THEN jobs[k]
                       ELSE NoRow]
         /\ wk' = [wk EXCEPT ![w] = [pc |-> "fetch", sym |-> task.sym, job |-> j,
                                     retry |-> count]]
    /\ UNCHANGED <<tables, derived, genVars, timers, ctx, crashes>>

(* CreateBackgroundJob fails: the task is gone.                             *)
StartFails(w) ==
    /\ wk[w].pc = "idle" /\ queue # <<>>
    /\ queue' = Tail(queue)
    /\ wk' = [wk EXCEPT ![w] = AtRest("throttle")]
    /\ UNCHANGED <<tables, jobs, derived, genVars, timers, ctx, crashes>>

GoTo(w, pc) == wk' = [wk EXCEPT ![w].pc = pc]

(* Both saves run under ctx.                                                *)
SaveCache(w) ==
    /\ wk[w].pc = "fetch" /\ ctx = "live"
    /\ cached' = cached \cup {wk[w].sym}
    /\ GoTo(w, "snapshot")
    /\ UNCHANGED <<tables, jobs, removing, genVars, queue, timers, ctx, crashes>>

SaveSnapshot(w) ==
    /\ wk[w].pc = "snapshot" /\ ctx = "live"
    /\ GoTo(w, "succeeded")
    /\ UNCHANGED <<tables, jobs, derived, genVars, queue, timers, ctx, crashes>>

(* The broker, the engine or one of the two saves fails.                    *)
FetchFails(w) ==
    /\ wk[w].pc \in {"fetch", "snapshot"}
    /\ GoTo(w, "failed")
    /\ UNCHANGED <<tables, jobs, derived, genVars, queue, timers, ctx, crashes>>

(* UpdateBackgroundJob; no row, no update.                                  *)
UpdateJob(w, status) ==
    jobs' = [jobs EXCEPT ![wk[w].job].status =
                IF @ = "none" THEN @ ELSE status]

HandleSuccess(w) ==
    /\ wk[w].pc = "succeeded"
    /\ UpdateJob(w, "success")
    /\ wk' = [wk EXCEPT ![w] = AtRest("throttle")]
    /\ UNCHANGED <<tables, derived, genVars, queue, timers, ctx, crashes>>

ArmRetryAlways(w) ==      \* mutant: RetryCount <= 3
    timers' = IF wk[w].retry <= MaxRetries
              THEN timers \cup {Task(wk[w].sym, wk[w].job)} ELSE timers

ArmRetry(w) ==
    timers' = IF wk[w].retry < MaxRetries
              THEN timers \cup {Task(wk[w].sym, wk[w].job)} ELSE timers

HandleFailure(w) ==
    /\ wk[w].pc = "failed" /\ Cardinality(timers) < MaxTimers
    /\ UpdateJob(w, "failed")
    /\ ArmRetry(w)
    /\ wk' = [wk EXCEPT ![w] = AtRest("throttle")]
    /\ UNCHANGED <<tables, derived, genVars, queue, ctx, crashes>>

(* UpdateBackgroundJob fails: the row stays, and there is no retry.         *)
UpdateFails(w) ==
    /\ wk[w].pc \in {"succeeded", "failed"}
    /\ wk' = [wk EXCEPT ![w] = AtRest("throttle")]
    /\ UNCHANGED <<tables, jobs, derived, genVars, queue, timers, ctx, crashes>>

(* waitOrCancel.                                                            *)
AfterThrottleSleeps == {"idle"}     \* mutant: time.Sleep(throttle)

AfterThrottle == IF ctx = "cancelled" THEN {"stopped"} ELSE {"idle"}

Throttled(w) ==
    /\ wk[w].pc = "throttle"
    /\ \E pc \in AfterThrottle : GoTo(w, pc)
    /\ UNCHANGED <<tables, jobs, derived, genVars, queue, timers, ctx, crashes>>

WorkerStopLate(w) ==       \* mutant: looks at ctx after a task only
    /\ wk[w].pc = "throttle" /\ ctx = "cancelled"
    /\ GoTo(w, "stopped")
    /\ UNCHANGED <<tables, jobs, derived, genVars, queue, timers, ctx, crashes>>

WorkerStop(w) ==
    /\ wk[w].pc = "idle" /\ ctx = "cancelled"
    /\ GoTo(w, "stopped")
    /\ UNCHANGED <<tables, jobs, derived, genVars, queue, timers, ctx, crashes>>

SpendNot(t) == UNCHANGED timers     \* mutant: a Ticker instead of AfterFunc

Spend(t) == timers' = timers \ {t}

(* The AfterFunc of a retry; nothing stops it at shutdown.                  *)
FireRetry(t) ==
    /\ t \in timers /\ Len(queue) < QueueSize
    /\ queue' = Append(queue, t)
    /\ Spend(t)
    /\ UNCHANGED <<tables, jobs, derived, genVars, wk, ctx, crashes>>

(* "Retry queue full, dropping retry".                                      *)
DropRetry(t) ==
    /\ t \in timers /\ Len(queue) = QueueSize
    /\ Spend(t)
    /\ UNCHANGED <<tables, jobs, derived, genVars, queue, wk, ctx, crashes>>

-----------------------------------------------------------------------------
(* The user, through the web UI or the CLI.                                 *)

(* AddToWatchlist inserts or ignores; a new row has auto refresh off.       *)
AddSymbol(s) ==
    /\ row[s] = "absent"
    /\ row' = [row EXCEPT ![s] = "off"]
    /\ since' = [since EXCEPT ![s] = Never]
    /\ UNCHANGED <<ivl, jobs, derived, genVars, queue, timers, wk, ctx, crashes>>

Configure(s, setting, i) ==
    /\ row[s] # "absent"
    /\ row' = [row EXCEPT ![s] = setting]
    /\ ivl' = [ivl EXCEPT ![s] = i]
    /\ UNCHANGED <<since, jobs, derived, genVars, queue, timers, wk, ctx, crashes>>

(* Remove deletes the watchlist row, then the derived data; no step reads   *)
(* two of those tables together, so that one step deletes them all.         *)
RemoveSymbol(s) ==
    /\ row' = [row EXCEPT ![s] = "absent"]
    /\ removing' = removing \cup {s}
    /\ UNCHANGED <<ivl, since, jobs, cached, genVars, queue, timers, wk, ctx,
                   crashes>>

CleanUp(s) ==
    /\ s \in removing
    /\ removing' = removing \ {s}
    /\ cached' = cached \ {s}
    /\ jobs' = [j \in JobIds |-> IF jobs[j].sym = s THEN NoRow ELSE jobs[j]]
    /\ UNCHANGED <<tables, genVars, queue, timers, wk, ctx, crashes>>

-----------------------------------------------------------------------------
Cancel ==
    /\ ctx = "live"
    /\ ctx' = "cancelled"
    /\ UNCHANGED <<tables, jobs, derived, genVars, queue, timers, wk, crashes>>

(* The process dies and is started again; what is in memory is lost.        *)
Restart ==
    /\ crashes < MaxCrashes
    /\ crashes' = crashes + 1
    /\ tick' = FALSE
    /\ groups' = [i \in Intervals |-> <<>>] /\ sending' = <<>>
    /\ batchAge' = [i \in Intervals |-> Never]
    /\ gen' = "running"
    /\ queue' = <<>> /\ timers' = {}
    /\ wk' = [w \in Workers |-> AtRest("idle")]
    /\ ctx' = "live"
    /\ UNCHANGED <<tables, jobs, derived>>

-----------------------------------------------------------------------------
GeneratorStep ==
    \/ GenQuery \/ GenQueryFails \/ (\E i \in Intervals : GenGroup(i))
    \/ GenSend \/ GenDrop \/ GenStop

WorkerStep(w) ==
    \/ Start(w) \/ StartFails(w) \/ SaveCache(w) \/ SaveSnapshot(w)
    \/ FetchFails(w) \/ HandleSuccess(w) \/ HandleFailure(w)
    \/ UpdateFails(w) \/ Throttled(w) \/ WorkerStop(w)

TimerStep == \E t \in timers : FireRetry(t) \/ DropRetry(t)

UserStep(s) ==
    \/ AddSymbol(s) \/ RemoveSymbol(s) \/ CleanUp(s)
    \/ \E setting \in {"on", "off"}, i \in Intervals : Configure(s, setting, i)

Next ==
    \/ Tick \/ GeneratorStep \/ TimerStep
    \/ \E w \in Workers : WorkerStep(w)
    \/ \E s \in Symbols : UserStep(s)
    \/ Cancel \/ Restart

Spec == Init /\ [][Next]_vars

(* Every goroutine keeps going, a task comes to an end (the broker and the  *)
(* engine have timeouts), and the database does not fail for ever.          *)
Fairness ==
    /\ WF_vars(Tick) /\ WF_vars(GeneratorStep) /\ SF_vars(GenQuery)
    /\ \A s \in Symbols : SF_vars(GenSend /\ Head(sending) = s /\ MarkRefreshed(s))
    /\ WF_vars(TimerStep)
    /\ \A w \in Workers : WF_vars(WorkerStep(w))
    /\ \A w \in Workers, s \in Symbols : SF_vars(Start(w) /\ Head(queue).sym = s)

FairSpec == Spec /\ Fairness

-----------------------------------------------------------------------------
(* Type invariant.                                                          *)
TypeOK ==
    /\ row \in [Symbols -> {"absent", "off", "on"}]
    /\ ivl \in [Symbols -> Intervals] /\ since \in [Symbols -> 0 .. Never]
    /\ jobs \in [JobIds -> [sym : Symbols \cup {None}, retry : 0 .. MaxRetries,
                            status : {"none", "running", "success", "failed"}]]
    /\ cached \subseteq Symbols /\ removing \subseteq Symbols
    /\ tick \in BOOLEAN /\ batchAge \in [Intervals -> 0 .. Never]
    /\ groups \in [Intervals -> Seq(Symbols)] /\ sending \in Seq(Symbols)
    /\ gen \in {"running", "stopped"} /\ ctx \in {"live", "cancelled"}
    /\ queue \in Seq([sym : Symbols, retryOf : JobIds \cup {None}])
    /\ timers \subseteq [sym : Symbols, retryOf : JobIds]
    /\ wk \in [Workers -> [sym : Symbols \cup {None}, job : JobIds \cup {None},
                           retry : 0 .. MaxRetries,
                           pc : {"idle", "fetch", "snapshot", "succeeded",
                                 "failed", "throttle", "stopped"}]]
    /\ crashes \in 0 .. MaxCrashes

PendingRetries == timers \cup {t \in Queued : t.retryOf # None}

(* A retry that waits in a timer or in the queue is for a job that failed,  *)
(* that no worker runs any more and that has retries left (or that job's    *)
(* row was deleted under it); and it is one: never both armed and queued,   *)
(* nor queued twice, so that failures do not multiply the load on IBKR.     *)
RetriesAreOfFailures ==
    /\ \A t \in PendingRetries :
          /\ \A w \in Workers : wk[w].job # t.retryOf
          /\ \/ jobs[t.retryOf].status = "none"
             \/ /\ jobs[t.retryOf].status = "failed"
                /\ jobs[t.retryOf].sym = t.sym
                /\ jobs[t.retryOf].retry < MaxRetries
    /\ \A m, n \in DOMAIN queue :
          m # n /\ queue[m].retryOf # None => queue[m].retryOf # queue[n].retryOf
    /\ \A t \in timers, u \in PendingRetries : t.retryOf = u.retryOf => t = u
    /\ Queued \cap timers = {}

(* handleWatchlistRemove deletes the derived data "so the removed symbol no *)
(* longer appears in the dashboard or analyze page": once that is done,     *)
(* nothing brings it back.                                                  *)
RemovedStaysGone ==
    \A s \in cached : row[s] # "absent" \/ s \in removing

(* A symbol with auto refresh on is refreshed again and again, however many *)
(* others compete for its batches, unless the user keeps editing the        *)
(* watchlist or the symbol's own tasks keep meeting a full queue.           *)
EnabledIsServed ==
    \A s \in Symbols :
        \/ []<>(\/ \E w \in Workers : wk[w].sym = s
                \/ row[s] # "on" \/ ctx = "cancelled")
        \/ []<><<\E u \in Symbols : UserStep(u)>>_vars
        \/ []<><<GenDrop /\ Head(sending) = s>>_vars

(* Graceful shutdown: the workers stop (#32), whatever is still queued.     *)
WorkersStop ==
    ctx = "cancelled" ~> ctx = "live" \/ \A w \in Workers : wk[w].pc = "stopped"
=============================================================================
