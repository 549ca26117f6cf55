----------------------- MODULE RefreshSchedulerProofs -----------------------
(***************************************************************************)
(* That retries are of failed jobs, and one for each, and that the whole   *)
(* implements JobAttempts: for any symbols, workers, queue, timers,        *)
(* restarts and edits of the watchlist.                                    *)
(*                                                                         *)
(* RetriesAreOfFailures says nothing of the job a worker runs, which is    *)
(* what the next retry will be of.  RunsItsOwn adds it: the job is nobody  *)
(* else's, and its row, unless deleted, has the symbol and the retry count *)
(* the worker remembers.  That a new job never gets the ID of a row which  *)
(* a waiting retry names is the AUTOINCREMENT of background_jobs.          *)
(***************************************************************************)
EXTENDS RefreshSchedulerAttempts, SequenceTheorems, SumTheorems

Running == {"fetch", "snapshot", "succeeded", "failed"}

(* Of the types only what the argument needs.                               *)
Shapes ==
    /\ queue \in Seq(Queued)
    /\ \A t \in PendingRetries : t.retryOf \in JobIds
    /\ wk = [w \in Workers |-> [pc |-> wk[w].pc, sym |-> wk[w].sym,
                                job |-> wk[w].job, retry |-> wk[w].retry]]
    /\ jobs = [j \in JobIds |-> [sym |-> jobs[j].sym, status |-> jobs[j].status,
                                 retry |-> jobs[j].retry]]

RunsItsOwn ==
    \A w \in Workers :
        /\ IF wk[w].pc \in Running THEN wk[w].job \in JobIds ELSE wk[w].job = None
        /\ \A v \in Workers : wk[v].job = wk[w].job /\ v # w => wk[w].job = None
        /\ wk[w].pc \in Running =>
             \/ jobs[wk[w].job].status = "none"
             \/ /\ jobs[wk[w].job].sym = wk[w].sym
                /\ jobs[wk[w].job].retry = wk[w].retry

Kept == Shapes /\ RunsItsOwn /\ RetriesAreOfFailures

-----------------------------------------------------------------------------
(* A sequence is of what its elements are.                                  *)
LEMMA Retyped ==
    ASSUME NEW S, NEW T, NEW q \in Seq(S), \A n \in 1 .. Len(q) : q[n] \in T
    PROVE  q \in Seq(T)
<1>1. Len(q) \in Nat /\ q \in [1 .. Len(q) -> S]
  BY LenProperties
<1>2. q \in [1 .. Len(q) -> T]
  BY <1>1
<1> QED
  BY <1>1, <1>2, SeqDef

(* A task sent to the queue, and one received from it.                      *)
LEMMA Sent ==
    ASSUME queue \in Seq(Queued), NEW t, queue' = Append(queue, t)
    PROVE  /\ queue' \in Seq(Queued') /\ Queued' = Queued \cup {t}
           /\ Len(queue) \in Nat /\ DOMAIN queue = 1 .. Len(queue)
           /\ DOMAIN queue' = 1 .. (Len(queue) + 1)
           /\ queue'[Len(queue) + 1] = t
           /\ \A n \in DOMAIN queue : queue'[n] = queue[n]
<1>1. queue \in Seq(Queued \cup {t})
  OBVIOUS
<1>2. /\ Len(queue) \in Nat /\ DOMAIN queue = 1 .. Len(queue)
      /\ DOMAIN queue' = 1 .. (Len(queue) + 1)
      /\ queue'[Len(queue) + 1] = t
      /\ \A n \in DOMAIN queue : queue'[n] = queue[n]
      /\ Len(queue') = Len(queue) + 1
  BY <1>1
<1>3. Queued' = Queued \cup {t}
  BY <1>2 DEF Queued
<1>4. queue' \in Seq(Queued')
  BY <1>1, <1>3
<1> QED
  BY <1>2, <1>3, <1>4

(* What a receive leaves: the tail, without the task at its head.          *)
LEMMA Received ==
    ASSUME queue \in Seq(Queued), queue # <<>>, queue' = Tail(queue)
    PROVE  /\ queue' \in Seq(Queued') /\ Queued = Queued' \cup {Head(queue)}
           /\ Len(queue) \in Nat /\ DOMAIN queue = 1 .. Len(queue)
           /\ DOMAIN queue' = 1 .. (Len(queue) - 1) /\ Head(queue) = queue[1]
           /\ \A n \in DOMAIN queue' : n + 1 \in DOMAIN queue /\ queue'[n] = queue[n + 1]
<1>1. /\ Len(queue) \in Nat /\ Len(queue) >= 1 /\ DOMAIN queue = 1 .. Len(queue)
      /\ DOMAIN queue' = 1 .. (Len(queue) - 1) /\ Head(queue) = queue[1]
      /\ Len(queue') = Len(queue) - 1
      /\ \A n \in DOMAIN queue' : n + 1 \in DOMAIN queue /\ queue'[n] = queue[n + 1]
  OBVIOUS
<1>2. Queued = Queued' \cup {Head(queue)}
  <2>1. ASSUME NEW n \in DOMAIN queue PROVE queue[n] \in Queued' \cup {Head(queue)}
    <3>1. CASE n = 1
      BY <1>1, <3>1
    <3>2. CASE n # 1
      <4>1. n - 1 \in DOMAIN queue' /\ queue'[n - 1] = queue[n]
        BY <1>1, <3>2
      <4> QED BY <4>1 DEF Queued
    <3> QED BY <3>1, <3>2
  <2>2. Queued' \subseteq Queued /\ Head(queue) \in Queued
    BY <1>1 DEF Queued
  <2> QED BY <2>1, <2>2 DEF Queued
<1>3. queue' \in Seq(Queued')
  <2>1. queue' \in Seq(Queued)
    OBVIOUS
  <2>2. \A n \in 1 .. Len(queue') : queue'[n] \in Queued'
    BY <1>1 DEF Queued
  <2> QED BY <2>1, <2>2, Retyped
<1> QED
  BY <1>1, <1>2, <1>3

-----------------------------------------------------------------------------
(* The steps, sorted by what they do to tasks, workers and jobs.            *)

Calm == UNCHANGED <<jobs, queue, timers, wk>>

(* A worker goes on, with or without a job.                                 *)
Advance(w) ==
    /\ UNCHANGED <<jobs, queue, timers>>
    /\ \E pc \in {"idle", "snapshot", "succeeded", "failed", "stopped"} :
         GoTo(w, pc) /\ (pc \in Running <=> wk[w].pc \in Running)

(* A worker is done with its job, whose row may tell or not.                *)
Finish(w) ==
    /\ wk[w].pc \in {"succeeded", "failed"}
    /\ wk' = [wk EXCEPT ![w] = AtRest("throttle")] /\ UNCHANGED queue
    /\ \/ UNCHANGED timers
          /\ (UNCHANGED jobs \/ UpdateJob(w, "success") \/ UpdateJob(w, "failed"))
       \/ wk[w].pc = "failed" /\ wk[w].retry < MaxRetries /\ UpdateJob(w, "failed")
          /\ timers' = timers \cup {Task(wk[w].sym, wk[w].job)}

(* Every step is one of these.                                              *)
LEMMA StepsSorted ==
    ASSUME [Next]_vars
    PROVE  \/ Calm \/ GenSend \/ TimerStep \/ Restart
           \/ \E s \in Symbols : CleanUp(s)
           \/ \E w \in Workers : Start(w) \/ StartFails(w) \/ Advance(w) \/ Finish(w)
<1>1. CASE UNCHANGED vars
  BY <1>1 DEF vars, Calm
<1>2. CASE Tick \/ Cancel
  BY <1>2 DEF Tick, Cancel, Calm
<1>3. CASE GeneratorStep
  BY <1>3 DEF GeneratorStep, GenQuery, GenQueryFails, GenGroup, GenDrop, GenStop, Calm
<1>4. ASSUME NEW s \in Symbols, UserStep(s), ~CleanUp(s) PROVE Calm
  BY <1>4 DEF UserStep, AddSymbol, RemoveSymbol, Configure, Calm
<1>5. ASSUME NEW w \in Workers, WorkerStep(w), ~Start(w), ~StartFails(w)
      PROVE  Advance(w) \/ Finish(w)
  <2>1. CASE SaveCache(w) \/ SaveSnapshot(w) \/ FetchFails(w) \/ Throttled(w) \/ WorkerStop(w)
    BY <2>1 DEF SaveCache, SaveSnapshot, FetchFails, Throttled, AfterThrottle, WorkerStop,
       Advance, Running
  <2>2. CASE HandleSuccess(w)
    BY <2>2 DEF HandleSuccess, Finish
  <2>3. CASE HandleFailure(w)
    BY <2>3 DEF HandleFailure, ArmRetry, Finish
  <2>4. CASE UpdateFails(w)
    BY <2>4 DEF UpdateFails, Finish
  <2> QED BY <1>5, <2>1, <2>2, <2>3, <2>4 DEF WorkerStep
<1> QED
  BY <1>1, <1>2, <1>3, <1>4, <1>5 DEF Next

-----------------------------------------------------------------------------
(* The generator's tasks are no retries.                                    *)
LEMMA GenSendKeeps ==
    ASSUME Kept, GenSend
    PROVE  Kept'
<1>1. PICK s : queue' = Append(queue, Task(s, None))
  BY DEF GenSend
<1>2. /\ queue' \in Seq(Queued') /\ Queued' = Queued \cup {Task(s, None)}
      /\ Len(queue) \in Nat /\ DOMAIN queue = 1 .. Len(queue)
      /\ DOMAIN queue' = 1 .. (Len(queue) + 1)
      /\ queue'[Len(queue) + 1] = Task(s, None)
      /\ \A n \in DOMAIN queue : queue'[n] = queue[n]
  BY <1>1, Sent DEF Kept, Shapes
<1>3. UNCHANGED <<jobs, timers, wk>> /\ Task(s, None).retryOf = None
  BY DEF GenSend, Task
<1>4. PendingRetries' = PendingRetries
  BY <1>2, <1>3 DEF PendingRetries
<1>5. Task(s, None) \notin timers
  BY <1>3, NoneAssumption DEF Kept, Shapes, PendingRetries
<1>6. \A m, n \in DOMAIN queue' :
        m # n /\ queue'[m].retryOf # None => queue'[m].retryOf # queue'[n].retryOf
  BY <1>2, <1>3 DEF Kept, RetriesAreOfFailures
<1>7. Shapes' /\ RunsItsOwn'
  BY <1>2, <1>3, <1>4 DEF Kept, Shapes, RunsItsOwn
<1> QED
  BY <1>2, <1>3, <1>4, <1>5, <1>6, <1>7 DEF Kept, RetriesAreOfFailures

(* A retry moves from its timer to the queue, or is dropped.                *)
LEMMA TimerKeeps ==
    ASSUME Kept, TimerStep
    PROVE  Kept'
<1>1. PICK t \in timers : FireRetry(t) \/ DropRetry(t)
  BY DEF TimerStep
<1>2. UNCHANGED <<jobs, wk>> /\ timers' = timers \ {t}
  BY <1>1 DEF FireRetry, DropRetry, Spend
<1>3. CASE queue' = queue
  <2>1. Queued' = Queued /\ PendingRetries' \subseteq PendingRetries
    BY <1>2, <1>3 DEF PendingRetries, Queued
  <2>2. Shapes' /\ RunsItsOwn'
    BY <1>2, <1>3, <2>1 DEF Kept, Shapes, RunsItsOwn
  <2> QED
    BY <1>2, <1>3, <2>1, <2>2 DEF Kept, RetriesAreOfFailures
<1>4. CASE queue' = Append(queue, t)
  <2>1. /\ queue' \in Seq(Queued') /\ Queued' = Queued \cup {t}
        /\ Len(queue) \in Nat /\ DOMAIN queue = 1 .. Len(queue)
        /\ DOMAIN queue' = 1 .. (Len(queue) + 1)
        /\ queue'[Len(queue) + 1] = t
        /\ \A n \in DOMAIN queue : queue'[n] = queue[n]
    BY <1>4, Sent DEF Kept, Shapes
  <2>2. t.retryOf \in JobIds /\ t.retryOf # None /\ t \notin Queued
    BY NoneAssumption DEF Kept, Shapes, RetriesAreOfFailures, PendingRetries
  <2>3. PendingRetries' = PendingRetries
    BY <1>2, <2>1, <2>2 DEF PendingRetries
  <2>4. \A n \in DOMAIN queue : queue[n].retryOf # t.retryOf
    <3>1. SUFFICES ASSUME NEW n \in DOMAIN queue, queue[n].retryOf = t.retryOf
                   PROVE  FALSE
      OBVIOUS
    <3>2. queue[n] \in PendingRetries /\ queue[n] \in Queued
      BY <2>2, <3>1 DEF PendingRetries, Queued
    <3> QED BY <2>2, <3>1, <3>2 DEF Kept, RetriesAreOfFailures
  <2>5. \A m, n \in DOMAIN queue' :
          m # n /\ queue'[m].retryOf # None => queue'[m].retryOf # queue'[n].retryOf
    BY <2>1, <2>4 DEF Kept, RetriesAreOfFailures
  <2>6. Shapes' /\ RunsItsOwn'
    BY <1>2, <2>1, <2>3 DEF Kept, Shapes, RunsItsOwn
  <2> QED
    BY <1>2, <2>1, <2>2, <2>3, <2>5, <2>6 DEF Kept, RetriesAreOfFailures
<1> QED
  BY <1>1, <1>3, <1>4 DEF FireRetry, DropRetry

(* What is left in the queue when its head has been received.               *)
LEMMA TailKeeps ==
    ASSUME Kept, queue # <<>>, queue' = Tail(queue), UNCHANGED timers
    PROVE  /\ queue' \in Seq(Queued') /\ Queued' \subseteq Queued
           /\ PendingRetries' \subseteq PendingRetries
           /\ \A m, n \in DOMAIN queue' :
                m # n /\ queue'[m].retryOf # None => queue'[m].retryOf # queue'[n].retryOf
           /\ \A t \in timers, u \in PendingRetries' : t.retryOf = u.retryOf => t = u
           /\ Queued' \cap timers = {}
<1>1. /\ queue' \in Seq(Queued') /\ Queued = Queued' \cup {Head(queue)}
      /\ Len(queue) \in Nat /\ DOMAIN queue = 1 .. Len(queue)
      /\ DOMAIN queue' = 1 .. (Len(queue) - 1)
      /\ \A n \in DOMAIN queue' : n + 1 \in DOMAIN queue /\ queue'[n] = queue[n + 1]
  BY Received DEF Kept, Shapes
<1>2. PendingRetries' \subseteq PendingRetries
  BY <1>1 DEF PendingRetries
<1>3. ASSUME NEW m \in DOMAIN queue', NEW n \in DOMAIN queue', m # n, queue'[m].retryOf # None
      PROVE  queue'[m].retryOf # queue'[n].retryOf
  <2>1. m + 1 # n + 1 /\ m + 1 \in DOMAIN queue /\ n + 1 \in DOMAIN queue
    BY <1>1, <1>3
  <2> QED BY <1>1, <1>3, <2>1 DEF Kept, RetriesAreOfFailures
<1> QED
  BY <1>1, <1>2, <1>3 DEF Kept, RetriesAreOfFailures

(* A new job gets an ID that no waiting retry and no other worker has; the  *)
(* rows these refer to stay as they are.                                    *)
LEMMA StartKeeps ==
    ASSUME Kept, NEW w \in Workers, Start(w)
    PROVE  Kept'
<1>1. queue # <<>> /\ queue' = Tail(queue) /\ UNCHANGED timers
  BY DEF Start
<1> DEFINE left == Referenced(Tail(queue))
           task == Head(queue)
<1>2. PICK j \in JobIds \ left, count \in RetryCounts(task) :
        /\ jobs' = [k \in JobIds |->
                      IF k = j THEN [sym |-> task.sym, status |-> "running",
                                     retry |-> count]
                      ELSE IF k \in left THEN jobs[k] ELSE NoRow]
        /\ wk' = [wk EXCEPT ![w] = [pc |-> "fetch", sym |-> task.sym, job |-> j,
                                    retry |-> count]]
  BY DEF Start
<1>3. /\ queue' \in Seq(Queued') /\ PendingRetries' \subseteq PendingRetries
      /\ \A m, n \in DOMAIN queue' :
           m # n /\ queue'[m].retryOf # None => queue'[m].retryOf # queue'[n].retryOf
      /\ \A t \in timers, u \in PendingRetries' : t.retryOf = u.retryOf => t = u
      /\ Queued' \cap timers = {}
  BY <1>1, TailKeeps
<1>4. /\ \A v \in Workers : wk[v].job \in left
      /\ \A t \in PendingRetries' : t.retryOf \in left
  BY <1>1 DEF Referenced, PendingRetries, Queued
<1>5. wk'[w].job = j /\ wk'[w].pc = "fetch" /\ wk'[w].sym = task.sym /\ wk'[w].retry = count
  BY <1>2 DEF Kept, Shapes
<1>6. \A v \in Workers : v # w => wk'[v] = wk[v] /\ wk[v].job # j
  BY <1>2, <1>4 DEF Kept, Shapes
<1>7. /\ jobs'[j].sym = task.sym /\ jobs'[j].retry = count
      /\ \A k \in JobIds : k # j => IF k \in left THEN jobs'[k] = jobs[k] ELSE jobs'[k] = NoRow
      /\ NoRow.status = "none"
  BY <1>2 DEF NoRow
<1>8. Shapes'
  <2>1. jobs' = [k \in JobIds |-> [sym |-> jobs'[k].sym, status |-> jobs'[k].status,
                                   retry |-> jobs'[k].retry]]
    BY <1>2 DEF Kept, Shapes, NoRow
  <2>2. wk' = [v \in Workers |-> [pc |-> wk'[v].pc, sym |-> wk'[v].sym,
                                  job |-> wk'[v].job, retry |-> wk'[v].retry]]
    BY <1>2 DEF Kept, Shapes
  <2> QED BY <1>1, <1>3, <2>1, <2>2 DEF Kept, Shapes
<1>9. RunsItsOwn'
  <2>1. ASSUME NEW v \in Workers, v # w, wk[v].pc \in Running
        PROVE  wk[v].job \in JobIds /\ jobs'[wk[v].job] = jobs[wk[v].job]
    BY <1>4, <1>6, <1>7, <2>1 DEF Kept, RunsItsOwn
  <2> QED
    BY <1>5, <1>6, <1>7, <2>1 DEF Kept, RunsItsOwn, Running
<1>10. RetriesAreOfFailures'
  <2>1. ASSUME NEW t \in PendingRetries'
        PROVE  /\ \A v \in Workers : wk'[v].job # t.retryOf
               /\ jobs'[t.retryOf] = jobs[t.retryOf]
    <3>1. t.retryOf \in JobIds
      BY <1>3, <2>1 DEF Kept, Shapes
    <3> QED
      BY <1>3, <1>4, <1>5, <1>6, <1>7, <2>1, <3>1 DEF Kept, RetriesAreOfFailures
  <2> QED
    BY <1>1, <1>3, <2>1 DEF Kept, RetriesAreOfFailures
<1> QED
  BY <1>8, <1>9, <1>10 DEF Kept

(* The task of a job that could not be recorded is gone.                    *)
LEMMA StartFailsKeeps ==
    ASSUME Kept, NEW w \in Workers, StartFails(w)
    PROVE  Kept'
<1>1. queue # <<>> /\ queue' = Tail(queue) /\ UNCHANGED <<jobs, timers>>
  BY DEF StartFails
<1>2. /\ queue' \in Seq(Queued') /\ PendingRetries' \subseteq PendingRetries
      /\ \A m, n \in DOMAIN queue' :
           m # n /\ queue'[m].retryOf # None => queue'[m].retryOf # queue'[n].retryOf
      /\ \A t \in timers, u \in PendingRetries' : t.retryOf = u.retryOf => t = u
      /\ Queued' \cap timers = {}
  BY <1>1, TailKeeps
<1>3. /\ wk' = [wk EXCEPT ![w] = AtRest("throttle")]
      /\ wk[w].pc = "idle" /\ wk[w].job = None
  BY DEF StartFails, Kept, RunsItsOwn, Running
<1>4. Shapes'
  BY <1>1, <1>2, <1>3 DEF Kept, Shapes, AtRest
<1>5. \A v \in Workers : wk'[v].job = wk[v].job /\ (v # w => wk'[v] = wk[v])
  BY <1>3 DEF Kept, Shapes, AtRest
<1>6. wk'[w].pc = "throttle"
  BY <1>3 DEF Kept, Shapes, AtRest
<1>7. RunsItsOwn'
  BY <1>1, <1>3, <1>5, <1>6 DEF Kept, RunsItsOwn, Running
<1>8. RetriesAreOfFailures'
  BY <1>1, <1>2, <1>5 DEF Kept, RetriesAreOfFailures
<1> QED
  BY <1>4, <1>7, <1>8 DEF Kept

(* A worker that goes on keeps its job, or its having none.                 *)
LEMMA AdvanceKeeps ==
    ASSUME Kept, NEW w \in Workers, Advance(w)
    PROVE  Kept'
<1>1. PICK pc : wk' = [wk EXCEPT ![w].pc = pc] /\ (pc \in Running <=> wk[w].pc \in Running)
  BY DEF Advance, GoTo
<1>2. UNCHANGED <<jobs, queue, timers, Queued, PendingRetries>>
  BY DEF Advance, PendingRetries, Queued
<1>3. /\ wk' = [v \in Workers |-> [pc |-> wk'[v].pc, sym |-> wk'[v].sym,
                                   job |-> wk'[v].job, retry |-> wk'[v].retry]]
      /\ \A v \in Workers : /\ wk'[v].job = wk[v].job /\ wk'[v].sym = wk[v].sym
                            /\ wk'[v].retry = wk[v].retry
                            /\ wk'[v].pc \in Running <=> wk[v].pc \in Running
  BY <1>1 DEF Kept, Shapes
<1>4. Shapes'
  BY <1>2, <1>3 DEF Kept, Shapes
<1>5. RunsItsOwn'
  BY <1>2, <1>3 DEF Kept, RunsItsOwn
<1> QED
  BY <1>2, <1>3, <1>4, <1>5 DEF Kept, RetriesAreOfFailures

(* The end of a job changes no row but its own, and of that the status      *)
(* only; if a retry is armed, the status is failed.                         *)
LEMMA FinishKeeps ==
    ASSUME Kept, NEW w \in Workers, Finish(w)
    PROVE  Kept'
<1> DEFINE k == wk[w].job
<1>1. k \in JobIds /\ k # None /\ \A v \in Workers : v # w => wk[v].job # k
  BY NoneAssumption DEF Finish, Kept, RunsItsOwn, Running
<1>2. wk' = [wk EXCEPT ![w] = AtRest("throttle")]
  BY DEF Finish
<1>3. /\ wk' = [v \in Workers |-> [pc |-> wk'[v].pc, sym |-> wk'[v].sym,
                                   job |-> wk'[v].job, retry |-> wk'[v].retry]]
      /\ wk'[w].pc = "throttle" /\ wk'[w].job = None
      /\ \A v \in Workers : v # w => wk'[v] = wk[v]
  BY <1>2 DEF Kept, Shapes, AtRest
<1>4. /\ jobs' = [j \in JobIds |-> [sym |-> jobs'[j].sym, status |-> jobs'[j].status,
                                    retry |-> jobs'[j].retry]]
      /\ \A j \in JobIds : j # k => jobs'[j] = jobs[j]
      /\ jobs'[k].sym = jobs[k].sym /\ jobs'[k].retry = jobs[k].retry
      /\ UpdateJob(w, "failed") => jobs'[k].status \in {"none", "failed"}
  <2>1. CASE UNCHANGED jobs
    BY <2>1, <1>1 DEF UpdateJob, Kept, Shapes
  <2>2. ASSUME NEW status \in {"success", "failed"}, UpdateJob(w, status)
        PROVE  /\ jobs' = [j \in JobIds |-> [sym |-> jobs'[j].sym, status |-> jobs'[j].status,
                                             retry |-> jobs'[j].retry]]
               /\ \A j \in JobIds : j # k => jobs'[j] = jobs[j]
               /\ jobs'[k].sym = jobs[k].sym /\ jobs'[k].retry = jobs[k].retry
               /\ jobs'[k].status \in {"none", status}
    <3>1. /\ \A j \in JobIds : jobs[j] = [sym |-> jobs[j].sym, status |-> jobs[j].status,
                                          retry |-> jobs[j].retry]
          /\ jobs = [j \in JobIds |-> jobs[j]]
      BY DEF Kept, Shapes
    <3>2. jobs' = [jobs EXCEPT ![k].status = IF @ = "none" THEN @ ELSE status]
      BY <2>2 DEF UpdateJob
    <3>3. jobs'[k] = [sym |-> jobs[k].sym, retry |-> jobs[k].retry,
                      status |-> IF jobs[k].status = "none" THEN "none" ELSE status]
      BY <1>1, <3>1, <3>2
    <3>4. \A j \in JobIds : j # k => jobs'[j] = jobs[j]
      BY <3>1, <3>2
    <3>5. jobs' = [j \in JobIds |-> jobs'[j]]
      BY <3>1, <3>2
    <3>6. \A j \in JobIds : jobs'[j] = [sym |-> jobs'[j].sym, status |-> jobs'[j].status,
                                         retry |-> jobs'[j].retry]
      BY <3>1, <3>3, <3>4
    <3> QED BY <3>3, <3>4, <3>5, <3>6
  <2> QED BY <2>1, <2>2 DEF Finish
<1>5. RunsItsOwn'
  <2>1. ASSUME NEW v \in Workers, v # w, wk[v].pc \in Running
        PROVE  wk[v].job \in JobIds /\ jobs'[wk[v].job] = jobs[wk[v].job]
    BY <1>1, <1>4, <2>1 DEF Kept, RunsItsOwn
  <2> QED
    BY <1>3, <2>1 DEF Kept, RunsItsOwn, Running
<1>6. queue' = queue /\ Queued' = Queued
  BY DEF Finish, Queued
<1>7. \A t \in PendingRetries : t.retryOf \in JobIds \ {k} /\ jobs'[t.retryOf] = jobs[t.retryOf]
  BY <1>1, <1>4 DEF Kept, Shapes, RetriesAreOfFailures
<1>8. CASE UNCHANGED timers
  <2>1. PendingRetries' = PendingRetries
    BY <1>6, <1>8 DEF PendingRetries
  <2>2. Shapes'
    BY <1>3, <1>4, <1>6, <2>1 DEF Kept, Shapes
  <2>3. RetriesAreOfFailures'
    BY <1>1, <1>3, <1>6, <1>7, <1>8, <2>1, NoneAssumption DEF Kept, RetriesAreOfFailures
  <2> QED BY <1>5, <2>2, <2>3 DEF Kept
<1>9. ASSUME wk[w].pc = "failed", wk[w].retry < MaxRetries, UpdateJob(w, "failed"),
             timers' = timers \cup {Task(wk[w].sym, k)}
      PROVE  Kept'
  <2> DEFINE t == Task(wk[w].sym, k)
  <2>1. t.retryOf = k /\ t.sym = wk[w].sym
    BY DEF Task
  <2>2. PendingRetries' = PendingRetries \cup {t}
    BY <1>6, <1>9 DEF PendingRetries
  <2>3. \/ jobs'[k].status = "none"
        \/ jobs'[k].status = "failed" /\ jobs'[k].sym = t.sym /\ jobs'[k].retry < MaxRetries
    <3>1. CASE jobs[k].status = "none"
      BY <1>1, <1>9, <3>1 DEF UpdateJob, Kept, Shapes
    <3>2. CASE jobs[k].sym = wk[w].sym /\ jobs[k].retry = wk[w].retry
      BY <1>4, <1>9, <2>1, <3>2
    <3> QED BY <1>9, <3>1, <3>2 DEF Kept, RunsItsOwn, Running
  <2>4. Shapes'
    BY <1>1, <1>3, <1>4, <1>6, <2>1, <2>2 DEF Kept, Shapes
  <2>5. \A u \in PendingRetries : u.retryOf # t.retryOf
    BY <1>7, <2>1
  <2>6. t \notin Queued
    BY <1>1, <2>1, <2>5 DEF PendingRetries
  <2>7. \A u \in PendingRetries' :
          /\ \A v \in Workers : wk'[v].job # u.retryOf
          /\ \/ jobs'[u.retryOf].status = "none"
             \/ /\ jobs'[u.retryOf].status = "failed"
                /\ jobs'[u.retryOf].sym = u.sym
                /\ jobs'[u.retryOf].retry < MaxRetries
    <3>1. ASSUME NEW u \in PendingRetries
          PROVE  \A v \in Workers : wk'[v].job # u.retryOf
      BY <1>3, <1>7, <3>1, NoneAssumption DEF Kept, RetriesAreOfFailures
    <3>2. \A v \in Workers : wk'[v].job # t.retryOf
      BY <1>1, <1>3, <2>1
    <3> QED
      BY <1>7, <2>1, <2>2, <2>3, <3>1, <3>2 DEF Kept, RetriesAreOfFailures
  <2>8. \A x \in timers', u \in PendingRetries' : x.retryOf = u.retryOf => x = u
    <3>1. timers \subseteq PendingRetries /\ timers' = timers \cup {t}
      BY <1>9 DEF PendingRetries
    <3> QED
      BY <2>2, <2>5, <3>1 DEF Kept, RetriesAreOfFailures
  <2>9. RetriesAreOfFailures'
    BY <1>6, <1>9, <2>6, <2>7, <2>8 DEF Kept, RetriesAreOfFailures
  <2> QED BY <1>5, <2>4, <2>9 DEF Kept
<1> QED
  BY <1>8, <1>9 DEF Finish

(* Rows that are deleted leave retries of no row.                           *)
LEMMA CleanUpKeeps ==
    ASSUME Kept, NEW s \in Symbols, CleanUp(s)
    PROVE  Kept'
<1>1. jobs' = [j \in JobIds |-> IF jobs[j].sym = s THEN NoRow ELSE jobs[j]]
  BY DEF CleanUp
<1>2. UNCHANGED <<queue, timers, wk, Queued, PendingRetries>>
  BY DEF CleanUp, Queued, PendingRetries
<1>3. /\ jobs' = [j \in JobIds |-> [sym |-> jobs'[j].sym, status |-> jobs'[j].status,
                                    retry |-> jobs'[j].retry]]
      /\ \A j \in JobIds : jobs'[j].status = "none" \/ jobs'[j] = jobs[j]
  BY <1>1 DEF Kept, Shapes, NoRow
<1>4. Shapes'
  BY <1>2, <1>3 DEF Kept, Shapes
<1>5. RunsItsOwn'
  BY <1>2, <1>3 DEF Kept, RunsItsOwn
<1>6. RetriesAreOfFailures'
  BY <1>2, <1>3 DEF Kept, Shapes, RetriesAreOfFailures
<1> QED
  BY <1>4, <1>5, <1>6 DEF Kept

(* A server that starts, for the first time or again, has no tasks, and its *)
(* workers have no jobs, whatever the rows say.                             *)
LEMMA FreshKeeps ==
    ASSUME queue = <<>>, timers = {}, wk = [w \in Workers |-> AtRest("idle")],
           jobs = [j \in JobIds |-> [sym |-> jobs[j].sym, status |-> jobs[j].status,
                                     retry |-> jobs[j].retry]]
    PROVE  Kept
<1>1. Queued = {} /\ PendingRetries = {} /\ queue \in Seq(Queued) /\ DOMAIN queue = {}
  BY DEF Queued, PendingRetries
<1>2. Shapes
  BY <1>1 DEF Shapes, AtRest
<1>3. RunsItsOwn
  BY DEF RunsItsOwn, AtRest, Running
<1>4. RetriesAreOfFailures
  BY <1>1 DEF RetriesAreOfFailures
<1> QED
  BY <1>2, <1>3, <1>4 DEF Kept

(* Kept is inductive.                                                       *)
LEMMA NextKeeps == Kept /\ [Next]_vars => Kept'
<1> SUFFICES ASSUME Kept, [Next]_vars
             PROVE  Kept'
  OBVIOUS
<1>1. CASE Calm
  <2>1. UNCHANGED <<jobs, queue, timers, wk, Queued, PendingRetries>>
    BY <1>1 DEF Calm, PendingRetries, Queued
  <2>2. Shapes' /\ RunsItsOwn'
    BY <2>1 DEF Kept, Shapes, RunsItsOwn
  <2>3. RetriesAreOfFailures'
    BY <2>1 DEF Kept, RetriesAreOfFailures
  <2> QED BY <2>2, <2>3 DEF Kept
<1>2. CASE Restart
  <2>1. /\ queue' = <<>> /\ timers' = {} /\ wk' = [w \in Workers |-> AtRest("idle")]
        /\ jobs' = [j \in JobIds |-> [sym |-> jobs'[j].sym, status |-> jobs'[j].status,
                                      retry |-> jobs'[j].retry]]
    BY <1>2 DEF Restart, Kept, Shapes
  <2>2. Queued' = {} /\ PendingRetries' = {} /\ queue' \in Seq(Queued') /\ DOMAIN queue' = {}
    BY <2>1 DEF Queued, PendingRetries
  <2>3. Shapes'
    BY <2>1, <2>2 DEF Shapes, AtRest
  <2>4. RunsItsOwn'
    BY <2>1 DEF RunsItsOwn, AtRest, Running
  <2> QED BY <2>1, <2>2, <2>3, <2>4 DEF Kept, RetriesAreOfFailures
<1> QED
  BY <1>1, <1>2, StepsSorted, GenSendKeeps, TimerKeeps, StartKeeps, StartFailsKeeps,
     AdvanceKeeps, FinishKeeps, CleanUpKeeps

(* A retry that waits is of a job that failed, that nobody runs and that    *)
(* has retries left; and it is the only one of that job: failures do not    *)
(* multiply, however timers, the queue, restarts and removals interleave.   *)
THEOREM FailuresDoNotMultiply == Spec => []RetriesAreOfFailures
<1>1. Init => Kept
  BY FreshKeeps DEF Init, NoRow
<1>2. Kept => RetriesAreOfFailures
  BY DEF Kept
<1> QED
  BY <1>1, <1>2, NextKeeps, PTL DEF Spec

-----------------------------------------------------------------------------
(* Types.  Ages have a bound because those above every interval are ranks   *)
(* among the symbols; retry counts, because a retry waits only for a job    *)
(* that has some left.                                                      *)

TableTypes ==
    /\ row \in [Symbols -> {"absent", "off", "on"}]
    /\ ivl \in [Symbols -> Intervals] /\ since \in [Symbols -> 0 .. Never]
    /\ cached \subseteq Symbols /\ removing \subseteq Symbols

GenTypes ==
    /\ tick \in BOOLEAN /\ batchAge \in [Intervals -> 0 .. Never]
    /\ groups \in [Intervals -> Seq(Symbols)] /\ sending \in Seq(Symbols)
    /\ gen \in {"running", "stopped"} /\ ctx \in {"live", "cancelled"}
    /\ crashes \in 0 .. MaxCrashes

Tasks == [sym : Symbols, retryOf : JobIds \cup {None}]
Rows == [sym : Symbols \cup {None}, retry : 0 .. MaxRetries,
         status : {"none", "running", "success", "failed"}]
WorkerStates == [sym : Symbols \cup {None}, job : JobIds \cup {None}, retry : 0 .. MaxRetries,
                 pc : {"idle", "fetch", "snapshot", "succeeded", "failed", "throttle",
                       "stopped"}]

JobTypes ==
    /\ jobs \in [JobIds -> Rows] /\ wk \in [Workers -> WorkerStates]
    /\ queue \in Seq(Tasks) /\ timers \subseteq [sym : Symbols, retryOf : JobIds]
    /\ \A w \in Workers : wk[w].pc \in Running => wk[w].sym \in Symbols
    /\ \A j \in JobIds : jobs[j].status = "none" => jobs[j].retry = 0

Types == TableTypes /\ GenTypes /\ JobTypes

LEMMA TypesAreTypes == Types => TypeOK
BY DEF Types, TableTypes, GenTypes, JobTypes, TypeOK, Rows, WorkerStates, Tasks

LEMMA Bounds ==
    /\ Cap \in Nat /\ \A i \in Intervals : i \in Nat /\ i > 0 /\ i <= Cap
    /\ Cardinality(Symbols) \in Nat /\ Never \in Nat /\ Never = Cap + Cardinality(Symbols) + 1
<1>1. PICK k \in Intervals : \A n \in Intervals : n <= k
  BY LargestNumber, IntervalsAssumption
<1>2. \E m \in Intervals : \A n \in Intervals : m >= n
  BY <1>1, IntervalsAssumption
<1>3. Cap \in Intervals /\ \A n \in Intervals : Cap >= n
  BY <1>2, Zenon DEF Cap, Max
<1>4. Cardinality(Symbols) \in Nat
  BY FS_CardinalityType, SymbolsAssumption
<1> QED
  BY <1>3, <1>4, IntervalsAssumption DEF Never

(* The age of a symbol stays in its bounds.                                 *)
LEMMA OlderIsBounded ==
    ASSUME since \in [Symbols -> 0 .. Never], NEW s \in Symbols
    PROVE  Older(s) \in 0 .. Never
<1> DEFINE old == {since[u] : u \in {v \in Symbols : since[v] \in Cap .. (Never - 1)}}
           below == {a \in old : a <= since[s]}
<1>1. IsFiniteSet(below) /\ Cardinality(below) \in 0 .. Cardinality(Symbols)
  <2>1. PICK T : T = {since[u] : u \in Symbols}
    OBVIOUS
  <2>2. IsFiniteSet(T) /\ Cardinality(T) <= Cardinality(Symbols)
    BY <2>1, ImageIsSmaller, SymbolsAssumption
  <2>3. below \subseteq T
    BY <2>1
  <2>4. IsFiniteSet(below) /\ Cardinality(below) <= Cardinality(T) /\ Cardinality(T) \in Nat
        /\ Cardinality(below) \in Nat
    BY <2>2, <2>3, FS_Subset, FS_CardinalityType
  <2> QED
    BY <2>2, <2>4, Bounds
<1>2. PICK n : n = Cardinality(below)
  OBVIOUS
<1>3. Older(s) = CASE since[s] < Cap   -> since[s] + 1
                   [] since[s] = Never -> Never
                   [] OTHER            -> Cap + n
  BY <1>2, Zenon DEF Older
<1>4. since[s] \in 0 .. Never /\ n \in 0 .. Cardinality(Symbols)
  BY <1>1, <1>2
<1> HIDE DEF below, old
<1>5. CASE since[s] < Cap
  <2>1. Older(s) = since[s] + 1
    BY <1>3, <1>4, <1>5, Bounds
  <2> QED BY <2>1, <1>4, <1>5, Bounds
<1>6. CASE ~(since[s] < Cap) /\ since[s] = Never
  <2>1. Older(s) = Never
    BY <1>3, <1>6, Zenon
  <2> QED BY <2>1, Bounds
<1>7. CASE ~(since[s] < Cap) /\ since[s] # Never
  <2>1. Older(s) = Cap + n
    BY <1>3, <1>7, Zenon
  <2> QED BY <2>1, <1>4, Bounds
<1> QED
  BY <1>5, <1>6, <1>7

LEMMA InitTypes == Init => Types
<1> SUFFICES ASSUME Init PROVE Types
  OBVIOUS
<1>1. TableTypes
  BY Bounds DEF Init, TableTypes
<1>2. GenTypes
  <2>1. crashes \in 0 .. MaxCrashes
    BY BoundsAssumption DEF Init
  <2>2. batchAge \in [Intervals -> 0 .. Never]
    BY Bounds DEF Init
  <2>3. groups \in [Intervals -> Seq(Symbols)] /\ sending \in Seq(Symbols)
    BY DEF Init
  <2> QED BY <2>1, <2>2, <2>3 DEF Init, GenTypes
<1>3. JobTypes
  BY DEF Init, JobTypes, Rows, WorkerStates, Tasks, NoRow, AtRest, MaxRetries, Running
<1> QED
  BY <1>1, <1>2, <1>3 DEF Types

(* What no variable of a part changes keeps its type.                       *)
LEMMA Frames ==
    ASSUME Types
    PROVE  /\ UNCHANGED <<tables, derived>> => TableTypes'
           /\ UNCHANGED <<genVars, ctx, crashes>> => GenTypes'
           /\ UNCHANGED <<jobs, wk, queue, timers>> => JobTypes'
BY DEF Types, TableTypes, GenTypes, JobTypes, tables, derived, genVars

(* Time and the generator.                                                  *)
LEMMA GeneratorTypes ==
    ASSUME Types, Tick \/ GeneratorStep
    PROVE  Types'
<1>1. CASE Tick
  <2>1. since' \in [Symbols -> 0 .. Never]
    BY <1>1, OlderIsBounded DEF Tick, Types, TableTypes
  <2>2. batchAge' \in [Intervals -> 0 .. Never]
    <3>1. ASSUME NEW i \in Intervals
          PROVE  (IF batchAge[i] > Cap THEN batchAge[i] ELSE batchAge[i] + 1) \in 0 .. Never
      BY Bounds DEF Types, GenTypes
    <3> QED BY <1>1, <3>1 DEF Tick
  <2>3. TableTypes'
    BY <1>1, <2>1 DEF Tick, Types, TableTypes, derived
  <2>4. GenTypes'
    BY <1>1, <2>2 DEF Tick, Types, GenTypes
  <2> QED BY <1>1, <2>3, <2>4, Frames DEF Tick, Types
<1>2. CASE GenQuery
  <2>1. PICK g : /\ \A i \in Intervals : g[i] \in Groupings(i)
                 /\ g \in [Intervals -> UNION {Groupings(i) : i \in Intervals}] /\ groups' = g
    BY <1>2 DEF GenQuery
  <2>2. ASSUME NEW i \in Intervals PROVE g[i] \in Seq(Symbols)
    <3>1. PICK D : D = {s \in Symbols : Due(s) /\ ivl[s] = i}
      OBVIOUS
    <3>2. IsFiniteSet(D) /\ Cardinality(D) \in Nat
      BY <3>1, SymbolsAssumption, FS_Subset, FS_CardinalityType
    <3>3. g[i] \in [1 .. Cardinality(D) -> D]
      BY <2>1, <3>1 DEF Groupings, SetToSeqs
    <3>4. PICK n \in Nat : g[i] \in [1 .. n -> Symbols]
      BY <3>1, <3>2, <3>3
    <3> QED BY <3>4, SeqDef
  <2>3. GenTypes'
    BY <1>2, <2>1, <2>2 DEF GenQuery, Types, GenTypes
  <2> QED BY <1>2, <2>3, Frames DEF GenQuery, Types
<1>3. CASE GenQueryFails \/ GenDrop \/ GenStop
  <2>1. sending' \in Seq(Symbols)
    <3>1. sending \in Seq(Symbols)
      BY DEF Types, GenTypes
    <3>2. sending' = sending \/ (sending # <<>> /\ sending' = Tail(sending))
      BY <1>3 DEF GenQueryFails, GenDrop, GenStop
    <3> QED BY <3>1, <3>2
  <2>2. UNCHANGED <<batchAge, groups, ctx, crashes>>
    BY <1>3 DEF GenQueryFails, GenDrop, GenStop
  <2>3. tick' \in BOOLEAN /\ gen' \in {"running", "stopped"}
    BY <1>3 DEF GenQueryFails, GenDrop, GenStop, Types, GenTypes
  <2>4. GenTypes'
    BY <2>1, <2>2, <2>3 DEF Types, GenTypes
  <2> QED BY <1>3, <2>4, Frames DEF GenQueryFails, GenDrop, GenStop, Types
<1>4. ASSUME NEW i \in Intervals, GenGroup(i) PROVE Types'
  <2>1. groups' \in [Intervals -> Seq(Symbols)]
    BY <1>4 DEF GenGroup, Types, GenTypes
  <2>2. batchAge' \in [Intervals -> 0 .. Never]
    <3>1. 0 \in 0 .. Never
      BY Bounds
    <3> QED BY <1>4, <3>1 DEF GenGroup, Types, GenTypes
  <2>3. sending' \in Seq(Symbols)
    <3>1. CASE sending' = sending
      BY <3>1 DEF Types, GenTypes
    <3>2. CASE sending' = SubSeq(groups[i], 1, Min({BatchSize, Len(groups[i])}))
      <4>1. groups[i] \in Seq(Symbols) /\ Len(groups[i]) \in Nat
        BY DEF Types, GenTypes
      <4>2. PICK n : n = Min({BatchSize, Len(groups[i])})
        OBVIOUS
      <4>3. n \in Nat /\ n <= Len(groups[i])
        <5>1. \E x \in {BatchSize, Len(groups[i])} : \A y \in {BatchSize, Len(groups[i])} : x <= y
          BY <4>1, SizesAssumption
        <5>2. n \in {BatchSize, Len(groups[i])} /\ n <= Len(groups[i])
          BY <5>1, <4>2, Zenon DEF Min
        <5> QED BY <5>2, <4>1, SizesAssumption
      <4>4. SubSeq(groups[i], 1, n) \in Seq(Symbols)
        BY <4>1, <4>3
      <4> QED BY <3>2, <4>2, <4>4
    <3> QED BY <1>4, <3>1, <3>2 DEF GenGroup
  <2>4. GenTypes'
    BY <1>4, <2>1, <2>2, <2>3 DEF GenGroup, Types, GenTypes
  <2> QED BY <1>4, <2>4, Frames DEF GenGroup, Types
<1>5. CASE GenSend
  <2>1. Head(sending) \in Symbols /\ sending' \in Seq(Symbols)
    BY <1>5 DEF GenSend, Types, GenTypes
  <2>2. queue' \in Seq(Tasks)
    BY <1>5, <2>1 DEF GenSend, Task, Tasks, Types, JobTypes
  <2>3. since' \in [Symbols -> 0 .. Never]
    <3>1. 0 \in 0 .. Never
      BY Bounds
    <3> QED BY <1>5, <3>1 DEF GenSend, MarkRefreshed, Types, TableTypes
  <2>4. TableTypes'
    BY <1>5, <2>3 DEF GenSend, Types, TableTypes, derived
  <2>5. GenTypes'
    BY <1>5, <2>1 DEF GenSend, Types, GenTypes
  <2>6. JobTypes'
    BY <1>5, <2>2 DEF GenSend, Types, JobTypes
  <2> QED BY <2>4, <2>5, <2>6 DEF Types
<1> QED
  BY <1>1, <1>2, <1>3, <1>4, <1>5 DEF GeneratorStep

(* The user's edits, the end of the server and its start.                   *)
LEMMA UserTypes ==
    ASSUME Types, Cancel \/ Restart \/ \E s \in Symbols : UserStep(s)
    PROVE  Types'
<1>1. CASE Cancel
  <2>1. GenTypes'
    BY <1>1 DEF Cancel, Types, GenTypes, genVars
  <2> QED BY <1>1, <2>1, Frames DEF Cancel, Types
<1>2. CASE Restart
  <2>1. wk' \in [Workers -> WorkerStates] /\ \A w \in Workers : wk'[w].pc \notin Running
    BY <1>2 DEF Restart, AtRest, WorkerStates, MaxRetries, Running
  <2>2. JobTypes'
    BY <1>2, <2>1 DEF Restart, Types, JobTypes
  <2>3. sending' \in Seq(Symbols) /\ groups' \in [Intervals -> Seq(Symbols)]
    BY <1>2 DEF Restart
  <2>4. batchAge' \in [Intervals -> 0 .. Never]
    BY <1>2, Bounds DEF Restart
  <2>5. crashes' \in 0 .. MaxCrashes
    BY <1>2, BoundsAssumption DEF Restart, Types, GenTypes
  <2>6. GenTypes'
    BY <1>2, <2>3, <2>4, <2>5 DEF Restart, Types, GenTypes
  <2> QED BY <1>2, <2>2, <2>6, Frames DEF Restart, Types
<1>3. ASSUME NEW s \in Symbols, UserStep(s), ~CleanUp(s) PROVE Types'
  <2>1. Never \in 0 .. Never
    BY Bounds
  <2>2. TableTypes'
    BY <1>3, <2>1 DEF UserStep, AddSymbol, RemoveSymbol, Configure, Types, TableTypes, derived
  <2> QED
    BY <1>3, <2>2, Frames DEF UserStep, AddSymbol, RemoveSymbol, Configure, Types
<1>4. ASSUME NEW s \in Symbols, CleanUp(s) PROVE Types'
  <2>1. jobs' \in [JobIds -> Rows]
    BY <1>4 DEF CleanUp, Rows, NoRow, MaxRetries, Types, JobTypes
  <2>2. JobTypes'
    BY <1>4, <2>1 DEF CleanUp, NoRow, Types, JobTypes
  <2>3. TableTypes'
    BY <1>4 DEF CleanUp, Types, TableTypes, tables
  <2> QED BY <1>4, <2>2, <2>3, Frames DEF CleanUp, Types
<1> QED
  BY <1>1, <1>2, <1>3, <1>4

(* The timers and the workers.                                              *)
LEMMA TimerTypes ==
    ASSUME Types, TimerStep
    PROVE  Types'
<1>1. PICK t \in timers : FireRetry(t) \/ DropRetry(t)
  BY DEF TimerStep
<1>2. t \in Tasks
  BY DEF Tasks, Types, JobTypes
<1>3. queue' \in Seq(Tasks)
  BY <1>1, <1>2 DEF FireRetry, DropRetry, Types, JobTypes
<1>4. JobTypes'
  BY <1>1, <1>3 DEF FireRetry, DropRetry, Spend, Types, JobTypes
<1> QED
  BY <1>1, <1>4, Frames DEF FireRetry, DropRetry, Types

LEMMA StartTypes ==
    ASSUME Types, Kept, NEW w \in Workers, Start(w)
    PROVE  Types'
<1>1. queue # <<>> /\ queue' = Tail(queue) /\ UNCHANGED timers
  BY DEF Start
<1>2. PICK task : task = Head(queue)
  OBVIOUS
<1>3. task \in Tasks /\ queue' \in Seq(Tasks) /\ task \in Queued
  BY <1>1, <1>2 DEF Queued, Types, JobTypes
<1>4. PICK j \in JobIds, count \in RetryCounts(task) :
        /\ jobs' = [k \in JobIds |->
                      IF k = j THEN [sym |-> task.sym, status |-> "running", retry |-> count]
                      ELSE IF k \in Referenced(Tail(queue)) THEN jobs[k] ELSE NoRow]
        /\ wk' = [wk EXCEPT ![w] = [pc |-> "fetch", sym |-> task.sym, job |-> j,
                                    retry |-> count]]
  BY <1>2 DEF Start
<1>5. count \in 0 .. MaxRetries
  <2>1. CASE count = 0
    BY <2>1 DEF MaxRetries
  <2>2. CASE task.retryOf # None /\ jobs[task.retryOf].status # "none"
             /\ count = jobs[task.retryOf].retry + 1
    <3>1. task \in PendingRetries /\ task.retryOf \in JobIds
      BY <1>3, <2>2 DEF PendingRetries, Tasks
    <3>2. jobs[task.retryOf].retry < MaxRetries
      BY <2>2, <3>1 DEF Kept, RetriesAreOfFailures
    <3>3. jobs[task.retryOf].retry \in 0 .. MaxRetries
      BY <3>1 DEF Rows, Types, JobTypes
    <3> QED BY <2>2, <3>2, <3>3 DEF MaxRetries
  <2> QED BY <1>4, <2>1, <2>2 DEF RetryCounts
<1>6. jobs' \in [JobIds -> Rows]
  BY <1>3, <1>4, <1>5 DEF Rows, NoRow, MaxRetries, Tasks, Types, JobTypes
<1>7. /\ wk' \in [Workers -> WorkerStates]
      /\ \A v \in Workers : wk'[v].pc \in Running => wk'[v].sym \in Symbols
  BY <1>3, <1>4, <1>5 DEF WorkerStates, Tasks, Types, JobTypes
<1>8. \A k \in JobIds : jobs'[k].status = "none" => jobs'[k].retry = 0
  BY <1>4 DEF NoRow, Types, JobTypes
<1>9. JobTypes'
  BY <1>1, <1>3, <1>6, <1>7, <1>8 DEF Types, JobTypes
<1> QED
  BY <1>9, Frames DEF Start, Types

LEMMA WorkerTypes ==
    ASSUME Types, Kept, NEW w \in Workers, WorkerStep(w)
    PROVE  Types'
<1>1. CASE Start(w)
  BY <1>1, StartTypes
<1>2. ASSUME wk' = [wk EXCEPT ![w] = AtRest("throttle")]
      PROVE  /\ wk' \in [Workers -> WorkerStates]
             /\ \A v \in Workers : wk'[v].pc \in Running => wk'[v].sym \in Symbols
  <2>1. AtRest("throttle") \in WorkerStates /\ AtRest("throttle").pc \notin Running
    BY DEF AtRest, WorkerStates, MaxRetries, Running
  <2> QED BY <1>2, <2>1 DEF Types, JobTypes
<1>3. ASSUME NEW pc \in {"idle", "snapshot", "succeeded", "failed", "stopped"}, GoTo(w, pc),
             pc \in Running => wk[w].pc \in Running, UNCHANGED <<jobs, queue, timers>>
      PROVE  JobTypes'
  <2>1. wk' = [wk EXCEPT ![w].pc = pc]
    BY <1>3 DEF GoTo
  <2>2. wk' \in [Workers -> WorkerStates]
    BY <2>1 DEF WorkerStates, Types, JobTypes
  <2>3. \A v \in Workers : wk'[v].pc \in Running => wk'[v].sym \in Symbols
    BY <1>3, <2>1 DEF WorkerStates, Types, JobTypes
  <2> QED BY <1>3, <2>2, <2>3 DEF Types, JobTypes
<1>4. CASE StartFails(w) \/ UpdateFails(w)
  <2>1. queue' \in Seq(Tasks)
    BY <1>4 DEF StartFails, UpdateFails, Types, JobTypes
  <2>2. JobTypes'
    BY <1>2, <1>4, <2>1 DEF StartFails, UpdateFails, Types, JobTypes
  <2> QED BY <1>4, <2>2, Frames DEF StartFails, UpdateFails, Types
<1>5. CASE SaveCache(w)
  <2>1. wk[w].pc = "fetch" /\ wk[w].sym \in Symbols
    BY <1>5 DEF SaveCache, Running, Types, JobTypes
  <2>2. TableTypes'
    BY <1>5, <2>1 DEF SaveCache, Types, TableTypes, tables
  <2>3. JobTypes'
    BY <1>3, <1>5, <2>1 DEF SaveCache, Running
  <2> QED BY <1>5, <2>2, <2>3, Frames DEF SaveCache, Types
<1>6. CASE SaveSnapshot(w) \/ FetchFails(w) \/ Throttled(w) \/ WorkerStop(w)
  <2>1. JobTypes'
    BY <1>3, <1>6
       DEF SaveSnapshot, FetchFails, Throttled, AfterThrottle, WorkerStop, Running
  <2> QED
    BY <1>6, <2>1, Frames DEF SaveSnapshot, FetchFails, Throttled, WorkerStop, Types
<1>7. CASE HandleSuccess(w) \/ HandleFailure(w)
  <2>1. PICK status \in {"success", "failed"} : UpdateJob(w, status)
    BY <1>7 DEF HandleSuccess, HandleFailure
  <2>2. wk[w].sym \in Symbols /\ wk[w].job \in JobIds
    BY <1>7 DEF HandleSuccess, HandleFailure, Running, Kept, RunsItsOwn, Types, JobTypes
  <2>3. /\ jobs' \in [JobIds -> Rows]
        /\ \A k \in JobIds : jobs'[k].status = "none" => jobs'[k].retry = 0
    <3>1. PICK k \in JobIds : k = wk[w].job
      BY <2>2
    <3>2. PICK st : st = IF jobs[k].status = "none" THEN jobs[k].status ELSE status
      OBVIOUS
    <3>3. jobs' = [jobs EXCEPT ![k].status = st]
      BY <2>1, <3>1, <3>2 DEF UpdateJob, Types, JobTypes
    <3>4. /\ jobs \in [JobIds -> Rows] /\ st \in {"none", "running", "success", "failed"}
          /\ st = "none" => jobs[k].status = "none"
      BY <3>2 DEF Rows, Types, JobTypes
    <3>5. jobs' \in [JobIds -> Rows]
      BY <3>1, <3>3, <3>4 DEF Rows
    <3>6. ASSUME NEW i \in JobIds, jobs'[i].status = "none" PROVE jobs'[i].retry = 0
      <4>1. jobs'[i].retry = jobs[i].retry /\ jobs[i].status = "none"
        BY <3>1, <3>3, <3>4, <3>6 DEF Rows
      <4> QED BY <4>1 DEF Types, JobTypes
    <3> QED BY <3>5, <3>6
  <2>4. timers' \subseteq [sym : Symbols, retryOf : JobIds]
    BY <1>7, <2>2 DEF HandleSuccess, HandleFailure, ArmRetry, Task, Types, JobTypes
  <2>5. JobTypes'
    BY <1>2, <1>7, <2>3, <2>4 DEF HandleSuccess, HandleFailure, Types, JobTypes
  <2> QED BY <1>7, <2>5, Frames DEF HandleSuccess, HandleFailure, Types
<1> QED
  BY <1>1, <1>4, <1>5, <1>6, <1>7 DEF WorkerStep

LEMMA NextTypes == Types /\ Kept /\ [Next]_vars => Types'
<1> SUFFICES ASSUME Types, Kept, [Next]_vars PROVE Types'
  OBVIOUS
<1>1. CASE UNCHANGED vars
  BY <1>1, Frames DEF vars, Types
<1> QED
  BY <1>1, GeneratorTypes, UserTypes, TimerTypes, WorkerTypes DEF Next

(* The variables keep their types: in particular the ages keep their bounds *)
(* although time has none, and no job is ever the fifth attempt.            *)
THEOREM TypeCorrect == Spec => []TypeOK
<1>1. Init => Kept
  BY FreshKeeps DEF Init, NoRow
<1> QED
  BY <1>1, InitTypes, NextTypes, NextKeeps, TypesAreTypes, PTL DEF Spec

-----------------------------------------------------------------------------
(* Refinement: what a step of the scheduler does to an attempt.             *)

Waiting(t, rows) == [job |-> t.retryOf, sym |-> t.sym, tries |-> rows[t.retryOf].retry]
Made(at) == [job |-> at.job, sym |-> at.sym, tries |-> at.retry]
Makers == {w \in Workers : wk[w].job # None}

LEMMA Bars ==
    /\ runsBar = {Made(wk[w]) : w \in Makers}
    /\ waitsBar = {Waiting(t, jobs) : t \in PendingRetries}
BY Zenon DEF runsBar, waitsBar, Made, Waiting, Makers

(* A job has one retry.                                                     *)
LEMMA OneEach ==
    ASSUME Kept, NEW t \in PendingRetries, NEW u \in PendingRetries, t.retryOf = u.retryOf
    PROVE  t = u
<1>1. CASE t \in timers \/ u \in timers
  BY <1>1 DEF Kept, RetriesAreOfFailures
<1>2. CASE t \in Queued /\ u \in Queued /\ t.retryOf # None
  BY <1>2 DEF Queued, Kept, RetriesAreOfFailures
<1> QED
  BY <1>1, <1>2 DEF PendingRetries

(* A retry that is spent leaves the others.                                 *)
LEMMA WaitsWithout ==
    ASSUME NEW P, NEW rows, NEW t \in P, \A u \in P : u.retryOf = t.retryOf => u = t
    PROVE  {Waiting(u, rows) : u \in P \ {t}} = {Waiting(u, rows) : u \in P} \ {Waiting(t, rows)}
<1>1. ASSUME NEW u \in P \ {t} PROVE Waiting(u, rows) # Waiting(t, rows)
  <2>1. Waiting(u, rows).job = u.retryOf /\ Waiting(t, rows).job = t.retryOf
    BY DEF Waiting
  <2> QED BY <2>1
<1> HIDE DEF Waiting
<1> QED
  BY <1>1

LEMMA RunsWithout ==
    ASSUME Kept, NEW w \in Makers
    PROVE  {Made(wk[v]) : v \in Makers \ {w}} = runsBar \ {Made(wk[w])}
<1>1. ASSUME NEW v \in Makers \ {w} PROVE Made(wk[v]) # Made(wk[w])
  <2>1. Made(wk[v]).job = wk[v].job /\ Made(wk[w]).job = wk[w].job
    BY DEF Made
  <2> QED BY <2>1 DEF Kept, RunsItsOwn, Makers
<1>2. runsBar = {Made(wk[v]) : v \in Makers}
  BY Bars
<1> QED
  BY <1>1, <1>2

(* What a receive takes from the retries that wait.                         *)
LEMMA HeadTaken ==
    ASSUME Kept, queue # <<>>, queue' = Tail(queue), UNCHANGED timers
    PROVE  \/ Head(queue).retryOf = None /\ PendingRetries' = PendingRetries
           \/ /\ Head(queue) \in PendingRetries
              /\ PendingRetries' = PendingRetries \ {Head(queue)}
<1>1. /\ Queued = Queued' \cup {Head(queue)}
      /\ Len(queue) \in Nat /\ DOMAIN queue = 1 .. Len(queue)
      /\ DOMAIN queue' = 1 .. (Len(queue) - 1) /\ Head(queue) = queue[1]
      /\ \A n \in DOMAIN queue' : n + 1 \in DOMAIN queue /\ queue'[n] = queue[n + 1]
  BY Received DEF Kept, Shapes
<1>2. CASE Head(queue).retryOf = None
  BY <1>1, <1>2 DEF PendingRetries, Kept, Shapes
<1>3. CASE Head(queue).retryOf # None
  <2>1. Head(queue) \in PendingRetries /\ Head(queue) \in Queued
    BY <1>1, <1>3 DEF PendingRetries
  <2>2. Head(queue) \notin timers
    BY <2>1 DEF Kept, RetriesAreOfFailures
  <2>3. Head(queue) \notin Queued'
    <3>1. ASSUME NEW n \in DOMAIN queue', queue'[n] = Head(queue) PROVE FALSE
      <4>1. n + 1 \in DOMAIN queue /\ queue[n + 1] = queue[1] /\ n + 1 # 1 /\ 1 \in DOMAIN queue
        BY <1>1, <3>1
      <4> QED BY <1>1, <1>3, <4>1 DEF Kept, RetriesAreOfFailures
    <3> QED BY <3>1 DEF Queued
  <2> QED BY <1>1, <2>1, <2>2, <2>3 DEF PendingRetries
<1> QED
  BY <1>2, <1>3

(* A new attempt, of a task that came from the generator or of a retry.     *)
LEMMA StartRefines ==
    ASSUME Types, Kept, NEW w \in Workers, Start(w)
    PROVE  Attempts!Next
<1>1. queue # <<>> /\ queue' = Tail(queue) /\ UNCHANGED timers /\ wk[w].job = None
  BY DEF Start, Kept, RunsItsOwn, Running
<1>2. PICK task : task = Head(queue)
  OBVIOUS
<1>3. PICK left : left = Referenced(Tail(queue))
  OBVIOUS
<1>4. PICK j \in JobIds \ left, count \in RetryCounts(task) :
        /\ jobs' = [k \in JobIds |->
                      IF k = j THEN [sym |-> task.sym, status |-> "running", retry |-> count]
                      ELSE IF k \in left THEN jobs[k] ELSE NoRow]
        /\ wk' = [wk EXCEPT ![w] = [pc |-> "fetch", sym |-> task.sym, job |-> j,
                                    retry |-> count]]
  BY <1>2, <1>3 DEF Start
<1>5. /\ \A v \in Workers : wk[v].job \in left
      /\ \A t \in PendingRetries' : t.retryOf \in left /\ t.retryOf \in JobIds
  <2>1. PendingRetries' \subseteq PendingRetries
    BY <1>1, HeadTaken
  <2> QED
    BY <1>1, <1>3, <2>1 DEF Referenced, PendingRetries, Queued, Kept, Shapes
<1>6. task.sym \in Symbols
  <2>1. queue \in Seq(Tasks)
    BY DEF Types, JobTypes
  <2>2. task \in Tasks
    BY <1>1, <1>2, <2>1
  <2> QED BY <2>2 DEF Tasks
<1>7. j # None /\ j \in JobIds
  BY NoneAssumption
<1>8. runsBar' = runsBar \cup {Attempts!Attempt(j, task.sym, count)}
  <2>1. /\ wk'[w] = [pc |-> "fetch", sym |-> task.sym, job |-> j, retry |-> count]
        /\ \A v \in Workers : v # w => wk'[v] = wk[v]
    BY <1>4 DEF Kept, Shapes
  <2>2. Makers' = Makers \cup {w} /\ w \notin Makers
    BY <1>1, <1>7, <2>1 DEF Makers
  <2>3. runsBar' = {Made(wk'[v]) : v \in Makers'}
    BY Zenon DEF runsBar, Made, Makers
  <2>4. Made(wk'[w]) = Attempts!Attempt(j, task.sym, count)
    BY <2>1 DEF Made, Attempts!Attempt
  <2>5. \A v \in Makers : wk'[v] = wk[v] /\ v \in Makers'
    BY <2>1, <2>2 DEF Makers
  <2> QED BY <2>2, <2>3, <2>4, <2>5, Bars
<1>9. waitsBar' = {Waiting(t, jobs) : t \in PendingRetries'}
  <2>1. ASSUME NEW t \in PendingRetries' PROVE Waiting(t, jobs') = Waiting(t, jobs)
    BY <1>4, <1>5 DEF Waiting
  <2>2. waitsBar' = {Waiting(t, jobs') : t \in PendingRetries'}
    BY Zenon DEF waitsBar, Waiting
  <2> QED BY <2>1, <2>2, Zenon
<1>10. \A a \in runsBar \cup waitsBar' : a.job # j
  <2>1. \A a \in runsBar : a.job \in left
    BY <1>5, Bars DEF Made, Makers
  <2>2. \A a \in waitsBar' : a.job \in left
    BY <1>5, <1>9 DEF Waiting
  <2> QED BY <2>1, <2>2
<1>11. CASE task.retryOf = None /\ PendingRetries' = PendingRetries
  <2>1. waitsBar' = waitsBar
    BY <1>9, <1>11, Bars
  <2>2. count = 0
    BY <1>11 DEF RetryCounts
  <2>3. Attempts!Begin(j, task.sym)
    BY <1>8, <1>10, <2>1, <2>2 DEF Attempts!Begin, Attempts!Free
  <2> QED BY <1>6, <1>7, <2>3 DEF Attempts!Next
<1>12. CASE task \in PendingRetries /\ PendingRetries' = PendingRetries \ {task}
  <2>1. PICK a : a = Waiting(task, jobs)
    OBVIOUS
  <2>2. a \in waitsBar /\ waitsBar' = waitsBar \ {a}
    <3>1. \A u \in PendingRetries : u.retryOf = task.retryOf => u = task
      BY <1>12, OneEach
    <3>2. {Waiting(u, jobs) : u \in PendingRetries \ {task}} = waitsBar \ {a}
      BY <1>12, <2>1, <3>1, WaitsWithout, Bars
    <3> QED BY <1>9, <1>12, <2>1, <3>2, Bars
  <2>3. a.job = task.retryOf /\ a.sym = task.sym /\ a.tries = jobs[task.retryOf].retry
    BY <2>1 DEF Waiting
  <2>4. count \in {0, a.tries + 1}
    BY <2>3 DEF RetryCounts
  <2>5. Attempts!Free(j) \/ j = a.job
    <3>1. \A x \in runsBar \cup waitsBar : x.job = j => x = a
      BY <1>10, <2>2
    <3> QED BY <3>1 DEF Attempts!Free
  <2>6. Attempts!Retry(a, j)
    BY <1>8, <2>2, <2>3, <2>4, <2>5 DEF Attempts!Retry
  <2> QED BY <1>7, <2>2, <2>6 DEF Attempts!Next
<1> QED
  BY <1>1, <1>2, <1>11, <1>12, HeadTaken

(* The row of a job could not be written: its task is lost.                 *)
LEMMA StartFailsRefines ==
    ASSUME Types, Kept, NEW w \in Workers, StartFails(w)
    PROVE  [Attempts!Next]_Attempts!vars
<1>1. queue # <<>> /\ queue' = Tail(queue) /\ UNCHANGED <<jobs, timers>> /\ wk[w].job = None
      /\ wk' = [wk EXCEPT ![w] = AtRest("throttle")]
  BY DEF StartFails, Kept, RunsItsOwn, Running
<1>2. runsBar' = runsBar
  <2>1. Makers' = Makers /\ \A v \in Makers : wk'[v] = wk[v]
    BY <1>1 DEF Makers, AtRest, Kept, Shapes
  <2>2. runsBar' = {Made(wk'[v]) : v \in Makers'}
    BY Zenon DEF runsBar, Made, Makers
  <2> QED BY <2>1, <2>2, Bars
<1>3. waitsBar' = {Waiting(t, jobs) : t \in PendingRetries'}
  BY <1>1 DEF waitsBar, Waiting
<1>4. CASE PendingRetries' = PendingRetries
  BY <1>2, <1>3, <1>4, Bars DEF Attempts!vars
<1>5. ASSUME NEW task \in PendingRetries, PendingRetries' = PendingRetries \ {task}
      PROVE  Attempts!Next
  <2>1. \A u \in PendingRetries : u.retryOf = task.retryOf => u = task
    BY <1>5, OneEach
  <2>2. PICK a : a = Waiting(task, jobs)
    OBVIOUS
  <2>3. a \in waitsBar /\ waitsBar' = waitsBar \ {a}
    BY <1>3, <1>5, <2>1, <2>2, WaitsWithout, Bars
  <2>4. Attempts!Lose(a)
    BY <1>2, <2>3 DEF Attempts!Lose
  <2> QED BY <2>3, <2>4 DEF Attempts!Next
<1> QED
  BY <1>1, <1>4, <1>5, HeadTaken

(* A timer hands its retry to the queue, or loses it.                       *)
LEMMA TimerRefines ==
    ASSUME Types, Kept, TimerStep
    PROVE  [Attempts!Next]_Attempts!vars
<1>1. PICK t \in timers : FireRetry(t) \/ DropRetry(t)
  BY DEF TimerStep
<1>2. UNCHANGED <<jobs, wk>> /\ timers' = timers \ {t}
  BY <1>1 DEF FireRetry, DropRetry, Spend
<1>3. runsBar' = runsBar
  BY <1>2 DEF runsBar
<1>4. waitsBar' = {Waiting(u, jobs) : u \in PendingRetries'}
  BY <1>2 DEF waitsBar, Waiting
<1>5. t \in PendingRetries /\ t \notin Queued /\ t.retryOf # None
  BY NoneAssumption DEF PendingRetries, Kept, Shapes, RetriesAreOfFailures
<1>6. CASE FireRetry(t)
  <2>1. queue' = Append(queue, t)
    BY <1>6 DEF FireRetry
  <2>2. Queued' = Queued \cup {t}
    BY <2>1, Sent DEF Kept, Shapes
  <2>3. PendingRetries' = PendingRetries
    BY <1>2, <1>5, <2>2 DEF PendingRetries
  <2> QED BY <1>3, <1>4, <2>3, Bars DEF Attempts!vars
<1>7. CASE DropRetry(t)
  <2>1. Queued' = Queued
    BY <1>7 DEF DropRetry, Queued
  <2>2. PendingRetries' = PendingRetries \ {t}
    BY <1>2, <1>5, <2>1 DEF PendingRetries
  <2>3. \A u \in PendingRetries : u.retryOf = t.retryOf => u = t
    BY <1>5, OneEach
  <2>4. PICK a : a = Waiting(t, jobs)
    OBVIOUS
  <2>5. a \in waitsBar /\ waitsBar' = waitsBar \ {a}
    BY <1>4, <1>5, <2>2, <2>3, <2>4, WaitsWithout, Bars
  <2>6. Attempts!Lose(a)
    BY <1>3, <2>5 DEF Attempts!Lose
  <2> QED BY <2>5, <2>6 DEF Attempts!Next
<1> QED
  BY <1>1, <1>6, <1>7

(* A worker is done with an attempt, which waits for a retry or is over.    *)
LEMMA FinishRefines ==
    ASSUME Types, Kept, NEW w \in Workers, Finish(w)
    PROVE  Attempts!Next
<1>1. PICK k : k = wk[w].job
  OBVIOUS
<1>2. k \in JobIds /\ k # None /\ w \in Makers
  BY <1>1, NoneAssumption DEF Finish, Kept, RunsItsOwn, Running, Makers
<1>3. PICK a : a = Made(wk[w])
  OBVIOUS
<1>4. a.job = k /\ a.sym = wk[w].sym /\ a.tries = wk[w].retry
  BY <1>1, <1>3 DEF Made
<1>5. a \in runsBar /\ runsBar' = runsBar \ {a}
  <2>1. wk' = [wk EXCEPT ![w] = AtRest("throttle")]
    BY DEF Finish
  <2>2. Makers' = Makers \ {w} /\ \A v \in Makers' : wk'[v] = wk[v]
    BY <2>1 DEF Makers, AtRest, Kept, Shapes
  <2>3. runsBar' = {Made(wk'[v]) : v \in Makers'}
    BY Zenon DEF runsBar, Made, Makers
  <2>4. runsBar' = {Made(wk[v]) : v \in Makers \ {w}}
    BY <2>2, <2>3
  <2> QED BY <1>2, <1>3, <2>4, RunsWithout, Bars
<1>6. Queued' = Queued
  BY DEF Finish, Queued
<1>7. /\ \A j \in JobIds : j # k => jobs'[j].retry = jobs[j].retry
      /\ jobs'[k].retry = jobs[k].retry
  BY <1>1, <1>2 DEF Finish, UpdateJob, Types, JobTypes, Rows
<1>8. \A t \in PendingRetries : Waiting(t, jobs') = Waiting(t, jobs)
  BY <1>7 DEF Waiting, Kept, Shapes
<1>9. waitsBar' = {Waiting(t, jobs') : t \in PendingRetries'}
  BY Zenon DEF waitsBar, Waiting
<1>10. CASE UNCHANGED timers
  <2>1. PendingRetries' = PendingRetries
    BY <1>6, <1>10 DEF PendingRetries
  <2>2. waitsBar' = waitsBar
    BY <1>8, <1>9, <2>1, Bars
  <2>3. Attempts!End(a)
    BY <1>5, <2>2 DEF Attempts!End
  <2> QED BY <1>5, <2>3 DEF Attempts!Next
<1>11. CASE wk[w].retry < MaxRetries /\ timers' = timers \cup {Task(wk[w].sym, wk[w].job)}
  <2>1. PICK t : t = Task(wk[w].sym, k)
    OBVIOUS
  <2>2. t.sym = a.sym /\ t.retryOf = k
    BY <1>4, <2>1 DEF Task
  <2>3. PendingRetries' = PendingRetries \cup {t}
    BY <1>1, <1>6, <1>11, <2>1 DEF PendingRetries
  <2>4. waitsBar' = waitsBar \cup {Waiting(t, jobs')}
    BY <1>8, <1>9, <2>3, Bars
  <2>5. jobs'[k].retry \in {0, a.tries}
    <3>1. jobs[k].status = "none" => jobs[k].retry = 0
      BY <1>2 DEF Types, JobTypes
    <3> QED
      BY <1>1, <1>4, <1>7, <3>1 DEF Kept, RunsItsOwn, Finish, Running
  <2>6. Waiting(t, jobs') = Attempts!Attempt(a.job, a.sym, jobs'[k].retry)
    BY <1>4, <2>2 DEF Waiting, Attempts!Attempt
  <2>7. a.tries < MaxRetries
    BY <1>4, <1>11
  <2>8. Attempts!Fail(a)
    BY <1>5, <2>4, <2>5, <2>6, <2>7 DEF Attempts!Fail
  <2> QED BY <1>5, <2>8 DEF Attempts!Next
<1> QED
  BY <1>10, <1>11 DEF Finish

(* The rows of a symbol go, and with them the counts of what waits.         *)
LEMMA CleanUpRefines ==
    ASSUME Types, Kept, NEW s \in Symbols, CleanUp(s)
    PROVE  Attempts!Next
<1>1. runsBar' = runsBar
  BY DEF CleanUp, runsBar
<1>2. PendingRetries' = PendingRetries
  BY DEF CleanUp, PendingRetries, Queued
<1>3. jobs' = [j \in JobIds |-> IF jobs[j].sym = s THEN NoRow ELSE jobs[j]]
  BY DEF CleanUp
<1> DEFINE Cleared(a) == IF a.sym = s THEN Attempts!Attempt(a.job, s, 0) ELSE a
<1>4. ASSUME NEW t \in PendingRetries
      PROVE  Waiting(t, jobs') = Cleared(Waiting(t, jobs))
  <2>1. t.retryOf \in JobIds
    BY DEF Kept, Shapes
  <2>2. \/ jobs[t.retryOf].status = "none" /\ jobs[t.retryOf].retry = 0
        \/ jobs[t.retryOf].sym = t.sym
    BY <2>1 DEF Kept, RetriesAreOfFailures, Types, JobTypes
  <2>3. jobs'[t.retryOf].retry = IF t.sym = s THEN 0 ELSE jobs[t.retryOf].retry
    BY <1>3, <2>1, <2>2 DEF NoRow
  <2> QED BY <2>3 DEF Waiting, Attempts!Attempt
<1>5. waitsBar' = {Waiting(t, jobs') : t \in PendingRetries}
  BY <1>2 DEF waitsBar, Waiting
<1>6. waitsBar' = {Cleared(a) : a \in waitsBar}
  <2> HIDE DEF Cleared
  <2> QED BY <1>4, <1>5, Bars
<1>7. Attempts!Forget(s)
  BY <1>1, <1>6, Zenon DEF Attempts!Forget
<1> QED
  BY <1>7 DEF Attempts!Next

LEMMA InitRefines == Init => Attempts!Init
<1> SUFFICES ASSUME Init PROVE runsBar = {} /\ waitsBar = {}
  BY DEF Attempts!Init
<1>1. PendingRetries = {} /\ Makers = {}
  BY DEF Init, PendingRetries, Queued, Makers, AtRest
<1> QED
  BY <1>1, Bars

LEMMA NextRefines ==
    ASSUME Types, Kept, [Next]_vars
    PROVE  [Attempts!Next]_Attempts!vars
<1>1. CASE Calm
  BY <1>1 DEF Calm, Attempts!vars, runsBar, waitsBar, PendingRetries, Queued
<1>2. CASE GenSend
  <2>1. PICK s : queue' = Append(queue, Task(s, None)) /\ UNCHANGED <<jobs, timers, wk>>
    BY <1>2 DEF GenSend
  <2>2. Queued' = Queued \cup {Task(s, None)} /\ Task(s, None).retryOf = None
    BY <2>1, Sent DEF Kept, Shapes, Task
  <2>3. PendingRetries' = PendingRetries
    BY <2>1, <2>2 DEF PendingRetries
  <2> QED BY <2>1, <2>3 DEF Attempts!vars, runsBar, waitsBar
<1>3. CASE Restart
  <2>1. queue' = <<>> /\ timers' = {} /\ wk' = [w \in Workers |-> AtRest("idle")]
    BY <1>3 DEF Restart
  <2>2. PendingRetries' = {} /\ Makers' = {}
    BY <2>1 DEF PendingRetries, Queued, Makers, AtRest
  <2>3. runsBar' = {} /\ waitsBar' = {}
    BY <2>2 DEF runsBar, waitsBar, Makers
  <2>4. Attempts!Crash
    BY <2>3 DEF Attempts!Crash
  <2> QED BY <2>4 DEF Attempts!Next
<1>4. ASSUME NEW w \in Workers, Advance(w)
      PROVE  UNCHANGED <<runsBar, waitsBar>>
  <2>1. UNCHANGED <<jobs, queue, timers>> /\ \E pc : wk' = [wk EXCEPT ![w].pc = pc]
    BY <1>4 DEF Advance, GoTo
  <2>2. \A v \in Workers : Made(wk'[v]) = Made(wk[v]) /\ wk'[v].job = wk[v].job
    BY <2>1 DEF Made, Kept, Shapes
  <2>3. Makers' = Makers
    BY <2>2 DEF Makers
  <2>4. runsBar' = {Made(wk'[v]) : v \in Makers'}
    BY Zenon DEF runsBar, Made, Makers
  <2>5. Makers \subseteq Workers
    BY DEF Makers
  <2>6. runsBar' = runsBar
    BY <2>2, <2>3, <2>4, <2>5, Bars
  <2>7. waitsBar' = waitsBar
    BY <2>1 DEF waitsBar, PendingRetries, Queued
  <2> QED BY <2>6, <2>7
<1> QED
  BY <1>1, <1>2, <1>3, <1>4, StepsSorted, StartRefines, StartFailsRefines, TimerRefines,
     FinishRefines, CleanUpRefines DEF Attempts!vars

(* The scheduler keeps the contract of JobAttempts: seen from outside, an   *)
(* attempt runs, waits for its one retry, and is over, in atomic steps,     *)
(* through queue, timers, tables, removals and restarts.                    *)
THEOREM SchedulerImplementsAttempts == Spec => ImplementsAttempts
<1>1. Init => Kept
  BY FreshKeeps DEF Init, NoRow
<1>2. Types /\ Kept /\ [Next]_vars => [Attempts!Next]_Attempts!vars
  BY NextRefines
<1> QED
  BY <1>1, <1>2, InitTypes, NextTypes, NextKeeps, InitRefines, PTL
     DEF Spec, ImplementsAttempts, Attempts!Spec

-----------------------------------------------------------------------------
(* What follows from the contract alone.                                    *)

Counts == \A a \in runsBar \cup waitsBar : a.tries \in Nat

LEMMA AttemptsBegin == Attempts!Init => Attempts!Promise
BY DEF Attempts!Init, Attempts!Promise

LEMMA AttemptsGoOn ==
    ASSUME Counts, Attempts!Promise, [Attempts!Next]_Attempts!vars
    PROVE  Attempts!Promise'
<1> USE DEF Attempts!Promise
<1>1. CASE UNCHANGED Attempts!vars
  BY <1>1 DEF Attempts!vars
<1>2. ASSUME NEW j \in JobIds, NEW s \in Symbols, Attempts!Begin(j, s)
      PROVE  Attempts!Promise'
  BY <1>2 DEF Attempts!Begin, Attempts!Free, Attempts!Attempt, MaxRetries
<1>3. ASSUME NEW a \in waitsBar, Attempts!Lose(a)
      PROVE  Attempts!Promise'
  BY <1>3 DEF Attempts!Lose
<1>4. ASSUME NEW a \in waitsBar, NEW j \in JobIds, Attempts!Retry(a, j)
      PROVE  Attempts!Promise'
  BY <1>4 DEF Attempts!Retry, Attempts!Free, Attempts!Attempt, MaxRetries, Counts
<1>5. ASSUME NEW a \in runsBar, Attempts!End(a)
      PROVE  Attempts!Promise'
  BY <1>5 DEF Attempts!End
<1>6. ASSUME NEW a \in runsBar, Attempts!Fail(a)
      PROVE  Attempts!Promise'
  BY <1>6 DEF Attempts!Fail, Attempts!Attempt, MaxRetries, Counts
<1>7. ASSUME NEW s \in Symbols, Attempts!Forget(s)
      PROVE  Attempts!Promise'
  BY <1>7 DEF Attempts!Forget, Attempts!Attempt, MaxRetries, Counts
<1>8. CASE Attempts!Crash
  BY <1>8 DEF Attempts!Crash
<1> QED
  BY <1>1, <1>2, <1>3, <1>4, <1>5, <1>6, <1>7, <1>8 DEF Attempts!Next

(* However generator, workers, timers, users and restarts interleave, a job *)
(* is attempted by one worker at a time, does not wait for a retry while it *)
(* runs, and is given no more retries than the limit.                       *)
THEOREM AttemptsAreCounted == Spec => []Attempts!Promise
<1>1. Types /\ Kept => Counts
  <2> SUFFICES ASSUME Types, Kept PROVE Counts
    OBVIOUS
  <2>1. \A w \in Workers : wk[w].retry \in Nat
    BY DEF Types, JobTypes, WorkerStates
  <2>2. \A j \in JobIds : jobs[j].retry \in Nat
    BY DEF Types, JobTypes, Rows
  <2> QED BY <2>1, <2>2 DEF Counts, runsBar, waitsBar, Kept, Shapes
<1>2. Init => Kept
  BY FreshKeeps DEF Init, NoRow
<1>3. Counts /\ Attempts!Promise /\ [Attempts!Next]_Attempts!vars => Attempts!Promise'
  BY AttemptsGoOn
<1> QED
  BY <1>1, <1>2, <1>3, AttemptsBegin, SchedulerImplementsAttempts, InitTypes, NextTypes,
     NextKeeps, PTL DEF Spec, ImplementsAttempts, Attempts!Spec

-----------------------------------------------------------------------------
(* Room.  The queue and the timers keep to their bounds, and whatever waits *)
(* or runs leaves an ID for the job of the next task.                       *)

WithinBounds ==
    /\ Len(queue) <= QueueSize
    /\ IsFiniteSet(timers) /\ Cardinality(timers) <= MaxTimers

IDForEveryTask ==
    \A w \in Workers : wk[w].pc = "idle" /\ queue # <<>> =>
                           JobIds \ Referenced(Tail(queue)) # {}

LEMMA NextWithinBounds == Kept /\ WithinBounds /\ [Next]_vars => WithinBounds'
<1> SUFFICES ASSUME Kept, WithinBounds, [Next]_vars
             PROVE  WithinBounds'
  OBVIOUS
<1> USE DEF WithinBounds
<1>1. CASE UNCHANGED <<queue, timers>>
  BY <1>1
<1>2. CASE GenSend
  <2>1. PICK t : queue' = Append(queue, t) /\ Len(queue) < QueueSize /\ timers' = timers
    BY <1>2 DEF GenSend
  <2>2. Len(queue') = Len(queue) + 1 /\ Len(queue) \in Nat
    BY <2>1 DEF Kept, Shapes
  <2> QED BY <2>1, <2>2, SizesAssumption
<1>3. ASSUME NEW t \in timers, FireRetry(t) \/ DropRetry(t) PROVE WithinBounds'
  <2>1. timers' = timers \ {t}
    BY <1>3 DEF FireRetry, DropRetry, Spend
  <2>2. IsFiniteSet(timers') /\ Cardinality(timers') <= Cardinality(timers)
    BY <2>1, FS_Subset
  <2>3. Cardinality(timers') \in Nat /\ Cardinality(timers) \in Nat
    BY <2>2, FS_CardinalityType
  <2>4. Len(queue') <= QueueSize
    <3>1. CASE FireRetry(t)
      <4>1. queue' = Append(queue, t) /\ Len(queue) < QueueSize
        BY <3>1 DEF FireRetry
      <4>2. Len(queue') = Len(queue) + 1 /\ Len(queue) \in Nat
        BY <4>1 DEF Kept, Shapes
      <4> QED BY <4>1, <4>2, SizesAssumption
    <3>2. CASE DropRetry(t)
      BY <3>2 DEF DropRetry
    <3> QED BY <1>3, <3>1, <3>2
  <2> QED BY <2>2, <2>3, <2>4, BoundsAssumption
<1>4. ASSUME NEW w \in Workers, Start(w) \/ StartFails(w) PROVE WithinBounds'
  <2>1. queue # <<>> /\ queue' = Tail(queue) /\ timers' = timers
    BY <1>4 DEF Start, StartFails
  <2>2. Len(queue') = Len(queue) - 1 /\ Len(queue) \in Nat
    BY <2>1 DEF Kept, Shapes
  <2> QED BY <2>1, <2>2, SizesAssumption
<1>5. ASSUME NEW w \in Workers, HandleFailure(w) PROVE WithinBounds'
  <2>1. /\ queue' = queue /\ Cardinality(timers) < MaxTimers
        /\ timers' \in {timers, timers \cup {Task(wk[w].sym, wk[w].job)}}
    BY <1>5 DEF HandleFailure, ArmRetry
  <2>2. IsFiniteSet(timers') /\ Cardinality(timers') <= Cardinality(timers) + 1
    <3> DEFINE t == Task(wk[w].sym, wk[w].job)
    <3>1. Cardinality(timers) \in Nat
      BY FS_CardinalityType
    <3>2. /\ IsFiniteSet(timers \cup {t})
          /\ Cardinality(timers \cup {t}) = IF t \in timers THEN Cardinality(timers)
                                              ELSE Cardinality(timers) + 1
      <4> HIDE DEF t
      <4> QED BY FS_AddElement
    <3>3. Cardinality(timers \cup {t}) <= Cardinality(timers) + 1
      BY <3>1, <3>2
    <3>4. CASE timers' = timers \cup {t}
      BY <3>2, <3>3, <3>4, Zenon
    <3>5. CASE timers' = timers
      BY <3>1, <3>5
    <3> QED BY <2>1, <3>4, <3>5
  <2>3. Cardinality(timers') \in Nat /\ Cardinality(timers) \in Nat
    BY <2>2, FS_CardinalityType
  <2> QED BY <2>1, <2>2, <2>3, BoundsAssumption
<1>6. CASE Restart
  <2>1. queue' = <<>> /\ timers' = {}
    BY <1>6 DEF Restart
  <2> QED BY <2>1, FS_EmptySet, SizesAssumption, BoundsAssumption
<1>7. ASSUME NEW w \in Workers, WorkerStep(w), ~Start(w), ~StartFails(w), ~HandleFailure(w)
      PROVE  UNCHANGED <<queue, timers>>
  BY <1>7 DEF WorkerStep, SaveCache, SaveSnapshot, FetchFails, HandleSuccess, UpdateFails,
     Throttled, WorkerStop
<1>8. ASSUME NEW s \in Symbols, UserStep(s) PROVE UNCHANGED <<queue, timers>>
  BY <1>8 DEF UserStep, AddSymbol, RemoveSymbol, CleanUp, Configure
<1>9. ASSUME GeneratorStep, ~GenSend PROVE UNCHANGED <<queue, timers>>
  BY <1>9 DEF GeneratorStep, GenQuery, GenQueryFails, GenGroup, GenDrop, GenStop
<1>10. ASSUME Tick \/ Cancel \/ UNCHANGED vars PROVE UNCHANGED <<queue, timers>>
  BY <1>10 DEF Tick, Cancel, vars
<1> QED
  BY <1>1, <1>2, <1>3, <1>4, <1>5, <1>6, <1>7, <1>8, <1>9, <1>10 DEF Next, TimerStep

LEMMA BoundsSuffice == Kept /\ WithinBounds => IDForEveryTask
<1> SUFFICES ASSUME Kept, WithinBounds, NEW w \in Workers, wk[w].pc = "idle", queue # <<>>,
                    JobIds \subseteq Referenced(Tail(queue))
             PROVE  FALSE
  BY DEF IDForEveryTask
<1> DEFINE q == Tail(queue)
           n == Len(q)
           Others == Workers \ {w}
           Run == {wk[v].job : v \in Others}
           Wait == {q[m].retryOf : m \in 1 .. n}
           Armed == {t.retryOf : t \in timers}
<1>1. n \in Nat /\ n + 1 <= QueueSize /\ DOMAIN q = 1 .. n
  BY DEF Kept, Shapes, WithinBounds
<1>2. IsFiniteSet(Run) /\ Cardinality(Run) <= Cardinality(Workers) - 1
  <2>1. IsFiniteSet(Others) /\ Cardinality(Others) = Cardinality(Workers) - 1
    BY SymbolsAssumption, FS_RemoveElement
  <2> DEFINE f == [v \in Others |-> wk[v].job]
  <2>2. Run = {f[v] : v \in Others}
    OBVIOUS
  <2> HIDE DEF f, Run, Others
  <2> QED BY <2>1, <2>2, ImageIsSmaller
<1>3. IsFiniteSet(Wait) /\ Cardinality(Wait) <= n
  <2> DEFINE f == [m \in 1 .. n |-> q[m].retryOf]
             Ms == 1 .. n
  <2>1. Wait = {f[m] : m \in Ms}
    OBVIOUS
  <2>2. IsFiniteSet(Ms) /\ Cardinality(Ms) = n
    BY <1>1, FS_Interval
  <2> HIDE DEF f, Wait, Ms, n
  <2> QED BY <2>1, <2>2, ImageIsSmaller
<1>4. IsFiniteSet(Armed) /\ Cardinality(Armed) <= Cardinality(timers)
  <2> DEFINE f == [t \in timers |-> t.retryOf]
  <2>1. Armed = {f[t] : t \in timers}
    OBVIOUS
  <2> HIDE DEF f, Armed
  <2> QED BY <2>1, ImageIsSmaller DEF WithinBounds
<1>5. JobIds \subseteq (Run \cup Wait) \cup Armed
  <2>1. wk[w].job = None
    BY DEF Kept, RunsItsOwn, Running
  <2>2. Referenced(q) \subseteq ({None} \cup Run \cup Wait) \cup Armed
    BY <1>1, <2>1 DEF Referenced
  <2> QED BY <2>2, NoneAssumption
<1>6. /\ IsFiniteSet(Run \cup Wait)
      /\ Cardinality(Run \cup Wait) <= Cardinality(Run) + Cardinality(Wait)
  <2> HIDE DEF Run, Wait
  <2>1. IsFiniteSet(Run \cup Wait) /\ IsFiniteSet(Run \cap Wait)
    BY <1>2, <1>3, FS_Union, FS_Subset
  <2>2. /\ Cardinality(Run) \in Nat /\ Cardinality(Wait) \in Nat
        /\ Cardinality(Run \cap Wait) \in Nat
    BY <1>2, <1>3, <2>1, FS_CardinalityType
  <2>3. Cardinality(Run \cup Wait)
          = Cardinality(Run) + Cardinality(Wait) - Cardinality(Run \cap Wait)
    BY <1>2, <1>3, FS_Union
  <2> QED BY <2>1, <2>2, <2>3
<1>7. /\ IsFiniteSet((Run \cup Wait) \cup Armed)
      /\ Cardinality((Run \cup Wait) \cup Armed)
           <= Cardinality(Run) + Cardinality(Wait) + Cardinality(Armed)
  <2> DEFINE U == Run \cup Wait
  <2> HIDE DEF Run, Wait, Armed, U
  <2>0. IsFiniteSet(U) /\ Cardinality(U) <= Cardinality(Run) + Cardinality(Wait)
    BY <1>6 DEF U
  <2>1. IsFiniteSet(U \cup Armed) /\ IsFiniteSet(U \cap Armed)
    BY <1>4, <2>0, FS_Union, FS_Subset
  <2>2. /\ Cardinality(Run) \in Nat /\ Cardinality(Wait) \in Nat
        /\ Cardinality(U) \in Nat /\ Cardinality(Armed) \in Nat
        /\ Cardinality(U \cap Armed) \in Nat
    BY <1>2, <1>3, <1>4, <2>0, <2>1, FS_CardinalityType
  <2>3. Cardinality(U \cup Armed)
          = Cardinality(U) + Cardinality(Armed) - Cardinality(U \cap Armed)
    BY <1>4, <2>0, FS_Union
  <2>4. /\ IsFiniteSet(U \cup Armed)
        /\ Cardinality(U \cup Armed)
             <= Cardinality(Run) + Cardinality(Wait) + Cardinality(Armed)
    BY <2>0, <2>1, <2>2, <2>3
  <2> QED BY <2>4 DEF U
<1>8. /\ IsFiniteSet(JobIds)
      /\ Cardinality(JobIds) <= Cardinality(Run) + Cardinality(Wait) + Cardinality(Armed)
  <2> DEFINE U == (Run \cup Wait) \cup Armed
  <2> HIDE DEF Run, Wait, Armed
  <2>1. IsFiniteSet(JobIds) /\ Cardinality(JobIds) <= Cardinality(U)
    BY <1>5, <1>7, FS_Subset
  <2>2. /\ Cardinality(JobIds) \in Nat /\ Cardinality(U) \in Nat
        /\ Cardinality(Run) \in Nat /\ Cardinality(Wait) \in Nat /\ Cardinality(Armed) \in Nat
    BY <1>2, <1>3, <1>4, <1>7, <2>1, FS_CardinalityType
  <2> QED BY <1>7, <2>1, <2>2
<1>9. /\ Cardinality(Run) \in Nat /\ Cardinality(Wait) \in Nat /\ Cardinality(Armed) \in Nat
      /\ Cardinality(JobIds) \in Nat /\ Cardinality(Workers) \in Nat
      /\ Cardinality(timers) \in Nat
  BY <1>2, <1>3, <1>4, <1>8, SymbolsAssumption, FS_CardinalityType DEF WithinBounds
<1> QED
  <2> HIDE DEF Run, Wait, Armed, n
  <2> QED BY <1>1, <1>2, <1>3, <1>4, <1>8, <1>9, JobIdsAssumption, SizesAssumption,
             BoundsAssumption DEF WithinBounds

(* A worker that takes a task always finds an ID for its job: to use the    *)
(* IDs of forgotten rows again, where the code counts on, leaves out no     *)
(* behaviour.  The queue never holds more than the channel does.            *)
THEOREM TasksFindTheirIDs == Spec => [](Len(queue) <= QueueSize /\ IDForEveryTask)
<1>1. Init => Kept
  BY FreshKeeps DEF Init, NoRow
<1>2. Init => WithinBounds
  BY FS_EmptySet, SizesAssumption, BoundsAssumption DEF Init, WithinBounds
<1>3. Kept /\ WithinBounds => Len(queue) <= QueueSize /\ IDForEveryTask
  BY BoundsSuffice DEF WithinBounds
<1> QED
  BY <1>1, <1>2, <1>3, NextKeeps, NextWithinBounds, PTL DEF Spec
=============================================================================
