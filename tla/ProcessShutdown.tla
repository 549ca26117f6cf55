-------------------------- MODULE ProcessShutdown --------------------------
(***************************************************************************)
(* How `optix server` ends (cli/server.go, cli/root.go,                    *)
(* cli/shutdown_watchdog.go, webui/server.go): the handler every command   *)
(* installs, which the server suppresses; the relay of signal.NotifyContext*)
(* and the watchdog that takes over from it; HTTP drain, pool, store.  And *)
(* how any other command ends: the root handler alone.  Waiting for a      *)
(* timer is a step; signals are those of the operator.                     *)
(***************************************************************************)
EXTENDS Naturals

CONSTANT MaxSignals                     \* bound of the model

VARIABLES
    server,         \* is the command `optix server`
    signals,        \* sent so far
    rootCh,         \* a signal waits in the root handler's channel
    root,           \* ... the handler: "wait", "cleanup", "ignored"
    suppressed,     \* signalExitSuppressed
    relay,          \* NotifyContext: "none", "wait", "cancelled", "stopped"
    dog,            \* the watchdog: "none", "ctx", "arming", "watch", "stopped"
    dogCh,          \* a signal waits in the watchdog's channel
    main,           \* the command itself
    refresh,        \* a background refresh: "no", "runs"
    store,          \* "closed" or "open", or "none" before it is opened
    exit            \* "no", or how the process ended

vars == <<server, signals, rootCh, root, suppressed, relay, dog, dogCh, main, refresh, store, exit>>

Init ==
    /\ server \in BOOLEAN
    /\ signals = 0 /\ rootCh = FALSE /\ root = "wait" /\ suppressed = FALSE
    /\ relay = "none" /\ dog = "none" /\ dogCh = FALSE
    /\ main = "begin" /\ refresh = "no" /\ store = "none" /\ exit = "no"

(* Go delivers a signal to every channel that is registered; all of them    *)
(* have room for one.                                                       *)
Signal ==
    /\ signals < MaxSignals
    /\ signals' = signals + 1
    /\ rootCh' = TRUE
    /\ relay' = IF relay = "wait" THEN "cancelled" ELSE relay
    /\ dogCh' = (dogCh \/ dog = "watch")
    /\ UNCHANGED <<server, root, suppressed, dog, main, refresh, store, exit>>

(* initSignalHandler and handleSignal: one signal, cleanup in the           *)
(* background, exit when it is done or after five seconds.                  *)
RootTakes ==
    /\ rootCh /\ root = "wait"
    /\ rootCh' = FALSE
    /\ root' = IF suppressed THEN "ignored" ELSE "cleanup"
    /\ UNCHANGED <<server, signals, suppressed, relay, dog, dogCh, main, refresh, store, exit>>

RootExits ==
    /\ root = "cleanup"
    /\ \/ store' = IF store = "open" THEN "closed" ELSE store
       \/ UNCHANGED store               \* the cleanup hung
    /\ exit' = "signal"
    /\ UNCHANGED <<server, signals, rootCh, root, suppressed, relay, dog, dogCh, main, refresh>>

-----------------------------------------------------------------------------
Step(from, to) == main = from /\ main' = to

Suppress ==
    /\ server /\ Step("begin", "opening") /\ suppressed' = TRUE
    /\ UNCHANGED <<server, signals, rootCh, root, relay, dog, dogCh, refresh, store, exit>>

OpenStore ==
    /\ IF server THEN Step("opening", "wiring") ELSE Step("begin", "working")
    /\ store' = "open"
    /\ UNCHANGED <<server, signals, rootCh, root, suppressed, relay, dog, dogCh, refresh, exit>>

Notify ==
    /\ Step("wiring", "arming") /\ relay' = "wait"
    /\ UNCHANGED <<server, signals, rootCh, root, suppressed, dog, dogCh, refresh, store, exit>>

ArmWatchdog ==
    /\ Step("arming", "serving") /\ dog' = "ctx"
    /\ UNCHANGED <<server, signals, rootCh, root, suppressed, relay, dogCh, refresh, store, exit>>

(* maybeBackgroundRefresh: with a context of its own.                       *)
BackgroundRefresh ==
    /\ main \in {"serving", "draining"} /\ refresh = "no"
    /\ refresh' = "runs"
    /\ UNCHANGED <<server, signals, rootCh, root, suppressed, relay, dog, dogCh, main, store, exit>>

RefreshEnds ==
    /\ refresh = "runs" /\ refresh' = "no"
    /\ UNCHANGED <<server, signals, rootCh, root, suppressed, relay, dog, dogCh, main, store, exit>>

(* Start: on ctx.Done it drains for up to five seconds; on a failed listen  *)
(* it returns at once.  Either way the deferred close of the pool runs.     *)
Drain ==
    /\ \/ relay = "cancelled" /\ Step("serving", "draining")
       \/ Step("draining", "closing pool")
       \/ Step("serving", "closing pool")       \* the listener failed
       \/ Step("serving", "unwinding")          \* the scheduler did not start
    /\ UNCHANGED <<server, signals, rootCh, root, suppressed, relay, dog, dogCh, refresh, store, exit>>

(* A Disconnect of the pool may never return.                               *)
PoolCloses ==
    /\ main = "closing pool" /\ main' \in {"unwinding", "hung"}
    /\ UNCHANGED <<server, signals, rootCh, root, suppressed, relay, dog, dogCh, refresh, store, exit>>

(* The deferred calls in their order: stopWatchdog, stop, store.Close.      *)
Unwind ==
    /\ \/ /\ Step("unwinding", "stopped") /\ dog' = "stopped" /\ relay' = "stopped"
          /\ UNCHANGED <<store, exit>>
       \/ /\ Step("stopped", "returned") /\ store' = "closed" /\ exit' = "clean"
          /\ UNCHANGED <<dog, relay>>
    /\ UNCHANGED <<server, signals, rootCh, root, suppressed, dogCh, refresh>>

(* Any other command returns when its work is done, the server when a       *)
(* service cannot be made.                                                  *)
CommandReturns ==
    /\ Step("working", "returned") \/ Step("wiring", "returned")
    /\ store' = "closed" /\ exit' = "clean"
    /\ UNCHANGED <<server, signals, rootCh, root, suppressed, relay, dog, dogCh, refresh>>

Main ==
    Suppress \/ OpenStore \/ Notify \/ ArmWatchdog \/ Drain \/ PoolCloses \/ Unwind \/ CommandReturns

-----------------------------------------------------------------------------
(* armForceExitWatchdog: wakes when ctx is done, then subscribes.           *)
MayWake == dog = "arming" \/ (dog = "ctx" /\ relay = "cancelled")

DogWakes ==
    /\ MayWake
    /\ dog' = IF dog = "ctx" THEN "arming" ELSE "watch"
    /\ UNCHANGED <<server, signals, rootCh, root, suppressed, relay, dogCh, main, refresh, store, exit>>

(* watchShutdownDeadline: a second signal, or ten seconds.                  *)
NoDeadline == FALSE                     \* mutant: only a second signal ends it
Deadline == TRUE

MayBite == dog = "watch" /\ (dogCh \/ Deadline)

DogBites ==
    /\ MayBite
    /\ exit' = "forced"
    /\ UNCHANGED <<server, signals, rootCh, root, suppressed, relay, dog, dogCh, main, refresh, store>>

Own == Main \/ RootTakes \/ RootExits \/ DogWakes \/ DogBites \/ RefreshEnds

Next == exit = "no" /\ (Own \/ Signal \/ BackgroundRefresh)

Spec == Init /\ [][Next]_vars

-----------------------------------------------------------------------------
TypeOK ==
    /\ signals \in 0 .. MaxSignals
    /\ exit \in {"no", "clean", "signal", "forced"}
    /\ store \in {"none", "open", "closed"}

(* Wherever a shutdown that has begun hangs, the watchdog has a step of its *)
(* own to take, or is armed by the next one of the command.                 *)
StepRemains == relay = "cancelled" /\ exit = "no" => main = "arming" \/ MayWake \/ MayBite

(* A server that returned in time is not killed afterwards, and its store   *)
(* is closed only after drain and pool, never by the root handler between.  *)
ClosesInOrder ==
    /\ main = "stopped" => dog = "stopped"
    /\ suppressed /\ store = "closed" /\ exit # "signal" => main = "returned"

(* A shutdown that has begun needs nobody, not another signal either.       *)
ShutdownNeedsNobody == StepRemains /\ ClosesInOrder

=============================================================================
