---------------------- MODULE RefreshSchedulerAttempts ----------------------
(***************************************************************************)
(* RefreshScheduler implements JobAttempts: the attempts under way are     *)
(* those of the workers with a job; those that wait are in a timer or in   *)
(* the queue, and their count is that of their row.                        *)
(***************************************************************************)
EXTENDS RefreshScheduler

runsBar  == {[job |-> wk[w].job, sym |-> wk[w].sym, tries |-> wk[w].retry] :
               w \in {v \in Workers : wk[v].job # None}}
waitsBar == {[job |-> t.retryOf, sym |-> t.sym, tries |-> jobs[t.retryOf].retry] :
               t \in PendingRetries}

Attempts == INSTANCE JobAttempts WITH
               Jobs <- JobIds, Syms <- Symbols, Limit <- MaxRetries,
               runs <- runsBar, waits <- waitsBar

(* Every step of generator, workers, timers, users and restarts moves at    *)
(* most one attempt, and as the contract says: a retry that comes back      *)
(* after it ran, that is for another symbol or that is one too many shows   *)
(* as a step that the contract lacks.                                       *)
ImplementsAttempts == Attempts!Spec
=============================================================================
