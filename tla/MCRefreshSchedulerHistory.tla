--------------------- MODULE MCRefreshSchedulerHistory ----------------------
(* Instances of RefreshSchedulerHistory for TLC.                            *)
EXTENDS RefreshSchedulerHistory, TLC

Symmetry == Permutations(Symbols) \cup Permutations(Workers) \cup Permutations(JobIds)

(* No symbol is removed and the server stays up; a worker takes a task off  *)
(* the queue without running it.                                            *)
Pacing ==
    /\ removing = {} /\ ctx = "live"
    /\ \A w \in Workers : wk[w].pc \in {"idle", "throttle"}
=============================================================================
