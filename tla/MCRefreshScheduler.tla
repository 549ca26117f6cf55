------------------------- MODULE MCRefreshScheduler -------------------------
(* Instances of RefreshScheduler for TLC.                                   *)
EXTENDS RefreshSchedulerAttempts, TLC

Symmetry == Permutations(Symbols) \cup Permutations(Workers) \cup Permutations(JobIds)

(* The server stays up, auto refresh is on for every watched symbol, and no *)
(* symbol is overdue by more than a minute.                                 *)
StayUp ==
    /\ ctx = "live"
    /\ \A s \in Symbols : row[s] # "off" /\ since[s] \in (0 .. Cap) \cup {Never}

(* Nobody edits the watchlist; an initial state has any subset watched.     *)
Unedited == removing = {} /\ \A s \in Symbols : row[s] # "off"
=============================================================================
