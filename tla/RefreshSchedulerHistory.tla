---------------------- MODULE RefreshSchedulerHistory -----------------------
(* RefreshScheduler with a history variable for the properties that relate a *)
(* state to what happened before.                                           *)
EXTENDS RefreshScheduler

VARIABLE
    overdue      \* minutes for which a symbol has been due, undisturbed

hvars == <<vars, overdue>>

HInit ==
    /\ Init
    /\ overdue = [s \in Symbols |-> 0]

(* A minute passes, or something other than pacing gets in the way.         *)
Disturbed(s) ==
    \/ row[s] # "on" \/ row'[s] # row[s] \/ ivl'[s] # ivl[s]
    \/ ctx = "cancelled" \/ gen = "stopped" \/ GenQueryFails \/ GenDrop \/ Restart
    \/ sending # <<>> /\ Head(sending) = s

HNext ==
    /\ Next
    /\ overdue' = [s \in Symbols |->
                     IF Disturbed(s) THEN 0
                     ELSE IF Tick /\ since'[s] >= ivl[s]
                     THEN Min({overdue[s] + 1, Never}) ELSE overdue[s]]

HSpec == HInit /\ [][HNext]_hvars

(* shouldDispatchBatch is to "distribute batches evenly over the interval   *)
(* window": no symbol that became due still waits a whole interval later.   *)
WithinOneWindow == \A s \in Symbols : overdue[s] <= ivl[s]
=============================================================================
