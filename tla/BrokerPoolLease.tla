-------------------------- MODULE BrokerPoolLease --------------------------
(***************************************************************************)
(* BrokerPool implements SlotLease: the channel is the idle set, a slot    *)
(* between acquire and release is leased to its request, a slot in a       *)
(* repair goroutine or in checkIdleConnections' slice is in service.       *)
(***************************************************************************)
EXTENDS BrokerPool

idleBar    == Range(avail)
leasedBar  == {p \in Slots \X Requests : slotOf[p[2]] = p[1]}
serviceBar == {p \in Slots \X {"repair", "check"} :
                 \/ p[2] = "repair" /\ UnderRepair(p[1])
                 \/ p[2] = "check" /\ HeldByChecker(p[1])}

Lease == INSTANCE SlotLease WITH
            Clients <- Requests, idle <- idleBar, leased <- leasedBar,
            service <- serviceBar, open <- Open

(* Every step of the pool moves at most one slot, and as its contract says; *)
(* a slot that is in two places at once shows as a step the contract lacks. *)
ImplementsLease == Lease!Spec
=============================================================================
