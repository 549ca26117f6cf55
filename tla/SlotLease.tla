----------------------------- MODULE SlotLease -----------------------------
(***************************************************************************)
(* What the broker pool promises its callers: a slot is idle, leased to    *)
(* one client, or in the pool's own service (repair or health check); it   *)
(* moves between these in one piece, and is lost only after the shutdown.  *)
(***************************************************************************)
CONSTANTS Slots, Clients

VARIABLES
    idle,      \* slots a client may lease
    leased,    \* pairs <<slot, client>>
    service,   \* pairs <<slot, "repair" or "check">>
    open

vars == <<idle, leased, service, open>>

Init == idle = Slots /\ leased = {} /\ service = {} /\ open = TRUE

Lease(s, c) ==
    /\ s \in idle /\ \A t \in Slots : <<t, c>> \notin leased
    /\ idle' = idle \ {s}
    /\ leased' = leased \cup {<<s, c>>}
    /\ UNCHANGED <<service, open>>

Return(s, c) ==
    /\ <<s, c>> \in leased
    /\ leased' = leased \ {<<s, c>>}
    /\ idle' = idle \cup {s}
    /\ UNCHANGED <<service, open>>

(* The client found the slot dead: it goes to repair, not back to idle.     *)
Retire(s, c) ==
    /\ <<s, c>> \in leased
    /\ leased' = leased \ {<<s, c>>}
    /\ service' = service \cup {<<s, "repair">>}
    /\ UNCHANGED <<idle, open>>

Inspect(s) ==
    /\ s \in idle
    /\ idle' = idle \ {s}
    /\ service' = service \cup {<<s, "check">>}
    /\ UNCHANGED <<leased, open>>

Restore(s, kind) ==
    /\ <<s, kind>> \in service
    /\ service' = service \ {<<s, kind>>}
    /\ idle' = idle \cup {s}
    /\ UNCHANGED <<leased, open>>

Shutdown == open /\ open' = FALSE /\ UNCHANGED <<idle, leased, service>>

Lose(dropped) ==
    /\ ~open
    /\ service' = service \ dropped
    /\ UNCHANGED <<idle, leased, open>>

Next ==
    \/ \E s \in Slots, c \in Clients : Lease(s, c) \/ Return(s, c) \/ Retire(s, c)
    \/ \E s \in Slots : Inspect(s)
    \/ \E s \in Slots, kind \in {"repair", "check"} : Restore(s, kind)
    \/ Shutdown
    \/ \E dropped \in SUBSET service : Lose(dropped)

Spec == Init /\ [][Next]_vars

-----------------------------------------------------------------------------
(* A slot is in one place, a client has one slot at most, and none is       *)
(* missing while the pool is open.                                          *)
Promise ==
    /\ \A p \in leased :
          /\ p[1] \notin idle
          /\ \A q \in leased : p[1] = q[1] \/ p[2] = q[2] => p = q
          /\ \A q \in service : p[1] # q[1]
    /\ \A p \in service :
          /\ p[1] \notin idle
          /\ \A q \in service : p[1] = q[1] => p = q
    /\ open => \A s \in Slots : s \in idle \/ \E p \in leased \cup service : p[1] = s
=============================================================================
