------------------------- MODULE BrokerPoolHistory -------------------------
(***************************************************************************)
(* BrokerPool with history variables, for the properties of the reconnect  *)
(* backoff that speak of the past of a slot.  The history reads the        *)
(* program's state and never constrains it.                                *)
(***************************************************************************)
EXTENDS BrokerPool

VARIABLES
    dialledAt,  \* when the broker now in a slot was dialled (0: none)
    failedAt    \* when a reconnect of the slot last failed (0: never)

hvars == <<vars, dialledAt, failedAt>>

HInit ==
    /\ Init
    /\ dialledAt = [s \in Slots |-> 0] /\ failedAt = [s \in Slots |-> 0]

Record ==
    /\ dialledAt' = [s \in Slots |->
                        IF b'[s] = NoConn THEN 0
                        ELSE IF b[s] # b'[s] THEN now ELSE dialledAt[s]]
    /\ failedAt' = [s \in Slots |->
                        IF failCount'[s] > failCount[s] THEN now ELSE failedAt[s]]

HSpec == HInit /\ [][Next /\ Record]_hvars

-----------------------------------------------------------------------------
(* A slot's consecutive failures are at least their backoffs apart, so a    *)
(* gateway that stays down is not hammered: the f-th failure is followed by *)
(* the next no sooner than the doubling, capped schedule allows, whatever   *)
(* requests, repairs and the checker's own delays do in between.            *)
FailuresPaced ==
    [][\A s \in Slots : failCount[s] > 0 /\ failCount'[s] > failCount[s]
          => now >= failedAt[s] + BackoffFor(failCount[s])]_hvars

(* "A flapping gateway (handshake then drop) cannot reset the backoff via a *)
(* momentary success": when the backoff clears, the connection in the slot  *)
(* is one that was dialled at least dwellWindow ago.                        *)
FlapNeverClears ==
    [][\A s \in Slots : failCount[s] > 0 /\ failCount'[s] = 0
          => dialledAt[s] # 0 /\ now - dialledAt[s] >= DwellWindow]_hvars
=============================================================================
