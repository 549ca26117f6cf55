---------------------------- MODULE MCBrokerPool ----------------------------
(* BrokerPool for TLC: slots, requests and broker objects are               *)
(* interchangeable.                                                         *)
EXTENDS BrokerPoolLease, TLC

Symmetry == Permutations(Slots) \cup Permutations(Requests)
                \cup Permutations(Conns)
=============================================================================
