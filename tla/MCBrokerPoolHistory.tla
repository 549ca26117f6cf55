------------------------ MODULE MCBrokerPoolHistory ------------------------
(* BrokerPoolHistory for TLC: one slot, a clock that lets it fail several   *)
(* times.                                                                   *)
EXTENDS BrokerPoolHistory, TLC

StayOpen == Open
Symmetry == Permutations(Conns)
=============================================================================
