---------------------------- MODULE MCIbRequests ----------------------------
(* IbRequests for TLC: one caller uses every method while another one reads *)
(* executions over the same connection.                                     *)
EXTENDS IbRequests

CONSTANTS Trader, Bookkeeper

TwoCallers == {Trader, Bookkeeper}
AllAndExecutions == [c \in TwoCallers |->
                        IF c = Trader THEN Ops ELSE {"GetExecutions"}]
=============================================================================
