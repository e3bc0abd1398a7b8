---------------------- MODULE MCSingleTradeBacktester ----------------------
(* An instance of SingleTradeBacktester for TLC: both fees are 2 %, rounded down. *)
EXTENDS SingleTradeBacktester

MCFee == [p \in Levels |-> p \div 50]
=============================================================================
