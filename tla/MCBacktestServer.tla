------------------------- MODULE MCBacktestServer --------------------------
(* Instances of BacktestServer for TLC. *)
EXTENDS BacktestServer

CONSTANTS r1, r2

TwoRequests == {r1, r2}
=============================================================================
