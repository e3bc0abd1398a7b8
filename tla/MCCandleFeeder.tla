--------------------------- MODULE MCCandleFeeder ---------------------------
(* Instances of CandleFeeder for TLC. *)
EXTENDS CandleFeeder

CONSTANTS eth, xmr

TwoMarkets == {eth, xmr}
=============================================================================
