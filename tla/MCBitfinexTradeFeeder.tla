---------------------- MODULE MCBitfinexTradeFeeder ------------------------
(* Instances of BitfinexTradeFeeder for TLC. *)
EXTENDS BitfinexTradeFeeder

CONSTANTS btcusd, ethusd

TwoMarkets == {btcusd, ethusd}
=============================================================================
