---------------------------- MODULE MCLivePrices ----------------------------
(* Small instances of LivePrices for TLC. *)
EXTENDS LivePrices

CONSTANTS btcusd, btceur
TwoPairs == {btcusd, btceur}
UsdPairs == {btcusd}
=============================================================================
