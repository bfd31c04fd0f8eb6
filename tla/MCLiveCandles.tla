--------------------------- MODULE MCLiveCandles ---------------------------
(* Small instances of LiveCandles for TLC. *)
EXTENDS LiveCandles, TLC

CONSTANTS btc, eth, none
TwoCoins  == {btc, eth}
OneAndTwo == {1, 2}
Symmetry  == Permutations(TwoCoins)
=============================================================================
