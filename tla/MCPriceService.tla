--------------------------- MODULE MCPriceService ---------------------------
(* Small instances of PriceService for TLC. *)
EXTENDS PriceService

CONSTANTS btc, eth, usd, eur
MCCoins      == {btc, eth}
UsdEur       == {usd, eur}
ReadsMayFail == {TRUE, FALSE}
ReadsWork    == {FALSE}
=============================================================================
