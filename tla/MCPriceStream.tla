--------------------------- MODULE MCPriceStream ---------------------------
(* Small instances of PriceStream for TLC. *)
EXTENDS PriceStream

CONSTANTS btc, eth
OneSymbol  == {btc}
TwoSymbols == {btc, eth}
=============================================================================
