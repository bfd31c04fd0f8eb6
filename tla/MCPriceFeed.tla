---------------------------- MODULE MCPriceFeed ----------------------------
(* Small instances of PriceFeed for TLC. *)
EXTENDS PriceFeed

CONSTANTS c1, c2
OneConn  == {c1}
TwoConns == {c1, c2}
=============================================================================
