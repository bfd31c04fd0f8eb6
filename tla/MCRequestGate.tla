--------------------------- MODULE MCRequestGate ---------------------------
(* Small instances of RequestGate for TLC. *)
EXTENDS RequestGate

CONSTANT ip1
OneIp    == {ip1}
OffOrTwo == {0, 2}
=============================================================================
