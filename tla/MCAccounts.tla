----------------------------- MODULE MCAccounts -----------------------------
(* A small instance of Accounts for TLC: one account, and the alerts of the desk tab. *)
EXTENDS Accounts

CONSTANTS ana, alerts
OneUser    == {ana}
OnlyAlerts == {alerts}
OnDesk     == [k \in Keys |-> "desk"]
=============================================================================
