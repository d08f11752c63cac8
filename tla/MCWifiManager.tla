--------------------------- MODULE MCWifiManager ---------------------------
(***************************************************************************)
(* Instances of WifiManager for TLC: what the portal's user does.          *)
(***************************************************************************)
EXTENDS WifiManager

Connects   == {"connect"}
Drops      == {"disconnect"}
DropsLooks == {"disconnect", "scan"}
=============================================================================
