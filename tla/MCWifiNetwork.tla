---------------------------- MODULE MCWifiNetwork ----------------------------
(* Instances of WifiNetwork for TLC: two sensors and three devices. *)
EXTENDS WifiNetwork, TLC
=============================================================================
