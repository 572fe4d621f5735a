----------------------------- MODULE MCCloudBridge -----------------------------
(* CloudBridge for TLC.                                                       *)
EXTENDS CloudBridge

CONSTANTS a1, a2, m1
=============================================================================
