-------------------------- MODULE MCBridgeSimulator --------------------------
(* The instance of BridgeSimulator for TLC.                                 *)
EXTENDS BridgeSimulator

CONSTANTS c1, c2

MCConns == {c1, c2}
=============================================================================
