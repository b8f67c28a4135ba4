--------------------------- MODULE MCHostSession ---------------------------
(* An instance of HostSession for TLC.                                      *)
EXTENDS HostSession

CONSTANTS c1, c2
=============================================================================
