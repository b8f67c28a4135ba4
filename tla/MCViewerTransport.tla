-------------------------- MODULE MCViewerTransport --------------------------
(* The instance of ViewerTransport for TLC.                                 *)
EXTENDS ViewerTransport

CONSTANTS c1, c2

MCConns == {c1, c2}
=============================================================================
