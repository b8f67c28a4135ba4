---------------------------- MODULE MCTrustStore ----------------------------
(* Instances of TrustStore for TLC.                                         *)
EXTENDS TrustStore

CONSTANTS local, remote

MCIds == {local, remote}
MCLoopback == {local}

ControlCenter ==
    [owner |-> "ControlCenter", commandsBeside |-> TRUE,
     readsMayFail |-> TRUE, writesMayFail |-> TRUE]
RuntimeCommand ==
    [owner |-> "RuntimeCommand", commandsBeside |-> FALSE,
     readsMayFail |-> FALSE, writesMayFail |-> TRUE]

MCSettings == {ControlCenter, RuntimeCommand}
MCBeside ==
    {[RuntimeCommand EXCEPT !.commandsBeside = TRUE, !.writesMayFail = FALSE]}
=============================================================================
