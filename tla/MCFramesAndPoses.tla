-------------------------- MODULE MCFramesAndPoses --------------------------
(* FrameTransport and TrackingHandoff in one instance.  Frames go from the  *)
(* host to the client, poses from the client to the application, and they   *)
(* share no variable: a behaviour follows either path, whichever `path`     *)
(* says, and the other one stays as it began.                               *)
EXTENDS MCFrameTransport, MCTrackingHandoff

VARIABLE path

everything == <<path, vars, handoff>>

\* Machines may have started at different times on the path of poses only.
PathsInit ==
    /\ Init /\ HandoffInit /\ path \in {"frames", "poses"}
    /\ path = "frames" => \A m \in Machines, u \in Uptimes : booted[m] <= -u

FramesStep == path = "frames" /\ Next /\ UNCHANGED <<path, handoff>>
PosesStep  == path = "poses" /\ HandoffNext /\ UNCHANGED <<path, vars>>

PathsSpec == PathsInit /\ [][FramesStep \/ PosesStep]_everything
=============================================================================
