---------------------------- MODULE FrameChannel ----------------------------
(***************************************************************************)
(* What the frame path promises its user, whatever the datagrams do: a     *)
(* frame that comes out is one that went in, whole and unaltered.  Frames  *)
(* may be lost, delivered late, out of order or more than once.            *)
(***************************************************************************)
CONSTANT Frames      \* every frame a sender may ever hand over

VARIABLES sent,      \* the frames handed over so far
          delivered  \* the frames that have come out

TypeOK == sent \subseteq Frames /\ delivered \subseteq Frames

Init == sent = {} /\ delivered = {}

Send == sent \subseteq sent' /\ sent' \subseteq Frames /\ UNCHANGED delivered

Deliver == delivered \subseteq delivered' /\ delivered' \subseteq sent /\ UNCHANGED sent

Next == Send \/ Deliver

Spec == Init /\ [][Next]_<<sent, delivered>>
=============================================================================
