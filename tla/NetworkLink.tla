----------------------------- MODULE NetworkLink -----------------------------
(***************************************************************************)
(* The network framework and the host as the reconnecting clients          *)
(* (ViewerTransport, BridgeSimulator) meet them.                           *)
(*                                                                         *)
(* A client runs in callbacks on one serial queue: state changes of its    *)
(* connections, answers to their one outstanding receive, completions of   *)
(* their sends.  A callback may run long after what it reports, when its   *)
(* connection has been given up and another one is in use: `calls` holds   *)
(* the callbacks of each connection that are on their way, and connections *)
(* are served in any order.  A connection object is used again only when   *)
(* nothing refers to it any more.                                          *)
(*                                                                         *)
(* Each operator says what happens to the five variables; what the client  *)
(* does with it is the client's module.                                    *)
(***************************************************************************)
CONSTANT Conns          \* NWConnection objects

VARIABLES
    link,               \* the state of each connection
    receiving,          \* connections with an unanswered receive
    sent,               \* connections with unacknowledged bytes
    calls,              \* callbacks on their way, per connection
    host                \* what the host does; "down" when there is none

network == <<link, receiving, sent, calls>>

StateEvents == {"waiting", "ready", "failed", "cancelled"}
Links       == {"none", "starting", "waiting", "ready", "closed", "gone",
                "failed", "cancelled"}
Healthy     == {"starting", "waiting", "ready"}

NoConnections ==
    /\ link = [c \in Conns |-> "none"] /\ calls = [c \in Conns |-> {}]
    /\ receiving = {} /\ sent = {}
-----------------------------------------------------------------------------
\* What a client does with a connection.

\* start() of a new connection, with a receive already waiting.
Opens(c) ==
    /\ link[c] = "none"
    /\ link' = [link EXCEPT ![c] = "starting"]
    /\ receiving' = receiving \cup {c}
    /\ UNCHANGED <<sent, calls, host>>

\* A callback runs.  The framework reports the states of a connection in their
\* order.
Comes(c, e) ==
    /\ e \in calls[c]
    /\ e \in StateEvents \ {"waiting"} => "waiting" \notin calls[c]
    /\ e \in {"failed", "cancelled"} => "ready" \notin calls[c]
    /\ calls' = [calls EXCEPT ![c] = @ \ {e}]

Sends(connections) == sent' = sent \cup connections
-----------------------------------------------------------------------------
\* What happens by itself.

Moves(c, from, to, reports) ==
    /\ link[c] \in from
    /\ link'  = [link EXCEPT ![c] = to]
    /\ calls' = [calls EXCEPT ![c] = @ \cup reports]
    /\ UNCHANGED <<receiving, sent, host>>

Establish(c) == host # "down" /\ Moves(c, {"starting"}, "ready", {"ready"})

\* Nobody answers: the framework waits for the network to change, or gives up.
CannotConnect(c) ==
    /\ host = "down"
    /\ \E outcome \in {"waiting", "failed"} : Moves(c, {"starting"}, outcome, {outcome})

\* The network path changes, and the framework tries again.  That the host is
\* back is no such change: a connection it refused may wait for ever.
NetworkChanges(c) == Moves(c, {"waiting"}, "starting", {})

\* A host that is alive but does not want this client.
HostCloses(c) == host = "rejecting" /\ Moves(c, {"ready"}, "closed", {})

\* A peer that is gone without a word is noticed when sent bytes stay
\* unacknowledged.
Notice(c) == c \in sent /\ Moves(c, {"closed", "gone"}, "failed", {"failed"})

Delivers(c, e) ==
    /\ c \in receiving /\ receiving' = receiving \ {c}
    /\ calls' = [calls EXCEPT ![c] = @ \cup {e}]
    /\ UNCHANGED <<link, sent, host>>

\* The answer to the outstanding receive: data of some kind, or the end.
AnswerReceive(c, data) ==
    \/ link[c] = "ready" /\ \E e \in data : Delivers(c, e)
    \/ link[c] = "closed" /\ Delivers(c, "complete")
    \/ link[c] \in {"failed", "cancelled"} /\ Delivers(c, "recvError")

\* Outstanding bytes are acknowledged, or their send fails with the connection.
AnswerSend(c) ==
    /\ c \in sent
    /\ \/ link[c] = "ready" /\ UNCHANGED calls
       \/ /\ link[c] \in {"failed", "cancelled"}
          /\ calls' = [calls EXCEPT ![c] = @ \cup {"sendError"}]
    /\ sent' = sent \ {c}
    /\ UNCHANGED <<link, receiving, host>>

\* Nothing refers to the connection any more.
Release(c) ==
    /\ link[c] = "cancelled" /\ calls[c] = {} /\ c \notin receiving \cup sent
    /\ link' = [link EXCEPT ![c] = "none"]
    /\ UNCHANGED <<receiving, sent, calls, host>>

\* The host goes down, comes back, or behaves otherwise.  When it goes down its
\* connections are closed, or vanish with the machine.
HostBecomes(behaviour) ==
    /\ host' = behaviour /\ host' # host
    /\ IF host' # "down" THEN UNCHANGED link
       ELSE \E lost \in {"closed", "gone"} :
                link' = [c \in Conns |-> IF link[c] = "ready" THEN lost ELSE link[c]]
    /\ UNCHANGED <<receiving, sent, calls>>
=============================================================================
