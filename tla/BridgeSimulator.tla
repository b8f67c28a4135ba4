--------------------------- MODULE BridgeSimulator ---------------------------
(***************************************************************************)
(* BridgeSimulator, the frame producer: its control channel to the bridge  *)
(* ingest, with health checks and reconnecting, and the transport of its   *)
(* frames, which each welcome negotiates anew.                             *)
(*                                                                         *)
(* Everything runs on one serial queue: callbacks of the connections       *)
(* (NetworkLink), ping timer, frame timer, reconnect work item and the     *)
(* block of stop().  Time is counted in ticks of the ping timer: `silence` *)
(* is the number of ticks since lastControlReceiveNs.  The JPEG input and  *)
(* the content of frames are left out; a UDP flow is the one connection    *)
(* udpConnection, or none, and its port is a valid one.                    *)
(***************************************************************************)
EXTENDS NetworkLink, Naturals

CONSTANTS
    NoConn,
    MaxAttempt,     \* reconnectAttempt stops growing here (16 in the code)
    StaleTicks      \* controlStaleTimeoutNs in ping intervals (5 in the code)

ASSUME SimulatorAssumption ==
    NoConn \notin Conns /\ MaxAttempt \in Nat \ {0} /\ StaleTicks \in Nat \ {0}

VARIABLES
    phase,              \* "new", "started", "stopping" (block queued), "stopped"
    controlConnection,
    controlPingTimer,   \* the timers run or do not
    sendTimer,
    reconnectWorkItem,
    reconnectAttempt,
    silence,            \* ticks since lastControlReceiveNs
    selectedTransport,  \* "tcpInlineBase64" or "udpChunked"
    selectedUDPAuthToken,\* the connection whose welcome carried it, or NoConn
    udpConnection,      \* the connection whose welcome opened it, or NoConn
    greeted,            \* history: connections on which hello was sent
    welcomed,           \* history: connections whose welcome was handled
    quiet               \* history: ticks since the connection in use was made
                        \* ready or its last bytes were handled

transport == <<selectedTransport, selectedUDPAuthToken, udpConnection>>
control   == <<controlConnection, controlPingTimer, reconnectWorkItem, reconnectAttempt>>
history   == <<greeted, welcomed, quiet>>
own       == <<phase, control, sendTimer, silence, transport, history>>
vars      == <<own, network, host>>

isStopped == phase = "stopped"

\* A welcome is for either transport, or for UDP without a usable token.
Welcomes == {"inline", "udp", "udpWithoutToken"}

\* What received data says is decided when it is read.
Events   == StateEvents \cup {"data", "complete", "recvError", "sendError"}

\* A bridge ingest that closes this connection alone is one that goes down and
\* comes back, as far as the simulator can tell.
Hosts    == {"down", "serving"}

Init ==
    /\ phase = "new" /\ host \in Hosts /\ NoConnections
    /\ controlConnection = NoConn /\ controlPingTimer = FALSE /\ sendTimer = FALSE
    /\ reconnectWorkItem = FALSE /\ reconnectAttempt = 0 /\ silence = 0
    /\ selectedTransport = "tcpInlineBase64"
    /\ selectedUDPAuthToken = NoConn /\ udpConnection = NoConn
    /\ greeted = {} /\ welcomed = {} /\ quiet = 0
-----------------------------------------------------------------------------
\* Connecting and giving up.

isCurrentControlConnection(c) == c = controlConnection

connectControl ==
    \E c \in Conns :
        /\ Opens(c)
        /\ reconnectWorkItem' = FALSE
        /\ controlConnection' = c
        /\ greeted' = greeted \ {c} /\ welcomed' = welcomed \ {c} /\ quiet' = 0

scheduleReconnect ==
    /\ reconnectWorkItem' = TRUE
    /\ reconnectAttempt' = IF reconnectWorkItem \/ reconnectAttempt = MaxAttempt
                           THEN reconnectAttempt ELSE reconnectAttempt + 1

\* Everything that was negotiated on the connection goes with it.
handleControlDisconnect(c) ==
    IF isStopped \/ ~isCurrentControlConnection(c)
    THEN UNCHANGED <<control, sendTimer, transport, link>>
    ELSE /\ controlPingTimer' = FALSE /\ sendTimer' = FALSE
         /\ selectedTransport' = "tcpInlineBase64"
         /\ selectedUDPAuthToken' = NoConn /\ udpConnection' = NoConn
         /\ link' = [link EXCEPT ![controlConnection] = "cancelled"]
         /\ controlConnection' = NoConn
         /\ scheduleReconnect

\* start(), called once, on the caller's thread.
Start ==
    /\ phase = "new" /\ phase' = "started"
    /\ connectControl
    /\ UNCHANGED <<controlPingTimer, reconnectAttempt, sendTimer, silence, transport>>

\* The work item's time has come; stop() would have cancelled it.
ReconnectDue ==
    /\ reconnectWorkItem /\ ~isStopped
    /\ connectControl
    /\ UNCHANGED <<phase, controlPingTimer, reconnectAttempt, sendTimer, silence, transport>>

\* stop() only queues its block.
QueueStop ==
    /\ phase = "started" /\ phase' = "stopping"
    /\ UNCHANGED <<control, sendTimer, silence, transport, history, network, host>>

\* The block of stop(): state handlers are taken away before anything is
\* cancelled.
Stop ==
    /\ phase = "stopping" /\ phase' = "stopped"
    /\ reconnectWorkItem' = FALSE /\ controlPingTimer' = FALSE /\ sendTimer' = FALSE
    /\ udpConnection' = NoConn /\ controlConnection' = NoConn
    /\ link' = [c \in Conns |-> IF c = controlConnection THEN "cancelled" ELSE link[c]]
    /\ UNCHANGED <<reconnectAttempt, silence, selectedTransport, selectedUDPAuthToken,
                   history, receiving, sent, calls, host>>
-----------------------------------------------------------------------------
\* Callbacks.

\* State changes and received data of a connection that was given up.
Stale(c) ==
    /\ ~isCurrentControlConnection(c)
    /\ \E e \in Events \ {"sendError"} : Comes(c, e)
    /\ UNCHANGED <<own, link, receiving, sent, host>>

\* .ready: hello, and from now on pings.
Ready(c) ==
    /\ isCurrentControlConnection(c) /\ Comes(c, "ready")
    /\ reconnectAttempt' = 0 /\ silence' = 0 /\ quiet' = 0
    /\ Sends({controlConnection}) /\ greeted' = greeted \cup {controlConnection}
    /\ controlPingTimer' = TRUE
    /\ UNCHANGED <<phase, controlConnection, reconnectWorkItem, sendTimer, transport,
                   welcomed, link, receiving, host>>

\* .waiting is not looked at.
Waiting(c) ==
    /\ isCurrentControlConnection(c) /\ Comes(c, "waiting")
    /\ UNCHANGED <<own, link, receiving, sent, host>>

\* .failed and .cancelled.
Failed(c) ==
    /\ isCurrentControlConnection(c)
    /\ Comes(c, "failed") \/ Comes(c, "cancelled")
    /\ handleControlDisconnect(c)
    /\ UNCHANGED <<phase, silence, history, receiving, sent, host>>

\* Faulty variant: without a token the transport of before stays selected.
WelcomeKeptUDP(c, kind) ==
    IF kind = "inline"
    THEN selectedTransport' = "tcpInlineBase64"
         /\ selectedUDPAuthToken' = NoConn /\ udpConnection' = NoConn
    ELSE selectedTransport' = "udpChunked" /\ udpConnection' = c
         /\ selectedUDPAuthToken' = IF kind = "udp" THEN c ELSE NoConn

\* UDP needs a usable token; without one frames go inline.
handleWelcome(c, kind) ==
    IF kind = "udp"
    THEN selectedTransport' = "udpChunked"
         /\ selectedUDPAuthToken' = c /\ udpConnection' = c
    ELSE selectedTransport' = "tcpInlineBase64"
         /\ selectedUDPAuthToken' = NoConn /\ udpConnection' = NoConn

\* Bytes arrived: they show that the host is there, and the next receive is
\* issued.
BytesArrived(c) ==
    /\ isCurrentControlConnection(c) /\ Comes(c, "data")
    /\ silence' = 0 /\ quiet' = 0
    /\ receiving' = receiving \cup {c}
    /\ UNCHANGED <<phase, control, greeted, link, sent, host>>

\* The answer to hello: the frame timer starts.
WelcomeReceived(c) ==
    /\ BytesArrived(c) /\ c \notin welcomed
    /\ \E kind \in Welcomes : handleWelcome(c, kind)
    /\ sendTimer' = TRUE /\ welcomed' = welcomed \cup {c}

\* Pongs, errors and parts of lines.
OtherReceived(c) == BytesArrived(c) /\ UNCHANGED <<transport, sendTimer, welcomed>>

\* The receive ended with an error, or the host closed the connection.
ReceiveEnded(c) ==
    /\ isCurrentControlConnection(c)
    /\ Comes(c, "complete") \/ Comes(c, "recvError")
    /\ handleControlDisconnect(c)
    /\ UNCHANGED <<phase, silence, history, receiving, sent, host>>

\* A send completed with an error.
SendFailed(c) ==
    /\ Comes(c, "sendError")
    /\ handleControlDisconnect(c)
    /\ UNCHANGED <<phase, silence, history, receiving, sent, host>>

\* A tick more, counted up to the first beyond the limit.
OneMore(ticks) == IF ticks > StaleTicks THEN ticks ELSE ticks + 1

\* Faulty variant: the pings themselves count as a sign of life.
HealthFromPings ==
    /\ controlPingTimer /\ controlConnection # NoConn
    /\ silence' = 0 /\ quiet' = OneMore(quiet)
    /\ Sends({controlConnection})
    /\ UNCHANGED <<phase, control, sendTimer, transport, greeted, welcomed,
                   link, receiving, calls, host>>

\* The ping timer: after too long a silence the connection is given up as if it
\* had failed, otherwise a ping goes out.
tickControlHealth ==
    /\ controlPingTimer /\ controlConnection # NoConn
    /\ silence' = OneMore(silence) /\ quiet' = OneMore(quiet)
    /\ IF silence' > StaleTicks
       THEN handleControlDisconnect(controlConnection) /\ UNCHANGED sent
       ELSE Sends({controlConnection}) /\ UNCHANGED <<control, sendTimer, transport, link>>
    /\ UNCHANGED <<phase, greeted, welcomed, receiving, calls, host>>

\* The pongs of a serving host are faster than the limit, counted on their own
\* connection.
Tick ==
    /\ tickControlHealth
    /\ host = "serving" /\ link[controlConnection] = "ready" => quiet < StaleTicks

\* submitFrame: inline frames go over the control connection, others need the
\* UDP connection and the token.
submitFrame ==
    /\ sendTimer
    /\ Sends(IF selectedTransport = "udpChunked" THEN {} ELSE {controlConnection} \ {NoConn})
    /\ UNCHANGED <<own, link, receiving, calls, host>>
-----------------------------------------------------------------------------
Callback(c) == \/ Ready(c) \/ Waiting(c) \/ Failed(c) \/ WelcomeReceived(c)
               \/ OtherReceived(c) \/ ReceiveEnded(c) \/ SendFailed(c) \/ Stale(c)

\* A serving bridge ingest answers hello and pings.
HostAnswers(c) ==
    /\ host = "serving" /\ c \in greeted /\ AnswerReceive(c, {"data"})
    /\ UNCHANGED own

Framework(c) ==
    /\ \/ Establish(c) \/ CannotConnect(c) \/ NetworkChanges(c) \/ Notice(c)
       \/ AnswerReceive(c, {}) \/ AnswerSend(c) \/ Release(c)
    /\ UNCHANGED own

HostChanges ==
    /\ \E behaviour \in Hosts : HostBecomes(behaviour)
    /\ UNCHANGED own

Next ==
    \/ Start \/ ReconnectDue \/ QueueStop \/ Stop \/ Tick \/ submitFrame \/ HostChanges
    \/ \E c \in Conns : Callback(c) \/ Framework(c) \/ HostAnswers(c)

Spec == Init /\ [][Next]_vars

\* The queue runs what is on it, timers and delays expire, the framework
\* delivers and connects to a host that is there when it tries, and a serving
\* host answers hello, in however many pieces, and pings.  Nothing says that the
\* framework ever notices a peer that is gone, or that the network changes under
\* a connection that waits.
Fairness ==
    /\ WF_vars(Start) /\ WF_vars(ReconnectDue) /\ WF_vars(Stop) /\ WF_vars(Tick)
    /\ \A c \in Conns :
          /\ WF_vars(Ready(c)) /\ WF_vars(Waiting(c)) /\ WF_vars(Failed(c))
          /\ SF_vars(WelcomeReceived(c)) /\ WF_vars(OtherReceived(c))
          /\ WF_vars(ReceiveEnded(c)) /\ WF_vars(HostAnswers(c))
          /\ WF_vars(SendFailed(c)) /\ WF_vars(Stale(c))
          /\ WF_vars(Establish(c) /\ UNCHANGED own)
          /\ WF_vars(AnswerReceive(c, {}) /\ UNCHANGED own)
          /\ WF_vars(AnswerSend(c) /\ UNCHANGED own)
          /\ WF_vars(Release(c) /\ UNCHANGED own)

FairSpec == Spec /\ Fairness
-----------------------------------------------------------------------------
\* Properties.

\* A frame goes out only after the welcome of the connection in use, and in the
\* way that welcome negotiated: over UDP with its token and to its port, or
\* inline.  Nothing of an earlier connection is used again.
FramesAsNegotiated ==
    /\ sendTimer => controlConnection \in welcomed
    /\ IF selectedTransport = "udpChunked" /\ ~isStopped
       THEN sendTimer /\ selectedUDPAuthToken = controlConnection /\ udpConnection = controlConnection
       ELSE udpConnection = NoConn

\* The connection in use is given up only when it ended, or when it was silent
\* for more than the limit itself: neither late callbacks nor the silence of an
\* earlier connection count.
HealthyIsKept ==
    [][controlConnection # NoConn /\ controlConnection' # controlConnection =>
            isStopped' \/ link[controlConnection] \notin Healthy \/ quiet' > StaleTicks]_vars

Streaming == sendTimer /\ link[controlConnection] = "ready"

\* Refused while the host was down, and left to the framework.
Waits == controlConnection # NoConn /\ link[controlConnection] = "waiting"

\* CHANGELOG: "Bridge simulator reconnect handling after host restarts".  Once
\* the host stays up and serves, frames go out on a connection to it and go on,
\* unless the simulator was stopped, even if the framework never notices that
\* the last host has gone.  One exception: a retry that came while the host was
\* still down may wait for a change of the network, which nobody looks at.
ReconnectsOrWaits ==
    <>[](host = "serving") => <>[](isStopped \/ Streaming \/ Waits)
=============================================================================
