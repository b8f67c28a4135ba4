--------------------------- MODULE ViewerTransport ---------------------------
(***************************************************************************)
(* The control channel of ViewerTransport, the viewer's client (that of    *)
(* MacVRClient is the same): connect, hello, poses and pings, and          *)
(* reconnecting with a growing delay after the host went away.             *)
(*                                                                         *)
(* Everything runs on one serial queue: the callbacks of the connections   *)
(* (NetworkLink), the two timers, the reconnect work item and the block    *)
(* queued by stop().                                                       *)
(***************************************************************************)
EXTENDS NetworkLink, Naturals

CONSTANTS
    NoConn,
    MaxAttempt      \* reconnectAttempt stops growing here (16 in the code)

ASSUME ViewerAssumption == NoConn \notin Conns /\ MaxAttempt \in Nat \ {0}

VARIABLES
    phase,                \* "new", "started", "stopping" (block queued), "stopped"
    controlConnection,
    controlReceiveBuffer, \* the connections whose bytes are in the unfinished line
    controlTimers,        \* poseTimer and pingTimer: started and stopped together
    reconnectWorkItem,    \* a work item is waiting for its time
    reconnectAttempt,
    connectionState,      \* status.connectionState, what the viewer shows
    greeted               \* history: connections on which hello was sent

client == <<controlConnection, controlReceiveBuffer, controlTimers,
            reconnectWorkItem, reconnectAttempt, connectionState>>
own    == <<phase, client, greeted>>
vars   == <<own, network, host>>

isStopped == phase = "stopped"

Data   == {"part", "line"}
Events == StateEvents \cup Data \cup {"complete", "recvError", "sendError"}
States == {"Idle", "Connecting", "Connected", "Waiting", "Reconnecting", "Disconnected"}

Init ==
    /\ phase = "new" /\ host \in {"down", "rejecting", "serving"}
    /\ controlConnection = NoConn /\ controlReceiveBuffer = {}
    /\ controlTimers = FALSE /\ reconnectWorkItem = FALSE
    /\ reconnectAttempt = 0 /\ connectionState = "Idle"
    /\ greeted = {} /\ NoConnections
-----------------------------------------------------------------------------
\* Connecting and giving up.

\* Faulty variant: any connection passes as long as there is one in use.
IsAnyConnection(c) == controlConnection # NoConn

isCurrentControlConnection(c) == c = controlConnection

\* A new connection takes the place of the last one and its first receive is
\* already waiting when it starts.
connectControl ==
    \E c \in Conns :
        /\ Opens(c)
        /\ reconnectWorkItem' = FALSE /\ controlReceiveBuffer' = {}
        /\ connectionState' = "Connecting"
        /\ controlConnection' = c
        /\ greeted' = greeted \ {c}

\* Faulty variant: no work item after the last attempt.
ScheduledUntilLast ==
    /\ reconnectWorkItem' = (reconnectWorkItem \/ reconnectAttempt < MaxAttempt)
    /\ reconnectAttempt' = IF reconnectWorkItem \/ reconnectAttempt = MaxAttempt
                           THEN reconnectAttempt ELSE reconnectAttempt + 1

\* One work item at a time; the delay doubles with the first attempts.
scheduleReconnect ==
    /\ reconnectWorkItem' = TRUE
    /\ reconnectAttempt' = IF reconnectWorkItem \/ reconnectAttempt = MaxAttempt
                           THEN reconnectAttempt ELSE reconnectAttempt + 1

\* Faulty variant: the timers go on.
DisconnectedButTicking(c) ==
    IF isStopped \/ ~isCurrentControlConnection(c)
    THEN UNCHANGED <<client, link>>
    ELSE /\ controlTimers' = controlTimers /\ controlReceiveBuffer' = {}
         /\ link' = [link EXCEPT ![controlConnection] = "cancelled"]
         /\ controlConnection' = NoConn
         /\ connectionState' = "Reconnecting"
         /\ scheduleReconnect

\* Faulty variant: the connection is forgotten but never cancelled.
DisconnectedNotCancelled(c) ==
    IF isStopped \/ ~isCurrentControlConnection(c)
    THEN UNCHANGED <<client, link>>
    ELSE /\ controlTimers' = FALSE /\ controlReceiveBuffer' = {}
         /\ UNCHANGED link
         /\ controlConnection' = NoConn
         /\ connectionState' = "Reconnecting"
         /\ scheduleReconnect

\* Only the connection in use is given up, and once: its later reports find
\* another connection, or none.  Its state handler is gone, so the framework
\* does not report that it was cancelled.
handleControlDisconnect(c) ==
    IF isStopped \/ ~isCurrentControlConnection(c)
    THEN UNCHANGED <<client, link>>
    ELSE /\ controlTimers' = FALSE /\ controlReceiveBuffer' = {}
         /\ link' = [link EXCEPT ![controlConnection] = "cancelled"]
         /\ controlConnection' = NoConn
         /\ connectionState' = "Reconnecting"
         /\ scheduleReconnect

\* start(), called once, on the caller's thread.
Start ==
    /\ phase = "new" /\ phase' = "started"
    /\ connectControl
    /\ UNCHANGED <<controlTimers, reconnectAttempt>>

\* The work item's time has come.  stop() would have cancelled it.
ReconnectDue ==
    /\ reconnectWorkItem /\ ~isStopped
    /\ connectControl
    /\ UNCHANGED <<phase, controlTimers, reconnectAttempt>>

\* stop() only queues its block.
QueueStop ==
    /\ phase = "started" /\ phase' = "stopping"
    /\ UNCHANGED <<client, network, greeted, host>>

\* Faulty variant: the cancelled connection stays the one in use.
StoppedWithConnection ==
    /\ phase = "stopping" /\ phase' = "stopped"
    /\ reconnectWorkItem' = FALSE /\ controlTimers' = FALSE
    /\ controlReceiveBuffer' = {} /\ connectionState' = "Disconnected"
    /\ link'  = [c \in Conns |-> IF c = controlConnection THEN "cancelled" ELSE link[c]]
    /\ calls' = [c \in Conns |-> IF c = controlConnection THEN calls[c] \cup {"cancelled"}
                                                        ELSE calls[c]]
    /\ UNCHANGED <<controlConnection, reconnectAttempt, receiving, sent, greeted, host>>

\* The block of stop(): the state handler stays, so the connection still
\* reports that it was cancelled.
Stop ==
    /\ phase = "stopping" /\ phase' = "stopped"
    /\ reconnectWorkItem' = FALSE /\ controlTimers' = FALSE
    /\ controlReceiveBuffer' = {} /\ connectionState' = "Disconnected"
    /\ controlConnection' = NoConn
    /\ link'  = [c \in Conns |-> IF c = controlConnection THEN "cancelled" ELSE link[c]]
    /\ calls' = [c \in Conns |-> IF c = controlConnection THEN calls[c] \cup {"cancelled"}
                                                        ELSE calls[c]]
    /\ UNCHANGED <<reconnectAttempt, receiving, sent, greeted, host>>
-----------------------------------------------------------------------------
\* Callbacks.

\* State changes and received data of a connection that was given up.
Stale(c) ==
    /\ ~isCurrentControlConnection(c)
    /\ \E e \in Events \ {"sendError"} : Comes(c, e)
    /\ UNCHANGED <<phase, client, link, receiving, sent, greeted, host>>

\* Faulty variant: the back-off goes on where it was.
ReadyButSlow(c) ==
    /\ isCurrentControlConnection(c) /\ Comes(c, "ready")
    /\ connectionState' = "Connected"
    /\ Sends({controlConnection}) /\ greeted' = greeted \cup {controlConnection}
    /\ controlTimers' = TRUE
    /\ UNCHANGED <<phase, controlConnection, controlReceiveBuffer, reconnectWorkItem,
                   reconnectAttempt, link, receiving, host>>

\* .ready: hello is the first thing sent on the connection in use.
Ready(c) ==
    /\ isCurrentControlConnection(c) /\ Comes(c, "ready")
    /\ reconnectAttempt' = 0
    /\ connectionState' = "Connected"
    /\ Sends({controlConnection}) /\ greeted' = greeted \cup {controlConnection}
    /\ controlTimers' = TRUE
    /\ UNCHANGED <<phase, controlConnection, controlReceiveBuffer, reconnectWorkItem,
                   link, receiving, host>>

\* .waiting: shown, and left to the framework.
Waiting(c) ==
    /\ isCurrentControlConnection(c) /\ Comes(c, "waiting")
    /\ connectionState' = "Waiting"
    /\ UNCHANGED <<phase, controlConnection, controlReceiveBuffer, controlTimers,
                   reconnectWorkItem, reconnectAttempt, link, receiving, sent, greeted, host>>

\* .failed and .cancelled.
Failed(c) ==
    /\ isCurrentControlConnection(c)
    /\ Comes(c, "failed") \/ Comes(c, "cancelled")
    /\ handleControlDisconnect(c)
    /\ UNCHANGED <<phase, receiving, sent, greeted, host>>

\* Bytes arrived: a line may be finished or not, and the next receive is issued.
\* Messages change no state of the channel.
Received(c) ==
    /\ isCurrentControlConnection(c)
    /\ \/ Comes(c, "part") /\ controlReceiveBuffer' = controlReceiveBuffer \cup {c}
       \/ Comes(c, "line") /\ controlReceiveBuffer' = {}
    /\ receiving' = receiving \cup {c}
    /\ UNCHANGED <<phase, controlConnection, controlTimers, reconnectWorkItem,
                   reconnectAttempt, connectionState, link, sent, greeted, host>>

\* The receive ended with an error, or the host closed the connection.
ReceiveEnded(c) ==
    /\ isCurrentControlConnection(c)
    /\ Comes(c, "complete") \/ Comes(c, "recvError")
    /\ handleControlDisconnect(c)
    /\ UNCHANGED <<phase, receiving, sent, greeted, host>>

\* A send completed with an error; only handleControlDisconnect asks which
\* connection that was.
SendFailed(c) ==
    /\ Comes(c, "sendError")
    /\ handleControlDisconnect(c)
    /\ UNCHANGED <<phase, receiving, sent, greeted, host>>

\* sendSyntheticPose and sendPing, with sendControl.
Tick ==
    /\ controlTimers /\ ~isStopped
    /\ Sends({controlConnection} \ {NoConn})
    /\ UNCHANGED <<phase, client, link, receiving, calls, greeted, host>>
-----------------------------------------------------------------------------
Callback(c) == \/ Ready(c) \/ Waiting(c) \/ Failed(c) \/ Received(c)
               \/ ReceiveEnded(c) \/ SendFailed(c) \/ Stale(c)

Framework(c) ==
    /\ \/ Establish(c) \/ CannotConnect(c) \/ NetworkChanges(c) \/ HostCloses(c)
       \/ Notice(c) \/ AnswerReceive(c, Data) \/ AnswerSend(c) \/ Release(c)
    /\ UNCHANGED own

HostChanges ==
    /\ \E behaviour \in {"down", "rejecting", "serving"} : HostBecomes(behaviour)
    /\ UNCHANGED own

Next ==
    \/ Start \/ ReconnectDue \/ QueueStop \/ Stop \/ Tick \/ HostChanges
    \/ \E c \in Conns : Callback(c) \/ Framework(c)

Spec == Init /\ [][Next]_vars

\* The queue runs what is on it, timers and delays expire, and the framework
\* delivers, connects to a host that is there when it tries, and times out.  No
\* network change comes to the help of a connection that waits.
Fairness ==
    /\ WF_vars(Start) /\ WF_vars(ReconnectDue) /\ WF_vars(Stop) /\ WF_vars(Tick)
    /\ \A c \in Conns :
          /\ WF_vars(Ready(c)) /\ WF_vars(Waiting(c)) /\ WF_vars(Failed(c))
          /\ WF_vars(Received(c)) /\ WF_vars(ReceiveEnded(c))
          /\ WF_vars(SendFailed(c)) /\ WF_vars(Stale(c))
          /\ WF_vars(Establish(c) /\ UNCHANGED own)
          /\ WF_vars(Notice(c) /\ UNCHANGED own)
          /\ WF_vars(AnswerReceive(c, Data) /\ UNCHANGED own)
          /\ WF_vars(AnswerSend(c) /\ UNCHANGED own)
          /\ WF_vars(Release(c) /\ UNCHANGED own)

FairSpec == Spec /\ Fairness
-----------------------------------------------------------------------------
\* Properties.

\* Every variable has its type; connections that wait for an answer exist.
TypeOK ==
    /\ phase \in {"new", "started", "stopping", "stopped"}
    /\ controlConnection \in Conns \cup {NoConn}
    /\ controlReceiveBuffer \subseteq Conns
    /\ controlTimers \in BOOLEAN /\ reconnectWorkItem \in BOOLEAN
    /\ reconnectAttempt \in 0 .. MaxAttempt
    /\ connectionState \in States
    /\ link \in [Conns -> Links] /\ calls \in [Conns -> SUBSET Events]
    /\ receiving \subseteq Conns /\ sent \subseteq Conns /\ greeted \subseteq Conns
    /\ host \in {"down", "rejecting", "serving"}

\* A connection that is not in use is not alive either: however many reports of
\* its end arrive, giving up cancels it, and no second one is opened beside it.
NoSecondConnection ==
    \A c \in Conns : link[c] \notin {"none", "cancelled"} => c = controlConnection

\* The connection in use is given up only when it has failed or was closed
\* itself: late callbacks of an earlier connection (a cancelled receive, a send
\* that failed) never take down the one that replaced it.
HealthyIsKept ==
    [][controlConnection # NoConn /\ controlConnection' # controlConnection =>
            isStopped' \/ link[controlConnection] \notin Healthy]_vars

\* A line is put together from the bytes of one connection: the one in use.
LinesOfOneConnection == controlReceiveBuffer \subseteq {controlConnection}

\* Poses and pings follow hello on every connection, and the viewer shows
\* "Connected" exactly while they go out on the connection in use.
PosesFollowHello ==
    /\ controlTimers => controlConnection \in greeted /\ ~reconnectWorkItem
    /\ connectionState = "Connected" <=> controlTimers

\* After the block of stop() ran, whatever was on its way: no connection, no
\* timer, no reconnect, and the viewer goes on showing "Disconnected".
StopIsFinal ==
    isStopped =>
        /\ controlConnection = NoConn /\ ~controlTimers /\ ~reconnectWorkItem
        /\ connectionState = "Disconnected"
        /\ \A c \in Conns : link[c] \in {"none", "cancelled"}

\* The back-off starts anew after each connection that became ready.
FirstRetryIsQuick ==
    [][reconnectWorkItem' /\ ~reconnectWorkItem /\ controlConnection \in greeted =>
            reconnectAttempt = 0]_vars

Connected == controlTimers /\ link[controlConnection] = "ready"

\* Refused while the host was down, and left to the framework.
Waits == controlConnection # NoConn /\ link[controlConnection] = "waiting"

\* CHANGELOG: "Client control-channel reconnect behavior after host restarts".
\* Once the host stays up and wants the client, the channel is connected and
\* stays so, unless the viewer was stopped: whether the old connection was
\* closed, failed or just fell silent.  One exception: a retry that came while
\* the host was still down may wait for a change of the network, and is not
\* tried again.
ReconnectsOrWaits ==
    <>[](host = "serving") => <>[](isStopped \/ Connected \/ Waits)
=============================================================================
