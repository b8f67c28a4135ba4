------------------------ MODULE ViewerTransportProofs ------------------------
(***************************************************************************)
(* Theorems about ViewerTransport.  The invariant says which reports can   *)
(* be on their way for a connection in each of its states; that no report  *)
(* of an earlier connection takes down the one in use follows from it.     *)
(***************************************************************************)
EXTENDS ViewerTransport, TLAPS

Ends == {"failed", "cancelled", "complete", "recvError", "sendError"}
Over == {"closed", "failed", "cancelled"}

\* The end of a connection is reported only after it has come, and nothing is
\* reported of a connection that does not exist.
ReportsAreTrue ==
    \A c \in Conns :
        /\ link[c] \notin Over => calls[c] \cap Ends = {}
        /\ link[c] = "none" => calls[c] = {}

\* A connection on which hello was sent has left the states before .ready, and
\* no report of them is on its way any more.
Greeting ==
    \A c \in Conns :
        /\ c \in greeted => link[c] \notin {"starting", "waiting"} /\ "waiting" \notin calls[c]
        /\ "ready" \in calls[c] => link[c] \notin {"starting", "waiting"}

\* The connection in use exists; while there is one, no reconnect is scheduled.
InUse ==
    /\ controlConnection # NoConn => link[controlConnection] \notin {"none", "cancelled"}
    /\ reconnectWorkItem => controlConnection = NoConn
    /\ controlConnection \in greeted => reconnectAttempt = 0
    /\ phase = "new" => controlConnection = NoConn /\ ~reconnectWorkItem

Inv == /\ TypeOK /\ NoSecondConnection /\ LinesOfOneConnection
       /\ PosesFollowHello /\ StopIsFinal /\ ReportsAreTrue /\ Greeting /\ InUse

LEMMA InitInv == Init => Inv
<1> SUFFICES ASSUME Init PROVE Inv
  OBVIOUS
<1>1. 0 \in 0 .. MaxAttempt
  BY ViewerAssumption
<1>2. /\ link \in [Conns -> Links] /\ calls \in [Conns -> SUBSET Events]
  BY DEF Init, NoConnections, Links
<1>3. TypeOK
  BY <1>1, <1>2 DEF Init, NoConnections, TypeOK, States
<1> QED BY <1>3, ViewerAssumption DEF Init, NoConnections, Inv, NoSecondConnection, LinesOfOneConnection,
     PosesFollowHello, StopIsFinal, ReportsAreTrue, Greeting, InUse, States, Links, isStopped

\* Giving up the connection in use keeps the invariant, whoever asks for it.
LEMMA GivingUp ==
  ASSUME Inv, NEW c \in Conns, NEW e \in Events, Comes(c, e),
         handleControlDisconnect(c), UNCHANGED <<phase, receiving, sent, greeted, host>>
  PROVE  Inv'
<1>1. CASE isStopped \/ ~isCurrentControlConnection(c)
  BY <1>1 DEF Inv, TypeOK, NoSecondConnection, LinesOfOneConnection, PosesFollowHello,
     StopIsFinal, ReportsAreTrue, Greeting, InUse, Comes, handleControlDisconnect, client, isStopped
<1>2. CASE ~isStopped /\ isCurrentControlConnection(c)
  <2>1. /\ controlConnection = c /\ c # NoConn /\ controlConnection' = NoConn
        /\ controlTimers' = FALSE /\ controlReceiveBuffer' = {}
        /\ link' = [link EXCEPT ![c] = "cancelled"]
        /\ calls' = [calls EXCEPT ![c] = calls[c] \ {e}]
        /\ connectionState' = "Reconnecting" /\ reconnectWorkItem' = TRUE
        /\ reconnectAttempt' \in 0 .. MaxAttempt
        /\ phase' = phase /\ phase \notin {"stopped", "new"}
    BY <1>2, ViewerAssumption DEF Inv, TypeOK, InUse, handleControlDisconnect, scheduleReconnect,
       isCurrentControlConnection, isStopped, Comes
  <2>2. TypeOK'
    BY <2>1 DEF Inv, TypeOK, Links, States
  <2>3. NoSecondConnection' /\ ReportsAreTrue' /\ Greeting'
    BY <2>1 DEF Inv, TypeOK, NoSecondConnection, ReportsAreTrue, Greeting, Over
  <2>4. LinesOfOneConnection' /\ PosesFollowHello' /\ StopIsFinal' /\ InUse'
    BY <2>1, ViewerAssumption DEF Inv, TypeOK, LinesOfOneConnection, PosesFollowHello, StopIsFinal, InUse, isStopped
  <2> QED BY <2>2, <2>3, <2>4 DEF Inv
<1> QED BY <1>1, <1>2

\* So does connecting, when there is no connection.
LEMMA Connecting ==
  ASSUME Inv, connectControl, controlConnection = NoConn, ~isStopped,
         phase' \in {"started", "stopping"},
         UNCHANGED <<controlTimers, reconnectAttempt>>
  PROVE  Inv'
<1>1. PICK c \in Conns :
          /\ link[c] = "none" /\ controlConnection' = c
          /\ reconnectWorkItem' = FALSE /\ controlReceiveBuffer' = {}
          /\ connectionState' = "Connecting"
          /\ receiving' = receiving \cup {c}
          /\ link' = [link EXCEPT ![c] = "starting"]
          /\ greeted' = greeted \ {c}
          /\ UNCHANGED <<sent, calls, host>>
  BY DEF connectControl, Opens
<1>2. ~controlTimers
  BY ViewerAssumption DEF Inv, TypeOK, PosesFollowHello
<1>3. TypeOK'
  BY <1>1 DEF Inv, TypeOK, Links, States
<1>4. NoSecondConnection' /\ ReportsAreTrue' /\ Greeting'
  BY <1>1, ViewerAssumption DEF Inv, TypeOK, NoSecondConnection, ReportsAreTrue, Greeting, Over
<1>5. LinesOfOneConnection' /\ PosesFollowHello' /\ StopIsFinal' /\ InUse'
  BY <1>1, <1>2, ViewerAssumption DEF Inv, TypeOK, LinesOfOneConnection, PosesFollowHello, StopIsFinal,
     InUse, isStopped
<1> QED BY <1>3, <1>4, <1>5 DEF Inv

\* A connection changes its state and reports it.
LEMMA Moving ==
  ASSUME Inv, NEW c \in Conns, NEW from, NEW to \in Links \ {"none", "cancelled"},
         NEW reports \in SUBSET StateEvents,
         Moves(c, from, to, reports), from \cap {"none", "cancelled", "failed"} = {},
         "failed" \in reports => to = "failed", "cancelled" \notin reports,
         link[c] = "closed" => to = "failed", UNCHANGED own,
         "ready" \in reports => to = "ready",
         to \in {"starting", "waiting"} \/ "waiting" \in reports
            => link[c] \in {"starting", "waiting"}
  PROVE  Inv'
<1>1. /\ link[c] \notin {"none", "cancelled", "failed"} /\ c = controlConnection
      /\ link' = [link EXCEPT ![c] = to]
      /\ calls' = [calls EXCEPT ![c] = calls[c] \cup reports]
      /\ phase # "stopped"
  BY DEF Moves, Inv, NoSecondConnection, StopIsFinal, isStopped
<1>2. UNCHANGED <<phase, client, receiving, sent, greeted, host>>
  BY DEF Moves, own
<1>3. TypeOK'
  BY <1>1, <1>2 DEF Inv, TypeOK, client, Events
<1>4. NoSecondConnection'
  BY <1>1, <1>2 DEF Inv, TypeOK, NoSecondConnection, client
<1>5. ReportsAreTrue' /\ Greeting'
  <2>1. to \notin Over => reports \cap Ends = {} /\ link[c] \notin Over
    BY <1>1 DEF Over, Ends, StateEvents
  <2>2. ReportsAreTrue'
    BY <2>1, <1>1 DEF Inv, TypeOK, ReportsAreTrue
  <2>3. Greeting'
    BY <1>1, <1>2 DEF Inv, TypeOK, Greeting
  <2> QED BY <2>2, <2>3
<1>6. LinesOfOneConnection' /\ PosesFollowHello' /\ StopIsFinal' /\ InUse'
  BY <1>1, <1>2 DEF Inv, TypeOK, LinesOfOneConnection, PosesFollowHello, StopIsFinal,
     InUse, isStopped, client
<1> QED BY <1>3, <1>4, <1>5, <1>6 DEF Inv

LEMMA CallbackInv ==
  ASSUME Inv, NEW c \in Conns, Callback(c)
  PROVE  Inv'
<1> USE DEF Inv
<1>1. CASE Ready(c)
  <2>1. /\ c = controlConnection /\ c # NoConn /\ "ready" \in calls[c]
        /\ calls' = [calls EXCEPT ![c] = calls[c] \ {"ready"}]
        /\ UNCHANGED <<phase, controlConnection, controlReceiveBuffer, reconnectWorkItem,
                       link, receiving, host>>
        /\ reconnectAttempt' = 0 /\ connectionState' = "Connected" /\ controlTimers' = TRUE
        /\ sent' = sent \cup {c} /\ greeted' = greeted \cup {c}
    BY <1>1, ViewerAssumption DEF Ready, Comes, Sends, isCurrentControlConnection
  <2>2. TypeOK' BY <2>1, ViewerAssumption DEF TypeOK, States
  <2>3. NoSecondConnection' /\ ReportsAreTrue' /\ LinesOfOneConnection'
    BY <2>1 DEF TypeOK, NoSecondConnection, ReportsAreTrue, LinesOfOneConnection
  <2>5. "waiting" \notin calls[c]
    BY <1>1 DEF Ready, Comes, StateEvents
  <2>6. Greeting'
    BY <2>1, <2>5 DEF TypeOK, Greeting
  <2>4. PosesFollowHello' /\ StopIsFinal' /\ InUse'
    BY <2>1 DEF TypeOK, PosesFollowHello, StopIsFinal, InUse, isStopped
  <2> QED BY <2>2, <2>3, <2>4, <2>6
<1>2. CASE Waiting(c)
  <2>1. /\ c = controlConnection /\ c # NoConn /\ "waiting" \in calls[c]
        /\ calls' = [calls EXCEPT ![c] = calls[c] \ {"waiting"}]
        /\ UNCHANGED <<phase, controlConnection, controlReceiveBuffer, controlTimers,
                       reconnectWorkItem, reconnectAttempt, link, receiving, sent, greeted, host>>
        /\ connectionState' = "Waiting"
    BY <1>2, ViewerAssumption DEF Waiting, Comes, isCurrentControlConnection
  <2>2. ~controlTimers
    BY <2>1 DEF Greeting, PosesFollowHello
  <2> QED BY <2>1, <2>2 DEF TypeOK, States, NoSecondConnection, ReportsAreTrue, Greeting, LinesOfOneConnection,
             PosesFollowHello, StopIsFinal, InUse, isStopped
<1>3. CASE Failed(c)
  BY <1>3, GivingUp DEF Failed, Events, Data, StateEvents
<1>4. CASE Received(c)
  <2>1. /\ c = controlConnection /\ controlReceiveBuffer' \in {controlReceiveBuffer \cup {c}, {}}
        /\ \E e \in Events : calls' = [calls EXCEPT ![c] = calls[c] \ {e}]
        /\ receiving' = receiving \cup {c}
        /\ UNCHANGED <<phase, controlConnection, controlTimers, reconnectWorkItem,
                       reconnectAttempt, connectionState, link, sent, greeted, host>>
    BY <1>4 DEF Received, Comes, isCurrentControlConnection, Events, Data
  <2> QED BY <2>1 DEF TypeOK, NoSecondConnection, ReportsAreTrue, Greeting, LinesOfOneConnection,
             PosesFollowHello, StopIsFinal, InUse, isStopped
<1>5. CASE ReceiveEnded(c)
  BY <1>5, GivingUp DEF ReceiveEnded, Events, Data
<1>6. CASE SendFailed(c)
  BY <1>6, GivingUp DEF SendFailed, Events
<1>7. CASE Stale(c)
  <2>1. /\ \E e \in Events : calls' = [calls EXCEPT ![c] = calls[c] \ {e}]
        /\ UNCHANGED <<phase, client, link, receiving, sent, greeted, host>>
    BY <1>7 DEF Stale, Comes, Events
  <2> QED BY <2>1 DEF TypeOK, NoSecondConnection, ReportsAreTrue, Greeting, LinesOfOneConnection,
             PosesFollowHello, StopIsFinal, InUse, isStopped, client
<1> QED BY <1>1, <1>2, <1>3, <1>4, <1>5, <1>6, <1>7 DEF Callback

LEMMA FrameworkInv ==
  ASSUME Inv, NEW c \in Conns, Framework(c)
  PROVE  Inv'
<1>0. UNCHANGED own
  BY DEF Framework
<1>1. CASE Establish(c)
  <2>1. /\ Moves(c, {"starting"}, "ready", {"ready"})
        /\ link[c] # "closed" /\ link[c] \notin Over
    BY <1>1 DEF Establish, Moves, Over
  <2> QED BY <1>0, <2>1, Moving DEF Links, StateEvents
<1>2. CASE CannotConnect(c)
  <2>1. CASE Moves(c, {"starting"}, "waiting", {"waiting"})
    <3>1. link[c] = "starting" /\ link[c] \notin Over
      BY <2>1 DEF Moves, Over
    <3> QED BY <1>0, <2>1, <3>1, Moving DEF Links, StateEvents
  <2>2. CASE Moves(c, {"starting"}, "failed", {"failed"})
    BY <1>0, <2>2, Moving DEF Links, StateEvents
  <2> QED BY <1>2, <2>1, <2>2 DEF CannotConnect
<1>3. CASE HostCloses(c)
  <2>1. Moves(c, {"ready"}, "closed", {}) /\ link[c] = "ready"
    BY <1>3 DEF HostCloses, Moves
  <2> QED BY <1>0, <2>1, Moving DEF Links, StateEvents
<1>4. CASE Notice(c)
  BY <1>0, <1>4, Moving DEF Notice, Links, StateEvents
<1>5. CASE AnswerReceive(c, Data)
  <2>1. /\ receiving' = receiving \ {c}
        /\ UNCHANGED <<phase, client, link, sent, greeted, host>>
        /\ \E e \in Data \cup {"complete", "recvError"} :
              /\ calls' = [calls EXCEPT ![c] = calls[c] \cup {e}]
              /\ e \in Ends => link[c] \in Over
              /\ link[c] # "none"
    BY <1>0, <1>5 DEF AnswerReceive, Delivers, Data, Ends, Over, own
  <2> QED BY <2>1 DEF Inv, TypeOK, NoSecondConnection, ReportsAreTrue, Greeting, LinesOfOneConnection,
             PosesFollowHello, StopIsFinal, InUse, isStopped, client, Events, Data
<1>6. CASE AnswerSend(c)
  <2>1. /\ sent' = sent \ {c}
        /\ UNCHANGED <<phase, client, link, receiving, greeted, host>>
        /\ \/ UNCHANGED calls
           \/ /\ calls' = [calls EXCEPT ![c] = calls[c] \cup {"sendError"}]
              /\ link[c] \in Over /\ link[c] # "none"
    BY <1>0, <1>6 DEF AnswerSend, Over, own
  <2> QED BY <2>1 DEF Inv, TypeOK, NoSecondConnection, ReportsAreTrue, Greeting, LinesOfOneConnection,
             PosesFollowHello, StopIsFinal, InUse, isStopped, client, Events
<1>7. CASE Release(c)
  <2>1. /\ link[c] = "cancelled" /\ calls[c] = {} /\ link' = [link EXCEPT ![c] = "none"]
        /\ UNCHANGED <<phase, client, receiving, sent, calls, greeted, host>>
    BY <1>0, <1>7 DEF Release, own
  <2> QED BY <2>1 DEF Inv, TypeOK, NoSecondConnection, ReportsAreTrue, Greeting, LinesOfOneConnection,
             PosesFollowHello, StopIsFinal, InUse, isStopped, client, Links
<1>8. CASE NetworkChanges(c)
  <2>1. Moves(c, {"waiting"}, "starting", {}) /\ link[c] = "waiting"
    BY <1>8 DEF NetworkChanges, Moves
  <2> QED BY <1>0, <2>1, Moving DEF Links, StateEvents
<1> QED BY <1>1, <1>2, <1>3, <1>4, <1>5, <1>6, <1>7, <1>8 DEF Framework

LEMMA StepInv == Inv /\ [Next]_vars => Inv'
<1> SUFFICES ASSUME Inv, [Next]_vars PROVE Inv'
  OBVIOUS
<1>1. CASE Start
  BY <1>1, Connecting DEF Start, Inv, InUse, isStopped
<1>2. CASE ReconnectDue
  <2>1. controlConnection = NoConn /\ phase' \in {"started", "stopping"}
    BY <1>2 DEF ReconnectDue, Inv, InUse, TypeOK, isStopped
  <2> QED BY <1>2, <2>1, Connecting DEF ReconnectDue
<1>3. CASE QueueStop
  BY <1>3 DEF QueueStop, Inv, TypeOK, NoSecondConnection, ReportsAreTrue, Greeting, LinesOfOneConnection,
     PosesFollowHello, StopIsFinal, InUse, isStopped, client, network, own
<1>4. CASE Stop
  <2>1. TypeOK'
    BY <1>4 DEF Stop, Inv, TypeOK, Links, States, Events, Data, StateEvents
  <2>2. \A c \in Conns : link'[c] \in {"none", "cancelled"}
    BY <1>4 DEF Stop, Inv, TypeOK, NoSecondConnection
  <2>3. ReportsAreTrue'
    BY <1>4, ViewerAssumption DEF Stop, Inv, TypeOK, ReportsAreTrue, InUse, Over, Ends
  <2>4. Greeting'
    BY <1>4 DEF Stop, Inv, TypeOK, Greeting
  <2> QED BY <1>4, <2>1, <2>2, <2>3, <2>4, ViewerAssumption DEF Stop, Inv, TypeOK, NoSecondConnection, LinesOfOneConnection,
             PosesFollowHello, StopIsFinal, InUse, isStopped
<1>5. CASE Tick
  BY <1>5 DEF Tick, Sends, Inv, TypeOK, NoSecondConnection, ReportsAreTrue, Greeting, LinesOfOneConnection,
     PosesFollowHello, StopIsFinal, InUse, isStopped, client
<1>6. CASE HostChanges
  <2>1. /\ UNCHANGED <<phase, client, receiving, sent, calls, greeted>>
        /\ host' \in {"down", "rejecting", "serving"}
        /\ link' \in [Conns -> Links]
        /\ \A c \in Conns : \/ link'[c] = link[c]
                            \/ link[c] = "ready" /\ link'[c] \in {"closed", "gone"}
    BY <1>6 DEF HostChanges, HostBecomes, own, Inv, TypeOK, Links
  <2>2. TypeOK'
    BY <2>1 DEF Inv, TypeOK, client
  <2>3. NoSecondConnection' /\ ReportsAreTrue' /\ Greeting'
    BY <2>1 DEF Inv, NoSecondConnection, ReportsAreTrue, Greeting, client, Over
  <2>4. LinesOfOneConnection' /\ PosesFollowHello' /\ StopIsFinal'
    BY <2>1 DEF Inv, LinesOfOneConnection, PosesFollowHello, StopIsFinal, isStopped, client
  <2>5. InUse'
    BY <2>1 DEF Inv, TypeOK, InUse, client
  <2> QED BY <2>2, <2>3, <2>4, <2>5 DEF Inv
<1>7. ASSUME NEW c \in Conns, Callback(c) \/ Framework(c) PROVE Inv'
  BY <1>7, CallbackInv, FrameworkInv
<1>8. CASE UNCHANGED vars
  BY <1>8 DEF vars, Inv, TypeOK, NoSecondConnection, ReportsAreTrue, Greeting, LinesOfOneConnection,
     PosesFollowHello, StopIsFinal, InUse, isStopped, client, network, own
<1> QED BY <1>1, <1>2, <1>3, <1>4, <1>5, <1>6, <1>7, <1>8 DEF Next

LEMMA Invariance == Spec => []Inv
  BY InitInv, StepInv, PTL DEF Spec

\* The variables keep their types, for any number of connections and attempts.
THEOREM TypeCorrect == Spec => []TypeOK
  BY Invariance, PTL DEF Inv

\* No connection stays open beside the one in use (connectControl and
\* handleControlDisconnect).
THEOREM OneConnection == Spec => []NoSecondConnection
  BY Invariance, PTL DEF Inv

\* The receive buffer never mixes the bytes of two connections.
THEOREM LinesAreWhole == Spec => []LinesOfOneConnection
  BY Invariance, PTL DEF Inv

\* Timers run only after hello on the connection in use, as the viewer shows.
THEOREM HelloComesFirst == Spec => []PosesFollowHello
  BY Invariance, PTL DEF Inv

\* Nothing on its way when stop()'s block runs brings the channel back.
THEOREM StoppedForGood == Spec => []StopIsFinal
  BY Invariance, PTL DEF Inv

\* handleControlDisconnect is reached for a connection only when it ended.
LEMMA OnlyEndsDisconnect ==
  ASSUME Inv, NEW c \in Conns, NEW e \in Ends, Comes(c, e), handleControlDisconnect(c)
  PROVE  controlConnection' # controlConnection =>
             controlConnection = c /\ link[c] \in Over
<1>1. link[c] \in Over
  BY DEF Inv, ReportsAreTrue, Comes
<1> QED BY <1>1 DEF handleControlDisconnect, isCurrentControlConnection, client

\* Late callbacks of earlier connections never take down a healthy one.
THEOREM HealthyStays == Spec => HealthyIsKept
<1> DEFINE Kept == controlConnection # NoConn /\ controlConnection' # controlConnection =>
                       isStopped' \/ link[controlConnection] \notin Healthy
<1>1. Inv /\ [Next]_vars => Kept
  <2> SUFFICES ASSUME Inv, [Next]_vars, controlConnection # NoConn,
                      controlConnection' # controlConnection, ~isStopped'
               PROVE  link[controlConnection] \notin Healthy
    OBVIOUS
  <2>1. CASE Start \/ ReconnectDue
    BY <2>1 DEF Start, ReconnectDue, Inv, InUse
  <2>2. CASE QueueStop \/ Stop \/ Tick \/ HostChanges \/ UNCHANGED vars
    BY <2>2 DEF QueueStop, Stop, Tick, HostChanges, vars, own, client, isStopped
  <2>3. ASSUME NEW c \in Conns, Failed(c) \/ ReceiveEnded(c) \/ SendFailed(c)
        PROVE  link[controlConnection] \notin Healthy
    <3>1. \E e \in Ends : Comes(c, e)
      BY <2>3 DEF Failed, ReceiveEnded, SendFailed, Ends
    <3>2. handleControlDisconnect(c)
      BY <2>3 DEF Failed, ReceiveEnded, SendFailed
    <3> QED BY <3>1, <3>2, OnlyEndsDisconnect DEF Over, Healthy
  <2>4. ASSUME NEW c \in Conns, Ready(c) \/ Waiting(c) \/ Received(c) \/ Stale(c)
        PROVE  FALSE
    BY <2>4 DEF Ready, Waiting, Received, Stale, client
  <2>5. ASSUME NEW c \in Conns, Framework(c) PROVE FALSE
    BY <2>5 DEF Framework, own, client
  <2> QED BY <2>1, <2>2, <2>3, <2>4, <2>5 DEF Next, Callback
<1>2. Inv /\ [Next]_vars => [Kept]_vars
  BY <1>1
<1> QED BY <1>2, Invariance, PTL DEF Spec, HealthyIsKept

\* The delay of the first retry after a connection that was ready is the least.
THEOREM BackOffStartsAnew == Spec => FirstRetryIsQuick
<1> DEFINE Quick == reconnectWorkItem' /\ ~reconnectWorkItem /\ controlConnection \in greeted
                        => reconnectAttempt = 0
<1>1. Inv /\ [Next]_vars => [Quick]_vars
  BY DEF Inv, InUse
<1> QED BY <1>1, Invariance, PTL DEF Spec, FirstRetryIsQuick
=============================================================================
