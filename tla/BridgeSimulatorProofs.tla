------------------------ MODULE BridgeSimulatorProofs ------------------------
(***************************************************************************)
(* Theorems about BridgeSimulator.  What was negotiated belongs to the     *)
(* connection in use because giving that up is the only way to the next.   *)
(***************************************************************************)
EXTENDS BridgeSimulator, TLAPS

Ends == {"failed", "cancelled", "complete", "recvError", "sendError"}
Over == {"closed", "failed", "cancelled"}

\* Every variable has its type, and no more silence than the limit is waited for.
TypeOK ==
    /\ phase \in {"new", "started", "stopping", "stopped"} /\ host \in Hosts
    /\ controlConnection \in Conns \cup {NoConn}
    /\ controlPingTimer \in BOOLEAN /\ sendTimer \in BOOLEAN
    /\ reconnectWorkItem \in BOOLEAN /\ reconnectAttempt \in 0 .. MaxAttempt
    /\ silence \in 0 .. StaleTicks + 1 /\ quiet \in 0 .. StaleTicks + 1
    /\ selectedTransport \in {"tcpInlineBase64", "udpChunked"}
    /\ selectedUDPAuthToken \in Conns \cup {NoConn}
    /\ udpConnection \in Conns \cup {NoConn}
    /\ link \in [Conns -> Links] /\ calls \in [Conns -> SUBSET Events]
    /\ receiving \subseteq Conns /\ sent \subseteq Conns
    /\ greeted \subseteq Conns /\ welcomed \subseteq Conns

\* No connection is alive but the one in use.
OneInUse ==
    \A c \in Conns : link[c] \notin {"none", "cancelled"} => c = controlConnection

\* The end of a connection is reported only after it has come, and nothing is
\* reported of a connection that does not exist.
ReportsAreTrue ==
    \A c \in Conns :
        /\ link[c] \notin Over => calls[c] \cap Ends = {}
        /\ link[c] = "none" => calls[c] = {}

\* The connection in use exists, and without one nothing runs.  Pings count the
\* silence of the connection they go out on.
InUse ==
    /\ controlConnection # NoConn => link[controlConnection] \notin {"none", "cancelled"}
    /\ reconnectWorkItem => controlConnection = NoConn
    /\ controlPingTimer => controlConnection # NoConn /\ silence = quiet
    /\ isStopped => controlConnection = NoConn
    /\ phase = "new" => controlConnection = NoConn /\ ~reconnectWorkItem

Inv == TypeOK /\ OneInUse /\ FramesAsNegotiated /\ ReportsAreTrue /\ InUse

LEMMA InitInv == Init => Inv
<1> SUFFICES ASSUME Init PROVE Inv
  OBVIOUS
<1>1. 0 \in 0 .. MaxAttempt /\ 0 \in 0 .. StaleTicks + 1
  BY SimulatorAssumption
<1>2. /\ link \in [Conns -> Links] /\ calls \in [Conns -> SUBSET Events]
  BY DEF Init, NoConnections, Links
<1> QED BY <1>1, <1>2, SimulatorAssumption DEF Init, NoConnections, Inv, TypeOK, OneInUse,
     FramesAsNegotiated, ReportsAreTrue, InUse, isStopped

LEMMA OneMoreType ==
  ASSUME NEW ticks \in 0 .. StaleTicks + 1
  PROVE  OneMore(ticks) \in 0 .. StaleTicks + 1
BY SimulatorAssumption DEF OneMore

\* What giving up the connection in use does.
LEMMA GivingUp ==
  ASSUME Inv, NEW c \in Conns, handleControlDisconnect(c), ~isStopped, c = controlConnection
  PROVE  /\ controlConnection' = NoConn
         /\ controlPingTimer' = FALSE /\ sendTimer' = FALSE
         /\ selectedTransport' = "tcpInlineBase64"
         /\ selectedUDPAuthToken' = NoConn /\ udpConnection' = NoConn
         /\ link' = [link EXCEPT ![c] = "cancelled"]
         /\ reconnectWorkItem' = TRUE /\ reconnectAttempt' \in 0 .. MaxAttempt
<1>1. reconnectAttempt' \in 0 .. MaxAttempt
  <2>1. ASSUME NEW n \in 0 .. MaxAttempt, n # MaxAttempt PROVE n + 1 \in 0 .. MaxAttempt
    BY <2>1, SimulatorAssumption
  <2> QED BY <2>1 DEF handleControlDisconnect, isCurrentControlConnection, scheduleReconnect, Inv, TypeOK
<1> QED BY <1>1 DEF handleControlDisconnect, isCurrentControlConnection, scheduleReconnect

\* It keeps the invariant, whoever asks for it.
LEMMA Disconnecting ==
  ASSUME Inv, NEW c \in Conns, handleControlDisconnect(c),
         \A d \in Conns : calls'[d] \subseteq calls[d], calls' \in [Conns -> SUBSET Events],
         silence' \in 0 .. StaleTicks + 1, quiet' \in 0 .. StaleTicks + 1,
         isStopped \/ c # controlConnection => UNCHANGED <<silence, quiet>>,
         UNCHANGED <<phase, greeted, welcomed, receiving, sent, host>>
  PROVE  Inv'
<1>1. CASE isStopped \/ c # controlConnection
  <2>1. /\ UNCHANGED <<control, sendTimer, transport, link, silence, quiet>>
    BY <1>1 DEF handleControlDisconnect, isCurrentControlConnection
  <2>2. TypeOK' BY <2>1 DEF Inv, TypeOK, control, transport
  <2>3. OneInUse' /\ ReportsAreTrue' BY <2>1 DEF Inv, OneInUse, ReportsAreTrue, control
  <2>4. FramesAsNegotiated' /\ InUse'
    BY <2>1 DEF Inv, FramesAsNegotiated, InUse, control, transport, isStopped
  <2> QED BY <2>2, <2>3, <2>4 DEF Inv
<1>2. CASE ~isStopped /\ c = controlConnection
  <2> HIDE DEF FramesAsNegotiated
  <2>1. /\ controlConnection' = NoConn
        /\ controlPingTimer' = FALSE /\ sendTimer' = FALSE
        /\ selectedTransport' = "tcpInlineBase64"
        /\ selectedUDPAuthToken' = NoConn /\ udpConnection' = NoConn
        /\ link' = [link EXCEPT ![c] = "cancelled"]
        /\ reconnectWorkItem' = TRUE /\ reconnectAttempt' \in 0 .. MaxAttempt
    BY <1>2, GivingUp
  <2>2. TypeOK' BY <2>1 DEF Inv, TypeOK, Links
  <2>3. OneInUse' /\ ReportsAreTrue'
    BY <1>2, <2>1 DEF Inv, TypeOK, OneInUse, ReportsAreTrue, Over
  <2>4. FramesAsNegotiated' /\ InUse'
    BY <1>2, <2>1, SimulatorAssumption DEF Inv, FramesAsNegotiated, InUse, isStopped
  <2> QED BY <2>2, <2>3, <2>4 DEF Inv
<1> QED BY <1>1, <1>2

\* So does connecting, when there is no connection.
LEMMA Connecting ==
  ASSUME Inv, connectControl, controlConnection = NoConn,
         phase' \in {"started", "stopping"},
         UNCHANGED <<controlPingTimer, reconnectAttempt, sendTimer, silence, transport>>,
         ~isStopped
  PROVE  Inv'
<1>1. PICK c \in Conns :
          /\ link[c] = "none" /\ controlConnection' = c
          /\ reconnectWorkItem' = FALSE
          /\ receiving' = receiving \cup {c}
          /\ link' = [link EXCEPT ![c] = "starting"]
          /\ greeted' = greeted \ {c} /\ welcomed' = welcomed \ {c} /\ quiet' = 0
          /\ UNCHANGED <<sent, calls, host>>
  BY DEF connectControl, Opens
<1>2. ~controlPingTimer /\ ~sendTimer /\ udpConnection = NoConn /\ selectedTransport # "udpChunked"
  BY SimulatorAssumption DEF Inv, TypeOK, InUse, FramesAsNegotiated
<1>3. 0 \in 0 .. StaleTicks + 1
  BY SimulatorAssumption
<1>4. TypeOK'
  BY <1>1, <1>3 DEF Inv, TypeOK, Links, transport
<1>5. OneInUse' /\ ReportsAreTrue'
  BY <1>1, SimulatorAssumption DEF Inv, TypeOK, OneInUse, ReportsAreTrue, Over
<1>6. FramesAsNegotiated' /\ InUse'
  BY <1>1, <1>2, SimulatorAssumption DEF Inv, TypeOK, FramesAsNegotiated, InUse, isStopped, transport
<1> QED BY <1>4, <1>5, <1>6 DEF Inv

\* A connection changes its state and reports it.
LEMMA Moving ==
  ASSUME Inv, NEW c \in Conns, NEW from, NEW to \in Links \ {"none", "cancelled"},
         NEW reports \in SUBSET StateEvents,
         Moves(c, from, to, reports), from \cap {"none", "cancelled", "failed"} = {},
         "failed" \in reports => to = "failed", "cancelled" \notin reports,
         link[c] = "closed" => to = "failed", UNCHANGED own
  PROVE  Inv'
<1>1. /\ link[c] \notin {"none", "cancelled", "failed"} /\ c = controlConnection
      /\ link' = [link EXCEPT ![c] = to]
      /\ calls' = [calls EXCEPT ![c] = calls[c] \cup reports]
  BY DEF Moves, Inv, OneInUse
<1>2. UNCHANGED <<phase, control, sendTimer, silence, transport, history, receiving, sent, host>>
  BY DEF Moves, own
<1>3. TypeOK'
  BY <1>1, <1>2 DEF Inv, TypeOK, control, transport, history, Events
<1>4. OneInUse'
  BY <1>1, <1>2 DEF Inv, TypeOK, OneInUse, control
<1>5. ReportsAreTrue'
  <2>1. to \notin Over => reports \cap Ends = {} /\ link[c] \notin Over
    BY <1>1 DEF Over, Ends, StateEvents
  <2> QED BY <2>1, <1>1 DEF Inv, TypeOK, ReportsAreTrue
<1>6. FramesAsNegotiated' /\ InUse'
  BY <1>1, <1>2 DEF Inv, TypeOK, FramesAsNegotiated, InUse, isStopped, control, transport, history
<1> QED BY <1>3, <1>4, <1>5, <1>6 DEF Inv

\* A callback that is taken off the queue leaves only true reports behind.
LEMMA Coming ==
  ASSUME Inv, NEW c \in Conns, NEW e \in Events, Comes(c, e)
  PROVE  /\ calls' \in [Conns -> SUBSET Events]
         /\ \A d \in Conns : calls'[d] \subseteq calls[d]
BY DEF Comes, Inv, TypeOK

LEMMA Ending ==
  ASSUME Inv, NEW c \in Conns, NEW e \in Events, Comes(c, e), handleControlDisconnect(c),
         UNCHANGED <<phase, silence, history, receiving, sent, host>>
  PROVE  Inv'
<1>1. /\ silence' \in 0 .. StaleTicks + 1 /\ quiet' \in 0 .. StaleTicks + 1
      /\ UNCHANGED <<silence, quiet, greeted, welcomed>>
  BY DEF Inv, TypeOK, history
<1> QED BY <1>1, Coming, Disconnecting

\* What the handling of a welcome leaves.
LEMMA WelcomeLeaves ==
  ASSUME NEW c \in Conns, NEW kind \in Welcomes, handleWelcome(c, kind)
  PROVE  \/ selectedTransport' = "udpChunked" /\ selectedUDPAuthToken' = c /\ udpConnection' = c
         \/ /\ selectedTransport' = "tcpInlineBase64" /\ selectedUDPAuthToken' = NoConn
            /\ udpConnection' = NoConn
BY DEF handleWelcome

LEMMA CallbackInv ==
  ASSUME Inv, NEW c \in Conns, Callback(c)
  PROVE  Inv'
<1>0. 0 \in 0 .. MaxAttempt /\ 0 \in 0 .. StaleTicks + 1 /\ NoConn \notin Conns
  BY SimulatorAssumption
<1>1. CASE Ready(c)
  <2>1. /\ c = controlConnection
        /\ reconnectAttempt' = 0 /\ silence' = 0 /\ quiet' = 0 /\ controlPingTimer' = TRUE
        /\ sent' = sent \cup {c} /\ greeted' = greeted \cup {c}
        /\ UNCHANGED <<phase, controlConnection, reconnectWorkItem, sendTimer, transport,
                       welcomed, link, receiving, host>>
        /\ Comes(c, "ready")
    BY <1>1 DEF Ready, Sends, isCurrentControlConnection
  <2>2. calls' \in [Conns -> SUBSET Events] /\ \A d \in Conns : calls'[d] \subseteq calls[d]
    BY <2>1, Coming DEF Events, StateEvents
  <2>3. TypeOK' BY <1>0, <2>1, <2>2 DEF Inv, TypeOK, transport
  <2>4. OneInUse' /\ ReportsAreTrue' BY <2>1, <2>2 DEF Inv, OneInUse, ReportsAreTrue
  <2>5. FramesAsNegotiated' /\ InUse'
    BY <1>0, <2>1 DEF Inv, FramesAsNegotiated, InUse, isStopped, transport
  <2> QED BY <2>3, <2>4, <2>5 DEF Inv
<1>2. ASSUME NEW e \in Events, Comes(c, e), UNCHANGED <<own, link, receiving, sent, host>>
      PROVE  Inv'
  <2>2. calls' \in [Conns -> SUBSET Events] /\ \A d \in Conns : calls'[d] \subseteq calls[d]
    BY <1>2, Coming
  <2>3. TypeOK' BY <1>2, <2>2 DEF Inv, TypeOK, own, control, transport, history
  <2>4. OneInUse' /\ ReportsAreTrue'
    BY <1>2, <2>2 DEF Inv, OneInUse, ReportsAreTrue, own, control
  <2>5. FramesAsNegotiated' /\ InUse'
    BY <1>2 DEF Inv, FramesAsNegotiated, InUse, isStopped, own, control, transport, history
  <2> QED BY <2>3, <2>4, <2>5 DEF Inv
<1>3. CASE Waiting(c) \/ Stale(c)
  BY <1>2, <1>3 DEF Waiting, Stale, Events, StateEvents
<1>4. CASE Failed(c)
  BY <1>4, Ending DEF Failed, Events, StateEvents
<1>5. CASE ReceiveEnded(c)
  BY <1>5, Ending DEF ReceiveEnded, Events
<1>6. CASE SendFailed(c)
  BY <1>6, Ending DEF SendFailed, Events
<1>7. CASE WelcomeReceived(c) \/ OtherReceived(c)
  <2>1. /\ c = controlConnection /\ silence' = 0 /\ quiet' = 0
        /\ receiving' = receiving \cup {c}
        /\ UNCHANGED <<phase, control, greeted, link, sent, host>>
        /\ Comes(c, "data")
    BY <1>7 DEF WelcomeReceived, OtherReceived, BytesArrived, isCurrentControlConnection
  <2>2. calls' \in [Conns -> SUBSET Events] /\ \A d \in Conns : calls'[d] \subseteq calls[d]
    BY <2>1, Coming DEF Events
  <2>3. \/ UNCHANGED <<transport, sendTimer, welcomed>>
        \/ /\ sendTimer' = TRUE /\ welcomed' = welcomed \cup {c}
           /\ \/ /\ selectedTransport' = "udpChunked" /\ selectedUDPAuthToken' = c
                 /\ udpConnection' = c
              \/ /\ selectedTransport' = "tcpInlineBase64" /\ selectedUDPAuthToken' = NoConn
                 /\ udpConnection' = NoConn
    BY <1>7, WelcomeLeaves DEF WelcomeReceived, OtherReceived
  <2>4. TypeOK' BY <1>0, <2>1, <2>2, <2>3 DEF Inv, TypeOK, transport, control
  <2>5. OneInUse' /\ ReportsAreTrue'
    BY <2>1, <2>2 DEF Inv, OneInUse, ReportsAreTrue, control
  <2>6. FramesAsNegotiated'
    <3>1. ~isStopped /\ ~isStopped'
      BY <1>0, <2>1 DEF Inv, InUse, isStopped
    <3> QED BY <2>1, <2>3, <3>1 DEF Inv, FramesAsNegotiated, transport, control
  <2>7. InUse'
    BY <2>1 DEF Inv, InUse, isStopped, control
  <2> QED BY <2>4, <2>5, <2>6, <2>7 DEF Inv
<1> QED BY <1>1, <1>3, <1>4, <1>5, <1>6, <1>7 DEF Callback

\* The answer to a receive, and the completion of a send.
LEMMA Answering ==
  ASSUME Inv, NEW c \in Conns, NEW e \in Events,
         e \in Ends => link[c] \in Over, link[c] # "none",
         calls' = [calls EXCEPT ![c] = calls[c] \cup {e}] \/ UNCHANGED calls,
         receiving' \subseteq receiving, sent' \subseteq sent, UNCHANGED <<own, link, host>>
  PROVE  Inv'
<1>1. TypeOK' BY DEF Inv, TypeOK, own, control, transport, history
<1>2. OneInUse' /\ ReportsAreTrue'
  BY DEF Inv, TypeOK, OneInUse, ReportsAreTrue, own, control
<1>3. FramesAsNegotiated' /\ InUse'
  BY DEF Inv, FramesAsNegotiated, InUse, isStopped, own, control, transport, history
<1> QED BY <1>1, <1>2, <1>3 DEF Inv

LEMMA FrameworkInv ==
  ASSUME Inv, NEW c \in Conns, Framework(c) \/ HostAnswers(c)
  PROVE  Inv'
<1>0. UNCHANGED own
  BY DEF Framework, HostAnswers
<1>1. CASE Establish(c)
  <2>1. /\ Moves(c, {"starting"}, "ready", {"ready"})
        /\ link[c] # "closed"
    BY <1>1 DEF Establish, Moves
  <2> QED BY <1>0, <2>1, Moving DEF Links, StateEvents
<1>2. CASE CannotConnect(c)
  <2>1. CASE Moves(c, {"starting"}, "waiting", {"waiting"})
    <3>1. link[c] # "closed"
      BY <2>1 DEF Moves
    <3> QED BY <1>0, <2>1, <3>1, Moving DEF Links, StateEvents
  <2>2. CASE Moves(c, {"starting"}, "failed", {"failed"})
    BY <1>0, <2>2, Moving DEF Links, StateEvents
  <2> QED BY <1>2, <2>1, <2>2 DEF CannotConnect
<1>3. CASE Notice(c)
  BY <1>0, <1>3, Moving DEF Notice, Links, StateEvents
<1>4. CASE AnswerReceive(c, {}) \/ AnswerReceive(c, {"data"})
  <2>1. PICK e \in {"data", "complete", "recvError"} :
            /\ Delivers(c, e) /\ link[c] # "none" /\ (e \in Ends => link[c] \in Over)
    BY <1>4 DEF AnswerReceive, Ends, Over
  <2> QED BY <1>0, <2>1, Answering DEF Delivers, Events
<1>5. CASE AnswerSend(c)
  <2>1. /\ sent' = sent \ {c} /\ UNCHANGED <<link, receiving, host>> /\ link[c] # "none"
        /\ \/ UNCHANGED calls
           \/ calls' = [calls EXCEPT ![c] = calls[c] \cup {"sendError"}] /\ link[c] \in Over
    BY <1>5 DEF AnswerSend, Over
  <2>2. CASE UNCHANGED calls
    BY <1>0, <2>1, <2>2, Answering DEF Events, Ends
  <2>3. CASE calls' = [calls EXCEPT ![c] = calls[c] \cup {"sendError"}] /\ link[c] \in Over
    BY <1>0, <2>1, <2>3, Answering DEF Events
  <2> QED BY <2>1, <2>2, <2>3
<1>6. CASE Release(c)
  <2>1. /\ link[c] = "cancelled" /\ calls[c] = {} /\ link' = [link EXCEPT ![c] = "none"]
        /\ UNCHANGED <<receiving, sent, calls, host>>
    BY <1>6 DEF Release
  <2>2. TypeOK' BY <1>0, <2>1 DEF Inv, TypeOK, own, control, transport, history, Links
  <2>3. OneInUse' /\ ReportsAreTrue'
    BY <1>0, <2>1 DEF Inv, TypeOK, OneInUse, ReportsAreTrue, own, control
  <2>4. FramesAsNegotiated' /\ InUse'
    BY <1>0, <2>1 DEF Inv, TypeOK, FramesAsNegotiated, InUse, isStopped, own, control, transport, history
  <2> QED BY <2>2, <2>3, <2>4 DEF Inv
<1>7. CASE NetworkChanges(c)
  <2>1. Moves(c, {"waiting"}, "starting", {}) /\ link[c] # "closed"
    BY <1>7 DEF NetworkChanges, Moves
  <2> QED BY <1>0, <2>1, Moving DEF Links, StateEvents
<1> QED BY <1>1, <1>2, <1>3, <1>4, <1>5, <1>6, <1>7 DEF Framework, HostAnswers

\* The ping timer.
LEMMA TickInv == ASSUME Inv, Tick PROVE Inv'
<1>1. /\ controlPingTimer /\ controlConnection # NoConn /\ controlConnection \in Conns
      /\ silence = quiet /\ ~isStopped
      /\ silence' = OneMore(silence) /\ quiet' = OneMore(quiet)
      /\ UNCHANGED <<phase, greeted, welcomed, receiving, calls, host>>
  BY DEF Tick, tickControlHealth, Inv, TypeOK, InUse
<1>2. silence' \in 0 .. StaleTicks + 1 /\ quiet' \in 0 .. StaleTicks + 1
  BY <1>1, OneMoreType DEF Inv, TypeOK
<1>3. CASE silence' > StaleTicks
  <2>1. handleControlDisconnect(controlConnection) /\ UNCHANGED sent
    BY <1>3 DEF Tick, tickControlHealth
  <2>2. calls' \in [Conns -> SUBSET Events] /\ \A d \in Conns : calls'[d] \subseteq calls[d]
    BY <1>1 DEF Inv, TypeOK
  <2> QED BY <1>1, <1>2, <2>1, <2>2, Disconnecting
<1>4. CASE ~(silence' > StaleTicks)
  <2>1. sent' = sent \cup {controlConnection} /\ UNCHANGED <<control, sendTimer, transport, link>>
    BY <1>4 DEF Tick, tickControlHealth, Sends
  <2>2. TypeOK' BY <1>1, <1>2, <2>1 DEF Inv, TypeOK, control, transport
  <2>3. OneInUse' /\ ReportsAreTrue'
    BY <1>1, <2>1 DEF Inv, OneInUse, ReportsAreTrue, control
  <2>4. FramesAsNegotiated' /\ InUse'
    BY <1>1, <2>1 DEF Inv, FramesAsNegotiated, InUse, isStopped, control, transport
  <2> QED BY <2>2, <2>3, <2>4 DEF Inv
<1> QED BY <1>3, <1>4

LEMMA StepInv == Inv /\ [Next]_vars => Inv'
<1> SUFFICES ASSUME Inv, [Next]_vars PROVE Inv'
  OBVIOUS
<1>1. CASE Start
  BY <1>1, Connecting DEF Start, Inv, InUse, isStopped
<1>2. CASE ReconnectDue
  <2>1. controlConnection = NoConn /\ phase' \in {"started", "stopping"}
    BY <1>2 DEF ReconnectDue, Inv, InUse, TypeOK, isStopped
  <2> QED BY <1>2, <2>1, Connecting DEF ReconnectDue
<1>3. CASE QueueStop
  <2>1. /\ phase = "started" /\ phase' = "stopping"
        /\ UNCHANGED <<control, sendTimer, silence, transport, history, network, host>>
    BY <1>3 DEF QueueStop
  <2>2. TypeOK' BY <2>1 DEF Inv, TypeOK, control, transport, history, network
  <2>3. OneInUse' /\ ReportsAreTrue' BY <2>1 DEF Inv, OneInUse, ReportsAreTrue, control, network
  <2>4. FramesAsNegotiated' /\ InUse'
    BY <2>1 DEF Inv, FramesAsNegotiated, InUse, isStopped, control, transport, history, network
  <2> QED BY <2>2, <2>3, <2>4 DEF Inv
<1>4. CASE Stop
  <2>1. TypeOK'
    BY <1>4 DEF Stop, Inv, TypeOK, Links, history
  <2>2. \A c \in Conns : /\ link'[c] \in {"none", "cancelled"}
                         /\ link'[c] = link[c] \/ link'[c] = "cancelled"
    BY <1>4 DEF Stop, Inv, TypeOK, OneInUse
  <2>3. OneInUse' /\ ReportsAreTrue'
    BY <1>4, <2>2, SimulatorAssumption DEF Stop, Inv, TypeOK, OneInUse, ReportsAreTrue, InUse, Over
  <2>4. FramesAsNegotiated' /\ InUse'
    BY <1>4 DEF Stop, FramesAsNegotiated, InUse, isStopped
  <2> QED BY <2>1, <2>3, <2>4 DEF Inv
<1>5. CASE Tick
  BY <1>5, TickInv
<1>6. CASE submitFrame
  <2>1. sent' \subseteq Conns /\ UNCHANGED <<own, link, receiving, calls, host>>
    BY <1>6 DEF submitFrame, Sends, Inv, TypeOK
  <2>2. TypeOK' BY <2>1 DEF Inv, TypeOK, own, control, transport, history
  <2>3. OneInUse' /\ ReportsAreTrue' BY <2>1 DEF Inv, OneInUse, ReportsAreTrue, own, control
  <2>4. FramesAsNegotiated' /\ InUse'
    BY <2>1 DEF Inv, FramesAsNegotiated, InUse, isStopped, own, control, transport, history
  <2> QED BY <2>2, <2>3, <2>4 DEF Inv
<1>7. CASE HostChanges
  <2>1. /\ UNCHANGED <<own, receiving, sent, calls>>
        /\ host' \in Hosts
        /\ link' \in [Conns -> Links]
        /\ \A c \in Conns : \/ link'[c] = link[c]
                            \/ link[c] = "ready" /\ link'[c] \in {"closed", "gone"}
    BY <1>7 DEF HostChanges, HostBecomes, Inv, TypeOK, Links
  <2>2. TypeOK' BY <2>1 DEF Inv, TypeOK, own, control, transport, history
  <2>3. OneInUse' /\ ReportsAreTrue'
    BY <2>1 DEF Inv, OneInUse, ReportsAreTrue, own, control, Over
  <2>4. FramesAsNegotiated'
    BY <2>1 DEF Inv, FramesAsNegotiated, isStopped, own, control, transport, history
  <2>5. InUse'
    BY <2>1 DEF Inv, TypeOK, InUse, isStopped, own, control, history
  <2> QED BY <2>2, <2>3, <2>4, <2>5 DEF Inv
<1>8. ASSUME NEW c \in Conns, Callback(c) \/ Framework(c) \/ HostAnswers(c) PROVE Inv'
  BY <1>8, CallbackInv, FrameworkInv
<1>9. CASE UNCHANGED vars
  <2>2. TypeOK' BY <1>9 DEF vars, network, Inv, TypeOK, own, control, transport, history
  <2>3. OneInUse' /\ ReportsAreTrue'
    BY <1>9 DEF vars, network, Inv, OneInUse, ReportsAreTrue, own, control
  <2>4. FramesAsNegotiated' /\ InUse'
    BY <1>9 DEF vars, network, Inv, FramesAsNegotiated, InUse, isStopped, own, control, transport, history
  <2> QED BY <2>2, <2>3, <2>4 DEF Inv
<1> QED BY <1>1, <1>2, <1>3, <1>4, <1>5, <1>6, <1>7, <1>8, <1>9 DEF Next

LEMMA Invariance == Spec => []Inv
  BY InitInv, StepInv, PTL DEF Spec

\* The variables keep their types, for any connections, attempts and limit.
THEOREM TypeCorrect == Spec => []TypeOK
  BY Invariance, PTL DEF Inv

\* Frames go out only as the welcome of the connection in use negotiated
\* (handleControlMessage, handleControlDisconnect).
THEOREM FramesGoAsNegotiated == Spec => []FramesAsNegotiated
  BY Invariance, PTL DEF Inv

\* No late callback takes down a healthy connection, and the health check only
\* one that was silent itself (tickControlHealth).
THEOREM HealthyStays == Spec => HealthyIsKept
<1> DEFINE Kept == controlConnection # NoConn /\ controlConnection' # controlConnection =>
                       isStopped' \/ link[controlConnection] \notin Healthy \/ quiet' > StaleTicks
<1>1. Inv /\ [Next]_vars => Kept
  <2> SUFFICES ASSUME Inv, [Next]_vars, controlConnection # NoConn,
                      controlConnection' # controlConnection, ~isStopped'
               PROVE  link[controlConnection] \notin Healthy \/ quiet' > StaleTicks
    OBVIOUS
  <2>1. CASE Start \/ ReconnectDue
    BY <2>1 DEF Start, ReconnectDue, Inv, InUse
  <2>2. CASE QueueStop \/ Stop \/ submitFrame \/ HostChanges \/ UNCHANGED vars
    BY <2>2 DEF QueueStop, Stop, submitFrame, HostChanges, vars, own, control, isStopped
  <2>3. CASE Tick
    <3>1. silence' = quiet'
      BY <2>3 DEF Tick, tickControlHealth, Inv, InUse
    <3> QED BY <2>3, <3>1 DEF Tick, tickControlHealth, control
  <2>4. ASSUME NEW c \in Conns, Failed(c) \/ ReceiveEnded(c) \/ SendFailed(c)
        PROVE  link[controlConnection] \notin Healthy
    <3>1. \E e \in Ends : Comes(c, e)
      BY <2>4 DEF Failed, ReceiveEnded, SendFailed, Ends
    <3>2. link[c] \in Over
      BY <3>1 DEF Inv, ReportsAreTrue, Comes
    <3>3. handleControlDisconnect(c)
      BY <2>4 DEF Failed, ReceiveEnded, SendFailed
    <3>4. c = controlConnection
      BY <3>3 DEF handleControlDisconnect, isCurrentControlConnection, control
    <3> QED BY <3>2, <3>4 DEF Over, Healthy
  <2>5. ASSUME NEW c \in Conns,
               Ready(c) \/ Waiting(c) \/ WelcomeReceived(c) \/ OtherReceived(c) \/ Stale(c)
        PROVE  FALSE
    BY <2>5 DEF Ready, Waiting, WelcomeReceived, OtherReceived, BytesArrived, Stale, own, control
  <2>6. ASSUME NEW c \in Conns, Framework(c) \/ HostAnswers(c) PROVE FALSE
    BY <2>6 DEF Framework, HostAnswers, own, control
  <2> QED BY <2>1, <2>2, <2>3, <2>4, <2>5, <2>6 DEF Next, Callback
<1>2. Inv /\ [Next]_vars => [Kept]_vars
  BY <1>1
<1> QED BY <1>2, Invariance, PTL DEF Spec, HealthyIsKept
=============================================================================
