-------------------------- MODULE HostSessionProofs --------------------------
(***************************************************************************)
(* For any number of connections, hellos and poses, and any interleaving   *)
(* of the listener queue, the registry queue and the sessions' queues.     *)
(*                                                                         *)
(* A connection owns at most one session, hence feeds at most one stream:  *)
(* didHandshake is set in the same block that makes the session and never  *)
(* reset (OneSessionPerConnection).  The registry keeps a session under    *)
(* its own connection (Attached), so a block of the registry queue reaches *)
(* the session it is meant for.                                            *)
(*                                                                         *)
(* A connection that goes leaves a remove or stopAll block behind whatever *)
(* it enqueued before, and the registry queue is serial: so the stop is    *)
(* always behind what starts the stream (StopsFollow), on the registry     *)
(* queue as long as the session is or will be in the registry, on the      *)
(* session's own queue afterwards.  In the same way poses keep their order *)
(* from the line to the session (PosesNumbered).                           *)
(***************************************************************************)
EXTENDS HostSession, SequenceTheorems, TLAPS

USE HostAssumption

\* A connection that has a session has shaken hands, and has no other session.
OneSessionPerConnection ==
    /\ \A s \in DOMAIN sessions : sessions[s].conn \in handshaken
    /\ \A s, t \in DOMAIN sessions : sessions[s].conn = sessions[t].conn => s = t

LEMMA InitType == Init => TypeOK
<1> SUFFICES ASSUME Init PROVE TypeOK
  OBVIOUS
<1>1. DOMAIN registry = {}
  BY DEF Init
<1>2. regq \in Seq(Block) /\ sessions \in Seq(Session)
  BY DEF Init
<1>3. hellos \in 0 .. MaxHellos /\ poses \in 0 .. MaxPoses
  BY DEF Init
<1>4. tracking \in Pose
  BY DEF Init, NoPose, Pose
<1> QED
  BY <1>1, <1>2, <1>3, <1>4 DEF Init, TypeOK

\* What the network and the listener queue do between lines touches neither the
\* sessions nor the registry, and adds at most a remove or stopAll block.
LEMMA ListenerType ==
    ASSUME TypeOK, NEW c \in Conns,
           \/ Arrive(c) \/ Accept(c) \/ DataArrives(c) \/ ReceiveData(c)
           \/ ConsumeEnds(c) \/ ReceiveEnds(c) \/ ConnectionFails(c)
    PROVE  TypeOK' /\ UNCHANGED <<sessions, handshaken>>
<1>1. UNCHANGED <<lineVars, stopVars, registry, sessions>>
  BY DEF Arrive, Accept, DataArrives, ReceiveData, ConsumeEnds, ReceiveEnds,
         ConnectionFails, workVars
<1>2. regq' \in Seq(Block)
  <2>1. [op |-> "remove", conn |-> c] \in Block
    BY DEF Block
  <2>2. regq' = regq \/ regq' = Append(regq, [op |-> "remove", conn |-> c])
    BY DEF Arrive, Accept, DataArrives, ReceiveData, ConsumeEnds, ReceiveEnds,
           ConnectionFails, workVars, cleanupConnection
  <2>3. regq \in Seq(Block)
    BY DEF TypeOK
  <2> QED
    BY <2>1, <2>2, <2>3, AppendProperties
<1>3. /\ arrived' \subseteq Conns /\ active' \subseteq Conns /\ cancelled' \subseteq Conns
      /\ armed' \subseteq Conns /\ queued' \subseteq armed'
      /\ busy' \in Conns \cup {NoConn}
  BY DEF TypeOK, Arrive, Accept, DataArrives, ReceiveData, ConsumeEnds, ReceiveEnds,
         ConnectionFails, cleanupConnection
<1>4. Block' = Block
  BY <1>1 DEF Block
<1>5. QED
  BY <1>1, <1>2, <1>3, <1>4 DEF TypeOK, lineVars, stopVars
\* A table of sessions, one for each there was, is a sequence of sessions again.
LEMMA SessionTable ==
    ASSUME TypeOK, NEW f \in [DOMAIN sessions -> Session]
    PROVE  f \in Seq(Session) /\ DOMAIN f = DOMAIN sessions
<1>1. sessions \in Seq(Session)
  BY DEF TypeOK
<1>2. DOMAIN sessions = 1 .. Len(sessions) /\ Len(sessions) \in Nat
  BY <1>1
<1>3. QED
  BY <1>2, SeqDef

LEMMA OpenSessionType ==
    ASSUME TypeOK, NEW c \in Conns, OpenSession(c)
    PROVE  /\ sessions' \in Seq(Session) /\ regq' \in Seq(Block')
           /\ DOMAIN sessions \subseteq DOMAIN sessions'
           /\ Len(sessions') = Len(sessions) + 1
           /\ \A s \in DOMAIN sessions : sessions'[s] = sessions[s]
           /\ sessions'[Len(sessions) + 1].conn = c
           /\ DOMAIN sessions' = 1 .. Len(sessions) + 1
<1> DEFINE new == [conn |-> c, timer |-> FALSE, queue |-> <<>>, pose |-> NoPose,
                   late |-> c \notin active]
           b   == [op |-> "set", conn |-> c, session |-> Len(sessions) + 1]
<1>1. sessions \in Seq(Session) /\ regq \in Seq(Block)
  BY DEF TypeOK
<1>2. NoPose \in Pose /\ <<>> \in Seq(SessionBlock)
  BY DEF NoPose, Pose
<1>3. new \in Session
  BY <1>2 DEF Session
<1>4. sessions' = Append(sessions, new) /\ regq' = Append(regq, b)
  BY DEF OpenSession
<1>5. /\ sessions' \in Seq(Session) /\ Len(sessions') = Len(sessions) + 1
      /\ DOMAIN sessions' = 1 .. Len(sessions) + 1
      /\ DOMAIN sessions = 1 .. Len(sessions) /\ Len(sessions) \in Nat
      /\ \A s \in DOMAIN sessions : sessions'[s] = sessions[s]
      /\ sessions'[Len(sessions) + 1] = new
  <2> HIDE DEF new
  <2> QED BY <1>1, <1>3, <1>4, AppendProperties
<1>6. DOMAIN sessions \subseteq DOMAIN sessions' /\ Len(sessions) + 1 \in DOMAIN sessions'
  BY <1>5
<1>7. Block \subseteq Block' /\ b \in Block'
  BY <1>6 DEF Block
<1>8. regq \in Seq(Block')
  BY <1>1, <1>7, SeqMonotonic
<1>9. regq' \in Seq(Block')
  <2> HIDE DEF b
  <2> QED BY <1>4, <1>7, <1>8, AppendProperties
<1>10. QED
  BY <1>5, <1>6, <1>9

LEMMA HelloType ==
    ASSUME TypeOK, OneSessionPerConnection, NEW c \in Conns, handleHello(c)
    PROVE  TypeOK' /\ OneSessionPerConnection'
<1>1. /\ hellos' \in 0 .. MaxHellos
      /\ UNCHANGED <<arrived, armed, queued, busy, poses, tracking, stopVars, registry>>
  BY DEF TypeOK, handleHello
<1>2. CASE HelloRefused(c)
  <2>1. Block' = Block
    BY <1>2 DEF HelloRefused, Block
  <2> QED
    BY <1>1, <1>2, <2>1 DEF HelloRefused, TypeOK, OneSessionPerConnection, stopVars
<1>3. CASE HelloDenied(c)
  <2>1. UNCHANGED <<handshaken, sessions>> /\ denied' = denied \cup {c}
    BY <1>3 DEF HelloDenied
  <2>2. Block' = Block
    BY <2>1 DEF Block
  <2>3. regq' = regq \/ regq' = Append(regq, [op |-> "remove", conn |-> c])
    BY <1>3 DEF HelloDenied, cleanupConnection
  <2>4. [op |-> "remove", conn |-> c] \in Block /\ regq \in Seq(Block)
    BY DEF Block, TypeOK
  <2>5. regq' \in Seq(Block)
    BY <2>3, <2>4, AppendProperties
  <2>6. active' \subseteq Conns /\ cancelled' \subseteq Conns
    BY <1>3 DEF HelloDenied, cleanupConnection, TypeOK
  <2> QED
    BY <1>1, <2>1, <2>2, <2>5, <2>6 DEF TypeOK, OneSessionPerConnection, stopVars
<1>4. CASE HelloAccepted(c)
  <2>1. c \notin handshaken /\ handshaken' = handshaken \cup {c} /\ OpenSession(c)
        /\ UNCHANGED <<denied, active, cancelled>>
    BY <1>4 DEF HelloAccepted, OpenSession
  <2>2. /\ sessions' \in Seq(Session) /\ regq' \in Seq(Block')
        /\ DOMAIN sessions \subseteq DOMAIN sessions'
        /\ \A s \in DOMAIN sessions : sessions'[s] = sessions[s]
        /\ sessions'[Len(sessions) + 1].conn = c
        /\ DOMAIN sessions' = 1 .. Len(sessions) + 1
    BY <2>1, OpenSessionType
  <2>3. DOMAIN sessions = 1 .. Len(sessions) /\ Len(sessions) \in Nat
    BY DEF TypeOK
  <2>4. TypeOK'
    BY <1>1, <2>1, <2>2 DEF TypeOK, stopVars
  <2>5. \A s \in DOMAIN sessions' : s \in DOMAIN sessions \/ s = Len(sessions) + 1
    BY <2>2, <2>3
  <2>6. OneSessionPerConnection'
    BY <2>1, <2>2, <2>5 DEF OneSessionPerConnection
  <2> QED BY <2>4, <2>6
<1>5. QED
  BY <1>2, <1>3, <1>4 DEF handleHello
LEMMA PoseType ==
    ASSUME TypeOK, NEW c \in Conns, handlePose(c)
    PROVE  TypeOK' /\ UNCHANGED <<sessions, handshaken>>
<1> DEFINE b == [op |-> "pose", conn |-> c, number |-> poses + 1]
<1>1. UNCHANGED <<connVars, handshaken, hellos, denied, stopVars, registry, sessions>>
  BY DEF handlePose
<1>2. poses' \in 0 .. MaxPoses /\ poses + 1 \in 1 .. MaxPoses
  BY DEF TypeOK, handlePose
<1>3. b \in Block
  BY <1>2 DEF Block
<1>4. regq' = Append(regq, b) /\ regq \in Seq(Block)
  BY DEF handlePose, TypeOK
<1>5. regq' \in Seq(Block)
  BY <1>3, <1>4, AppendProperties
<1>6. tracking' \in Pose
  BY <1>2 DEF handlePose, TypeOK, Pose
<1>7. Block' = Block
  BY <1>1 DEF Block
<1>8. QED
  BY <1>1, <1>2, <1>5, <1>6, <1>7 DEF TypeOK, connVars, stopVars

LEMMA StopType ==
    ASSUME TypeOK, Stop \/ StopBlock \/ Release
    PROVE  TypeOK' /\ UNCHANGED <<sessions, handshaken>>
<1>1. UNCHANGED <<lineVars, registry, sessions>>
  BY DEF Stop, StopBlock, Release, workVars
<1>2. Block' = Block
  BY <1>1 DEF Block
<1>3. [op |-> "stopAll"] \in Block /\ regq \in Seq(Block)
  BY DEF Block, TypeOK
<1>4. regq' = regq \/ regq' = Append(regq, [op |-> "stopAll"])
  BY DEF Stop, StopBlock, Release, workVars
<1>5. regq' \in Seq(Block)
  BY <1>3, <1>4, AppendProperties
<1>6. /\ arrived' \subseteq Conns /\ active' \subseteq Conns /\ cancelled' \subseteq Conns
      /\ armed' \subseteq Conns /\ queued' \subseteq armed' /\ busy' = busy
      /\ stopping' \in {"no", "queued", "done"} /\ released' \in BOOLEAN
  BY DEF TypeOK, Stop, StopBlock, Release, connVars
<1>7. QED
  BY <1>1, <1>2, <1>5, <1>6 DEF TypeOK, lineVars

\* Posting a block to some of the sessions changes nothing but their queues.
LEMMA PostType ==
    ASSUME TypeOK, NEW targets, NEW block \in SessionBlock
    PROVE  /\ Post(targets, block) \in [DOMAIN sessions -> Session]
           /\ \A s \in DOMAIN sessions : Post(targets, block)[s].conn = sessions[s].conn
<1> SUFFICES ASSUME NEW s \in DOMAIN sessions
             PROVE  /\ Post(targets, block)[s] \in Session
                    /\ Post(targets, block)[s].conn = sessions[s].conn
  BY DEF Post
<1>1. sessions[s] \in Session
  BY DEF TypeOK
<1>2. Append(sessions[s].queue, block) \in Seq(SessionBlock)
  BY <1>1, AppendProperties DEF Session
<1> QED
  BY <1>1, <1>2 DEF Post, Session

\* Each block of the registry queue moves sessions in and out of the registry and
\* posts to their queues; no session appears, disappears or changes connection.
LEMMA RunBlockType ==
    ASSUME TypeOK, NEW b \in Block, RunBlock(b)
    PROVE  /\ sessions' \in [DOMAIN sessions -> Session]
           /\ \A s \in DOMAIN sessions : sessions'[s].conn = sessions[s].conn
           /\ DOMAIN registry' \subseteq Conns
           /\ \A c \in DOMAIN registry' : registry'[c] \in DOMAIN sessions
<1>1. [op |-> "stop"] \in SessionBlock /\ [op |-> "start"] \in SessionBlock
  BY DEF SessionBlock
<1>2. CASE RunSet(b)
  <2>1. b.conn \in Conns /\ b.session \in DOMAIN sessions
    BY <1>2 DEF RunSet, Block
  <2>2. /\ DOMAIN registry' \subseteq Conns
        /\ \A c \in DOMAIN registry' : registry'[c] \in DOMAIN sessions
    BY <1>2, <2>1 DEF RunSet, TypeOK
  <2>3. ASSUME NEW s \in DOMAIN sessions
        PROVE  sessions'[s] \in Session /\ sessions'[s].conn = sessions[s].conn
    <3>1. sessions[s] \in Session
      BY DEF TypeOK
    <3>2. /\ Append(sessions[s].queue, [op |-> "start"]) \in Seq(SessionBlock)
          /\ Append(sessions[s].queue, [op |-> "stop"]) \in Seq(SessionBlock)
      BY <1>1, <3>1, AppendProperties DEF Session
    <3>3. \/ sessions'[s] = [sessions[s] EXCEPT !.queue = Append(@, [op |-> "start"])]
          \/ sessions'[s] = [sessions[s] EXCEPT !.queue = Append(@, [op |-> "stop"])]
          \/ sessions'[s] = sessions[s]
      BY <1>2 DEF RunSet
    <3> QED BY <3>1, <3>2, <3>3 DEF Session
  <2>4. sessions' = [s \in DOMAIN sessions |-> sessions'[s]]
    BY <1>2 DEF RunSet
  <2> QED BY <2>2, <2>3, <2>4
<1>3. CASE RunPose(b)
  <2>1. [op |-> "pose", conn |-> b.conn, number |-> b.number] \in SessionBlock
    BY <1>3 DEF RunPose, Block, SessionBlock
  <2>2. /\ sessions' = Post(Registered(b.conn),
                            [op |-> "pose", conn |-> b.conn, number |-> b.number])
        /\ registry' = registry
    BY <1>3 DEF RunPose
  <2>3. /\ DOMAIN registry' \subseteq Conns
        /\ \A c \in DOMAIN registry' : registry'[c] \in DOMAIN sessions
    BY <2>2 DEF TypeOK
  <2>4. /\ sessions' \in [DOMAIN sessions -> Session]
        /\ \A s \in DOMAIN sessions : sessions'[s].conn = sessions[s].conn
    BY <2>1, <2>2, PostType
  <2> QED
    BY <2>3, <2>4
<1>4. CASE RunRemove(b)
  <2>1. /\ DOMAIN registry' \subseteq DOMAIN registry
        /\ \A c \in DOMAIN registry' : registry'[c] = registry[c]
    BY <1>4 DEF RunRemove, Restrict
  <2>2. /\ DOMAIN registry' \subseteq Conns
        /\ \A c \in DOMAIN registry' : registry'[c] \in DOMAIN sessions
    BY <2>1 DEF TypeOK
  <2>3. sessions' = Post(Registered(b.conn), [op |-> "stop"])
    BY <1>4 DEF RunRemove
  <2>4. /\ sessions' \in [DOMAIN sessions -> Session]
        /\ \A s \in DOMAIN sessions : sessions'[s].conn = sessions[s].conn
    BY <1>1, <2>3, PostType
  <2> QED
    BY <2>2, <2>4
<1>5. CASE RunStopAll(b)
  <2>1. DOMAIN registry' = {}
    BY <1>5 DEF RunStopAll
  <2>2. sessions' = Post(Range(registry), [op |-> "stop"])
    BY <1>5 DEF RunStopAll
  <2>3. /\ sessions' \in [DOMAIN sessions -> Session]
        /\ \A s \in DOMAIN sessions : sessions'[s].conn = sessions[s].conn
    BY <1>1, <2>2, PostType
  <2> QED
    BY <2>1, <2>3
<1>6. QED
  BY <1>2, <1>3, <1>4, <1>5 DEF RunBlock

LEMMA RegistryType ==
    ASSUME TypeOK, OneSessionPerConnection, RegistryStep \/ RegistryFreed
    PROVE  TypeOK' /\ OneSessionPerConnection'
<1>1. UNCHANGED <<connVars, lineVars, stopVars>>
  BY DEF RegistryStep, RegistryFreed
<1>2. CASE RegistryStep
  <2>1. regq \in Seq(Block) /\ regq # <<>>
    BY <1>2 DEF TypeOK, RegistryStep
  <2>2. Head(regq) \in Block /\ Tail(regq) \in Seq(Block)
    BY <2>1, HeadTailProperties
  <2>3. /\ sessions' \in [DOMAIN sessions -> Session]
        /\ \A s \in DOMAIN sessions : sessions'[s].conn = sessions[s].conn
        /\ DOMAIN registry' \subseteq Conns
        /\ \A c \in DOMAIN registry' : registry'[c] \in DOMAIN sessions
    BY <1>2, <2>2, RunBlockType DEF RegistryStep
  <2>4. sessions' \in Seq(Session) /\ DOMAIN sessions' = DOMAIN sessions
    BY <2>3, SessionTable
  <2>5. regq' \in Seq(Block) /\ Block' = Block
    BY <1>2, <2>2, <2>4 DEF RegistryStep, Block
  <2>6. TypeOK'
    BY <1>1, <2>3, <2>4, <2>5 DEF TypeOK, connVars, lineVars, stopVars
  <2>7. OneSessionPerConnection'
    BY <1>1, <2>3, <2>4 DEF OneSessionPerConnection, lineVars
  <2> QED BY <2>6, <2>7
<1>3. CASE RegistryFreed
  <2>1. UNCHANGED <<regq, sessions>> /\ DOMAIN registry' = {}
    BY <1>3 DEF RegistryFreed
  <2>2. Block' = Block
    BY <2>1 DEF Block
  <2> QED
    BY <1>1, <2>1, <2>2 DEF TypeOK, OneSessionPerConnection, connVars, lineVars, stopVars
<1>4. QED
  BY <1>2, <1>3

LEMMA SessionType ==
    ASSUME TypeOK, OneSessionPerConnection, NEW s \in DOMAIN sessions,
           SessionStep(s) \/ SessionFreed(s)
    PROVE  TypeOK' /\ OneSessionPerConnection'
<1>1. UNCHANGED <<connVars, lineVars, stopVars, registry, regq>>
  BY DEF SessionStep, SessionFreed
<1>2. sessions[s] \in Session
  BY DEF TypeOK
<1>3. PICK r \in Session : r.conn = sessions[s].conn /\ sessions' = [sessions EXCEPT ![s] = r]
  <2>1. CASE SessionFreed(s)
    <3> DEFINE r == [sessions[s] EXCEPT !.timer = FALSE]
    <3>1. r \in Session /\ r.conn = sessions[s].conn
      BY <1>2 DEF Session
    <3>2. sessions' = [sessions EXCEPT ![s] = r]
      BY <2>1 DEF SessionFreed
    <3> QED BY <3>1, <3>2
  <2>2. CASE SessionStep(s)
    <3> DEFINE b == Head(sessions[s].queue)
               r == [sessions[s] EXCEPT
                       !.queue = Tail(@),
                       !.timer = IF b.op = "start" THEN TRUE
                                 ELSE IF b.op = "stop" THEN FALSE ELSE @,
                       !.pose  = IF b.op = "pose"
                                 THEN [conn |-> b.conn, number |-> b.number] ELSE @]
    <3>1. b \in SessionBlock /\ Tail(sessions[s].queue) \in Seq(SessionBlock)
      BY <1>2, <2>2, HeadTailProperties DEF Session, SessionStep
    <3>2. b.op = "pose" => [conn |-> b.conn, number |-> b.number] \in Pose
      BY <3>1 DEF SessionBlock, Pose
    <3> HIDE DEF b
    <3>3. r \in Session /\ r.conn = sessions[s].conn
      BY <1>2, <3>1, <3>2 DEF Session
    <3>4. sessions' = [sessions EXCEPT ![s] = r]
      BY <2>2 DEF SessionStep, b
    <3> HIDE DEF r
    <3> QED BY <3>3, <3>4
  <2> QED BY <2>1, <2>2
<1>4. /\ sessions' \in [DOMAIN sessions -> Session]
      /\ \A t \in DOMAIN sessions : sessions'[t].conn = sessions[t].conn
  BY <1>3 DEF TypeOK
<1>5. sessions' \in Seq(Session) /\ DOMAIN sessions' = DOMAIN sessions
  BY <1>4, SessionTable
<1>6. Block' = Block
  BY <1>5 DEF Block
<1>7. TypeOK'
  BY <1>1, <1>5, <1>6 DEF TypeOK, connVars, lineVars, stopVars
<1>8. OneSessionPerConnection'
  BY <1>1, <1>4, <1>5 DEF OneSessionPerConnection, lineVars
<1>9. QED
  BY <1>7, <1>8

LEMMA Invariance == Spec => [](TypeOK /\ OneSessionPerConnection)
<1>1. Init => TypeOK /\ OneSessionPerConnection
  BY InitType DEF Init, OneSessionPerConnection
<1>2. ASSUME TypeOK, OneSessionPerConnection, [Next]_vars
      PROVE  TypeOK' /\ OneSessionPerConnection'
  <2>1. ASSUME UNCHANGED <<sessions, handshaken>>
        PROVE  OneSessionPerConnection'
    BY <1>2, <2>1 DEF OneSessionPerConnection
  <2>2. ASSUME NEW c \in Conns,
               \/ Arrive(c) \/ Accept(c) \/ DataArrives(c) \/ ReceiveData(c)
               \/ ConsumeEnds(c) \/ ReceiveEnds(c) \/ ConnectionFails(c)
        PROVE  TypeOK' /\ OneSessionPerConnection'
    BY <1>2, <2>1, <2>2, ListenerType
  <2>3. ASSUME NEW c \in Conns, handleHello(c)
        PROVE  TypeOK' /\ OneSessionPerConnection'
    BY <1>2, <2>3, HelloType
  <2>4. ASSUME NEW c \in Conns, handlePose(c)
        PROVE  TypeOK' /\ OneSessionPerConnection'
    BY <1>2, <2>1, <2>4, PoseType
  <2>5. CASE Stop \/ StopBlock \/ Release
    BY <1>2, <2>1, <2>5, StopType
  <2>6. CASE RegistryStep \/ RegistryFreed
    BY <1>2, <2>6, RegistryType
  <2>7. ASSUME NEW s \in DOMAIN sessions, SessionStep(s) \/ SessionFreed(s)
        PROVE  TypeOK' /\ OneSessionPerConnection'
    BY <1>2, <2>7, SessionType
  <2>8. CASE UNCHANGED vars
    <3>1. UNCHANGED <<connVars, lineVars, stopVars, workVars>>
      BY <2>8 DEF vars
    <3>2. Block' = Block
      BY <3>1 DEF Block, workVars
    <3> QED
      BY <1>2, <3>1, <3>2
         DEF TypeOK, OneSessionPerConnection, connVars, lineVars, stopVars, workVars
  <2> QED
    BY <1>2, <2>2, <2>3, <2>4, <2>5, <2>6, <2>7, <2>8 DEF Next
<1>3. QED
  BY <1>1, <1>2, PTL DEF Spec

\* Every variable of the host keeps its type.
THEOREM TypeCorrect == Spec => []TypeOK
<1>1. QED
  BY Invariance, PTL

\* However many hellos a connection sends and however the queues interleave, it
\* never feeds two streams.
THEOREM NoSecondStream == Spec => []OneStreamPerConnection
<1>1. OneSessionPerConnection => OneStreamPerConnection
  BY DEF OneSessionPerConnection, OneStreamPerConnection
<1>2. QED
  BY <1>1, Invariance, PTL
-----------------------------------------------------------------------------
\* Late sessions.

\* A connection that the listener queue may still read from is up, unless one of
\* its hellos was refused or the service was stopped.
Readable ==
    /\ busy \notin armed
    /\ \A c \in Conns :
          busy = c \/ c \in queued \/ c \in armed \ cancelled =>
             c \in active \cup denied \/ stopping = "done"

LEMMA ListenerReadable ==
    ASSUME TypeOK, Readable, NEW c \in Conns,
           \/ Arrive(c) \/ Accept(c) \/ DataArrives(c) \/ ReceiveData(c)
           \/ ConsumeEnds(c) \/ ReceiveEnds(c) \/ ConnectionFails(c)
    PROVE  Readable'
<1>1. UNCHANGED <<denied, stopping>>
  BY DEF Arrive, Accept, DataArrives, ReceiveData, ConsumeEnds, ReceiveEnds,
         ConnectionFails, lineVars, stopVars
<1>2. ASSUME cleanupConnection(c), busy' = NoConn, queued' = queued, c \notin queued,
             armed' \subseteq armed
      PROVE  Readable'
  <2>1. active' = active \ {c} /\ (c \in active => cancelled' = cancelled \cup {c})
    BY <1>2 DEF cleanupConnection
  <2>2. c \in active \/ UNCHANGED <<active, cancelled>>
    BY <1>2 DEF cleanupConnection
  <2> QED BY <1>1, <1>2, <2>1, <2>2 DEF Readable, TypeOK
<1>3. CASE Arrive(c) \/ Accept(c) \/ DataArrives(c) \/ ReceiveData(c)
  BY <1>1, <1>3 DEF Readable, TypeOK, Arrive, Accept, DataArrives, ReceiveData, Idle
<1>4. CASE ConsumeEnds(c)
  BY <1>1, <1>2, <1>4 DEF Readable, TypeOK, ConsumeEnds
<1>5. CASE ReceiveEnds(c) \/ ConnectionFails(c)
  BY <1>2, <1>5 DEF ReceiveEnds, ConnectionFails, Idle
<1> QED
  BY <1>3, <1>4, <1>5

LEMMA ReadableStep ==
    ASSUME TypeOK, Readable, [Next]_vars
    PROVE  Readable'
<1>1. ASSUME NEW c \in Conns, handleHello(c)
      PROVE  Readable'
  <2>1. busy = c /\ UNCHANGED <<armed, queued, busy, stopping>>
    BY <1>1 DEF handleHello, stopVars
  <2>2. CASE UNCHANGED <<denied, active, cancelled>>
    BY <2>1, <2>2 DEF Readable
  <2>3. CASE HelloDenied(c)
    <3>1. denied' = denied \cup {c} /\ active' \cup {c} = active \cup {c}
      BY <2>3 DEF HelloDenied, cleanupConnection
    <3>2. cancelled \subseteq cancelled'
      BY <2>3 DEF HelloDenied, cleanupConnection
    <3> QED BY <2>1, <3>1, <3>2 DEF Readable
  <2> QED
    BY <1>1, <2>2, <2>3 DEF handleHello, HelloRefused, HelloAccepted, OpenSession
<1>2. ASSUME NEW c \in Conns, handlePose(c)
      PROVE  Readable'
  BY <1>2 DEF Readable, handlePose, connVars, stopVars
<1>3. CASE Stop \/ StopBlock \/ Release
  BY <1>3 DEF Readable, TypeOK, Stop, StopBlock, Release, Idle, connVars, lineVars
<1>4. CASE RegistryStep \/ RegistryFreed
  BY <1>4 DEF Readable, RegistryStep, RegistryFreed, connVars, lineVars, stopVars
<1>5. ASSUME NEW s \in DOMAIN sessions, SessionStep(s) \/ SessionFreed(s)
      PROVE  Readable'
  BY <1>5 DEF Readable, SessionStep, SessionFreed, connVars, lineVars, stopVars
<1>6. CASE UNCHANGED vars
  BY <1>6 DEF Readable, vars, connVars, lineVars, stopVars
<1> QED
  BY <1>1, <1>2, <1>3, <1>4, <1>5, <1>6, ListenerReadable DEF Next

\* A session keeps its connection and its circumstances for ever.
LEMMA SessionsKeep ==
    ASSUME TypeOK, [Next]_vars, NEW s \in DOMAIN sessions
    PROVE  /\ s \in DOMAIN sessions'
           /\ sessions'[s].conn = sessions[s].conn /\ sessions'[s].late = sessions[s].late
<1>1. sessions[s] \in Session
  BY DEF TypeOK
<1>2. CASE UNCHANGED sessions
  BY <1>2
<1>3. ASSUME NEW c \in Conns, handleHello(c)
      PROVE  s \in DOMAIN sessions' /\ sessions'[s] = sessions[s]
  BY <1>3, OpenSessionType DEF handleHello, HelloRefused, HelloDenied, HelloAccepted
<1>4. ASSUME NEW f, sessions' = [t \in DOMAIN sessions |-> f[t]],
             \/ f[s] = sessions[s]
             \/ \E q : f[s] = [sessions[s] EXCEPT !.queue = q]
      PROVE  /\ s \in DOMAIN sessions'
             /\ sessions'[s].conn = sessions[s].conn /\ sessions'[s].late = sessions[s].late
  BY <1>1, <1>4 DEF Session
<1>5. CASE RegistryStep
  <2> DEFINE b == Head(regq)
  <2>1. ASSUME NEW targets, NEW block, sessions' = Post(targets, block)
        PROVE  /\ s \in DOMAIN sessions'
               /\ sessions'[s].conn = sessions[s].conn /\ sessions'[s].late = sessions[s].late
    BY <1>1, <2>1 DEF Post, Session
  <2>2. CASE RunSet(b)
    BY <1>1, <2>2 DEF RunSet, Session
  <2>3. CASE RunPose(b) \/ RunRemove(b) \/ RunStopAll(b)
    BY <2>1, <2>3 DEF RunPose, RunRemove, RunStopAll
  <2> QED BY <1>5, <2>2, <2>3 DEF RegistryStep, RunBlock
<1>6. ASSUME NEW t \in DOMAIN sessions, SessionStep(t) \/ SessionFreed(t)
      PROVE  /\ s \in DOMAIN sessions'
             /\ sessions'[s].conn = sessions[s].conn /\ sessions'[s].late = sessions[s].late
  BY <1>1, <1>6 DEF SessionStep, SessionFreed, Session
<1>7. CASE \/ \E c \in Conns :
                 \/ Arrive(c) \/ Accept(c) \/ DataArrives(c) \/ ReceiveData(c)
                 \/ ConsumeEnds(c) \/ ReceiveEnds(c) \/ ConnectionFails(c) \/ handlePose(c)
           \/ Stop \/ StopBlock \/ Release \/ RegistryFreed \/ UNCHANGED vars
  BY <1>2, <1>7 DEF Arrive, Accept, DataArrives, ReceiveData, ConsumeEnds, ReceiveEnds,
     ConnectionFails, handlePose, Stop, StopBlock, Release, RegistryFreed, vars, workVars
<1> QED
  BY <1>3, <1>5, <1>6, <1>7 DEF Next

\* What is refused stays refused, and a stopped service stays stopped.
LEMMA LateStep ==
    ASSUME TypeOK, Readable, LateOnlyAfterDenialOrStop, [Next]_vars
    PROVE  LateOnlyAfterDenialOrStop'
<1>1. denied \subseteq denied' /\ (stopping = "done" => stopping' = "done")
  BY DEF Next, Arrive, Accept, DataArrives, ReceiveData, ConsumeEnds, ReceiveEnds,
     ConnectionFails, handleHello, HelloRefused, HelloDenied, HelloAccepted, OpenSession,
     handlePose, Stop, StopBlock, Release, RegistryStep, RegistryFreed, SessionStep,
     SessionFreed, vars, lineVars, stopVars
<1>2. ASSUME NEW s \in DOMAIN sessions', s \notin DOMAIN sessions, sessions'[s].late
      PROVE  sessions'[s].conn \in denied \/ stopping = "done"
  <2>1. PICK c \in Conns : handleHello(c) /\ OpenSession(c)
    <3>1. ~UNCHANGED sessions
      BY <1>2
    <3>2. ~RegistryStep
      BY <1>2
         DEF RegistryStep, RunBlock, RunSet, RunPose, RunRemove, RunStopAll, Post
    <3>3. ASSUME NEW t \in DOMAIN sessions, SessionStep(t) \/ SessionFreed(t)
          PROVE  FALSE
      BY <1>2, <3>3 DEF SessionStep, SessionFreed
    <3> QED
      BY <3>1, <3>2, <3>3
         DEF Next, Arrive, Accept, DataArrives, ReceiveData, ConsumeEnds, ReceiveEnds,
         ConnectionFails, handleHello, HelloRefused, HelloDenied, HelloAccepted,
         handlePose, Stop, StopBlock, Release, RegistryFreed, vars, workVars
  <2>2. busy = c
    BY <2>1 DEF handleHello
  <2>3. s = Len(sessions) + 1
    BY <1>2, <2>1, OpenSessionType DEF TypeOK
  <2>4. sessions'[s].conn = c /\ sessions'[s].late = (c \notin active)
    BY <2>1, <2>3 DEF OpenSession, TypeOK
  <2> QED BY <1>2, <2>2, <2>4 DEF Readable
<1>3. ASSUME NEW s \in DOMAIN sessions, sessions'[s].late
      PROVE  sessions'[s].conn \in denied \/ stopping = "done"
  BY <1>3, SessionsKeep DEF LateOnlyAfterDenialOrStop
<1> QED
  BY <1>1, <1>2, <1>3 DEF LateOnlyAfterDenialOrStop

\* A session made for a connection that was already removed takes a refused hello
\* of that connection, or a stopped service.
THEOREM LateHellosExplained == Spec => []LateOnlyAfterDenialOrStop
<1>1. Init => Readable /\ LateOnlyAfterDenialOrStop
  BY DEF Init, Readable, LateOnlyAfterDenialOrStop
<1>2. TypeOK /\ Readable /\ LateOnlyAfterDenialOrStop /\ [Next]_vars
         => Readable' /\ LateOnlyAfterDenialOrStop'
  BY ReadableStep, LateStep
<1> QED
  BY <1>1, <1>2, Invariance, PTL DEF Spec
-----------------------------------------------------------------------------
\* The queues.

LEMMA AppendIndexes ==
    ASSUME NEW S, NEW q \in Seq(S), NEW x \in S
    PROVE  /\ Len(q) + 1 \in DOMAIN Append(q, x) /\ Append(q, x)[Len(q) + 1] = x
           /\ \A i \in DOMAIN q :
                 i \in DOMAIN Append(q, x) /\ Append(q, x)[i] = q[i] /\ i < Len(q) + 1
           /\ \A i \in DOMAIN Append(q, x) :
                 i \in DOMAIN q \/ (i = Len(q) + 1 /\ Append(q, x)[i] = x)
           /\ DOMAIN q \subseteq Nat \ {0} /\ DOMAIN Append(q, x) \subseteq Nat \ {0}
<1>1. /\ Append(q, x) \in Seq(S) /\ Len(Append(q, x)) = Len(q) + 1
      /\ \A i \in 1 .. Len(q) : Append(q, x)[i] = q[i]
      /\ Append(q, x)[Len(q) + 1] = x
  BY AppendProperties
<1>2. /\ DOMAIN q = 1 .. Len(q) /\ Len(q) \in Nat
      /\ DOMAIN Append(q, x) = 1 .. Len(q) + 1
  BY <1>1
<1> QED
  BY <1>1, <1>2

LEMMA TailIndexes ==
    ASSUME NEW S, NEW q \in Seq(S), q # <<>>
    PROVE  /\ 1 \in DOMAIN q /\ Head(q) = q[1] /\ Head(q) \in S /\ Tail(q) \in Seq(S)
           /\ \A i \in DOMAIN Tail(q) : i + 1 \in DOMAIN q /\ Tail(q)[i] = q[i + 1]
           /\ \A i \in DOMAIN q : i > 1 => i - 1 \in DOMAIN Tail(q) /\ Tail(q)[i - 1] = q[i]
           /\ DOMAIN q \subseteq Nat \ {0} /\ DOMAIN Tail(q) \subseteq Nat \ {0}
<1>1. /\ Head(q) \in S /\ Tail(q) \in Seq(S) /\ Len(Tail(q)) = Len(q) - 1
      /\ \A i \in 1 .. Len(Tail(q)) : Tail(q)[i] = q[i + 1]
  BY HeadTailProperties
<1>2. /\ DOMAIN q = 1 .. Len(q) /\ Len(q) \in Nat /\ Len(q) > 0 /\ Head(q) = q[1]
      /\ DOMAIN Tail(q) = 1 .. Len(q) - 1
  BY <1>1, EmptySeq
<1> QED
  BY <1>1, <1>2

\* The registry, and the blocks that will fill it, keep sessions under their own
\* connections.
Attached ==
    /\ \A c \in DOMAIN registry : sessions[registry[c]].conn = c
    /\ \A i \in DOMAIN regq :
          regq[i].op = "set" => sessions[regq[i].session].conn = regq[i].conn

Held(s) == sessions[s].conn \in DOMAIN registry /\ registry[sessions[s].conn] = s

\* What the steps before the registry queue do to it: nothing, or one more block.
LEMMA Enqueued ==
    ASSUME TypeOK,
           \/ \E c \in Conns :
                 \/ Arrive(c) \/ Accept(c) \/ DataArrives(c) \/ ReceiveData(c)
                 \/ ConsumeEnds(c) \/ ReceiveEnds(c) \/ ConnectionFails(c)
                 \/ (handleHello(c) /\ ~OpenSession(c))
                 \/ handlePose(c)
           \/ Stop \/ StopBlock \/ Release
    PROVE  /\ UNCHANGED <<registry, sessions>> /\ (released => released')
           /\ \/ regq' = regq /\ (active \subseteq active' \/ released')
              \/ \E c \in Conns :
                    /\ regq' = Append(regq, [op |-> "remove", conn |-> c])
                    /\ active \ {c} \subseteq active'
              \/ /\ regq' = Append(regq, [op |-> "stopAll"])
              \/ \E c \in Conns :
                    /\ regq' = Append(regq, [op |-> "pose", conn |-> c, number |-> poses + 1])
                    /\ active' = active /\ poses + 1 \in 1 .. MaxPoses
<1>1. ASSUME NEW c \in Conns, handlePose(c)
      PROVE  poses + 1 \in 1 .. MaxPoses
  BY <1>1 DEF handlePose, TypeOK
<1>2. ASSUME NEW c \in Conns, cleanupConnection(c)
      PROVE  \/ regq' = regq /\ active \subseteq active'
             \/ /\ regq' = Append(regq, [op |-> "remove", conn |-> c])
                /\ active \ {c} \subseteq active'
  BY <1>2 DEF cleanupConnection
<1>3. ASSUME NEW c \in Conns,
             \/ Arrive(c) \/ Accept(c) \/ DataArrives(c) \/ ReceiveData(c)
             \/ ConsumeEnds(c) \/ ReceiveEnds(c) \/ ConnectionFails(c)
             \/ (handleHello(c) /\ ~OpenSession(c))
      PROVE  /\ UNCHANGED <<registry, sessions, released>>
             /\ \/ regq' = regq /\ active \subseteq active'
                \/ /\ regq' = Append(regq, [op |-> "remove", conn |-> c])
                   /\ active \ {c} \subseteq active'
  BY <1>2, <1>3 DEF Arrive, Accept, DataArrives, ReceiveData, ConsumeEnds, ReceiveEnds,
     ConnectionFails, handleHello, HelloRefused, HelloDenied, HelloAccepted,
     connVars, stopVars, workVars
<1>4. CASE Stop \/ StopBlock \/ Release
  BY <1>4 DEF Stop, StopBlock, Release, connVars, stopVars, workVars
<1>5. ASSUME NEW c \in Conns, handlePose(c)
      PROVE  /\ UNCHANGED <<registry, sessions, released, active>>
             /\ regq' = Append(regq, [op |-> "pose", conn |-> c, number |-> poses + 1])
  BY <1>5 DEF handlePose, connVars, stopVars
<1> QED
  BY <1>1, <1>3, <1>4, <1>5

\* The session with block x behind what its queue holds.
With(s, x) == [sessions[s] EXCEPT !.queue = Append(@, x)]

\* What a block of the registry queue does to a session.  A set never displaces
\* another session: the two would be of one connection.
LEMMA BlockEffect ==
    ASSUME TypeOK, OneSessionPerConnection, Attached, RegistryStep,
           NEW s \in DOMAIN sessions
    PROVE  LET b == Head(regq) IN
           /\ b.op = "set" =>
                 /\ Held(s)' <=> Held(s) \/ s = b.session
                 /\ sessions'[s] = IF s = b.session THEN With(s, [op |-> "start"])
                                   ELSE sessions[s]
           /\ b.op = "pose" =>
                 /\ Held(s)' <=> Held(s)
                 /\ sessions'[s] =
                       IF Held(s) /\ sessions[s].conn = b.conn
                       THEN With(s, [op |-> "pose", conn |-> b.conn, number |-> b.number])
                       ELSE sessions[s]
           /\ b.op = "remove" =>
                 /\ Held(s)' <=> Held(s) /\ sessions[s].conn # b.conn
                 /\ sessions'[s] = IF Held(s) /\ sessions[s].conn = b.conn
                                   THEN With(s, [op |-> "stop"]) ELSE sessions[s]
           /\ b.op = "stopAll" =>
                 /\ ~Held(s)'
                 /\ sessions'[s] = IF Held(s) THEN With(s, [op |-> "stop"]) ELSE sessions[s]
<1> DEFINE b == Head(regq)
<1>1. regq \in Seq(Block) /\ regq # <<>>
  BY DEF TypeOK, RegistryStep
<1>2. b \in Block /\ b = regq[1] /\ 1 \in DOMAIN regq
  BY <1>1, TailIndexes
<1>3. RunBlock(b) /\ sessions'[s].conn = sessions[s].conn
  BY SessionsKeep DEF RegistryStep, Next
<1> HIDE DEF b
<1>4. ASSUME NEW c
      PROVE  s \in Registered(c) <=> Held(s) /\ sessions[s].conn = c
  BY DEF Registered, Held, Attached
<1>5. ASSUME b.op = "set"
      PROVE  /\ Held(s)' <=> Held(s) \/ s = b.session
             /\ sessions'[s] = IF s = b.session THEN With(s, [op |-> "start"])
                               ELSE sessions[s]
  <2>1. RunSet(b)
    BY <1>3, <1>5 DEF RunBlock, RunSet, RunPose, RunRemove, RunStopAll
  <2>2. b.session \in DOMAIN sessions /\ sessions[b.session].conn = b.conn
    BY <1>2, <1>5 DEF Attached, Block
  <2>3. s \in Registered(b.conn) => s = b.session
    BY <1>4, <2>2 DEF OneSessionPerConnection
  <2>4. sessions'[s] = IF s = b.session THEN With(s, [op |-> "start"]) ELSE sessions[s]
    BY <2>1, <2>3 DEF RunSet, With
  <2>5. sessions[s].conn = b.conn <=> s = b.session
    BY <2>2 DEF OneSessionPerConnection
  <2>6. Held(s)' <=> Held(s) \/ s = b.session
    BY <1>3, <2>1, <2>5 DEF RunSet, Held
  <2> QED BY <2>4, <2>6
<1>6. ASSUME b.op = "pose"
      PROVE  /\ Held(s)' <=> Held(s)
             /\ sessions'[s] =
                   IF Held(s) /\ sessions[s].conn = b.conn
                   THEN With(s, [op |-> "pose", conn |-> b.conn, number |-> b.number])
                   ELSE sessions[s]
  <2>1. RunPose(b)
    BY <1>3, <1>6 DEF RunBlock, RunSet, RunPose, RunRemove, RunStopAll
  <2> QED BY <1>3, <1>4, <2>1 DEF RunPose, Post, Held, With
<1>7. ASSUME b.op = "remove"
      PROVE  /\ Held(s)' <=> Held(s) /\ sessions[s].conn # b.conn
             /\ sessions'[s] = IF Held(s) /\ sessions[s].conn = b.conn
                               THEN With(s, [op |-> "stop"]) ELSE sessions[s]
  <2>1. RunRemove(b)
    BY <1>3, <1>7 DEF RunBlock, RunSet, RunPose, RunRemove, RunStopAll
  <2> QED BY <1>3, <1>4, <2>1 DEF RunRemove, Post, Held, With, Restrict
<1>8. ASSUME b.op = "stopAll"
      PROVE  /\ ~Held(s)'
             /\ sessions'[s] = IF Held(s) THEN With(s, [op |-> "stop"]) ELSE sessions[s]
  <2>1. RunStopAll(b)
    BY <1>3, <1>8 DEF RunBlock, RunSet, RunPose, RunRemove, RunStopAll
  <2>2. s \in Range(registry) <=> Held(s)
    BY DEF Range, Held, Attached
  <2> QED BY <2>1, <2>2 DEF RunStopAll, Post, Held, With
<1> QED
  BY <1>5, <1>6, <1>7, <1>8 DEF b

LEMMA AttachedStep ==
    ASSUME TypeOK, OneSessionPerConnection, Attached, [Next]_vars
    PROVE  Attached'
<1>1. regq \in Seq(Block) /\ sessions \in Seq(Session)
  BY DEF TypeOK
<1>2. \A i \in DOMAIN regq : regq[i].op = "set" => regq[i].session \in DOMAIN sessions
  BY <1>1 DEF Block
<1>3. \A s \in DOMAIN sessions : s \in DOMAIN sessions' /\ sessions'[s].conn = sessions[s].conn
  BY SessionsKeep
<1>4. ASSUME UNCHANGED <<registry, regq>>
      PROVE  Attached'
  BY <1>2, <1>3, <1>4 DEF Attached, TypeOK
<1>5. ASSUME UNCHANGED registry, NEW b, b.op # "set", b \in Block, regq' = Append(regq, b)
      PROVE  Attached'
  <2>1. \A i \in DOMAIN regq' : (i \in DOMAIN regq /\ regq'[i] = regq[i]) \/ regq'[i] = b
    BY <1>1, <1>5, AppendIndexes
  <2> QED BY <1>2, <1>3, <1>5, <2>1 DEF Attached, TypeOK
<1>6. CASE \/ \E c \in Conns :
                 \/ Arrive(c) \/ Accept(c) \/ DataArrives(c) \/ ReceiveData(c)
                 \/ ConsumeEnds(c) \/ ReceiveEnds(c) \/ ConnectionFails(c)
                 \/ (handleHello(c) /\ ~OpenSession(c))
                 \/ handlePose(c)
           \/ Stop \/ StopBlock \/ Release
  <2>1. \A c \in Conns : /\ [op |-> "remove", conn |-> c] \in Block
                         /\ \A n \in 1 .. MaxPoses : [op |-> "pose", conn |-> c, number |-> n] \in Block
    BY DEF Block
  <2>2. [op |-> "stopAll"] \in Block
    BY DEF Block
  <2> QED BY <1>4, <1>5, <1>6, <2>1, <2>2, Enqueued
<1>7. ASSUME NEW c \in Conns, handleHello(c), OpenSession(c)
      PROVE  Attached'
  <2> DEFINE b == [op |-> "set", conn |-> c, session |-> Len(sessions) + 1]
  <2>1. regq' = Append(regq, b) /\ UNCHANGED registry
    BY <1>7 DEF handleHello, OpenSession
  <2>2. \A i \in DOMAIN regq' : (i \in DOMAIN regq /\ regq'[i] = regq[i]) \/ regq'[i] = b
    <3>1. regq \in Seq(Block \cup {b}) /\ b \in Block \cup {b}
      BY <1>1, SeqMonotonic
    <3> HIDE DEF b
    <3> QED BY <2>1, <3>1, AppendIndexes
  <2>3. sessions'[b.session].conn = b.conn
    BY <1>7, OpenSessionType
  <2> QED BY <1>2, <1>3, <2>1, <2>2, <2>3 DEF Attached, TypeOK
<1>8. CASE RegistryStep
  <2> DEFINE b == Head(regq)
  <2>1. b \in Block /\ b = regq[1] /\ 1 \in DOMAIN regq
    BY <1>1, <1>8, TailIndexes DEF RegistryStep
  <2>2. \A i \in DOMAIN regq' : i + 1 \in DOMAIN regq /\ regq'[i] = regq[i + 1]
    BY <1>1, <1>8, TailIndexes DEF RegistryStep
  <2>3. b.op = "set" => b.session \in DOMAIN sessions /\ sessions[b.session].conn = b.conn
    BY <2>1 DEF Attached, Block
  <2> HIDE DEF b
  <2>4. \A c \in DOMAIN registry' :
           \/ c \in DOMAIN registry /\ registry'[c] = registry[c]
           \/ b.op = "set" /\ c = b.conn /\ registry'[c] = b.session
    <3>1. RunBlock(b)
      BY <1>8 DEF RegistryStep, b
    <3> QED BY <3>1 DEF RunBlock, RunSet, RunPose, RunRemove, RunStopAll, Restrict
  <2> QED BY <1>2, <1>3, <2>2, <2>3, <2>4 DEF Attached, TypeOK
<1>9. CASE RegistryFreed
  BY <1>2, <1>3, <1>9 DEF RegistryFreed, Attached
<1>10. ASSUME NEW s \in DOMAIN sessions, SessionStep(s) \/ SessionFreed(s)
       PROVE  Attached'
  BY <1>4, <1>10 DEF SessionStep, SessionFreed
<1>11. CASE UNCHANGED vars
  BY <1>4, <1>11 DEF vars, workVars
<1> QED
  BY <1>6, <1>7, <1>8, <1>9, <1>10, <1>11 DEF Next
-----------------------------------------------------------------------------
\* Stops.

Sets(b, s)  == b.op = "set" /\ b.session = s
Stops(b, c) == b.op = "stopAll" \/ (b.op = "remove" /\ b.conn = c)

Owned(s)   == sessions[s].conn \in active \/ sessions[s].late \/ released
Awaited(s) == \E i \in DOMAIN regq : Sets(regq[i], s)

\* A stop for connection c stands behind place i of the registry queue.
StopBehind(i, c) == \E j \in DOMAIN regq : j > i /\ Stops(regq[j], c)

\* Whatever makes the session stream, a stop comes after it in its own queue.
Ending(r) ==
    /\ r.timer => \E j \in DOMAIN r.queue : r.queue[j].op = "stop"
    /\ \A i \in DOMAIN r.queue : r.queue[i].op = "start" =>
          \E j \in DOMAIN r.queue : j > i /\ r.queue[j].op = "stop"

\* A session without an owner has its stop behind the block that registers it;
\* once registered it has its stop on the registry queue; and when it is out of
\* the registry again its own queue ends it.
StopsFollow(s) ==
    /\ \/ Owned(s)
       \/ \A i \in DOMAIN regq : Sets(regq[i], s) => StopBehind(i, sessions[s].conn)
    /\ Owned(s) \/ ~Held(s) \/ StopBehind(0, sessions[s].conn)
    /\ released \/ Held(s) \/ Awaited(s) \/ Ending(sessions[s])

EveryStopFollows == \A s \in DOMAIN sessions : StopsFollow(s)

\* Steps before the registry queue: a connection that goes leaves its stop there.
LEMMA EnqueueStops ==
    ASSUME TypeOK, EveryStopFollows, UNCHANGED <<registry, sessions>>,
           released => released', NEW s \in DOMAIN sessions,
           \/ regq' = regq /\ (active \subseteq active' \/ released')
           \/ \E b \in Block : /\ b.op # "set" /\ regq' = Append(regq, b)
                               /\ \A c \in active \ active' : Stops(b, c)
    PROVE  StopsFollow(s)'
<1>1. StopsFollow(s) /\ regq \in Seq(Block)
  BY DEF EveryStopFollows, TypeOK
<1>2. CASE regq' = regq /\ (active \subseteq active' \/ released')
  BY <1>1, <1>2 DEF StopsFollow, Owned, Held, Awaited, StopBehind
<1>3. ASSUME NEW b \in Block, b.op # "set", regq' = Append(regq, b),
             \A c \in active \ active' : Stops(b, c)
      PROVE  StopsFollow(s)'
  <2> DEFINE n == Len(regq) + 1
  <2>1. /\ n \in DOMAIN regq' /\ regq'[n] = b /\ n > 0
        /\ \A i \in DOMAIN regq : i \in DOMAIN regq' /\ regq'[i] = regq[i] /\ i < n
        /\ \A i \in DOMAIN regq' : i \in DOMAIN regq \/ (i = n /\ regq'[i] = b)
    BY <1>1, <1>3, AppendIndexes
  <2> HIDE DEF n
  <2>2. ASSUME Owned(s), ~Owned(s)'
        PROVE  Stops(b, sessions[s].conn)
    BY <1>3, <2>2 DEF Owned
  <2>3. ASSUME NEW i, StopBehind(i, sessions[s].conn)
        PROVE  StopBehind(i, sessions[s].conn)'
    BY <2>1, <2>3 DEF StopBehind
  <2>4. ASSUME Stops(b, sessions[s].conn), NEW i, i < n
        PROVE  StopBehind(i, sessions[s].conn)'
    BY <2>1, <2>4 DEF StopBehind
  <2>5. (Held(s)' <=> Held(s)) /\ (Awaited(s) => Awaited(s)')
    BY <2>1 DEF Held, Awaited
  <2>6. \A i \in DOMAIN regq' : Sets(regq'[i], s) => i \in DOMAIN regq /\ Sets(regq[i], s)
    BY <1>3, <2>1 DEF Sets
  <2>7. Owned(s)' \/ \A i \in DOMAIN regq' :
           Sets(regq'[i], s) => StopBehind(i, sessions[s].conn)'
    BY <1>1, <2>1, <2>2, <2>3, <2>4, <2>6 DEF StopsFollow
  <2>8. Owned(s)' \/ ~Held(s)' \/ StopBehind(0, sessions[s].conn)'
    BY <1>1, <2>1, <2>2, <2>3, <2>4, <2>5 DEF StopsFollow
  <2>9. released' \/ Held(s)' \/ Awaited(s)' \/ Ending(sessions[s])'
    BY <1>1, <2>5 DEF StopsFollow
  <2> QED BY <2>7, <2>8, <2>9 DEF StopsFollow
<1> QED
  BY <1>2, <1>3

\* A new session is owned, or late.
LEMMA OpenSessionStops ==
    ASSUME TypeOK, EveryStopFollows, NEW c \in Conns, handleHello(c), OpenSession(c)
    PROVE  EveryStopFollows'
<1> PICK n : n = Len(sessions) + 1
  OBVIOUS
<1> DEFINE b == [op |-> "set", conn |-> c, session |-> n]
<1>1. UNCHANGED <<active, registry, released>> /\ regq' = Append(regq, b)
  BY DEF handleHello, OpenSession, stopVars
<1>2. /\ \A s \in DOMAIN sessions : sessions'[s] = sessions[s] /\ s # n
      /\ \A s \in DOMAIN sessions' : s \in DOMAIN sessions \/ s = n
  BY OpenSessionType DEF TypeOK
<1>3. sessions'[n].conn = c /\ (c \in active \/ sessions'[n].late)
  <2> DEFINE new == [conn |-> c, timer |-> FALSE, queue |-> <<>>, pose |-> NoPose,
                     late |-> c \notin active]
  <2>1. sessions' = Append(sessions, new) /\ sessions \in Seq(Session)
    BY DEF OpenSession, TypeOK
  <2>2. sessions'[n] = new
    <3> HIDE DEF new
    <3> QED BY <2>1
  <2>3. sessions'[n].conn = c /\ sessions'[n].late = (c \notin active)
    BY <2>2
  <2>4. ASSUME c \notin active PROVE sessions'[n].late
    BY <2>3, <2>4, Zenon
  <2> QED BY <2>3, <2>4
<1>4. /\ Len(regq) + 1 \in DOMAIN regq' /\ regq'[Len(regq) + 1] = b
      /\ \A i \in DOMAIN regq : i \in DOMAIN regq' /\ regq'[i] = regq[i]
      /\ \A i \in DOMAIN regq' : i \in DOMAIN regq \/ regq'[i] = b
  <2>1. regq \in Seq(Block \cup {b}) /\ b \in Block \cup {b}
    BY SeqMonotonic DEF TypeOK
  <2> HIDE DEF b
  <2> QED BY <1>1, <2>1, AppendIndexes
<1>5. ASSUME NEW s \in DOMAIN sessions
      PROVE  StopsFollow(s)'
  <2>1. ~Sets(b, s) /\ sessions'[s] = sessions[s]
    BY <1>2, <1>5 DEF Sets
  <2>2. \A i \in DOMAIN regq' : Sets(regq'[i], s) => i \in DOMAIN regq /\ Sets(regq[i], s)
    BY <1>4, <2>1
  <2>3. ASSUME NEW i, StopBehind(i, sessions[s].conn)
        PROVE  StopBehind(i, sessions[s].conn)'
    BY <1>4, <2>1, <2>3 DEF StopBehind
  <2>4. /\ Owned(s)' <=> Owned(s)
        /\ Held(s)' <=> Held(s)
        /\ Awaited(s) => Awaited(s)'
        /\ Ending(sessions[s]) => Ending(sessions[s])'
    BY <1>1, <1>4, <2>1 DEF Owned, Held, Awaited, Ending
  <2> QED BY <1>1, <1>5, <2>2, <2>3, <2>4 DEF EveryStopFollows, StopsFollow
<1>6. StopsFollow(n)'
  <2>1. Owned(n)'
    BY <1>1, <1>3 DEF Owned
  <2>2. Awaited(n)'
    BY <1>4 DEF Awaited, Sets
  <2> QED BY <2>1, <2>2 DEF StopsFollow
<1> QED
  BY <1>2, <1>5, <1>6 DEF EveryStopFollows

LEMMA StopEnds ==
    ASSUME NEW r \in Session
    PROVE  Ending([r EXCEPT !.queue = Append(@, [op |-> "stop"])])
<1> DEFINE stop == [op |-> "stop"]
           q == Append(r.queue, stop)
           n == Len(r.queue) + 1
<1>1. r.queue \in Seq(SessionBlock) /\ stop \in SessionBlock
  BY DEF Session, SessionBlock
<1>2. /\ n \in DOMAIN q /\ q[n] = stop
      /\ \A i \in DOMAIN q : (i \in DOMAIN r.queue /\ i < n) \/ q[i] = stop
  BY <1>1, AppendIndexes
<1> DEFINE x == [r EXCEPT !.queue = q]
<1>3. x.queue = q
  BY DEF Session
<1> HIDE DEF q, n, x
<1>4. Ending(x)
  BY <1>2, <1>3 DEF Ending
<1> QED
  BY <1>4 DEF x, q

LEMMA RegistryStops ==
    ASSUME TypeOK, OneSessionPerConnection, Attached, EveryStopFollows, RegistryStep,
           NEW s \in DOMAIN sessions
    PROVE  StopsFollow(s)'
<1> DEFINE b == Head(regq)
           c == sessions[s].conn
<1>1. /\ 1 \in DOMAIN regq /\ b = regq[1] /\ b \in Block
      /\ \A i \in DOMAIN regq' : i + 1 \in DOMAIN regq /\ regq'[i] = regq[i + 1]
      /\ \A i \in DOMAIN regq : i > 1 => i - 1 \in DOMAIN regq' /\ regq'[i - 1] = regq[i]
      /\ DOMAIN regq \subseteq Nat \ {0} /\ DOMAIN regq' \subseteq Nat \ {0}
  BY TailIndexes DEF RegistryStep, TypeOK
<1>2. /\ UNCHANGED <<active, released>> /\ StopsFollow(s)
      /\ sessions'[s].conn = c /\ sessions'[s].late = sessions[s].late
  BY SessionsKeep DEF RegistryStep, connVars, stopVars, EveryStopFollows, Next
<1>3. /\ Owned(s)' <=> Owned(s)
      /\ b.op \in {"set", "pose", "remove", "stopAll"}
  BY <1>1, <1>2 DEF Owned, Block
<1>4. /\ b.op = "set" =>
            /\ Held(s)' <=> Held(s) \/ s = b.session
            /\ s # b.session => sessions'[s] = sessions[s]
      /\ b.op = "pose" =>
            /\ Held(s)' <=> Held(s)
            /\ ~Held(s) => sessions'[s] = sessions[s]
      /\ Stops(b, c) => ~Held(s)'
      /\ b.op \in {"remove", "stopAll"} =>
            /\ Held(s) /\ ~Held(s)' => sessions'[s] = With(s, [op |-> "stop"])
            /\ ~Held(s) => ~Held(s)' /\ sessions'[s] = sessions[s]
  BY BlockEffect DEF Stops
<1> HIDE DEF b
<1>5. ASSUME NEW i \in DOMAIN regq', StopBehind(i + 1, c)
      PROVE  StopBehind(i, c)'
  BY <1>1, <1>2, <1>5 DEF StopBehind
<1>6. ASSUME StopBehind(1, c) \/ (StopBehind(0, c) /\ ~Stops(b, c))
      PROVE  StopBehind(0, c)'
  BY <1>1, <1>2, <1>6 DEF StopBehind
<1>7. Owned(s)' \/ \A i \in DOMAIN regq' : Sets(regq'[i], s) => StopBehind(i, c)'
  BY <1>1, <1>2, <1>3, <1>5 DEF StopsFollow
<1>8. ASSUME ~Owned(s)', Held(s)'
      PROVE  StopBehind(0, c)'
  <2>1. CASE Held(s)
    BY <1>2, <1>3, <1>4, <1>6, <1>8, <2>1 DEF StopsFollow
  <2>2. CASE ~Held(s)
    <3>1. Sets(b, s)
      BY <1>3, <1>4, <1>8, <2>2 DEF Sets
    <3> QED BY <1>1, <1>2, <1>3, <1>6, <1>8, <3>1 DEF StopsFollow
  <2> QED BY <2>1, <2>2
<1>9. released' \/ Held(s)' \/ Awaited(s)' \/ Ending(sessions[s])'
  <2>1. CASE Held(s)
    <3>1. sessions[s] \in Session
      BY DEF TypeOK
    <3>2. sessions'[s] = With(s, [op |-> "stop"]) => Ending(sessions[s])'
      BY <3>1, StopEnds DEF With, Ending
    <3> QED BY <1>3, <1>4, <2>1, <3>2
  <2>2. CASE ~Held(s) /\ Awaited(s)
    <3>1. PICK i \in DOMAIN regq : Sets(regq[i], s)
      BY <2>2 DEF Awaited
    <3>2. CASE i = 1
      BY <1>1, <1>4, <3>1, <3>2 DEF Sets
    <3>3. CASE i > 1
      BY <1>1, <3>1, <3>3 DEF Awaited
    <3> QED BY <1>1, <3>2, <3>3
  <2>3. CASE ~Held(s) /\ ~Awaited(s)
    <3>1. ~Sets(b, s)
      BY <1>1, <2>3 DEF Awaited
    <3>2. sessions'[s] = sessions[s]
      BY <1>3, <1>4, <2>3, <3>1 DEF Sets
    <3> QED BY <1>2, <2>3, <3>2 DEF StopsFollow, Ending
  <2> QED BY <2>1, <2>2, <2>3
<1> QED
  BY <1>2, <1>7, <1>8, <1>9 DEF StopsFollow, StopBehind

\* A session that takes its stop off its queue has stopped; what it starts after
\* that has a stop of its own behind it.
LEMMA EndingStays ==
    ASSUME TypeOK, NEW s \in DOMAIN sessions, Ending(sessions[s]),
           SessionStep(s) \/ SessionFreed(s)
    PROVE  Ending(sessions'[s])
<1>1. sessions[s] \in Session
  BY DEF TypeOK
<1>2. CASE SessionFreed(s)
  <2>1. sessions'[s].timer = FALSE /\ sessions'[s].queue = sessions[s].queue
    BY <1>1, <1>2 DEF SessionFreed, Session
  <2> QED BY <2>1 DEF Ending
<1>3. CASE SessionStep(s)
  <2> DEFINE q == sessions[s].queue
             b == Head(q)
  <2>1. q \in Seq(SessionBlock) /\ q # <<>>
    BY <1>1, <1>3 DEF Session, SessionStep
  <2>2. /\ b = q[1] /\ 1 \in DOMAIN q /\ DOMAIN q \subseteq Nat \ {0}
        /\ \A i \in DOMAIN Tail(q) : i + 1 \in DOMAIN q /\ Tail(q)[i] = q[i + 1]
        /\ \A i \in DOMAIN q : i > 1 => i - 1 \in DOMAIN Tail(q) /\ Tail(q)[i - 1] = q[i]
        /\ DOMAIN Tail(q) \subseteq Nat \ {0}
    BY <2>1, TailIndexes
  <2>3. /\ sessions'[s].queue = Tail(q)
        /\ b.op = "stop" => sessions'[s].timer = FALSE
        /\ b.op # "start" /\ sessions'[s].timer => sessions[s].timer
    BY <1>1, <1>3 DEF SessionStep, Session
  <2> HIDE DEF q, b
  <2>4. /\ sessions[s].timer => \E j \in DOMAIN q : q[j].op = "stop"
        /\ \A i \in DOMAIN q : q[i].op = "start" => \E j \in DOMAIN q : j > i /\ q[j].op = "stop"
    BY DEF Ending, q
  <2>5. ASSUME sessions'[s].timer
        PROVE  \E j \in DOMAIN Tail(q) : Tail(q)[j].op = "stop"
    <3>1. PICK j \in DOMAIN q : j > 1 /\ q[j].op = "stop"
      <4>1. CASE b.op = "start"
        BY <2>2, <2>4, <4>1
      <4>2. CASE b.op # "start"
        <5>1. PICK j \in DOMAIN q : q[j].op = "stop"
          BY <2>3, <2>4, <2>5, <4>2
        <5>2. j # 1
          BY <2>2, <2>3, <2>5, <5>1
        <5> QED BY <2>2, <5>1, <5>2
      <4> QED BY <4>1, <4>2
    <3> QED BY <2>2, <3>1
  <2>6. ASSUME NEW i \in DOMAIN Tail(q), Tail(q)[i].op = "start"
        PROVE  \E j \in DOMAIN Tail(q) : j > i /\ Tail(q)[j].op = "stop"
    <3>1. PICK j \in DOMAIN q : j > i + 1 /\ q[j].op = "stop"
      BY <2>2, <2>4, <2>6
    <3>2. j - 1 \in DOMAIN Tail(q) /\ Tail(q)[j - 1] = q[j] /\ j - 1 > i
      BY <2>2, <2>6, <3>1
    <3> QED BY <3>1, <3>2
  <2> QED BY <2>3, <2>5, <2>6 DEF Ending
<1> QED
  BY <1>2, <1>3

LEMMA StopsStep ==
    ASSUME TypeOK, OneSessionPerConnection, Attached, EveryStopFollows, [Next]_vars
    PROVE  EveryStopFollows'
<1>1. ASSUME \/ \E c \in Conns :
                   \/ Arrive(c) \/ Accept(c) \/ DataArrives(c) \/ ReceiveData(c)
                   \/ ConsumeEnds(c) \/ ReceiveEnds(c) \/ ConnectionFails(c)
                   \/ (handleHello(c) /\ ~OpenSession(c))
                   \/ handlePose(c)
             \/ Stop \/ StopBlock \/ Release
      PROVE  EveryStopFollows'
  <2>1. /\ [op |-> "stopAll"] \in Block
        /\ \A c \in Conns : [op |-> "remove", conn |-> c] \in Block
        /\ \A c \in Conns, n \in 1 .. MaxPoses :
              [op |-> "pose", conn |-> c, number |-> n] \in Block
    BY DEF Block
  <2>2. /\ UNCHANGED <<registry, sessions>> /\ (released => released')
        /\ \/ regq' = regq /\ (active \subseteq active' \/ released')
           \/ \E b \in Block : /\ b.op # "set" /\ regq' = Append(regq, b)
                               /\ \A c \in active \ active' : Stops(b, c)
    BY <1>1, <2>1, Enqueued DEF Stops
  <2> QED BY <2>2, EnqueueStops DEF EveryStopFollows
<1>2. ASSUME NEW c \in Conns, handleHello(c), OpenSession(c)
      PROVE  EveryStopFollows'
  BY <1>2, OpenSessionStops
<1>3. CASE RegistryStep
  <2>1. DOMAIN sessions' = DOMAIN sessions
    BY <1>3 DEF RegistryStep, RunBlock, RunSet, RunPose, RunRemove, RunStopAll, Post
  <2> QED BY <1>3, <2>1, RegistryStops DEF EveryStopFollows
<1>4. CASE RegistryFreed
  <2>1. released' /\ UNCHANGED <<regq, sessions>>
    BY <1>4 DEF RegistryFreed, stopVars
  <2> QED BY <2>1 DEF EveryStopFollows, StopsFollow, Owned
<1>5. ASSUME NEW t \in DOMAIN sessions, SessionStep(t) \/ SessionFreed(t)
      PROVE  EveryStopFollows'
  <2>1. UNCHANGED <<active, released, registry, regq>> /\ DOMAIN sessions' = DOMAIN sessions
    BY <1>5 DEF SessionStep, SessionFreed, connVars, stopVars
  <2>2. ASSUME NEW s \in DOMAIN sessions
        PROVE  StopsFollow(s)'
    <3>1. sessions'[s].conn = sessions[s].conn /\ sessions'[s].late = sessions[s].late
      BY SessionsKeep
    <3>2. s # t => sessions'[s] = sessions[s]
      BY <1>5 DEF SessionStep, SessionFreed
    <3>3. Ending(sessions[s]) => Ending(sessions[s])'
      BY <1>5, <3>2, EndingStays DEF Ending
    <3>4. /\ Owned(s)' <=> Owned(s)
          /\ Held(s)' <=> Held(s)
          /\ Awaited(s)' <=> Awaited(s)
          /\ \A i : StopBehind(i, sessions[s].conn)' <=> StopBehind(i, sessions[s].conn)
      BY <2>1, <3>1 DEF Owned, Held, Awaited, StopBehind
    <3> QED BY <2>1, <2>2, <3>1, <3>3, <3>4 DEF EveryStopFollows, StopsFollow
  <2> QED BY <2>1, <2>2 DEF EveryStopFollows
<1>6. CASE UNCHANGED vars
  BY <1>6 DEF EveryStopFollows, StopsFollow, Owned, Held, Awaited, StopBehind, Ending,
              vars, connVars, stopVars, workVars
<1> QED
  BY <1>1, <1>2, <1>3, <1>4, <1>5, <1>6 DEF Next

\* A session that streams, or is about to, has its connection, or its stop is
\* already on a queue; the exceptions are a session made for a connection that was
\* already removed, and the service's release.
THEOREM StreamsOwned == Spec => []EveryStreamIsOwned
<1>1. Init => Attached /\ EveryStopFollows
  BY DEF Init, Attached, EveryStopFollows
<1>2. TypeOK /\ OneSessionPerConnection /\ Attached /\ EveryStopFollows /\ [Next]_vars
         => Attached' /\ EveryStopFollows'
  BY AttachedStep, StopsStep
<1>3. TypeOK /\ EveryStopFollows => EveryStreamIsOwned
  <2> SUFFICES ASSUME TypeOK, NEW s \in DOMAIN sessions, StopsFollow(s), Live(s), ~Owned(s)
               PROVE  StopOnTheWay(s)
    BY DEF EveryStopFollows, EveryStreamIsOwned, Owned
  <2>1. ASSUME NEW i, StopBehind(i, sessions[s].conn)
        PROVE  StopOnTheWay(s)
    BY <2>1 DEF StopBehind, Stops, StopOnTheWay
  <2>2. CASE Awaited(s)
    BY <2>1, <2>2 DEF StopsFollow, Awaited
  <2>3. CASE Held(s)
    BY <2>1, <2>3 DEF StopsFollow
  <2>4. CASE ~Awaited(s) /\ ~Held(s)
    <3>1. Ending(sessions[s])
      BY <2>4 DEF StopsFollow, Owned
    <3> QED BY <2>4, <3>1 DEF Live, Awaited, Sets, Ending, StopOnTheWay
  <2> QED BY <2>2, <2>3, <2>4
<1> QED
  BY <1>1, <1>2, <1>3, Invariance, PTL DEF Spec
-----------------------------------------------------------------------------
\* Poses.

\* The session has and awaits only poses before the n-th.
Before(r, n) ==
    /\ r.pose.number < n
    /\ \A k \in DOMAIN r.queue : r.queue[k].op = "pose" => r.queue[k].number < n

\* The poses on the session's queue are its connection's, in order, and newer than
\* the one it has.
Ordered(r) ==
    \A k \in DOMAIN r.queue : r.queue[k].op = "pose" =>
        /\ r.queue[k].conn = r.conn
        /\ r.pose.number < r.queue[k].number
        /\ \A l \in DOMAIN r.queue :
              k < l /\ r.queue[l].op = "pose" => r.queue[k].number < r.queue[l].number

\* Poses are numbered as they come; those still on the registry queue are in order
\* and newer than whatever a session has or awaits.
PosesNumbered ==
    /\ tracking.number <= poses
    /\ \A i \in DOMAIN regq : regq[i].op = "pose" =>
          /\ regq[i].number <= poses
          /\ \A s \in DOMAIN sessions : Before(sessions[s], regq[i].number)
          /\ \A j \in DOMAIN regq :
                i < j /\ regq[j].op = "pose" => regq[i].number < regq[j].number
    /\ \A s \in DOMAIN sessions : Ordered(sessions[s]) /\ Before(sessions[s], poses + 1)

\* One more block on a session's queue.
LEMMA WithOrdered ==
    ASSUME NEW r \in Session, NEW x \in SessionBlock, Ordered(r),
           x.op = "pose" => x.conn = r.conn /\ Before(r, x.number)
    PROVE  LET rx == [r EXCEPT !.queue = Append(@, x)] IN
           /\ Ordered(rx)
           /\ \A n \in Nat : Before(r, n) /\ (x.op = "pose" => x.number < n) => Before(rx, n)
<1> DEFINE q == r.queue
           qx == Append(q, x)
           rx == [r EXCEPT !.queue = qx]
           n == Len(q) + 1
<1>1. q \in Seq(SessionBlock)
  BY DEF Session
<1>2. /\ n \in DOMAIN qx /\ qx[n] = x
      /\ \A i \in DOMAIN q : i \in DOMAIN qx /\ qx[i] = q[i] /\ i < n
      /\ \A i \in DOMAIN qx : i \in DOMAIN q \/ (i = n /\ qx[i] = x)
      /\ DOMAIN q \subseteq Nat \ {0} /\ DOMAIN qx \subseteq Nat \ {0}
  BY <1>1, AppendIndexes
<1>3. rx.queue = qx /\ rx.conn = r.conn /\ rx.pose = r.pose
  BY DEF Session
<1>4. /\ \A k \in DOMAIN q : q[k].op = "pose" =>
            /\ q[k].conn = r.conn
            /\ r.pose.number < q[k].number
            /\ \A l \in DOMAIN q :
                  k < l /\ q[l].op = "pose" => q[k].number < q[l].number
      /\ x.op = "pose" =>
            /\ r.pose.number < x.number
            /\ \A k \in DOMAIN q : q[k].op = "pose" => q[k].number < x.number
  BY DEF Ordered, Before
<1> HIDE DEF q, qx, rx, n
<1>5. Ordered(rx)
  <2> SUFFICES ASSUME NEW k \in DOMAIN qx, qx[k].op = "pose"
               PROVE  /\ qx[k].conn = r.conn
                      /\ r.pose.number < qx[k].number
                      /\ \A l \in DOMAIN qx :
                            k < l /\ qx[l].op = "pose" => qx[k].number < qx[l].number
    BY <1>3 DEF Ordered
  <2>1. CASE k \in DOMAIN q
    BY <1>2, <1>4, <2>1
  <2>2. CASE k = n
    <3>1. \A l \in DOMAIN qx : ~(n < l)
      BY <1>2
    <3> QED BY <1>2, <1>4, <2>2, <3>1
  <2> QED BY <1>2, <2>1, <2>2
<1>6. ASSUME NEW m \in Nat, Before(r, m), x.op = "pose" => x.number < m
      PROVE  Before(rx, m)
  <2>1. r.pose.number < m /\ \A k \in DOMAIN q : q[k].op = "pose" => q[k].number < m
    BY <1>6 DEF Before, q
  <2> QED BY <1>2, <1>3, <1>6, <2>1 DEF Before
<1> QED
  BY <1>5, <1>6 DEF rx, qx, q

\* A session's step takes the oldest block; if that is a pose, it has it now.
LEMMA StepOrdered ==
    ASSUME TypeOK, NEW s \in DOMAIN sessions, SessionStep(s) \/ SessionFreed(s),
           Ordered(sessions[s])
    PROVE  /\ Ordered(sessions'[s])
           /\ \A n \in Nat : Before(sessions[s], n) => Before(sessions'[s], n)
           /\ sessions'[s].pose # sessions[s].pose =>
                 /\ sessions'[s].pose.conn = sessions[s].conn
                 /\ sessions'[s].pose.number > sessions[s].pose.number
<1>1. sessions[s] \in Session
  BY DEF TypeOK
<1>2. CASE SessionFreed(s)
  <2>1. /\ sessions'[s].queue = sessions[s].queue /\ sessions'[s].conn = sessions[s].conn
        /\ sessions'[s].pose = sessions[s].pose
    BY <1>1, <1>2 DEF SessionFreed, Session
  <2> QED BY <2>1 DEF Ordered, Before
<1>3. CASE SessionStep(s)
  <2> DEFINE r == sessions[s]
             q == r.queue
             b == Head(q)
  <2>1. q \in Seq(SessionBlock) /\ q # <<>>
    BY <1>1, <1>3 DEF Session, SessionStep
  <2>2. /\ b = q[1] /\ 1 \in DOMAIN q /\ DOMAIN q \subseteq Nat \ {0} /\ b \in SessionBlock
        /\ \A i \in DOMAIN Tail(q) : i + 1 \in DOMAIN q /\ Tail(q)[i] = q[i + 1]
        /\ DOMAIN Tail(q) \subseteq Nat \ {0}
    BY <2>1, TailIndexes
  <2>3. /\ sessions'[s].queue = Tail(q) /\ sessions'[s].conn = r.conn
        /\ b.op = "pose" => sessions'[s].pose = [conn |-> b.conn, number |-> b.number]
        /\ b.op # "pose" => sessions'[s].pose = r.pose
    BY <1>1, <1>3 DEF SessionStep, Session
  <2>4. \A k \in DOMAIN q : q[k].op = "pose" =>
            /\ q[k].conn = r.conn
            /\ r.pose.number < q[k].number
            /\ \A l \in DOMAIN q :
                  k < l /\ q[l].op = "pose" => q[k].number < q[l].number
    BY DEF Ordered
  <2> HIDE DEF r, q, b
  <2>5. Ordered(sessions'[s])
    <3> SUFFICES ASSUME NEW k \in DOMAIN Tail(q), Tail(q)[k].op = "pose"
                 PROVE  /\ Tail(q)[k].conn = r.conn
                        /\ sessions'[s].pose.number < Tail(q)[k].number
                        /\ \A l \in DOMAIN Tail(q) : k < l /\ Tail(q)[l].op = "pose"
                              => Tail(q)[k].number < Tail(q)[l].number
      BY <2>3 DEF Ordered
    <3>1. /\ k + 1 \in DOMAIN q /\ Tail(q)[k] = q[k + 1] /\ 1 < k + 1
          /\ \A l \in DOMAIN Tail(q) : k < l => k + 1 < l + 1
      BY <2>2
    <3>2. sessions'[s].pose.number < Tail(q)[k].number
      BY <2>2, <2>3, <2>4, <3>1
    <3> QED BY <2>2, <2>4, <3>1, <3>2
  <2>6. ASSUME NEW n \in Nat, Before(sessions[s], n)
        PROVE  Before(sessions'[s], n)
    <3>1. /\ r.pose.number < n
          /\ \A k \in DOMAIN q : q[k].op = "pose" => q[k].number < n
      BY <2>6 DEF Before, q, r
    <3> QED BY <2>2, <2>3, <3>1 DEF Before
  <2>7. sessions'[s].pose # r.pose =>
           sessions'[s].pose.conn = r.conn /\ sessions'[s].pose.number > r.pose.number
    <3>1. b.op = "pose" => b.number \in Nat
      BY <2>2 DEF SessionBlock
    <3>2. r.pose.number \in Nat
      BY <1>1 DEF Session, Pose, r
    <3> QED BY <2>2, <2>3, <2>4, <3>1, <3>2
  <2> QED BY <2>5, <2>6, <2>7 DEF r
<1> QED
  BY <1>2, <1>3

\* A block that is no pose joins the registry queue, or none does.
LEMMA NumbersKept ==
    ASSUME TypeOK, PosesNumbered, UNCHANGED <<poses, tracking, sessions>>,
           \/ regq' = regq
           \/ \E b \in Block : b.op # "pose" /\ regq' = Append(regq, b)
    PROVE  PosesNumbered'
<1>1. \A i \in DOMAIN regq' : regq'[i].op = "pose" =>
         i \in DOMAIN regq /\ regq'[i] = regq[i]
  <2>1. CASE regq' = regq
    BY <2>1
  <2>2. ASSUME NEW b \in Block, b.op # "pose", regq' = Append(regq, b)
        PROVE  \A i \in DOMAIN regq' : regq'[i].op = "pose" =>
                  i \in DOMAIN regq /\ regq'[i] = regq[i]
    BY <2>2, AppendIndexes DEF TypeOK
  <2> QED BY <2>1, <2>2
<1> QED
  BY <1>1 DEF PosesNumbered, Before, Ordered

\* A pose line gets the next number.
LEMMA NumbersGrow ==
    ASSUME TypeOK, PosesNumbered, NEW c \in Conns, handlePose(c)
    PROVE  PosesNumbered'
<1> DEFINE b == [op |-> "pose", conn |-> c, number |-> poses + 1]
           n == Len(regq) + 1
<1>1. /\ poses' = poses + 1 /\ regq' = Append(regq, b) /\ sessions' = sessions
      /\ tracking' = tracking \/ tracking'.number = poses + 1
  BY DEF handlePose
<1>2. poses \in Nat /\ regq \in Seq(Block) /\ b \in Block /\ tracking.number \in Nat
  BY DEF TypeOK, Block, handlePose, Pose
<1>3. /\ \A i \in DOMAIN regq' : \/ i \in DOMAIN regq /\ regq'[i] = regq[i] /\ i < n
                                 \/ i = n /\ regq'[i] = b
      /\ DOMAIN regq' \subseteq Nat
  BY <1>1, <1>2, AppendIndexes
<1>4. b.op = "pose" /\ b.number = poses + 1
  OBVIOUS
<1> HIDE DEF b, n
<1>5. ASSUME NEW s \in DOMAIN sessions
      PROVE  Ordered(sessions[s]) /\ Before(sessions[s], poses + 1)
             /\ Before(sessions[s], poses + 2)
  <2>0. sessions[s] \in Session
    BY DEF TypeOK
  <2>1. sessions[s].pose.number \in Nat
    BY <2>0 DEF Session, Pose
  <2>2. \A k \in DOMAIN sessions[s].queue :
           sessions[s].queue[k].op = "pose" => sessions[s].queue[k].number \in Nat
    <3>1. sessions[s].queue \in Seq(SessionBlock)
      BY <2>0 DEF Session
    <3> QED BY <3>1 DEF SessionBlock
  <2>3. Ordered(sessions[s]) /\ Before(sessions[s], poses + 1)
    BY DEF PosesNumbered
  <2> QED BY <1>2, <2>1, <2>2, <2>3 DEF Before
<1>6. \A i \in DOMAIN regq : regq[i].op = "pose" => regq[i].number \in Nat
  BY <1>2 DEF Block
<1>7. tracking'.number <= poses'
  BY <1>1, <1>2 DEF PosesNumbered
<1>8. ASSUME NEW i \in DOMAIN regq', regq'[i].op = "pose"
      PROVE  /\ regq'[i].number <= poses'
             /\ \A s \in DOMAIN sessions' : Before(sessions'[s], regq'[i].number)
             /\ \A j \in DOMAIN regq' :
                   i < j /\ regq'[j].op = "pose" => regq'[i].number < regq'[j].number
  <2>1. CASE i \in DOMAIN regq /\ regq'[i] = regq[i]
    <3>1. regq[i].number \in Nat /\ regq[i].number <= poses
      BY <1>6, <1>8, <2>1 DEF PosesNumbered
    <3>2. \A s \in DOMAIN sessions' : Before(sessions'[s], regq'[i].number)
      BY <1>1, <1>8, <2>1 DEF PosesNumbered
    <3> QED BY <1>1, <1>2, <1>3, <1>4, <1>8, <2>1, <3>1, <3>2 DEF PosesNumbered
  <2>2. CASE i = n /\ regq'[i] = b
    <3>1. \A j \in DOMAIN regq' : ~(i < j)
      BY <1>3, <2>2
    <3> QED BY <1>1, <1>2, <1>4, <1>5, <2>2, <3>1
  <2> QED BY <1>3, <1>8, <2>1, <2>2
<1>9. \A s \in DOMAIN sessions' : Ordered(sessions'[s]) /\ Before(sessions'[s], poses' + 1)
  BY <1>1, <1>2, <1>5
<1> QED
  BY <1>7, <1>8, <1>9 DEF PosesNumbered, Before, Ordered

\* A new session has seen nothing.
LEMMA OpenSessionNumbers ==
    ASSUME TypeOK, PosesNumbered, NEW c \in Conns, handleHello(c), OpenSession(c)
    PROVE  PosesNumbered'
<1> PICK n : n = Len(sessions) + 1
  OBVIOUS
<1> DEFINE b == [op |-> "set", conn |-> c, session |-> n]
<1>1. UNCHANGED <<poses, tracking>> /\ regq' = Append(regq, b)
  BY DEF handleHello, OpenSession
<1>2. \A i \in DOMAIN regq' : regq'[i].op = "pose" =>
         i \in DOMAIN regq /\ regq'[i] = regq[i]
  <2>1. regq \in Seq(Block \cup {b}) /\ b \in Block \cup {b} /\ b.op # "pose"
    BY SeqMonotonic DEF TypeOK
  <2> HIDE DEF b
  <2> QED BY <1>1, <2>1, AppendIndexes
<1>3. /\ \A s \in DOMAIN sessions : sessions'[s] = sessions[s] /\ s # n
      /\ \A s \in DOMAIN sessions' : s \in DOMAIN sessions \/ s = n
  BY OpenSessionType DEF TypeOK
<1>4. sessions'[n].pose = NoPose /\ sessions'[n].queue = <<>>
  <2> DEFINE new == [conn |-> c, timer |-> FALSE, queue |-> <<>>, pose |-> NoPose,
                     late |-> c \notin active]
  <2>1. sessions' = Append(sessions, new) /\ sessions \in Seq(Session)
    BY DEF OpenSession, TypeOK
  <2>2. sessions'[n] = new
    <3> HIDE DEF new
    <3> QED BY <2>1
  <2> QED BY <2>2
<1>5. Ordered(sessions'[n]) /\ \A m \in Nat \ {0} : Before(sessions'[n], m)
  BY <1>4 DEF Ordered, Before, NoPose
<1>6. poses \in Nat /\ \A i \in DOMAIN regq : regq[i].op = "pose" => regq[i].number \in Nat \ {0}
  BY DEF TypeOK, Block
<1>7. ASSUME NEW i \in DOMAIN regq, regq[i].op = "pose", NEW s \in DOMAIN sessions'
      PROVE  Before(sessions'[s], regq[i].number)
  BY <1>3, <1>5, <1>6, <1>7 DEF PosesNumbered
<1>8. ASSUME NEW s \in DOMAIN sessions'
      PROVE  Ordered(sessions'[s]) /\ Before(sessions'[s], poses + 1)
  BY <1>3, <1>5, <1>6 DEF PosesNumbered
<1> QED
  BY <1>1, <1>2, <1>7, <1>8 DEF PosesNumbered, Before, Ordered

\* The oldest pose on the registry queue moves to its session's queue, if it has
\* one.
LEMMA RegistryNumbers ==
    ASSUME TypeOK, OneSessionPerConnection, Attached, PosesNumbered, RegistryStep
    PROVE  PosesNumbered'
<1> DEFINE b == Head(regq)
<1>1. /\ 1 \in DOMAIN regq /\ b = regq[1] /\ b \in Block
      /\ \A i \in DOMAIN regq' : i + 1 \in DOMAIN regq /\ regq'[i] = regq[i + 1]
      /\ DOMAIN regq \subseteq Nat \ {0} /\ DOMAIN regq' \subseteq Nat \ {0}
  BY TailIndexes DEF RegistryStep, TypeOK
<1>2. UNCHANGED <<poses, tracking>> /\ DOMAIN sessions' = DOMAIN sessions
  BY DEF RegistryStep, lineVars, RunBlock, RunSet, RunPose, RunRemove, RunStopAll, Post
<1>3. \A i \in DOMAIN regq : regq[i].op = "pose" => regq[i].number \in Nat
  BY DEF TypeOK, Block
<1>4. poses \in Nat
  BY DEF TypeOK
<1>5. ASSUME NEW s \in DOMAIN sessions
      PROVE  /\ Ordered(sessions'[s])
             /\ \A n \in Nat : Before(sessions[s], n) /\ (b.op = "pose" => b.number < n)
                                  => Before(sessions'[s], n)
  <2>1. sessions[s] \in Session /\ Ordered(sessions[s])
    BY DEF TypeOK, PosesNumbered
  <2>2. b.op = "pose" => Before(sessions[s], b.number)
    BY <1>1 DEF PosesNumbered
  <2>3. /\ [op |-> "start"] \in SessionBlock /\ [op |-> "stop"] \in SessionBlock
        /\ b.op = "pose" => [op |-> "pose", conn |-> b.conn, number |-> b.number] \in SessionBlock
    BY <1>1 DEF Block, SessionBlock
  <2>4. \/ sessions'[s] = sessions[s]
        \/ sessions'[s] = With(s, [op |-> "start"])
        \/ sessions'[s] = With(s, [op |-> "stop"])
        \/ /\ b.op = "pose" /\ sessions[s].conn = b.conn
           /\ sessions'[s] = With(s, [op |-> "pose", conn |-> b.conn, number |-> b.number])
    BY <1>1, BlockEffect DEF Block
  <2> HIDE DEF b
  <2>5. CASE sessions'[s] = With(s, [op |-> "start"])
    BY <2>1, <2>3, <2>5, WithOrdered DEF With
  <2>6. CASE sessions'[s] = With(s, [op |-> "stop"])
    BY <2>1, <2>3, <2>6, WithOrdered DEF With
  <2>7. CASE /\ b.op = "pose" /\ sessions[s].conn = b.conn
             /\ sessions'[s] = With(s, [op |-> "pose", conn |-> b.conn, number |-> b.number])
    BY <2>1, <2>2, <2>3, <2>7, WithOrdered DEF With
  <2> QED BY <2>1, <2>4, <2>5, <2>6, <2>7
<1> HIDE DEF b
<1>6. ASSUME NEW i \in DOMAIN regq', regq'[i].op = "pose"
      PROVE  /\ regq'[i].number <= poses
             /\ \A s \in DOMAIN sessions : Before(sessions'[s], regq'[i].number)
             /\ \A j \in DOMAIN regq' :
                   i < j /\ regq'[j].op = "pose" => regq'[i].number < regq'[j].number
  <2>1. /\ i + 1 \in DOMAIN regq /\ regq'[i] = regq[i + 1] /\ 1 < i + 1
        /\ \A j \in DOMAIN regq' : i < j => i + 1 < j + 1
    BY <1>1
  <2>2. b.op = "pose" => b.number < regq'[i].number
    BY <1>1, <1>6, <2>1 DEF PosesNumbered
  <2>3. \A s \in DOMAIN sessions : Before(sessions[s], regq'[i].number)
    BY <1>6, <2>1 DEF PosesNumbered
  <2> QED BY <1>1, <1>3, <1>5, <1>6, <2>1, <2>2, <2>3 DEF PosesNumbered
<1>7. ASSUME NEW s \in DOMAIN sessions
      PROVE  Ordered(sessions'[s]) /\ Before(sessions'[s], poses + 1)
  <2>1. b.op = "pose" => b.number < poses + 1
    BY <1>1, <1>3, <1>4 DEF PosesNumbered
  <2> QED BY <1>4, <1>5, <2>1 DEF PosesNumbered
<1> QED
  BY <1>2, <1>6, <1>7 DEF PosesNumbered, Before, Ordered

LEMMA NumbersStep ==
    ASSUME TypeOK, OneSessionPerConnection, Attached, PosesNumbered, [Next]_vars
    PROVE  PosesNumbered'
<1>1. ASSUME \/ \E c \in Conns :
                   \/ Arrive(c) \/ Accept(c) \/ DataArrives(c) \/ ReceiveData(c)
                   \/ ConsumeEnds(c) \/ ReceiveEnds(c) \/ ConnectionFails(c)
                   \/ (handleHello(c) /\ ~OpenSession(c))
             \/ Stop \/ StopBlock \/ Release
      PROVE  PosesNumbered'
  <2>1. UNCHANGED <<poses, tracking, sessions>>
    BY <1>1 DEF Arrive, Accept, DataArrives, ReceiveData, ConsumeEnds, ReceiveEnds,
       ConnectionFails, handleHello, HelloRefused, HelloDenied, HelloAccepted,
       Stop, StopBlock, Release, lineVars, workVars
  <2>2. regq' = regq \/ \E b \in Block : b.op # "pose" /\ regq' = Append(regq, b)
    <3>1. /\ [op |-> "stopAll"] \in Block
          /\ \A c \in Conns : [op |-> "remove", conn |-> c] \in Block
      BY DEF Block
    <3>2. ASSUME NEW c \in Conns, cleanupConnection(c)
          PROVE  regq' = regq \/ regq' = Append(regq, [op |-> "remove", conn |-> c])
      BY <3>2 DEF cleanupConnection
    <3>3. \/ regq' = regq \/ regq' = Append(regq, [op |-> "stopAll"])
          \/ \E c \in Conns : regq' = Append(regq, [op |-> "remove", conn |-> c])
      BY <1>1, <3>2 DEF Arrive, Accept, DataArrives, ReceiveData, ConsumeEnds, ReceiveEnds,
         ConnectionFails, handleHello, HelloRefused, HelloDenied, HelloAccepted,
         Stop, StopBlock, Release, workVars
    <3> QED BY <3>1, <3>3
  <2> QED BY <2>1, <2>2, NumbersKept
<1>2. CASE RegistryFreed \/ UNCHANGED vars
  BY <1>2, NumbersKept DEF RegistryFreed, vars, lineVars, workVars
<1>3. ASSUME NEW t \in DOMAIN sessions, SessionStep(t) \/ SessionFreed(t)
      PROVE  PosesNumbered'
  <2>1. UNCHANGED <<poses, tracking, regq>> /\ DOMAIN sessions' = DOMAIN sessions
    BY <1>3 DEF SessionStep, SessionFreed, lineVars
  <2>2. ASSUME NEW s \in DOMAIN sessions
        PROVE  /\ Ordered(sessions'[s])
               /\ \A n \in Nat : Before(sessions[s], n) => Before(sessions'[s], n)
    <3>1. Ordered(sessions[s])
      BY DEF PosesNumbered
    <3>2. s # t => sessions'[s] = sessions[s]
      BY <1>3 DEF SessionStep, SessionFreed
    <3> QED BY <1>3, <3>1, <3>2, StepOrdered
  <2>3. /\ poses + 1 \in Nat
        /\ \A i \in DOMAIN regq : regq[i].op = "pose" => regq[i].number \in Nat
    BY DEF TypeOK, Block
  <2> QED BY <2>1, <2>2, <2>3 DEF PosesNumbered, Before, Ordered
<1> QED
  BY <1>1, <1>2, <1>3, NumbersGrow, OpenSessionNumbers, RegistryNumbers DEF Next

\* A session only ever has poses of its own connection, and never goes back to an
\* older one; the tracking file likewise, over all connections.
THEOREM PosesGoForward == Spec => PosesInOrder
<1>1. Init => Attached /\ PosesNumbered
  BY DEF Init, Attached, PosesNumbered, NoPose
<1>2. TypeOK /\ OneSessionPerConnection /\ Attached /\ PosesNumbered /\ [Next]_vars
         => Attached' /\ PosesNumbered'
  BY AttachedStep, NumbersStep
<1>3. TypeOK /\ PosesNumbered /\ [Next]_vars =>
         /\ \A s \in DOMAIN sessions :
               sessions'[s].pose # sessions[s].pose =>
                  /\ sessions'[s].pose.conn = sessions[s].conn
                  /\ sessions'[s].pose.number > sessions[s].pose.number
         /\ tracking' # tracking =>
               tracking'.number > tracking.number /\ tracking'.conn \in handshaken
  <2> SUFFICES ASSUME TypeOK, PosesNumbered, [Next]_vars
               PROVE  /\ \A s \in DOMAIN sessions :
                            sessions'[s].pose # sessions[s].pose =>
                               /\ sessions'[s].pose.conn = sessions[s].conn
                               /\ sessions'[s].pose.number > sessions[s].pose.number
                      /\ tracking' # tracking =>
                            tracking'.number > tracking.number /\ tracking'.conn \in handshaken
    OBVIOUS
  <2>1. ASSUME NEW s \in DOMAIN sessions, sessions'[s].pose # sessions[s].pose
        PROVE  /\ sessions'[s].pose.conn = sessions[s].conn
               /\ sessions'[s].pose.number > sessions[s].pose.number
    <3>1. sessions[s] \in Session /\ Ordered(sessions[s])
      BY DEF TypeOK, PosesNumbered
    <3>2. SessionStep(s) \/ SessionFreed(s)
      <4>1. ~UNCHANGED sessions
        BY <2>1
      <4>2. ~RegistryStep
        <5>1. ASSUME NEW targets, NEW block, sessions' = Post(targets, block)
              PROVE  FALSE
          BY <2>1, <3>1, <5>1 DEF Post, Session
        <5>2. ASSUME RunSet(Head(regq))
              PROVE  FALSE
          BY <2>1, <3>1, <5>2 DEF RunSet, Session
        <5> QED
          BY <5>1, <5>2 DEF RegistryStep, RunBlock, RunPose, RunRemove, RunStopAll
      <4>3. ASSUME NEW c \in Conns, handleHello(c)
            PROVE  FALSE
        BY <2>1, <4>1, <4>3, OpenSessionType
           DEF handleHello, HelloRefused, HelloDenied, HelloAccepted
      <4>4. ASSUME NEW t \in DOMAIN sessions, SessionStep(t) \/ SessionFreed(t)
            PROVE  t = s
        BY <2>1, <4>4 DEF SessionStep, SessionFreed
      <4> QED
        BY <4>1, <4>2, <4>3, <4>4
           DEF Next, Arrive, Accept, DataArrives, ReceiveData, ConsumeEnds, ReceiveEnds,
           ConnectionFails, handlePose, Stop, StopBlock, Release, RegistryFreed, vars, workVars
    <3> QED BY <2>1, <3>1, <3>2, StepOrdered
  <2>2. ASSUME tracking' # tracking
        PROVE  tracking'.number > tracking.number /\ tracking'.conn \in handshaken
    <3>1. PICK c \in Conns : handlePose(c)
      BY <2>2 DEF Next, Arrive, Accept, DataArrives, ReceiveData, ConsumeEnds, ReceiveEnds,
         ConnectionFails, handleHello, Stop, StopBlock, Release, RegistryStep,
         RegistryFreed, SessionStep, SessionFreed, vars, lineVars
    <3>2. c \in handshaken /\ tracking' = [conn |-> c, number |-> poses + 1]
      BY <2>2, <3>1 DEF handlePose
    <3>3. poses \in Nat /\ tracking.number \in Nat /\ tracking.number <= poses
      BY DEF TypeOK, Pose, PosesNumbered
    <3> QED BY <3>2, <3>3
  <2> QED BY <2>1, <2>2
<1> QED
  BY <1>1, <1>2, <1>3, Invariance, PTL DEF Spec, PosesInOrder
=============================================================================
