----------------------------- MODULE HostSession -----------------------------
(***************************************************************************)
(* HostService, SessionRegistry and the control of ClientSession.          *)
(*                                                                         *)
(* Three kinds of serial dispatch queue run side by side: the listener     *)
(* queue (one callback at a time: `busy` is the connection whose data      *)
(* callback is running its consume loop), the registry queue (`regq`) and  *)
(* one queue per session.  The listener queue only ever sends to the       *)
(* registry queue, and that one only to the sessions' queues; nobody waits *)
(* for an answer.                                                          *)
(*                                                                         *)
(* Lines that change nothing (ping, a line that does not parse, a pose or  *)
(* a hello without payload) are left out; the frames a running session     *)
(* emits are the subject of FrameTransport.                                *)
(***************************************************************************)
EXTENDS Naturals, Sequences, FiniteSets, SequencesExt, Functions

CONSTANTS
    Conns,      \* control connections; each is accepted at most once
    NoConn,     \* the listener queue is between callbacks
    MaxHellos,  \* bound: hello lines of all connections
    MaxPoses    \* bound: pose lines, over all connections

ASSUME HostAssumption ==
    NoConn \notin Conns /\ MaxHellos \in Nat /\ MaxPoses \in Nat

VARIABLES
    arrived,     \* newConnectionHandler is queued for these
    active,      \* HostService.activeConnections
    cancelled,   \* connection.cancel() was called
    armed,       \* a receive is outstanding
    queued,      \* its completion with data is on the listener queue
    busy,        \* whose consume loop the listener queue is in
    handshaken,  \* context.didHandshake
    hellos,      \* hello lines handled so far
    poses,       \* pose lines handled so far; the n-th pose is named n
    denied,      \* history: connections the authorizer refused a hello of
    stopping,    \* "no", "queued" (the stop block is on the queue), "done"
    released,    \* the owner dropped its reference after stop()
    registry,    \* SessionRegistry.sessions
    regq,        \* the registry queue's blocks
    sessions,    \* every ClientSession ever made, in order
    tracking     \* the last pose written to the tracking-state file

connVars == <<arrived, active, cancelled, armed, queued, busy>>
lineVars == <<handshaken, hellos, poses, denied, tracking>>
stopVars == <<stopping, released>>
workVars == <<registry, regq, sessions>>
vars == <<connVars, lineVars, stopVars, workVars>>

NoPose == [conn |-> NoConn, number |-> 0]

Init ==
    /\ arrived = {} /\ active = {} /\ cancelled = {}
    /\ armed = {} /\ queued = {} /\ busy = NoConn
    /\ handshaken = {} /\ hellos = 0 /\ poses = 0
    /\ denied = {} /\ tracking = NoPose
    /\ stopping = "no" /\ released = FALSE
    /\ registry = <<>> /\ regq = <<>> /\ sessions = <<>>

Idle == busy = NoConn /\ ~released

Unseen(c) == c \notin arrived \cup active \cup cancelled
-----------------------------------------------------------------------------
\* The network and the listener queue.

Arrive(c) ==
    /\ stopping # "done" /\ Unseen(c)
    /\ arrived' = arrived \cup {c}
    /\ UNCHANGED <<active, cancelled, armed, queued, busy, lineVars, stopVars, workVars>>

\* Cancelling the listener does not take back a handler already queued.
Accept(c) ==
    /\ Idle /\ c \in arrived
    /\ arrived' = arrived \ {c}
    /\ active' = active \cup {c}
    /\ armed' = armed \cup {c}
    /\ UNCHANGED <<cancelled, queued, busy, lineVars, stopVars, workVars>>

DataArrives(c) ==
    /\ c \in armed \ (queued \cup cancelled)
    /\ queued' = queued \cup {c}
    /\ UNCHANGED <<arrived, active, cancelled, armed, busy, lineVars, stopVars, workVars>>

\* Faulty variant: cleanup forgets the session.
CleanupForgetsSession(c) ==
    IF c \in active
    THEN /\ active' = active \ {c}
         /\ cancelled' = cancelled \cup {c}
         /\ UNCHANGED regq
    ELSE UNCHANGED <<active, cancelled, regq>>

cleanupConnection(c) ==
    IF c \in active
    THEN /\ active' = active \ {c}
         /\ cancelled' = cancelled \cup {c}
         /\ regq' = Append(regq, [op |-> "remove", conn |-> c])
    ELSE UNCHANGED <<active, cancelled, regq>>

\* Faulty variant: an end of stream is acted on before the data that came with it.
ReceiveDataCleanupFirst(c) ==
    /\ Idle /\ c \in queued
    /\ busy' = c
    /\ queued' = queued \ {c}
    /\ armed' = armed \ {c}
    /\ cleanupConnection(c)
    /\ UNCHANGED <<arrived, lineVars, stopVars, registry, sessions>>

\* The receive completion of c starts its consume loop.
ReceiveData(c) ==
    /\ Idle /\ c \in queued
    /\ busy' = c
    /\ queued' = queued \ {c}
    /\ armed' = armed \ {c}
    /\ UNCHANGED <<arrived, active, cancelled, lineVars, stopVars, workVars>>

\* The loop is out of lines: receive again, unless the same completion carried
\* an error or the end of the stream.
ConsumeEnds(c) ==
    /\ busy = c
    /\ busy' = NoConn
    /\ \/ armed' = armed \cup {c} /\ UNCHANGED <<active, cancelled, regq>>
       \/ cleanupConnection(c) /\ UNCHANGED armed
    /\ UNCHANGED <<arrived, queued, lineVars, stopVars, registry, sessions>>

\* The receive completes with an error or the end of the stream and no data; on
\* a cancelled connection it cannot complete otherwise.
ReceiveEnds(c) ==
    /\ Idle /\ c \in armed \ queued
    /\ armed' = armed \ {c}
    /\ cleanupConnection(c)
    /\ UNCHANGED <<arrived, queued, busy, lineVars, stopVars, registry, sessions>>

\* stateUpdateHandler: failed or cancelled.  The network enqueues it behind any
\* data it has already delivered.  cleanupConnection removes the handler; after
\* stop() it is still there but finds the connection gone.
ConnectionFails(c) ==
    /\ Idle /\ c \in active \ queued
    /\ cleanupConnection(c)
    /\ UNCHANGED <<arrived, armed, queued, busy, lineVars, stopVars, registry, sessions>>
-----------------------------------------------------------------------------
\* handleLine, inside the consume loop of c.

\* The protocol version, port, endpoint and bridge checks refuse the hello and
\* leave everything as it was; the last of them comes after the authorizer.
HelloRefused(c) == UNCHANGED <<handshaken, denied, active, cancelled, regq, sessions>>

HelloDenied(c) ==
    /\ c \notin handshaken
    /\ denied' = denied \cup {c}
    /\ cleanupConnection(c)
    /\ UNCHANGED <<handshaken, sessions>>

OpenSession(c) ==
    /\ handshaken' = handshaken \cup {c}
    /\ sessions' = Append(sessions,
                          [conn |-> c, timer |-> FALSE, queue |-> <<>>, pose |-> NoPose,
                           late |-> c \notin active])
    /\ regq' = Append(regq, [op |-> "set", conn |-> c, session |-> Len(sessions) + 1])
    /\ UNCHANGED <<denied, active, cancelled>>

\* Faulty variant: the didHandshake check is missing.
HelloAcceptedAgain(c) == OpenSession(c)

\* The authorizer allows, or there is none.
HelloAccepted(c) ==
    /\ c \notin handshaken
    /\ OpenSession(c)

handleHello(c) ==
    /\ busy = c /\ hellos < MaxHellos
    /\ hellos' = hellos + 1
    /\ HelloRefused(c) \/ HelloDenied(c) \/ HelloAccepted(c)
    /\ UNCHANGED <<arrived, armed, queued, busy, poses, tracking, stopVars, registry>>

\* HELLO_REQUIRED leaves everything alone.  Writing the file may fail, which is
\* only logged.
handlePose(c) ==
    /\ busy = c /\ poses < MaxPoses
    /\ c \in handshaken
    /\ poses' = poses + 1
    /\ regq' = Append(regq, [op |-> "pose", conn |-> c, number |-> poses + 1])
    /\ tracking' \in {tracking, [conn |-> c, number |-> poses + 1]}
    /\ UNCHANGED <<connVars, handshaken, hellos, denied, stopVars, registry, sessions>>
-----------------------------------------------------------------------------
\* Stopping.

Stop ==
    /\ stopping = "no"
    /\ stopping' = "queued"
    /\ UNCHANGED <<connVars, lineVars, released, workVars>>

StopBlock ==
    /\ Idle /\ stopping = "queued"
    /\ stopping' = "done"
    /\ cancelled' = cancelled \cup active
    /\ active' = {}
    /\ regq' = Append(regq, [op |-> "stopAll"])
    /\ UNCHANGED <<arrived, armed, queued, busy, lineVars, released, registry, sessions>>

\* The owner (RuntimeService.stop, or the exiting host program) lets go of the
\* service; every callback holds it weakly and does nothing from then on.
Release ==
    /\ Idle /\ stopping = "done"
    /\ released' = TRUE
    /\ cancelled' = cancelled \cup active \cup arrived
    /\ arrived' = {} /\ active' = {} /\ armed' = {} /\ queued' = {}
    /\ UNCHANGED <<busy, lineVars, stopping, workVars>>
-----------------------------------------------------------------------------
\* SessionRegistry's queue.

\* Enqueue a block on the queues of the given sessions.
Post(targets, block) ==
    [s \in DOMAIN sessions |->
        IF s \in targets THEN [sessions[s] EXCEPT !.queue = Append(@, block)]
                         ELSE sessions[s]]

Registered(c) == {s \in DOMAIN sessions : c \in DOMAIN registry /\ registry[c] = s}

RunSet(b) ==
    /\ b.op = "set"
    /\ sessions' = [s \in DOMAIN sessions |->
          CASE s = b.session ->
                  [sessions[s] EXCEPT !.queue = Append(@, [op |-> "start"])]
            [] s \in Registered(b.conn) \ {b.session} ->
                  [sessions[s] EXCEPT !.queue = Append(@, [op |-> "stop"])]
            [] OTHER -> sessions[s]]
    /\ registry' = [c \in DOMAIN registry \cup {b.conn} |->
                       IF c = b.conn THEN b.session ELSE registry[c]]

RunPose(b) ==
    /\ b.op = "pose"
    /\ sessions' = Post(Registered(b.conn),
                        [op |-> "pose", conn |-> b.conn, number |-> b.number])
    /\ UNCHANGED registry

RunRemove(b) ==
    /\ b.op = "remove"
    /\ sessions' = Post(Registered(b.conn), [op |-> "stop"])
    /\ registry' = Restrict(registry, DOMAIN registry \ {b.conn})

RunStopAll(b) ==
    /\ b.op = "stopAll"
    /\ sessions' = Post(Range(registry), [op |-> "stop"])
    /\ registry' = <<>>

RunBlock(b) == RunSet(b) \/ RunPose(b) \/ RunRemove(b) \/ RunStopAll(b)

\* Faulty variant: the queue is concurrent, any block may run next.
RegistryStepUnordered ==
    /\ \E i \in DOMAIN regq : RunBlock(regq[i]) /\ regq' = RemoveAt(regq, i)
    /\ UNCHANGED <<connVars, lineVars, stopVars>>

RegistryStep ==
    /\ regq # <<>>
    /\ RunBlock(Head(regq))
    /\ regq' = Tail(regq)
    /\ UNCHANGED <<connVars, lineVars, stopVars>>

\* The registry goes with the service once its last block has run.
RegistryFreed ==
    /\ released /\ regq = <<>> /\ registry # <<>>
    /\ registry' = <<>>
    /\ UNCHANGED <<connVars, lineVars, stopVars, regq, sessions>>
-----------------------------------------------------------------------------
\* A session's own queue.

SessionStep(s) ==
    /\ sessions[s].queue # <<>>
    /\ LET b == Head(sessions[s].queue)
       IN  sessions' = [sessions EXCEPT
              ![s].queue = Tail(@),
              ![s].timer = IF b.op = "start" THEN TRUE
                           ELSE IF b.op = "stop" THEN FALSE ELSE @,
              ![s].pose  = IF b.op = "pose"
                           THEN [conn |-> b.conn, number |-> b.number] ELSE @]
    /\ UNCHANGED <<connVars, lineVars, stopVars, registry, regq>>

Referenced(s) ==
    \/ s \in Range(registry)
    \/ sessions[s].queue # <<>>
    \/ \E i \in DOMAIN regq : regq[i].op = "set" /\ regq[i].session = s

\* A session nobody refers to goes, and its timer with it.
SessionFreed(s) ==
    /\ sessions[s].timer /\ ~Referenced(s)
    /\ sessions' = [sessions EXCEPT ![s].timer = FALSE]
    /\ UNCHANGED <<connVars, lineVars, stopVars, registry, regq>>
-----------------------------------------------------------------------------
Next ==
    \/ \E c \in Conns :
          \/ Arrive(c) \/ Accept(c) \/ DataArrives(c) \/ ReceiveData(c)
          \/ ConsumeEnds(c) \/ ReceiveEnds(c) \/ ConnectionFails(c)
          \/ handleHello(c) \/ handlePose(c)
    \/ Stop \/ StopBlock \/ Release
    \/ RegistryStep \/ RegistryFreed
    \/ \E s \in DOMAIN sessions : SessionStep(s) \/ SessionFreed(s)

Spec == Init /\ [][Next]_vars

\* A serial queue runs every block it holds in turn, so a block that waits while
\* others come and go still runs; the owner releases the service after stopping
\* it; nothing makes clients connect, send or hang up.
Fairness ==
    /\ SF_vars(StopBlock \/ Release)
    /\ WF_vars(RegistryStep \/ RegistryFreed)
    /\ WF_vars(\E c \in Conns : ConsumeEnds(c))
    /\ \A c \in Conns : SF_vars(ReceiveData(c))
    /\ \A s \in 1 .. MaxHellos :
          WF_vars(s \in DOMAIN sessions /\ (SessionStep(s) \/ SessionFreed(s)))

FairSpec == Spec /\ Fairness
-----------------------------------------------------------------------------
\* Properties.

Pose  == [conn : Conns \cup {NoConn}, number : 0 .. MaxPoses]
Block == UNION {[op : {"set"}, conn : Conns, session : DOMAIN sessions],
                [op : {"pose"}, conn : Conns, number : 1 .. MaxPoses],
                [op : {"remove"}, conn : Conns], [op : {"stopAll"}]}
SessionBlock == UNION {[op : {"start", "stop"}],
                       [op : {"pose"}, conn : Conns, number : 1 .. MaxPoses]}
Session == [conn : Conns, timer : BOOLEAN, queue : Seq(SessionBlock), pose : Pose,
            late : BOOLEAN]

\* Every variable has its type.
TypeOK ==
    /\ arrived \subseteq Conns /\ active \subseteq Conns /\ cancelled \subseteq Conns
    /\ armed \subseteq Conns /\ queued \subseteq armed
    /\ busy \in Conns \cup {NoConn}
    /\ handshaken \subseteq Conns /\ denied \subseteq Conns
    /\ hellos \in 0 .. MaxHellos /\ poses \in 0 .. MaxPoses
    /\ stopping \in {"no", "queued", "done"} /\ released \in BOOLEAN
    /\ DOMAIN registry \subseteq Conns
    /\ \A c \in DOMAIN registry : registry[c] \in DOMAIN sessions
    /\ regq \in Seq(Block)
    /\ sessions \in Seq(Session)
    /\ tracking \in Pose

\* A connection feeds at most one stream, whatever hellos it sends and however
\* the three queues interleave.
OneStreamPerConnection ==
    \A s, t \in DOMAIN sessions :
        sessions[s].timer /\ sessions[t].timer /\ sessions[s].conn = sessions[t].conn
            => s = t

\* The session streams, or a queue holds the block that will make it.
Live(s) ==
    \/ sessions[s].timer
    \/ \E i \in DOMAIN sessions[s].queue : sessions[s].queue[i].op = "start"
    \/ \E i \in DOMAIN regq : regq[i].op = "set" /\ regq[i].session = s

StopOnTheWay(s) ==
    \/ \E i \in DOMAIN sessions[s].queue : sessions[s].queue[i].op = "stop"
    \/ \E i \in DOMAIN regq :
          \/ regq[i].op = "stopAll"
          \/ regq[i].op = "remove" /\ regq[i].conn = sessions[s].conn

\* A session that streams, or is about to, has its connection, or its stop is
\* already on a queue, unless its hello was handled when the connection had
\* already been removed: then nothing will ever stop it but the release of the
\* whole service.
EveryStreamIsOwned ==
    \A s \in DOMAIN sessions :
        Live(s) => \/ sessions[s].conn \in active \/ StopOnTheWay(s)
                   \/ sessions[s].late \/ released

\* Such a late hello takes a refused hello earlier in the same data, or data
\* that was already on the queue when the service was stopped.
LateOnlyAfterDenialOrStop ==
    \A s \in DOMAIN sessions :
        sessions[s].late => sessions[s].conn \in denied \/ stopping = "done"

\* A session only ever has poses of its own connection, and never goes back to
\* an older one; the tracking file likewise, over all connections.
PosesInOrder ==
    [][/\ \A s \in DOMAIN sessions :
             sessions'[s].pose # sessions[s].pose =>
                /\ sessions'[s].pose.conn = sessions[s].conn
                /\ sessions'[s].pose.number > sessions[s].pose.number
       /\ tracking' # tracking =>
             tracking'.number > tracking.number /\ tracking'.conn \in handshaken]_vars

\* In the end every connection that is gone has no stream any more, also when
\* stop() raced its hello; only the late hello of a refused client makes a stream
\* that goes on.
StreamEndsWithConnection ==
    <>[](\A s \in DOMAIN sessions :
            /\ sessions[s].conn \in cancelled
            /\ ~(sessions[s].late /\ sessions[s].conn \in denied)
            => ~sessions[s].timer)
=============================================================================
