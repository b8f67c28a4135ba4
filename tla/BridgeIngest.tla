---------------------------- MODULE BridgeIngest ----------------------------
(***************************************************************************)
(* BridgeIngestService, the BridgeFrameStore it fills, and a session's     *)
(* BridgeJPEGFrameSource that polls the store.                             *)
(*                                                                         *)
(* The service's callbacks run on one serial queue; no two lines of one    *)
(* receive depend on each other, so a line is a step.  The poll runs on a  *)
(* session's queue: it copies the latest frame under the store's lock and  *)
(* reads the clock afterwards.  UDP may repeat, delay or lose a datagram:  *)
(* whatever a producer can build from its welcome may arrive at any time.  *)
(* FrameTransport shows what a token's reassembler makes of the datagrams: *)
(* nothing, or a whole frame of the producer the token was given to.       *)
(*                                                                         *)
(* Refused lines, dropped packets and pings change only log counters.      *)
(***************************************************************************)
EXTENDS Integers, FiniteSets, FiniteSetsExt, Functions

CONSTANTS
    Conns,      \* control connections; each is accepted at most once
    NoConn,
    Sources,    \* the source names producers give in their hello
    NoSource,   \* "bridge-unknown"
    MinSize, MaxSize,   \* HostConfiguration.clampPacketSize: 512 and 65507
    MaxPacket,  \* maxPacketSize of the service
    Header,     \* BridgeUDPPacketEnvelope.headerByteCount
    Requests,   \* maxPacketSize in a hello; none counts as MaxPacket
    MaxNumber,  \* bound: frame numbers of a producer
    MaxAge      \* maxFrameAgeNs in ticks; 0: frames never get stale

ASSUME BridgeAssumption ==
    /\ NoConn \notin Conns /\ NoSource \notin Sources
    /\ {MinSize, MaxSize, Header, MaxNumber, MaxAge} \subseteq Nat
    /\ MinSize <= MaxPacket /\ MaxPacket <= MaxSize /\ MaxPacket \in Nat
    /\ Requests \subseteq Int

VARIABLES
    arrived,     \* newConnectionHandler is queued for these
    active,      \* activeControlConnections (and controlContexts)
    stranded,    \* history: connections the stop block cut off
    late,        \* of those, the ones with data still on the queue
    context,     \* ControlConnectionContext
    issued,      \* number of tokens made; the n-th is named n
    authorized,  \* authorizedUDPByToken
    welcomed,    \* what each producer read in its welcome
    latest,      \* BridgeFrameStore.latest, with its age
    snapshot,    \* the frame a poll has copied and not yet judged
    shown,       \* the number and sender of the frame the last poll produced
    stopping,    \* "no", "queued" (the stop block is on the queue), "done"
    released     \* the owner dropped the service

connVars == <<arrived, active, stranded, late>>
authVars == <<context, issued, authorized, welcomed>>
pollVars == <<snapshot, shown>>
stopVars == <<stopping, released>>
vars == <<connVars, authVars, latest, pollVars, stopVars>>

NoToken   == 0
NoWelcome == [token |-> NoToken, size |-> 0]
NoFrame   == [from |-> NoConn, source |-> NoSource, number |-> 0, age |-> 0]

Init ==
    /\ arrived = {} /\ active = {} /\ stranded = {} /\ late = {}
    /\ context = [c \in Conns |->
                     [didHello |-> FALSE, source |-> NoSource, token |-> NoToken]]
    /\ issued = 0 /\ authorized = <<>>
    /\ welcomed = [c \in Conns |-> NoWelcome]
    /\ latest = NoFrame /\ snapshot = NoFrame /\ shown = NoFrame
    /\ stopping = "no" /\ released = FALSE
-----------------------------------------------------------------------------
\* Control connections.

Arrive(c) ==
    /\ stopping # "done" /\ c \notin arrived \cup active \cup stranded
    /\ ~context[c].didHello
    /\ arrived' = arrived \cup {c}
    /\ UNCHANGED <<active, stranded, late, authVars, latest, pollVars, stopVars>>

acceptControl(c) ==
    /\ ~released /\ c \in arrived
    /\ arrived' = arrived \ {c}
    /\ active' = active \cup {c}
    /\ UNCHANGED <<stranded, late, authVars, latest, pollVars, stopVars>>

Without(f, k) == Restrict(f, DOMAIN f \ {k})

\* Faulty variant: the token outlives its connection.
CleanupKeepsToken(c) ==
    /\ active' = active \ {c}
    /\ UNCHANGED authorized

cleanupControlConnection(c) ==
    /\ active' = active \ {c}
    /\ authorized' = Without(authorized, context[c].token)

\* The receive or the connection ends; a stranded connection has been removed
\* already.
ControlEnds(c) ==
    /\ ~released
    /\ \/ c \in active /\ cleanupControlConnection(c) /\ UNCHANGED late
       \/ c \in late /\ late' = late \ {c} /\ UNCHANGED <<active, authorized>>
    /\ UNCHANGED <<arrived, stranded, context, issued, welcomed, latest, pollVars, stopVars>>
-----------------------------------------------------------------------------
\* Control lines.

Handling(c) == ~released /\ c \in active \cup late

clampPacketSize(size) == Min({Max({size, MinSize}), MaxSize})

Negotiated(requested) == Min({MaxPacket, clampPacketSize(requested)})

\* Faulty variant: the datagram limit forgets the envelope.
AuthorizedWithoutHeader(source, size) ==
    [source |-> source, maxChunkPacketSize |-> size, maxDatagramSize |-> size]

AuthorizedUDPSource(source, size) ==
    [source |-> source, maxChunkPacketSize |-> size, maxDatagramSize |-> size + Header]

\* Faulty variant: every hello gets the same token.
ConstantToken(n) == 1

\* Sixteen random bytes, taken to differ from all others.
makeUDPSessionToken(n) == n + 1

HelloInline(c, source) ==
    /\ context' = [context EXCEPT ![c] =
                      [didHello |-> TRUE, source |-> source, token |-> NoToken]]
    /\ UNCHANGED <<issued, authorized, welcomed>>

\* The welcome does not reach a connection that was cancelled.
HelloUDP(c, source, requested) ==
    LET token == makeUDPSessionToken(issued)
        size  == Negotiated(requested)
    IN  /\ issued' = issued + 1
        /\ context' = [context EXCEPT ![c] =
                          [didHello |-> TRUE, source |-> source, token |-> token]]
        /\ authorized' = [t \in DOMAIN authorized \cup {token} |->
                             IF t = token THEN AuthorizedUDPSource(source, size)
                                          ELSE authorized[t]]
        /\ welcomed' = IF c \in active
                       THEN [welcomed EXCEPT ![c] = [token |-> token, size |-> size]]
                       ELSE welcomed

handleHello(c) ==
    /\ Handling(c) /\ ~context[c].didHello
    /\ \E source \in Sources :
          \/ HelloInline(c, source)
          \/ \E requested \in Requests \cup {MaxPacket} : HelloUDP(c, source, requested)
    /\ UNCHANGED <<connVars, latest, pollVars, stopVars>>

\* BridgeFrameStore.update
Update(from, source, number) ==
    latest' = [from |-> from, source |-> source, number |-> number, age |-> 0]

handleSubmitFrame(c) ==
    /\ Handling(c) /\ context[c].didHello
    /\ \E number \in 1 .. MaxNumber : Update(c, context[c].source, number)
    /\ UNCHANGED <<connVars, authVars, pollVars, stopVars>>
-----------------------------------------------------------------------------
\* UDP.

\* The three checks of a datagram that carries a chunk packet of this size.
Passes(token, size) ==
    /\ size + Header <= MaxPacket + Header
    /\ token \in DOMAIN authorized
    /\ size + Header <= authorized[token].maxDatagramSize
    /\ size <= authorized[token].maxChunkPacketSize

\* A datagram that completes a frame of producer c.
consumeUDPPacket(c) ==
    /\ ~released /\ welcomed[c] # NoWelcome
    /\ \E size \in 1 .. MaxSize, number \in 1 .. MaxNumber :
          /\ Passes(welcomed[c].token, size)
          /\ Update(c, authorized[welcomed[c].token].source, number)
    /\ UNCHANGED <<connVars, authVars, pollVars, stopVars>>
-----------------------------------------------------------------------------
\* Stopping.

Stop ==
    /\ stopping = "no" /\ stopping' = "queued"
    /\ UNCHANGED <<connVars, authVars, latest, pollVars, released>>

\* Faulty variant: the tokens are not removed.
StopBlockKeepsTokens ==
    /\ stopping = "queued" /\ stopping' = "done"
    /\ stranded' = active /\ late' \in SUBSET active /\ active' = {}
    /\ UNCHANGED <<arrived, authVars, latest, pollVars, released>>

\* Cancelling does not take back what is on the queue: new connections, and
\* the data of some of the connections cut off.
StopBlock ==
    /\ stopping = "queued" /\ stopping' = "done"
    /\ stranded' = active /\ late' \in SUBSET active /\ active' = {}
    /\ authorized' = <<>>
    /\ UNCHANGED <<arrived, context, issued, welcomed, latest, pollVars, released>>

\* The owner lets go; every callback holds the service weakly.
Release ==
    /\ stopping = "done" /\ ~released
    /\ released' = TRUE
    /\ arrived' = {} /\ active' = {} /\ late' = {} /\ authorized' = <<>>
    /\ UNCHANGED <<stranded, context, issued, welcomed, latest, pollVars, stopping>>
-----------------------------------------------------------------------------
\* BridgeJPEGFrameSource.makeFrame on a session's queue.

Older(frame) == IF frame = NoFrame \/ frame.age > MaxAge
                THEN frame ELSE [frame EXCEPT !.age = @ + 1]

\* The clock; ages beyond the limit are not told apart.
Tick ==
    /\ latest' = Older(latest)
    /\ snapshot' = Older(snapshot)
    /\ UNCHANGED <<connVars, authVars, shown, stopVars>>

PollReads ==
    /\ snapshot = NoFrame
    /\ snapshot' = latest
    /\ UNCHANGED <<connVars, authVars, latest, shown, stopVars>>

Stale(frame) == MaxAge > 0 /\ frame.age > MaxAge

\* Faulty variant: the last frame is kept up when the new one is stale.
ProducedOrLast(frame) == IF Stale(frame) THEN shown ELSE frame

Produced(frame) == IF Stale(frame) THEN NoFrame ELSE frame

\* With no snapshot at all the poll ends in the first step.
PollDecides ==
    /\ snapshot # NoFrame
    /\ shown' = [Produced(snapshot) EXCEPT !.age = 0]
    /\ snapshot' = NoFrame
    /\ UNCHANGED <<connVars, authVars, latest, stopVars>>
-----------------------------------------------------------------------------
Next ==
    \/ \E c \in Conns :
          \/ Arrive(c) \/ acceptControl(c) \/ ControlEnds(c)
          \/ handleHello(c) \/ handleSubmitFrame(c) \/ consumeUDPPacket(c)
    \/ Stop \/ StopBlock \/ Release
    \/ Tick \/ PollReads \/ PollDecides

Spec == Init /\ [][Next]_vars

\* The clock runs and the session's frame timer keeps polling; producers may do
\* nothing at all.
FairSpec == Spec /\ WF_vars(Tick) /\ WF_vars(PollReads) /\ WF_vars(PollDecides)
-----------------------------------------------------------------------------
\* Properties.

Size    == MinSize .. MaxPacket
Context == [didHello : BOOLEAN, source : Sources \cup {NoSource}, token : Nat]
Frame   == [from : Conns \cup {NoConn}, source : Sources \cup {NoSource},
            number : 0 .. MaxNumber, age : 0 .. MaxAge + 1]

\* Every variable has its type; the sizes in force lie between the smallest
\* packet there is and the service's own limit, whatever a hello asks for.
TypeOK ==
    /\ arrived \subseteq Conns /\ active \subseteq Conns
    /\ stranded \subseteq Conns /\ late \subseteq stranded
    /\ context \in [Conns -> Context]
    /\ issued \in Nat
    /\ DOMAIN authorized \subseteq 1 .. issued
    /\ \A t \in DOMAIN authorized :
          authorized[t] \in [source : Sources, maxChunkPacketSize : Size,
                             maxDatagramSize : Nat]
    /\ welcomed \in [Conns -> [token : Nat, size : Size] \cup {NoWelcome}]
    /\ latest \in Frame /\ snapshot \in Frame /\ shown \in Frame
    /\ stopping \in {"no", "queued", "done"} /\ released \in BOOLEAN

\* A UDP token in force belongs to a live control connection, except one made
\* for data that was already on the queue when stop() ran; and every live
\* producer that was given a token can use it.
TokensAreOwned ==
    /\ \A t \in DOMAIN authorized : \E c \in active \cup stranded : context[c].token = t
    /\ \A c \in active :
          context[c].token # NoToken => context[c].token \in DOMAIN authorized

\* A producer that keeps to the packet size of its welcome loses no datagram to
\* the size checks, the envelope's bytes included.
WelcomeIsHonoured ==
    \A c \in Conns :
        welcomed[c].token \in DOMAIN authorized =>
            \A size \in 1 .. welcomed[c].size : Passes(welcomed[c].token, size)

\* The frame in the store carries the source name of the producer that sent it,
\* whichever way it came and however many producers there are.
AttributedToItsSource ==
    latest.from # NoConn => latest.source = context[latest.from].source

\* A frame gets into the store only while its producer's control connection is
\* up, or its data was on the queue when stop() ran: a datagram that arrives
\* after the producer was removed changes nothing.
OnlyLiveProducersSubmit ==
    [][latest' # latest /\ latest'.age = 0 => latest'.from \in active \cup late]_vars

\* CHANGELOG: "stale-frame dropping for disconnected bridge producers".  When the
\* producers are gone for good, sessions end up showing nothing.
GoesDark ==
    <>[](active = {} /\ late = {}) => <>[](shown = NoFrame)
=============================================================================
