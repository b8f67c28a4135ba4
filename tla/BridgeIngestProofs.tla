------------------------- MODULE BridgeIngestProofs -------------------------
(***************************************************************************)
(* For any producers, any packet sizes they ask for and any age limit: a   *)
(* UDP token in force belongs to a live producer, the frame in the store   *)
(* carries its sender's source name, and the welcome's packet size is      *)
(* honoured, and no frame gets into the store after its producer left.     *)
(*                                                                         *)
(* The argument: tokens are handed out once (TokensDiffer), so whatever    *)
(* the service stores under a token was put there by the one hello that    *)
(* made it (Granted), and removing a connection's token takes nobody       *)
(* else's away.  A welcome reaches live producers only, so the token in    *)
(* one is in force only while its producer is up (WelcomesAreLive).        *)
(***************************************************************************)
EXTENDS BridgeIngest, TLAPS

USE BridgeAssumption

\* Connections on their way in are new.
Newcomers ==
    /\ \A c \in arrived : ~context[c].didHello
    /\ arrived \cap (active \cup stranded) = {}

\* A token is made for one hello, and nobody has one without a hello.
TokensDiffer ==
    /\ \A c \in Conns : context[c].token \in 0 .. issued
    /\ \A c \in Conns : ~context[c].didHello => context[c].token = NoToken
    /\ \A c, d \in Conns :
          context[c].token = context[d].token /\ context[c].token # NoToken => c = d
    /\ \A c \in Conns : welcomed[c].token \in {NoToken, context[c].token}

\* What stands under a token is what its hello agreed on.
Granted ==
    /\ \A c \in Conns : context[c].token \in DOMAIN authorized =>
          authorized[context[c].token].source = context[c].source
    /\ \A c \in Conns : welcomed[c].token \in DOMAIN authorized =>
          /\ authorized[welcomed[c].token].maxChunkPacketSize = welcomed[c].size
          /\ authorized[welcomed[c].token].maxDatagramSize = welcomed[c].size + Header

\* A frame comes from a producer that introduced itself.
Introduced ==
    latest.from # NoConn =>
        context[latest.from].didHello /\ latest.source = context[latest.from].source

Bookkeeping == Newcomers /\ TokensDiffer /\ Granted
IInv == TypeOK /\ Bookkeeping /\ TokensAreOwned /\ Introduced
-----------------------------------------------------------------------------
\* The operators.

\* The smaller, and the larger, of two numbers.
LEMMA MinOfTwo ==
    ASSUME NEW a \in Int, NEW b \in Int
    PROVE  Min({a, b}) = IF a <= b THEN a ELSE b
<1> DEFINE P(x) == x \in {a, b} /\ \A y \in {a, b} : x <= y
<1>1. P(IF a <= b THEN a ELSE b)
  OBVIOUS
<1>2. P(CHOOSE x : P(x))
  BY <1>1
<1>3. \A x, y : P(x) /\ P(y) => x = y
  OBVIOUS
<1>4. (CHOOSE x : P(x)) = IF a <= b THEN a ELSE b
  BY <1>1, <1>2, <1>3
<1> QED
  BY <1>4 DEF Min

LEMMA MaxOfTwo ==
    ASSUME NEW a \in Int, NEW b \in Int
    PROVE  Max({a, b}) = IF a >= b THEN a ELSE b
<1> DEFINE P(x) == x \in {a, b} /\ \A y \in {a, b} : x >= y
<1>1. P(IF a >= b THEN a ELSE b)
  OBVIOUS
<1>2. P(CHOOSE x : P(x))
  BY <1>1
<1>3. \A x, y : P(x) /\ P(y) => x = y
  OBVIOUS
<1>4. (CHOOSE x : P(x)) = IF a >= b THEN a ELSE b
  BY <1>1, <1>2, <1>3
<1> QED
  BY <1>4 DEF Max

\* Whatever a hello asks for, the agreed size is a packet size within the
\* service's own limit.
LEMMA NegotiatedType ==
    ASSUME NEW requested \in Int
    PROVE  Negotiated(requested) \in Size
<1> DEFINE lower == Max({requested, MinSize})
<1>1. lower = IF requested >= MinSize THEN requested ELSE MinSize
  BY MaxOfTwo
<1>2. lower \in Int /\ lower >= MinSize
  BY <1>1
<1> HIDE DEF lower
<1> DEFINE clamped == Min({lower, MaxSize})
<1>3. clamped = IF lower <= MaxSize THEN lower ELSE MaxSize
  BY <1>2, MinOfTwo
<1>4. clamped \in Int /\ clamped >= MinSize
  BY <1>2, <1>3
<1> HIDE DEF clamped
<1>5. Min({MaxPacket, clamped}) = IF MaxPacket <= clamped THEN MaxPacket ELSE clamped
  BY <1>4, MinOfTwo
<1> QED
  BY <1>4, <1>5 DEF Negotiated, clampPacketSize, Size, lower, clamped
-----------------------------------------------------------------------------
\* The steps.

LEMMA InitHolds == Init => IInv
<1> USE DEF Init, NoFrame, NoToken, NoWelcome
<1>1. Init => TypeOK
  <2>1. NoFrame \in Frame
    BY DEF Frame
  <2>2. [didHello |-> FALSE, source |-> NoSource, token |-> 0] \in Context
    BY DEF Context
  <2> SUFFICES ASSUME Init PROVE TypeOK
    OBVIOUS
  <2>3. context \in [Conns -> Context]
    BY <2>2
  <2>4. welcomed \in [Conns -> [token : Nat, size : Size] \cup {NoWelcome}]
    OBVIOUS
  <2>5. DOMAIN authorized = {}
    OBVIOUS
  <2>6. latest \in Frame /\ snapshot \in Frame /\ shown \in Frame
    BY <2>1
  <2>7. /\ arrived = {} /\ active = {} /\ stranded = {} /\ late = {}
        /\ issued \in Nat /\ stopping = "no" /\ released = FALSE
    OBVIOUS
  <2> HIDE DEF Init, NoWelcome
  <2> QED BY <2>3, <2>4, <2>5, <2>6, <2>7 DEF TypeOK
<1>2. Init => Bookkeeping
  BY DEF Bookkeeping, Newcomers, TokensDiffer, Granted
<1>3. Init => TokensAreOwned /\ Introduced
  BY DEF TokensAreOwned, Introduced
<1> QED
  BY <1>1, <1>2, <1>3 DEF IInv

\* Connections come and go; nobody is introduced or given a token.
LEMMA ConnectionSteps ==
    ASSUME IInv, NEW c \in Conns, Arrive(c) \/ acceptControl(c)
    PROVE  IInv'
<1> USE DEF Arrive, acceptControl
<1>1. UNCHANGED <<stranded, late, authVars, latest, pollVars, stopVars>>
  OBVIOUS
<1>2. TypeOK'
  BY <1>1 DEF IInv, TypeOK, authVars, pollVars, stopVars
<1>3. Bookkeeping'
  BY <1>1 DEF IInv, TypeOK, Bookkeeping, Newcomers, TokensDiffer, Granted, authVars
<1>4. TokensAreOwned'
  BY <1>1 DEF IInv, TypeOK, Bookkeeping, Newcomers, TokensDiffer, TokensAreOwned, authVars
<1>5. Introduced'
  BY <1>1 DEF IInv, Introduced, authVars
<1> QED
  BY <1>2, <1>3, <1>4, <1>5 DEF IInv

\* Removing a token leaves what stands under the others.
LEMMA WithoutFacts ==
    ASSUME NEW f, NEW k
    PROVE  /\ DOMAIN Without(f, k) = DOMAIN f \ {k}
           /\ \A t \in DOMAIN Without(f, k) : Without(f, k)[t] = f[t]
BY DEF Without, Restrict

LEMMA EndStep ==
    ASSUME IInv, NEW c \in Conns, ControlEnds(c)
    PROVE  IInv'
<1>1. UNCHANGED <<arrived, stranded, context, issued, welcomed, latest, pollVars, stopVars>>
  BY DEF ControlEnds
<1>2. CASE c \in active /\ cleanupControlConnection(c) /\ UNCHANGED late
  <2>1. /\ active' = active \ {c}
        /\ DOMAIN authorized' = DOMAIN authorized \ {context[c].token}
        /\ \A t \in DOMAIN authorized' : authorized'[t] = authorized[t]
    BY <1>2, WithoutFacts DEF cleanupControlConnection
  <2>2. TypeOK'
    BY <1>1, <1>2, <2>1 DEF IInv, TypeOK, pollVars, stopVars
  <2>3. Bookkeeping'
    BY <1>1, <2>1 DEF IInv, Bookkeeping, Newcomers, TokensDiffer, Granted
  <2>4. TokensAreOwned'
    BY <1>1, <2>1 DEF IInv, TypeOK, Bookkeeping, TokensDiffer, TokensAreOwned
  <2>5. Introduced'
    BY <1>1 DEF IInv, Introduced
  <2> QED BY <2>2, <2>3, <2>4, <2>5 DEF IInv
<1>3. CASE c \in late /\ late' = late \ {c} /\ UNCHANGED <<active, authorized>>
  <2>1. TypeOK'
    BY <1>1, <1>3 DEF IInv, TypeOK, pollVars, stopVars
  <2>2. Bookkeeping' /\ TokensAreOwned' /\ Introduced'
    BY <1>1, <1>3
       DEF IInv, Bookkeeping, Newcomers, TokensDiffer, Granted, TokensAreOwned, Introduced
  <2> QED BY <2>1, <2>2 DEF IInv
<1> QED
  BY <1>2, <1>3 DEF ControlEnds

\* A hello introduces its connection, with a token nobody has had before.
LEMMA HelloStep ==
    ASSUME IInv, NEW c \in Conns, handleHello(c)
    PROVE  IInv'
<1>1. UNCHANGED <<connVars, latest, pollVars, stopVars>>
  BY DEF handleHello
<1>2. c \in active \cup stranded /\ c \notin arrived /\ ~context[c].didHello
  BY DEF handleHello, Handling, IInv, TypeOK, Bookkeeping, Newcomers
<1>3. context[c].token = NoToken /\ welcomed[c].token = NoToken
  BY <1>2 DEF IInv, Bookkeeping, TokensDiffer
<1>4. latest.from # c
  BY <1>2 DEF IInv, Introduced
<1>5. PICK source \in Sources :
         \/ HelloInline(c, source)
         \/ \E requested \in Requests \cup {MaxPacket} : HelloUDP(c, source, requested)
  BY DEF handleHello
<1>6. CASE HelloInline(c, source)
  <2>1. /\ context' = [context EXCEPT ![c] =
                          [didHello |-> TRUE, source |-> source, token |-> NoToken]]
        /\ UNCHANGED <<issued, authorized, welcomed>>
    BY <1>6 DEF HelloInline
  <2>2. TypeOK'
    BY <1>1, <2>1 DEF IInv, TypeOK, Context, NoToken, connVars, pollVars, stopVars
  <2>3. Bookkeeping'
    BY <1>1, <1>2, <1>3, <2>1
       DEF IInv, TypeOK, Bookkeeping, Newcomers, TokensDiffer, Granted, Context, NoToken, connVars
  <2>4. TokensAreOwned'
    BY <1>1, <1>3, <2>1 DEF IInv, TypeOK, TokensAreOwned, Context, NoToken, connVars
  <2>5. Introduced'
    BY <1>1, <1>4, <2>1 DEF IInv, TypeOK, Introduced, Context, Frame
  <2> QED BY <2>2, <2>3, <2>4, <2>5 DEF IInv
<1>7. ASSUME NEW requested \in Requests \cup {MaxPacket}, HelloUDP(c, source, requested)
      PROVE  IInv'
  <2> DEFINE token == issued + 1
             size  == Negotiated(requested)
  <2>1. size \in Size
    BY NegotiatedType
  <2> HIDE DEF size
  <2>2. /\ issued' = issued + 1
        /\ context' = [context EXCEPT ![c] =
                          [didHello |-> TRUE, source |-> source, token |-> token]]
        /\ DOMAIN authorized' = DOMAIN authorized \cup {token}
        /\ authorized'[token] = [source |-> source, maxChunkPacketSize |-> size,
                                 maxDatagramSize |-> size + Header]
        /\ \A t \in DOMAIN authorized \ {token} : authorized'[t] = authorized[t]
        /\ \/ welcomed' = [welcomed EXCEPT ![c] = [token |-> token, size |-> size]]
           \/ welcomed' = welcomed
    BY <1>7 DEF HelloUDP, makeUDPSessionToken, AuthorizedUDPSource, size
  <2>3. issued \in Nat /\ token \in Nat /\ token # NoToken /\ token \notin DOMAIN authorized
    BY DEF IInv, TypeOK, NoToken
  <2>4. /\ context' \in [Conns -> Context]
        /\ welcomed' \in [Conns -> [token : Nat, size : Size] \cup {NoWelcome}]
    BY <2>1, <2>2, <2>3 DEF IInv, TypeOK, Context
  <2>5. \A t \in DOMAIN authorized' :
           authorized'[t] \in [source : Sources, maxChunkPacketSize : Size,
                               maxDatagramSize : Nat]
    BY <2>1, <2>2, <2>3 DEF IInv, TypeOK, Size
  <2>6. TypeOK'
    BY <1>1, <2>2, <2>3, <2>4, <2>5 DEF IInv, TypeOK, connVars, pollVars, stopVars
  <2>7. Newcomers'
    BY <1>1, <1>2, <2>2 DEF IInv, TypeOK, Bookkeeping, Newcomers, Context, connVars
  <2>8. TokensDiffer'
    <3>1. \A d \in Conns \ {c} : context'[d] = context[d] /\ welcomed'[d] = welcomed[d]
      BY <2>2 DEF IInv, TypeOK
    <3>2. context'[c].token = token /\ context'[c].didHello
      BY <2>2 DEF IInv, TypeOK
    <3>3. welcomed'[c].token \in {NoToken, token}
      BY <1>3, <2>2 DEF IInv, TypeOK
    <3>4. \A d \in Conns : context[d].token \in 0 .. issued
      BY DEF IInv, Bookkeeping, TokensDiffer
    <3> QED
      BY <2>2, <2>3, <3>1, <3>2, <3>3, <3>4 DEF IInv, Bookkeeping, TokensDiffer
  <2>9. Granted'
    <3>1. \A d \in Conns \ {c} : context'[d] = context[d] /\ welcomed'[d] = welcomed[d]
      BY <2>2 DEF IInv, TypeOK
    <3>2. \A d \in Conns : context[d].token # token /\ welcomed[d].token # token
      BY <2>3 DEF IInv, Bookkeeping, TokensDiffer
    <3>3. context'[c].token = token /\ context'[c].source = source
      BY <2>2 DEF IInv, TypeOK
    <3>4. \/ welcomed'[c] = [token |-> token, size |-> size]
          \/ welcomed'[c] = welcomed[c] /\ welcomed[c].token = NoToken
      BY <1>3, <2>2 DEF IInv, TypeOK
    <3>5. NoToken \notin DOMAIN authorized'
      BY <2>2, <2>3 DEF IInv, TypeOK, NoToken
    <3>6. \A d \in Conns : context'[d].token \in DOMAIN authorized' =>
             authorized'[context'[d].token].source = context'[d].source
      BY <2>2, <3>1, <3>2, <3>3 DEF IInv, Bookkeeping, Granted
    <3>7. \A d \in Conns : welcomed'[d].token \in DOMAIN authorized' =>
             /\ authorized'[welcomed'[d].token].maxChunkPacketSize = welcomed'[d].size
             /\ authorized'[welcomed'[d].token].maxDatagramSize = welcomed'[d].size + Header
      BY <2>2, <3>1, <3>2, <3>4, <3>5 DEF IInv, Bookkeeping, Granted
    <3> QED BY <3>6, <3>7 DEF Granted
  <2>10. TokensAreOwned'
    <3>1. \A d \in Conns \ {c} : context'[d] = context[d]
      BY <2>2 DEF IInv, TypeOK
    <3>2. context'[c].token = token
      BY <2>2 DEF IInv, TypeOK
    <3>3. active' = active /\ stranded' = stranded
      BY <1>1 DEF connVars
    <3>4. \A t \in DOMAIN authorized' :
             \E d \in active' \cup stranded' : context'[d].token = t
      <4> TAKE t \in DOMAIN authorized'
      <4>1. CASE t = token
        BY <1>2, <3>2, <3>3, <4>1
      <4>2. CASE t # token
        <5>1. PICK d \in active \cup stranded : context[d].token = t
          BY <2>2, <4>2 DEF IInv, TokensAreOwned
        <5>2. d # c /\ d \in Conns
          BY <1>3, <2>2, <4>2, <5>1 DEF IInv, TypeOK, NoToken
        <5> QED BY <3>1, <3>3, <5>1, <5>2
      <4> QED BY <4>1, <4>2
    <3>5. \A d \in active' : context'[d].token # NoToken =>
             context'[d].token \in DOMAIN authorized'
      BY <2>2, <3>1, <3>2, <3>3 DEF IInv, TypeOK, TokensAreOwned
    <3> QED BY <3>4, <3>5 DEF TokensAreOwned
  <2>11. Introduced'
    BY <1>1, <1>4, <2>2 DEF IInv, TypeOK, Introduced, Context, Frame
  <2> QED BY <2>6, <2>7, <2>8, <2>9, <2>10, <2>11 DEF IInv, Bookkeeping
<1> QED
  BY <1>5, <1>6, <1>7

\* A frame that comes in, by line or by datagram, is its sender's.
LEMMA FrameStep ==
    ASSUME IInv, NEW c \in Conns, handleSubmitFrame(c) \/ consumeUDPPacket(c)
    PROVE  IInv'
<1>1. UNCHANGED <<connVars, authVars, pollVars, stopVars>>
  BY DEF handleSubmitFrame, consumeUDPPacket
<1>2. context[c].didHello
  <2>1. CASE handleSubmitFrame(c)
    BY <2>1 DEF handleSubmitFrame
  <2>2. CASE consumeUDPPacket(c)
    <3>1. welcomed[c].token \in DOMAIN authorized
      BY <2>2 DEF consumeUDPPacket, Passes
    <3> QED
      BY <3>1 DEF IInv, TypeOK, Bookkeeping, TokensDiffer, NoToken
  <2> QED BY <2>1, <2>2
<1>3. \E number \in 1 .. MaxNumber : Update(c, context[c].source, number)
  <2>1. CASE handleSubmitFrame(c)
    BY <2>1 DEF handleSubmitFrame
  <2>2. CASE consumeUDPPacket(c)
    <3>1. welcomed[c].token \in DOMAIN authorized /\ welcomed[c].token # NoToken
      BY <2>2 DEF consumeUDPPacket, Passes, IInv, TypeOK, NoToken
    <3>2. welcomed[c].token = context[c].token
      BY <3>1 DEF IInv, Bookkeeping, TokensDiffer
    <3>3. authorized[welcomed[c].token].source = context[c].source
      BY <3>1, <3>2 DEF IInv, Bookkeeping, Granted
    <3> QED BY <2>2, <3>3 DEF consumeUDPPacket
  <2> QED BY <2>1, <2>2
<1>4. PICK number \in 1 .. MaxNumber :
         latest' = [from |-> c, source |-> context[c].source, number |-> number, age |-> 0]
  BY <1>3 DEF Update
<1>5. context[c] \in Context
  BY DEF IInv, TypeOK
<1>6. latest' \in Frame
  BY <1>4, <1>5 DEF Frame, Context
<1>7. TypeOK'
  BY <1>1, <1>6 DEF IInv, TypeOK, connVars, authVars, pollVars, stopVars
<1>8. Bookkeeping' /\ TokensAreOwned'
  BY <1>1 DEF IInv, Bookkeeping, Newcomers, TokensDiffer, Granted, TokensAreOwned,
              connVars, authVars
<1>9. Introduced'
  BY <1>1, <1>2, <1>4 DEF Introduced, authVars
<1> QED
  BY <1>7, <1>8, <1>9 DEF IInv

LEMMA StopSteps ==
    ASSUME IInv, Stop \/ StopBlock \/ Release
    PROVE  IInv'
<1>1. UNCHANGED <<context, issued, welcomed, latest, pollVars>>
  BY DEF Stop, StopBlock, Release, authVars
<1>2. authorized' = authorized \/ authorized' = <<>>
  BY DEF Stop, StopBlock, Release, authVars
<1>3. TypeOK'
  <2>1. /\ arrived' \subseteq Conns /\ active' \subseteq Conns
        /\ stranded' \subseteq Conns /\ late' \subseteq stranded'
        /\ stopping' \in {"no", "queued", "done"} /\ released' \in BOOLEAN
    BY DEF IInv, TypeOK, Stop, StopBlock, Release, connVars
  <2>2. /\ DOMAIN authorized' \subseteq DOMAIN authorized
        /\ \A t \in DOMAIN authorized' : authorized'[t] = authorized[t]
    BY <1>2
  <2> QED BY <1>1, <2>1, <2>2 DEF IInv, TypeOK, pollVars
<1>4. Newcomers'
  BY <1>1 DEF IInv, Bookkeeping, Newcomers, Stop, StopBlock, Release, connVars
<1>5. TokensDiffer' /\ Granted' /\ Introduced'
  BY <1>1, <1>2 DEF IInv, Bookkeeping, TokensDiffer, Granted, Introduced
<1>6. TokensAreOwned'
  BY <1>1 DEF IInv, TokensAreOwned, Stop, StopBlock, Release, connVars, authVars
<1> QED
  BY <1>3, <1>4, <1>5, <1>6 DEF IInv, Bookkeeping

\* The poll and the clock leave the service alone.
LEMMA PollSteps ==
    ASSUME IInv, Tick \/ PollReads \/ PollDecides
    PROVE  IInv'
<1>1. UNCHANGED <<connVars, authVars, stopVars>>
  BY DEF Tick, PollReads, PollDecides
<1>2. NoFrame \in Frame
  BY DEF NoFrame, Frame
<1>3. \A f \in Frame : Older(f) \in Frame /\ Older(f).from = f.from /\ Older(f).source = f.source
  BY DEF Older, Frame
<1>4. latest' \in Frame /\ latest'.from = latest.from /\ latest'.source = latest.source
  BY <1>3 DEF IInv, TypeOK, Tick, PollReads, PollDecides
<1>5. snapshot' \in Frame
  BY <1>2, <1>3 DEF IInv, TypeOK, Tick, PollReads, PollDecides
<1>6. shown' \in Frame
  BY <1>2 DEF IInv, TypeOK, Tick, PollReads, PollDecides, Produced, Frame
<1>7. TypeOK'
  BY <1>1, <1>4, <1>5, <1>6 DEF IInv, TypeOK, connVars, authVars, stopVars
<1>8. Bookkeeping' /\ TokensAreOwned'
  BY <1>1 DEF IInv, Bookkeeping, Newcomers, TokensDiffer, Granted, TokensAreOwned,
              connVars, authVars
<1>9. Introduced'
  BY <1>1, <1>4 DEF IInv, Introduced, authVars
<1> QED
  BY <1>7, <1>8, <1>9 DEF IInv
-----------------------------------------------------------------------------
LEMMA Invariance == Spec => []IInv
<1>1. IInv /\ [Next]_vars => IInv'
  <2> SUFFICES ASSUME IInv, [Next]_vars PROVE IInv'
    OBVIOUS
  <2>1. CASE UNCHANGED vars
    BY <2>1 DEF IInv, TypeOK, Bookkeeping, Newcomers, TokensDiffer, Granted, TokensAreOwned,
                Introduced, vars, connVars, authVars, pollVars, stopVars
  <2> QED
    BY <2>1, ConnectionSteps, EndStep, HelloStep, FrameStep, StopSteps, PollSteps DEF Next
<1> QED
  BY <1>1, InitHolds, PTL DEF Spec

\* Every variable of the bridge keeps its type; in particular the agreed packet
\* sizes stay within the service's limit.
THEOREM TypeCorrect == Spec => []TypeOK
BY Invariance, PTL DEF IInv

\* A UDP token in force belongs to a live producer (or one that stop() cut off),
\* and every live producer's token is in force.
THEOREM TokensOwned == Spec => []TokensAreOwned
BY Invariance, PTL DEF IInv

\* The frame in the store carries the source name of its sender.
THEOREM FramesAttributed == Spec => []AttributedToItsSource
<1>1. IInv => AttributedToItsSource
  BY DEF IInv, Introduced, AttributedToItsSource
<1> QED
  BY <1>1, Invariance, PTL

\* A producer that keeps to its welcome passes every size check.
THEOREM WelcomesHonoured == Spec => []WelcomeIsHonoured
<1>1. IInv => WelcomeIsHonoured
  <2> SUFFICES ASSUME IInv, NEW c \in Conns, welcomed[c].token \in DOMAIN authorized,
                      NEW size \in 1 .. welcomed[c].size
               PROVE  Passes(welcomed[c].token, size)
    BY DEF WelcomeIsHonoured
  <2>1. welcomed[c] \in [token : Nat, size : Size]
    BY DEF IInv, TypeOK, NoWelcome, NoToken
  <2>2. welcomed[c].size <= MaxPacket /\ welcomed[c].size \in Nat
    BY <2>1 DEF Size
  <2> QED
    BY <2>2 DEF Passes, IInv, Bookkeeping, Granted
<1> QED
  BY <1>1, Invariance, PTL

\* A producer that knows a token in force has its control connection up: a
\* connection that stop() cut off gets no welcome any more.
WelcomesAreLive ==
    \A c \in Conns : welcomed[c].token \in DOMAIN authorized => c \in active

LEMMA WelcomesStayLive ==
    ASSUME IInv, WelcomesAreLive, [Next]_vars
    PROVE  WelcomesAreLive'
<1>1. NoToken \notin DOMAIN authorized
  BY DEF IInv, TypeOK, NoToken
<1>2. ASSUME NEW c \in Conns,
             Arrive(c) \/ acceptControl(c) \/ handleSubmitFrame(c) \/ consumeUDPPacket(c)
      PROVE  WelcomesAreLive'
  BY <1>2 DEF WelcomesAreLive, Arrive, acceptControl, handleSubmitFrame, consumeUDPPacket,
              connVars, authVars
<1>3. ASSUME NEW c \in Conns, ControlEnds(c)
      PROVE  WelcomesAreLive'
  <2>1. welcomed' = welcomed
    BY <1>3 DEF ControlEnds
  <2>2. CASE UNCHANGED <<active, authorized>>
    BY <2>1, <2>2 DEF WelcomesAreLive
  <2>3. CASE cleanupControlConnection(c)
    <3>1. /\ active' = active \ {c}
          /\ DOMAIN authorized' = DOMAIN authorized \ {context[c].token}
      BY <2>3, WithoutFacts DEF cleanupControlConnection
    <3>2. welcomed[c].token \notin DOMAIN authorized'
      BY <1>1, <3>1 DEF IInv, Bookkeeping, TokensDiffer
    <3> QED BY <2>1, <3>1, <3>2 DEF WelcomesAreLive
  <2> QED BY <1>3, <2>2, <2>3 DEF ControlEnds
<1>4. ASSUME NEW c \in Conns, handleHello(c)
      PROVE  WelcomesAreLive'
  <2>1. active' = active
    BY <1>4 DEF handleHello, connVars
  <2>2. CASE UNCHANGED <<issued, authorized, welcomed>>
    BY <2>1, <2>2 DEF WelcomesAreLive
  <2>3. ASSUME NEW source \in Sources, NEW requested \in Requests \cup {MaxPacket},
               HelloUDP(c, source, requested)
        PROVE  WelcomesAreLive'
    <3>1. DOMAIN authorized' = DOMAIN authorized \cup {issued + 1}
      BY <2>3 DEF HelloUDP, makeUDPSessionToken
    <3>2. \A d \in Conns : welcomed[d].token # issued + 1
      BY DEF IInv, TypeOK, Bookkeeping, TokensDiffer, NoToken
    <3>3. \/ welcomed' = welcomed
          \/ c \in active /\ \E w : welcomed' = [welcomed EXCEPT ![c] = w]
      BY <2>3 DEF HelloUDP
    <3>4. \A d \in Conns \ {c} : welcomed'[d] = welcomed[d]
      BY <3>3 DEF IInv, TypeOK
    <3>5. c \in active \/ welcomed'[c] = welcomed[c]
      BY <3>3
    <3> QED BY <2>1, <3>1, <3>2, <3>4, <3>5 DEF WelcomesAreLive
  <2> QED BY <1>4, <2>2, <2>3 DEF handleHello, HelloInline
<1>5. CASE Stop \/ Tick \/ PollReads \/ PollDecides
  BY <1>5 DEF WelcomesAreLive, Stop, Tick, PollReads, PollDecides, connVars, authVars
<1>6. CASE StopBlock \/ Release
  BY <1>6 DEF WelcomesAreLive, StopBlock, Release
<1>7. CASE UNCHANGED vars
  BY <1>7 DEF WelcomesAreLive, vars, connVars, authVars
<1> QED
  BY <1>2, <1>3, <1>4, <1>5, <1>6, <1>7 DEF Next

\* A frame gets into the store only while its producer's control connection is
\* up, or its data was on the queue when stop() ran.
THEOREM LiveProducersSubmit == Spec => OnlyLiveProducersSubmit
<1>1. Init => WelcomesAreLive
  BY DEF Init, WelcomesAreLive
<1>2. IInv /\ WelcomesAreLive /\ [Next]_vars =>
         (latest' # latest /\ latest'.age = 0 => latest'.from \in active \cup late)
  <2> SUFFICES ASSUME IInv, WelcomesAreLive, Next, latest' # latest, latest'.age = 0
               PROVE  latest'.from \in active \cup late
    BY DEF vars
  <2>1. ASSUME NEW c \in Conns, handleSubmitFrame(c)
        PROVE  latest'.from \in active \cup late
    BY <2>1 DEF handleSubmitFrame, Handling, Update
  <2>2. ASSUME NEW c \in Conns, consumeUDPPacket(c)
        PROVE  latest'.from \in active \cup late
    BY <2>2 DEF consumeUDPPacket, Passes, Update, WelcomesAreLive
  <2>3. ~Tick
    BY DEF Tick, Older, IInv, TypeOK, Frame
  <2>4. ASSUME NEW c \in Conns
        PROVE  ~(Arrive(c) \/ acceptControl(c) \/ ControlEnds(c) \/ handleHello(c))
    BY DEF Arrive, acceptControl, ControlEnds, handleHello
  <2>5. ~(Stop \/ StopBlock \/ Release \/ PollReads \/ PollDecides)
    BY DEF Stop, StopBlock, Release, PollReads, PollDecides
  <2> QED
    BY <2>1, <2>2, <2>3, <2>4, <2>5 DEF Next
<1>3. IInv /\ WelcomesAreLive /\ [Next]_vars => WelcomesAreLive'
  BY WelcomesStayLive
<1> QED
  BY <1>1, <1>2, <1>3, Invariance, PTL DEF Spec, OnlyLiveProducersSubmit
=============================================================================
