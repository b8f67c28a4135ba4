----------------------------- MODULE JPEGInput -----------------------------
(***************************************************************************)
(* The JPEG input of RuntimeService and the one of BridgeSimulator: frames *)
(* that producers send over TCP, each behind a header with its length.     *)
(*                                                                         *)
(* Everything runs on one serial queue.  A receive callback is one run of  *)
(* that queue; its loop over the buffer is a step for each round, during   *)
(* which `busy` keeps everything else off the queue.  A byte is known by   *)
(* its place in the stream of its producer.  Whether ImageIO takes a frame *)
(* for a JPEG, the status counters and what becomes of the frame are left  *)
(* out.                                                                    *)
(***************************************************************************)
EXTENDS Naturals, Sequences, SequencesExt, Functions

CONSTANTS
    Conns,          \* NWConnections of producers
    NoConn,
    Streams,        \* what each producer may send: the lengths of its frames
    HeaderLength,   \* 4
    jpegMaxBytes

ASSUME InputAssumption ==
    /\ NoConn \notin Conns /\ Streams \in [Conns -> SUBSET Seq(Nat)]
    /\ HeaderLength \in Nat \ {0} /\ jpegMaxBytes \in Nat \ {0}

VARIABLES
    service,            \* "runtime" or "simulator"
    phase,              \* "new", "running", "stopping" (block queued), "stopped"
    inputConnections,
    inputBuffers,
    busy,               \* the connection whose data is being consumed, or NoConn
    buffer,             \* the loop's own copy
    stream,             \* what the producer of each connection sends
    link,               \* the state of each connection
    passed,             \* bytes of the stream that the framework has handed over
    receiving,          \* connections with an unanswered receive
    answer,             \* the receive callback on its way, per connection
    failing,            \* connections whose .failed callback is on its way
    handled,            \* history: the frames taken before a length was refused
    refused             \* history: connections on which a length was refused

own     == <<inputConnections, inputBuffers, busy, buffer, handled, refused>>
network == <<stream, link, passed, receiving, answer, failing>>
vars    == <<service, phase, own, network>>

NoAnswer == [bytes |-> 0, then |-> "nothing"]

Init ==
    /\ service \in {"runtime", "simulator"} /\ phase = "new"
    /\ inputConnections = {} /\ inputBuffers = [c \in {} |-> <<>>]
    /\ busy = NoConn /\ buffer = <<>>
    /\ stream \in [Conns -> UNION Range(Streams)]
    /\ \A c \in Conns : stream[c] \in Streams[c]
    /\ link = [c \in Conns |-> "none"] /\ passed = [c \in Conns |-> 0]
    /\ receiving = {} /\ answer = [c \in Conns |-> NoAnswer] /\ failing = {}
    /\ handled = [c \in Conns |-> <<>>] /\ refused = {}
-----------------------------------------------------------------------------
\* Streams.

\* The bytes of a frame: its header, then its payload.
Frame(frames, i) ==
    [k \in 1 .. HeaderLength + frames[i] |-> [frame |-> i, at |-> k]]

Bytes(frames) == FlattenSeq([i \in DOMAIN frames |-> Frame(frames, i)])

Payload(frame) == SubSeq(frame, HeaderLength + 1, Len(frame))

\* The length that a header's worth of bytes at the head of the buffer stands for.
\* Away from a header they may be anything.
Lengths(c) ==
    CASE Len(buffer) < HeaderLength -> {}
      [] Len(buffer) >= HeaderLength /\ buffer[1].at = 1 -> {stream[c][buffer[1].frame]}
      [] OTHER -> 0 .. jpegMaxBytes + 1
-----------------------------------------------------------------------------
\* Starting, stopping, connections.

Restricted(f, S) == [c \in S |-> f[c]]

Start ==
    /\ phase = "new" /\ phase' = "running"
    /\ UNCHANGED <<service, own, network>>

acceptInput(c) ==
    /\ busy = NoConn /\ link[c] = "offered"
    /\ inputConnections' = inputConnections \cup {c}
    /\ inputBuffers' = [d \in DOMAIN inputBuffers \cup {c} |->
                            IF d = c THEN <<>> ELSE inputBuffers[d]]
    /\ link' = [link EXCEPT ![c] = "open"]
    /\ receiving' = receiving \cup {c}
    /\ UNCHANGED <<service, phase, busy, buffer, handled, refused, stream, passed,
                   answer, failing>>

\* Faulty variant: it returns early when the connection is not registered.
CleanupRegistered(c, buffers) ==
    IF c \notin inputConnections
    THEN inputBuffers' = buffers /\ UNCHANGED <<inputConnections, failing, link>>
    ELSE /\ inputBuffers' = Restricted(buffers, DOMAIN buffers \ {c})
         /\ inputConnections' = inputConnections \ {c}
         /\ failing' = failing \ {c} /\ link' = [link EXCEPT ![c] = "cancelled"]

\* The buffer goes in any case; the connection, if it is still registered, is
\* cancelled without its state handler.
cleanupInputConnection(c, buffers) ==
    /\ inputBuffers' = Restricted(buffers, DOMAIN buffers \ {c})
    /\ inputConnections' = inputConnections \ {c}
    /\ IF c \in inputConnections
       THEN failing' = failing \ {c} /\ link' = [link EXCEPT ![c] = "cancelled"]
       ELSE UNCHANGED <<failing, link>>

\* .failed; .cancelled comes when there is nothing left to do.
Failed(c) ==
    /\ busy = NoConn /\ c \in failing
    /\ cleanupInputConnection(c, inputBuffers)
    /\ UNCHANGED <<service, phase, busy, buffer, handled, refused, stream, passed,
                   receiving, answer>>

QueueStop ==
    /\ phase = "running" /\ phase' = "stopping"
    /\ UNCHANGED <<service, own, network>>

\* Listener and connections are cancelled and forgotten.
CancelInput ==
    /\ link' = [c \in Conns |-> IF c \in inputConnections THEN "cancelled" ELSE link[c]]
    /\ inputConnections' = {} /\ inputBuffers' = [c \in {} |-> <<>>]

\* The runtime takes the state handlers away, the simulator leaves them.
stopNetworkComponents == CancelInput /\ failing' = failing \ inputConnections
stopInputListener     == CancelInput /\ UNCHANGED failing

\* Other callbacks on their way still run.
StopBlock ==
    /\ phase = "stopping" /\ busy = NoConn /\ phase' = "stopped"
    /\ \/ service = "runtime" /\ stopNetworkComponents
       \/ service = "simulator" /\ stopInputListener
    /\ UNCHANGED <<service, busy, buffer, handled, refused, stream, passed, receiving,
                   answer>>
-----------------------------------------------------------------------------
\* Received data.

\* What follows the data: the end of the connection, or the next receive.
AfterData(c, buffers) ==
    /\ answer' = [answer EXCEPT ![c] = NoAnswer]
    /\ IF answer[c].then = "more"
       THEN /\ receiving' = receiving \cup {c} /\ inputBuffers' = buffers
            /\ UNCHANGED <<inputConnections, failing, link>>
       ELSE cleanupInputConnection(c, buffers) /\ UNCHANGED receiving

\* Faulty variant: the simulator begins a new buffer too.
BeginsAlways(c) == answer[c].bytes > 0

\* Data of a connection without a buffer: the runtime begins a new one, the
\* simulator returns.
Begins(c) == answer[c].bytes > 0 /\ (service = "simulator" => c \in DOMAIN inputBuffers)

\* consumeInputData begins: the buffer with the new bytes behind it.
receiveInput(c) ==
    /\ busy = NoConn /\ answer[c] # NoAnswer /\ Begins(c)
    /\ busy' = c
    /\ buffer' = (IF c \in DOMAIN inputBuffers THEN inputBuffers[c] ELSE <<>>)
                     \o SubSeq(Bytes(stream[c]), passed[c] - answer[c].bytes + 1, passed[c])
    /\ UNCHANGED <<service, phase, inputConnections, inputBuffers, handled, refused, network>>

\* There is nothing to consume.
ReceiveEmpty(c) ==
    /\ busy = NoConn /\ answer[c] # NoAnswer /\ ~Begins(c)
    /\ AfterData(c, inputBuffers)
    /\ UNCHANGED <<service, phase, busy, buffer, handled, refused, stream, passed>>

\* Faulty variant: a length is looked at when the whole frame is there.
RefusesWhole(length) == (length = 0 \/ length > jpegMaxBytes)
                            /\ Len(buffer) >= HeaderLength + length

Refuses(length) == length = 0 \/ length > jpegMaxBytes

\* A round of the loop: a length that cannot be empties the buffer, a whole frame
\* is taken from it.
ConsumeFrame(c) ==
    /\ busy = c
    /\ \E length \in Lengths(c) :
          \/ /\ Refuses(length)
             /\ buffer' = <<>> /\ refused' = refused \cup {c}
             /\ UNCHANGED handled
          \/ LET end == HeaderLength + length
             IN  /\ ~Refuses(length) /\ Len(buffer) >= end
                 /\ handled' = IF c \in refused THEN handled
                                ELSE [handled EXCEPT ![c] =
                                        Append(@, Payload(SubSeq(buffer, 1, end)))]
                 /\ buffer' = SubSeq(buffer, end + 1, Len(buffer))
                 /\ UNCHANGED refused
    /\ UNCHANGED <<service, phase, inputConnections, inputBuffers, busy, network>>

\* The loop ends before a header or a frame that is not whole yet.
ConsumeEnds(c) ==
    /\ busy = c
    /\ \/ Len(buffer) < HeaderLength
       \/ \E length \in Lengths(c) :
             ~Refuses(length) /\ Len(buffer) < HeaderLength + length
    /\ busy' = NoConn /\ buffer' = <<>>
    /\ AfterData(c, [d \in DOMAIN inputBuffers \cup {c} |->
                        IF d = c THEN buffer ELSE inputBuffers[d]])
    /\ UNCHANGED <<service, phase, handled, refused, stream, passed>>
-----------------------------------------------------------------------------
\* Producers and the framework.

\* A connection reaches a listener that is not cancelled.
Offer(c) ==
    /\ phase \in {"running", "stopping"} /\ link[c] = "none"
    /\ link' = [link EXCEPT ![c] = "offered"]
    /\ UNCHANGED <<service, phase, own, stream, passed, receiving, answer, failing>>

\* The producer is done or gives up in the middle of its stream, or the
\* connection breaks.
PeerEnds(c) ==
    /\ link[c] = "open"
    /\ \/ link' = [link EXCEPT ![c] = "ended"] /\ UNCHANGED failing
       \/ link' = [link EXCEPT ![c] = "failed"] /\ failing' = failing \cup {c}
    /\ UNCHANGED <<service, phase, own, stream, passed, receiving, answer>>

\* A receive is answered: with some bytes, wherever the network cut the stream,
\* with the end of the stream, or with an error.
Delivers(c) ==
    /\ c \in receiving /\ receiving' = receiving \ {c}
    /\ \E bytes \in 0 .. Len(Bytes(stream[c])) - passed[c],
          then \in {"more", "complete", "error"} :
          /\ then = "more"     => link[c] \in {"open", "ended"} /\ bytes > 0
          /\ then = "complete" => link[c] = "ended"
          /\ then = "error"    => link[c] \in {"failed", "cancelled"} /\ bytes = 0
          /\ answer' = [answer EXCEPT ![c] = [bytes |-> bytes, then |-> then]]
          /\ passed' = [passed EXCEPT ![c] = @ + bytes]
    /\ UNCHANGED <<service, phase, own, stream, link, failing>>
-----------------------------------------------------------------------------
Callback(c) == acceptInput(c) \/ Failed(c) \/ receiveInput(c) \/ ReceiveEmpty(c)
                   \/ ConsumeFrame(c) \/ ConsumeEnds(c)

Next ==
    \/ Start \/ QueueStop \/ StopBlock
    \/ \E c \in Conns : Callback(c) \/ Offer(c) \/ PeerEnds(c) \/ Delivers(c)

Spec == Init /\ [][Next]_vars

\* The queue runs what is on it, and the framework answers the receives of a
\* connection that has ended.  Nothing makes a producer send or end.
Fairness ==
    \A c \in Conns :
        /\ SF_vars(Callback(c))
        /\ WF_vars(link[c] \in {"ended", "failed", "cancelled"} /\ Delivers(c))

FairSpec == Spec /\ Fairness
-----------------------------------------------------------------------------
\* Properties.

\* The bytes of the first n frames of a stream.
BytesOf(frames, n) == Len(Bytes(SubSeq(frames, 1, n)))

\* However the stream is cut into receives, the frames taken from it are those
\* its producer sent, whole, in their order, none twice and none left out, and no
\* whole frame waits for more data.  A refused length ends this, and so does, for
\* the runtime alone, the removal of the connection.
FramesAsSent ==
    \A c \in Conns \ refused :
        c \in inputConnections \/ service = "simulator" =>
            LET n == Len(handled[c])
            IN  /\ n <= Len(stream[c])
                /\ \A i \in 1 .. n : handled[c][i] = Payload(Frame(stream[c], i))
                /\ c \in inputConnections /\ busy # c /\ n < Len(stream[c]) =>
                       passed[c] - answer[c].bytes < BytesOf(stream[c], n + 1)

\* Whatever a producer sends, less than the largest frame is kept of it.
BufferBounded ==
    \A c \in DOMAIN inputBuffers : Len(inputBuffers[c]) < HeaderLength + jpegMaxBytes

\* In the end only open connections are kept, and nothing of any other: data that
\* is handled after its connection was removed leaves no buffer for good.
OnlyOpenOnesAreKept ==
    <>[](\A c \in inputConnections \cup DOMAIN inputBuffers : link[c] = "open")
=============================================================================
