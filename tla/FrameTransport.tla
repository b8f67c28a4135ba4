--------------------------- MODULE FrameTransport ---------------------------
(***************************************************************************)
(* The UDP frame path: ClientSession.emitFrame and FrameChunkPacketizer on *)
(* the sending side, FrameReassembler.ingest on the receiving side.        *)
(*                                                                         *)
(* The network is UDP: any datagram of any frame emitted so far may arrive *)
(* at any time, any number of times, or never, so it needs no variable of  *)
(* its own.  One reassembler outlives the sender's sessions (MacVRClient   *)
(* and ViewerTransport keep theirs across reconnects), while every new     *)
(* ClientSession numbers its frames from 1 again.                          *)
(***************************************************************************)
EXTENDS Integers, Sequences, FiniteSets, FiniteSetsExt, SequencesExt, Functions

CONSTANTS
    Codecs,          \* FrameCodec: mockJSON and jpeg
    Payloads,        \* the byte strings a frame source may produce
    MaxPayloadSize,  \* maxPacketSize - FrameChunkHeader.byteCount
    MaxChunks,       \* UInt16.max: the largest chunk count a header can carry
    MaxPending,      \* maxPendingFrames (120 as shipped, never below 8)
    MaxAge,          \* maxFrameAgeNs, in ticks of the receiver's clock
    MaxStamp,        \* bound of the exploration: frames the senders emit
    MaxNow           \* bound of the exploration: ticks of the receiver's clock

ASSUME TransportAssumption ==
    /\ MaxPayloadSize \in Nat \ {0}
    /\ MaxChunks \in Nat \ {0}
    /\ MaxPending \in Nat \ {0}
    /\ MaxAge \in Nat
    /\ \A p \in Payloads : p \in Seq(Nat)

VARIABLES
    frameIndex,   \* ClientSession.frameIndex of the current session
    stamp,        \* the sending host's clock, read once per frame (sentTimeNs)
    sent,         \* history: the frames packetized and sent so far
    now,          \* the receiver's clock (nowNs)
    pending,      \* FrameReassembler.pending: frame index -> PendingFrame
    delivered,    \* history: the frames ingest returned
    ingested,     \* history: the datagrams ingest was given
    dropped       \* history: sentTimeNs of frames that lost a chunk in ingest

senderVars   == <<frameIndex, stamp, sent>>
receiverVars == <<now, pending, delivered, ingested, dropped>>
vars         == <<frameIndex, stamp, sent, now, pending, delivered, ingested, dropped>>
-----------------------------------------------------------------------------
\* The sender.

\* Faulty variant: the division is not rounded up, a short last chunk is lost.
ChunkCountFloor(payload) == Max({1, Len(payload) \div MaxPayloadSize})

ChunkCount(payload) ==
    Max({1, (Len(payload) + MaxPayloadSize - 1) \div MaxPayloadSize})

\* The bytes packetize puts in chunk number i, i from 0.
Slice(payload, i) ==
    SubSeq(payload, i * MaxPayloadSize + 1,
                    Min({(i + 1) * MaxPayloadSize, Len(payload)}))

Slices(payload) == [i \in 0 .. ChunkCount(payload) - 1 |-> Slice(payload, i)]

Datagram(f, i) ==
    [codec |-> f.codec, frameIndex |-> f.frameIndex, sentTimeNs |-> f.sentTimeNs,
     chunkIndex |-> i, chunkCount |-> ChunkCount(f.payload),
     payload |-> Slices(f.payload)[i]]

Datagrams(f) == {Datagram(f, i) : i \in 0 .. ChunkCount(f.payload) - 1}

Init ==
    /\ frameIndex = 0
    /\ stamp = 0
    /\ sent = {}
    /\ now = 0
    /\ pending = <<>>
    /\ delivered = {}
    /\ ingested = {}
    /\ dropped = {}

\* emitFrame: the index is consumed before the frame source is asked; with no
\* frame to send, or one too large for the chunk counter, nothing is sent.
EmitFrame ==
    /\ stamp < MaxStamp
    /\ frameIndex' = frameIndex + 1
    /\ stamp' = stamp + 1
    /\ \/ UNCHANGED sent
       \/ \E codec \in Codecs, payload \in Payloads :
             /\ ChunkCount(payload) <= MaxChunks
             /\ sent' = sent \cup {[codec |-> codec, frameIndex |-> frameIndex + 1,
                                    sentTimeNs |-> stamp, payload |-> payload]}
    /\ UNCHANGED receiverVars

\* A reconnected receiver is served by a new ClientSession.
NewSession ==
    /\ frameIndex > 0
    /\ frameIndex' = 0
    /\ UNCHANGED <<stamp, sent, receiverVars>>
-----------------------------------------------------------------------------
\* The receiver.

Metadata(d) == <<d.codec, d.sentTimeNs, d.chunkCount>>

NewEntry(d) ==
    [codec |-> d.codec, sentTimeNs |-> d.sentTimeNs, chunkCount |-> d.chunkCount,
     chunks |-> <<>>, receivedChunks |-> 0, createdTimeNs |-> now]

\* Faulty variant: the frame a chunk belongs to is never found again.
EntryForgotten(d) == NewEntry(d)

EntryFor(d) ==
    IF d.frameIndex \in DOMAIN pending THEN pending[d.frameIndex] ELSE NewEntry(d)

\* Faulty variant: a duplicated datagram counts as progress.
StoreCountsDuplicates(entry, d) ==
    [entry EXCEPT !.chunks = [i \in DOMAIN @ \cup {d.chunkIndex} |->
                                 IF i = d.chunkIndex THEN d.payload ELSE @[i]],
                  !.receivedChunks = @ + 1]

\* A slot that is filled keeps the chunk it has, and is not counted again.
Store(entry, d) ==
    IF d.chunkIndex \in DOMAIN entry.chunks
    THEN entry
    ELSE [entry EXCEPT !.chunks = [i \in DOMAIN @ \cup {d.chunkIndex} |->
                                      IF i = d.chunkIndex THEN d.payload ELSE @[i]],
                       !.receivedChunks = @ + 1]

Complete(entry) == entry.receivedChunks = entry.chunkCount

\* The chunks in the order of their slots, whatever order they arrived in.
Join(chunks) == FlattenSeq([i \in 1 .. Cardinality(DOMAIN chunks) |-> chunks[i - 1]])

\* The header fields of a returned frame are those of its last datagram.
Frame(d, payload) ==
    [codec |-> d.codec, frameIndex |-> d.frameIndex,
     sentTimeNs |-> d.sentTimeNs, payload |-> payload]

With(p, k, entry) == [j \in DOMAIN p \cup {k} |-> IF j = k THEN entry ELSE p[j]]

Fresh(p) == {k \in DOMAIN p : now - p[k].createdTimeNs <= MaxAge}

PurgeExpired(p) == Restrict(p, Fresh(p))

\* Faulty variants: the limit is off by one, or the sort is the wrong way round.
SurplusOffByOne(p) ==
    {drop \in SUBSET DOMAIN p :
        /\ Cardinality(drop) = IF Cardinality(DOMAIN p) > MaxPending + 1
                               THEN Cardinality(DOMAIN p) - MaxPending ELSE 0
        /\ \A k \in drop, j \in DOMAIN p \ drop :
              p[k].createdTimeNs <= p[j].createdTimeNs}
SurplusNewestFirst(p) ==
    {drop \in SUBSET DOMAIN p :
        /\ Cardinality(drop) = IF Cardinality(DOMAIN p) > MaxPending
                               THEN Cardinality(DOMAIN p) - MaxPending ELSE 0
        /\ \A k \in drop, j \in DOMAIN p \ drop :
              p[k].createdTimeNs >= p[j].createdTimeNs}

\* The frames enforcePendingLimit may drop: as many as are too many, the oldest
\* first; the sort does not say which of two equally old ones goes.
Surplus(p) ==
    {drop \in SUBSET DOMAIN p :
        /\ Cardinality(drop) = IF Cardinality(DOMAIN p) > MaxPending
                               THEN Cardinality(DOMAIN p) - MaxPending ELSE 0
        /\ \A k \in drop, j \in DOMAIN p \ drop :
              p[k].createdTimeNs <= p[j].createdTimeNs}

IngestSingle(d) ==
    /\ d.chunkCount = 1
    /\ delivered' = delivered \cup {Frame(d, d.payload)}
    /\ UNCHANGED <<pending, dropped>>

\* mismatchedChunkMetadata: the chunk is thrown away, the older entry stays.
IngestMismatch(d) ==
    /\ d.chunkCount # 1
    /\ Metadata(EntryFor(d)) # Metadata(d)
    /\ dropped' = dropped \cup {d.sentTimeNs}
    /\ UNCHANGED <<pending, delivered>>

IngestLast(d) ==
    /\ d.chunkCount # 1
    /\ Metadata(EntryFor(d)) = Metadata(d)
    /\ LET entry == Store(EntryFor(d), d)
       IN  /\ Complete(entry)
           /\ delivered' = delivered \cup {Frame(d, Join(entry.chunks))}
    /\ pending' = Restrict(pending, DOMAIN pending \ {d.frameIndex})
    /\ UNCHANGED dropped

IngestPartial(d) ==
    /\ d.chunkCount # 1
    /\ Metadata(EntryFor(d)) = Metadata(d)
    /\ LET entry  == Store(EntryFor(d), d)
           stored == With(pending, d.frameIndex, entry)
           purged == PurgeExpired(stored)
       IN  /\ ~Complete(entry)
           /\ \E drop \in Surplus(purged) :
                 pending' = Restrict(purged, DOMAIN purged \ drop)
           /\ dropped' = dropped \cup
                 {stored[k].sentTimeNs : k \in DOMAIN stored \ DOMAIN pending'}
    /\ UNCHANGED delivered

Ingest ==
    /\ \E f \in sent, i \in 0 .. MaxChunks :
          /\ i < ChunkCount(f.payload)
          /\ LET d == Datagram(f, i)
             IN  /\ ingested' = ingested \cup {d}
                 /\ \/ IngestSingle(d)
                    \/ IngestMismatch(d)
                    \/ IngestLast(d)
                    \/ IngestPartial(d)
    /\ UNCHANGED <<now, senderVars>>

Tick ==
    /\ now < MaxNow
    /\ now' = now + 1
    /\ UNCHANGED <<pending, delivered, ingested, dropped, senderVars>>

Next == EmitFrame \/ NewSession \/ Ingest \/ Tick

Spec == Init /\ [][Next]_vars
-----------------------------------------------------------------------------
\* Properties.

SentFrame  == [codec : Codecs, frameIndex : Nat, sentTimeNs : Nat, payload : Payloads]
SentStamps == {f.sentTimeNs : f \in sent}
Chunks     == UNION {{Slice(p, i) : i \in 0 .. ChunkCount(p) - 1} : p \in Payloads}
ChunkMaps  == UNION {[slots -> Chunks] : slots \in SUBSET (0 .. MaxChunks - 1)}

PendingFrame ==
    [codec : Codecs, sentTimeNs : SentStamps, chunkCount : 2 .. MaxChunks,
     chunks : ChunkMaps, receivedChunks : 1 .. MaxChunks - 1, createdTimeNs : 0 .. now]

\* Every variable has its type; in particular an entry of `pending` has at least
\* one chunk and lacks at least one (FrameReassembler.PendingFrame).
TypeOK ==
    /\ frameIndex \in Nat /\ stamp \in Nat /\ now \in Nat
    /\ sent \subseteq SentFrame
    /\ DOMAIN pending \subseteq Nat
    /\ IsFiniteSet(DOMAIN pending)
    /\ \A k \in DOMAIN pending :
          /\ pending[k] \in PendingFrame
          /\ pending[k].receivedChunks < pending[k].chunkCount
    /\ dropped \subseteq SentStamps

Holds(entry, k, f) ==
    /\ f.frameIndex = k
    /\ Metadata(entry) = <<f.codec, f.sentTimeNs, ChunkCount(f.payload)>>
    /\ DOMAIN entry.chunks \subseteq DOMAIN Slices(f.payload)
    /\ entry.chunks = Restrict(Slices(f.payload), DOMAIN entry.chunks)
    /\ entry.receivedChunks = Cardinality(DOMAIN entry.chunks)

\* A pending entry holds chunks of one frame only: the one sent under its frame
\* index and time, each chunk in its own slot, each counted once.  Frame indexes
\* start over with every session, so this rests on the metadata comparison.
OneFramePerEntry ==
    \A k \in DOMAIN pending : \E f \in sent : Holds(pending[k], k, f)

\* Every returned frame is all the chunks of one sent frame joined in order,
\* under that frame's header: no chunk of a second frame, no hole, no chunk
\* counted twice because its datagram was duplicated.
DeliveredWhole ==
    \A d \in delivered : \E f \in sent :
        /\ d.codec = f.codec /\ d.frameIndex = f.frameIndex
        /\ d.sentTimeNs = f.sentTimeNs
        /\ d.payload = Join(Slices(f.payload))

\* However the datagrams of however many frames and sessions are mixed, the
\* reassembler never remembers more than maxPendingFrames frames after a call.
PendingBounded == Cardinality(DOMAIN pending) <= MaxPending

\* A frame all of whose datagrams arrived, in any order and with any duplicates,
\* was returned, unless a chunk of it was refused or its entry was dropped for
\* age or space: nothing is lost silently.
NothingForgotten ==
    \A f \in sent :
        Datagrams(f) \subseteq ingested /\ f.sentTimeNs \notin dropped
            => \E d \in delivered : d.sentTimeNs = f.sentTimeNs

CreatedTimeNs(k) == IF k \in DOMAIN pending THEN pending[k].createdTimeNs ELSE now

\* Whichever frame is given up, none that stays is older: neither the age nor the
\* limit sacrifices a frame for one that is less likely to complete, not even the
\* one whose first chunk just came in.
OldestGoFirst ==
    [][\A f \in sent, j \in DOMAIN pending' :
          f.sentTimeNs \in dropped' \ dropped /\ f.frameIndex \notin DOMAIN pending'
              => CreatedTimeNs(f.frameIndex) <= pending'[j].createdTimeNs]_vars

\* The frame path as its user sees it (FrameChannel): what comes out went in.
Channel == INSTANCE FrameChannel WITH Frames <- SentFrame
ChannelSpec == Channel!Spec
=============================================================================
