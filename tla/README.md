# TLA+ models of macVR

macVR streams rendered frames from a macOS host to a client on the network, takes
head poses back, lets external producers submit the frames, and offers an OpenXR
runtime library that answers pose queries from what the host last received. This
directory holds TLA+ models of its core, the TLC runs that check them, and proofs
for every value of the constants. Each module names the Swift or C code it
translates in its comments; `PROJECT.json` gives the line ranges.

Paths below are relative to `src/Sources/`.

## The system

| Component | State | Operations | Talks to |
|---|---|---|---|
| Frame transport (`MacVRProtocol/FrameTransport.swift`, `ClientSession.emitFrame`) | frame counter; table of incomplete frames | packetize, ingest (with purge and limit) | UDP, one way |
| Host service (`HostService`, `SessionRegistry`, `ClientSession`) | connections, handshake flags, registry, sessions and their timers | accept, hello, pose, ping, cleanup, stop | TCP control channel; registry and session queues; authorizer; tracking file |
| Bridge ingest (`BridgeIngestService`, `BridgeFrameStore`, `BridgeJPEGFrameSource`) | control connections, one UDP token per producer, its reassembler, the latest frame | hello, submit-frame, ping, UDP packet, cleanup, stop; makeFrame | TCP + UDP from producers; the host's sessions read the store |
| Trusted clients (`TrustedClientStore`, `RuntimeTrustPolicy`) | records in memory and in a JSON file; denied counter; last client | authorize, trust, untrust, markSeen | called on the host's listener queue and by the owner |
| Runtime service (`RuntimeService`) | the services it owns, running flag, counters, JPEG input connections | start, stop, JPEG input, trust commands, snapshot | owns host, bridge, discovery and JPEG listener |
| OpenXR shim (`MacVROpenXRRuntime/runtime.c`) | sessions and their states, event ring, frame timing, path table | the xr* entry points | an OpenXR application; the tracking file |
| Tracking hand-off (`TrackingStateStore`, `load_tracking_state`) | one binary file, replaced atomically | write on pose, read on locate | host process to the application's process |
| Client and viewer (`MacVRClient`, `ViewerTransport`) | control connection, reconnect attempt, timers, reassembler | connect, hello, ping, pose, reconnect with back-off, stop | host service |
| Bridge simulator (`BridgeSimulator`) | control and UDP connection, negotiated sizes, health timer | connect, hello, submit, reconnect, stop | bridge ingest; a JPEG input of its own |
| JPEG sender (`MacVRJPEGSenderApp/main.c`) | options, stop flag, frames sent, socket, frame in hand | parse the command line, connect, read the file, send, pace, retry | the JPEG input; the file system; signals |
| Capture sender (`MacVRCaptureSenderApp/main.swift`) | the same, with a captured display in place of the file | the same | the JPEG input |
| Discovery (`RuntimeDiscoveryService`, `ViewerDiscoveryClient`) | none between datagrams | answer a probe; collect answers | UDP broadcast |

Everything the host does runs on serial dispatch queues: one for the control
listener and all its connections, one for the session registry, one for each
session; the bridge, the runtime's JPEG input and discovery have one each. The
frame store, the trusted-client store and the policy are shared between queues
under locks. What is hard to test is therefore: blocks that wait on one queue
while another queue removes what they refer to; `stop()`, which only enqueues;
data that was already delivered when its connection is cancelled; UDP loss,
duplication and reordering across sessions that number frames from 1 again;
limits of tables and rings; a write to disk that fails after memory was changed;
two processes with clocks of their own. `PROJECT.json` lists each of these at
its line.

What makes the components correct, in a sentence each: a frame that comes out of
the transport is one that went in; a connection feeds at most one stream and the
stream ends with it; only a producer that holds a live token can change the
frame, and a vanished producer's frame stops being shown; a client is allowed
exactly when the list, as last changed, says so, and what was granted survives a
restart; a runtime that stopped holds nothing open; an application that has polled
everything knows its session's state, and is given no pose of its own clock that is
stale; a client that lost its connection tries again, quickly at first, until it is
connected or stopped, or the network framework keeps its attempt waiting, and an old
connection cannot disturb a new one.

## Modules

### FrameChannel, FrameTransport

`FrameChannel` is what the user of the frame path may rely on: `delivered` is a
subset of `sent`. `FrameTransport` is the code. `EmitFrame` is
`ClientSession.emitFrame` (the index is consumed even when the source has no
frame), `NewSession` a new `ClientSession`, which counts from 1 again while the
receiver keeps its reassembler. `Ingest` is `FrameReassembler.ingest` with its
four outcomes: a single-chunk frame, a chunk whose metadata does not match the
entry under its index, the last missing chunk, and an incomplete frame, the only
path that purges and enforces the limit. UDP needs no variable: a datagram of any
frame sent so far may be ingested at any time, again, or never. Payloads are
short byte sequences, so `packetize` and the join are modelled by what they do;
header encoding is a record, and parse errors, which leave the state alone, are
left out. Swift's sort is not stable, so ties among equally old entries are a
choice.

### HostSession

`HostService`, `SessionRegistry` and the control part of `ClientSession`.
The listener queue runs one callback at a time; `busy` is the connection whose
consume loop it is in, so hello and pose lines of one receive are handled without
another connection in between, while the registry queue (`regq`) and the queue of
every session go on beside it. A line that is refused without effect is one
action (`HelloRefused`); a denied client (`HelloDenied`) is removed, and the
remaining lines of its data are still handled, as in the code. `StopBlock` is the
block `stop()` enqueues; data, or a new-connection handler, that was already on
the queue behind it still runs. `Release` is the owner dropping the service: all
callbacks hold it weakly. `SessionFreed` is the end of a session nobody refers to.

### BridgeIngest

`BridgeIngestService`, `BridgeFrameStore` and the store's reader,
`BridgeJPEGFrameSource.makeFrame`. One serial queue again; a line is a step of its
own, since no two lines of one receive depend on each other. `handleHello` negotiates the packet size
and, for UDP, makes the token under which datagrams will be accepted;
`handleSubmitFrame` and `consumeUDPPacket` put a frame into the store, the latter
only if the token is in force and the sizes pass. A token's reassembler is the
subject of `FrameTransport`; here a completed frame is its sender's. `Stop`,
`StopBlock` and `Release` are as in `HostSession`. A session's poll is two steps, as
in the code: it copies the snapshot (`PollReads`) and then reads the clock
(`PollDecides`).

### TrustStore

`TrustedClientStore` and `RuntimeTrustPolicy` with their two owners: the Control Center, one process that starts and stops the runtime and
edits the list meanwhile, and the `macvr-runtime` command, which edits first, then
serves, then exits. The variable `setting` never changes and says which owner it is and
what may go wrong: reads, writes, commands in other processes. `authorize` is two critical sections, `Judge` and `Conclude`.
Every change is memory first, file next (`Apply`, `Persist`); a read that fails
yields an empty list, a write that fails throws. `Exit` is also a crash. `own` is
the store of the thread that has no running runtime; with `commandsBeside` it may
belong to another process.

### EventQueue, OpenXRRuntime

`EventQueue` is the promise made to an OpenXR application: its events come in the
order in which they were pushed, each once, and only the oldest are missing when it
polled too late. `OpenXRRuntime` is `runtime.c` as one application's calls drive it:
`xrCreateInstance` … `xrWaitFrame`, one action each. A call is one step, since the
library has no threads; its use from several threads at once is not modelled.
`entries`, `head` and `count` are the ring as in the code, with slots counted around
it. A session handle is an address, which `calloc` may give out again while events
that name it are still in the ring. `told` and `newest` are history: what the
application last polled for each handle, and what was pushed last.

`xrCreateReferenceSpace` and `xrDestroySpace` keep `spaces`. `paths` is the path table:
an id is a place in it, it only grows while the instance lives, and it is the one part
of the library whose answers must never change. A string is a sequence of letters, so
that `xrStringToPath`'s comparison, its copy into a buffer of fixed length (`Copied`)
and `xrPathToString`'s two-call protocol are modelled by what they do at the limit.
Refused calls and functions that report constants change nothing and are left out.

### TrackingHandoff

The way of a pose from a client's clock to an application: `sendSyntheticPose`
(`MacVRClient`), `handlePose` (`HostService` and `TrackingStateStore`), and the two
steps of `macvrLoadTrackingState` in the application's process: `ReadFile`, then the
clock, in `xrLocateSpace` or `xrLocateViews`. Each machine has a clock of its own,
counted from its start; `booted`, and `boot` and `taken` in a pose, are known to the
model only. `Reboot` starts a machine again, with its disk as it was; after
`Reconnect` what was sent over the old connection may still arrive. Of an orientation
only the exponent of its length is kept, since that is what `normalizedQuaternion`
decides by in 32-bit floats: a square of at most 2^-23 is refused, one of 2^128 is
infinite.

### NetworkLink, ViewerTransport

`NetworkLink` is the network framework and the host as a reconnecting client meets
them (external: it stands for code that is not in the repository). A connection has a
state, at most one outstanding receive, unacknowledged bytes, and a set of callbacks
on their way; those of one connection come in order as far as its states are
concerned, those of different connections in any order, and long after the connection
was given up. Connection objects are used again once nothing refers to them, so a few
of them stand for any number of reconnects.

`ViewerTransport` is the control channel of `ViewerApp.swift`, line for line that of
`MacVRClient`: `connectControl`, `handleControlState` (`Ready`, `Waiting`, `Failed`),
`receiveControl` (`Received`, `ReceiveEnded`), the completion of `sendControl`
(`SendFailed`), `handleControlDisconnect`, `scheduleReconnect`, `stop`. Callbacks that
find another connection in use are `Stale`, except failed sends, which leave that
question to `handleControlDisconnect`, as the code does. Pose and ping timer are
started and stopped together and are one variable. `greeted` is history.

### BridgeSimulator

The control channel of `MacVRBridgeSimApp`, again over `NetworkLink`. It differs in
two ways, and those are what the model is about: `tickControlHealth` gives a
connection up after too long a silence, and every welcome selects a transport, with
a UDP port and a token, that must not outlive its connection (`handleWelcome`,
`submitFrame`). `silence` is `lastControlReceiveNs` in ticks of the ping timer;
`quiet` is what it ought to be, the silence of the connection in use. What received
bytes say is decided when they are read.

### JPEGInput

The JPEG input of `RuntimeService` and that of `BridgeSimulator`, which differ in two
places only; the variable `service` never changes and says which one it is. One
serial queue: `acceptInput`, `Failed`, `StopBlock` and a receive callback are each a
run of it. `receiveInput` begins the loop of `consumeInputData`, `ConsumeFrame` is a
round of it and `ConsumeEnds` the return, with what `receiveInput` does afterwards: the
next receive, or the cleanup; `busy` keeps everything else off the queue in between.
When a connection has no buffer any more, the runtime begins a new one and the
simulator returns (`Begins`); when stopped, the runtime takes the state handlers away
first and the simulator does not. A byte is known by its place in its producer's
stream, so a length read anywhere but at a header may be any (`Lengths`). Whether
ImageIO takes the payload for a JPEG, the counters, and what becomes of a frame are
left out. The producers (`MacVRJPEGSender`, `MacVRCaptureSender`) are the peers: they
connect, send frames behind their lengths, and may end or break off anywhere.

### FrameProducer, JPEGSender

`FrameProducer` states what `JPEGInput` takes its peers to do: on each connection whole
frames behind their lengths, of which only the last may be cut. `JPEGSender` is
`macvr-jpeg-sender`, a program of one thread that ends at its own signal flag:
`Begin` is `parse_cli` with the start-up after it, `Loop` the head of `main`'s loop with
its early exits, `Connected` and `NotConnected` a step of `connect_socket` through the
host's addresses, `OpenFile` and `ReadFile` the two looks `load_file_bytes` takes at the
file, `Send` and `SendFails` a call of `send` in `send_all`, `Wake` the end of a sleep,
of pacing or of a retry. `stage` is the place in the program. Beside the thread, at
any moment: `Signal`, `FileChanges`, `ServiceChanges`, `PeerChanges`. The file is its
length, since the program looks at nothing else; a token of the command line is its
text and the number `strtol` finds in it. `parse_cli` is a fold over the tokens, and
`SendsAsAsked` judges it by a second definition that looks at a whole command line at
once (`Values`, `Asked`, `AsksForFrames`). `frames` and `written` are history. On POSIX a
send to a peer that was reset may end the process, which the model has as an outcome
(`killed`).

## Runs

| Run | Instance | What it shows |
|---|---|---|
| FramesAndPoses | *frames:* two frames emitted, in one session or in two (so that two frames share an index), two codecs, frames of one to three chunks, one pending slot, age limit 1 of two ticks; *poses:* a viewer on another machine and a client on the host's, machines up for different times, one restart, two poses, two connections each, an orientation that is just refused and one that is not | `DeliveredWhole`, `NothingForgotten`, `PendingBounded`, `OldestGoFirst`, and that the frame path refines `FrameChannel` (`ChannelSpec`); `EyesAgree`, `NoStalePose`, `FreshPoseUsed` |
| HostQueues | two connections, and between them two hellos and two poses; stop and release at any moment | `OneStreamPerConnection`, `EveryStreamIsOwned`, `LateOnlyAfterDenialOrStop`, `PosesInOrder`, `StreamEndsWithConnection` |
| BridgeProducers | two producers, any transport and name, sizes at and around the limit, frames by line and datagram, a polling session with its clock, stop at any moment | `TokensAreOwned`, `WelcomeIsHonoured`, `AttributedToItsSource`, `OnlyLiveProducersSubmit`, `GoesDark` |
| JPEGStreams | runtime or simulator; two producers, one with frames of 2 and 1, 1 and 3, or 0 and 1 bytes, the other with one frame of 1 byte; headers of two bytes, at most two bytes in a frame; any cut of the streams into receives; an end, a break or a stop at any moment | `FramesAsSent`, `BufferBounded`, `OnlyOpenOnesAreKept` |
| JPEGSender | eleven command lines, six of them wrong or asking for something else; a file of no, one or two bytes that changes at any moment, a limit of one or two; two addresses, of which the service is at the one tried last; two connections, two frames; POSIX and Windows; a signal at any moment | `SendsAsAsked`, `StopsWhenAsked`, `DeliversItsCount`, and that it refines `FrameProducer` (`ProducerSpec`) |
| SenderAfterReset | one frame asked for, a file that stays, a peer that resets | `DeliversThroughResets` is violated: on POSIX the send to that peer raises SIGPIPE, which ends the process before it reconnects (usage and log of `MacVRJPEGSenderApp/main.c`, lines 70 and 453) |
| TrustedClients | two identities, one of them loopback, two starts; the Control Center, with failing reads and writes and other processes that write the file, or the `macvr-runtime` command, with failing writes; a crash at any moment | `DecisionsFollowRequests`, `AnswersKeptAlone` |
| TrustBesideRuntime | nothing fails; a `macvr-runtime` command edits the file while a runtime is up | `AnswersKept` is violated: the runtime's next hello writes its older copy over the edit (README.md:28 and 137 of the repository) |
| OpenXRCalls | two handles used again and again, a space, a ring of two events, two frames; a table of two paths and strings around the longest length | `PathsAreStable`, `DrainedAppKnowsState`, `DisplayTimesAdvance`, and that the ring refines `EventQueue` (`RingIsQueue`) |
| TrackingTwoClocks | one pose of a client on another machine | `LivePoseUsed` is violated: the host judges the client's stamp by its own uptime, and a pose just taken counts as stale or as one of the future (CHANGELOG.md:82 of the repository) |
| ViewerChannel | two connection objects, back-off up to the second attempt, a host that goes down, refuses and comes back, stop at any moment | `NoSecondConnection`, `LinesOfOneConnection`, `PosesFollowHello`, `StopIsFinal`, `HealthyIsKept`, `FirstRetryIsQuick`, `ReconnectsOrWaits` |
| SimulatorChannel | two connection objects, one attempt, one tick of silence, a bridge that goes down and comes back, noticed by the framework or not | `FramesAsNegotiated`, `ReconnectsOrWaits` |

`FramesAndPoses` puts two modules into one instance (`MCFramesAndPoses`). Frames and poses
go opposite ways and share no variable, so a behaviour takes steps of one of them only;
interleaving them would multiply the states and show nothing more.

Why the bounds are enough. In the frame path an entry can only be confused with a
frame of the same index, so two frames of two sessions are the smallest case and
a third one under the same index meets the same comparison; two frames for one
slot are the smallest case in which the limit bites, and the age limit is
crossed at the second tick. In the host a connection interacts with another one
only through the registry (keyed by connection), `stop` and the pose file; two
hellos, over one connection or over both, are the least that makes a second session
possible, and two poses, of one client or of both, the least that can be swapped. The shipped limit
(120 pending frames, at least 8) is a parameter; the proofs below hold for any.

Two producers are what it takes to use one another's tokens, names or frames, and
packet sizes one below, at and above the limit are what the two clamps and the
envelope of 20 bytes tell apart. Identities in the trust list do not interact
except through the file as a whole, so a loopback and a remote one suffice; two
starts are needed for a stopped runtime to outlive the next one's start.

A ring of two events wraps and overflows at every second push; two handles are what
it takes for an old event to name a new session. Clocks that differ by two and a
limit of one tick make a foreign stamp look fresh, stale and of the future; one
restart is enough for a stamp to be met by a clock that begins anew. One connection
in use and one that was given up is the whole of what a late callback can confuse,
and given-up ones are used again; back-off beyond the second attempt only repeats
(the shipped cap is 16, and the proofs hold for any).

In the JPEG input a header of two bytes is cut in the middle as one of four is, and a
limit of two bytes tells apart lengths of zero, inside, at and above it. Two frames
are what it takes for one to be cut with the next, or to stand behind a refused one.
Connections meet in the queue and in `stop` only.

For the JPEG sender a connection that is lost and the one after it are all there is to
confuse; the last of the `MaxConnections` is not lost and, where no count was given, the
run ends at `MaxFrames`. Lengths at the limit of `--max-jpeg-bytes` and one above it take the
place of 16,000,000 and 1024 bytes, and `Modulus` that of 2^64: what matters of it is that
`-1` becomes the largest count. A header of two bytes is cut in the middle as one of four
is. The path table of the OpenXR run is explored in instances without extensions only
(`PathsIn`), since path and session calls share no state; its proof has no such bound.
Strings at the longest length, one over and one letter are what its buffer tells apart.

`AnswersKept` leaves out removals of loopback clients, which the default policy
trusts again at their next hello. `AnswersKeptAlone` is `AnswersKept` where nothing
writes beside the command (`Alone`); that it says nothing of the Control Center is no matter
of the bounds: a command that fails to write ends,
and its memory with it; the Control Center goes on with a memory that the file
does not have. There a removal whose write failed is answered the second time as not
found, without an error and without a write (`TrustedClientStore.swift:134`), and the
client is back after a restart.

`EveryStreamIsOwned` has the exception the code has: a hello handled after its
connection was removed opens a session that no cleanup will stop.
`LateOnlyAfterDenialOrStop` pins that down to its two causes: an earlier hello of
the same data was refused, or the data was already queued when the service was
stopped. Once the owner has released the service such a session is freed too
(`SessionFreed`). `StreamEndsWithConnection` leaves out one case: the late session of
a refused client, which nothing ends while the service is up. It takes two hellos in
one connection; the clients of this repository send one.

Fairness (`HostSession!Fairness`). A serial dispatch queue runs each of its
blocks eventually: weak fairness for a queue of its own (registry, each session),
strong fairness for a receive, or the block of `stop`, that waits on the listener's
queue, since the queue is busy from time to time; weak fairness for the end of the
loop that keeps it busy, which has only so many lines to handle. `Release` is fair
because both owners drop the service after stopping it. Nothing is assumed of clients: they may never connect, send or
hang up.

`ViewerTransport!Fairness` and `BridgeSimulator!Fairness`: the one serial queue runs
its callbacks, timers and delays expire, and the framework connects to a host that is there
when it tries, answers the outstanding receive and reports failed sends. For the viewer it is assumed
besides that a peer that vanished is noticed when pings stay unacknowledged
(`Notice`), which is TCP's retransmission timeout; the simulator has its health check
and is given no such help. Strong fairness is used once: a serving bridge's welcome is
read in the end, however many pieces it comes in. A connection in `.waiting` tries again
only when the network changes (`NetworkChanges`), and nothing is assumed to make that
happen: a host that is back is no such change. `ReconnectsOrWaits` therefore excepts a retry
that was refused while the host was still down and that the framework keeps waiting,
and only that (`Waits`): after any other loss, closed, failed or silent, the client is
connected again.

`JPEGInput!Fairness`: the queue runs what is on it, strongly fair for each connection
since those of others come in between, and the framework answers the outstanding
receive of a connection that has ended. Producers need not connect, send or end, and
nobody need stop the service.

`JPEGSender!FairSenderSpec`: the one thread goes on whenever it can, strongly fair because a
send can go on only while the peer reads. Nothing is assumed of the file, the service,
the peer or signals: `StopsWhenAsked` excludes a peer that stops reading for good, during
which `send` blocks and the flag is not looked at. `DeliversItsCount` asks for
delivery only of a world that becomes favourable and stays so, and, on POSIX, in which no
peer resets its connection: there a reset ends the process, and the same property without
that condition, `DeliversThroughResets`, is violated.

`CHECK_DEADLOCK FALSE` is set where the exploration ends by design: all bounds
used up, every connection closed and the service released, or the client stopped.

Where a module's `TypeOK` is not among a run's invariants it is proved instead.
`JPEGInput` has none: what could be wrong in it is in its three properties.

## Proofs

`FrameTransportProofs` proves, for every payload set, packet size, chunk limit,
pending limit and age, without the exploration bounds:

- `TypeCorrect`, `NoMixedEntries` (`OneFramePerEntry`) and `DeliveredFramesAreWhole`
  (`DeliveredWhole`) from one inductive invariant, `IInv`: the types, that
  a send time names one frame, that an entry holds chunks of one sent frame each in
  its own slot and counted once, and that what was delivered is whole.
  `DeliveredWhole` alone is not inductive: completing an entry says nothing of the
  chunks that were stored before, so `OneFramePerEntry` carries what is known of
  them; that one in turn needs send times to be unique, because the metadata
  comparison is all that keeps a chunk of an older session out.
- `PendingIsBounded` (`PendingBounded`): the limit, for any limit.
- `ChannelImplemented` (`ChannelSpec`): the frame path implements `FrameChannel`. What
  `ingest` returns is, byte for byte, a frame that `emitFrame` was given. It rests on
  `JoinSlices`: the slices that `packetize` cuts from a payload, put together in order,
  are the payload, for every length and packet size.
- `NothingIsForgotten` (`NothingForgotten`), from the invariant `Accounted`: every frame
  was returned, lost a chunk, or has all that came in of it in its own entry.
- `OldestGivenUpFirst` (`OldestGoFirst`): whatever is given up, nothing older is kept.

`HostSessionProofs` proves for any set of connections and any bound on lines:

- `TypeCorrect`: in particular, the registry and its queue only name sessions that
  exist.
- `NoSecondStream` (`OneStreamPerConnection`), from the stronger
  `OneSessionPerConnection`: there is at most one session object per
  connection at all, and it exists only after the handshake.
- `LateHellosExplained` (`LateOnlyAfterDenialOrStop`): whatever the listener queue may
  still read is of a connection that is up, unless a hello of it was refused or the
  service was stopped (`Readable`).
- `StreamsOwned` (`EveryStreamIsOwned`). Its invariant, `EveryStopFollows`, follows a
  session through three queues: if nobody owns it, its stop stands behind the block
  that registers it; once registered, somewhere on the registry queue; and once out of
  the registry, in its own queue behind every start.
- `PosesGoForward` (`PosesInOrder`): poses are numbered as they come in, and those on the
  registry queue and on each session's are in order, of their connection, and newer than
  what they will replace (`PosesNumbered`).

`BridgeIngestProofs` proves for any producers and sizes `TypeCorrect`, `TokensOwned`
(`TokensAreOwned`), `FramesAttributed` (`AttributedToItsSource`),
`WelcomesHonoured` (`WelcomeIsHonoured`) and `LiveProducersSubmit`
(`OnlyLiveProducersSubmit`). None of them is inductive alone: tokens
must be known to differ between connections, and what stands under a token to be
what its hello agreed on (`TokensDiffer`, `Granted`); and the last one needs that a
producer that knows a token in force is connected (`WelcomesAreLive`), because one that
`stop()` cut off gets no welcome any more.

`TrustStoreProofs` proves for any identities and any number of starts `TypeCorrect`,
`RequestsDecide` (`DecisionsFollowRequests`, with every failure and other writers)
and, for a command with no other beside it and readable files, `AnswersAreKept`
(`AnswersKeptAlone`). The last one's invariant, `OneWriter`, says that one store at most
can write and that it has everything the file has.

`OpenXRRuntimeProofs` proves for any handles, strings, capacity, table and period
`TypeCorrect`, `RunsAsTold` (`RunningAsTold`, which is stated there), `PathsKept`
(`PathsAreStable`), `DrainedAppKnows` (`DrainedAppKnowsState`),
`TimesAdvance` (`DisplayTimesAdvance`) and `RingImplementsQueue` (`RingIsQueue`): every
step of the ring is a step of `EventQueue`, or changes neither side. The arithmetic of
wrapping is one lemma (`Wrap`); that counted slots hold events is what type
correctness needs beside the types (`Filled`). `PathsKept` needs that no two
places of the table hold the same string and that a string, once given an id, is at that
place (`TableCorrect`); the table's limit and the longest length are any.

The same module proves of `TrackingHandoff`, for any clients, clocks, restarts and limits,
`HandoffTypeCorrect`, `EyesAlwaysAgree` (`EyesAgree`), `StalePosesNever` (`NoStalePose`),
`FreshPosesUsed` (`FreshPoseUsed`) and, for orientations whose squares are finite,
`OrientationsAreUnit` (`UnitOrientations`). The two about age rest on `StampsTrue`:
wherever a pose is, on its way, on file or just read, its stamp is its time by the
clock it was taken on.

`ViewerTransportProofs` proves for any number of connection objects and attempts
`TypeCorrect`, `OneConnection` (`NoSecondConnection`), `LinesAreWhole`
(`LinesOfOneConnection`), `HelloComesFirst` (`PosesFollowHello`), `StoppedForGood`
(`StopIsFinal`), `HealthyStays` (`HealthyIsKept`) and `BackOffStartsAnew`
(`FirstRetryIsQuick`) from one inductive invariant. The safety properties are not
inductive alone: it must be known that a report of an end is on its way
only for a connection that ended (`ReportsAreTrue`), that a greeted connection has
left the states before `.ready` (`Greeting`), and that while there is a connection in
use no reconnect is scheduled, and the back-off is at zero once it is greeted (`InUse`).

`BridgeSimulatorProofs` proves for any number of connection objects and attempts and
any limit of silence `TypeCorrect`, `FramesGoAsNegotiated` (`FramesAsNegotiated`) and
`HealthyStays` (`HealthyIsKept`). The invariant has the parts of the viewer's and one
more: while pings run, they count the silence of the connection they go out on
(`InUse`). What was negotiated belongs to the connection in use because giving that up
is the only way to the next one, and resets it (`GivingUp`).

`JPEGProofs` proves of `JPEGInput`, for any producers, streams, header length and limit,
`BuffersStayBounded` (`BufferBounded`) and `FramesComeAsSent` (`FramesAsSent`). The
invariant of the second, `InOrder`, says what is in a buffer: the stream from the end of
the last frame taken up to the last byte handed over, and, outside the loop, less than
the next frame. Then at the head of a buffer there is always a header, so the length
read from it is the one the producer wrote, and the frame taken is the producer's
(`HeadOfBuffer`). `Untouched` makes it start with a connection that is accepted. The
simulator's connections stay in order even after they are removed; those of the runtime
do not, which is why the property leaves them out.

The same module proves of `JPEGSender`, for any command lines, limits, lengths of the
file and numbers of connections, `SenderTypeCorrect`, `SendsWhatIsAsked`
(`SendsAsAsked`) and `ProducerImplemented` (`ProducerSpec`: a header begins a frame, a
send writes some of it, a socket that is closed is over, and all other steps stutter).
They share one invariant, `SenderInvariant`. `Framed` says what is written: between
frames exactly the frames begun, and within one that together with what remains of the
header or the payload in hand. That a frame counted is a frame written whole (`Counted`)
follows from it, because a byte less leaves out the last frame and no other
(`WholeCount`). `AsAsked` ties the options to the command line, since `SendsAsAsked`
does not mention them: `Asked` says from the whole line which value counts, `parse_cli`
takes one token after the other, and `ParsedAsAsked` shows that they agree, by what is
known after the first tokens (`ParsedRight`). `LengthsTrue` is needed because an empty
frame would be whole with its header, before it is counted, and `SocketsTrue` because a
socket left open would let bytes follow a cut frame.

Induction over data. The provers cannot use an induction theorem that takes a predicate,
but `LeastNumber`, that a set of numbers has a least element, takes a set: where a fact
about all numbers is needed, the set of those for which it fails is shown to have no
least element. `FlattenSeq` is a recursive function, so `FlattenIs` shows in this way
that whatever satisfies its equation is what it computes, `JoinSlices` that joined
slices are a prefix of their payload, and `FirstFramesPrefix` where in a stream each
frame stands. A fold is a recursive function on sets of positions, of which the
library's definition chooses one: `FoldExists` shows that there is one, `SumSteps` and
`TakeSteps` that it goes from left to right, and `ValuesAre` that the positions of a
command line which are values are well defined. The lemmas `LeastNumber` and `FlattenIs`
are stated in both modules that need them.

Assumed are the named assumptions on constants (`TransportAssumption`,
`HostAssumption`, `BridgeAssumption`, `TrustAssumption`, `OpenXRAssumption`,
`NoneAssumption`, `TrackingAssumption`, `NoPoseAssumption`, `ViewerAssumption`,
`SimulatorAssumption`, `InputAssumption`, `SenderAssumption`), which TLC evaluates on every run.

Only model-checked: liveness (`StreamEndsWithConnection`, `GoesDark`,
`OnlyOpenOnesAreKept`, `StopsWhenAsked`, `DeliversItsCount`, `ReconnectsOrWaits`), which is out of
the prover's reach. `AnswersKept`, `LivePoseUsed` and `DeliversThroughResets` do not hold. Only
proved, because a run could say no more of it: `OneFramePerEntry`, `RunningAsTold`,
`UnitOrientations`, which is about one function, the
simulator's `HealthyIsKept`, and the types.

## Seen on the way

Behaviour that no document contradicts, or that no run shows, and that a reader of the
code may want to know:

- A frame past `maxFrameAgeNs` is still completed by its last chunk: only an
  incomplete ingest purges (`FrameTransport.swift:238`, `260`).
- The tracking file outlives a restart of the machine. When the new uptime runs
  through the old stamp, the old pose is accepted for two seconds (`runtime.c:251`).
- A pose that was on its way over a connection the client has replaced is written over
  a newer one (`HostService.swift:355`).
- An orientation with components from 2^64 on is normalized to zero
  (`TrackingStateStore.swift:108`).
- `macvr-runtime` with only `--trust-client` goes on and serves
  (`MacVRRuntimeApp/main.swift:316`), although the repository's README shows it under
  "without starting the runtime".
- A UDP listener of the viewer, or a UDP flow of the simulator, that fails is only
  logged: connected, without video (`ViewerApp.swift:275`, `MacVRBridgeSimApp/main.swift:1075`).
- A trust file that cannot be read for a moment counts as empty and is written over by
  the next change (`TrustedClientStore.swift:168`).
- A frame length that is refused empties the JPEG buffer in the middle of the stream
  and keeps the connection. The refused frame's bytes are then read as lengths, until
  a receive happens to begin at a header (`RuntimeService.swift:450`).
- Data that arrives for a JPEG connection which `stop()` has removed is still consumed
  by the runtime, though not by the simulator, and its frames are submitted
  (`RuntimeService.swift:432`). A connection removed for a failed state is the same.
- The JPEG listener is up before `start()` resets the counters, so what a quick producer
  sends first is not counted, and its frame numbers are given out again
  (`RuntimeService.swift:192`).
- A reconnect of the viewer, the client or the bridge simulator that is refused because the
  host is still down may be kept in `.waiting` until the network changes, and the host's
  return is no change. The viewer only shows the state (`ViewerApp.swift:423`), the
  simulator ignores it (`MacVRBridgeSimApp/main.swift:338`), and its health check runs
  from `.ready` on: neither restarts the connection nor gives it up. The repository's
  CHANGELOG lists "Bridge simulator reconnect handling after host restarts" and
  "Client control-channel reconnect behavior after host restarts" (`191`, `193`) without that
  exception. `ReconnectsOrWaits` makes it, and without its last disjunct it fails.
- While its peer does not read, a blocked `send` keeps `macvr-jpeg-sender` from seeing a signal.
- The largest frame of `macvr-jpeg-sender` is 16,000,000 bytes unless told otherwise, that of the receivers
  2,000,000: what lies between is sent and refused. `--count -1` asks for 2^64 - 1 frames, and a
  pause of `1000 / fps` ms is rounded down. A file that is rewritten in place may be
  sent half old, half new (`300`).
- `xrLocateSpace` looks at neither of its spaces and reports its fallback pose as tracked;
  `xrResultToString` has no names for four results the library returns; a session never
  reaches `EXITING`.
- Status updates of the viewer hop to the main actor, and the last one of a stopped
  transport may be applied over those of its successor (`ViewerApp.swift:853`): the window
  then shows it as disconnected while it is connected.
- The event ring of the OpenXR library has no lock (`runtime.c:120`); OpenXR allows an
  application to poll from one thread and end a session in another.

## Plan

1. Frame transport with its abstract channel. *Done.*
2. Host service, registry and sessions. *Done.*
3. Bridge ingest with the frame store and the JPEG frame source: life-cycle of
   tokens, negotiated sizes, stale frames, attribution of frames to producers.
   *Done.*
4. Trusted clients: memory against file, failed writes, restarts, several
   processes. *Done.*
5. OpenXR shim with its event queue, spaces and paths; the hand-off of poses between two
   clocks. *Done.*
6. Reconnecting clients over `NetworkLink`: viewer and client channel, bridge
   simulator. *Done* for the control channels. Left: the UDP listener, and the viewer's
   window.
7. JPEG input of the runtime and the simulator. *Done.* Left of the runtime service:
   `start` on the caller's thread beside the service's queue, whose listener is up
   before the counters are reset, and what a start that fails halfway leaves behind.
8. JPEG sender with its abstract producer. *Done.* Left: the capture sender, whose capture
   callbacks are the framework's.
9. Discovery: probes, answers and their expiry in the viewer's list.
10. Compositions: `BridgeSimulator` against `BridgeIngest` in place of the external
    bridge, the client's channel against `HostSession`.

## Not modelled

JSON coding, display capture, the other programs' argument parsing and the graphical
programs have no state worth a model. Discovery keeps none between a probe and its answer.
Of the runtime service, what `start` does beside its own queue, and of the viewer, its
window and its UDP listener, are left out; of the capture sender everything but what it
sends. `experimental/` is not part of any build target.

Of the C sources, 11,585 of 13,498 lines are the vendored OpenXR header, which holds
declarations only, and some 270 are other headers. The two programs beside it are modelled
as far as they keep state: what is left of `runtime.c` reports constants, hands out
function pointers, names values or refuses, and what is left of the sender prints and
closes. So the mapped lines are a small share of all lines of C, and must be. Of the
repository's own Swift and C, some 11,560 lines under `Sources/`, three tenths are mapped.
