--------------------------- MODULE TrackingHandoff ---------------------------
(***************************************************************************)
(* The way of a head pose from a client's clock to an OpenXR application:  *)
(* the client stamps it, the host writes it to the tracking file           *)
(* (TrackingStateStore), and the runtime library, in the application's     *)
(* process, reads the file (macvrLoadTrackingState) for xrLocateSpace and  *)
(* xrLocateViews.  Stamps are uptimes, each of the machine it was taken    *)
(* on.  A pose is its time and the length of its orientation, as a power   *)
(* of two, since that decides what normalizing it does in 32-bit floats.   *)
(*                                                                         *)
(* The file is replaced as a whole, so a reader gets the old or the new    *)
(* contents.  It outlives the host and a restart of the machine.           *)
(*                                                                         *)
(* Names that OpenXRRuntime has too are different here, so that one module *)
(* can extend both and prove about the whole library.                      *)
(***************************************************************************)
EXTENDS Integers, Sequences

CONSTANTS
    Clients,
    Away,       \* clients on another machine than the host's
    StaleNs,    \* MACVR_TRACKING_STATE_STALE_NS
    Lengths,    \* exponents of the orientations' lengths
    NoPose,
    Uptimes,    \* bound: how long a machine may be up when the history begins
    MaxElapsed, MaxPoses, MaxReboots, MaxConns   \* bounds

ASSUME TrackingAssumption ==
    /\ Away \subseteq Clients
    /\ StaleNs \in Nat /\ Uptimes \subseteq Nat /\ Lengths \subseteq Int
    /\ MaxElapsed \in Nat /\ MaxPoses \in Nat /\ MaxReboots \in Nat /\ MaxConns \in Nat \ {0}

Machines == {"here", "there"}
At(c) == IF c \in Away THEN "there" ELSE "here"

\* What a client sends, and what the file holds of it.
Poses   == [by : Clients, taken : 0 .. MaxElapsed, boot : Int, stamp : Nat,
            length : Lengths]
Records == [by : Clients, taken : 0 .. MaxElapsed, boot : Int, stamp : Nat,
            unit : BOOLEAN]

ASSUME NoPoseAssumption == NoPose \notin Records

VARIABLES
    time,       \* which nobody reads
    booted,     \* when each machine was started
    reboots, poses,   \* bounds' counters
    pipes,      \* each client's connections, with the poses on their way
    file,       \* the tracking file, or NoPose
    reading,    \* "no", or the call that has read the file and not yet its clock
    got,        \* what it read
    answer      \* the poses of the last answer, with its time; NoPose is the fallback

handoff == <<time, booted, reboots, poses, pipes, file, reading, got, answer>>
reader == <<reading, got, answer>>

\* DispatchTime.now().uptimeNanoseconds in Swift, macvrNowNs in C.
Clock(m) == time - booted[m]

NoAnswer == [eyes |-> <<NoPose>>, at |-> 0]

HandoffInit ==
    /\ time = 0
    /\ booted \in [Machines -> {-u : u \in Uptimes}]
    /\ reboots = 0 /\ poses = 0
    /\ pipes = [c \in Clients |-> <<<<>>>>]
    /\ file = NoPose
    /\ reading = "no" /\ got = NoPose /\ answer = NoAnswer
-----------------------------------------------------------------------------
\* Clients.

sendSyntheticPose(c) ==
    /\ poses < MaxPoses
    /\ poses' = poses + 1
    /\ \E l \in Lengths :
          pipes' = [pipes EXCEPT ![c][Len(pipes[c])] = Append(@,
              [by |-> c, taken |-> time, boot |-> booted[At(c)], stamp |-> Clock(At(c)),
               length |-> l])]
    /\ UNCHANGED <<time, booted, reboots, file, reader>>

\* What was sent over the old connection may still be on its way.
Reconnect(c) ==
    /\ Len(pipes[c]) < MaxConns
    /\ pipes' = [pipes EXCEPT ![c] = Append(@, <<>>)]
    /\ UNCHANGED <<time, booted, reboots, poses, file, reader>>
-----------------------------------------------------------------------------
\* The host.

\* 32-bit floats: a square of 2^128 is infinite, one of 2^-23 is ulpOfOne.
Infinite(e) == e >= 128
Refused(length) == 2 * length <= -23

\* What normalizedQuaternion returns has unit length; but it is zero when the
\* square of the length overflows.
Normalized(length) == ~Infinite(2 * length)

record(pose) ==
    [by |-> pose.by, taken |-> pose.taken, boot |-> pose.boot, stamp |-> pose.stamp,
     unit |-> Normalized(pose.length)]

\* A write that fails is logged and leaves the file as it was.
handlePose(c, k) ==
    /\ pipes[c][k] # <<>>
    /\ pipes' = [pipes EXCEPT ![c][k] = Tail(@)]
    /\ LET pose == Head(pipes[c][k])
       IN  file' \in {file} \cup (IF Refused(pose.length) THEN {} ELSE {record(pose)})
    /\ UNCHANGED <<time, booted, reboots, poses, reader>>
-----------------------------------------------------------------------------
\* The application.

\* Faulty variant: a pose counts however old it is.
UsableAtAnyAge(r) == r # NoPose /\ r.stamp <= Clock("here")

\* Faulty variant: a pose expires one tick early.
UsableWhileYounger(r) ==
    /\ r # NoPose
    /\ r.stamp <= Clock("here") /\ Clock("here") - r.stamp < StaleNs

Usable(r) ==
    /\ r # NoPose
    /\ r.stamp <= Clock("here") /\ Clock("here") - r.stamp <= StaleNs

Loaded(r) == IF Usable(r) THEN r ELSE NoPose

\* fopen and fread.
ReadFile ==
    /\ reading = "no"
    /\ reading' \in {"xrLocateSpace", "xrLocateViews"}
    /\ got' = file
    /\ UNCHANGED <<time, booted, reboots, poses, pipes, file, answer>>

Return(eyes) ==
    /\ answer' = [eyes |-> eyes, at |-> time]
    /\ reading' = "no" /\ got' = NoPose
    /\ UNCHANGED <<time, booted, reboots, poses, pipes, file>>

\* The rest of macvrLoadTrackingState, and its caller.
xrLocateSpace == reading = "xrLocateSpace" /\ Return(<<Loaded(got)>>)

\* Faulty variant: each eye's pose is loaded for itself.
LocateViewsByEye ==
    reading = "xrLocateViews" /\ Return(<<Loaded(got), Loaded(file)>>)

\* Both eyes from one reading of the file.
xrLocateViews ==
    reading = "xrLocateViews" /\ Return(<<Loaded(got), Loaded(got)>>)
-----------------------------------------------------------------------------
Elapse ==
    /\ time < MaxElapsed
    /\ time' = time + 1
    /\ UNCHANGED <<booted, reboots, poses, pipes, file, reader>>

\* A machine starts again: its clock begins at 0, its processes and their
\* connections are gone, its disk is as it was.
Reboot(m) ==
    /\ reboots < MaxReboots /\ booted[m] < time
    /\ reboots' = reboots + 1
    /\ booted' = [booted EXCEPT ![m] = time]
    /\ pipes' = [c \in Clients |-> IF m \in {"here", At(c)} THEN <<<<>>>> ELSE pipes[c]]
    /\ IF m = "here"
       THEN reading' = "no" /\ got' = NoPose /\ answer' = NoAnswer
       ELSE UNCHANGED reader
    /\ UNCHANGED <<time, poses, file>>

HandoffNext ==
    \/ \E c \in Clients :
          \/ sendSyntheticPose(c) \/ Reconnect(c)
          \/ \E k \in 1 .. Len(pipes[c]) : handlePose(c, k)
    \/ ReadFile \/ xrLocateSpace \/ xrLocateViews
    \/ Elapse \/ \E m \in Machines : Reboot(m)

HandoffSpec == HandoffInit /\ [][HandoffNext]_handoff
-----------------------------------------------------------------------------
\* Properties.

Maybe == Records \cup {NoPose}

\* Every variable has its type, and every pose on file has been normalized.
HandoffTypeOK ==
    /\ time \in 0 .. MaxElapsed
    /\ booted \in [Machines -> Int] /\ \A m \in Machines : booted[m] <= time
    /\ reboots \in 0 .. MaxReboots /\ poses \in 0 .. MaxPoses
    /\ pipes \in [Clients -> Seq(Seq(Poses)) \ {<<>>}]
    /\ file \in Maybe /\ got \in Maybe
    /\ reading \in {"no", "xrLocateSpace", "xrLocateViews"}
    /\ answer \in [eyes : Seq(Maybe), at : 0 .. time]

\* Both eyes are placed around one head, whatever is written to the file and
\* however the clock goes on while they are located.
EyesAgree == \A i, j \in DOMAIN answer.eyes : answer.eyes[i] = answer.eyes[j]

\* The pose was stamped by the clock the application reads.
SameClock(r) == r.boot = booted["here"]

\* Of its own clock, an application is never given a pose that is older than the
\* limit: "if the file is absent, malformed, or too old, the runtime falls back".
NoStalePose ==
    \A i \in DOMAIN answer.eyes :
        answer.eyes[i] # NoPose /\ SameClock(answer.eyes[i])
            => answer.at - answer.eyes[i].taken <= StaleNs

\* The call that is answered in this step read a pose that was taken recently.
ReadYoungPose ==
    answer' # answer /\ answer' # NoAnswer /\ got # NoPose /\ time - got.taken <= StaleNs

GivenAsRead == \A i \in DOMAIN answer'.eyes : answer'.eyes[i] = got

\* A pose that was taken recently, by the application's clock, and has reached
\* the file is what the application gets.
FreshPoseUsed == [][ReadYoungPose /\ SameClock(got) => GivenAsRead]_handoff

\* The same of any client: "the OpenXR shim can answer view and space location
\* calls from live transport data" (CHANGELOG.md).
LivePoseUsed == [][ReadYoungPose => GivenAsRead]_handoff

\* "OpenXR consumers expect a unit quaternion": every orientation handed out has
\* unit length, whatever length the client's had, as long as its square is finite.
UnitOrientations == \A i \in DOMAIN answer.eyes : answer.eyes[i] # NoPose => answer.eyes[i].unit
=============================================================================
