--------------------------- MODULE OpenXRRuntime ----------------------------
(***************************************************************************)
(* The OpenXR runtime library (runtime.c) as one application's calls drive *)
(* it: instance, path table, sessions with their states, reference spaces, *)
(* the ring of events and frame timing.  A call is one step, as the        *)
(* library has no threads; calls that are refused or only report constants *)
(* change nothing and are left out.                                        *)
(*                                                                         *)
(* A handle is the address of the allocated object.  An address may be     *)
(* given out again after the object was freed, and events that name it     *)
(* stay in the ring.  The library does not look whether an instance still  *)
(* has sessions when it is destroyed; as OpenXR asks of applications, none *)
(* is used after that.                                                     *)
(***************************************************************************)
EXTENDS Integers, Sequences

CONSTANTS
    Handles,    \* addresses a session may get
    Spaces,     \* addresses a space may get
    Names,      \* path strings, as sequences of characters
    MaxPaths,   \* MACVR_MAX_PATH_ENTRIES
    MaxLength,  \* XR_MAX_PATH_LENGTH, which counts the final NUL
    Capacity,   \* MACVR_EVENT_QUEUE_CAPACITY
    Period,     \* MACVR_FRAME_PERIOD_NS
    NoSession, NoEvent,
    PathsIn,    \* bound: the kinds of instance whose paths are looked at
    MaxTime,    \* bound: the clock
    MaxFrames   \* bound: frames waited for in a session

ASSUME OpenXRAssumption ==
    /\ Capacity \in Nat \ {0} /\ Period \in Nat \ {0}
    /\ MaxTime \in Nat /\ MaxFrames \in Nat
    /\ Names \subseteq Seq(STRING) /\ MaxPaths \in Nat /\ MaxLength \in Nat \ {0}

States == {"READY", "FOCUSED", "STOPPING", "IDLE"}
Events == [session : Handles, state : States]
Slots  == 0 .. Capacity - 1

\* Slots are counted around the ring.
Slot(i) == i % Capacity

Session == [state : States, running : BOOLEAN, nextDisplayTime : Nat,
            frames : 0 .. MaxFrames]

ASSUME NoneAssumption == NoSession \notin Session /\ NoEvent \notin Events

VARIABLES
    instance,   \* "none", "plain", or "headless" if that extension is enabled
    sessions,   \* the session at each address, or NoSession
    spaces,     \* the addresses that hold a space
    entries, head, count,   \* MacVREventQueue
    paths,      \* the values of the instance's path entries; ids are their places
    now,        \* macvrNowNs
    polled,     \* the event xrPollEvent returned last
    told,       \* history: the state last polled for each handle
    newest,     \* history: the event pushed last
    given       \* history: the first id answered for each path string, or 0

ring    == <<entries, head, count>>
table   == <<paths, given>>
history == <<polled, told, newest>>
vars    == <<instance, sessions, spaces, ring, now, history, table>>

EmptyEntries == [s \in Slots |-> NoEvent]
Unasked      == [n \in Names |-> 0]

Init ==
    /\ instance = "none"
    /\ sessions = [h \in Handles |-> NoSession] /\ spaces = {}
    /\ entries = EmptyEntries /\ head = 0 /\ count = 0
    /\ paths = <<>> /\ given = Unasked
    /\ now \in 0 .. MaxTime
    /\ polled = NoEvent
    /\ told = [h \in Handles |-> "none"]
    /\ newest = NoEvent

Live(h) == sessions[h] # NoSession
-----------------------------------------------------------------------------
\* The ring.

\* Faulty variant: a full ring refuses the new event.
PushUnlessFull(e) ==
    /\ newest' = e /\ UNCHANGED head
    /\ IF count = Capacity
       THEN UNCHANGED <<entries, count>>
       ELSE /\ entries' = [entries EXCEPT ![Slot(head + count)] = e]
            /\ count' = count + 1

\* Faulty variant: a full ring overwrites its oldest event but begins where it did.
PushKeepingHead(e) ==
    /\ newest' = e /\ UNCHANGED head
    /\ entries' = [entries EXCEPT ![Slot(head + count)] = e]
    /\ count' = IF count = Capacity THEN count ELSE count + 1

\* A full ring loses its oldest event.
macvrEventQueuePush(e) ==
    LET full == count = Capacity
    IN  /\ newest' = e
        /\ head' = IF full THEN Slot(head + 1) ELSE head
        /\ count' = IF full THEN count ELSE count + 1
        /\ entries' = [entries EXCEPT ![Slot(head' + count' - 1)] = e]

macvrPushSessionStateEvent(h, state) ==
    macvrEventQueuePush([session |-> h, state |-> state])

xrPollEvent ==
    /\ instance # "none" /\ count > 0
    /\ polled' = entries[head]
    /\ told' = [told EXCEPT ![polled'.session] = polled'.state]
    /\ head' = Slot(head + 1)
    /\ count' = count - 1
    /\ UNCHANGED <<instance, sessions, spaces, entries, now, newest, table>>
-----------------------------------------------------------------------------
\* Instance and sessions.

\* No layer and no other extension is accepted.
xrCreateInstance ==
    /\ instance = "none"
    /\ instance' \in {"plain", "headless"}
    /\ UNCHANGED <<sessions, spaces, ring, now, history, table>>

\* calloc clears the next instance's ring and path table.
xrDestroyInstance ==
    /\ instance # "none"
    /\ instance' = "none"
    /\ sessions' = [h \in Handles |-> NoSession] /\ spaces' = {}
    /\ paths' = <<>> /\ given' = Unasked
    /\ entries' = EmptyEntries /\ head' = 0 /\ count' = 0
    /\ polled' = NoEvent /\ newest' = NoEvent
    /\ told' = [h \in Handles |-> "none"]
    /\ UNCHANGED now

xrCreateSession(h) ==
    /\ instance = "headless" /\ ~Live(h)
    /\ sessions' = [sessions EXCEPT ![h] =
          [state |-> "READY", running |-> FALSE, nextDisplayTime |-> now, frames |-> 0]]
    /\ macvrPushSessionStateEvent(h, "READY")
    /\ UNCHANGED <<instance, spaces, now, polled, told, table>>

\* The session's events stay in the ring.
xrDestroySession(h) ==
    /\ Live(h)
    /\ sessions' = [sessions EXCEPT ![h] = NoSession]
    /\ UNCHANGED <<instance, spaces, ring, now, history, table>>

\* Whatever state the session is in.
xrBeginSession(h) ==
    /\ Live(h)
    /\ sessions' = [sessions EXCEPT ![h].running = TRUE, ![h].state = "FOCUSED"]
    /\ macvrPushSessionStateEvent(h, "FOCUSED")
    /\ UNCHANGED <<instance, spaces, now, polled, told, table>>

xrEndSession(h) ==
    /\ Live(h)
    /\ sessions' = [sessions EXCEPT ![h].running = FALSE, ![h].state = "IDLE"]
    /\ macvrPushSessionStateEvent(h, "IDLE")
    /\ UNCHANGED <<instance, spaces, now, polled, told, table>>

\* The session runs until it is ended.
xrRequestExitSession(h) ==
    /\ Live(h)
    /\ sessions' = [sessions EXCEPT ![h].state = "STOPPING"]
    /\ macvrPushSessionStateEvent(h, "STOPPING")
    /\ UNCHANGED <<instance, spaces, now, polled, told, table>>
-----------------------------------------------------------------------------
\* Reference spaces: nothing ties a space to the life of its session.

xrCreateReferenceSpace(p) ==
    /\ p \notin spaces /\ \E h \in Handles : Live(h)
    /\ spaces' = spaces \cup {p}
    /\ UNCHANGED <<instance, sessions, ring, now, history, table>>

xrDestroySpace(p) ==
    /\ p \in spaces
    /\ spaces' = spaces \ {p}
    /\ UNCHANGED <<instance, sessions, ring, now, history, table>>
-----------------------------------------------------------------------------
\* Paths.

\* Faulty variant: no place is left for the final NUL.
FormatTooLong(name) == Len(name) \in 1 .. MaxLength /\ name[1] = "/"

Format(name) == Len(name) \in 1 .. MaxLength - 1 /\ name[1] = "/"

\* macvrCopyString cuts what is too long.
Copied(name) == IF Len(name) < MaxLength THEN name ELSE SubSeq(name, 1, MaxLength - 1)

\* The id for a path string: that of its entry, or of the next one; 0 when the
\* string is refused or the table is full.
PathOf(name) ==
    IF ~Format(name) THEN 0
    ELSE IF \E i \in DOMAIN paths : paths[i] = name
         THEN CHOOSE i \in DOMAIN paths :
                 paths[i] = name /\ \A j \in DOMAIN paths : paths[j] = name => i <= j
         ELSE IF Len(paths) < MaxPaths THEN Len(paths) + 1 ELSE 0

xrStringToPath(name) ==
    /\ instance \in PathsIn /\ PathOf(name) # 0
    /\ paths' = IF PathOf(name) > Len(paths) THEN Append(paths, Copied(name)) ELSE paths
    /\ given' = [given EXCEPT ![name] = IF @ = 0 THEN PathOf(name) ELSE @]
    /\ UNCHANGED <<instance, sessions, spaces, ring, now, history>>

\* The text of an id, or none.
xrPathToString(id) == IF id \in DOMAIN paths THEN paths[id] ELSE <<>>
-----------------------------------------------------------------------------
\* Frames.

\* Faulty variant: every frame is predicted from the clock alone.
PredictedFromNow(next) == now + Period

Predicted(next) == IF next < now THEN now + Period ELSE next + Period

\* It does not wait.  xrBeginFrame and xrEndFrame only look whether it runs.
xrWaitFrame(h) ==
    /\ Live(h) /\ sessions[h].running /\ sessions[h].frames < MaxFrames
    /\ sessions' = [sessions EXCEPT ![h].nextDisplayTime = Predicted(@), ![h].frames = @ + 1]
    /\ UNCHANGED <<instance, spaces, ring, now, history, table>>

Tick ==
    /\ now < MaxTime
    /\ now' = now + 1
    /\ UNCHANGED <<instance, sessions, spaces, ring, history, table>>
-----------------------------------------------------------------------------
Next ==
    \/ xrCreateInstance \/ xrDestroyInstance \/ xrPollEvent \/ Tick
    \/ \E h \in Handles :
          \/ xrCreateSession(h) \/ xrDestroySession(h)
          \/ xrBeginSession(h) \/ xrEndSession(h) \/ xrRequestExitSession(h)
          \/ xrWaitFrame(h)
    \/ \E p \in Spaces : xrCreateReferenceSpace(p) \/ xrDestroySpace(p)
    \/ \E n \in Names : xrStringToPath(n)

Spec == Init /\ [][Next]_vars
-----------------------------------------------------------------------------
\* Properties.

TableOK ==
    /\ spaces \subseteq Spaces
    /\ paths \in Seq(Seq(STRING)) /\ Len(paths) <= MaxPaths
    /\ given \in [Names -> 0 .. MaxPaths]

\* Every variable has its type, the ring is never over its capacity, and only
\* an instance that enabled the headless extension has sessions.
TypeOK ==
    /\ instance \in {"none", "plain", "headless"}
    /\ sessions \in [Handles -> Session \cup {NoSession}]
    /\ instance # "headless" => \A h \in Handles : ~Live(h)
    /\ entries \in [Slots -> Events \cup {NoEvent}]
    /\ head \in Slots /\ count \in 0 .. Capacity
    /\ now \in 0 .. MaxTime
    /\ polled \in Events \cup {NoEvent} /\ newest \in Events \cup {NoEvent}
    /\ told \in [Handles -> States \cup {"none"}]
    /\ TableOK

\* An application that has polled every event knows the state of the session
\* that changed last, and with it whether frame calls are taken, however many
\* events it lost and whichever session had the same handle before.
DrainedAppKnowsState ==
    \A h \in Handles :
        count = 0 /\ newest # NoEvent /\ newest.session = h /\ Live(h) =>
            /\ told[h] = sessions[h].state
            /\ told[h] = "FOCUSED" => sessions[h].running
            /\ told[h] \in {"READY", "IDLE"} => ~sessions[h].running

\* A path string has the same id for as long as the instance lives, whatever
\* other strings come and also when the table is full, and the id has that text.
PathsAreStable ==
    \A n \in Names :
        given[n] # 0 => PathOf(n) = given[n] /\ xrPathToString(given[n]) = n

\* The display times a session is given grow strictly and lie in the future,
\* even for calls that come faster or slower than the frame period.
DisplayTimesAdvance ==
    [][\A h \in Handles :
          Live(h) /\ sessions'[h] # NoSession /\ sessions'[h].frames = sessions[h].frames + 1 =>
              /\ sessions'[h].nextDisplayTime > sessions[h].nextDisplayTime
              /\ sessions'[h].nextDisplayTime > now]_vars

\* The ring is the queue of EventQueue.
Queue == INSTANCE EventQueue WITH
            pending <- [i \in 1 .. count |-> entries[Slot(head + i - 1)]]

\* Events are polled in the order they were pushed, each once, and only the
\* oldest get lost.
RingIsQueue == Queue!QueueSpec
=============================================================================
