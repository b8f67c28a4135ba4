------------------------ MODULE OpenXRRuntimeProofs -------------------------
(***************************************************************************)
(* For any number of sessions, any capacity of the event ring and any      *)
(* frame period: the ring implements EventQueue, an application that has   *)
(* polled everything knows the latest state, only focused and stopping     *)
(* sessions run, display times advance, and a path string keeps its id.    *)
(* And what holds of the poses that the library's calls hand out, for any  *)
(* clients, lengths and limit.                                             *)
(***************************************************************************)
EXTENDS OpenXRRuntime, TrackingHandoff, SequenceTheorems, TLAPS

USE OpenXRAssumption, NoneAssumption DEF history

\* Slots on from the ring's head wrap once at most.
LEMMA Wrap == \A x \in 0 .. 2 * Capacity - 1 :
                 Slot(x) = IF x < Capacity THEN x ELSE x - Capacity
  BY DEF Slot

\* The i-th of the pending events.
Pending(i) == entries[Slot(head + i - 1)]

\* Whatever is pending is an event.
Filled == \A i \in 1 .. count : Pending(i) \in Events

\* A push moves the pending events up by one if the ring is full, and adds the
\* new one behind them.
LEMMA PushMoves ==
  ASSUME TypeOK, NEW e \in Events, macvrEventQueuePush(e)
  PROVE  /\ head' \in Slots /\ count' \in 1 .. Capacity
         /\ count' = (IF count = Capacity THEN count ELSE count + 1)
         /\ entries' \in [Slots -> Events \cup {NoEvent}]
         /\ Pending(count)' = e
         /\ \A i \in 1 .. count' - 1 :
               Pending(i)' = Pending(IF count = Capacity THEN i + 1 ELSE i)
         /\ newest' = e
<1> USE DEF TypeOK, Slots, macvrEventQueuePush, Pending
<1>1. CASE count = Capacity
  <2>1. head' = Slot(head + 1) /\ count' = Capacity
    BY <1>1
  <2>2. head' = IF head + 1 = Capacity THEN 0 ELSE head + 1
    BY <2>1, Wrap
  <2>3. Slot(head' + count' - 1) = head
    <3>1. CASE head + 1 = Capacity
      BY <2>1, <2>2, <3>1, Wrap
    <3>2. CASE head + 1 # Capacity
      <4>1. head' + count' - 1 = head + Capacity /\ head + Capacity \in 0 .. 2 * Capacity - 1
        BY <2>1, <2>2, <3>2
      <4> QED
        BY <4>1, Wrap
    <3> QED
      BY <3>1, <3>2
  <2>4. entries' = [entries EXCEPT ![head] = e]
    BY <2>3
  <2>5. ASSUME NEW i \in 1 .. count' - 1
        PROVE  /\ Slot(head' + i - 1) = Slot(head + i)
               /\ Slot(head' + i - 1) \in Slots \ {head}
    <3>0. i \in 1 .. Capacity - 1 /\ head \in 0 .. Capacity - 1
      BY <2>1
    <3>1. CASE head + 1 = Capacity
      <4>1. head' + i - 1 = i - 1 /\ head + i = i - 1 + Capacity
        BY <2>2, <3>0, <3>1
      <4>2. Slot(i - 1) = i - 1 /\ Slot(i - 1 + Capacity) = i - 1
        BY <3>0, Wrap
      <4> QED
        BY <3>0, <3>1, <4>1, <4>2
    <3>2. CASE head + 1 # Capacity
      <4>1. head' + i - 1 = head + i
        BY <2>2, <3>0, <3>2
      <4>2. Slot(head + i) = IF head + i < Capacity THEN head + i ELSE head + i - Capacity
        BY <3>0, Wrap
      <4> QED
        BY <3>0, <4>1, <4>2
    <3> QED
      BY <3>1, <3>2
  <2> QED
    BY <1>1, <2>1, <2>2, <2>3, <2>4, <2>5
<1>2. CASE count # Capacity
  <2>1. head' = head /\ count' = count + 1
    BY <1>2
  <2>2. Slot(head + count) \in Slots
    BY <1>2, Wrap
  <2>3. entries' = [entries EXCEPT ![Slot(head + count)] = e]
    <3>1. head' + count' - 1 = head + count
      BY <2>1
    <3> QED
      BY <3>1
  <2>4. ASSUME NEW i \in 1 .. count' - 1
        PROVE  Slot(head + i - 1) \in Slots \ {Slot(head + count)}
    BY <1>2, <2>1, Wrap
  <2>5. Pending(count)' = e
    BY <2>1, <2>2, <2>3
  <2>6. ASSUME NEW i \in 1 .. count' - 1
        PROVE  Pending(i)' = Pending(i)
    BY <2>1, <2>3, <2>4
  <2> QED
    BY <1>2, <2>1, <2>2, <2>3, <2>5, <2>6
<1> QED
  BY <1>1, <1>2

\* A poll takes the first of the pending events.
LEMMA PollMoves ==
  ASSUME TypeOK, xrPollEvent
  PROVE  /\ head' \in Slots /\ count' = count - 1 /\ count \in 1 .. Capacity
         /\ polled' = Pending(1)
         /\ \A i \in 1 .. count' : Pending(i)' = Pending(i + 1)
<1> USE DEF TypeOK, Slots, xrPollEvent, Pending
<1>1. Slot(head) = head
  BY Wrap
<1>2. head' = IF head + 1 = Capacity THEN 0 ELSE head + 1
  BY Wrap
<1>3. ASSUME NEW i \in 1 .. count'
      PROVE  Slot(head' + i - 1) = Slot(head + i)
  BY <1>2, Wrap
<1> QED
  BY <1>1, <1>2, <1>3
-----------------------------------------------------------------------------
\* The steps that push an event change one session.
Pushes(h, state) ==
    /\ h \in Handles /\ state \in States
    /\ macvrPushSessionStateEvent(h, state)
    /\ \E s \in Session :
          /\ sessions' = [sessions EXCEPT ![h] = s] /\ s.state = state
          /\ s.running => state = "FOCUSED" \/ (state = "STOPPING" /\ sessions[h].running)
          /\ state = "FOCUSED" => s.running
          /\ Live(h) => s.frames = sessions[h].frames
    /\ instance = "headless"
    /\ UNCHANGED <<instance, now, polled, told>>

\* The steps that push are of this form.
LEMMA PushSteps ==
  ASSUME TypeOK, NEW h \in Handles,
         \/ xrCreateSession(h) \/ xrBeginSession(h)
         \/ xrEndSession(h) \/ xrRequestExitSession(h)
  PROVE  \E state \in States : Pushes(h, state)
<1> USE DEF Pushes, States
<1>0. Live(h) => sessions[h] \in Session /\ instance = "headless"
  BY DEF TypeOK, Live
<1>1. CASE xrCreateSession(h)
  <2> DEFINE s == [state |-> "READY", running |-> FALSE, nextDisplayTime |-> now, frames |-> 0]
  <2>1. s \in Session
    BY DEF Session, TypeOK
  <2>2. sessions' = [sessions EXCEPT ![h] = s]
    BY <1>1 DEF xrCreateSession
  <2>3. Pushes(h, "READY")
    BY <1>1, <2>1, <2>2 DEF xrCreateSession
  <2> QED
    BY <2>3
<1>2. CASE xrBeginSession(h)
  <2> DEFINE s == [sessions[h] EXCEPT !.running = TRUE, !.state = "FOCUSED"]
  <2>1. s \in Session /\ s.running = TRUE /\ s.state = "FOCUSED" /\ s.frames = sessions[h].frames
    BY <1>0, <1>2 DEF xrBeginSession, Session
  <2>2. sessions' = [sessions EXCEPT ![h] = s]
    BY <1>2, <1>0 DEF xrBeginSession, TypeOK, Session
  <2> HIDE DEF s
  <2>3. /\ macvrPushSessionStateEvent(h, "FOCUSED") /\ instance = "headless"
        /\ UNCHANGED <<instance, now, polled, told>>
    BY <1>0, <1>2 DEF xrBeginSession
  <2>4. \E t \in Session :
           /\ sessions' = [sessions EXCEPT ![h] = t] /\ t.state = "FOCUSED"
           /\ t.running /\ t.frames = sessions[h].frames
    BY <2>1, <2>2
  <2>5. Pushes(h, "FOCUSED")
    BY <2>3, <2>4
  <2> QED
    BY <2>5
<1>3. CASE xrEndSession(h)
  <2> DEFINE s == [sessions[h] EXCEPT !.running = FALSE, !.state = "IDLE"]
  <2>1. s \in Session /\ ~s.running /\ s.state = "IDLE" /\ s.frames = sessions[h].frames
    BY <1>0, <1>3 DEF xrEndSession, Session
  <2>2. sessions' = [sessions EXCEPT ![h] = s]
    BY <1>3, <1>0 DEF xrEndSession, TypeOK, Session
  <2>3. Pushes(h, "IDLE")
    BY <1>0, <1>3, <2>1, <2>2 DEF xrEndSession
  <2> QED
    BY <2>3
<1>4. CASE xrRequestExitSession(h)
  <2> DEFINE s == [sessions[h] EXCEPT !.state = "STOPPING"]
  <2>1. /\ s \in Session /\ s.state = "STOPPING" /\ s.frames = sessions[h].frames
        /\ s.running = sessions[h].running
    BY <1>0, <1>4 DEF xrRequestExitSession, Session
  <2>2. sessions' = [sessions EXCEPT ![h] = s]
    BY <1>4, <1>0 DEF xrRequestExitSession, TypeOK, Session
  <2>3. Pushes(h, "STOPPING")
    BY <1>0, <1>4, <2>1, <2>2 DEF xrRequestExitSession
  <2> QED
    BY <2>3
<1> QED
  BY <1>1, <1>2, <1>3, <1>4
-----------------------------------------------------------------------------
\* The steps that leave the session side of an instance alone.
Aside ==
    \/ \E p \in Spaces : xrCreateReferenceSpace(p) \/ xrDestroySpace(p)
    \/ \E n \in Names : xrStringToPath(n)
    \/ UNCHANGED vars

LEMMA AsideKeeps ==
  ASSUME Aside
  PROVE  UNCHANGED <<instance, sessions, entries, head, count, now, polled, told, newest>>
  BY DEF Aside, xrCreateReferenceSpace, xrDestroySpace, xrStringToPath, vars, ring, history
-----------------------------------------------------------------------------
\* No string is in the path table twice, and each is where it was first put.
Entered ==
    /\ \A i, j \in DOMAIN paths : paths[i] = paths[j] => i = j
    /\ \A n \in Names : given[n] # 0 =>
          Format(n) /\ given[n] \in DOMAIN paths /\ paths[given[n]] = n

\* A string that has an entry has that entry's id.
LEMMA PathOfKnown ==
  ASSUME TableOK, Entered, NEW n, Format(n), NEW i \in DOMAIN paths, paths[i] = n
  PROVE  PathOf(n) = i
<1>1. DOMAIN paths \subseteq Nat
  BY DEF TableOK
<1> DEFINE First(k) == paths[k] = n /\ \A j \in DOMAIN paths : paths[j] = n => k <= j
<1>2. First(i) /\ \A k \in DOMAIN paths : First(k) => k = i
  BY <1>1 DEF Entered
<1>3. PathOf(n) = CHOOSE k \in DOMAIN paths : First(k)
  BY DEF PathOf
<1> HIDE DEF First
<1> QED
  BY <1>2, <1>3

\* A step leaves every entry in its place.
LEMMA TableSteps ==
  ASSUME TableOK, Entered, [Next]_vars
  PROVE  TableOK' /\ Entered'
<1> USE DEF TableOK, Entered
<1>1. CASE xrDestroyInstance
  BY <1>1 DEF xrDestroyInstance, Unasked
<1>2. ASSUME NEW n \in Names, xrStringToPath(n) PROVE TableOK' /\ Entered'
  <2>1. n \in Seq(STRING) /\ Format(n) /\ Copied(n) = n
    BY <1>2 DEF xrStringToPath, PathOf, Format, Copied
  <2>2. CASE \E i \in DOMAIN paths : paths[i] = n
    <3>1. PICK i \in DOMAIN paths : paths[i] = n
      BY <2>2
    <3>2. PathOf(n) = i /\ i \in 1 .. Len(paths)
      BY <2>1, <3>1, PathOfKnown
    <3>3. paths' = paths /\ given' = [given EXCEPT ![n] = IF @ = 0 THEN i ELSE @]
      BY <1>2, <3>2 DEF xrStringToPath
    <3> QED
      BY <1>2, <2>1, <3>1, <3>2, <3>3 DEF xrStringToPath
  <2>3. CASE ~ \E i \in DOMAIN paths : paths[i] = n
    <3>1. PathOf(n) = Len(paths) + 1 /\ Len(paths) < MaxPaths
      BY <1>2, <2>1, <2>3 DEF xrStringToPath, PathOf
    <3>2. /\ paths' = Append(paths, n)
          /\ given' = [given EXCEPT ![n] = IF @ = 0 THEN Len(paths) + 1 ELSE @]
      BY <1>2, <2>1, <3>1 DEF xrStringToPath
    <3>3. /\ paths' \in Seq(Seq(STRING)) /\ Len(paths') = Len(paths) + 1
          /\ paths'[Len(paths) + 1] = n
          /\ \A i \in 1 .. Len(paths) : paths'[i] = paths[i]
      BY <2>1, <3>2
    <3>4. Len(paths) \in Nat /\ DOMAIN paths = 1 .. Len(paths)
          /\ DOMAIN paths' = 1 .. Len(paths) + 1
      BY <3>3
    <3>5. TableOK'
      BY <1>2, <3>1, <3>2, <3>3, <3>4 DEF xrStringToPath
    <3>6. \A i, j \in DOMAIN paths' : paths'[i] = paths'[j] => i = j
      <4> SUFFICES ASSUME NEW i \in DOMAIN paths', NEW j \in DOMAIN paths',
                          paths'[i] = paths'[j]
                   PROVE  i = j
        OBVIOUS
      <4>1. \A k \in DOMAIN paths' :
               \/ k \in DOMAIN paths /\ paths'[k] = paths[k] /\ paths'[k] # n
               \/ k = Len(paths) + 1 /\ paths'[k] = n
        BY <2>3, <3>3, <3>4
      <4> QED
        BY <4>1
    <3>7. \A m \in Names : given'[m] # 0 =>
             Format(m) /\ given'[m] \in DOMAIN paths' /\ paths'[given'[m]] = m
      <4> SUFFICES ASSUME NEW m \in Names, given'[m] # 0
                   PROVE  Format(m) /\ given'[m] \in DOMAIN paths' /\ paths'[given'[m]] = m
        OBVIOUS
      <4>1. CASE given[m] # 0
        <5>1. given'[m] = given[m]
          BY <3>2, <4>1
        <5> QED
          BY <3>3, <3>4, <4>1, <5>1
      <4>2. CASE given[m] = 0
        <5>1. m = n /\ given'[m] = Len(paths) + 1
          BY <3>2, <4>2
        <5> QED
          BY <2>1, <3>3, <3>4, <5>1
      <4> QED
        BY <4>1, <4>2
    <3> QED
      BY <3>5, <3>6, <3>7 DEF Format
  <2> QED
    BY <2>2, <2>3
<1>3. ASSUME NEW p \in Spaces, xrCreateReferenceSpace(p) \/ xrDestroySpace(p)
      PROVE  TableOK' /\ Entered'
  BY <1>3 DEF xrCreateReferenceSpace, xrDestroySpace, table
<1>4. CASE UNCHANGED <<spaces, table>>
  BY <1>4 DEF table
<1> QED
  BY <1>1, <1>2, <1>3, <1>4
  DEF Next, vars, xrCreateInstance, xrPollEvent, Tick, xrCreateSession, xrDestroySession,
      xrBeginSession, xrEndSession, xrRequestExitSession, xrWaitFrame

\* The path table and the spaces keep their types, and entries their places.
THEOREM TableCorrect == Spec => [](TableOK /\ Entered)
<1>1. Init => TableOK /\ Entered
  BY DEF Init, TableOK, Entered, Unasked
<1> QED
  BY <1>1, TableSteps, PTL DEF Spec

\* While an instance lives, a path string it answered keeps its id, and the id
\* its text, for any path strings and a table of any size.
THEOREM PathsKept == Spec => []PathsAreStable
<1>1. TableOK /\ Entered => PathsAreStable
  BY PathOfKnown DEF PathsAreStable, xrPathToString, Entered
<1> QED
  BY <1>1, TableCorrect, PTL
-----------------------------------------------------------------------------
\* Every variable keeps its type, and what is pending is an event.
THEOREM TypeCorrect == Spec => [](TypeOK /\ Filled)
<1> DEFINE Inv == TypeOK /\ Filled
<1>1. Init /\ TableOK => Inv
  BY DEF Init, TypeOK, Filled, EmptyEntries, Slots, Live
<1>2. Inv /\ TableOK' /\ [Next]_vars => Inv'
  <2> SUFFICES ASSUME Inv, TableOK', [Next]_vars PROVE Inv'
    OBVIOUS
  <2>1. CASE xrCreateInstance
    BY <2>1 DEF xrCreateInstance, TypeOK, Filled, Pending, Live, ring
  <2>2. CASE xrDestroyInstance
    BY <2>2 DEF xrDestroyInstance, TypeOK, Filled, EmptyEntries, Slots, Live
  <2>3. CASE xrPollEvent
    <3>1. Pending(1) \in Events
      BY <2>3, PollMoves DEF Filled
    <3>2. Filled'
      BY <2>3, PollMoves DEF Filled, TypeOK
    <3>3. polled' \in Events /\ told' \in [Handles -> States \cup {"none"}]
      BY <2>3, <3>1, PollMoves DEF xrPollEvent, TypeOK, Events
    <3> QED
      BY <2>3, <3>2, <3>3, PollMoves DEF xrPollEvent, TypeOK, Live
  <2>4. CASE Tick
    BY <2>4 DEF Tick, TypeOK, Filled, Pending, Live, ring
  <2>5. ASSUME NEW h \in Handles,
               \/ xrCreateSession(h) \/ xrBeginSession(h)
               \/ xrEndSession(h) \/ xrRequestExitSession(h)
        PROVE  Inv'
    <3>1. PICK state \in States : Pushes(h, state)
      BY <2>5, PushSteps
    <3> DEFINE e == [session |-> h, state |-> state]
    <3>2. e \in Events /\ macvrEventQueuePush(e)
      BY <3>1 DEF Pushes, Events, macvrPushSessionStateEvent
    <3> HIDE DEF e
    <3>3. Filled'
      BY <3>2, PushMoves DEF Filled, TypeOK
    <3>4. sessions' \in [Handles -> Session \cup {NoSession}] /\ instance' = "headless"
      BY <3>1 DEF Pushes, TypeOK
    <3>5. newest' \in Events /\ entries' \in [Slots -> Events \cup {NoEvent}]
          /\ head' \in Slots /\ count' \in 0 .. Capacity
      BY <3>2, PushMoves
    <3> QED
      BY <3>1, <3>3, <3>4, <3>5 DEF TypeOK, Pushes, Live
  <2>6. ASSUME NEW h \in Handles, xrDestroySession(h) PROVE Inv'
    BY <2>6 DEF xrDestroySession, TypeOK, Filled, Pending, Live, ring
  <2>7. ASSUME NEW h \in Handles, xrWaitFrame(h) PROVE Inv'
    <3>1. Predicted(sessions[h].nextDisplayTime) \in Nat /\ sessions[h] \in Session
      BY <2>7 DEF xrWaitFrame, Predicted, TypeOK, Session, Live
    <3>2. sessions' \in [Handles -> Session \cup {NoSession}]
      BY <2>7, <3>1 DEF xrWaitFrame, TypeOK, Session
    <3>3. \A k \in Handles : Live(k)' => Live(k)
      BY <2>7 DEF xrWaitFrame, TypeOK, Live
    <3> QED
      BY <2>7, <3>2, <3>3 DEF xrWaitFrame, TypeOK, Filled, Pending, ring
  <2>8. CASE Aside
    BY <2>8, AsideKeeps DEF TypeOK, Filled, Pending, Live
  <2> QED
    BY <2>1, <2>2, <2>3, <2>4, <2>5, <2>6, <2>7, <2>8 DEF Next, Aside
<1> QED
  BY <1>1, <1>2, TableCorrect, PTL DEF Spec

\* A focused session runs, and only a focused or a stopping one does.
RunningAsTold ==
    \A h \in Handles : Live(h) =>
        /\ sessions[h].state = "FOCUSED" => sessions[h].running
        /\ sessions[h].running => sessions[h].state \in {"FOCUSED", "STOPPING"}

\* This is so whatever the order of the application's calls.
THEOREM RunsAsTold == Spec => []RunningAsTold
<1>1. Init => RunningAsTold
  BY DEF Init, RunningAsTold, Live
<1>2. TypeOK /\ RunningAsTold /\ [Next]_vars => RunningAsTold'
  <2> SUFFICES ASSUME TypeOK, RunningAsTold, [Next]_vars PROVE RunningAsTold'
    OBVIOUS
  <2> USE DEF RunningAsTold, Live
  <2>1. CASE xrDestroyInstance
    BY <2>1 DEF xrDestroyInstance
  <2>2. ASSUME NEW h \in Handles,
               \/ xrCreateSession(h) \/ xrBeginSession(h)
               \/ xrEndSession(h) \/ xrRequestExitSession(h)
        PROVE  RunningAsTold'
    <3>1. PICK state \in States : Pushes(h, state)
      BY <2>2, PushSteps
    <3>2. PICK s \in Session :
            /\ sessions' = [sessions EXCEPT ![h] = s] /\ s.state = state
            /\ s.running => state = "FOCUSED" \/ (state = "STOPPING" /\ sessions[h].running)
            /\ state = "FOCUSED" => s.running
      BY <3>1 DEF Pushes
    <3> QED
      BY <3>2 DEF TypeOK
  <2>3. ASSUME NEW h \in Handles, xrDestroySession(h) PROVE RunningAsTold'
    BY <2>3 DEF xrDestroySession, TypeOK
  <2>4. ASSUME NEW h \in Handles, xrWaitFrame(h) PROVE RunningAsTold'
    <3>1. sessions[h] \in Session
      BY <2>4 DEF xrWaitFrame, TypeOK
    <3>2. /\ \A k \in Handles \ {h} : sessions'[k] = sessions[k]
          /\ sessions'[h].state = sessions[h].state
          /\ sessions'[h].running = sessions[h].running
      BY <2>4, <3>1 DEF xrWaitFrame, TypeOK, Session
    <3> QED
      BY <2>4, <3>2 DEF xrWaitFrame
  <2>5. CASE UNCHANGED sessions
    BY <2>5
  <2> QED
    BY <2>1, <2>2, <2>3, <2>4, <2>5, AsideKeeps
    DEF Next, Aside, xrCreateInstance, xrPollEvent, Tick
<1> QED
  BY <1>1, <1>2, TypeCorrect, PTL DEF Spec
-----------------------------------------------------------------------------
\* The newest event is the last of the pending ones, or it has been told; it says
\* what its session is in, unless that was destroyed.
NewestKnown ==
    /\ count > 0 => newest # NoEvent /\ newest = Pending(count)
    /\ count = 0 /\ newest # NoEvent => told[newest.session] = newest.state
    /\ newest # NoEvent /\ Live(newest.session) =>
          sessions[newest.session].state = newest.state

\* An application that has polled every event knows the state that was set last.
THEOREM DrainedAppKnows == Spec => []DrainedAppKnowsState
<1>1. Init => NewestKnown
  BY DEF Init, NewestKnown
<1>2. TypeOK /\ Filled /\ NewestKnown /\ [Next]_vars => NewestKnown'
  <2> SUFFICES ASSUME TypeOK, Filled, NewestKnown, [Next]_vars PROVE NewestKnown'
    OBVIOUS
  <2>0. newest # NoEvent => newest.session \in Handles
    BY DEF TypeOK, Events
  <2>1. CASE xrCreateInstance
    BY <2>1 DEF xrCreateInstance, NewestKnown, Pending, Live, ring
  <2>2. CASE xrDestroyInstance
    BY <2>2 DEF xrDestroyInstance, NewestKnown
  <2>3. CASE xrPollEvent
    <3>1. CASE count = 1
      <4>1. polled' = newest
        BY <2>3, <3>1, PollMoves DEF NewestKnown
      <4>2. told'[newest.session] = newest.state
        BY <2>0, <2>3, <4>1, <3>1 DEF xrPollEvent, NewestKnown, TypeOK
      <4>3. count' = 0
        BY <2>3, <3>1, PollMoves
      <4> QED
        BY <2>3, <4>2, <4>3 DEF xrPollEvent, NewestKnown, Live
    <3>2. CASE count # 1
      <4>1. PICK i \in 1 .. Capacity : i = count' /\ i + 1 = count
        BY <2>3, <3>2, PollMoves
      <4>2. Pending(i)' = Pending(count) /\ Pending(i)' = Pending(count)'
        BY <2>3, <4>1, PollMoves DEF Pending
      <4> QED
        BY <2>3, <4>1, <4>2, PollMoves DEF xrPollEvent, NewestKnown, Live
    <3> QED
      BY <3>1, <3>2
  <2>4. CASE Tick
    BY <2>4 DEF Tick, NewestKnown, Pending, Live, ring
  <2>5. ASSUME NEW h \in Handles,
               \/ xrCreateSession(h) \/ xrBeginSession(h)
               \/ xrEndSession(h) \/ xrRequestExitSession(h)
        PROVE  NewestKnown'
    <3>1. PICK state \in States : Pushes(h, state)
      BY <2>5, PushSteps
    <3> DEFINE e == [session |-> h, state |-> state]
    <3>2. e \in Events /\ macvrEventQueuePush(e) /\ e.session = h /\ e.state = state
      BY <3>1 DEF Pushes, Events, macvrPushSessionStateEvent
    <3> HIDE DEF e
    <3>3. newest' = e /\ Pending(count)' = e /\ count' \in 1 .. Capacity
      BY <3>2, PushMoves
    <3>4. e # NoEvent
      BY <3>2
    <3>5. sessions'[h].state = state
      BY <3>1 DEF Pushes, TypeOK
    <3> QED
      BY <3>2, <3>3, <3>4, <3>5 DEF NewestKnown
  <2>6. ASSUME NEW h \in Handles, xrDestroySession(h) PROVE NewestKnown'
    BY <2>0, <2>6 DEF xrDestroySession, NewestKnown, Pending, Live, ring, TypeOK
  <2>7. ASSUME NEW h \in Handles, xrWaitFrame(h) PROVE NewestKnown'
    <3>1. sessions[h] \in Session /\ Live(h)
      BY <2>7 DEF xrWaitFrame, TypeOK, Live
    <3>2. \A k \in Handles : Live(k)' => Live(k) /\ sessions'[k].state = sessions[k].state
      BY <2>7, <3>1 DEF xrWaitFrame, TypeOK, Live, Session
    <3> QED
      BY <2>0, <2>7, <3>2 DEF xrWaitFrame, NewestKnown, Pending, ring
  <2>8. CASE Aside
    BY <2>8, AsideKeeps DEF NewestKnown, Pending, Live
  <2> QED
    BY <2>1, <2>2, <2>3, <2>4, <2>5, <2>6, <2>7, <2>8 DEF Next, Aside
<1>3. TypeOK /\ NewestKnown /\ RunningAsTold => DrainedAppKnowsState
  BY DEF NewestKnown, RunningAsTold, DrainedAppKnowsState
<1> QED
  BY <1>1, <1>2, <1>3, TypeCorrect, RunsAsTold, PTL DEF Spec

\* The display times of a session grow strictly and lie in the future.
THEOREM TimesAdvance == Spec => DisplayTimesAdvance
<1> DEFINE Advance ==
      \A h \in Handles :
        Live(h) /\ sessions'[h] # NoSession /\ sessions'[h].frames = sessions[h].frames + 1 =>
            /\ sessions'[h].nextDisplayTime > sessions[h].nextDisplayTime
            /\ sessions'[h].nextDisplayTime > now
<1>1. TypeOK /\ [Next]_vars => [Advance]_vars
  <2> SUFFICES ASSUME TypeOK, [Next]_vars, NEW h \in Handles, Live(h),
                      sessions'[h] # NoSession,
                      sessions'[h].frames = sessions[h].frames + 1
               PROVE  /\ sessions'[h].nextDisplayTime > sessions[h].nextDisplayTime
                      /\ sessions'[h].nextDisplayTime > now
    BY DEF vars
  <2>0. sessions[h] \in Session /\ sessions[h].frames \in Nat
    BY DEF TypeOK, Live, Session
  <2>1. ASSUME NEW k \in Handles,
               \/ xrCreateSession(k) \/ xrBeginSession(k)
               \/ xrEndSession(k) \/ xrRequestExitSession(k)
        PROVE  FALSE
    <3>1. PICK state \in States : Pushes(k, state)
      BY <2>1, PushSteps
    <3> QED
      BY <2>0, <3>1 DEF Pushes, TypeOK
  <2>2. ASSUME NEW k \in Handles, xrWaitFrame(k)
        PROVE  /\ sessions'[h].nextDisplayTime > sessions[h].nextDisplayTime
               /\ sessions'[h].nextDisplayTime > now
    <3>1. k = h
      BY <2>0, <2>2 DEF xrWaitFrame, TypeOK
    <3>2. sessions'[h].nextDisplayTime = Predicted(sessions[h].nextDisplayTime)
      BY <2>0, <2>2, <3>1 DEF xrWaitFrame, TypeOK, Session
    <3> QED
      BY <2>0, <3>2 DEF Predicted, Session, TypeOK
  <2>3. ASSUME NEW k \in Handles, xrDestroySession(k) PROVE FALSE
    BY <2>0, <2>3 DEF xrDestroySession, TypeOK
  <2>4. CASE xrDestroyInstance
    BY <2>4 DEF xrDestroyInstance
  <2>5. CASE UNCHANGED sessions
    BY <2>0, <2>5
  <2> QED
    BY <2>1, <2>2, <2>3, <2>4, <2>5, AsideKeeps
    DEF Next, Aside, xrCreateInstance, xrPollEvent, Tick
<1> QED
  BY <1>1, TypeCorrect, PTL DEF Spec, DisplayTimesAdvance
-----------------------------------------------------------------------------
\* The pending events as a sequence.
PendingSeq == [i \in 1 .. count |-> Pending(i)]

LEMMA PendingIsSeq ==
  ASSUME TypeOK, Filled
  PROVE  /\ PendingSeq \in Seq(Events) /\ Len(PendingSeq) = count
         /\ \A i \in 1 .. count : PendingSeq[i] = Pending(i)
<1>1. count \in Nat
  BY DEF TypeOK
<1>2. PendingSeq \in [1 .. count -> Events]
  BY DEF PendingSeq, Filled
<1> QED
  BY <1>1, <1>2 DEF PendingSeq

LEMMA Indexes ==
  ASSUME NEW n \in Nat
  PROVE  /\ \A i \in 1 .. n - 1 : i \in 1 .. n
         /\ \A i \in 1 .. n : i \in 1 .. n - 1 \/ i = n
         /\ n - 1 + 1 = n
OBVIOUS

\* The ring implements the queue: events are polled in the order they were
\* pushed, each once, and only the oldest get lost.
THEOREM RingImplementsQueue == Spec => RingIsQueue
<1> DEFINE Inv == TypeOK /\ Filled
           mapped == <<PendingSeq, polled>>
<1>1. Init => Queue!QueueInit
  BY DEF Init, Queue!QueueInit
<1>2. Inv /\ Inv' /\ [Next]_vars => [Queue!QueueNext]_mapped
  <2> SUFFICES ASSUME Inv, Inv', [Next]_vars
               PROVE  Queue!QueueNext \/ UNCHANGED mapped
    OBVIOUS
  <2>0. /\ PendingSeq \in Seq(Events) /\ Len(PendingSeq) = count
        /\ \A i \in 1 .. count : PendingSeq[i] = Pending(i)
        /\ PendingSeq' \in Seq(Events) /\ Len(PendingSeq') = count'
        /\ \A i \in 1 .. count' : PendingSeq'[i] = Pending(i)'
    <3>1. TypeOK /\ Filled => /\ PendingSeq \in Seq(Events) /\ Len(PendingSeq) = count
                             /\ \A i \in 1 .. count : PendingSeq[i] = Pending(i)
      BY PendingIsSeq
    <3>2. (TypeOK /\ Filled => /\ PendingSeq \in Seq(Events) /\ Len(PendingSeq) = count
                             /\ \A i \in 1 .. count : PendingSeq[i] = Pending(i))'
      BY PendingIsSeq, PTL
    <3> QED
      BY <3>1, <3>2
  <2>counts. count \in Nat /\ count' \in Nat
    BY DEF TypeOK
  <2>1. CASE xrPollEvent
    <3>1. PendingSeq # <<>> /\ Head(PendingSeq) = Pending(1)
      BY <2>0, <2>counts, <2>1, PollMoves
    <3>2. /\ Tail(PendingSeq) \in Seq(Events) /\ Len(Tail(PendingSeq)) = count - 1
          /\ \A i \in 1 .. count - 1 : Tail(PendingSeq)[i] = Pending(i + 1)
      BY <2>0, <2>counts, <3>1, HeadTailProperties
    <3>3. PendingSeq' = Tail(PendingSeq)
      BY <2>0, <2>counts, <2>1, <3>2, PollMoves, SeqEqual
    <3>4. Queue!Poll
      BY <2>1, <3>1, <3>3, PollMoves DEF Queue!Poll, PendingSeq, Pending
    <3> QED
      BY <3>4 DEF Queue!QueueNext
  <2>2. CASE xrDestroyInstance
    <3>1. count' = 0 /\ polled' = NoEvent
      BY <2>2 DEF xrDestroyInstance
    <3>2. PendingSeq' = <<>>
      BY <2>0, <3>1
    <3>3. Queue!Discard
      BY <3>1, <3>2 DEF Queue!Discard, PendingSeq, Pending
    <3> QED
      BY <3>3 DEF Queue!QueueNext
  <2>3. ASSUME NEW h \in Handles,
               \/ xrCreateSession(h) \/ xrBeginSession(h)
               \/ xrEndSession(h) \/ xrRequestExitSession(h)
        PROVE  Queue!QueueNext
    <3>1. PICK state \in States : Pushes(h, state)
      BY <2>3, PushSteps
    <3> DEFINE e == [session |-> h, state |-> state]
               rest == IF count = Capacity THEN Tail(PendingSeq) ELSE PendingSeq
    <3>2. e \in Events /\ macvrEventQueuePush(e) /\ polled' = polled
      BY <3>1 DEF Pushes, Events, macvrPushSessionStateEvent
    <3> HIDE DEF e
    <3>3. /\ rest \in Seq(Events) /\ Len(rest) = count' - 1 /\ count' >= 1
          /\ \A i \in 1 .. count' - 1 : rest[i] = Pending(IF count = Capacity THEN i + 1 ELSE i)
      <4>0. count' = IF count = Capacity THEN count ELSE count + 1
        BY <3>2 DEF macvrEventQueuePush
      <4>1. CASE count = Capacity
        <5>1. PendingSeq # <<>> /\ count >= 1
          BY <2>0, <2>counts, <4>1, OpenXRAssumption
        <5>2. /\ Tail(PendingSeq) \in Seq(Events) /\ Len(Tail(PendingSeq)) = count - 1
              /\ \A i \in 1 .. count - 1 : Tail(PendingSeq)[i] = PendingSeq[i + 1]
          BY <2>0, <5>1, HeadTailProperties
        <5>3. \A i \in 1 .. count - 1 : Tail(PendingSeq)[i] = Pending(i + 1)
          BY <2>0, <2>counts, <5>2
        <5>4. rest = Tail(PendingSeq) /\ count' = count
          BY <4>0, <4>1
        <5> HIDE DEF rest
        <5> QED
          BY <2>counts, <4>1, <5>1, <5>2, <5>3, <5>4
      <4>2. CASE count # Capacity
        <5>1. rest = PendingSeq /\ count' = count + 1
          BY <4>0, <4>2
        <5> HIDE DEF rest
        <5> QED
          BY <2>0, <2>counts, <4>2, <5>1
      <4> QED
        BY <4>1, <4>2
    <3>4. PendingSeq'[count'] = e
      <4>1. PICK n \in 1 .. count' : n = count'
        BY <2>counts, <3>3
      <4>2. Pending(n)' = e
        BY <3>2, <4>1, PushMoves DEF Pending
      <4> QED
        BY <2>0, <4>1, <4>2
    <3> HIDE DEF rest
    <3>5. PendingSeq' = Append(rest, e)
      <4>1. /\ Append(rest, e) \in Seq(Events) /\ Len(Append(rest, e)) = count'
            /\ \A i \in 1 .. count' - 1 : Append(rest, e)[i] = rest[i]
            /\ Append(rest, e)[count'] = e
        <5>1. /\ Append(rest, e) \in Seq(Events)
              /\ Len(Append(rest, e)) = Len(rest) + 1
              /\ \A i \in 1 .. Len(rest) : Append(rest, e)[i] = rest[i]
              /\ Append(rest, e)[Len(rest) + 1] = e
          BY <3>2, <3>3, AppendProperties
        <5>2. Len(rest) + 1 = count'
          <6>1. Len(rest) = count' - 1
            BY <3>3, Zenon
          <6> QED
            BY <2>counts, <6>1, Indexes, Zenon
        <5> QED
          BY <3>3, <5>1, <5>2
      <4>2. \A i \in 1 .. count' - 1 : PendingSeq'[i] = rest[i]
        <5>1. \A i \in 1 .. count' - 1 :
                 Pending(i)' = Pending(IF count = Capacity THEN i + 1 ELSE i)
          BY <3>2, PushMoves
        <5>2. \A i \in 1 .. count' - 1 : i \in 1 .. count'
          BY <2>counts, Indexes, Zenon
        <5>3. \A i \in 1 .. count' - 1 : PendingSeq'[i] = Pending(i)'
          BY <2>0, <5>2, Zenon
        <5> QED
          BY <3>3, <5>1, <5>3, Zenon
      <4>3. \A i \in 1 .. count' : PendingSeq'[i] = Append(rest, e)[i]
        <5>1. \A i \in 1 .. count' : i \in 1 .. count' - 1 \/ i = count'
          BY <2>counts, Indexes, Zenon
        <5> QED
          BY <3>4, <4>1, <4>2, <5>1, Zenon
      <4> QED
        BY <2>0, <4>1, <4>3, SeqEqual
    <3>6. Queue!Push(e)
      BY <2>0, <3>2, <3>5 DEF rest, Queue!Push, Queue!Newest, PendingSeq, Pending
    <3> QED
      BY <3>2, <3>6 DEF Queue!QueueNext
  <2>4. ASSUME UNCHANGED <<ring, polled>> PROVE UNCHANGED mapped
    BY <2>4 DEF ring, PendingSeq, Pending
  <2>5. CASE \/ xrCreateInstance \/ Tick \/ Aside
             \/ \E h \in Handles : xrDestroySession(h) \/ xrWaitFrame(h)
    <3>1. UNCHANGED <<ring, polled>>
      BY <2>5, AsideKeeps DEF ring, history, xrCreateInstance, Tick, xrDestroySession, xrWaitFrame
    <3> QED
      BY <2>4, <3>1
  <2> HIDE DEF mapped
  <2> QED
    BY <2>1, <2>2, <2>3, <2>5 DEF Next, Aside
<1>3. Inv /\ Inv' /\ [Next]_vars
      => [Queue!QueueNext]_<<[i \in 1 .. count |-> entries[Slot(head + i - 1)]], polled>>
  BY <1>2 DEF PendingSeq, Pending
<1> QED
  BY <1>1, <1>3, TypeCorrect, PTL DEF Spec, RingIsQueue, Queue!QueueSpec
-----------------------------------------------------------------------------
\* The tracking hand-off.

\* Every client has a connection, and only poses of S are on their way.
Pipes(S) == [Clients -> Seq(Seq(S)) \ {<<>>}]

LEMMA SeqGrows ==
  ASSUME NEW S, NEW T, S \subseteq T
  PROVE  Seq(S) \subseteq Seq(T)
<1> SUFFICES ASSUME NEW s \in Seq(S) PROVE s \in Seq(T)
  OBVIOUS
<1>1. Len(s) \in Nat /\ s \in [1 .. Len(s) -> T]
  OBVIOUS
<1> QED
  BY <1>1

\* A client's sending, the host's receiving and a new connection keep poses of S.
LEMMA PoseSent ==
  ASSUME NEW S, pipes \in Pipes(S), NEW c \in Clients, NEW pose \in S
  PROVE  [pipes EXCEPT ![c][Len(pipes[c])] = Append(@, pose)] \in Pipes(S)
<1> DEFINE n == Len(pipes[c])
<1>1. pipes[c] \in Seq(Seq(S)) /\ n \in 1 .. Len(pipes[c])
  BY DEF Pipes
<1>2. pipes[c][n] \in Seq(S)
  BY <1>1, ElementOfSeq
<1>3. Append(pipes[c][n], pose) \in Seq(S)
  BY <1>2, AppendProperties
<1> HIDE DEF n
<1>4. /\ [pipes[c] EXCEPT ![n] = Append(@, pose)] \in Seq(Seq(S))
      /\ Len([pipes[c] EXCEPT ![n] = Append(@, pose)]) = Len(pipes[c])
  BY <1>1, <1>3, ExceptSeq
<1>5. [pipes[c] EXCEPT ![n] = Append(@, pose)] # <<>>
  BY <1>1, <1>4
<1>6. [pipes EXCEPT ![c] = [pipes[c] EXCEPT ![n] = Append(@, pose)]] \in Pipes(S)
  BY <1>4, <1>5 DEF Pipes
<1> QED
  BY <1>6 DEF n, Pipes

LEMMA PoseReceived ==
  ASSUME NEW S, pipes \in Pipes(S), NEW c \in Clients, NEW k \in 1 .. Len(pipes[c]),
         pipes[c][k] # <<>>
  PROVE  /\ [pipes EXCEPT ![c][k] = Tail(@)] \in Pipes(S)
         /\ Head(pipes[c][k]) \in S
<1>1. pipes[c] \in Seq(Seq(S)) /\ pipes[c] # <<>>
  BY DEF Pipes
<1>2. pipes[c][k] \in Seq(S)
  BY <1>1, ElementOfSeq
<1>3. Tail(pipes[c][k]) \in Seq(S) /\ Head(pipes[c][k]) \in S
  BY <1>2, HeadTailProperties
<1>4. /\ [pipes[c] EXCEPT ![k] = Tail(@)] \in Seq(Seq(S))
      /\ Len([pipes[c] EXCEPT ![k] = Tail(@)]) = Len(pipes[c])
  BY <1>1, <1>3, ExceptSeq
<1>5. [pipes[c] EXCEPT ![k] = Tail(@)] # <<>>
  BY <1>1, <1>4
<1>6. [pipes EXCEPT ![c] = [pipes[c] EXCEPT ![k] = Tail(@)]] \in Pipes(S)
  BY <1>4, <1>5 DEF Pipes
<1> QED
  BY <1>3, <1>6 DEF Pipes

LEMMA PipeOpened ==
  ASSUME NEW S, pipes \in Pipes(S), NEW c \in Clients
  PROVE  [pipes EXCEPT ![c] = Append(@, <<>>)] \in Pipes(S)
<1>1. pipes[c] \in Seq(Seq(S)) /\ <<>> \in Seq(S)
  BY DEF Pipes
<1>2. /\ Append(pipes[c], <<>>) \in Seq(Seq(S))
      /\ Len(Append(pipes[c], <<>>)) = Len(pipes[c]) + 1
  BY <1>1, AppendProperties
<1>3. Append(pipes[c], <<>>) # <<>>
  BY <1>1, <1>2
<1> QED
  BY <1>2, <1>3 DEF Pipes

LEMMA EmptyPipes == ASSUME NEW S PROVE <<<<>>>> \in Seq(Seq(S)) \ {<<>>}
OBVIOUS

\* What may be added to S while poses are on their way.
LEMMA PipesGrow ==
  ASSUME NEW S, NEW T, S \subseteq T
  PROVE  Pipes(S) \subseteq Pipes(T)
<1>1. Seq(Seq(S)) \subseteq Seq(Seq(T))
  BY SeqGrows
<1> QED
  BY <1>1 DEF Pipes
-----------------------------------------------------------------------------
LEMMA NormalizedRecords ==
  ASSUME NEW pose \in Poses
  PROVE  record(pose) \in Records
BY DEF record, Poses, Records, Normalized

\* Types.
THEOREM HandoffTypeCorrect == HandoffSpec => []HandoffTypeOK
<1>1. HandoffInit => HandoffTypeOK
  <2> SUFFICES ASSUME HandoffInit PROVE HandoffTypeOK
    OBVIOUS
  <2>1. answer \in [eyes : Seq(Maybe), at : 0 .. time]
    BY DEF HandoffInit, NoAnswer, Maybe
  <2>2. pipes \in [Clients -> Seq(Seq(Poses)) \ {<<>>}]
    BY EmptyPipes DEF HandoffInit
  <2>3. booted \in [Machines -> Int] /\ \A m \in Machines : booted[m] <= time
    BY TrackingAssumption DEF HandoffInit
  <2> QED
    BY <2>1, <2>2, <2>3, TrackingAssumption DEF HandoffInit, HandoffTypeOK, Maybe
<1>2. HandoffTypeOK /\ [HandoffNext]_handoff => HandoffTypeOK'
  <2> SUFFICES ASSUME HandoffTypeOK, [HandoffNext]_handoff PROVE HandoffTypeOK'
    OBVIOUS
  <2>0. pipes \in Pipes(Poses)
    BY DEF HandoffTypeOK, Pipes
  <2>1. ASSUME NEW c \in Clients, sendSyntheticPose(c) PROVE HandoffTypeOK'
    <3>1. Clock(At(c)) \in Nat
      BY DEF HandoffTypeOK, Clock, At, Machines
    <3>2. PICK l \in Lengths :
             pipes' = [pipes EXCEPT ![c][Len(pipes[c])] = Append(@,
                [by |-> c, taken |-> time, boot |-> booted[At(c)],
                 stamp |-> Clock(At(c)), length |-> l])]
      BY <2>1 DEF sendSyntheticPose
    <3>3. pipes' \in Pipes(Poses)
      <4> DEFINE pose == [by |-> c, taken |-> time, boot |-> booted[At(c)],
                 stamp |-> Clock(At(c)), length |-> l]
      <4>1. pose \in Poses
        BY <3>1 DEF HandoffTypeOK, Poses, At, Machines
      <4> HIDE DEF pose
      <4>2. [pipes EXCEPT ![c][Len(pipes[c])] = Append(@, pose)] \in Pipes(Poses)
        BY <2>0, <4>1, PoseSent
      <4> QED
        BY <3>2, <4>2 DEF pose
    <3> QED
      BY <2>1, <3>3, TrackingAssumption DEF HandoffTypeOK, sendSyntheticPose, reader, Pipes
  <2>2. ASSUME NEW c \in Clients, Reconnect(c) PROVE HandoffTypeOK'
    <3>1. pipes' \in Pipes(Poses)
      BY <2>0, <2>2, PipeOpened DEF Reconnect
    <3> QED
      BY <2>2, <3>1 DEF HandoffTypeOK, Reconnect, reader, Pipes
  <2>3. ASSUME NEW c \in Clients, NEW k \in 1 .. Len(pipes[c]), handlePose(c, k)
        PROVE  HandoffTypeOK'
    <3>1. pipes' \in Pipes(Poses) /\ Head(pipes[c][k]) \in Poses
      BY <2>0, <2>3, PoseReceived DEF handlePose
    <3>2. file' \in Maybe
      BY <2>3, <3>1, NormalizedRecords DEF handlePose, HandoffTypeOK, Maybe
    <3> QED
      BY <2>3, <3>1, <3>2 DEF HandoffTypeOK, handlePose, reader, Pipes
  <2>4. CASE ReadFile
    BY <2>4 DEF HandoffTypeOK, ReadFile
  <2>5. CASE xrLocateSpace \/ xrLocateViews
    <3>1. Loaded(got) \in Maybe
      BY DEF Loaded, HandoffTypeOK, Maybe
    <3>2. <<Loaded(got)>> \in Seq(Maybe) /\ <<Loaded(got), Loaded(got)>> \in Seq(Maybe)
      BY <3>1
    <3>3. PICK eyes \in Seq(Maybe) : Return(eyes)
      BY <2>5, <3>2 DEF xrLocateSpace, xrLocateViews
    <3> QED
      BY <3>3 DEF Return, HandoffTypeOK, Maybe
  <2>6. CASE Elapse
    <3>1. answer' \in [eyes : Seq(Maybe), at : 0 .. time']
      <4>1. /\ answer' = answer /\ answer = [eyes |-> answer.eyes, at |-> answer.at]
            /\ answer.eyes \in Seq(Maybe)
        BY <2>6 DEF Elapse, HandoffTypeOK, reader
      <4>2. answer.at \in 0 .. time'
        BY <2>6 DEF Elapse, HandoffTypeOK
      <4> QED
        BY <4>1, <4>2
    <3>2. booted' \in [Machines -> Int] /\ \A m \in Machines : booted'[m] <= time'
      BY <2>6 DEF Elapse, HandoffTypeOK
    <3> QED
      BY <2>6, <3>1, <3>2, TrackingAssumption DEF Elapse, HandoffTypeOK, reader
  <2>7. ASSUME NEW m \in Machines, Reboot(m) PROVE HandoffTypeOK'
    <3>1. pipes' \in Pipes(Poses)
      BY <2>0, <2>7, EmptyPipes DEF Reboot, Pipes
    <3>2. answer' \in [eyes : Seq(Maybe), at : 0 .. time']
      <4>1. answer' = answer \/ answer' = NoAnswer
        BY <2>7 DEF Reboot, reader
      <4>2. time' = time
        BY <2>7 DEF Reboot
      <4>3. NoAnswer \in [eyes : Seq(Maybe), at : 0 .. time]
        BY DEF NoAnswer, Maybe, HandoffTypeOK
      <4> QED
        BY <4>1, <4>2, <4>3 DEF HandoffTypeOK
    <3>3. booted' \in [Machines -> Int] /\ \A n \in Machines : booted'[n] <= time'
      BY <2>7 DEF Reboot, HandoffTypeOK
    <3> QED
      BY <2>7, <3>1, <3>2, <3>3, TrackingAssumption DEF Reboot, HandoffTypeOK, reader, Pipes, Maybe
  <2>8. CASE UNCHANGED handoff
    BY <2>8 DEF HandoffTypeOK, handoff
  <2> QED
    BY <2>1, <2>2, <2>3, <2>4, <2>5, <2>6, <2>7, <2>8 DEF HandoffNext
<1> QED
  BY <1>1, <1>2, PTL DEF HandoffSpec

\* Both eyes are placed around one head.
THEOREM EyesAlwaysAgree == HandoffSpec => []EyesAgree
<1>1. HandoffInit => EyesAgree
  BY DEF HandoffInit, NoAnswer, EyesAgree
<1>2. EyesAgree /\ [HandoffNext]_handoff => EyesAgree'
  <2> SUFFICES ASSUME EyesAgree, [HandoffNext]_handoff PROVE EyesAgree'
    OBVIOUS
  <2>1. CASE answer' = answer
    BY <2>1 DEF EyesAgree
  <2>2. CASE xrLocateSpace \/ xrLocateViews
    BY <2>2 DEF xrLocateSpace, xrLocateViews, Return, EyesAgree
  <2>3. CASE answer' = NoAnswer
    BY <2>3 DEF NoAnswer, EyesAgree
  <2> QED
    BY <2>1, <2>2, <2>3
    DEF HandoffNext, handoff, reader, sendSyntheticPose, Reconnect, handlePose, ReadFile, Elapse, Reboot
<1> QED
  BY <1>1, <1>2, PTL DEF HandoffSpec
-----------------------------------------------------------------------------
\* Stamps are the times the poses were taken, but for the moment their clock was
\* started.
Stamped(t) == {p \in Poses : p.stamp = p.taken - p.boot /\ p.taken <= t}

StampedOnFile(r) ==
    r # NoPose => r \in Records /\ r.stamp = r.taken - r.boot /\ r.taken <= time

StampsTrue ==
    /\ pipes \in Pipes(Stamped(time))
    /\ StampedOnFile(file) /\ StampedOnFile(got)
    /\ NoStalePose

LEMMA RecordStamped ==
  ASSUME HandoffTypeOK, NEW pose \in Stamped(time)
  PROVE  StampedOnFile(record(pose))
<1>1. pose \in Poses /\ pose.stamp = pose.taken - pose.boot /\ pose.taken <= time
  BY DEF Stamped
<1> QED
  BY <1>1, NormalizedRecords DEF StampedOnFile, record

\* A pose of the application's clock is used exactly as long as it is young.
LEMMA UsableIsYoung ==
  ASSUME HandoffTypeOK, NEW r, r # NoPose, StampedOnFile(r), SameClock(r)
  PROVE  Usable(r) <=> time - r.taken <= StaleNs
<1>1. time \in Nat /\ booted["here"] \in Int /\ r.taken \in Nat /\ StaleNs \in Nat
  BY TrackingAssumption DEF HandoffTypeOK, Machines, StampedOnFile, Records
<1>2. r.stamp = r.taken - booted["here"] /\ r.taken <= time
  BY DEF StampedOnFile, SameClock
<1> QED
  BY <1>1, <1>2 DEF Usable, Clock

LEMMA StampsStayTrue ==
  ASSUME HandoffTypeOK, StampsTrue, [HandoffNext]_handoff
  PROVE  StampsTrue'
<1> DEFINE S == Stamped(time)
<1>0. pipes \in Pipes(S)
  BY DEF StampsTrue
<1>1. ASSUME NEW c \in Clients, sendSyntheticPose(c) PROVE StampsTrue'
  <2>1. PICK l \in Lengths :
           pipes' = [pipes EXCEPT ![c][Len(pipes[c])] = Append(@,
              [by |-> c, taken |-> time, boot |-> booted[At(c)],
               stamp |-> Clock(At(c)), length |-> l])]
    BY <1>1 DEF sendSyntheticPose
  <2> DEFINE pose == [by |-> c, taken |-> time, boot |-> booted[At(c)],
                      stamp |-> Clock(At(c)), length |-> l]
  <2>2. pose \in S
    <3>1. Clock(At(c)) \in Nat /\ Clock(At(c)) = time - booted[At(c)]
      BY DEF HandoffTypeOK, Clock, At, Machines
    <3>2. pose \in Poses
      BY <3>1 DEF HandoffTypeOK, Poses, At, Machines
    <3> QED
      BY <3>1, <3>2 DEF Stamped, HandoffTypeOK
  <2> HIDE DEF pose, S
  <2>3. [pipes EXCEPT ![c][Len(pipes[c])] = Append(@, pose)] \in Pipes(S)
    BY <1>0, <2>2, PoseSent
  <2>4. pipes' \in Pipes(S)
    BY <2>1, <2>3 DEF pose
  <2> QED
    BY <1>1, <2>4
    DEF StampsTrue, sendSyntheticPose, reader, StampedOnFile, NoStalePose, SameClock, S
<1>2. ASSUME NEW c \in Clients, Reconnect(c) PROVE StampsTrue'
  <2>1. pipes' \in Pipes(S)
    BY <1>0, <1>2, PipeOpened DEF Reconnect
  <2> QED
    BY <1>2, <2>1 DEF StampsTrue, Reconnect, reader, StampedOnFile, NoStalePose, SameClock
<1>3. ASSUME NEW c \in Clients, NEW k \in 1 .. Len(pipes[c]), handlePose(c, k)
      PROVE  StampsTrue'
  <2>1. pipes' \in Pipes(S) /\ Head(pipes[c][k]) \in S
    <3> HIDE DEF S
    <3> QED
      BY <1>0, <1>3, PoseReceived DEF handlePose
  <2>2. file' = file \/ file' = record(Head(pipes[c][k]))
    BY <1>3 DEF handlePose
  <2>3. StampedOnFile(file') /\ UNCHANGED <<time, booted, got, answer>>
    BY <1>3, <2>1, <2>2, RecordStamped DEF handlePose, reader, StampsTrue
  <2> QED
    BY <2>1, <2>3 DEF StampsTrue, StampedOnFile, NoStalePose, SameClock
<1>4. CASE ReadFile
  BY <1>4 DEF StampsTrue, ReadFile, StampedOnFile, NoStalePose, SameClock
<1>5. CASE xrLocateSpace \/ xrLocateViews
  <2>1. /\ UNCHANGED <<time, booted, pipes, file>> /\ got' = NoPose
        /\ answer'.at = time
        /\ \A i \in DOMAIN answer'.eyes : answer'.eyes[i] = Loaded(got)
    BY <1>5 DEF xrLocateSpace, xrLocateViews, Return
  <2>2. Loaded(got) # NoPose /\ SameClock(Loaded(got)) => time - Loaded(got).taken <= StaleNs
    BY UsableIsYoung DEF Loaded, StampsTrue, Usable
  <2>3. NoStalePose'
    BY <2>1, <2>2 DEF NoStalePose, SameClock
  <2> QED
    BY <2>1, <2>3 DEF StampsTrue, StampedOnFile
<1>6. CASE Elapse
  <2>1. /\ time' = time + 1 /\ time \in Nat
        /\ UNCHANGED <<booted, pipes, file, got, answer>>
    BY <1>6 DEF Elapse, reader, HandoffTypeOK
  <2>2. S \subseteq Stamped(time')
    BY <2>1 DEF Stamped, Poses
  <2>3. pipes' \in Pipes(Stamped(time'))
    <3> HIDE DEF S
    <3> QED
      BY <1>0, <2>1, <2>2, PipesGrow
  <2>4. StampedOnFile(file)' /\ StampedOnFile(got)'
    BY <2>1 DEF StampsTrue, StampedOnFile, Records
  <2>5. NoStalePose'
    BY <2>1 DEF StampsTrue, NoStalePose, SameClock
  <2> QED
    BY <2>3, <2>4, <2>5 DEF StampsTrue
<1>7. ASSUME NEW m \in Machines, Reboot(m) PROVE StampsTrue'
  <2>1. pipes' \in Pipes(S)
    <3> HIDE DEF S
    <3> QED
      BY <1>0, <1>7, EmptyPipes DEF Reboot, Pipes
  <2>2. UNCHANGED <<time, file>> /\ got' \in {got, NoPose}
    BY <1>7 DEF Reboot, reader
  <2>3. NoStalePose'
    <3>1. CASE m = "here"
      BY <1>7, <3>1 DEF Reboot, NoStalePose, NoAnswer
    <3>2. CASE m # "here"
      <4>1. booted'["here"] = booted["here"] /\ answer' = answer
        BY <1>7, <3>2 DEF Reboot, reader, HandoffTypeOK, Machines
      <4> QED
        BY <4>1 DEF StampsTrue, NoStalePose, SameClock
    <3> QED
      BY <3>1, <3>2
  <2> QED
    BY <2>1, <2>2, <2>3 DEF StampsTrue, StampedOnFile
<1>8. CASE UNCHANGED handoff
  BY <1>8 DEF handoff, StampsTrue, StampedOnFile, NoStalePose, SameClock
<1> QED
  BY <1>1, <1>2, <1>3, <1>4, <1>5, <1>6, <1>7, <1>8 DEF HandoffNext

LEMMA StampsAlwaysTrue == HandoffSpec => []StampsTrue
<1>1. HandoffInit => StampsTrue
  <2> SUFFICES ASSUME HandoffInit PROVE StampsTrue
    OBVIOUS
  <2>1. pipes \in Pipes(Stamped(time))
    BY EmptyPipes DEF HandoffInit, Pipes
  <2> QED
    BY <2>1 DEF HandoffInit, StampsTrue, StampedOnFile, NoStalePose, NoAnswer
<1>2. HandoffTypeOK /\ StampsTrue /\ [HandoffNext]_handoff => StampsTrue'
  BY StampsStayTrue
<1> QED
  BY <1>1, <1>2, HandoffTypeCorrect, PTL DEF HandoffSpec

\* No application is given a pose of its own clock that is over the limit.
THEOREM StalePosesNever == HandoffSpec => []NoStalePose
<1>1. StampsTrue => NoStalePose
  BY DEF StampsTrue
<1> QED
  BY <1>1, StampsAlwaysTrue, PTL

\* A young pose of the application's clock that was read is the answer.
THEOREM FreshPosesUsed == HandoffSpec => FreshPoseUsed
<1>1. HandoffTypeOK /\ StampsTrue /\ [HandoffNext]_handoff
      => [ReadYoungPose /\ SameClock(got) => GivenAsRead]_handoff
  <2> SUFFICES ASSUME HandoffTypeOK, StampsTrue, [HandoffNext]_handoff, ReadYoungPose, SameClock(got)
               PROVE  GivenAsRead
    OBVIOUS
  <2>1. xrLocateSpace \/ xrLocateViews
    BY DEF ReadYoungPose, HandoffNext, handoff, reader, sendSyntheticPose, Reconnect, handlePose,
           ReadFile, Elapse, Reboot
  <2>2. Usable(got)
    BY UsableIsYoung DEF StampsTrue, ReadYoungPose
  <2> QED
    BY <2>1, <2>2 DEF xrLocateSpace, xrLocateViews, Return, Loaded, GivenAsRead
<1> QED
  BY <1>1, StampsAlwaysTrue, HandoffTypeCorrect, PTL DEF HandoffSpec, FreshPoseUsed
-----------------------------------------------------------------------------
\* Lengths whose squares are finite.
UnitOnFile(r) == r # NoPose => r.unit

UnitsOnly == UnitOnFile(file) /\ UnitOnFile(got) /\ UnitOrientations

\* Orientations handed out have unit length if no length is 2^64 or more.
THEOREM OrientationsAreUnit ==
  ASSUME \A l \in Lengths : l < 64
  PROVE  HandoffSpec => []UnitOrientations
<1>1. HandoffInit => UnitsOnly
  BY DEF HandoffInit, NoAnswer, UnitsOnly, UnitOnFile, UnitOrientations
<1>2. HandoffTypeOK /\ UnitsOnly /\ [HandoffNext]_handoff => UnitsOnly'
  <2> SUFFICES ASSUME HandoffTypeOK, UnitsOnly, [HandoffNext]_handoff PROVE UnitsOnly'
    OBVIOUS
  <2>1. ASSUME NEW c \in Clients, NEW k \in 1 .. Len(pipes[c]), handlePose(c, k)
        PROVE  UnitsOnly'
    <3>1. Head(pipes[c][k]) \in Poses
      BY <2>1, PoseReceived DEF HandoffTypeOK, Pipes, handlePose
    <3>2. ASSUME NEW pose \in Poses PROVE record(pose).unit
      <4>1. pose.length \in Lengths /\ pose.length \in Int /\ pose.length < 64
        BY TrackingAssumption DEF Poses
      <4> QED
        <5>1. Normalized(pose.length)
          BY <4>1 DEF Normalized, Infinite
        <5> QED
          BY <5>1 DEF record
    <3>3. /\ file' = file \/ file' = record(Head(pipes[c][k]))
          /\ UNCHANGED <<got, answer>>
      BY <2>1 DEF handlePose, reader
    <3> QED
      BY <3>1, <3>2, <3>3 DEF UnitsOnly, UnitOnFile, UnitOrientations
  <2>2. CASE ReadFile
    BY <2>2 DEF ReadFile, UnitsOnly, UnitOnFile, UnitOrientations
  <2>3. CASE xrLocateSpace \/ xrLocateViews
    <3>1. /\ file' = file /\ got' = NoPose
          /\ \A i \in DOMAIN answer'.eyes : answer'.eyes[i] = Loaded(got)
      BY <2>3 DEF xrLocateSpace, xrLocateViews, Return
    <3>2. Loaded(got) \in {got, NoPose}
      BY DEF Loaded
    <3> QED
      BY <3>1, <3>2 DEF UnitsOnly, UnitOnFile, UnitOrientations
  <2>4. ASSUME NEW m \in Machines, Reboot(m) PROVE UnitsOnly'
    BY <2>4 DEF Reboot, reader, NoAnswer, UnitsOnly, UnitOnFile, UnitOrientations
  <2>5. CASE UNCHANGED <<file, reader>>
    BY <2>5 DEF reader, UnitsOnly, UnitOnFile, UnitOrientations
  <2> QED
    BY <2>1, <2>2, <2>3, <2>4, <2>5
    DEF HandoffNext, handoff, reader, sendSyntheticPose, Reconnect, Elapse
<1>3. UnitsOnly => UnitOrientations
  BY DEF UnitsOnly
<1> QED
  BY <1>1, <1>2, <1>3, HandoffTypeCorrect, PTL DEF HandoffSpec
=============================================================================
