-------------------------- MODULE TrustStoreProofs --------------------------
(***************************************************************************)
(* For any identities, either policy and any number of starts: the list in *)
(* force goes by the requests made of it, whatever fails and whoever else  *)
(* writes the file; and what a macvr-runtime without another one beside it *)
(* has answered is in the file.                                            *)
(*                                                                         *)
(* The argument of the second: at any time one store at most can write,    *)
(* and it holds the file's identities; only one of auto-trusted loopback   *)
(* clients, whose write may have failed, can be in memory alone.           *)
(***************************************************************************)
EXTENDS TrustStore, TLAPS

USE TrustAssumption DEF Runtimes, Ops, Commands, Requests

\* Every variable keeps its type through every step, and the host of the running
\* runtime goes on answering.
THEOREM TypeCorrect == Spec => []TypeOK
<1>1. Init => TypeOK
  BY DEF Init, TypeOK, NoJudgement, Closed, Unasked
<1>2. TypeOK /\ [Next]_vars => TypeOK'
  <2> SUFFICES ASSUME TypeOK, [Next]_vars PROVE TypeOK'
    OBVIOUS
  <2>0. setting' = setting
    BY DEF Next, vars
  <2> USE <2>0 DEF TypeOK, Owner
  <2>1. CASE OpenStore
    BY <2>1 DEF OpenStore
  <2>2. CASE List
    BY <2>2 DEF List, Closed, ThisCommand
  <2>3. CASE Start
    <3>1. PICK loaded \in SUBSET Ids : records' = [records EXCEPT ![started + 1] = loaded]
      BY <2>3 DEF Start
    <3>2. /\ started' \in 0 .. MaxStarts /\ current' = started' /\ current' \in serving'
          /\ serving' \subseteq 1 .. started' /\ records' \in [1 .. MaxStarts -> SUBSET Ids]
      BY <2>3, <3>1 DEF Start
    <3>3. asked' \in [Ids -> {"trust", "untrust"} \cup {"none"}]
      BY <2>3 DEF Start, Unasked
    <3>4. own' = Closed \/ own' = own
      BY <2>3 DEF Start
    <3>5. Closed \in [open : BOOLEAN, beside : BOOLEAN, changed : BOOLEAN,
                     records : SUBSET Ids]
      BY DEF Closed
    <3> QED
      BY <2>3, <3>2, <3>3, <3>4, <3>5 DEF Start
  <2>4. CASE Stop
    BY <2>4 DEF Stop
  <2>5. CASE Exit
    BY <2>5 DEF Exit, Closed, NoJudgement
  <2>6. ASSUME NEW op \in Ops, NEW id \in Ids, EditRunning(op, id) PROVE TypeOK'
    BY <2>6 DEF EditRunning, Apply, Persist, Changed
  <2>7. ASSUME NEW op \in Ops, NEW id \in Ids, EditOwn(op, id) PROVE TypeOK'
    <3>1. PICK ok \in BOOLEAN :
            /\ Apply(op, id, own.records, ok)
            /\ IF ThisCommand /\ ok
               THEN /\ own' = [own EXCEPT !.records = Changed(op, id, @), !.changed = TRUE]
                    /\ UNCHANGED command
               ELSE own' = Closed /\ command' = IF ThisCommand THEN "none" ELSE command
      BY <2>7 DEF EditOwn
    <3>2. file' \subseteq Ids /\ answered' \in [Ids -> {"trust", "untrust"} \cup {"none"}]
      BY <3>1 DEF Apply, Persist, Changed
    <3>3. CASE ThisCommand /\ ok
      <4>1. Changed(op, id, own.records) \in SUBSET Ids
        BY DEF Changed
      <4>2. own' = [own EXCEPT !.records = Changed(op, id, own.records), !.changed = TRUE]
        BY <3>1, <3>3
      <4> QED
        BY <2>7, <3>1, <3>2, <3>3, <4>1, <4>2 DEF EditOwn
    <3>4. CASE ~(ThisCommand /\ ok)
      <4>1. own' = Closed /\ command' \in {"list", "edits", "options"} \cup {"none"}
        BY <3>1, <3>4
      <4>2. Closed \in [open : BOOLEAN, beside : BOOLEAN, changed : BOOLEAN,
                       records : SUBSET Ids]
        BY DEF Closed
      <4> QED
        BY <2>7, <3>2, <4>1, <4>2 DEF EditOwn
    <3> QED
      BY <3>3, <3>4
  <2>8. ASSUME NEW r \in Runtimes, Conclude(r) PROVE TypeOK'
    <3> QED
      BY <2>8 DEF Conclude, markSeen, autoTrust, Persist, NoJudgement
  <2>9. ASSUME NEW r \in Runtimes, Drained(r) PROVE TypeOK'
    BY <2>9 DEF Drained
  <2>10. ASSUME NEW r \in Runtimes, NEW id \in Ids, Judge(r, id) PROVE TypeOK'
    BY <2>10 DEF Judge
  <2>11. CASE UNCHANGED vars
    BY <2>11 DEF vars
  <2> QED
    BY <2>1, <2>2, <2>3, <2>4, <2>5, <2>6, <2>7, <2>8, <2>9, <2>10, <2>11 DEF Next
<1> QED
  BY <1>1, <1>2, PTL DEF Spec

\* The list in force goes by the last request made of it: nothing the
\* authorizer does, at any point, brings back a client that was removed.
THEOREM RequestsDecide == Spec => []DecisionsFollowRequests
<1>1. Init => DecisionsFollowRequests
  BY DEF Init, DecisionsFollowRequests
<1>2. TypeOK /\ DecisionsFollowRequests /\ [Next]_vars => DecisionsFollowRequests'
  <2> SUFFICES ASSUME TypeOK, DecisionsFollowRequests, [Next]_vars
               PROVE DecisionsFollowRequests'
    OBVIOUS
  <2>0. setting' = setting
    BY DEF Next, vars
  <2> USE <2>0 DEF TypeOK, DecisionsFollowRequests, AutoTrusted, Owner
  <2>1. CASE OpenStore
    BY <2>1 DEF OpenStore
  <2>2. CASE List
    BY <2>2 DEF List
  <2>3. CASE Start
    BY <2>3 DEF Start, Unasked
  <2>4. CASE Stop
    BY <2>4 DEF Stop
  <2>5. CASE Exit
    BY <2>5 DEF Exit
  <2>6. ASSUME NEW op \in Ops, NEW id \in Ids, EditRunning(op, id)
        PROVE DecisionsFollowRequests'
    BY <2>6 DEF EditRunning, Changed
  <2>7. ASSUME NEW op \in Ops, NEW id \in Ids, EditOwn(op, id)
        PROVE DecisionsFollowRequests'
    BY <2>7 DEF EditOwn
  <2>8. ASSUME NEW r \in Runtimes, Conclude(r) PROVE DecisionsFollowRequests'
    BY <2>8 DEF Conclude, markSeen, autoTrust
  <2>9. ASSUME NEW r \in Runtimes, Drained(r) PROVE DecisionsFollowRequests'
    BY <2>9 DEF Drained
  <2>10. ASSUME NEW r \in Runtimes, NEW id \in Ids, Judge(r, id)
         PROVE DecisionsFollowRequests'
    BY <2>10 DEF Judge
  <2>11. CASE UNCHANGED vars
    BY <2>11 DEF vars
  <2> QED
    BY <2>1, <2>2, <2>3, <2>4, <2>5, <2>6, <2>7, <2>8, <2>9, <2>10, <2>11 DEF Next
<1> QED
  BY <1>1, <1>2, TypeCorrect, PTL DEF Spec
-----------------------------------------------------------------------------
\* One store can write, and nobody else's change is missing from it.
OneWriter ==
    /\ own.open => serving = {} /\ ~own.beside /\ own.records = file
    /\ \A r, s \in serving : r = s
    /\ \A r \in Runtimes : judging[r] # NoJudgement => r \in serving
    /\ \A r \in serving :
          /\ file \subseteq records[r]
          /\ \A id \in records[r] \ file : AutoTrusted(id)

\* What a macvr-runtime without another one beside it has answered is in the
\* file, failing writes included: a command that throws ends there and then.
THEOREM AnswersAreKept == Spec => []AnswersKeptAlone
<1> DEFINE Inv == Alone => OneWriter /\ AnswersKept
<1>1. Init => Inv
  BY DEF Init, OneWriter, AnswersKept, Closed, Unasked
<1>2. TypeOK /\ Inv /\ [Next]_vars => Inv'
  <2> SUFFICES ASSUME TypeOK, Inv, [Next]_vars, Alone' PROVE (OneWriter /\ AnswersKept)'
    OBVIOUS
  <2>0. setting' = setting /\ Alone
    BY DEF Next, vars, Alone, Owner
  <2> USE <2>0 DEF TypeOK, OneWriter, AnswersKept, AutoTrusted, Alone, Owner
  <2>1. CASE OpenStore
    BY <2>1 DEF OpenStore, Load
  <2>2. CASE List
    BY <2>2 DEF List, Closed
  <2>3. CASE Start
    BY <2>3 DEF Start, Load, Closed
  <2>4. CASE Stop
    BY <2>4 DEF Stop
  <2>5. CASE Exit
    BY <2>5 DEF Exit, Closed
  <2>6. ASSUME NEW op \in Ops, NEW id \in Ids, EditRunning(op, id) PROVE (OneWriter /\ AnswersKept)'
    BY <2>6 DEF EditRunning
  <2>7. ASSUME NEW op \in Ops, NEW id \in Ids, EditOwn(op, id) PROVE (OneWriter /\ AnswersKept)'
    <3>1. PICK ok \in BOOLEAN :
            /\ Apply(op, id, own.records, ok)
            /\ own' = IF ok THEN [own EXCEPT !.records = Changed(op, id, @), !.changed = TRUE]
                            ELSE Closed
      BY <2>7 DEF EditOwn, ThisCommand
    <3>2. own.records = file /\ serving' = {}
      BY <2>7 DEF EditOwn
    <3>3. ok => file' = Changed(op, id, own.records)
      BY <3>1, <3>2 DEF Apply, Persist, Changed
    <3>4. own'.open => own'.records = file' /\ ~own'.beside
      BY <3>1, <3>3 DEF Closed, Changed
    <3>5. AnswersKept'
      BY <3>1, <3>2 DEF Apply, Persist, Changed
    <3> QED
      BY <2>7, <3>2, <3>4, <3>5 DEF EditOwn
  <2>8. ASSUME NEW r \in Runtimes, Conclude(r) PROVE (OneWriter /\ AnswersKept)'
    <3>1. PICK ok \in BOOLEAN :
            \/ judging[r].trusted /\ markSeen(r, judging[r].id, ok)
            \/ ~judging[r].trusted /\ AutoTrusted(judging[r].id)
                 /\ autoTrust(r, judging[r].id, ok)
            \/ UNCHANGED <<file, records>>
      BY <2>8 DEF Conclude
    <3>2. r \in serving
      BY <2>8 DEF Conclude
    <3>3. CASE judging[r].trusted /\ markSeen(r, judging[r].id, ok)
      BY <2>8, <3>2, <3>3 DEF Conclude, markSeen, Persist
    <3>4. CASE AutoTrusted(judging[r].id) /\ autoTrust(r, judging[r].id, ok)
      BY <2>8, <3>2, <3>4 DEF Conclude, autoTrust, Persist
    <3>5. CASE UNCHANGED <<file, records>>
      BY <2>8, <3>5 DEF Conclude
    <3> QED
      BY <3>1, <3>3, <3>4, <3>5
  <2>9. ASSUME NEW r \in Runtimes, Drained(r) PROVE (OneWriter /\ AnswersKept)'
    BY <2>9 DEF Drained
  <2>10. ASSUME NEW r \in Runtimes, NEW id \in Ids, Judge(r, id) PROVE (OneWriter /\ AnswersKept)'
    BY <2>10 DEF Judge
  <2>11. CASE UNCHANGED vars
    BY <2>11 DEF vars
  <2> QED
    BY <2>1, <2>2, <2>3, <2>4, <2>5, <2>6, <2>7, <2>8, <2>9, <2>10, <2>11 DEF Next
<1>3. Inv => AnswersKeptAlone
  BY DEF AnswersKeptAlone
<1> QED
  BY <1>1, <1>2, <1>3, TypeCorrect, PTL DEF Spec
=============================================================================
