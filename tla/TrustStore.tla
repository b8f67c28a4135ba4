----------------------------- MODULE TrustStore -----------------------------
(***************************************************************************)
(* TrustedClientStore and RuntimeTrustPolicy, as RuntimeService and its    *)
(* owners use them.                                                        *)
(*                                                                         *)
(* A store is a copy of the allow-list in memory; every change rewrites    *)
(* the whole file from that copy.  A running runtime has one store, used   *)
(* by the owner's thread (trustClient, untrustClient) and by the host's    *)
(* queue (authorize).  Without a running runtime the owner makes a store   *)
(* of its own: the Control Center one for each change, the macvr-runtime   *)
(* command one for all the changes its options ask for, before it starts   *)
(* the runtime.  stop() does not wait for the host's queue, so a stopped   *)
(* runtime's store may still be used by it.                                *)
(*                                                                         *)
(* A record is its identity: time stamps and notes are left out, and with  *)
(* them the difference between markSeen and rewriting what is there.       *)
(***************************************************************************)
EXTENDS Naturals, FiniteSets

CONSTANTS
    Ids,                      \* client identities (normalised client@host)
    Loopback,                 \* those whose host isLoopbackHost
    requireTrustedClients, autoTrustLoopbackClients,
    Settings,                 \* who may own the runtime, and what may go wrong
    NoId,
    MaxStarts                 \* bound: runtimes started

ASSUME TrustAssumption ==
    /\ NoId \notin Ids /\ Loopback \subseteq Ids /\ MaxStarts \in Nat
    /\ requireTrustedClients \in BOOLEAN /\ autoTrustLoopbackClients \in BOOLEAN
    /\ Settings \subseteq [owner : {"ControlCenter", "RuntimeCommand"},
                           commandsBeside : BOOLEAN,  \* while a runtime is up
                           readsMayFail : BOOLEAN, writesMayFail : BOOLEAN]

Runtimes == 1 .. MaxStarts
Ops      == {"trust", "untrust"}

\* What macvr-runtime was given: --list-trusted-clients, only changes to the
\* list, or options for the runtime.
Commands == {"list", "edits", "options"}

VARIABLES
    setting,    \* the owner, and what may go wrong, once and for all
    file,       \* the identities in the JSON file
    records,    \* TrustedClientStore.records of each runtime's store
    started,    \* runtimes started so far; the n-th is named n
    current,    \* the runtime whose policy is RuntimeService.trustPolicy, or 0
    serving,    \* runtimes whose host may still call the authorizer
    judging,    \* the authorizer's call under way on each host's queue
    own,        \* the store that belongs to no runtime
    command,    \* what the running macvr-runtime was given, or "none"
    asked,      \* history: the last request made of the current store, per identity
    answered    \* history: the last request answered without an error, likewise

vars == <<setting, file, records, started, current, serving, judging, own, command, asked, answered>>

Owner == setting.owner

NoJudgement == [id |-> NoId, trusted |-> FALSE]
Closed      == [open |-> FALSE, beside |-> FALSE, changed |-> FALSE, records |-> {}]
Unasked     == [i \in Ids |-> "none"]

Init ==
    /\ setting \in Settings
    /\ file \in SUBSET Ids
    /\ records = [r \in Runtimes |-> {}]
    /\ started = 0 /\ current = 0 /\ serving = {}
    /\ judging = [r \in Runtimes |-> NoJudgement]
    /\ own = Closed /\ command = "none"
    /\ asked = Unasked /\ answered = Unasked
-----------------------------------------------------------------------------
\* The file.

\* A file that cannot be read or decoded counts as an empty list.
Load(loaded) ==
    \/ loaded = file
    \/ setting.readsMayFail /\ loaded = {}

\* The write is atomic: all of it or nothing, and then the call throws.
Persist(new, ok) ==
    IF ok THEN file' = new ELSE setting.writesMayFail /\ file' = file

\* Faulty variant: a new record is added after the file was written.
ChangedWrongWay(op, id, old) == IF op = "trust" THEN old ELSE old \ {id}

Changed(op, id, old) == IF op = "trust" THEN old \cup {id} ELSE old \ {id}

\* trust and untrust of a store with these records, under its lock.  Untrusting
\* what is not there answers without a write; a failed write throws.
Apply(op, id, old, ok) ==
    /\ IF op = "untrust" /\ id \notin old THEN ok /\ UNCHANGED file
                                          ELSE Persist(Changed(op, id, old), ok)
    /\ answered' = [answered EXCEPT ![id] = IF ok THEN op ELSE "none"]
-----------------------------------------------------------------------------
\* The owner: one thread.

\* The store is that of the macvr-runtime whose turn to serve is still to come.
ThisCommand == Owner = "RuntimeCommand" /\ ~own.beside

\* The Control Center's list without a runtime, or the start of macvr-runtime.
OpenStore ==
    /\ ~own.open
    /\ \E loaded \in SUBSET Ids, beside \in BOOLEAN :
          /\ Load(loaded)
          /\ IF beside THEN current # 0 /\ setting.commandsBeside
                       ELSE current = 0 /\ (Owner = "RuntimeCommand" => serving = {})
          /\ own' = [open |-> TRUE, beside |-> beside, changed |-> FALSE, records |-> loaded]
          /\ IF Owner = "RuntimeCommand" /\ ~beside THEN command' \in Commands
                                                    ELSE UNCHANGED command
    /\ UNCHANGED <<file, records, started, current, serving, judging, asked, answered>>

\* A change without a runtime.  Only macvr-runtime goes on with the same store,
\* and only if nothing was thrown.
EditOwn(op, id) ==
    /\ own.open
    /\ \E ok \in BOOLEAN :
          /\ Apply(op, id, own.records, ok)
          /\ IF ThisCommand /\ ok
             THEN /\ own' = [own EXCEPT !.records = Changed(op, id, @), !.changed = TRUE]
                  /\ UNCHANGED command
             ELSE own' = Closed /\ command' = IF ThisCommand THEN "none" ELSE command
    /\ UNCHANGED <<records, started, current, serving, judging, asked>>

\* Listing the clients ends macvr-runtime; the Control Center only reads them.
List ==
    /\ own.open /\ (ThisCommand => command = "list")
    /\ own' = Closed
    /\ command' = IF ThisCommand THEN "none" ELSE command
    /\ UNCHANGED <<file, records, started, current, serving, judging, asked, answered>>

\* start(): a store of the runtime's own.
Start ==
    /\ current = 0 /\ started < MaxStarts
    /\ IF Owner = "RuntimeCommand"
       THEN /\ own.open /\ ~own.beside /\ command # "list"
            /\ command = "edits" => own.changed
            /\ own' = Closed
       ELSE (own.open => own.beside) /\ UNCHANGED own
    /\ started' = started + 1
    /\ current' = started + 1
    /\ serving' = serving \cup {started + 1}
    /\ \E loaded \in SUBSET Ids :
          Load(loaded) /\ records' = [records EXCEPT ![started + 1] = loaded]
    /\ asked' = Unasked
    /\ UNCHANGED <<file, judging, command, answered>>

\* stop(): the host's queue goes on until its stop block has run.
Stop ==
    /\ current # 0
    /\ current' = 0
    /\ UNCHANGED <<file, records, started, serving, judging, own, command, asked, answered>>

\* The process exits after stop(), or crashes: nothing but the file remains.
Exit ==
    /\ serving # {} \/ (own.open /\ ~own.beside)
    /\ current' = 0 /\ serving' = {} /\ command' = "none"
    /\ own' = IF own.beside THEN own ELSE Closed
    /\ judging' = [r \in Runtimes |-> NoJudgement]
    /\ records' = [r \in Runtimes |-> {}]
    /\ UNCHANGED <<file, started, asked, answered>>

\* trustClient and untrustClient of a running runtime: the Control Center.
EditRunning(op, id) ==
    /\ current # 0 /\ Owner = "ControlCenter"
    /\ \E ok \in BOOLEAN : Apply(op, id, records[current], ok)
    /\ records' = [records EXCEPT ![current] = Changed(op, id, @)]
    /\ asked' = [asked EXCEPT ![id] = op]
    /\ UNCHANGED <<started, current, serving, judging, own, command>>
-----------------------------------------------------------------------------
\* The host's queue: authorize, one call at a time.

AutoTrusted(id) == autoTrustLoopbackClients /\ id \in Loopback

\* isTrusted, a critical section of its own.  A list that is not enforced is
\* not looked at.
Judge(r, id) ==
    /\ r \in serving /\ judging[r] = NoJudgement
    /\ AutoTrusted(id) \/ requireTrustedClients
    /\ judging' = [judging EXCEPT ![r] = [id |-> id, trusted |-> id \in records[r]]]
    /\ UNCHANGED <<file, records, started, current, serving, own, command, asked, answered>>

autoTrust(r, id, ok) ==
    /\ records' = [records EXCEPT ![r] = @ \cup {id}]
    /\ Persist(records[r] \cup {id}, ok)

\* Faulty variant: markSeen writes back the record it was called for.
MarkSeenUnchecked(r, id, ok) == autoTrust(r, id, ok)

\* A record that is gone by now is not brought back.
markSeen(r, id, ok) ==
    /\ UNCHANGED records
    /\ IF id \in records[r] THEN Persist(records[r], ok) ELSE UNCHANGED file

\* The second critical section; a failed write is only logged.  A client that is
\* not trusted is denied and leaves no trace in the list.
Conclude(r) ==
    LET id == judging[r].id
    IN  /\ judging[r] # NoJudgement
        /\ \E ok \in BOOLEAN :
              \/ judging[r].trusted /\ markSeen(r, id, ok)
              \/ ~judging[r].trusted /\ AutoTrusted(id) /\ autoTrust(r, id, ok)
              \/ ~judging[r].trusted /\ ~AutoTrusted(id) /\ UNCHANGED <<file, records>>
        /\ judging' = [judging EXCEPT ![r] = NoJudgement]
        /\ UNCHANGED <<started, current, serving, own, command, asked, answered>>

\* The stop block and whatever was before it have run, and the store is gone.
Drained(r) ==
    /\ r \in serving /\ r # current /\ judging[r] = NoJudgement
    /\ serving' = serving \ {r}
    /\ records' = [records EXCEPT ![r] = {}]
    /\ UNCHANGED <<file, started, current, judging, own, command, asked, answered>>
-----------------------------------------------------------------------------
Next ==
    /\ UNCHANGED setting
    /\ \/ OpenStore \/ List \/ Start \/ Stop \/ Exit
       \/ \E op \in Ops, id \in Ids : EditRunning(op, id) \/ EditOwn(op, id)
       \/ \E r \in Runtimes : Conclude(r) \/ Drained(r) \/ \E id \in Ids : Judge(r, id)

Spec == Init /\ [][Next]_vars
-----------------------------------------------------------------------------
\* Properties.

Requests == [Ids -> Ops \cup {"none"}]

\* Every variable has its type; the current runtime is the newest, and its host
\* answers clients.
TypeOK ==
    /\ setting \in Settings
    /\ file \subseteq Ids
    /\ records \in [Runtimes -> SUBSET Ids]
    /\ started \in 0 .. MaxStarts
    /\ current \in {0, started}
    /\ current # 0 => current \in serving
    /\ serving \subseteq 1 .. started
    /\ judging \in [Runtimes -> [id : Ids \cup {NoId}, trusted : BOOLEAN]]
    /\ own \in [open : BOOLEAN, beside : BOOLEAN, changed : BOOLEAN,
                records : SUBSET Ids]
    /\ command \in Commands \cup {"none"}
    /\ asked \in Requests /\ answered \in Requests

\* The running policy goes by the last request made of it, whether or not the
\* file could be written and whatever the authorizer was in the middle of: a
\* client removed from the list is not brought back by its own hello.
DecisionsFollowRequests ==
    current # 0 =>
        \A id \in Ids :
            /\ asked[id] = "trust" => id \in records[current]
            /\ asked[id] = "untrust" /\ ~AutoTrusted(id) => id \notin records[current]

\* README: a "persistent allowlist".  What was answered without an error is in
\* the file, so it is still so after a restart.
AnswersKept ==
    \A id \in Ids :
        /\ answered[id] = "trust" => id \in file
        /\ answered[id] = "untrust" /\ ~AutoTrusted(id) => id \notin file

\* macvr-runtime on its own, reading what is there.
Alone == Owner = "RuntimeCommand" /\ ~setting.commandsBeside /\ ~setting.readsMayFail

\* What a macvr-runtime without another one beside it has answered is in the
\* file, failing writes included: a command that throws ends there and then.
AnswersKeptAlone == Alone => AnswersKept
=============================================================================
