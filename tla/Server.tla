------------------------------- MODULE Server -------------------------------
(***************************************************************************)
(* How TcpServer::handleClient takes a command through its handlers:       *)
(* authentication, read-only mode, the selected database, and the commands *)
(* that touch several databases, with or without the append-only file,     *)
(* whose mutex serialises mutating commands and checkpoints, and the one   *)
(* mutex under which every answer is sent (networking/TcpServer.cpp,       *)
(* core/AofPersistence.cpp, core/SnapshotWorker.cpp,                       *)
(* core/CommandMetadata.cpp, core/CommandRegistry.cpp).                    *)
(*                                                                         *)
(* One thread per client, and the one that takes snapshots.  What a thread *)
(* does between two accesses to shared state is one step.  A store is the  *)
(* set of its keys.                                                        *)
(***************************************************************************)
EXTENDS Integers, FiniteSets

CONSTANTS
  Client,       \* the connected clients
  Key,          \* the names of keys
  Databases,    \* the number of logical databases
  Requests,     \* the commands clients send
  RequirePass   \* a password is configured

Db == 0 .. Databases - 1

\* The commands that matter here.  good: AUTH gives the right password;
\* on: READONLY ON; key and db: the arguments of SET, MOVE and SELECT.
Request ==
  [name : {"AUTH", "READONLY", "SAVE", "SELECT", "GET", "INFO",
           "SET", "MOVE", "FLUSHALL", "PUBLISH"},
   key : Key, db : Nat, good : BOOLEAN, on : BOOLEAN]

\* A mutex that is not held.
Nobody == "no one"

\* The thread of SnapshotWorker, as a holder of the mutex of AofPersistence.
Worker == "worker"

ASSUME ServerAssumption ==
  /\ Databases \in Nat \ {0} /\ Requests \subseteq Request /\ RequirePass \in BOOLEAN
  /\ Nobody \notin Client /\ Worker \notin Client

\* Slip: the table says of FLUSHALL alone that it is logged.
appendToAofFlushOnly == {"FLUSHALL"}

\* The table of CommandMetadata.cpp, for these commands.
appendToAof == {"SET", "MOVE", "FLUSHALL"}
allowedInReadOnly == {"AUTH", "READONLY", "SAVE", "SELECT", "GET", "INFO"}

VARIABLES
  aofEnabled,     \* aof_ is not null: chosen at start-up
  readOnly,       \* readOnly_
  authenticated,  \* local of each client's thread
  databaseIndex,  \* local of each client's thread
  clientInfo,     \* what clients_ holds for each client
  request,        \* the command each thread is working on
  pc,             \* where each thread is
  lock,           \* who holds the mutex of AofPersistence
  sender,         \* who holds sendMutex_
  stores,         \* the keys of every database
  flushed,        \* FLUSHALL: databases the thread has flushed so far
  lateWrites      \* history: writes of each client since read-only mode was last switched on

session == <<authenticated, databaseIndex, clientInfo>>
data == <<stores, flushed, lateWrites>>
serverVars == <<aofEnabled, readOnly, session, request, pc, lock, sender, data>>

NoRequest == [name |-> "none"]

Info(c) == [databaseIndex |-> databaseIndex[c], authenticated |-> authenticated[c]]

ServerInit ==
  /\ aofEnabled \in BOOLEAN
  /\ readOnly = FALSE
  /\ authenticated = [c \in Client |-> ~RequirePass]
  /\ databaseIndex = [c \in Client |-> 0]
  /\ clientInfo = [c \in Client |-> Info(c)]
  /\ request = [c \in Client |-> NoRequest]
  /\ pc = [c \in Client |-> "idle"]
  /\ lock = Nobody
  /\ sender = Nobody
  /\ stores = [d \in Db |-> {}]
  /\ flushed = [c \in Client |-> 0]
  /\ lateWrites = [c \in Client |-> 0]

Goto(c, to) == pc' = [pc EXCEPT ![c] = to] /\ UNCHANGED request

\* The handler has its response and calls sendResponse.
Answer(c) == Goto(c, "reply")

\* The loop of handleClient goes on to the next command.
Continue(c) == pc' = [pc EXCEPT ![c] = "idle"] /\ request' = [request EXCEPT ![c] = NoRequest]

-----------------------------------------------------------------------------
\* The chain of handlers, in the order handleClient tries them.

\* The command is parsed; updateClientState for the first time.
Receive(c, r) ==
  /\ pc[c] = "idle"
  /\ pc' = [pc EXCEPT ![c] = "dispatch"] /\ request' = [request EXCEPT ![c] = r]
  /\ clientInfo' = [clientInfo EXCEPT ![c] = Info(c)]
  /\ UNCHANGED <<aofEnabled, readOnly, authenticated, databaseIndex, lock, sender, data>>

Dispatching(c, names) == pc[c] = "dispatch" /\ request[c].name \in names

\* Without a password configured AUTH is an error.
handleAuthCommand(c) ==
  /\ Dispatching(c, {"AUTH"}) /\ Answer(c)
  /\ authenticated' = [authenticated EXCEPT ![c] = @ \/ (RequirePass /\ request[c].good)]
  /\ UNCHANGED <<aofEnabled, readOnly, databaseIndex, clientInfo, lock, sender, data>>

\* NOAUTH for anything else.
requireAuthenticatedClient(c) ==
  /\ Dispatching(c, {r.name : r \in Requests} \ {"AUTH"}) /\ ~authenticated[c] /\ Answer(c)
  /\ UNCHANGED <<aofEnabled, readOnly, session, lock, sender, data>>

\* Slip: READONLY is handled before the client is asked for the password.
handleReadOnlyUnauthenticated(c) ==
  /\ Dispatching(c, {"READONLY"}) /\ Answer(c)
  /\ readOnly' = request[c].on
  /\ lateWrites' = IF readOnly /\ request[c].on THEN lateWrites ELSE [d \in Client |-> 0]
  /\ UNCHANGED <<aofEnabled, session, lock, sender, stores, flushed>>

handleReadOnlyCommand(c) ==
  /\ Dispatching(c, {"READONLY"}) /\ authenticated[c] /\ Answer(c)
  /\ readOnly' = request[c].on
  /\ lateWrites' = IF readOnly /\ request[c].on THEN lateWrites ELSE [d \in Client |-> 0]
  /\ UNCHANGED <<aofEnabled, session, lock, sender, stores, flushed>>

\* SAVE, in read-only mode too.  Without snapshots it is an error.
handlePersistenceCommand(c) ==
  /\ Dispatching(c, {"SAVE"}) /\ authenticated[c]
  /\ Goto(c, "execute") \/ Answer(c)
  /\ UNCHANGED <<aofEnabled, readOnly, session, lock, sender, data>>

\* Slip: any index is taken.
handleSelectUnchecked(c) ==
  /\ Dispatching(c, {"SELECT"}) /\ authenticated[c] /\ Answer(c)
  /\ databaseIndex' = [databaseIndex EXCEPT ![c] = request[c].db]
  /\ UNCHANGED <<aofEnabled, readOnly, authenticated, clientInfo, lock, sender, data>>

\* parseDatabaseIndex refuses an index out of range.
handleSelectCommand(c) ==
  /\ Dispatching(c, {"SELECT"}) /\ authenticated[c] /\ Answer(c)
  /\ databaseIndex' = IF request[c].db \in Db THEN [databaseIndex EXCEPT ![c] = request[c].db]
                                              ELSE databaseIndex
  /\ UNCHANGED <<aofEnabled, readOnly, authenticated, clientInfo, lock, sender, data>>

\* updateClientState for the second time, after AUTH and SELECT.
updateClientState(c) ==
  /\ pc[c] = "update" /\ Continue(c)
  /\ clientInfo' = [clientInfo EXCEPT ![c] = Info(c)]
  /\ UNCHANGED <<aofEnabled, readOnly, authenticated, databaseIndex, lock, sender, data>>

Remaining == {"GET", "INFO", "SET", "MOVE", "FLUSHALL", "PUBLISH"}

rejectReadOnlyWrite(c) ==
  /\ Dispatching(c, Remaining \ allowedInReadOnly) /\ authenticated[c] /\ Answer(c)
  /\ readOnly
  /\ UNCHANGED <<aofEnabled, readOnly, session, lock, sender, data>>

\* Slip: nothing is refused in read-only mode.
AdmitAlways(c) ==
  /\ Dispatching(c, Remaining) /\ authenticated[c] /\ Goto(c, "execute")
  /\ UNCHANGED <<aofEnabled, readOnly, session, lock, sender, data>>

\* The check passed; nothing holds the answer while the command waits its turn.
Admit(c) ==
  /\ Dispatching(c, Remaining) /\ authenticated[c] /\ Goto(c, "execute")
  /\ ~readOnly \/ request[c].name \in allowedInReadOnly
  /\ UNCHANGED <<aofEnabled, readOnly, session, lock, sender, data>>

-----------------------------------------------------------------------------
\* Execution, when the log is on inside executeAndAppend, which takes the mutex
\* for commands that are logged.  checkpoint and sizeBytes take it for SAVE and INFO.

TakesLock(c) == aofEnabled /\ request[c].name \in appendToAof \cup {"SAVE", "INFO"}

MoveOutOfRange(c) == request[c].name = "MOVE" /\ request[c].db \notin Db

Lock(c) ==
  /\ pc[c] = "execute" /\ TakesLock(c) /\ ~MoveOutOfRange(c) /\ lock = Nobody
  /\ lock' = c /\ Goto(c, "locked")
  /\ UNCHANGED <<aofEnabled, readOnly, session, sender, data>>

Executing(c, name) ==
  request[c].name = name /\ pc[c] = IF TakesLock(c) THEN "locked" ELSE "execute"

\* The end of every execution: the mutex is released and the client answered.
Finish(c) ==
  /\ Answer(c)
  /\ lock' = IF TakesLock(c) THEN Nobody ELSE lock
  /\ UNCHANGED <<aofEnabled, readOnly, session, sender>>

Wrote(c) ==
  lateWrites' = IF readOnly THEN [lateWrites EXCEPT ![c] = @ + 1] ELSE lateWrites

\* Commands that leave the stores alone.
executeRead(c) ==
  /\ \E name \in {"SAVE", "GET", "INFO", "PUBLISH"} : Executing(c, name)
  /\ Finish(c) /\ UNCHANGED data

executeSet(c) ==
  /\ Executing(c, "SET") /\ Finish(c) /\ Wrote(c)
  /\ stores' = [stores EXCEPT ![databaseIndex[c]] = @ \cup {request[c].key}]
  /\ UNCHANGED flushed

rejectMove(c) ==
  /\ pc[c] = "execute" /\ MoveOutOfRange(c) /\ Answer(c)
  /\ UNCHANGED <<aofEnabled, readOnly, session, lock, sender, data>>

\* moveKeyTo holds the mutexes of both stores.
handleMoveCommand(c) ==
  LET d == databaseIndex[c]
      e == request[c].db
      k == request[c].key
  IN /\ Executing(c, "MOVE") /\ e \in Db /\ Finish(c)
     /\ IF d # e /\ k \in stores[d] \ stores[e]
        THEN /\ stores' = [stores EXCEPT ![d] = @ \ {k}, ![e] = @ \cup {k}]
             /\ Wrote(c)
        ELSE UNCHANGED <<stores, lateWrites>>
     /\ UNCHANGED flushed

\* Slip: the loop over the databases starts again.
FlushStoreAgain(c) ==
  /\ Executing(c, "FLUSHALL") /\ flushed[c] \in Db
  /\ stores' = [stores EXCEPT ![flushed[c]] = {}]
  /\ flushed' = [flushed EXCEPT ![c] = (@ + 1) % Databases]
  /\ UNCHANGED <<aofEnabled, readOnly, session, request, pc, lock, sender, lateWrites>>

\* FLUSHALL takes the mutex of one store after another.
FlushStore(c) ==
  /\ Executing(c, "FLUSHALL") /\ flushed[c] \in Db
  /\ stores' = [stores EXCEPT ![flushed[c]] = {}]
  /\ flushed' = [flushed EXCEPT ![c] = @ + 1]
  /\ UNCHANGED <<aofEnabled, readOnly, session, request, pc, lock, sender, lateWrites>>

FlushEnd(c) ==
  /\ Executing(c, "FLUSHALL") /\ flushed[c] = Databases /\ Finish(c) /\ Wrote(c)
  /\ flushed' = [flushed EXCEPT ![c] = 0]
  /\ UNCHANGED stores

-----------------------------------------------------------------------------
\* sendResponse: one mutex for all clients, held while send blocks on a client
\* that does not read.

BeginSend(c) ==
  /\ pc[c] = "reply" /\ sender = Nobody
  /\ sender' = c /\ Goto(c, "send")
  /\ UNCHANGED <<aofEnabled, readOnly, session, lock, data>>

\* Slip: the client table is not told what AUTH and SELECT have changed.
EndSendUnrecorded(c) ==
  /\ pc[c] = "send" /\ sender' = Nobody /\ Continue(c)
  /\ UNCHANGED <<aofEnabled, readOnly, session, lock, data>>

EndSend(c) ==
  /\ pc[c] = "send" /\ sender' = Nobody
  /\ IF request[c].name = "AUTH" \/ (request[c].name = "SELECT" /\ authenticated[c])
     THEN Goto(c, "update") ELSE Continue(c)
  /\ UNCHANGED <<aofEnabled, readOnly, session, lock, data>>

-----------------------------------------------------------------------------
\* SnapshotWorker::run: a checkpoint, which holds the mutex while it saves.  (Without
\* the log it takes no lock that another thread keeps.)

CheckpointBegin ==
  /\ aofEnabled /\ lock = Nobody /\ lock' = Worker
  /\ UNCHANGED <<aofEnabled, readOnly, session, request, pc, sender, data>>

CheckpointEnd ==
  /\ lock = Worker /\ lock' = Nobody
  /\ UNCHANGED <<aofEnabled, readOnly, session, request, pc, sender, data>>

-----------------------------------------------------------------------------

Work(c) ==
  \/ handleAuthCommand(c) \/ requireAuthenticatedClient(c) \/ handleReadOnlyCommand(c)
  \/ handlePersistenceCommand(c) \/ handleSelectCommand(c) \/ updateClientState(c)
  \/ rejectReadOnlyWrite(c) \/ Admit(c)
  \/ Lock(c) \/ executeRead(c) \/ executeSet(c) \/ rejectMove(c) \/ handleMoveCommand(c)
  \/ FlushStore(c) \/ FlushEnd(c) \/ BeginSend(c)

ServerNext ==
  \/ \E c \in Client : Work(c) \/ EndSend(c) \/ \E r \in Requests : Receive(c, r)
  \/ CheckpointBegin \/ CheckpointEnd

ServerSpec == ServerInit /\ [][ServerNext]_serverVars

\* A thread with a command to work on is scheduled again and again; a client
\* need not ever read what is sent to it.  A checkpoint that has begun goes on.
ServerFairSpec ==
  ServerSpec /\ WF_serverVars(CheckpointEnd) /\ \A c \in Client : WF_serverVars(Work(c))

-----------------------------------------------------------------------------
\* Properties.

\* Types: threads are at a step of handleClient and select databases that exist.
ServerTypeOK ==
  /\ aofEnabled \in BOOLEAN /\ readOnly \in BOOLEAN
  /\ authenticated \in [Client -> BOOLEAN]
  /\ databaseIndex \in [Client -> Db]
  /\ clientInfo \in [Client -> [databaseIndex : Db, authenticated : BOOLEAN]]
  /\ request \in [Client -> Requests \cup {NoRequest}]
  /\ pc \in [Client -> {"idle", "dispatch", "update", "execute", "locked", "reply", "send"}]
  /\ lock \in Client \cup {Worker, Nobody} /\ sender \in Client \cup {Nobody}
  /\ stores \in [Db -> SUBSET Key]
  /\ flushed \in [Client -> 0 .. Databases]
  /\ lateWrites \in [Client -> Nat]

\* clients_, which CLIENT LIST prints, has the database and the authentication
\* of every client whose thread is between two commands: the second
\* updateClientState runs after the handler has changed the thread's locals.
InfoCurrent == \A c \in Client : pc[c] = "idle" => clientInfo[c] = Info(c)

\* The read-only check and the write it lets through are separate steps, so a
\* write may land after READONLY ON was answered; but at most one per client,
\* the one that had passed the check.
OneLateWrite == \A c \in Client : lateWrites[c] <= 1

\* Until some client has given the password, nothing clients send changes the
\* data or the mode.
NothingBeforeAuth ==
  (\A c \in Client : ~authenticated[c]) => ~readOnly /\ \A d \in Db : stores[d] = {}

\* With the log on, FLUSHALL leaves every database empty: the mutex of
\* AofPersistence keeps SET and MOVE away while it goes from store to store.
FlushAllClears ==
  [][\A c \in Client : FlushEnd(c) /\ aofEnabled => \A d \in Db : stores[d] = {}]_serverVars

\* Whoever takes the mutex of AofPersistence, for a command, a checkpoint or INFO,
\* releases it, also when clients have stopped reading and every other thread is
\* stuck behind sendMutex_: answers are sent after the mutex has been released.
LockReleased == lock # Nobody ~> lock = Nobody

=============================================================================
