---------------------------- MODULE ServerProofs ----------------------------
(***************************************************************************)
(* Proofs about the two sides of TcpServer: Server, for any clients, keys, *)
(* number of databases and commands, with or without a password, and       *)
(* Connections, for any number of connections, descriptors, channels and   *)
(* kills.                                                                  *)
(***************************************************************************)
EXTENDS Server, Connections, FiniteSetTheorems, TLAPS

\* The commands whose handlers change what a client's thread knows of it.
Changing(c) == request[c].name = "AUTH" \/ (request[c].name = "SELECT" /\ authenticated[c])

-----------------------------------------------------------------------------
\* Types.

\* Before the first command every client has database 0.
LEMMA InitTypes == ServerInit => ServerTypeOK
  <1> SUFFICES ASSUME ServerInit
               PROVE  ServerTypeOK
    BY Zenon
  <1>1. 0 \in Db /\ 0 \in 0 .. Databases
    BY ServerAssumption DEF Db
  <1>2. authenticated \in [Client -> BOOLEAN] /\ databaseIndex \in [Client -> Db]
    BY Zenon, <1>1, ServerAssumption DEF ServerInit
  <1>3. clientInfo \in [Client -> [databaseIndex : Db, authenticated : BOOLEAN]]
    BY Zenon, <1>2 DEF ServerInit, Info
  <1> QED
    BY Zenon, <1>1, <1>2, <1>3 DEF ServerInit, ServerTypeOK

\* What a thread works on is a command of Requests whenever it has a name.
LEMMA RequestTyped ==
  ASSUME ServerTypeOK, NEW c \in Client, request[c].name # "none"
  PROVE  request[c] \in Requests /\ request[c].key \in Key /\ request[c].db \in Nat
  BY ServerAssumption DEF ServerTypeOK, NoRequest, Request

\* Where threads go: Goto, Answer and Continue stay within the types.
LEMMA MoveTyped ==
  ASSUME ServerTypeOK, NEW c \in Client,
         \/ \E to \in {"update", "execute", "locked", "reply", "send"} : Goto(c, to)
         \/ Answer(c) \/ Continue(c)
  PROVE  /\ request' \in [Client -> Requests \cup {NoRequest}]
         /\ pc' \in [Client -> {"idle", "dispatch", "update", "execute", "locked", "reply", "send"}]
  BY ZenonT(30) DEF ServerTypeOK, Goto, Answer, Continue

\* Late writes are counted.
LEMMA WroteTyped ==
  ASSUME ServerTypeOK, NEW c \in Client, Wrote(c) \/ UNCHANGED lateWrites
  PROVE  lateWrites' \in [Client -> Nat]
  <1>1. lateWrites \in [Client -> Nat] /\ lateWrites[c] + 1 \in Nat
    BY SMTT(30) DEF ServerTypeOK
  <1> QED
    BY Zenon, <1>1 DEF Wrote

\* What MOVE leaves of the stores.
Shifted(k, d, e) == [stores EXCEPT ![d] = @ \ {k}, ![e] = @ \cup {k}]

\* MOVE takes a key from one store and puts it into the other.
LEMMA ShiftedTyped ==
  ASSUME ServerTypeOK, NEW k \in Key, NEW d \in Db, NEW e \in Db
  PROVE  Shifted(k, d, e) \in [Db -> SUBSET Key]
  <1> DEFINE taken == [stores EXCEPT ![d] = @ \ {k}]
  <1>1. taken \in [Db -> SUBSET Key]
    BY Zenon DEF ServerTypeOK
  <1> HIDE DEF taken
  <1>2. [taken EXCEPT ![e] = @ \cup {k}] \in [Db -> SUBSET Key]
    BY Zenon, <1>1
  <1> QED
    BY Zenon, <1>2 DEF taken, Shifted

\* The steps of handleMoveCommand, with the stores it leaves.
LEMMA MoveEffect ==
  ASSUME ServerTypeOK, NEW c \in Client, handleMoveCommand(c)
  PROVE  /\ Executing(c, "MOVE") /\ Finish(c) /\ UNCHANGED flushed
         /\ \/ UNCHANGED <<stores, lateWrites>>
            \/ /\ stores' = Shifted(request[c].key, databaseIndex[c], request[c].db)
               /\ Wrote(c) /\ databaseIndex[c] \in Db /\ request[c].db \in Db
  BY Zenon DEF handleMoveCommand, Shifted, ServerTypeOK

\* Every step keeps the types.
LEMMA NextTypes == ServerTypeOK /\ [ServerNext]_serverVars => ServerTypeOK'
  <1> SUFFICES ASSUME ServerTypeOK, [ServerNext]_serverVars
               PROVE  ServerTypeOK'
    BY Zenon
  <1>1. CASE UNCHANGED serverVars
    BY Zenon, <1>1 DEF serverVars, session, data, ServerTypeOK
  <1>2. ASSUME NEW c \in Client, NEW r \in Requests, Receive(c, r)
        PROVE  ServerTypeOK'
    BY Zenon, <1>2 DEF Receive, ServerTypeOK, Info, data
  <1>3. ASSUME NEW c \in Client, EndSend(c)
        PROVE  ServerTypeOK'
    BY Zenon, <1>3, MoveTyped DEF EndSend, ServerTypeOK, session, data
  <1>4. ASSUME NEW c \in Client, Work(c)
        PROVE  ServerTypeOK'
    <2>1. CASE handleAuthCommand(c)
      BY Zenon, <2>1, MoveTyped DEF handleAuthCommand, ServerTypeOK, data
    <2>2. CASE \/ requireAuthenticatedClient(c) \/ handlePersistenceCommand(c)
               \/ rejectReadOnlyWrite(c) \/ Admit(c) \/ rejectMove(c)
      BY Zenon, <2>2, MoveTyped DEF requireAuthenticatedClient, handlePersistenceCommand,
                                    rejectReadOnlyWrite, Admit, rejectMove, ServerTypeOK, session, data
    <2>3. CASE handleReadOnlyCommand(c)
      <3>1. request[c] \in Requests
        BY Zenon, <2>3, RequestTyped DEF handleReadOnlyCommand, Dispatching
      <3>2. request[c].on \in BOOLEAN
        BY Zenon, <3>1, ServerAssumption DEF Request
      <3> QED
        BY Zenon, <2>3, <3>2, MoveTyped DEF handleReadOnlyCommand, ServerTypeOK, session
    <2>4. CASE handleSelectCommand(c)
      BY Zenon, <2>4, MoveTyped DEF handleSelectCommand, ServerTypeOK, data
    <2>5. CASE updateClientState(c)
      BY Zenon, <2>5, MoveTyped DEF updateClientState, ServerTypeOK, Info, data
    <2>6. CASE Lock(c)
      BY Zenon, <2>6, MoveTyped DEF Lock, ServerTypeOK, session, data
    <2>7. CASE executeRead(c)
      BY Zenon, <2>7, MoveTyped DEF executeRead, Finish, ServerTypeOK, session, data
    <2>8. CASE executeSet(c)
      <3>1. request[c].key \in Key
        BY Zenon, <2>8, RequestTyped DEF executeSet, Executing
      <3>2. lateWrites' \in [Client -> Nat]
        BY Zenon, <2>8, WroteTyped DEF executeSet
      <3>3. stores' \in [Db -> SUBSET Key]
        BY Zenon, <2>8, <3>1 DEF executeSet, ServerTypeOK
      <3> QED
        BY Zenon, <2>8, <3>2, <3>3, MoveTyped DEF executeSet, Finish, ServerTypeOK, session
    <2>9. CASE handleMoveCommand(c)
      <3>1. request[c].key \in Key
        BY Zenon, <2>9, RequestTyped DEF handleMoveCommand, Executing
      <3>2. stores' \in [Db -> SUBSET Key]
        <4>1. CASE UNCHANGED <<stores, lateWrites>>
          BY Zenon, <4>1 DEF ServerTypeOK
        <4>2. CASE /\ stores' = Shifted(request[c].key, databaseIndex[c], request[c].db)
                   /\ databaseIndex[c] \in Db /\ request[c].db \in Db
          BY Zenon, <3>1, <4>2, ShiftedTyped
        <4> QED
          BY Zenon, <2>9, <4>1, <4>2, MoveEffect
      <3>3. lateWrites' \in [Client -> Nat]
        BY Zenon, <2>9, MoveEffect, WroteTyped
      <3> QED
        BY Zenon, <2>9, <3>2, <3>3, MoveEffect, MoveTyped DEF Finish, ServerTypeOK, session
    <2>10. CASE FlushStore(c)
      <3>1. flushed'[c] \in 0 .. Databases
        BY SMTT(30), <2>10, ServerAssumption DEF FlushStore, ServerTypeOK, Db
      <3> QED
        BY Zenon, <2>10, <3>1 DEF FlushStore, ServerTypeOK, session
    <2>11. CASE FlushEnd(c)
      <3>1. lateWrites' \in [Client -> Nat] /\ stores' = stores
        BY Zenon, <2>11, WroteTyped DEF FlushEnd
      <3>2. flushed' \in [Client -> 0 .. Databases]
        <4>1. 0 \in 0 .. Databases
          BY ServerAssumption
        <4> QED
          BY Zenon, <2>11, <4>1 DEF FlushEnd, ServerTypeOK
      <3> QED
        BY Zenon, <2>11, <3>1, <3>2, MoveTyped DEF FlushEnd, Finish, ServerTypeOK, session
    <2>12. CASE BeginSend(c)
      BY Zenon, <2>12, MoveTyped DEF BeginSend, ServerTypeOK, session, data
    <2> QED
      BY Zenon, <1>4, <2>1, <2>2, <2>3, <2>4, <2>5, <2>6, <2>7, <2>8, <2>9, <2>10, <2>11, <2>12 DEF Work
  <1>5. CASE CheckpointBegin \/ CheckpointEnd
    BY Zenon, <1>5 DEF CheckpointBegin, CheckpointEnd, ServerTypeOK, session, data
  <1> QED
    BY Zenon, <1>1, <1>2, <1>3, <1>4, <1>5 DEF ServerNext

\* Threads stay at steps of handleClient and only select databases that exist.
THEOREM ServerTypes == ServerSpec => []ServerTypeOK
  BY InitTypes, NextTypes, PTL DEF ServerSpec

-----------------------------------------------------------------------------
\* A thread changes only what is its own.

Own(c) == <<pc[c], request[c], authenticated[c], databaseIndex[c], clientInfo[c], flushed[c]>>

\* A step of one thread.
Acts(c) == Work(c) \/ EndSend(c) \/ \E r \in Requests : Receive(c, r)

\* The locals of a thread and its entry in clients_ are changed by that thread.
LEMMA OthersUntouched ==
  ASSUME ServerTypeOK, NEW c \in Client, NEW d \in Client, d # c, Acts(c)
  PROVE  UNCHANGED Own(d)
  <1>1. ASSUME NEW r \in Requests, Receive(c, r)
        PROVE  UNCHANGED Own(d)
    BY Zenon, <1>1 DEF Receive, Own, ServerTypeOK, data
  <1>2. CASE EndSend(c) \/ BeginSend(c)
    BY Zenon, <1>2 DEF EndSend, BeginSend, Goto, Continue, Own, ServerTypeOK, session, data
  <1>3. CASE handleAuthCommand(c) \/ handleSelectCommand(c) \/ updateClientState(c)
    BY Zenon, <1>3 DEF handleAuthCommand, handleSelectCommand, updateClientState, Answer, Goto, Continue,
                Own, ServerTypeOK, data
  <1>4. CASE \/ requireAuthenticatedClient(c) \/ handlePersistenceCommand(c)
             \/ rejectReadOnlyWrite(c) \/ Admit(c) \/ rejectMove(c) \/ Lock(c)
    BY Zenon, <1>4 DEF requireAuthenticatedClient, handlePersistenceCommand, rejectReadOnlyWrite,
                Admit, rejectMove, Lock,
                Answer, Goto, Own, ServerTypeOK, session, data
  <1>5. CASE handleReadOnlyCommand(c)
    BY Zenon, <1>5 DEF handleReadOnlyCommand, Answer, Goto, Own, ServerTypeOK, session
  <1>6. CASE executeRead(c) \/ executeSet(c)
    BY Zenon, <1>6 DEF executeRead, executeSet, Finish, Answer, Goto, Own, ServerTypeOK, session, data
  <1>7. CASE handleMoveCommand(c)
    BY Zenon, <1>7, MoveEffect DEF Finish, Answer, Goto, Own, ServerTypeOK, session
  <1>8. CASE FlushStore(c) \/ FlushEnd(c)
    BY Zenon, <1>8 DEF FlushStore, FlushEnd, Finish, Answer, Goto, Own, ServerTypeOK, session
  <1> QED
    BY Zenon, <1>1, <1>2, <1>3, <1>4, <1>5, <1>6, <1>7, <1>8 DEF Acts, Work

\* A step of no client's thread: the worker may take the mutex or release it.
Aside ==
  /\ UNCHANGED <<aofEnabled, readOnly, session, request, pc, sender, data>>
  /\ UNCHANGED lock \/ lock \in {Worker, Nobody}

\* A step of the server is a step of one of its threads.
LEMMA NextActs == [ServerNext]_serverVars => Aside \/ \E c \in Client : Acts(c)
  BY Zenon DEF ServerNext, Acts, Aside, CheckpointBegin, CheckpointEnd, serverVars

-----------------------------------------------------------------------------
\* What clients_ says of a client.  It may be behind the thread's locals only
\* from the handler of AUTH or SELECT to the second updateClientState, also
\* while the answer waits for sendMutex_.

InfoOf(c) ==
  \/ pc[c] = "update"
  \/ pc[c] \in {"reply", "send"} /\ Changing(c)
  \/ clientInfo[c] = Info(c)

InfoInv == \A c \in Client : InfoOf(c)

\* The step of a client's own thread.
LEMMA OwnInfo ==
  ASSUME ServerTypeOK, NEW c \in Client, InfoOf(c), Acts(c)
  PROVE  InfoOf(c)'
  <1>1. ASSUME NEW r \in Requests, Receive(c, r)
        PROVE  InfoOf(c)'
    BY Zenon, <1>1 DEF Receive, InfoOf, Info, ServerTypeOK
  <1>2. CASE EndSend(c)
    BY Zenon, <1>2 DEF EndSend, Goto, Continue, InfoOf, Info, Changing, ServerTypeOK, session
  <1>3. CASE BeginSend(c)
    BY Zenon, <1>3 DEF BeginSend, Goto, InfoOf, Info, Changing, ServerTypeOK, session
  <1>4. CASE handleAuthCommand(c) \/ handleSelectCommand(c)
    BY Zenon, <1>4 DEF handleAuthCommand, handleSelectCommand, Dispatching, Answer, Goto,
                InfoOf, Info, Changing, ServerTypeOK
  <1>5. CASE updateClientState(c)
    BY Zenon, <1>5 DEF updateClientState, Continue, InfoOf, Info, ServerTypeOK
  <1>6. ASSUME pc[c] \in {"dispatch", "execute", "locked"}, UNCHANGED session
        PROVE  InfoOf(c)'
    BY Zenon, <1>6 DEF InfoOf, Info, session
  <1>7. CASE \/ requireAuthenticatedClient(c) \/ rejectReadOnlyWrite(c) \/ Admit(c)
             \/ handleReadOnlyCommand(c) \/ handlePersistenceCommand(c)
    BY Zenon, <1>6, <1>7 DEF requireAuthenticatedClient, rejectReadOnlyWrite, Admit, handleReadOnlyCommand,
                      handlePersistenceCommand, Dispatching
  <1>8. CASE rejectMove(c) \/ Lock(c) \/ executeRead(c) \/ executeSet(c) \/ FlushStore(c) \/ FlushEnd(c)
    BY Zenon, <1>6, <1>8 DEF rejectMove, Lock, executeRead, executeSet, FlushStore, FlushEnd, Finish, Executing
  <1>9. CASE handleMoveCommand(c)
    BY Zenon, <1>6, <1>9, MoveEffect DEF Finish, Executing
  <1> QED
    BY Zenon, <1>1, <1>2, <1>3, <1>4, <1>5, <1>7, <1>8, <1>9 DEF Acts, Work

\* Every step keeps clients_ behind by no more than the command under way.
LEMMA NextInfoInv == ServerTypeOK /\ InfoInv /\ [ServerNext]_serverVars => InfoInv'
  <1> SUFFICES ASSUME ServerTypeOK, InfoInv, [ServerNext]_serverVars
               PROVE  InfoInv'
    BY Zenon
  <1>1. CASE Aside
    BY Zenon, <1>1 DEF Aside, session, InfoInv, InfoOf, Info, Changing
  <1>2. ASSUME NEW c \in Client, Acts(c), NEW d \in Client, d # c
        PROVE  InfoOf(d)'
    BY Zenon, <1>2, OthersUntouched DEF Own, InfoInv, InfoOf, Info, Changing
  <1> QED
    BY Zenon, <1>1, <1>2, OwnInfo, NextActs DEF InfoInv

\* CLIENT LIST shows of every client that is between two commands the database
\* and the authentication its thread works with.
THEOREM InfoAlwaysCurrent == ServerSpec => []InfoCurrent
  <1>1. ServerInit => InfoInv
    BY Zenon DEF ServerInit, InfoInv, InfoOf
  <1>2. InfoInv => InfoCurrent
    BY Zenon DEF InfoInv, InfoOf, InfoCurrent
  <1> QED
    BY <1>1, <1>2, NextInfoInv, ServerTypes, PTL DEF ServerSpec

-----------------------------------------------------------------------------
\* Writes after READONLY ON.  A client whose write was late is past the check
\* only with a command that does not write, until the mode is switched again.

LateInv ==
  /\ ~readOnly => \A c \in Client : lateWrites[c] = 0
  /\ \A c \in Client : lateWrites[c] <= 1
  /\ \A c \in Client : lateWrites[c] # 0 /\ pc[c] \in {"execute", "locked"} =>
       request[c].name \in allowedInReadOnly

\* A step that writes nothing, and takes nobody past the check.
LEMMA NoLateWrite ==
  ASSUME ServerTypeOK, LateInv, NEW c \in Client, Acts(c), UNCHANGED <<readOnly, lateWrites>>,
         pc'[c] \in {"execute", "locked"} => pc[c] \in {"execute", "locked"} /\ request'[c] = request[c]
  PROVE  LateInv'
  <1>1. \A d \in Client \ {c} : pc'[d] = pc[d] /\ request'[d] = request[d]
    BY Zenon, OthersUntouched DEF Own
  <1> QED
    BY Zenon, <1>1 DEF LateInv

\* The end of a write: a late one is the client's first.
LEMMA WroteLate ==
  ASSUME ServerTypeOK, LateInv, NEW c \in Client, Acts(c), Wrote(c), UNCHANGED readOnly,
         pc[c] \in {"execute", "locked"}, request[c].name \notin allowedInReadOnly, pc'[c] = "reply"
  PROVE  LateInv'
  <1>1. \A d \in Client \ {c} : pc'[d] = pc[d] /\ request'[d] = request[d]
    BY Zenon, OthersUntouched DEF Own
  <1>2. lateWrites[c] = 0
    BY Zenon DEF LateInv
  <1>3. \A d \in Client \ {c} : lateWrites'[d] = lateWrites[d]
    BY Zenon DEF Wrote, ServerTypeOK
  <1>4. lateWrites'[c] \in {0, 1} /\ (~readOnly => lateWrites'[c] = 0)
    BY <1>2 DEF Wrote, ServerTypeOK
  <1> QED
    BY <1>1, <1>3, <1>4 DEF LateInv

\* Every step leaves each client at most one write after READONLY ON.
LEMMA NextLateInv == ServerTypeOK /\ LateInv /\ [ServerNext]_serverVars => LateInv'
  <1> SUFFICES ASSUME ServerTypeOK, LateInv, [ServerNext]_serverVars
               PROVE  LateInv'
    BY Zenon
  <1>1. CASE Aside
    BY Zenon, <1>1 DEF Aside, data, LateInv
  <1>2. ASSUME NEW c \in Client, Acts(c)
        PROVE  LateInv'
    <2>1. ASSUME NEW r \in Requests, Receive(c, r)
          PROVE  LateInv'
      BY Zenon, <1>2, <2>1, NoLateWrite DEF Receive, data, ServerTypeOK
    <2>2. CASE EndSend(c) \/ BeginSend(c) \/ updateClientState(c)
      BY Zenon, <1>2, <2>2, NoLateWrite DEF EndSend, BeginSend, updateClientState, Goto, Continue, data, ServerTypeOK
    <2>3. CASE \/ handleAuthCommand(c) \/ handleSelectCommand(c)
               \/ requireAuthenticatedClient(c) \/ rejectReadOnlyWrite(c) \/ rejectMove(c)
      BY Zenon, <1>2, <2>3, NoLateWrite DEF handleAuthCommand, handleSelectCommand, requireAuthenticatedClient,
                                     rejectReadOnlyWrite, rejectMove, Answer, Goto, data, ServerTypeOK
    <2>4. CASE handleReadOnlyCommand(c)
      <3>1. \A d \in Client \ {c} : pc'[d] = pc[d] /\ request'[d] = request[d]
        BY Zenon, <1>2, OthersUntouched DEF Own
      <3>2. pc'[c] = "reply"
        BY Zenon, <2>4 DEF handleReadOnlyCommand, Answer, Goto, ServerTypeOK
      <3>3. CASE readOnly /\ request[c].on
        BY Zenon, <2>4, <3>1, <3>2, <3>3 DEF handleReadOnlyCommand, LateInv
      <3>4. CASE ~(readOnly /\ request[c].on)
        BY <2>4, <3>4 DEF handleReadOnlyCommand, LateInv
      <3> QED
        BY Zenon, <3>3, <3>4
    <2>5. CASE Admit(c)
      <3>1. \A d \in Client \ {c} : pc'[d] = pc[d] /\ request'[d] = request[d]
        BY Zenon, <1>2, OthersUntouched DEF Own
      <3>2. request'[c] = request[c] /\ (~readOnly \/ request[c].name \in allowedInReadOnly)
        BY Zenon, <2>5 DEF Admit, Goto
      <3>3. UNCHANGED <<readOnly, lateWrites>>
        BY Zenon, <2>5 DEF Admit, data
      <3> QED
        BY Zenon, <3>1, <3>2, <3>3 DEF LateInv
    <2>6. CASE Lock(c) \/ FlushStore(c)
      BY Zenon, <1>2, <2>6, NoLateWrite DEF Lock, FlushStore, Executing, Goto, data, ServerTypeOK
    <2>7. CASE executeRead(c)
      BY Zenon, <1>2, <2>7, NoLateWrite DEF executeRead, Finish, Answer, Goto, data, ServerTypeOK
    <2>8. CASE executeSet(c) \/ FlushEnd(c)
      BY Zenon, <1>2, <2>8, WroteLate DEF executeSet, FlushEnd, Executing, Finish, Answer, Goto, ServerTypeOK,
                                   allowedInReadOnly
    <2>9. CASE handleMoveCommand(c)
      <3>1. /\ pc[c] \in {"execute", "locked"} /\ request[c].name \notin allowedInReadOnly
            /\ pc'[c] = "reply" /\ UNCHANGED readOnly
        BY Zenon, <2>9, MoveEffect DEF Executing, Finish, Answer, Goto, ServerTypeOK, allowedInReadOnly
      <3>2. UNCHANGED lateWrites \/ Wrote(c)
        BY Zenon, <2>9, MoveEffect
      <3> QED
        BY Zenon, <1>2, <3>1, <3>2, NoLateWrite, WroteLate
    <2>10. CASE handlePersistenceCommand(c)
      <3>1. \A d \in Client \ {c} : pc'[d] = pc[d] /\ request'[d] = request[d]
        BY Zenon, <1>2, OthersUntouched DEF Own
      <3>2. request'[c] = request[c] /\ request[c].name \in allowedInReadOnly
        BY Zenon, <2>10 DEF handlePersistenceCommand, Dispatching, Answer, Goto, allowedInReadOnly
      <3>3. UNCHANGED <<readOnly, lateWrites>>
        BY Zenon, <2>10 DEF handlePersistenceCommand, data
      <3> QED
        BY Zenon, <3>1, <3>2, <3>3 DEF LateInv
    <2> QED
      BY Zenon, <1>2, <2>1, <2>2, <2>3, <2>4, <2>5, <2>6, <2>7, <2>8, <2>9, <2>10 DEF Acts, Work
  <1> QED
    BY Zenon, <1>1, <1>2, NextActs

\* However many clients write while READONLY ON is handled, each of them lands
\* at most one write after it.
THEOREM AtMostOneLateWrite == ServerSpec => []OneLateWrite
  <1>1. ServerInit => LateInv
    BY DEF ServerInit, LateInv
  <1>2. LateInv => OneLateWrite
    BY Zenon DEF LateInv, OneLateWrite
  <1> QED
    BY <1>1, <1>2, NextLateInv, ServerTypes, PTL DEF ServerSpec

-----------------------------------------------------------------------------
\* Nothing happens before the password is given.  A thread is past the checks
\* only for a client that has given it.

AuthInv ==
  /\ \A c \in Client : pc[c] \in {"execute", "locked"} => authenticated[c]
  /\ NothingBeforeAuth

\* A step of a client that has given the password or changes nothing.
LEMMA AuthStep ==
  ASSUME ServerTypeOK, AuthInv, NEW c \in Client, Acts(c),
         pc'[c] \in {"execute", "locked"} => authenticated'[c],
         \/ authenticated'[c]
         \/ UNCHANGED <<readOnly, stores>> /\ authenticated'[c] = authenticated[c]
  PROVE  AuthInv'
  <1>1. \A d \in Client \ {c} : pc'[d] = pc[d] /\ authenticated'[d] = authenticated[d]
    BY Zenon, OthersUntouched DEF Own
  <1> QED
    BY <1>1 DEF AuthInv, NothingBeforeAuth

\* Every step keeps data and mode untouched until a client has authenticated.
LEMMA NextAuthInv == ServerTypeOK /\ AuthInv /\ [ServerNext]_serverVars => AuthInv'
  <1> SUFFICES ASSUME ServerTypeOK, AuthInv, [ServerNext]_serverVars
               PROVE  AuthInv'
    BY Zenon
  <1>1. CASE Aside
    BY Zenon, <1>1 DEF Aside, session, data, AuthInv, NothingBeforeAuth
  <1>2. ASSUME NEW c \in Client, Acts(c)
        PROVE  AuthInv'
    <2>1. ASSUME NEW r \in Requests, Receive(c, r)
          PROVE  AuthInv'
      BY Zenon, <1>2, <2>1, AuthStep DEF Receive, data, ServerTypeOK
    <2>2. CASE EndSend(c) \/ BeginSend(c) \/ updateClientState(c)
      BY Zenon, <1>2, <2>2, AuthStep
         DEF EndSend, BeginSend, updateClientState, Goto, Continue, session, data, ServerTypeOK
    <2>3. CASE requireAuthenticatedClient(c) \/ rejectReadOnlyWrite(c) \/ rejectMove(c)
      BY Zenon, <1>2, <2>3, AuthStep DEF requireAuthenticatedClient, rejectReadOnlyWrite, rejectMove,
                                  Answer, Goto, session, data, ServerTypeOK
    <2>4. CASE handleAuthCommand(c)
      <3>1. pc'[c] = "reply" /\ UNCHANGED <<readOnly, stores>>
        BY Zenon, <2>4 DEF handleAuthCommand, Answer, Goto, data, ServerTypeOK
      <3>2. authenticated'[c] \/ authenticated'[c] = authenticated[c]
        BY ZenonT(30), <2>4 DEF handleAuthCommand, ServerTypeOK
      <3> QED
        BY Zenon, <1>2, <3>1, <3>2, AuthStep
    <2>5. CASE handleSelectCommand(c)
      BY Zenon, <1>2, <2>5, AuthStep DEF handleSelectCommand
    <2>6. CASE handleReadOnlyCommand(c) \/ handlePersistenceCommand(c) \/ Admit(c)
      BY Zenon, <1>2, <2>6, AuthStep DEF handleReadOnlyCommand, handlePersistenceCommand, Admit, session
    <2>7. ASSUME pc[c] \in {"execute", "locked"}, UNCHANGED session
          PROVE  AuthInv'
      BY Zenon, <1>2, <2>7, AuthStep DEF AuthInv, session
    <2>8. CASE Lock(c) \/ executeRead(c) \/ executeSet(c) \/ FlushStore(c) \/ FlushEnd(c)
      BY Zenon, <2>7, <2>8 DEF Lock, executeRead, executeSet, FlushStore, FlushEnd, Finish, Executing
    <2>9. CASE handleMoveCommand(c)
      BY Zenon, <2>7, <2>9, MoveEffect DEF Finish, Executing
    <2> QED
      BY Zenon, <1>2, <2>1, <2>2, <2>3, <2>4, <2>5, <2>6, <2>8, <2>9 DEF Acts, Work
  <1> QED
    BY Zenon, <1>1, <1>2, NextActs

\* Whatever clients send, data and mode are as at the start until one of them
\* has given the password.
THEOREM NothingEverBeforeAuth == ServerSpec => []NothingBeforeAuth
  <1>1. ServerInit => AuthInv
    BY Zenon DEF ServerInit, AuthInv, NothingBeforeAuth
  <1>2. AuthInv => NothingBeforeAuth
    BY Zenon DEF AuthInv
  <1> QED
    BY <1>1, <1>2, NextAuthInv, ServerTypes, PTL DEF ServerSpec

-----------------------------------------------------------------------------
\* FLUSHALL with the log on.  The stores it has been through stay empty because
\* its thread holds the mutex every writer needs.

FlushInv ==
  /\ \A c \in Client : pc[c] = "locked" => lock = c /\ TakesLock(c)
  /\ \A c \in Client : flushed[c] # 0 =>
       request[c].name = "FLUSHALL" /\ pc[c] = IF aofEnabled THEN "locked" ELSE "execute"
  /\ aofEnabled => \A c \in Client : \A d \in Db : d < flushed[c] => stores[d] = {}

\* A step of a thread that touches neither the mutex nor the stores.
LEMMA FlushQuiet ==
  ASSUME ServerTypeOK, FlushInv, NEW c \in Client, Acts(c), pc[c] # "locked", pc'[c] # "locked",
         flushed[c] = 0, UNCHANGED <<aofEnabled, lock, stores, flushed>>
  PROVE  FlushInv'
  <1>1. \A d \in Client \ {c} : pc'[d] = pc[d] /\ request'[d] = request[d]
    BY Zenon, OthersUntouched DEF Own
  <1> QED
    BY Zenon, <1>1 DEF FlushInv, TakesLock

\* The thread that holds the mutex is the only one with stores behind it.
LEMMA OthersNotFlushing ==
  ASSUME ServerTypeOK, FlushInv, aofEnabled, NEW c \in Client, pc[c] = "locked",
         NEW d \in Client, d # c
  PROVE  flushed[d] = 0 /\ pc[d] # "locked"
  BY Zenon DEF FlushInv

\* The end of an execution: the thread's own count is back at zero.
LEMMA FlushFinish ==
  ASSUME ServerTypeOK, FlushInv, NEW c \in Client, Acts(c), Finish(c), flushed'[c] = 0,
         NEW name, Executing(c, name),
         aofEnabled => UNCHANGED stores \/ pc[c] = "locked"
  PROVE  FlushInv'
  <1>1. \A d \in Client \ {c} : pc'[d] = pc[d] /\ request'[d] = request[d] /\ flushed'[d] = flushed[d]
    BY Zenon, OthersUntouched DEF Own
  <1>2. pc'[c] = "reply" /\ aofEnabled' = aofEnabled
    BY Zenon DEF Finish, Answer, Goto, ServerTypeOK
  <1>3. \A d \in Client : pc'[d] = "locked" => lock' = d /\ TakesLock(d)'
    BY <1>1, <1>2, ServerAssumption DEF FlushInv, Finish, TakesLock, Executing
  <1>4. \A d \in Client : flushed'[d] # 0 =>
          request'[d].name = "FLUSHALL" /\ pc'[d] = IF aofEnabled' THEN "locked" ELSE "execute"
    BY Zenon, <1>1, <1>2 DEF FlushInv
  <1>5. ASSUME aofEnabled, NEW d \in Client, NEW n \in Db, n < flushed'[d]
        PROVE  stores'[n] = {}
    <2>1. d # c /\ flushed[d] # 0 /\ n < flushed[d]
      BY <1>1, <1>5, ServerAssumption DEF Db
    <2>2. UNCHANGED stores
      BY Zenon, <1>5, <2>1, OthersNotFlushing
    <2> QED
      BY Zenon, <1>5, <2>1, <2>2 DEF FlushInv
  <1> QED
    BY Zenon, <1>2, <1>3, <1>4, <1>5 DEF FlushInv

\* Every step keeps what FLUSHALL has emptied empty.
LEMMA NextFlushInv == ServerTypeOK /\ FlushInv /\ [ServerNext]_serverVars => FlushInv'
  <1> SUFFICES ASSUME ServerTypeOK, FlushInv, [ServerNext]_serverVars
               PROVE  FlushInv'
    BY Zenon
  <1>1. CASE Aside
    <2>1. UNCHANGED <<aofEnabled, request, pc, stores, flushed>>
      BY Zenon, <1>1 DEF Aside, data
    <2>2. ASSUME NEW c \in Client, pc[c] = "locked"
          PROVE  UNCHANGED lock
      <3>1. lock = c /\ lock \notin {Worker, Nobody}
        BY Zenon, <2>2, ServerAssumption DEF FlushInv
      <3> QED
        BY Zenon, <3>1, <1>1 DEF Aside
    <2> QED
      BY Zenon, <2>1, <2>2 DEF FlushInv, TakesLock
  <1>2. ASSUME NEW c \in Client, Acts(c)
        PROVE  FlushInv'
    <2> DEFINE others == \A d \in Client \ {c} : /\ pc'[d] = pc[d] /\ request'[d] = request[d]
                                                 /\ flushed'[d] = flushed[d]
    <2>0. others
      BY Zenon, <1>2, OthersUntouched DEF Own
    <2>1. ASSUME pc[c] \notin {"execute", "locked"}, pc'[c] # "locked",
                 UNCHANGED <<aofEnabled, lock, stores, flushed>>
          PROVE  FlushInv'
      <3>1. flushed[c] = 0
        BY Zenon, <2>1 DEF FlushInv
      <3> QED
        BY Zenon, <1>2, <2>1, <3>1, FlushQuiet
    <2>2. ASSUME NEW r \in Requests, Receive(c, r)
          PROVE  FlushInv'
      BY Zenon, <2>1, <2>2 DEF Receive, data, ServerTypeOK
    <2>3. CASE EndSend(c) \/ BeginSend(c) \/ updateClientState(c)
      BY Zenon, <2>1, <2>3 DEF EndSend, BeginSend, updateClientState, Goto, Continue, data, ServerTypeOK
    <2>4. CASE handleAuthCommand(c) \/ handleSelectCommand(c) \/ handleReadOnlyCommand(c)
      BY Zenon, <2>1, <2>4 DEF handleAuthCommand, handleSelectCommand, handleReadOnlyCommand, Dispatching,
                        Answer, Goto, data, ServerTypeOK
    <2>5. CASE \/ requireAuthenticatedClient(c) \/ handlePersistenceCommand(c)
               \/ rejectReadOnlyWrite(c) \/ Admit(c)
      BY Zenon, <2>1, <2>5 DEF requireAuthenticatedClient, handlePersistenceCommand, rejectReadOnlyWrite,
                        Admit, Dispatching, Answer, Goto, data, ServerTypeOK
    <2>6. CASE rejectMove(c)
      <3>1. /\ pc[c] = "execute" /\ request[c].name = "MOVE" /\ pc'[c] = "reply"
            /\ UNCHANGED <<aofEnabled, lock, stores, flushed>>
        BY Zenon, <2>6 DEF rejectMove, MoveOutOfRange, Answer, Goto, data, ServerTypeOK
      <3>2. flushed[c] = 0
        BY Zenon, <3>1 DEF FlushInv
      <3> QED
        BY Zenon, <1>2, <3>1, <3>2, FlushQuiet
    <2>7. CASE Lock(c)
      <3>1. /\ pc[c] = "execute" /\ pc'[c] = "locked" /\ TakesLock(c) /\ lock = Nobody /\ lock' = c
            /\ UNCHANGED <<aofEnabled, stores, flushed, request>>
        BY Zenon, <2>7 DEF Lock, Goto, data, ServerTypeOK
      <3>2. \A d \in Client : pc[d] # "locked"
        BY Zenon, <3>1, ServerAssumption DEF FlushInv
      <3>3. flushed[c] = 0
        BY Zenon, <3>1 DEF FlushInv, TakesLock
      <3> QED
        BY Zenon, <2>0, <3>1, <3>2, <3>3 DEF FlushInv, TakesLock
    <2>8. CASE executeRead(c)
      <3>1. request[c].name \in {"SAVE", "GET", "INFO", "PUBLISH"} /\ flushed' = flushed /\ stores' = stores
        BY Zenon, <2>8 DEF executeRead, Executing, data
      <3>2. flushed'[c] = 0
        BY Zenon, <3>1 DEF FlushInv
      <3> QED
        BY Zenon, <1>2, <2>8, <3>1, <3>2, FlushFinish DEF executeRead
    <2>9. CASE executeSet(c)
      <3>1. /\ Finish(c) /\ Executing(c, "SET") /\ flushed' = flushed
            /\ aofEnabled => pc[c] = "locked"
        BY Zenon, <2>9 DEF executeSet, Executing, TakesLock, appendToAof
      <3>2. flushed'[c] = 0
        BY Zenon, <3>1 DEF FlushInv, Executing
      <3> QED
        BY Zenon, <1>2, <3>1, <3>2, FlushFinish
    <2>10. CASE handleMoveCommand(c)
      <3>1. /\ Finish(c) /\ Executing(c, "MOVE") /\ flushed' = flushed
            /\ aofEnabled => pc[c] = "locked"
        BY Zenon, <2>10, MoveEffect DEF Executing, TakesLock, appendToAof
      <3>2. flushed'[c] = 0
        BY Zenon, <3>1 DEF FlushInv, Executing
      <3> QED
        BY Zenon, <1>2, <3>1, <3>2, FlushFinish
    <2>11. CASE FlushStore(c)
      <3>1. /\ Executing(c, "FLUSHALL") /\ flushed[c] \in Db /\ flushed'[c] = flushed[c] + 1
            /\ stores' = [stores EXCEPT ![flushed[c]] = {}]
            /\ UNCHANGED <<aofEnabled, request, pc, lock>>
        BY Zenon, <2>11 DEF FlushStore, ServerTypeOK
      <3>2. request[c].name = "FLUSHALL" /\ pc[c] = IF aofEnabled THEN "locked" ELSE "execute"
        BY Zenon, <3>1 DEF Executing, TakesLock, appendToAof
      <3>3. ASSUME aofEnabled, NEW d \in Client, NEW n \in Db, n < flushed'[d]
            PROVE  stores'[n] = {}
        <4>1. CASE d = c
          <5>1. n = flushed[c] \/ n < flushed[c]
            BY <3>1, <3>3, <4>1, ServerAssumption DEF Db
          <5> QED
            BY Zenon, <3>1, <3>3, <5>1 DEF FlushInv, ServerTypeOK
        <4>2. CASE d # c
          <5>1. flushed[d] = 0 /\ flushed'[d] = flushed[d]
            BY Zenon, <2>0, <3>2, <3>3, <4>2, OthersNotFlushing
          <5> QED
            BY <3>3, <5>1, ServerAssumption DEF Db
        <4> QED
          BY Zenon, <4>1, <4>2
      <3>4. \A d \in Client : flushed'[d] # 0 =>
              request[d].name = "FLUSHALL" /\ pc[d] = IF aofEnabled THEN "locked" ELSE "execute"
        BY Zenon, <2>0, <3>2 DEF FlushInv
      <3>5. \A d \in Client : pc'[d] = "locked" => lock' = d /\ TakesLock(d)'
        BY Zenon, <3>1 DEF FlushInv, TakesLock
      <3> QED
        BY Zenon, <3>1, <3>3, <3>4, <3>5 DEF FlushInv
    <2>12. CASE FlushEnd(c)
      <3>1. /\ Finish(c) /\ Executing(c, "FLUSHALL") /\ flushed'[c] = 0 /\ stores' = stores
        BY Zenon, <2>12 DEF FlushEnd, ServerTypeOK
      <3> QED
        BY Zenon, <1>2, <3>1, FlushFinish
    <2> QED
      BY Zenon, <1>2, <2>2, <2>3, <2>4, <2>5, <2>6, <2>7, <2>8, <2>9, <2>10, <2>11, <2>12 DEF Acts, Work
  <1> QED
    BY Zenon, <1>1, <1>2, NextActs

\* With the log on, FLUSHALL answers when every database is empty, however many
\* clients write meanwhile.
THEOREM FlushAllAlwaysClears == ServerSpec => FlushAllClears
  <1>1. ServerInit => FlushInv
    BY Zenon, ServerAssumption DEF ServerInit, FlushInv, Db
  <1>2. ASSUME ServerTypeOK, FlushInv, NEW c \in Client, FlushEnd(c), aofEnabled
        PROVE  \A d \in Db : stores[d] = {}
    <2>1. flushed[c] = Databases
      BY Zenon, <1>2 DEF FlushEnd
    <2> QED
      BY <1>2, <2>1, ServerAssumption DEF FlushInv, Db
  <1>3. ServerTypeOK /\ FlushInv =>
          [\A c \in Client : FlushEnd(c) /\ aofEnabled => \A d \in Db : stores[d] = {}]_serverVars
    BY Zenon, <1>2
  <1> QED
    BY <1>1, <1>3, NextFlushInv, ServerTypes, PTL DEF ServerSpec, FlushAllClears

-----------------------------------------------------------------------------
\* The tables of connections.

\* The part of the type invariant the subscription maps depend on.
SubscriptionTypes ==
  /\ thread \in [Conn -> Stage]
  /\ \A c \in Conn : thread[c] # "new" => c \in DOMAIN clientFd /\ clientFd[c] \in Fd
  /\ clientSubscriptions \in [DOMAIN clientSubscriptions -> SUBSET Channel]
  /\ DOMAIN clientSubscriptions \subseteq Fd
  /\ channelSubscribers \in [DOMAIN channelSubscribers -> SUBSET Fd]
  /\ DOMAIN channelSubscribers \subseteq Channel

SInv == SubscriptionTypes /\ SubscriptionsAgree

\* Before the first connection both maps are empty.
LEMMA InitSInv == Init => SInv
  BY Zenon DEF Init, SInv, SubscriptionTypes, SubscriptionsAgree, EmptyMap, SetAt, Stage

\* A thread moves on and the subscriptions stay.
LEMMA StepTypes ==
  ASSUME SInv, NEW c \in Conn, NEW from, NEW to \in Stage, Step(c, from, to), from # "new",
         UNCHANGED <<clientFd, subscriptions>>
  PROVE  SInv'
  BY Zenon DEF SInv, SubscriptionTypes, SubscriptionsAgree, Step, SetAt, subscriptions

\* Steps that leave threads, descriptors and subscriptions alone.
LEMMA SameSubscriptions ==
  ASSUME SInv, UNCHANGED <<thread, clientFd, subscriptions>>
  PROVE  SInv'
  BY Zenon DEF SInv, SubscriptionTypes, SubscriptionsAgree, SetAt, subscriptions

\* Leaving channels takes both maps along.
LEMMA UnsubscribedAgree ==
  ASSUME SInv, NEW f \in Fd, NEW targets \in SUBSET Channel, Unsubscribed(f, targets)
  PROVE  /\ SubscriptionsAgree'
         /\ clientSubscriptions' \in [DOMAIN clientSubscriptions' -> SUBSET Channel]
         /\ DOMAIN clientSubscriptions' \subseteq Fd
         /\ channelSubscribers' \in [DOMAIN channelSubscribers' -> SUBSET Fd]
         /\ DOMAIN channelSubscribers' \subseteq Channel
  <1> DEFINE cs == clientSubscriptions
             sub == channelSubscribers
             own == SetAt(cs, f) \ targets
  <1>1. /\ DOMAIN cs' = IF own = {} THEN DOMAIN cs \ {f} ELSE DOMAIN cs \cup {f}
        /\ \A g \in DOMAIN cs' : cs'[g] = IF g = f THEN own ELSE cs[g]
        /\ cs' = [g \in DOMAIN cs' |-> cs'[g]]
    BY ZenonT(30) DEF Unsubscribed, Put, Without, Restrict
  <1>2. /\ DOMAIN sub' = {h \in DOMAIN sub : h \in targets => sub[h] \ {f} # {}}
        /\ \A h \in DOMAIN sub' : sub'[h] = IF h \in targets THEN sub[h] \ {f} ELSE sub[h]
        /\ sub' = [h \in DOMAIN sub' |-> sub'[h]]
    BY Zenon DEF Unsubscribed
  <1>3. /\ \A g \in Fd : SetAt(cs, g)' = IF g = f THEN own ELSE SetAt(cs, g)
        /\ \A g \in DOMAIN cs' : cs'[g] # {}
    BY ZenonT(30), <1>1 DEF SetAt, SInv, SubscriptionsAgree
  <1>4. /\ \A h \in Channel : SetAt(sub, h)' = IF h \in targets THEN SetAt(sub, h) \ {f}
                                                                ELSE SetAt(sub, h)
        /\ \A h \in DOMAIN sub' : sub'[h] # {}
    BY ZenonT(30), <1>2 DEF SetAt, SInv, SubscriptionsAgree
  <1>5. SubscriptionsAgree'
    <2>1. \A g \in Fd, h \in Channel : h \in SetAt(cs, g) <=> g \in SetAt(sub, h)
      BY Zenon DEF SInv, SubscriptionsAgree
    <2>2. \A g \in Fd, h \in Channel : h \in SetAt(cs, g)' <=> g \in SetAt(sub, h)'
      BY <1>3, <1>4, <2>1
    <2> QED
      BY Zenon, <1>3, <1>4, <2>2 DEF SubscriptionsAgree
  <1>6. cs' \in [DOMAIN cs' -> SUBSET Channel] /\ DOMAIN cs' \subseteq Fd
    <2>1. own \subseteq Channel
      BY Zenon DEF SInv, SubscriptionTypes, SetAt
    <2> QED
      BY Zenon, <1>1, <2>1 DEF SInv, SubscriptionTypes
  <1>7. sub' \in [DOMAIN sub' -> SUBSET Fd] /\ DOMAIN sub' \subseteq Channel
    BY ZenonT(30), <1>2 DEF SInv, SubscriptionTypes
  <1> QED
    BY Zenon, <1>5, <1>6, <1>7

\* removeClientSubscriptions is only ever asked to leave channels.
LEMMA OwnChannels ==
  ASSUME SInv, NEW f \in Fd
  PROVE  SetAt(clientSubscriptions, f) \in SUBSET Channel
  BY Zenon DEF SInv, SubscriptionTypes, SetAt

\* subscribe adds the client to one map and the channel to the other.
LEMMA SubscribeSInv ==
  ASSUME SInv, NEW c \in Conn, NEW channels \in SUBSET Channel, subscribe(c, channels)
  PROVE  SInv'
  <1> DEFINE cs == clientSubscriptions
             sub == channelSubscribers
             f == clientFd[c]
  <1>1. f \in Fd
    BY Zenon DEF subscribe, Idle, SInv, SubscriptionTypes
  <1>2. /\ DOMAIN cs' = DOMAIN cs \cup {f}
        /\ \A g \in DOMAIN cs' : cs'[g] = IF g = f THEN SetAt(cs, f) \cup channels ELSE cs[g]
        /\ cs' = [g \in DOMAIN cs' |-> cs'[g]]
    BY Zenon DEF subscribe, Put
  <1>3. /\ DOMAIN sub' = DOMAIN sub \cup channels
        /\ \A h \in DOMAIN sub' :
             sub'[h] = SetAt(sub, h) \cup (IF h \in channels THEN {f} ELSE {})
        /\ sub' = [h \in DOMAIN sub' |-> sub'[h]]
    BY Zenon DEF subscribe
  <1>4. channels # {} /\ UNCHANGED <<thread, clientFd>>
    BY Zenon DEF subscribe
  <1> HIDE DEF f
  <1>5. /\ \A g \in Fd : SetAt(cs, g)' = IF g = f THEN SetAt(cs, f) \cup channels ELSE SetAt(cs, g)
        /\ \A g \in DOMAIN cs' : cs'[g] # {}
    BY ZenonT(30), <1>2, <1>4 DEF SetAt, SInv, SubscriptionsAgree
  <1>6. /\ \A h \in Channel : SetAt(sub, h)' = IF h \in channels THEN SetAt(sub, h) \cup {f}
                                                                 ELSE SetAt(sub, h)
        /\ \A h \in DOMAIN sub' : sub'[h] # {}
    <2>1. ASSUME NEW h \in channels
          PROVE  h \in DOMAIN sub' /\ sub'[h] = SetAt(sub, h) \cup {f}
      BY Zenon, <1>3
    <2>2. ASSUME NEW h \in DOMAIN sub', h \notin channels
          PROVE  h \in DOMAIN sub /\ sub'[h] = sub[h] /\ sub[h] # {}
      BY Zenon, <1>3, <2>2 DEF SetAt, SInv, SubscriptionsAgree
    <2> QED
      BY ZenonT(30), <1>3, <2>1, <2>2 DEF SetAt
  <1>7. SubscriptionsAgree'
    <2>1. \A g \in Fd, h \in Channel : h \in SetAt(cs, g) <=> g \in SetAt(sub, h)
      BY Zenon DEF SInv, SubscriptionsAgree
    <2>2. \A g \in Fd, h \in Channel : h \in SetAt(cs, g)' <=> g \in SetAt(sub, h)'
      BY <1>5, <1>6, <2>1
    <2> QED
      BY Zenon, <1>5, <1>6, <2>2 DEF SubscriptionsAgree
  <1>8. cs' \in [DOMAIN cs' -> SUBSET Channel] /\ DOMAIN cs' \subseteq Fd
    <2>1. SetAt(cs, f) \in SUBSET Channel
      BY Zenon, <1>1, OwnChannels
    <2> QED
      BY Zenon, <1>1, <1>2, <2>1 DEF SInv, SubscriptionTypes
  <1>9. sub' \in [DOMAIN sub' -> SUBSET Fd] /\ DOMAIN sub' \subseteq Channel
    <2>1. \A h \in Channel : SetAt(sub, h) \in SUBSET Fd
      BY Zenon DEF SInv, SubscriptionTypes, SetAt
    <2> QED
      BY ZenonT(30), <1>1, <1>3, <2>1 DEF SInv, SubscriptionTypes
  <1> QED
    BY Zenon, <1>4, <1>7, <1>8, <1>9 DEF SInv, SubscriptionTypes

\* Every step of the server keeps the two subscription maps inverse.
LEMMA NextSInv == SInv /\ [Next]_vars => SInv'
  <1> SUFFICES ASSUME SInv, [Next]_vars
               PROVE  SInv'
    BY Zenon
  <1>1. CASE UNCHANGED vars
    BY Zenon, <1>1, SameSubscriptions DEF vars
  <1>2. ASSUME NEW c \in Conn, Arrive(c)
        PROVE  SInv'
    <2>1. CASE Accept(c)
      <3>1. PICK f \in Fd : clientFd' = Put(clientFd, c, f)
        BY Zenon, <2>1 DEF Accept
      <3>2. thread' \in [Conn -> Stage] /\ \A d \in Conn \ {c} : thread'[d] = thread[d]
        BY Zenon, <2>1 DEF Accept, Step, Stage, SInv, SubscriptionTypes
      <3>3. \A d \in Conn : thread'[d] # "new" => d \in DOMAIN clientFd' /\ clientFd'[d] \in Fd
        BY Zenon, <3>1, <3>2 DEF Put, SInv, SubscriptionTypes
      <3>4. UNCHANGED <<clientSubscriptions, channelSubscribers>>
        BY Zenon, <2>1 DEF Accept, subscriptions
      <3> QED
        BY Zenon, <3>2, <3>3, <3>4 DEF SInv, SubscriptionTypes, SubscriptionsAgree, SetAt
    <2>2. CASE CountConnected(c) \/ RaisePeak(c) \/ registerClient(c)
      BY Zenon, <2>2, StepTypes DEF CountConnected, RaisePeak, registerClient, Stage
    <2>3. CASE RereadPeak(c)
      BY Zenon, <2>3, SameSubscriptions DEF RereadPeak
    <2> QED
      BY Zenon, <1>2, <2>1, <2>2, <2>3 DEF Arrive
  <1>3. ASSUME NEW c \in Conn, Serve(c)
        PROVE  SInv'
    <2>1. ASSUME NEW channels \in SUBSET Channel, unsubscribe(c, channels)
          PROVE  SInv'
      <3>1. clientFd[c] \in Fd
        BY Zenon, <2>1 DEF unsubscribe, Idle, SInv, SubscriptionTypes
      <3>2. PICK targets \in SUBSET Channel : Unsubscribed(clientFd[c], targets)
        BY Zenon, <2>1, <3>1, OwnChannels DEF unsubscribe
      <3> QED
        BY Zenon, <2>1, <3>1, <3>2, UnsubscribedAgree DEF unsubscribe, SInv, SubscriptionTypes
    <2>2. ASSUME NEW f \in Fd, PublishDrop(c, f)
          PROVE  SInv'
      <3>1. PICK targets \in SUBSET Channel : Unsubscribed(f, targets)
        BY Zenon, <2>2, OwnChannels DEF PublishDrop
      <3> QED
        BY Zenon, <2>2, <3>1, UnsubscribedAgree DEF PublishDrop, SInv, SubscriptionTypes
    <2>3. ASSUME UNCHANGED <<thread, clientFd, subscriptions>>
          PROVE  SInv'
      BY Zenon, <2>3, SameSubscriptions
    <2> QED
      BY ZenonT(30), <1>3, <2>1, <2>2, <2>3, SubscribeSInv
         DEF Serve, publish, PublishSend, PublishFails, PublishReply, KillFind, KillClose
  <1>4. ASSUME NEW c \in Conn, Depart(c)
        PROVE  SInv'
    <2>1. CASE removeClientSubscriptions(c)
      <3>1. clientFd[c] \in Fd
        BY Zenon, <2>1 DEF removeClientSubscriptions, Step, SInv, SubscriptionTypes
      <3>2. PICK targets \in SUBSET Channel : Unsubscribed(clientFd[c], targets)
        BY Zenon, <2>1, <3>1, OwnChannels DEF removeClientSubscriptions
      <3>3. /\ thread' \in [Conn -> Stage]
            /\ \A d \in Conn : thread'[d] # "new" => d \in DOMAIN clientFd' /\ clientFd'[d] \in Fd
        BY Zenon, <2>1 DEF removeClientSubscriptions, Step, SInv, SubscriptionTypes, Stage
      <3> QED
        BY Zenon, <3>1, <3>2, <3>3, UnsubscribedAgree DEF SInv, SubscriptionTypes
    <2>2. CASE Leave(c) \/ unregisterClient(c) \/ Close(c) \/ clientDisconnected(c)
      BY Zenon, <2>2, StepTypes DEF Leave, unregisterClient, Close, clientDisconnected, Stage
    <2> QED
      BY Zenon, <1>4, <2>1, <2>2 DEF Depart
  <1> QED
    BY Zenon, <1>1, <1>2, <1>3, <1>4 DEF Next

\* clientSubscriptions_ and channelSubscribers_ are each other's inverse and
\* hold no empty entry, whatever connections come and go, and whatever
\* descriptors CLIENT KILL and PUBLISH hit.
THEOREM SubscriptionsAlwaysAgree == Spec => []SubscriptionsAgree
  <1>1. Spec => []SInv
    BY InitSInv, NextSInv, PTL DEF Spec
  <1> QED
    BY <1>1, PTL DEF SInv

-----------------------------------------------------------------------------
\* Who owns a descriptor.  NoConnectionLeaked is inductive once the types are
\* known.  DescriptorsOwned needs more: that no kill is under way while none
\* has found its client, and that only a thread between registerClient and
\* unregisterClient has an entry in clients_.

Open == {"accepted", "counting", "counted", "serving", "leaving", "unsubscribed", "unregistered"}

Registered == {"serving", "leaving", "unsubscribed"}

DescriptorTypes ==
  /\ thread \in [Conn -> Stage]
  /\ socket \in [DOMAIN socket -> Conn] /\ DOMAIN socket \subseteq Fd
  /\ \A c \in Conn : thread[c] # "new" => c \in DOMAIN clientFd
  /\ clients \in [DOMAIN clients -> Conn]
  /\ kills \in Nat

\* Open connections and the threads that will close them.
Leakless == \A f \in DOMAIN socket : thread[socket[f]] \in Open /\ clientFd[socket[f]] = f

\* The three conjuncts of DescriptorsOwned, as they are preserved.
Owned ==
  /\ DOMAIN killing = {}
  /\ \A c \in Conn : thread[c] \in Open => clientFd[c] \in DOMAIN socket /\ socket[clientFd[c]] = c
  /\ \A f \in DOMAIN clients :
       f \in DOMAIN socket /\ socket[f] = clients[f] /\ thread[clients[f]] \in Registered
  /\ \A f \in DOMAIN clientSubscriptions :
       f \in DOMAIN socket /\ thread[socket[f]] \in {"serving", "leaving"}

OInv == DescriptorTypes /\ Leakless /\ (kills = 0 => Owned)

\* Before the first connection no descriptor is open and no table has an entry.
LEMMA InitOInv == Init => OInv
  BY DEF Init, OInv, DescriptorTypes, Leakless, Owned, EmptyMap, Stage, Open

\* Leaving channels never adds a descriptor to clientSubscriptions_, and leaving
\* all of them takes the descriptor out.
LEMMA FewerSubscriptions ==
  ASSUME NEW f, NEW targets, Unsubscribed(f, targets)
  PROVE  /\ DOMAIN clientSubscriptions' \subseteq DOMAIN clientSubscriptions
         /\ SetAt(clientSubscriptions, f) \subseteq targets => f \notin DOMAIN clientSubscriptions'
  <1> DEFINE own == SetAt(clientSubscriptions, f) \ targets
  <1>1. DOMAIN clientSubscriptions' =
          IF own = {} THEN DOMAIN clientSubscriptions \ {f} ELSE DOMAIN clientSubscriptions \cup {f}
    BY Zenon DEF Unsubscribed, Put, Without, Restrict
  <1>2. own # {} => f \in DOMAIN clientSubscriptions
    BY Zenon DEF SetAt
  <1> QED
    BY Zenon, <1>1, <1>2

\* A step of a thread that leaves the tables alone.
LEMMA QuietStep ==
  ASSUME OInv, NEW c \in Conn, NEW from \in Stage \ {"new"}, NEW to \in Open, Step(c, from, to),
         from \in Open, from \in Registered => to \in Registered,
         from \in {"serving", "leaving"} => to \in {"serving", "leaving"},
         UNCHANGED <<socket, clientFd, clients, clientSubscriptions, killing, kills>>
  PROVE  OInv'
  <1>1. DescriptorTypes'
    BY Zenon DEF OInv, DescriptorTypes, Step, Stage, Open
  <1>2. Leakless'
    BY Zenon DEF OInv, DescriptorTypes, Leakless, Step
  <1>3. kills = 0 => Owned'
    BY Zenon DEF OInv, DescriptorTypes, Owned, Step
  <1> QED
    BY Zenon, <1>1, <1>2, <1>3 DEF OInv

\* A step that changes no table of this part, or takes subscriptions away.
LEMMA QuietServe ==
  ASSUME OInv, DOMAIN clientSubscriptions' \subseteq DOMAIN clientSubscriptions,
         UNCHANGED <<socket, thread, clientFd, clients, killing, kills>>
  PROVE  OInv'
  BY Zenon DEF OInv, DescriptorTypes, Leakless, Owned

\* acceptLoop hands out a descriptor that is not open, so no table mentions it.
LEMMA AcceptOInv ==
  ASSUME OInv, NEW c \in Conn, Accept(c)
  PROVE  OInv'
  <1>1. PICK f \in Fd \ DOMAIN socket : socket' = Put(socket, f, c) /\ clientFd' = Put(clientFd, c, f)
    BY Zenon DEF Accept
  <1>2. /\ thread[c] = "new" /\ thread' = [thread EXCEPT ![c] = "accepted"]
        /\ UNCHANGED <<clients, clientSubscriptions, killing, kills>>
    BY Zenon DEF Accept, Step, subscriptions
  <1>3. DescriptorTypes'
    BY Zenon, <1>1, <1>2 DEF OInv, DescriptorTypes, Stage, Put
  <1>4. Leakless'
    BY <1>1, <1>2 DEF OInv, DescriptorTypes, Leakless, Put, Open
  <1>5. ASSUME kills = 0
        PROVE  Owned'
    <2>1. Owned /\ DescriptorTypes /\ Leakless
      BY Zenon, <1>5 DEF OInv
    <2>2. \A d \in Conn : thread'[d] \in Open =>
            clientFd'[d] \in DOMAIN socket' /\ socket'[clientFd'[d]] = d
      BY Zenon, <1>1, <1>2, <2>1 DEF Owned, DescriptorTypes, Put, Open
    <2>3. \A g \in DOMAIN clients' : /\ g \in DOMAIN socket' /\ socket'[g] = clients'[g]
                                     /\ thread'[clients'[g]] \in Registered
      BY Zenon, <1>1, <1>2, <2>1 DEF Owned, DescriptorTypes, Put, Registered
    <2>4. \A g \in DOMAIN clientSubscriptions' :
            g \in DOMAIN socket' /\ thread'[socket'[g]] \in {"serving", "leaving"}
      BY Zenon, <1>1, <1>2, <2>1 DEF Owned, DescriptorTypes, Put
    <2> QED
      BY Zenon, <1>2, <2>1, <2>2, <2>3, <2>4 DEF Owned
  <1> QED
    BY Zenon, <1>2, <1>3, <1>4, <1>5 DEF OInv

\* registerClient enters the connection under its own descriptor.
LEMMA RegisterOInv ==
  ASSUME OInv, NEW c \in Conn, registerClient(c)
  PROVE  OInv'
  <1>1. /\ thread[c] = "counted" /\ thread' = [thread EXCEPT ![c] = "serving"]
        /\ clients' = Put(clients, clientFd[c], c)
        /\ UNCHANGED <<socket, clientFd, clientSubscriptions, killing, kills>>
    BY Zenon DEF registerClient, Step, subscriptions
  <1>2. DescriptorTypes'
    BY Zenon, <1>1 DEF OInv, DescriptorTypes, Stage, Put
  <1>3. Leakless'
    BY Zenon, <1>1 DEF OInv, DescriptorTypes, Leakless, Open
  <1>4. kills = 0 => Owned'
    BY <1>1 DEF OInv, DescriptorTypes, Owned, Put, Open, Registered
  <1> QED
    BY Zenon, <1>1, <1>2, <1>3, <1>4 DEF OInv

\* SUBSCRIBE is run by the thread that owns the descriptor.
LEMMA SubscribeOInv ==
  ASSUME OInv, NEW c \in Conn, NEW channels, subscribe(c, channels)
  PROVE  OInv'
  <1>1. /\ thread[c] = "serving"
        /\ DOMAIN clientSubscriptions' = DOMAIN clientSubscriptions \cup {clientFd[c]}
        /\ UNCHANGED <<socket, thread, clientFd, clients, killing, kills>>
    BY Zenon DEF subscribe, Idle, Put
  <1>2. kills = 0 => Owned'
    BY Zenon, <1>1 DEF OInv, Owned, Open
  <1> QED
    BY Zenon, <1>1, <1>2 DEF OInv, DescriptorTypes, Leakless

\* The thread's own subscriptions are gone before its entry in clients_, and
\* the entry before the descriptor is closed.
LEMMA DepartOInv ==
  ASSUME OInv, NEW c \in Conn, Depart(c)
  PROVE  OInv'
  <1>1. CASE Leave(c)
    BY Zenon, <1>1, QuietStep DEF Leave, subscriptions, Stage, Open, Registered
  <1>2. CASE removeClientSubscriptions(c)
    <2>1. /\ thread[c] = "leaving" /\ thread' = [thread EXCEPT ![c] = "unsubscribed"]
          /\ UNCHANGED <<socket, clientFd, clients, killing, kills>>
      BY Zenon, <1>2 DEF removeClientSubscriptions, Step
    <2>2. /\ DOMAIN clientSubscriptions' \subseteq DOMAIN clientSubscriptions
          /\ clientFd[c] \notin DOMAIN clientSubscriptions'
      BY Zenon, <1>2, FewerSubscriptions DEF removeClientSubscriptions
    <2>3. DescriptorTypes' /\ Leakless'
      BY Zenon, <2>1 DEF OInv, DescriptorTypes, Leakless, Stage, Open
    <2>4. kills = 0 => Owned'
      BY <2>1, <2>2 DEF OInv, DescriptorTypes, Owned, Leakless, Open, Registered
    <2> QED
      BY Zenon, <2>1, <2>3, <2>4 DEF OInv
  <1>3. CASE unregisterClient(c)
    <2>1. /\ thread[c] = "unsubscribed" /\ thread' = [thread EXCEPT ![c] = "unregistered"]
          /\ clients' = Without(clients, {clientFd[c]})
          /\ UNCHANGED <<socket, clientFd, clientSubscriptions, killing, kills>>
      BY Zenon, <1>3 DEF unregisterClient, Step, subscriptions
    <2>2. DescriptorTypes' /\ Leakless'
      BY Zenon, <2>1 DEF OInv, DescriptorTypes, Leakless, Stage, Open, Without, Restrict
    <2>3. kills = 0 => Owned'
      BY <2>1 DEF OInv, DescriptorTypes, Owned, Leakless, Open, Registered, Without, Restrict
    <2> QED
      BY Zenon, <2>1, <2>2, <2>3 DEF OInv
  <1>4. CASE Close(c)
    <2>1. /\ thread[c] = "unregistered" /\ thread' = [thread EXCEPT ![c] = "closed"]
          /\ socket' = Without(socket, {clientFd[c]})
          /\ UNCHANGED <<clientFd, clients, clientSubscriptions, killing, kills>>
      BY Zenon, <1>4 DEF Close, Step, subscriptions
    <2>2. DescriptorTypes' /\ Leakless'
      BY Zenon, <2>1 DEF OInv, DescriptorTypes, Leakless, Stage, Open, Without, Restrict
    <2>3. kills = 0 => Owned'
      BY <2>1 DEF OInv, DescriptorTypes, Owned, Leakless, Open, Registered, Without, Restrict
    <2> QED
      BY Zenon, <2>1, <2>2, <2>3 DEF OInv
  <1>5. CASE clientDisconnected(c)
    <2>1. /\ thread[c] = "closed" /\ thread' = [thread EXCEPT ![c] = "gone"]
          /\ UNCHANGED <<socket, clientFd, clients, clientSubscriptions, killing, kills>>
      BY Zenon, <1>5 DEF clientDisconnected, Step, subscriptions
    <2> QED
      BY <2>1 DEF OInv, DescriptorTypes, Leakless, Owned, Stage, Open, Registered
  <1> QED
    BY Zenon, <1>1, <1>2, <1>3, <1>4, <1>5 DEF Depart

\* Every step keeps descriptors with their threads; only CLIENT KILL can end it.
LEMMA NextOInv == OInv /\ [Next]_vars => OInv'
  <1> SUFFICES ASSUME OInv, [Next]_vars
               PROVE  OInv'
    BY Zenon
  <1>1. CASE UNCHANGED vars
    BY Zenon, <1>1, QuietServe DEF vars, subscriptions
  <1>2. ASSUME NEW c \in Conn, Arrive(c)
        PROVE  OInv'
    <2>1. CASE CountConnected(c)
      BY Zenon, <2>1, QuietStep DEF CountConnected, subscriptions, Stage, Open, Registered
    <2>2. CASE RereadPeak(c)
      BY Zenon, <2>2, QuietServe DEF RereadPeak, subscriptions
    <2>3. CASE RaisePeak(c)
      BY Zenon, <2>3, QuietStep DEF RaisePeak, subscriptions, Stage, Open, Registered
    <2> QED
      BY Zenon, <1>2, <2>1, <2>2, <2>3, AcceptOInv, RegisterOInv DEF Arrive
  <1>3. ASSUME NEW c \in Conn, Serve(c)
        PROVE  OInv'
    <2>1. ASSUME NEW channels, unsubscribe(c, channels)
          PROVE  OInv'
      <3>1. DOMAIN clientSubscriptions' \subseteq DOMAIN clientSubscriptions
        BY Zenon, <2>1, FewerSubscriptions DEF unsubscribe
      <3> QED
        BY Zenon, <2>1, <3>1, QuietServe DEF unsubscribe
    <2>2. ASSUME NEW channel, publish(c, channel)
          PROVE  OInv'
      BY Zenon, <2>2, QuietServe DEF publish, subscriptions
    <2>3. ASSUME NEW f, PublishSend(c, f) \/ PublishFails(c, f) \/ PublishReply(c)
          PROVE  OInv'
      BY Zenon, <2>3, QuietServe DEF PublishSend, PublishFails, PublishReply, subscriptions
    <2>4. ASSUME NEW f, PublishDrop(c, f)
          PROVE  OInv'
      <3>1. DOMAIN clientSubscriptions' \subseteq DOMAIN clientSubscriptions
        BY Zenon, <2>4, FewerSubscriptions DEF PublishDrop
      <3> QED
        BY Zenon, <2>4, <3>1, QuietServe DEF PublishDrop
    <2>5. ASSUME NEW id, KillFind(c, id)
          PROVE  OInv'
      <3>1. kills' = kills + 1 /\ UNCHANGED <<socket, thread, clientFd, clients>>
        BY Zenon, <2>5 DEF KillFind
      <3> QED
        BY <3>1 DEF OInv, DescriptorTypes, Leakless
    <2>6. CASE KillClose(c)
      <3>1. /\ c \in DOMAIN killing /\ socket' = Without(socket, {killing[c]})
            /\ UNCHANGED <<thread, clientFd, clients, kills>>
        BY Zenon, <2>6 DEF KillClose
      <3>2. kills # 0
        BY Zenon, <3>1 DEF OInv, Owned
      <3> QED
        BY Zenon, <3>1, <3>2 DEF OInv, DescriptorTypes, Leakless, Without, Restrict
    <2> QED
      BY Zenon, <1>3, <2>1, <2>2, <2>3, <2>4, <2>5, <2>6, SubscribeOInv DEF Serve
  <1> QED
    BY Zenon, <1>1, <1>2, <1>3, DepartOInv DEF Next

\* No open connection is ever without a thread that has still to close its
\* descriptor, whatever the number of connections and of CLIENT KILLs.
THEOREM ConnectionsNeverLeak == Spec => []NoConnectionLeaked
  <1>1. OInv => NoConnectionLeaked
    BY Zenon DEF OInv, DescriptorTypes, Leakless, NoConnectionLeaked, Open, Stage
  <1> QED
    BY <1>1, InitOInv, NextOInv, PTL DEF Spec

\* Until a CLIENT KILL finds its client, handleClient's order of cleaning up
\* (subscriptions, clients_, then the descriptor) keeps every table entry with
\* the connection that owns the descriptor, however descriptors are reused.
THEOREM DescriptorsStayOwned == Spec => []DescriptorsOwned
  <1>1. OInv => DescriptorsOwned
    BY SMTT(30) DEF OInv, DescriptorTypes, Owned, DescriptorsOwned, Open, Stage
  <1> QED
    BY <1>1, InitOInv, NextOInv, PTL DEF Spec

-----------------------------------------------------------------------------
\* Connections that lose their descriptor to CLIENT KILL.  A close takes the number
\* from at most one connection; a thread that is a stray itself stops being one by it.

StrayInv == IsFiniteSet(Strays) /\ IsFiniteSet(DOMAIN killing) /\ StraysWithinKills

\* The size of a set that gains at most one element.
LEMMA OneMore ==
  ASSUME NEW S, NEW T, NEW e, IsFiniteSet(S), T \subseteq S \cup {e}
  PROVE  IsFiniteSet(T) /\ Cardinality(T) <= Cardinality(S) + 1
  <1>1. IsFiniteSet(S \cup {e}) /\ Cardinality(S \cup {e}) <= Cardinality(S) + 1
    <2>1. Cardinality(S) \in Nat
      BY FS_CardinalityType
    <2> QED
      BY <2>1, FS_AddElement
  <1>2. IsFiniteSet(T) /\ Cardinality(T) <= Cardinality(S \cup {e})
    BY <1>1, FS_Subset
  <1> QED
    BY <1>1, <1>2, FS_CardinalityType

\* The size of a set without one of its elements.
LEMMA OneLess ==
  ASSUME NEW S, NEW x \in S, IsFiniteSet(S)
  PROVE  IsFiniteSet(S \ {x}) /\ Cardinality(S \ {x}) = Cardinality(S) - 1
  BY FS_RemoveElement

\* A step that makes no stray.
LEMMA NoNewStray ==
  ASSUME StrayInv, Strays' \subseteq Strays, UNCHANGED <<killing, kills>>, kills \in Nat
  PROVE  StrayInv'
  <1>1. IsFiniteSet(Strays') /\ Cardinality(Strays') <= Cardinality(Strays)
    BY Zenon, FS_Subset DEF StrayInv
  <1>2. Cardinality(Strays) \in Nat /\ Cardinality(Strays') \in Nat /\ Cardinality(DOMAIN killing) \in Nat
    BY Zenon, <1>1, FS_CardinalityType DEF StrayInv
  <1> QED
    BY <1>1, <1>2 DEF StrayInv, StraysWithinKills

\* A thread moves on with its descriptor.
LEMMA StepNoStray ==
  ASSUME OInv, StrayInv, NEW c \in Conn, NEW from \in Open, NEW to \in Stage, Step(c, from, to),
         UNCHANGED <<socket, clientFd, killing, kills>>
  PROVE  StrayInv'
  <1>1. Strays' \subseteq Strays
    BY Zenon DEF Strays, Step, OInv, DescriptorTypes, Open
  <1> QED
    BY Zenon, <1>1, NoNewStray DEF OInv, DescriptorTypes

\* A step that leaves descriptors and threads alone.
LEMMA ServeNoStray ==
  ASSUME OInv, StrayInv, UNCHANGED <<socket, thread, clientFd, killing, kills>>
  PROVE  StrayInv'
  <1>1. Strays' = Strays
    BY Zenon DEF Strays
  <1> QED
    BY Zenon, <1>1, NoNewStray DEF OInv, DescriptorTypes

\* acceptLoop gives the new connection a descriptor no thread owns.
LEMMA AcceptNoStray ==
  ASSUME OInv, StrayInv, NEW c \in Conn, Accept(c)
  PROVE  StrayInv'
  <1>1. PICK f \in Fd \ DOMAIN socket : socket' = Put(socket, f, c) /\ clientFd' = Put(clientFd, c, f)
    BY Zenon DEF Accept
  <1>2. /\ thread' = [thread EXCEPT ![c] = "accepted"] /\ UNCHANGED <<killing, kills>>
    BY Zenon DEF Accept, Step
  <1>3. c \notin Strays'
    BY Zenon, <1>1 DEF Strays, Put
  <1>4. ASSUME NEW d \in Conn, d # c, d \in Strays'
        PROVE  d \in Strays
    <2>1. thread'[d] = thread[d]
      BY Zenon, <1>2, <1>4 DEF OInv, DescriptorTypes
    <2>2. thread[d] \notin {"new", "closed", "gone"}
      BY Zenon, <1>4, <2>1 DEF Strays
    <2>3. clientFd'[d] = clientFd[d]
      BY Zenon, <1>1, <1>4, <2>2 DEF Put, OInv, DescriptorTypes
    <2>4. ASSUME clientFd[d] \in DOMAIN socket, socket[clientFd[d]] = d
          PROVE  FALSE
      <3>1. clientFd[d] \in DOMAIN socket' /\ socket'[clientFd[d]] = d
        BY Zenon, <1>1, <2>4 DEF Put
      <3> QED
        BY Zenon, <1>4, <2>3, <3>1 DEF Strays
    <2> QED
      BY Zenon, <2>2, <2>4 DEF Strays
  <1>5. Strays' \subseteq Strays
    BY Zenon, <1>3, <1>4 DEF Strays
  <1> QED
    BY Zenon, <1>2, <1>5, NoNewStray DEF OInv, DescriptorTypes

\* When a number is closed, only the connection behind it becomes a stray.
LEMMA ClosedStray ==
  ASSUME NEW f, socket' = Without(socket, {f}), UNCHANGED clientFd,
         NEW d \in Strays', d \notin Strays, thread'[d] = thread[d]
  PROVE  f \in DOMAIN socket /\ d = socket[f]
  <1>1. /\ thread[d] \notin {"new", "closed", "gone"} /\ d \in Conn
        /\ ~(clientFd[d] \in DOMAIN socket' /\ socket'[clientFd[d]] = d)
    BY Zenon DEF Strays
  <1>2. clientFd[d] \in DOMAIN socket /\ socket[clientFd[d]] = d
    BY Zenon, <1>1 DEF Strays
  <1>3. clientFd[d] = f
    BY Zenon, <1>1, <1>2 DEF Without, Restrict
  <1> QED
    BY Zenon, <1>2, <1>3

\* A kill that finds its client counts from then on.
LEMMA KillFindStrays ==
  ASSUME OInv, StrayInv, NEW c \in Conn, NEW id, KillFind(c, id)
  PROVE  StrayInv'
  <1>1. /\ c \notin DOMAIN killing /\ DOMAIN killing' = DOMAIN killing \cup {c} /\ kills' = kills + 1
        /\ UNCHANGED <<socket, thread, clientFd>>
    BY Zenon DEF KillFind, Idle, Put
  <1>2. Strays' = Strays
    BY Zenon, <1>1 DEF Strays
  <1>3. IsFiniteSet(DOMAIN killing') /\ Cardinality(DOMAIN killing') <= Cardinality(DOMAIN killing) + 1
    BY Zenon, <1>1, OneMore DEF StrayInv
  <1>4. /\ Cardinality(Strays) \in Nat /\ Cardinality(DOMAIN killing) \in Nat
        /\ Cardinality(DOMAIN killing') \in Nat
    BY Zenon, <1>3, FS_CardinalityType DEF StrayInv
  <1>5. kills \in Nat
    BY Zenon DEF OInv, DescriptorTypes
  <1> QED
    BY <1>1, <1>2, <1>3, <1>4, <1>5 DEF StrayInv, StraysWithinKills

\* Its close makes at most one stray, and then it is done.
LEMMA KillCloseStrays ==
  ASSUME OInv, StrayInv, NEW c \in Conn, KillClose(c)
  PROVE  StrayInv'
  <1>1. /\ c \in DOMAIN killing /\ socket' = Without(socket, {killing[c]})
        /\ DOMAIN killing' = DOMAIN killing \ {c} /\ UNCHANGED <<thread, clientFd, kills>>
    BY Zenon DEF KillClose, Without, Restrict
  <1>2. Strays' \subseteq Strays \cup {socket[killing[c]]}
    BY Zenon, <1>1, ClosedStray
  <1>3. IsFiniteSet(Strays') /\ Cardinality(Strays') <= Cardinality(Strays) + 1
    BY Zenon, <1>2, OneMore DEF StrayInv
  <1>4. IsFiniteSet(DOMAIN killing') /\ Cardinality(DOMAIN killing') = Cardinality(DOMAIN killing) - 1
    BY Zenon, <1>1, OneLess DEF StrayInv
  <1>5. /\ Cardinality(Strays) \in Nat /\ Cardinality(DOMAIN killing) \in Nat
        /\ Cardinality(Strays') \in Nat /\ Cardinality(DOMAIN killing') \in Nat
    BY Zenon, <1>3, <1>4, FS_CardinalityType DEF StrayInv
  <1>6. kills \in Nat
    BY Zenon DEF OInv, DescriptorTypes
  <1> QED
    BY <1>1, <1>3, <1>4, <1>5, <1>6 DEF StrayInv, StraysWithinKills

\* A thread closes its number: its own connection's, or, when it is a stray, that
\* of the connection which is the stray from now on.
LEMMA CloseStrays ==
  ASSUME OInv, StrayInv, NEW c \in Conn, Close(c)
  PROVE  StrayInv'
  <1> DEFINE f == clientFd[c]
  <1>1. /\ thread[c] = "unregistered" /\ thread' = [thread EXCEPT ![c] = "closed"]
        /\ socket' = Without(socket, {f}) /\ UNCHANGED <<clientFd, killing, kills>>
    BY Zenon DEF Close, Step
  <1>2. c \notin Strays'
    BY Zenon, <1>1 DEF Strays, OInv, DescriptorTypes
  <1>3. \A d \in Strays' : d \in Strays \/ (f \in DOMAIN socket /\ d = socket[f])
    <2>1. ASSUME NEW d \in Strays', d \notin Strays
          PROVE  f \in DOMAIN socket /\ d = socket[f]
      <3>1. d \in Conn /\ d # c
        BY Zenon, <1>2, <2>1 DEF Strays
      <3>2. thread'[d] = thread[d]
        BY Zenon, <1>1, <3>1 DEF OInv, DescriptorTypes
      <3> QED
        BY Zenon, <1>1, <2>1, <3>2, ClosedStray
    <2> QED
      BY Zenon, <2>1
  <1>4. CASE c \notin Strays
    <2>1. f \in DOMAIN socket /\ socket[f] = c
      BY Zenon, <1>1, <1>4 DEF Strays
    <2>2. Strays' \subseteq Strays
      BY Zenon, <1>2, <1>3, <2>1
    <2> QED
      BY Zenon, <1>1, <2>2, NoNewStray DEF OInv, DescriptorTypes
  <1>5. CASE c \in Strays
    <2>1. IsFiniteSet(Strays \ {c}) /\ Cardinality(Strays \ {c}) = Cardinality(Strays) - 1
      BY Zenon, <1>5, OneLess DEF StrayInv
    <2>2. Strays' \subseteq (Strays \ {c}) \cup {socket[f]}
      BY Zenon, <1>2, <1>3
    <2>3. IsFiniteSet(Strays') /\ Cardinality(Strays') <= Cardinality(Strays \ {c}) + 1
      BY Zenon, <2>1, <2>2, OneMore
    <2>4. /\ Cardinality(Strays) \in Nat /\ Cardinality(DOMAIN killing) \in Nat
          /\ Cardinality(Strays') \in Nat /\ kills \in Nat
      BY Zenon, <2>3, FS_CardinalityType DEF StrayInv, OInv, DescriptorTypes
    <2> QED
      BY <1>1, <2>1, <2>3, <2>4 DEF StrayInv, StraysWithinKills
  <1> QED
    BY Zenon, <1>4, <1>5

\* Every step keeps the strays within the kills.
LEMMA NextStrayInv == OInv /\ StrayInv /\ [Next]_vars => StrayInv'
  <1> SUFFICES ASSUME OInv, StrayInv, [Next]_vars
               PROVE  StrayInv'
    BY Zenon
  <1>1. CASE UNCHANGED vars
    BY Zenon, <1>1, ServeNoStray DEF vars
  <1>2. ASSUME NEW c \in Conn, Arrive(c)
        PROVE  StrayInv'
    <2>1. CASE CountConnected(c) \/ RaisePeak(c) \/ registerClient(c)
      BY Zenon, <2>1, StepNoStray DEF CountConnected, RaisePeak, registerClient, Stage, Open
    <2>2. CASE RereadPeak(c)
      BY Zenon, <2>2, ServeNoStray DEF RereadPeak
    <2> QED
      BY Zenon, <1>2, <2>1, <2>2, AcceptNoStray DEF Arrive
  <1>3. ASSUME NEW c \in Conn, Serve(c)
        PROVE  StrayInv'
    BY Zenon, <1>3, ServeNoStray, KillFindStrays, KillCloseStrays
       DEF Serve, subscribe, unsubscribe, publish, PublishSend, PublishFails, PublishDrop, PublishReply
  <1>4. ASSUME NEW c \in Conn, Depart(c)
        PROVE  StrayInv'
    <2>1. CASE Leave(c) \/ removeClientSubscriptions(c) \/ unregisterClient(c)
      BY Zenon, <2>1, StepNoStray DEF Leave, removeClientSubscriptions, unregisterClient, Stage, Open
    <2>2. CASE clientDisconnected(c)
      <3>1. /\ thread[c] = "closed" /\ thread' = [thread EXCEPT ![c] = "gone"]
            /\ UNCHANGED <<socket, clientFd, killing, kills>>
        BY Zenon, <2>2 DEF clientDisconnected, Step
      <3>2. Strays' \subseteq Strays
        BY Zenon, <3>1 DEF Strays, OInv, DescriptorTypes
      <3> QED
        BY Zenon, <3>1, <3>2, NoNewStray DEF OInv, DescriptorTypes
    <2> QED
      BY Zenon, <1>4, <2>1, <2>2, CloseStrays DEF Depart
  <1> QED
    BY Zenon, <1>1, <1>2, <1>3, <1>4 DEF Next

\* Every CLIENT KILL that finds its client leaves at most one thread at a time
\* without the descriptor it was started with, and nothing else does, for any
\* number of connections, descriptors and kills.
THEOREM StraysStayWithinKills == Spec => []StraysWithinKills
  <1>1. Init => StrayInv
    <2> SUFFICES ASSUME Init
                 PROVE  StrayInv
      BY Zenon
    <2>1. Strays = {} /\ DOMAIN killing = {} /\ kills = 0
      BY Zenon DEF Init, Strays, EmptyMap
    <2> QED
      BY <2>1, FS_EmptySet DEF StrayInv, StraysWithinKills
  <1>2. StrayInv => StraysWithinKills
    BY Zenon DEF StrayInv
  <1> QED
    BY <1>1, <1>2, InitOInv, NextOInv, NextStrayInv, PTL DEF Spec

-----------------------------------------------------------------------------
\* The exchange loop of clientConnected.  PeakCoversCount speaks of the moments
\* when no thread is in the loop; in between, the count may be ahead of the peak
\* only while a thread that has seen a count as high has still to raise it, and
\* no thread has read a peak higher than it is.

Counting == {c \in Conn : thread[c] = "counting"}

PeakInv ==
  /\ thread \in [Conn -> Stage]
  /\ connected \in Int /\ peak \in Int
  /\ DOMAIN seen = Counting
  /\ \A c \in Counting : /\ seen[c].connected \in Int /\ seen[c].peak \in Int
                         /\ seen[c].peak <= peak
  /\ peak >= connected \/ \E c \in Counting : seen[c].connected >= connected

\* Both counters start at zero.
LEMMA InitPeakInv == Init => PeakInv
  BY DEF Init, PeakInv, Counting, EmptyMap, Stage

\* A step of a thread outside the loop; the count may go down.
LEMMA PeakUndisturbed ==
  ASSUME PeakInv, connected' \in Int, connected' <= connected, UNCHANGED <<seen, peak>>,
         thread' \in [Conn -> Stage], Counting' = Counting
  PROVE  PeakInv'
  BY DEF PeakInv

\* A step from one stage to another, neither of them in the loop.
LEMMA StepOutside ==
  ASSUME PeakInv, NEW c \in Conn, NEW from \in Stage \ {"counting"}, NEW to \in Stage \ {"counting"},
         Step(c, from, to)
  PROVE  thread' \in [Conn -> Stage] /\ Counting' = Counting
  BY Zenon DEF PeakInv, Counting, Step

\* fetch_add and the first load of the peak: the thread is its own witness.
LEMMA CountPeakInv ==
  ASSUME PeakInv, NEW c \in Conn, CountConnected(c)
  PROVE  PeakInv'
  <1>1. /\ thread' = [thread EXCEPT ![c] = "counting"] /\ connected' = connected + 1 /\ peak' = peak
        /\ seen' = Put(seen, c, [connected |-> connected + 1, peak |-> peak])
    BY Zenon DEF CountConnected, Step
  <1>2. thread' \in [Conn -> Stage] /\ Counting' = Counting \cup {c}
    BY Zenon, <1>1 DEF PeakInv, Counting, Stage
  <1>3. DOMAIN seen' = Counting'
    BY Zenon, <1>1, <1>2 DEF PeakInv, Put
  <1>4. seen'[c] = [connected |-> connected + 1, peak |-> peak]
    BY Zenon, <1>1 DEF Put
  <1>5. \A d \in Counting' \ {c} : d \in Counting /\ seen'[d] = seen[d]
    BY Zenon, <1>1, <1>2 DEF PeakInv, Put
  <1>6. \A d \in Counting' : /\ seen'[d].connected \in Int /\ seen'[d].peak \in Int
                             /\ seen'[d].peak <= peak'
    BY <1>1, <1>4, <1>5 DEF PeakInv
  <1>7. c \in Counting' /\ seen'[c].connected >= connected'
    BY <1>1, <1>2, <1>4 DEF PeakInv
  <1> QED
    BY <1>1, <1>2, <1>3, <1>6, <1>7 DEF PeakInv

\* A failed exchange reads the peak again.
LEMMA RereadPeakInv ==
  ASSUME PeakInv, NEW c \in Conn, RereadPeak(c)
  PROVE  PeakInv'
  <1>1. /\ c \in Counting /\ UNCHANGED <<thread, connected, peak>>
        /\ seen' = [seen EXCEPT ![c].peak = peak]
    BY Zenon DEF RereadPeak, Counting
  <1>2. Counting' = Counting /\ DOMAIN seen' = Counting
    BY Zenon, <1>1 DEF PeakInv, Counting
  <1>3. \A d \in Counting : /\ d # c => seen'[d] = seen[d]
                            /\ seen'[c] = [seen[c] EXCEPT !.peak = peak]
    BY Zenon, <1>1 DEF PeakInv
  <1>4. \A d \in Counting : /\ seen'[d].connected = seen[d].connected
                            /\ seen'[d].peak \in {seen[d].peak, peak}
    BY <1>1, <1>3
  <1> QED
    BY <1>1, <1>2, <1>4 DEF PeakInv

\* A thread leaves the loop: it has raised the peak to the count it saw, or
\* has read a peak that is as high.
LEMMA RaisePeakInv ==
  ASSUME PeakInv, NEW c \in Conn, RaisePeak(c)
  PROVE  PeakInv'
  <1>1. /\ thread[c] = "counting" /\ thread' = [thread EXCEPT ![c] = "counted"]
        /\ seen' = Without(seen, {c}) /\ connected' = connected
    BY Zenon DEF RaisePeak, Step
  <1>2. c \in Counting /\ thread' \in [Conn -> Stage] /\ Counting' = Counting \ {c}
    BY Zenon, <1>1 DEF PeakInv, Counting, Stage
  <1>3. DOMAIN seen' = Counting' /\ \A d \in Counting' : seen'[d] = seen[d]
    BY Zenon, <1>1, <1>2 DEF PeakInv, Without, Restrict
  <1>4. peak' \in Int /\ peak' >= peak /\ peak' >= seen[c].connected
    BY <1>2 DEF RaisePeak, PeakInv
  <1>5. \A d \in Counting' : /\ seen'[d].connected \in Int /\ seen'[d].peak \in Int
                             /\ seen'[d].peak <= peak'
    BY <1>2, <1>3, <1>4 DEF PeakInv
  <1>6. peak' >= connected' \/ \E d \in Counting' : seen'[d].connected >= connected'
    <2>1. CASE peak >= connected
      BY <1>1, <1>4, <2>1 DEF PeakInv
    <2>2. ASSUME NEW d \in Counting, seen[d].connected >= connected
          PROVE  peak' >= connected' \/ (d \in Counting' /\ seen'[d].connected >= connected')
      <3>1. CASE d = c
        <4>1. connected' = connected /\ connected \in Int /\ seen[c].connected \in Int
          BY Zenon, <1>1, <1>2 DEF PeakInv
        <4> QED
          BY <4>1, <1>4, <2>2, <3>1
      <3>2. CASE d # c
        <4>1. d \in Counting' /\ seen'[d] = seen[d] /\ connected' = connected
          BY Zenon, <1>1, <1>2, <1>3, <3>2
        <4> QED
          BY Zenon, <4>1, <2>2
      <3> QED
        BY Zenon, <3>1, <3>2
    <2> QED
      BY Zenon, <2>1, <2>2 DEF PeakInv
  <1> QED
    BY Zenon, <1>1, <1>2, <1>3, <1>4, <1>5, <1>6 DEF PeakInv

\* Every step keeps the peak within reach of the count.
LEMMA NextPeakInv == PeakInv /\ [Next]_vars => PeakInv'
  <1> SUFFICES ASSUME PeakInv, [Next]_vars
               PROVE  PeakInv'
    BY Zenon
  <1>1. ASSUME UNCHANGED <<thread, counters>>
        PROVE  PeakInv'
    BY Zenon, <1>1 DEF PeakInv, Counting, counters
  <1>2. ASSUME NEW c \in Conn, NEW from \in Stage \ {"counting"}, NEW to \in Stage \ {"counting"},
               Step(c, from, to), UNCHANGED counters
        PROVE  PeakInv'
    <2>1. thread' \in [Conn -> Stage] /\ Counting' = Counting
      BY Zenon, <1>2, StepOutside
    <2>2. UNCHANGED <<seen, connected, peak>> /\ connected \in Int
      BY Zenon, <1>2 DEF counters, PeakInv
    <2> QED
      BY <2>1, <2>2, PeakUndisturbed
  <1>3. ASSUME NEW c \in Conn, Arrive(c)
        PROVE  PeakInv'
    <2>1. CASE Accept(c)
      BY Zenon, <2>1, <1>2 DEF Accept, Stage
    <2>2. CASE registerClient(c)
      BY Zenon, <2>2, <1>2 DEF registerClient, Stage
    <2> QED
      BY Zenon, <1>3, <2>1, <2>2, CountPeakInv, RereadPeakInv, RaisePeakInv DEF Arrive
  <1>4. ASSUME NEW c \in Conn, Serve(c)
        PROVE  PeakInv'
    BY ZenonT(30), <1>1, <1>4 DEF Serve, subscribe, unsubscribe, publish, PublishSend, PublishFails,
                               PublishDrop, PublishReply, KillFind, KillClose
  <1>5. ASSUME NEW c \in Conn, Depart(c)
        PROVE  PeakInv'
    <2>1. CASE Leave(c)
      BY Zenon, <2>1, <1>2 DEF Leave, Stage
    <2>2. CASE removeClientSubscriptions(c)
      BY Zenon, <2>2, <1>2 DEF removeClientSubscriptions, Stage
    <2>3. CASE unregisterClient(c)
      BY Zenon, <2>3, <1>2 DEF unregisterClient, Stage
    <2>4. CASE Close(c)
      BY Zenon, <2>4, <1>2 DEF Close, Stage
    <2>5. CASE clientDisconnected(c)
      <3>1. thread' \in [Conn -> Stage] /\ Counting' = Counting
        BY Zenon, <2>5, StepOutside DEF clientDisconnected, Stage
      <3>2. connected' \in Int /\ connected' <= connected /\ UNCHANGED <<seen, peak>>
        BY <2>5 DEF clientDisconnected, PeakInv
      <3> QED
        BY Zenon, <3>1, <3>2, PeakUndisturbed
    <2> QED
      BY Zenon, <1>5, <2>1, <2>2, <2>3, <2>4, <2>5 DEF Depart
  <1>6. CASE UNCHANGED vars
    BY Zenon, <1>1, <1>6 DEF vars
  <1> QED
    BY Zenon, <1>3, <1>4, <1>5, <1>6 DEF Next

\* However many threads run clientConnected and clientDisconnected at once, the
\* peak that INFO reports covers the count when none of them is in the loop.
THEOREM PeakAlwaysCovers == Spec => []PeakCoversCount
  <1>1. PeakInv => PeakCoversCount
    BY Zenon DEF PeakInv, PeakCoversCount
  <1> QED
    BY <1>1, InitPeakInv, NextPeakInv, PTL DEF Spec

-----------------------------------------------------------------------------
\* The type invariant.  That connectedClients_ never goes below zero needs more
\* than types: it is the number of threads between the two halves of the count.

Counted ==
  {c \in Conn : thread[c] \in {"counting", "counted", "serving", "leaving",
                               "unsubscribed", "unregistered", "closed"}}

CountInv ==
  /\ IsFiniteSet(Counted) /\ connected = Cardinality(Counted)
  /\ peak \in Nat
  /\ \A c \in Counting : seen[c] \in [connected : Nat, peak : Nat]

TableInv == socket \in Map(Fd, Conn) /\ clientFd \in Map(Conn, Fd) /\ clients \in Map(Fd, Conn)

Serving == {c \in Conn : thread[c] = "serving"}

BusyInv ==
  /\ DOMAIN publishing \subseteq Serving /\ DOMAIN killing \subseteq Serving
  /\ kills \in 0 .. MaxKills

\* Partial functions, by their domain and values.
LEMMA MapByDomain ==
  ASSUME NEW D, NEW R, NEW m
  PROVE  m \in Map(D, R) <=> DOMAIN m \subseteq D /\ m \in [DOMAIN m -> R]
  BY Zenon DEF Map

\* An entry more or some entries less.
LEMMA MapChanged ==
  ASSUME NEW D, NEW R, NEW m \in Map(D, R)
  PROVE  /\ \A k \in D, v \in R : Put(m, k, v) \in Map(D, R)
         /\ \A K : Without(m, K) \in Map(D, R)
  <1>1. DOMAIN m \subseteq D /\ m \in [DOMAIN m -> R]
    BY Zenon, MapByDomain
  <1>2. ASSUME NEW k \in D, NEW v \in R
        PROVE  Put(m, k, v) \in Map(D, R)
    <2>1. Put(m, k, v) \in [DOMAIN m \cup {k} -> R] /\ DOMAIN m \cup {k} \in SUBSET D
      BY Zenon, <1>1 DEF Put
    <2> QED
      BY ZenonT(30), <2>1 DEF Map
  <1>3. ASSUME NEW K
        PROVE  Without(m, K) \in Map(D, R)
    <2>1. Without(m, K) \in [DOMAIN m \ K -> R] /\ DOMAIN m \ K \in SUBSET D
      BY Zenon, <1>1 DEF Without, Restrict
    <2> QED
      BY ZenonT(30), <2>1 DEF Map
  <1> QED
    BY Zenon, <1>2, <1>3

\* Every step keeps the tables keyed by descriptors and connections.
LEMMA NextTableInv ==
  ASSUME SInv, TableInv, [Next]_vars
  PROVE  TableInv'
  <1>1. ASSUME UNCHANGED <<socket, clientFd, clients>>
        PROVE  TableInv'
    BY Zenon, <1>1 DEF TableInv
  <1>2. ASSUME NEW c \in Conn, Accept(c)
        PROVE  TableInv'
    <2>1. PICK f \in Fd \ DOMAIN socket : socket' = Put(socket, f, c) /\ clientFd' = Put(clientFd, c, f)
      BY Zenon, <1>2 DEF Accept
    <2>2. clients' = clients
      BY Zenon, <1>2 DEF Accept
    <2> QED
      BY ZenonT(30), <2>1, <2>2, MapChanged DEF TableInv
  <1>3. ASSUME NEW c \in Conn, registerClient(c)
        PROVE  TableInv'
    <2>1. clientFd[c] \in Fd
      BY Zenon, <1>3 DEF registerClient, Step, SInv, SubscriptionTypes
    <2> QED
      BY ZenonT(30), <1>3, <2>1, MapChanged DEF TableInv, registerClient
  <1>4. ASSUME NEW c \in Conn, KillClose(c) \/ unregisterClient(c) \/ Close(c)
        PROVE  TableInv'
    BY ZenonT(30), <1>4, MapChanged DEF TableInv, KillClose, unregisterClient, Close
  <1>5. ASSUME NEW c \in Conn, Arrive(c)
        PROVE  TableInv'
    BY ZenonT(30), <1>1, <1>2, <1>3, <1>5 DEF Arrive, CountConnected, RereadPeak, RaisePeak
  <1>6. ASSUME NEW c \in Conn, Serve(c)
        PROVE  TableInv'
    BY ZenonT(30), <1>1, <1>4, <1>6 DEF Serve, subscribe, unsubscribe, publish, PublishSend,
                                     PublishFails, PublishDrop, PublishReply, KillFind
  <1>7. ASSUME NEW c \in Conn, Depart(c)
        PROVE  TableInv'
    BY ZenonT(30), <1>1, <1>4, <1>7 DEF Depart, Leave, removeClientSubscriptions, clientDisconnected
  <1>8. CASE UNCHANGED vars
    BY Zenon, <1>1, <1>8 DEF vars
  <1> QED
    BY Zenon, <1>5, <1>6, <1>7, <1>8 DEF Next

\* Every step keeps the count exact: clientConnected adds its thread and
\* clientDisconnected takes it off, and no thread is counted twice.
LEMMA NextCountInv ==
  ASSUME PeakInv, CountInv, [Next]_vars
  PROVE  CountInv'
  <1>0. thread \in [Conn -> Stage] /\ DOMAIN seen = Counting /\ connected \in Nat
    BY Zenon, FS_CardinalityType DEF PeakInv, CountInv
  <1>1. ASSUME Counted' = Counted, Counting' = Counting, UNCHANGED counters
        PROVE  CountInv'
    BY Zenon, <1>1 DEF CountInv, counters
  <1>2. ASSUME NEW c \in Conn, CountConnected(c)
        PROVE  CountInv'
    <2>1. /\ thread[c] = "accepted" /\ thread' = [thread EXCEPT ![c] = "counting"]
          /\ connected' = connected + 1 /\ peak' = peak
          /\ seen' = Put(seen, c, [connected |-> connected + 1, peak |-> peak])
      BY Zenon, <1>2 DEF CountConnected, Step
    <2>2. c \notin Counted /\ Counted' = Counted \cup {c} /\ Counting' = Counting \cup {c}
      BY Zenon, <1>0, <2>1 DEF Counted, Counting
    <2>3. IsFiniteSet(Counted') /\ Cardinality(Counted') = Cardinality(Counted) + 1
      BY Zenon, <2>2, FS_AddElement DEF CountInv
    <2>4. [connected |-> connected + 1, peak |-> peak] \in [connected : Nat, peak : Nat]
      BY <1>0 DEF CountInv
    <2>5. \A d \in Counting' : seen'[d] \in [connected : Nat, peak : Nat]
      BY ZenonT(30), <1>0, <2>1, <2>2, <2>4 DEF CountInv, Put
    <2> QED
      BY Zenon, <2>1, <2>3, <2>5 DEF CountInv
  <1>3. ASSUME NEW c \in Conn, RereadPeak(c)
        PROVE  CountInv'
    <2>1. /\ thread' = thread /\ connected' = connected /\ peak' = peak /\ c \in Counting
          /\ seen' = [seen EXCEPT ![c].peak = peak]
      BY Zenon, <1>3 DEF RereadPeak, Counting
    <2>2. Counted' = Counted /\ Counting' = Counting
      BY Zenon, <2>1 DEF Counted, Counting
    <2>3. [seen[c] EXCEPT !.peak = peak] \in [connected : Nat, peak : Nat]
      BY Zenon, <2>1 DEF CountInv
    <2>4. \A d \in Counting : seen'[d] = IF d = c THEN [seen[c] EXCEPT !.peak = peak] ELSE seen[d]
      BY ZenonT(30), <1>0, <2>1
    <2>5. \A d \in Counting' : seen'[d] \in [connected : Nat, peak : Nat]
      BY ZenonT(30), <2>2, <2>3, <2>4 DEF CountInv
    <2> QED
      BY Zenon, <2>1, <2>2, <2>5 DEF CountInv
  <1>4. ASSUME NEW c \in Conn, RaisePeak(c)
        PROVE  CountInv'
    <2>1. /\ thread[c] = "counting" /\ thread' = [thread EXCEPT ![c] = "counted"]
          /\ connected' = connected /\ seen' = Without(seen, {c}) /\ c \in Counting
          /\ peak' = peak \/ peak' = seen[c].connected
      BY Zenon, <1>4 DEF RaisePeak, Step, Counting
    <2>2. Counted' = Counted /\ Counting' = Counting \ {c}
      BY Zenon, <1>0, <2>1 DEF Counted, Counting
    <2>3. \A d \in Counting' : seen'[d] = seen[d]
      BY ZenonT(30), <1>0, <2>1, <2>2 DEF Without, Restrict
    <2>4. peak' \in Nat
      BY Zenon, <2>1 DEF CountInv
    <2> QED
      BY Zenon, <2>1, <2>2, <2>3, <2>4 DEF CountInv
  <1>5. ASSUME NEW c \in Conn, clientDisconnected(c)
        PROVE  CountInv'
    <2>1. /\ thread[c] = "closed" /\ thread' = [thread EXCEPT ![c] = "gone"]
          /\ connected' = connected - 1 /\ seen' = seen /\ peak' = peak
      BY Zenon, <1>5 DEF clientDisconnected, Step
    <2>2. c \in Counted /\ Counted' = Counted \ {c} /\ Counting' = Counting
      BY Zenon, <1>0, <2>1 DEF Counted, Counting
    <2>3. IsFiniteSet(Counted') /\ Cardinality(Counted') = Cardinality(Counted) - 1
      BY Zenon, <2>2, FS_RemoveElement DEF CountInv
    <2> QED
      BY Zenon, <2>1, <2>2, <2>3 DEF CountInv
  <1>6. ASSUME UNCHANGED <<thread, counters>>
        PROVE  CountInv'
    BY Zenon, <1>1, <1>6 DEF Counted, Counting
  <1>7. ASSUME NEW c \in Conn, UNCHANGED counters,
               \/ Step(c, "new", "accepted") \/ Step(c, "counted", "serving")
               \/ Step(c, "serving", "leaving") \/ Step(c, "leaving", "unsubscribed")
               \/ Step(c, "unsubscribed", "unregistered") \/ Step(c, "unregistered", "closed")
        PROVE  CountInv'
    <2>1. Counted' = Counted /\ Counting' = Counting
      BY Zenon, <1>0, <1>7 DEF Step, Counted, Counting
    <2> QED
      BY Zenon, <1>1, <1>7, <2>1
  <1>8. ASSUME NEW c \in Conn, Arrive(c)
        PROVE  CountInv'
    BY ZenonT(30), <1>2, <1>3, <1>4, <1>7, <1>8 DEF Arrive, Accept, registerClient
  <1>9. ASSUME NEW c \in Conn, Serve(c)
        PROVE  CountInv'
    BY ZenonT(30), <1>6, <1>9 DEF Serve, subscribe, unsubscribe, publish, PublishSend, PublishFails,
                               PublishDrop, PublishReply, KillFind, KillClose
  <1>10. ASSUME NEW c \in Conn, Depart(c)
         PROVE  CountInv'
    BY ZenonT(30), <1>5, <1>7, <1>10
       DEF Depart, Leave, removeClientSubscriptions, unregisterClient, Close
  <1>11. CASE UNCHANGED vars
    BY Zenon, <1>6, <1>11 DEF vars
  <1> QED
    BY Zenon, <1>8, <1>9, <1>10, <1>11 DEF Next

\* A publish or a kill keeps its thread serving until it is through.
LEMMA NextBusyInv ==
  ASSUME SInv, BusyInv, [Next]_vars
  PROVE  BusyInv'
  <1>0. thread \in [Conn -> Stage] /\ MaxKills \in Nat
    BY Zenon, ConnectionsAssumption DEF SInv, SubscriptionTypes
  <1>1. ASSUME Serving' = Serving, kills' = kills,
               DOMAIN publishing' \subseteq DOMAIN publishing \cup Serving,
               DOMAIN killing' \subseteq DOMAIN killing \cup Serving
        PROVE  BusyInv'
    BY Zenon, <1>1 DEF BusyInv
  <1>2. ASSUME thread' = thread
        PROVE  Serving' = Serving
    BY Zenon, <1>2 DEF Serving
  <1>3. ASSUME NEW c \in Conn, UNCHANGED <<publishing, killing, kills>>,
               NEW from \in Stage \ {"serving"}, NEW to \in Stage, Step(c, from, to)
        PROVE  BusyInv'
    <2>1. Serving \subseteq Serving'
      BY Zenon, <1>0, <1>3 DEF Step, Serving
    <2> QED
      BY Zenon, <1>3, <2>1 DEF BusyInv
  <1>4. ASSUME NEW c \in Conn, Leave(c)
        PROVE  BusyInv'
    <2>1. c \notin DOMAIN publishing \cup DOMAIN killing /\ Serving' = Serving \ {c}
      BY Zenon, <1>0, <1>4 DEF Leave, Idle, Step, Serving
    <2> QED
      BY Zenon, <1>4, <2>1 DEF Leave, BusyInv
  <1>5. ASSUME NEW c \in Conn, Arrive(c)
        PROVE  BusyInv'
    <2>1. CASE RereadPeak(c)
      BY ZenonT(30), <1>1, <1>2, <2>1 DEF RereadPeak
    <2>2. CASE Accept(c) \/ CountConnected(c) \/ RaisePeak(c) \/ registerClient(c)
      BY Zenon, <1>3, <2>2 DEF Accept, CountConnected, RaisePeak, registerClient, Stage
    <2> QED
      BY Zenon, <1>5, <2>1, <2>2 DEF Arrive
  <1>6. ASSUME NEW c \in Conn, Serve(c)
        PROVE  BusyInv'
    <2>1. ASSUME NEW channels, subscribe(c, channels) \/ unsubscribe(c, channels)
          PROVE  BusyInv'
      BY ZenonT(30), <1>1, <1>2, <2>1 DEF subscribe, unsubscribe
    <2>2. ASSUME NEW channel, publish(c, channel)
          PROVE  BusyInv'
      <3>1. /\ thread' = thread /\ kills' = kills /\ killing' = killing /\ c \in Serving
            /\ DOMAIN publishing' = DOMAIN publishing \cup {c}
        BY Zenon, <2>2 DEF publish, Idle, Serving, Put
      <3> QED
        BY Zenon, <1>1, <1>2, <3>1
    <2>3. ASSUME NEW f, PublishSend(c, f) \/ PublishFails(c, f) \/ PublishDrop(c, f)
          PROVE  BusyInv'
      <3>1. thread' = thread /\ kills' = kills /\ killing' = killing
        BY Zenon, <2>3 DEF PublishSend, PublishFails, PublishDrop
      <3>2. DOMAIN publishing' = DOMAIN publishing
        BY ZenonT(30), <2>3 DEF PublishSend, PublishFails, PublishDrop
      <3> QED
        BY Zenon, <1>1, <1>2, <3>1, <3>2
    <2>4. CASE PublishReply(c)
      <3>1. /\ thread' = thread /\ kills' = kills /\ killing' = killing
            /\ DOMAIN publishing' \subseteq DOMAIN publishing
        BY Zenon, <2>4 DEF PublishReply, Without, Restrict
      <3> QED
        BY Zenon, <1>1, <1>2, <3>1
    <2>5. ASSUME NEW id, KillFind(c, id)
          PROVE  BusyInv'
      <3>1. /\ thread' = thread /\ kills < MaxKills /\ kills' = kills + 1 /\ publishing' = publishing
            /\ c \in Serving /\ DOMAIN killing' = DOMAIN killing \cup {c}
        BY Zenon, <2>5 DEF KillFind, Idle, Serving, Put
      <3> QED
        BY <1>0, <1>2, <3>1 DEF BusyInv
    <2>6. CASE KillClose(c)
      <3>1. /\ thread' = thread /\ kills' = kills /\ publishing' = publishing
            /\ DOMAIN killing' \subseteq DOMAIN killing
        BY Zenon, <2>6 DEF KillClose, Without, Restrict
      <3> QED
        BY Zenon, <1>1, <1>2, <3>1
    <2> QED
      BY ZenonT(30), <1>6, <2>1, <2>2, <2>3, <2>4, <2>5, <2>6 DEF Serve
  <1>7. ASSUME NEW c \in Conn, Depart(c)
        PROVE  BusyInv'
    <2>1. CASE removeClientSubscriptions(c) \/ unregisterClient(c) \/ Close(c) \/ clientDisconnected(c)
      BY Zenon, <1>3, <2>1
         DEF removeClientSubscriptions, unregisterClient, Close, clientDisconnected, Stage
    <2> QED
      BY Zenon, <1>4, <1>7, <2>1 DEF Depart
  <1>8. CASE UNCHANGED vars
    BY Zenon, <1>1, <1>2, <1>8 DEF vars
  <1> QED
    BY Zenon, <1>5, <1>6, <1>7, <1>8 DEF Next

\* Every table holds descriptors and connections where the code has them, the
\* client count never goes below zero, and a thread with a publish or a kill
\* under way is still serving.
THEOREM TablesTyped == Spec => []TypeOK
  <1>1. Init => TableInv /\ CountInv /\ BusyInv
    <2> SUFFICES ASSUME Init
                 PROVE  TableInv /\ CountInv /\ BusyInv
      BY Zenon
    <2>1. \A D, R : EmptyMap \in Map(D, R)
      BY ZenonT(30), MapByDomain DEF EmptyMap
    <2>2. Counted = {} /\ Counting = {}
      BY Zenon DEF Init, Counted, Counting
    <2> QED
      BY <2>1, <2>2, FS_EmptySet, ConnectionsAssumption
         DEF Init, TableInv, CountInv, BusyInv, EmptyMap
  <1>2. SInv /\ PeakInv /\ TableInv /\ CountInv /\ BusyInv /\ [Next]_vars
          => TableInv' /\ CountInv' /\ BusyInv'
    BY ZenonT(30), NextTableInv, NextCountInv, NextBusyInv
  <1>3. SInv /\ PeakInv /\ TableInv /\ CountInv /\ BusyInv => TypeOK
    <2> SUFFICES ASSUME SInv, PeakInv, TableInv, CountInv, BusyInv
                 PROVE  TypeOK
      BY Zenon
    <2>1. connected \in Nat
      BY Zenon, FS_CardinalityType DEF CountInv
    <2>2. /\ clientSubscriptions \in Map(Fd, SUBSET Channel)
          /\ channelSubscribers \in Map(Channel, SUBSET Fd)
      BY ZenonT(30), MapByDomain DEF SInv, SubscriptionTypes
    <2> QED
      BY ZenonT(30), <2>1, <2>2 DEF TypeOK, SInv, SubscriptionTypes, PeakInv, TableInv, CountInv, BusyInv,
                                 Counting, Serving
  <1>4. Spec => [](SInv /\ PeakInv)
    BY InitSInv, NextSInv, InitPeakInv, NextPeakInv, PTL DEF Spec
  <1> QED
    BY <1>1, <1>2, <1>3, <1>4, PTL DEF Spec

=============================================================================
