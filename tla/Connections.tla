---------------------------- MODULE Connections -----------------------------
(***************************************************************************)
(* The connections of networking/TcpServer.cpp: the life of the thread     *)
(* that serves each, the table clients_, the two subscription maps,        *)
(* PUBLISH and CLIENT KILL, with the client counters of                    *)
(* core/ServerMetrics.cpp.                                                 *)
(*                                                                         *)
(* Every table is keyed by file descriptor, and the kernel hands a         *)
(* descriptor out again as soon as it is closed.  A step is what happens   *)
(* under one lock, one system call or one atomic operation.                *)
(***************************************************************************)
EXTENDS Integers, FiniteSets, Functions

CONSTANTS
  Conn,      \* the connections clients make, one after another; also their ids
  Fd,        \* file descriptors free for connections
  Channel,   \* the names of channels
  MaxKills   \* bound: CLIENT KILLs that find their client

ASSUME ConnectionsAssumption == MaxKills \in Nat

VARIABLES
  socket,               \* the kernel's table: the connection behind each open descriptor
  thread,               \* how far the thread of each connection has come
  clientFd,             \* its argument, the descriptor it was started with
  seen,                 \* clientConnected: its locals connected and peak
  connected, peak,      \* connectedClients_, peakConnectedClients_
  clients,              \* clients_: the id registered for each descriptor
  clientSubscriptions,  \* clientSubscriptions_
  channelSubscribers,   \* channelSubscribers_, without the protocols
  publishing,           \* the locals of every publish under way
  killing,              \* killFd of every CLIENT KILL under way
  kills                 \* kills that found their client so far

counters == <<seen, connected, peak>>
subscriptions == <<clientSubscriptions, channelSubscribers>>
vars == <<socket, thread, clientFd, counters, clients, subscriptions, publishing, killing, kills>>

\* The stages of handleClient, from before accept to after clientDisconnected.
Stage == {"new", "accepted", "counting", "counted", "serving",
          "leaving", "unsubscribed", "unregistered", "closed", "gone"}

Map(D, R) == UNION {[S -> R] : S \in SUBSET D}

EmptyMap == [x \in {} |-> x]

Put(m, k, v) == [x \in DOMAIN m \cup {k} |-> IF x = k THEN v ELSE m[x]]

Without(m, K) == Restrict(m, DOMAIN m \ K)

\* What m holds at k, when a missing entry counts as the empty set.
SetAt(m, k) == IF k \in DOMAIN m THEN m[k] ELSE {}

NoOne == "no one"

Init ==
  /\ socket = EmptyMap
  /\ thread = [c \in Conn |-> "new"]
  /\ clientFd = EmptyMap
  /\ seen = EmptyMap
  /\ connected = 0 /\ peak = 0
  /\ clients = EmptyMap
  /\ clientSubscriptions = EmptyMap
  /\ channelSubscribers = EmptyMap
  /\ publishing = EmptyMap
  /\ killing = EmptyMap
  /\ kills = 0

Step(c, from, to) == thread[c] = from /\ thread' = [thread EXCEPT ![c] = to]

-----------------------------------------------------------------------------
\* A connection comes.

\* acceptLoop: the descriptor may be any that is not open.
Accept(c) ==
  /\ Step(c, "new", "accepted")
  /\ \E f \in Fd \ DOMAIN socket :
       socket' = Put(socket, f, c) /\ clientFd' = Put(clientFd, c, f)
  /\ UNCHANGED <<counters, clients, subscriptions, publishing, killing, kills>>

\* clientConnected: the count goes up.  The peak may be read at once: when it
\* moves before the exchange, the exchange fails and reads it again.
CountConnected(c) ==
  /\ Step(c, "accepted", "counting")
  /\ connected' = connected + 1
  /\ seen' = Put(seen, c, [connected |-> connected + 1, peak |-> peak])
  /\ UNCHANGED <<socket, clientFd, peak, clients, subscriptions, publishing, killing, kills>>

\* compare_exchange_weak failed: peak changed since it was read.
RereadPeak(c) ==
  /\ thread[c] = "counting" /\ seen[c].connected > seen[c].peak /\ peak # seen[c].peak
  /\ seen' = [seen EXCEPT ![c].peak = peak]
  /\ UNCHANGED <<socket, thread, clientFd, connected, peak, clients, subscriptions,
                 publishing, killing, kills>>

\* Slip: a plain store in place of the exchange.
RaisePeakBlindly(c) ==
  /\ Step(c, "counting", "counted")
  /\ peak' = IF seen[c].connected > seen[c].peak THEN seen[c].connected ELSE peak
  /\ seen' = Without(seen, {c})
  /\ UNCHANGED <<socket, clientFd, connected, clients, subscriptions, publishing, killing, kills>>

RaisePeak(c) ==
  /\ Step(c, "counting", "counted")
  /\ \/ /\ seen[c].connected > seen[c].peak /\ peak = seen[c].peak
        /\ peak' = seen[c].connected
     \/ seen[c].connected <= seen[c].peak /\ UNCHANGED peak
  /\ seen' = Without(seen, {c})
  /\ UNCHANGED <<socket, clientFd, connected, clients, subscriptions, publishing, killing, kills>>

registerClient(c) ==
  /\ Step(c, "counted", "serving")
  /\ clients' = Put(clients, clientFd[c], c)
  /\ UNCHANGED <<socket, clientFd, counters, subscriptions, publishing, killing, kills>>

-----------------------------------------------------------------------------
\* It is served.  A recv that was waiting when its descriptor was closed still
\* returns what its connection sends, so a thread may have commands to run
\* when its descriptor is closed or belongs to another connection.

Idle(c) == thread[c] = "serving" /\ c \notin DOMAIN publishing \cup DOMAIN killing

\* Slip: a channel that loses its last subscriber stays in the map.
UnsubscribedKept(f, targets) ==
  LET own == SetAt(clientSubscriptions, f) \ targets
  IN /\ clientSubscriptions' = IF own = {} THEN Without(clientSubscriptions, {f})
                                          ELSE Put(clientSubscriptions, f, own)
     /\ channelSubscribers' =
          [ch \in DOMAIN channelSubscribers |->
             IF ch \in targets THEN channelSubscribers[ch] \ {f} ELSE channelSubscribers[ch]]

\* The maps when descriptor f has left the channels in targets.
Unsubscribed(f, targets) ==
  LET own == SetAt(clientSubscriptions, f) \ targets
      others(ch) == channelSubscribers[ch] \ {f}
  IN /\ clientSubscriptions' = IF own = {} THEN Without(clientSubscriptions, {f})
                                          ELSE Put(clientSubscriptions, f, own)
     /\ channelSubscribers' =
          [ch \in {h \in DOMAIN channelSubscribers : h \in targets => others(h) # {}} |->
             IF ch \in targets THEN others(ch) ELSE channelSubscribers[ch]]

subscribe(c, channels) ==
  LET f == clientFd[c]
  IN /\ Idle(c) /\ channels # {}
     /\ clientSubscriptions' = Put(clientSubscriptions, f, SetAt(clientSubscriptions, f) \cup channels)
     /\ channelSubscribers' =
          [ch \in DOMAIN channelSubscribers \cup channels |->
             SetAt(channelSubscribers, ch) \cup (IF ch \in channels THEN {f} ELSE {})]
     /\ UNCHANGED <<socket, thread, clientFd, counters, clients, publishing, killing, kills>>

\* No channel named: all of them.
unsubscribe(c, channels) ==
  LET f == clientFd[c]
  IN /\ Idle(c)
     /\ Unsubscribed(f, IF channels = {} THEN SetAt(clientSubscriptions, f) ELSE channels)
     /\ UNCHANGED <<socket, thread, clientFd, counters, clients, publishing, killing, kills>>

\* publish copies the subscribers under the lock and releases it.  The
\* connection behind each descriptor at that moment is kept for the properties.
publish(c, channel) ==
  /\ Idle(c) /\ channel \in DOMAIN channelSubscribers
  /\ publishing' = Put(publishing, c,
       [subscribers |-> [f \in channelSubscribers[channel] |->
                           IF f \in DOMAIN socket THEN socket[f] ELSE NoOne],
        failedClients |-> {}])
  /\ UNCHANGED <<socket, thread, clientFd, counters, clients, subscriptions, killing, kills>>

\* sendResponse to one of them goes to whatever connection the descriptor has now ...
PublishSend(c, f) ==
  /\ c \in DOMAIN publishing /\ f \in DOMAIN publishing[c].subscribers
  /\ f \in DOMAIN socket
  /\ publishing' = [publishing EXCEPT ![c].subscribers = Without(@, {f})]
  /\ UNCHANGED <<socket, thread, clientFd, counters, clients, subscriptions, killing, kills>>

\* ... or fails: the descriptor is closed, or the peer has gone.  (A send to a
\* peer that has gone may also raise SIGPIPE, which ends the process.)
PublishFails(c, f) ==
  /\ c \in DOMAIN publishing /\ f \in DOMAIN publishing[c].subscribers
  /\ publishing' = [publishing EXCEPT ![c].subscribers = Without(@, {f}),
                                      ![c].failedClients = @ \cup {f}]
  /\ UNCHANGED <<socket, thread, clientFd, counters, clients, subscriptions, killing, kills>>

\* After the last send, removeClientSubscriptions for each that failed.
PublishDrop(c, f) ==
  /\ c \in DOMAIN publishing /\ DOMAIN publishing[c].subscribers = {}
  /\ f \in publishing[c].failedClients
  /\ Unsubscribed(f, SetAt(clientSubscriptions, f))
  /\ publishing' = [publishing EXCEPT ![c].failedClients = @ \ {f}]
  /\ UNCHANGED <<socket, thread, clientFd, counters, clients, killing, kills>>

PublishReply(c) ==
  /\ c \in DOMAIN publishing
  /\ DOMAIN publishing[c].subscribers = {} /\ publishing[c].failedClients = {}
  /\ publishing' = Without(publishing, {c})
  /\ UNCHANGED <<socket, thread, clientFd, counters, clients, subscriptions, killing, kills>>

\* CLIENT KILL looks the id up under the lock and releases it ...
KillFind(c, id) ==
  /\ Idle(c) /\ kills < MaxKills
  /\ \E f \in DOMAIN clients :
       clients[f] = id /\ killing' = Put(killing, c, f)
  /\ kills' = kills + 1
  /\ UNCHANGED <<socket, thread, clientFd, counters, clients, subscriptions, publishing>>

\* Slip: the number is closed once more when close was interrupted.
KillCloseAgain(c) ==
  /\ c \in DOMAIN killing
  /\ socket' = Without(socket, {killing[c]})
  /\ UNCHANGED killing \/ killing' = Without(killing, {c})
  /\ UNCHANGED <<thread, clientFd, counters, clients, subscriptions, publishing, kills>>

\* ... and closes the descriptor after it has answered.
KillClose(c) ==
  /\ c \in DOMAIN killing
  /\ socket' = Without(socket, {killing[c]})
  /\ killing' = Without(killing, {c})
  /\ UNCHANGED <<thread, clientFd, counters, clients, subscriptions, publishing, kills>>

-----------------------------------------------------------------------------
\* It goes: the peer closes, recv fails, a reply cannot be sent.

\* Slip: the thread leaves while its command is under way.
LeaveBusy(c) ==
  /\ Step(c, "serving", "leaving")
  /\ UNCHANGED <<socket, clientFd, counters, clients, subscriptions, publishing, killing, kills>>

Leave(c) ==
  /\ Idle(c) /\ Step(c, "serving", "leaving")
  /\ UNCHANGED <<socket, clientFd, counters, clients, subscriptions, publishing, killing, kills>>

\* Slip: the subscriptions are left in the maps.
removeNoSubscriptions(c) ==
  /\ Step(c, "leaving", "unsubscribed")
  /\ UNCHANGED <<socket, clientFd, counters, clients, subscriptions, publishing, killing, kills>>

removeClientSubscriptions(c) ==
  /\ Step(c, "leaving", "unsubscribed")
  /\ Unsubscribed(clientFd[c], SetAt(clientSubscriptions, clientFd[c]))
  /\ UNCHANGED <<socket, clientFd, counters, clients, publishing, killing, kills>>

unregisterClient(c) ==
  /\ Step(c, "unsubscribed", "unregistered")
  /\ clients' = Without(clients, {clientFd[c]})
  /\ UNCHANGED <<socket, clientFd, counters, subscriptions, publishing, killing, kills>>

\* Slip: the descriptor is never closed.
CloseNothing(c) ==
  /\ Step(c, "unregistered", "closed")
  /\ UNCHANGED <<socket, clientFd, counters, clients, subscriptions, publishing, killing, kills>>

\* closeIfOpen closes the number, whatever is behind it.
Close(c) ==
  /\ Step(c, "unregistered", "closed")
  /\ socket' = Without(socket, {clientFd[c]})
  /\ UNCHANGED <<clientFd, counters, clients, subscriptions, publishing, killing, kills>>

clientDisconnected(c) ==
  /\ Step(c, "closed", "gone")
  /\ connected' = connected - 1
  /\ UNCHANGED <<socket, clientFd, seen, peak, clients, subscriptions, publishing, killing, kills>>

Arrive(c) ==
  Accept(c) \/ CountConnected(c) \/ RereadPeak(c) \/ RaisePeak(c) \/ registerClient(c)

Serve(c) ==
  \/ \E channels \in SUBSET Channel : subscribe(c, channels) \/ unsubscribe(c, channels)
  \/ \E channel \in Channel : publish(c, channel)
  \/ \E f \in Fd : PublishSend(c, f) \/ PublishFails(c, f) \/ PublishDrop(c, f)
  \/ PublishReply(c)
  \/ \E id \in Conn : KillFind(c, id)
  \/ KillClose(c)

Depart(c) ==
  Leave(c) \/ removeClientSubscriptions(c) \/ unregisterClient(c) \/ Close(c) \/ clientDisconnected(c)

Next == \E c \in Conn : Arrive(c) \/ Serve(c) \/ Depart(c)

Spec == Init /\ [][Next]_vars

-----------------------------------------------------------------------------
\* Properties.

\* Types: descriptors and connections where the code has them; only threads that
\* serve have a publish or a kill under way, only threads that count have seen a peak.
TypeOK ==
  /\ socket \in Map(Fd, Conn)
  /\ thread \in [Conn -> Stage]
  /\ clientFd \in Map(Conn, Fd)
  /\ \A c \in Conn : thread[c] # "new" => c \in DOMAIN clientFd
  /\ DOMAIN seen = {c \in Conn : thread[c] = "counting"}
  /\ \A c \in DOMAIN seen : seen[c] \in [connected : Nat, peak : Nat]
  /\ connected \in Nat /\ peak \in Nat
  /\ clients \in Map(Fd, Conn)
  /\ clientSubscriptions \in Map(Fd, SUBSET Channel)
  /\ channelSubscribers \in Map(Channel, SUBSET Fd)
  /\ DOMAIN publishing \cup DOMAIN killing \subseteq {c \in Conn : thread[c] = "serving"}
  /\ kills \in 0 .. MaxKills

\* The two subscription maps say the same and hold no empty entry, so that
\* removeClientSubscriptions, which walks one of them, finds every entry of
\* the other, also when descriptors are closed and handed out again at any moment.
SubscriptionsAgree ==
  /\ \A f \in Fd, ch \in Channel :
       ch \in SetAt(clientSubscriptions, f) <=> f \in SetAt(channelSubscribers, ch)
  /\ \A f \in DOMAIN clientSubscriptions : clientSubscriptions[f] # {}
  /\ \A ch \in DOMAIN channelSubscribers : channelSubscribers[ch] # {}

\* An open connection always has a thread that has still to close its
\* descriptor: none is leaked, whatever CLIENT KILL closes and in whatever order.
NoConnectionLeaked ==
  \A f \in DOMAIN socket :
    thread[socket[f]] \notin {"new", "closed", "gone"} /\ clientFd[socket[f]] = f

\* As long as no CLIENT KILL has found its client, a thread's descriptor is its
\* own connection's until it closes it, and what clients_ and the subscription
\* maps hold for a descriptor belongs to the connection that has it now: the
\* thread cleans up before it closes.
DescriptorsOwned ==
  kills = 0 =>
    /\ \A c \in Conn : thread[c] \notin {"new", "closed", "gone"} =>
         clientFd[c] \in DOMAIN socket /\ socket[clientFd[c]] = c
    /\ \A f \in DOMAIN clients :
         f \in DOMAIN socket /\ socket[f] = clients[f]
    /\ \A f \in DOMAIN clientSubscriptions :
         f \in DOMAIN socket /\ thread[socket[f]] \in {"serving", "leaving"}

\* Threads whose descriptor is closed, or another connection's by now, although
\* they have still to close it.
Strays ==
  {c \in Conn : /\ thread[c] \notin {"new", "closed", "gone"}
                /\ ~(clientFd[c] \in DOMAIN socket /\ socket[clientFd[c]] = c)}

\* CLIENT KILL closes a number it looked up earlier, and the thread behind the
\* number closes it once more: each may hit a connection nobody meant.  But every
\* kill that found its client accounts for at most one connection at a time that has
\* lost its descriptor or is about to, and nothing else takes a descriptor away:
\* a thread that closes a stranger's number is through, and the stranger takes
\* its place.
StraysWithinKills == Cardinality(Strays) + Cardinality(DOMAIN killing) <= kills

\* The peak is never below the count once every thread that raised the count
\* is through the exchange loop.
PeakCoversCount == DOMAIN seen = {} => peak >= connected

\* A published message reaches only connections that were subscribed to the
\* channel when publish read the map.
DeliveredToSubscribers ==
  [][\A c \in Conn, f \in Fd : PublishSend(c, f) => socket[f] = publishing[c].subscribers[f]]_vars

=============================================================================
