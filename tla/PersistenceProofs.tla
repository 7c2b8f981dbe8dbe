------------------------- MODULE PersistenceProofs --------------------------
(***************************************************************************)
(* Proofs about Persistence for any number of databases and savers, any    *)
(* commands, and any sequence of faults, crashes and restarts; before them *)
(* what they need to know of commands, snapshot files and replay, for any  *)
(* stores, any log and any time.                                           *)
(***************************************************************************)
EXTENDS Persistence, StoreOpsProofs

\* The larger of two numbers.
LEMMA MaxOfTwo == \A m, n \in Int : Max({m, n}) = IF m <= n THEN n ELSE m
  <1> SUFFICES ASSUME NEW m \in Int, NEW n \in Int
               PROVE  Max({m, n}) = IF m <= n THEN n ELSE m
    BY Zenon
  <1> DEFINE top == IF m <= n THEN n ELSE m
  <1>1. top \in {m, n} /\ \A y \in {m, n} : top >= y
    OBVIOUS
  <1>2. \A x \in {m, n} : (\A y \in {m, n} : x >= y) => x = top
    OBVIOUS
  <1> QED
    BY Zenon, <1>1, <1>2 DEF Max

-----------------------------------------------------------------------------
\* Replay, one entry after the other.

\* Induction over sequences, for a property given as the set where it holds.
LEMMA SequenceInduction ==
  ASSUME NEW E, NEW T, <<>> \in T, \A s \in Seq(E), e \in E : s \in T => Append(s, e) \in T
  PROVE  Seq(E) \subseteq T
  <1> DEFINE N == {n \in Nat : \A s \in Seq(E) : Len(s) = n => s \in T}
  <1>1. 0 \in N
    <2>1. \A s \in Seq(E) : Len(s) = 0 => s = <<>>
      OBVIOUS
    <2> QED
      BY Zenon, <2>1
  <1>2. ASSUME NEW n \in Nat, n \in N
        PROVE  n + 1 \in N
    <2> SUFFICES ASSUME NEW s \in Seq(E), Len(s) = n + 1
                 PROVE  s \in T
      OBVIOUS
    <2> DEFINE front == [i \in 1 .. n |-> s[i]]
    <2>1. front \in Seq(E) /\ Len(front) = n /\ s[n + 1] \in E
      OBVIOUS
    <2>2. s = Append(front, s[n + 1])
      BY <2>1
    <2>3. front \in T
      BY Zenon, <1>2, <2>1
    <2> HIDE DEF front
    <2> QED
      BY Zenon, <2>1, <2>2, <2>3
  <1> HIDE DEF N
  <1>3. Nat \subseteq N
    BY Zenon, <1>1, <1>2, Induction
  <1> QED
    BY <1>3 DEF N

\* Replay before the first entry.
Start(ss) == [stores |-> ss, db |-> 0, lost |-> 0, torn |-> NoCommand]

\* The states of replay after each of the first m entries.
UpTo(entries, ss, t, m, f) ==
  f = [n \in 0 .. m |-> IF n = 0 THEN Start(ss) ELSE ReplayStep(f[n - 1], entries[n], t)]

\* There are such states.
LEMMA ReplayExists ==
  ASSUME NEW entries, NEW ss, NEW t, NEW m \in Nat
  PROVE  \E f : UpTo(entries, ss, t, m, f)
  <1> DEFINE N == {n \in Nat : \E f : UpTo(entries, ss, t, n, f)}
  <1>1. 0 \in N
    <2> DEFINE f == [n \in 0 .. 0 |-> Start(ss)]
    <2>1. UpTo(entries, ss, t, 0, f)
      BY DEF UpTo
    <2> QED
      BY Zenon, <2>1
  <1>2. ASSUME NEW n \in Nat, n \in N
        PROVE  n + 1 \in N
    <2>1. PICK f : UpTo(entries, ss, t, n, f)
      BY Zenon, <1>2
    <2> DEFINE g == [i \in 0 .. n + 1 |-> IF i = n + 1 THEN ReplayStep(f[n], entries[n + 1], t) ELSE f[i]]
    <2>2. \A i \in 0 .. n : f[i] = IF i = 0 THEN Start(ss) ELSE ReplayStep(f[i - 1], entries[i], t)
      BY Zenon, <2>1 DEF UpTo
    <2>3. \A i \in 0 .. n : g[i] = f[i] /\ (i # 0 => i - 1 \in 0 .. n)
      OBVIOUS
    <2>4. \A i \in 0 .. n + 1 :
            g[i] = IF i = 0 THEN Start(ss) ELSE ReplayStep(g[i - 1], entries[i], t)
      <3> SUFFICES ASSUME NEW i \in 0 .. n + 1
                   PROVE  g[i] = IF i = 0 THEN Start(ss) ELSE ReplayStep(g[i - 1], entries[i], t)
        BY Zenon
      <3>1. CASE i = n + 1
        <4>1. i # 0 /\ i - 1 = n /\ g[n] = f[n]
          BY <2>3, <3>1
        <4> QED
          BY Zenon, <3>1, <4>1
      <3>2. CASE i # n + 1
        <4>1. i \in 0 .. n
          BY <3>2
        <4> HIDE DEF g
        <4> QED
          BY Zenon, <2>2, <2>3, <4>1
      <3> QED
        BY Zenon, <3>1, <3>2
    <2>5. UpTo(entries, ss, t, n + 1, g)
      BY Zenon, <2>4 DEF UpTo
    <2> HIDE DEF g
    <2> QED
      BY <2>5
  <1> HIDE DEF N
  <1>3. Nat \subseteq N
    BY Zenon, <1>1, <1>2, Induction
  <1> QED
    BY Zenon, <1>3 DEF N

\* They depend on the entries read so far only.
LEMMA ReplayAgrees ==
  ASSUME NEW entries, NEW more, NEW ss, NEW t, NEW m \in Nat, NEW l \in Nat, m <= l,
         NEW f, UpTo(entries, ss, t, m, f), NEW g, UpTo(more, ss, t, l, g),
         \A i \in 1 .. m : entries[i] = more[i]
  PROVE  f[m] = g[m]
  <1> DEFINE N == {n \in Nat : n <= m => f[n] = g[n]}
  <1>1. /\ \A i \in 0 .. m : f[i] = IF i = 0 THEN Start(ss) ELSE ReplayStep(f[i - 1], entries[i], t)
        /\ \A i \in 0 .. l : g[i] = IF i = 0 THEN Start(ss) ELSE ReplayStep(g[i - 1], more[i], t)
    BY Zenon DEF UpTo
  <1>2. 0 \in N
    BY <1>1
  <1>3. ASSUME NEW n \in Nat, n \in N
        PROVE  n + 1 \in N
    <2> SUFFICES ASSUME n + 1 <= m
                 PROVE  f[n + 1] = g[n + 1]
      OBVIOUS
    <2>1. /\ n + 1 \in 0 .. m /\ n + 1 \in 0 .. l /\ n + 1 \in 1 .. m
          /\ n + 1 # 0 /\ (n + 1) - 1 = n /\ n <= m
      OBVIOUS
    <2>2. f[n + 1] = ReplayStep(f[n], entries[n + 1], t) /\ g[n + 1] = ReplayStep(g[n], more[n + 1], t)
      BY Zenon, <1>1, <2>1
    <2> QED
      BY Zenon, <1>3, <2>1, <2>2
  <1> HIDE DEF N
  <1>4. Nat \subseteq N
    BY Zenon, <1>2, <1>3, Induction
  <1> QED
    BY <1>4 DEF N

\* Replay is the last of them.
LEMMA ReplayedDef ==
  ASSUME NEW E, NEW entries \in Seq(E), NEW ss, NEW t
  PROVE  \E f : UpTo(entries, ss, t, Len(entries), f) /\ Replayed(entries, ss, t) = f[Len(entries)]
  <1> DEFINE f == CHOOSE f : UpTo(entries, ss, t, Len(entries), f)
  <1>1. Replayed(entries, ss, t) = f[Len(entries)]
    BY Zenon DEF Replayed, UpTo, Start
  <1>2. UpTo(entries, ss, t, Len(entries), f)
    BY ReplayExists
  <1> QED
    BY Zenon, <1>1, <1>2

\* So it starts from the snapshot and takes one entry at a time.
LEMMA ReplayedStart == \A ss, t : Replayed(<<>>, ss, t) = Start(ss)
  <1> SUFFICES ASSUME NEW ss, NEW t
               PROVE  Replayed(<<>>, ss, t) = Start(ss)
    BY Zenon
  <1>1. <<>> \in Seq({}) /\ Len(<<>>) = 0
    OBVIOUS
  <1>2. PICK f : UpTo(<<>>, ss, t, 0, f) /\ Replayed(<<>>, ss, t) = f[0]
    BY Zenon, <1>1, ReplayedDef
  <1> QED
    BY <1>2 DEF UpTo

LEMMA ReplayedAppend ==
  ASSUME NEW E, NEW entries \in Seq(E), NEW e \in E, NEW ss, NEW t
  PROVE  Replayed(Append(entries, e), ss, t) = ReplayStep(Replayed(entries, ss, t), e, t)
  <1> DEFINE more == Append(entries, e)
             n == Len(entries)
  <1>1. more \in Seq(E) /\ n \in Nat /\ Len(more) = n + 1 /\ more[n + 1] = e
        /\ \A i \in 1 .. n : entries[i] = more[i]
    OBVIOUS
  <1> HIDE DEF more
  <1>2. PICK f : UpTo(entries, ss, t, n, f) /\ Replayed(entries, ss, t) = f[n]
    BY Zenon, ReplayedDef
  <1>3. PICK g : UpTo(more, ss, t, n + 1, g) /\ Replayed(more, ss, t) = g[n + 1]
    BY Zenon, <1>1, ReplayedDef
  <1>4. f[n] = g[n]
    BY <1>1, <1>2, <1>3, ReplayAgrees
  <1>5. g[n + 1] = ReplayStep(g[n], more[n + 1], t)
    <2>1. n + 1 \in 0 .. n + 1 /\ n + 1 # 0 /\ (n + 1) - 1 = n
      BY <1>1
    <2> QED
      BY Zenon, <1>3, <2>1 DEF UpTo
  <1> QED
    BY Zenon, <1>1, <1>2, <1>3, <1>4, <1>5 DEF more

-----------------------------------------------------------------------------
\* Well-formed stores go through commands, snapshots and replay.

GoodStores(ss, D) == DOMAIN ss = D /\ \A d \in D : GoodStore(ss[d])

\* Erasing an expired key keeps a store good, and only that key may go.
LEMMA PurgedGood ==
  ASSUME NEW s, GoodStore(s), NEW k, NEW t
  PROVE  /\ GoodStore(Purged(s, k, t))
         /\ \A x : x \in DOMAIN Purged(s, k, t) <=> x \in DOMAIN s /\ ~(x = k /\ isExpired(s[k], t))
         /\ \A x \in DOMAIN Purged(s, k, t) : Purged(s, k, t)[x] = s[x]
  <1>1. GoodStore(Purged(s, k, t))
    BY Zenon, GoodWithout DEF Purged
  <1> QED
    BY Zenon, <1>1 DEF Purged, Without, Expired

\* The names of the commands that work on one store.
OneStore == {"SET", "DEL", "EXPIRE", "PERSIST", "INCR", "APPEND", "LPUSH", "LPOP", "RENAME", "FLUSHDB"}

LEMMA CommandFields ==
  ASSUME NEW c \in Command
  PROVE  /\ c.name \in OneStore \cup {"MOVE", "FLUSHALL"} /\ c.key \in Key /\ c.seconds \in Int
         /\ c.name = "SET" => c.arg \in Int \cup Text
         /\ c.name = "EXPIRE" => c.seconds \in Nat
         /\ c.name = "APPEND" => c.arg \in Text
         /\ c.name = "LPUSH" => c.arg \in Elem
         /\ c.name = "RENAME" => c.arg \in Key
         /\ c.name = "MOVE" => c.arg \in Nat
  BY DEF Command, OneStore

\* A command leaves a good store.
LEMMA ExecutedGood ==
  ASSUME NEW c \in Command, c.name \in OneStore, NEW s, GoodStore(s), NEW t \in Int
  PROVE  GoodStore(Executed(c, s, t))
  <1> DEFINE k == c.key
             p == Purged(s, k, t)
  <1>1. GoodStore(p) /\ k \in Key /\ c.seconds \in Int /\ t + c.seconds * Second \in Int /\ Never \in Int
    BY PurgedGood, CommandFields, SecondAssumption DEF Never
  <1> HIDE DEF p
  <1>2. CASE c.name = "SET"
    <2>1. Executed(c, s, t) = WithString(s, k, c.arg, c.seconds, t)
      BY Zenon, <1>2 DEF Executed
    <2> QED
      BY Zenon, <1>1, <1>2, <2>1, GoodWithString, CommandFields
  <1>3. CASE c.name = "DEL"
    BY Zenon, <1>3, GoodWithout DEF Executed
  <1>4. CASE c.name = "EXPIRE"
    <2>1. Executed(c, s, t) = IF k \in DOMAIN p THEN WithDeadline(p, k, t + c.seconds * Second) ELSE p
      BY Zenon, <1>4 DEF Executed, p
    <2> QED
      BY Zenon, <1>1, <2>1, GoodTouched
  <1>5. CASE c.name = "PERSIST"
    <2>1. Executed(c, s, t) = IF k \in DOMAIN p /\ p[k].expiresAt # Never
                              THEN Touched(WithDeadline(p, k, Never), k, t) ELSE p
      BY Zenon, <1>5 DEF Executed, p
    <2>2. k \in DOMAIN p => GoodStore(WithDeadline(p, k, Never)) /\ k \in DOMAIN WithDeadline(p, k, Never)
      BY Zenon, <1>1, GoodTouched
    <2> QED
      BY Zenon, <1>1, <2>1, <2>2, GoodTouched
  <1>6. CASE c.name = "INCR"
    <2>1. Executed(c, s, t) = IF Incrementable(p, k) THEN WithIncrement(p, k, 1, t) ELSE p
      BY Zenon, <1>6 DEF Executed, p
    <2> QED
      BY <1>1, <2>1, GoodWithIncrement
  <1>7. CASE c.name = "APPEND"
    <2>1. Executed(c, s, t) = IF Accepts(p, k, "string") THEN WithSuffix(p, k, c.arg, t) ELSE p
      BY Zenon, <1>7 DEF Executed, p
    <2> QED
      BY Zenon, <1>1, <1>7, <2>1, GoodWithSuffix, CommandFields
  <1>8. CASE c.name = "LPUSH"
    <2>1. Executed(c, s, t) = IF Accepts(p, k, "list") THEN WithHeads(p, k, <<c.arg>>, t) ELSE p
      BY Zenon, <1>8 DEF Executed, p
    <2>2. <<c.arg>> \in Seq(Elem) /\ <<c.arg>> # <<>>
      BY <1>8, CommandFields
    <2> QED
      BY Zenon, <1>1, <2>1, <2>2, GoodWithHeadsAndTails
  <1>9. CASE c.name = "LPOP"
    <2>1. Executed(c, s, t) = IF HasType(p, k, "list") THEN WithRest(p, k, Tail(p[k].list), t) ELSE p
      BY Zenon, <1>9 DEF Executed, p
    <2>2. HasType(p, k, "list") => Tail(p[k].list) \in Seq(Elem)
      BY <1>1 DEF HasType, GoodStore, IsStore, ValueObject, PayloadMatches
    <2> QED
      BY Zenon, <1>1, <2>1, <2>2, GoodWithRest
  <1>10. CASE c.name = "RENAME"
    <2>1. Executed(c, s, t) = IF k \in DOMAIN p /\ k # c.arg THEN Renamed(p, k, c.arg, t) ELSE p
      BY Zenon, <1>10 DEF Executed, p
    <2> QED
      BY Zenon, <1>1, <1>10, <2>1, GoodRenamed, CommandFields
  <1>11. CASE c.name = "FLUSHDB"
    BY Zenon, <1>11, EmptyGood DEF Executed
  <1> QED
    BY Zenon, <1>2, <1>3, <1>4, <1>5, <1>6, <1>7, <1>8, <1>9, <1>10, <1>11 DEF OneStore

\* And good stores, whichever they are sent to.
LEMMA AppliedGood ==
  ASSUME NEW c \in Command, NEW D, NEW d \in D, NEW ss, GoodStores(ss, D), NEW t \in Int
  PROVE  GoodStores(Applied(c, d, ss, t), D)
  <1>1. CASE c.name = "FLUSHALL"
    BY Zenon, <1>1, EmptyGood DEF Applied, GoodStores
  <1>2. CASE c.name = "MOVE"
    <2> DEFINE k == c.key
               e == c.arg
               source == Purged(ss[d], k, t)
               destination == Purged(ss[e], k, t)
               moved == Put(destination, k, Touched(source, k, t)[k])
    <2>1. Applied(c, d, ss, t) =
            IF d = e \/ e \notin DOMAIN ss THEN ss
            ELSE IF k \notin DOMAIN source \/ k \in DOMAIN destination
                 THEN [ss EXCEPT ![d] = source]
                 ELSE [ss EXCEPT ![d] = Without(source, {k}), ![e] = moved]
      BY Zenon, <1>2 DEF Applied, Moved
    <2>2. GoodStore(source) /\ GoodStore(Without(source, {k}))
      BY Zenon, PurgedGood, GoodWithout DEF GoodStores
    <2>3. e \in D => GoodStore(destination)
      BY Zenon, PurgedGood DEF GoodStores
    <2>4. e \in D /\ k \in DOMAIN source => GoodStore(moved)
      <3> SUFFICES ASSUME e \in D, k \in DOMAIN source
                   PROVE  GoodStore(moved)
        BY Zenon
      <3>1. GoodStore(Touched(source, k, t)) /\ DOMAIN Touched(source, k, t) = DOMAIN source
        BY Zenon, <2>2, GoodTouched
      <3>2. GoodObject(Touched(source, k, t)[k]) /\ k \in Key
        BY Zenon, <3>1 DEF GoodStore, IsStore, GoodObject
      <3> QED
        BY Zenon, <2>3, <3>2, GoodPut
    <2> HIDE DEF source, destination, moved
    <2> QED
      BY Zenon, <2>1, <2>2, <2>3, <2>4 DEF GoodStores
  <1>3. CASE c.name \in OneStore
    <2>1. Applied(c, d, ss, t) = [ss EXCEPT ![d] = Executed(c, ss[d], t)]
      BY Zenon, <1>3 DEF Applied, OneStore
    <2>2. GoodStore(Executed(c, ss[d], t))
      BY Zenon, <1>3, ExecutedGood DEF GoodStores
    <2> QED
      BY Zenon, <2>1, <2>2 DEF GoodStores
  <1> QED
    BY Zenon, <1>1, <1>2, <1>3, CommandFields

\* What a process may find in the log.
TornEntry == [name : {"torn"}, swallows : Nat, inline : BOOLEAN, completed : {NoCommand} \cup Command]

LogEntry == Command \cup {Select(d) : d \in Nat} \cup TornEntry

GoodReplay(r, D) ==
  /\ r = [stores |-> r.stores, db |-> r.db, lost |-> r.lost, torn |-> r.torn]
  /\ GoodStores(r.stores, D) /\ r.db \in D /\ r.lost \in Nat
  /\ r.lost > 0 => r.torn \in TornEntry

\* What a log entry is, by its name.
LEMMA EntryKinds ==
  ASSUME NEW e \in LogEntry
  PROVE  /\ e.name = "torn" => e \in TornEntry /\ e.swallows \in Nat
         /\ e.name = "SELECT" => e = Select(e.db) /\ e.db \in Nat
         /\ e.name \notin {"torn", "SELECT"} => e \in Command
         /\ e.name \in OneWord => e \in Command
  <1>1. \A c \in Command : c.name \notin {"torn", "SELECT"}
    BY Zenon, CommandFields DEF OneStore
  <1>2. \A d \in Nat : Select(d).name = "SELECT" /\ Select(d).db = d
    BY Zenon DEF Select
  <1>3. \A f \in TornEntry : f.name = "torn" /\ f.swallows \in Nat
    BY Zenon DEF TornEntry
  <1> QED
    BY <1>1, <1>2, <1>3 DEF LogEntry, OneWord

\* Replay of a torn frame, a SELECT marker and a command.
LEMMA ReplayTorn ==
  ASSUME NEW D, NEW r, GoodReplay(r, D), NEW e, e.name = "torn", NEW t
  PROVE  ReplayStep(r, e, t) = [stores |-> r.stores, db |-> r.db, torn |-> e,
                                lost |-> Max({r.lost - 1, e.swallows})]
  <1>1. r = [stores |-> r.stores, db |-> r.db, lost |-> r.lost, torn |-> r.torn] /\ r.lost \in Nat
    BY Zenon DEF GoodReplay
  <1>2. ReplayStep(r, e, t) = [r EXCEPT !.lost = Max({r.lost - 1, e.swallows}), !.torn = e]
    BY Zenon, <1>1 DEF ReplayStep
  <1> QED
    BY Zenon, <1>1, <1>2

LEMMA ReplaySelect ==
  ASSUME NEW D, NEW r, GoodReplay(r, D), r.lost = 0, NEW e, e.name = "SELECT", NEW t
  PROVE  ReplayStep(r, e, t) = IF e.db \in D THEN [stores |-> r.stores, db |-> e.db,
                                                   lost |-> 0, torn |-> r.torn] ELSE r
  <1>1. r = [stores |-> r.stores, db |-> r.db, lost |-> 0, torn |-> r.torn] /\ DOMAIN r.stores = D
    BY Zenon DEF GoodReplay, GoodStores
  <1>2. ReplayStep(r, e, t) = IF e.db \in D THEN [r EXCEPT !.db = e.db] ELSE r
    BY <1>1 DEF ReplayStep
  <1> QED
    BY Zenon, <1>1, <1>2

LEMMA ReplayCommand ==
  ASSUME NEW D, NEW r, GoodReplay(r, D), r.lost = 0, NEW e, e.name \notin {"torn", "SELECT"}, NEW t
  PROVE  ReplayStep(r, e, t) = [stores |-> Applied(e, r.db, r.stores, t), db |-> r.db,
                                lost |-> 0, torn |-> r.torn]
  <1>1. r = [stores |-> r.stores, db |-> r.db, lost |-> 0, torn |-> r.torn]
    BY Zenon DEF GoodReplay
  <1>2. ReplayStep(r, e, t) = [r EXCEPT !.stores = Applied(e, r.db, r.stores, t)]
    BY <1>1 DEF ReplayStep
  <1> QED
    BY Zenon, <1>1, <1>2

\* Replay keeps the stores good, also behind a torn frame.
LEMMA ReplayStepGood ==
  ASSUME NEW D, NEW r, GoodReplay(r, D), NEW e \in LogEntry, NEW t \in Int
  PROVE  GoodReplay(ReplayStep(r, e, t), D)
  <1>1. /\ r = [stores |-> r.stores, db |-> r.db, lost |-> r.lost, torn |-> r.torn]
        /\ GoodStores(r.stores, D) /\ r.db \in D /\ r.lost \in Nat
    BY Zenon DEF GoodReplay
  <1>2. CASE e.name = "torn"
    <2>1. e \in TornEntry /\ e.swallows \in Nat
      BY Zenon, <1>2, EntryKinds
    <2>2. Max({r.lost - 1, e.swallows}) \in Nat
      <3>1. r.lost - 1 \in Int /\ e.swallows \in Int
        BY <1>1, <2>1
      <3>2. Max({r.lost - 1, e.swallows}) = IF r.lost - 1 <= e.swallows THEN e.swallows ELSE r.lost - 1
        BY Zenon, <3>1, MaxOfTwo
      <3> QED
        BY <1>1, <2>1, <3>2
    <2> QED
      BY <1>1, <1>2, <2>1, <2>2, ReplayTorn DEF GoodReplay
  <1>3. CASE e.name # "torn" /\ r.lost > 0
    <2> DEFINE whole == IF r.lost > 1 \/ r.torn.completed = NoCommand THEN r.stores
                        ELSE Applied(r.torn.completed, r.db, r.stores, t)
               after == IF r.lost = 1 /\ r.torn.inline /\ e.name \in OneWord
                        THEN Applied(e, r.db, whole, t) ELSE whole
    <2>1. ReplayStep(r, e, t) = [r EXCEPT !.lost = r.lost - 1, !.stores = after]
      BY <1>1, <1>3 DEF ReplayStep
    <2>2. r.torn \in TornEntry /\ r.torn.completed \in {NoCommand} \cup Command
      BY Zenon, <1>3 DEF GoodReplay, TornEntry
    <2>3. GoodStores(whole, D)
      BY Zenon, <1>1, <2>2, AppliedGood
    <2> HIDE DEF whole
    <2>4. GoodStores(after, D)
      BY Zenon, <1>1, <2>3, EntryKinds, AppliedGood
    <2> HIDE DEF after
    <2>5. ReplayStep(r, e, t) = [stores |-> after, db |-> r.db, lost |-> r.lost - 1, torn |-> r.torn]
      BY Zenon, <1>1, <2>1
    <2>6. r.lost - 1 \in Nat
      BY <1>1, <1>3
    <2> QED
      BY <1>1, <2>2, <2>4, <2>5, <2>6 DEF GoodReplay
  <1>4. CASE r.lost = 0 /\ e.name = "SELECT"
    <2>1. ReplayStep(r, e, t) = IF e.db \in D THEN [stores |-> r.stores, db |-> e.db,
                                                    lost |-> 0, torn |-> r.torn] ELSE r
      BY <1>4, ReplaySelect
    <2> QED
      BY <1>1, <2>1 DEF GoodReplay
  <1>5. CASE r.lost = 0 /\ e.name \notin {"torn", "SELECT"}
    <2>1. GoodStores(Applied(e, r.db, r.stores, t), D)
      BY Zenon, <1>1, <1>5, EntryKinds, AppliedGood
    <2>2. ReplayStep(r, e, t) = [stores |-> Applied(e, r.db, r.stores, t), db |-> r.db,
                                 lost |-> 0, torn |-> r.torn]
      BY Zenon, <1>5, ReplayCommand
    <2> QED
      BY <1>1, <2>1, <2>2 DEF GoodReplay
  <1> QED
    BY <1>1, <1>2, <1>3, <1>4, <1>5

\* From good stores, replay of any log ends in good stores.
LEMMA ReplayedGood ==
  ASSUME NEW D, 0 \in D, NEW ss, GoodStores(ss, D), NEW t \in Int
  PROVE  \A entries \in Seq(LogEntry) : GoodReplay(Replayed(entries, ss, t), D)
  <1> DEFINE T == {entries \in Seq(LogEntry) : GoodReplay(Replayed(entries, ss, t), D)}
  <1>1. <<>> \in T
    BY ReplayedStart DEF Start, GoodReplay
  <1>2. ASSUME NEW s \in Seq(LogEntry), NEW e \in LogEntry, s \in T
        PROVE  Append(s, e) \in T
    <2>1. GoodReplay(Replayed(Append(s, e), ss, t), D)
      BY <1>2, ReplayedAppend, ReplayStepGood
    <2> QED
      BY <2>1
  <1> HIDE DEF T
  <1>3. Seq(LogEntry) \subseteq T
    BY Zenon, <1>1, <1>2, SequenceInduction
  <1> QED
    BY Zenon, <1>3 DEF T

StoreSet == {s \in Map(Key, ValueObject) : GoodStore(s)}

GoodFile(file) ==
  /\ file = [count |-> file.count, sections |-> file.sections, mangled |-> file.mangled]
  /\ file.count \in Nat /\ file.sections \in Seq(StoreSet) /\ Len(file.sections) <= file.count
  /\ file.mangled \subseteq DOMAIN file.sections

LEMMA StoreSetDef == \A s : s \in StoreSet <=> GoodStore(s)
  BY Zenon, MapDef DEF StoreSet, GoodStore, IsStore

\* What a save keeps of a store, and what a start reads back.
LEMMA ImageGood ==
  ASSUME NEW s, GoodStore(s), NEW t \in Int
  PROVE  /\ GoodStore(Image(s)) /\ DOMAIN Image(s) = DOMAIN s
         /\ \A k \in DOMAIN s : Image(s)[k] = [s[k] EXCEPT !.lastAccessedAt = Never]
         /\ GoodStore(loadSnapshot(s, t)) /\ DOMAIN loadSnapshot(s, t) = DOMAIN s \ Expired(s, t)
         /\ \A k \in DOMAIN s \ Expired(s, t) :
              loadSnapshot(s, t)[k] = [s[k] EXCEPT !.lastAccessedAt = t]
  <1>1. \A k \in DOMAIN s, x \in Int : Touched(s, k, x)[k] = [s[k] EXCEPT !.lastAccessedAt = x]
    BY Zenon DEF Touched
  <1>2. Never \in Int
    BY DEF Never
  <1>3. \A k \in DOMAIN s, x \in Int : GoodObject([s[k] EXCEPT !.lastAccessedAt = x])
    BY Zenon, GoodTimes DEF GoodStore, GoodObject, IsStore
  <1>4. Image(s) = [k \in DOMAIN s |-> [s[k] EXCEPT !.lastAccessedAt = Never]]
    BY Zenon, <1>1, <1>2 DEF Image
  <1>5. loadSnapshot(s, t) = [k \in DOMAIN s \ Expired(s, t) |-> [s[k] EXCEPT !.lastAccessedAt = t]]
    BY Zenon, <1>1 DEF loadSnapshot
  <1>6. DOMAIN s \subseteq Key
    BY Zenon DEF GoodStore, IsStore
  <1> QED
    BY <1>2, <1>3, <1>4, <1>5, <1>6 DEF GoodStore, IsStore, GoodObject

LEMMA LoadedGood ==
  ASSUME NEW file, GoodFile(file), Complete(file), NEW n \in Nat, NEW t \in Int
  PROVE  GoodStores(Loaded(file, n, t), 0 .. n - 1)
  <1>1. file.sections \in Seq(StoreSet) /\ Len(file.sections) = file.count /\ file.count \in Nat
    BY Zenon DEF GoodFile, Complete
  <1>2. \A d \in 0 .. n - 1 : d < file.count => GoodStore(file.sections[d + 1])
    BY <1>1, StoreSetDef
  <1>3. \A d \in 0 .. n - 1 : d < file.count => GoodStore(loadSnapshot(file.sections[d + 1], t))
    BY Zenon, <1>2, ImageGood
  <1> QED
    BY Zenon, <1>3, EmptyGood DEF Loaded, GoodStores

-----------------------------------------------------------------------------
\* What clients can see of a store at time t: the keys that are alive, and of
\* their objects everything but the times of creation and last use.

Lives(s, k, t) == k \in DOMAIN s /\ ~isExpired(s[k], t)

SameObject(o, q) ==
  /\ o.value = q.value /\ o.list = q.list /\ o.hash = q.hash /\ o.set = q.set
  /\ o.type = q.type /\ o.expiresAt = q.expiresAt

Alike(a, b, t) ==
  \A k \in Key : /\ Lives(a, k, t) <=> Lives(b, k, t)
                 /\ Lives(a, k, t) => SameObject(a[k], b[k])

LEMMA WithoutTimes ==
  ASSUME NEW o \in ValueObject
  PROVE  [o EXCEPT !.createdAt = Never, !.lastAccessedAt = Never] =
           [value |-> o.value, list |-> o.list, hash |-> o.hash, set |-> o.set, type |-> o.type,
            createdAt |-> Never, expiresAt |-> o.expiresAt, lastAccessedAt |-> Never]
  <1> DEFINE p == [o EXCEPT !.createdAt = Never]
  <1>1. o = [value |-> o.value, list |-> o.list, hash |-> o.hash, set |-> o.set, type |-> o.type,
             createdAt |-> o.createdAt, expiresAt |-> o.expiresAt, lastAccessedAt |-> o.lastAccessedAt]
    BY Zenon DEF ValueObject
  <1>2. p = [value |-> o.value, list |-> o.list, hash |-> o.hash, set |-> o.set, type |-> o.type,
             createdAt |-> Never, expiresAt |-> o.expiresAt, lastAccessedAt |-> o.lastAccessedAt]
    BY <1>1
  <1>3. [o EXCEPT !.createdAt = Never, !.lastAccessedAt = Never] = [p EXCEPT !.lastAccessedAt = Never]
    BY Zenon
  <1> HIDE DEF p
  <1> QED
    BY <1>2, <1>3

\* That is what Contents compares.
LEMMA SeenAlike ==
  ASSUME NEW a, GoodStore(a), NEW b, GoodStore(b), NEW t
  PROVE  Seen(a, t) = Seen(b, t) <=> Alike(a, b, t)
  <1> DEFINE Face(o) == [o EXCEPT !.createdAt = Never, !.lastAccessedAt = Never]
  <1>1. \A o, q \in ValueObject : Face(o) = Face(q) <=> SameObject(o, q)
    <2> SUFFICES ASSUME NEW o \in ValueObject, NEW q \in ValueObject
                 PROVE  Face(o) = Face(q) <=> SameObject(o, q)
      BY Zenon
    <2>1. \A x \in ValueObject :
            Face(x) = [value |-> x.value, list |-> x.list, hash |-> x.hash, set |-> x.set,
                       type |-> x.type, createdAt |-> Never, expiresAt |-> x.expiresAt,
                       lastAccessedAt |-> Never]
      BY Zenon, WithoutTimes
    <2> HIDE DEF Face
    <2> QED
      BY SMTT(30), <2>1 DEF SameObject
  <1>2. /\ DOMAIN a \subseteq Key /\ \A k \in DOMAIN a : a[k] \in ValueObject
        /\ DOMAIN b \subseteq Key /\ \A k \in DOMAIN b : b[k] \in ValueObject
    BY Zenon DEF GoodStore, IsStore
  <1>3. /\ DOMAIN Seen(a, t) = {k \in Key : Lives(a, k, t)}
        /\ DOMAIN Seen(b, t) = {k \in Key : Lives(b, k, t)}
    BY Zenon, <1>2 DEF Seen, Lives, Expired
  <1>4. /\ \A k \in DOMAIN Seen(a, t) : Seen(a, t)[k] = Face(a[k])
        /\ \A k \in DOMAIN Seen(b, t) : Seen(b, t)[k] = Face(b[k])
    BY Zenon DEF Seen
  <1>5. Seen(a, t) = Seen(b, t) <=>
          /\ DOMAIN Seen(a, t) = DOMAIN Seen(b, t)
          /\ \A k \in DOMAIN Seen(a, t) : Seen(a, t)[k] = Seen(b, t)[k]
    BY ZenonT(30) DEF Seen
  <1> HIDE DEF Face
  <1>6. \A k \in Key : Lives(a, k, t) /\ Lives(b, k, t) =>
          (Face(a[k]) = Face(b[k]) <=> SameObject(a[k], b[k]))
    BY Zenon, <1>1, <1>2 DEF Lives
  <1> QED
    BY Zenon, <1>3, <1>4, <1>5, <1>6 DEF Alike

LEMMA AlikeSelf == \A a, t : Alike(a, a, t)
  BY Zenon DEF Alike, SameObject

LEMMA AlikeSwap == ASSUME NEW a, NEW b, NEW t, Alike(a, b, t)
                   PROVE  Alike(b, a, t)
  BY Zenon DEF Alike, SameObject

LEMMA AlikeVia == ASSUME NEW a, NEW b, NEW c, NEW t, Alike(a, b, t), Alike(b, c, t)
                  PROVE  Alike(a, c, t)
  BY Zenon DEF Alike, SameObject

\* Stores that look alike go on looking alike: what expires in one expires in
\* the other.
LEMMA AlikeLater ==
  ASSUME NEW a, GoodStore(a), NEW b, GoodStore(b), NEW t \in Int, NEW u \in Int, t <= u, Alike(a, b, t)
  PROVE  Alike(a, b, u)
  <1>1. /\ \A k \in DOMAIN a : a[k].expiresAt \in Int
        /\ \A k \in DOMAIN b : b[k].expiresAt \in Int
    BY Zenon DEF GoodStore, IsStore, ValueObject
  <1> QED
    BY <1>1 DEF Alike, Lives, SameObject, isExpired

\* Erasing expired keys shows no difference, nor does saving and loading.
LEMMA AlikeWithout ==
  ASSUME NEW s, NEW t, NEW K, K \subseteq Expired(s, t)
  PROVE  Alike(Without(s, K), s, t)
  BY Zenon DEF Alike, Lives, SameObject, Without, Expired

LEMMA AlikeImage ==
  ASSUME NEW s, GoodStore(s), NEW t \in Int
  PROVE  Alike(Image(s), s, t) /\ Alike(loadSnapshot(s, t), s, t)
  <1>1. \A o \in ValueObject, x \in Int : SameObject([o EXCEPT !.lastAccessedAt = x], o)
    BY Zenon DEF SameObject, ValueObject
  <1>2. \A k \in DOMAIN s : s[k] \in ValueObject
    BY Zenon DEF GoodStore, IsStore
  <1>3. /\ \A k \in DOMAIN s : SameObject(Image(s)[k], s[k])
        /\ \A k \in DOMAIN s \ Expired(s, t) : SameObject(loadSnapshot(s, t)[k], s[k])
    <2>1. Never \in Int
      BY DEF Never
    <2>2. /\ \A k \in DOMAIN s : Image(s)[k] = [s[k] EXCEPT !.lastAccessedAt = Never]
          /\ \A k \in DOMAIN s \ Expired(s, t) :
               loadSnapshot(s, t)[k] = [s[k] EXCEPT !.lastAccessedAt = t]
      BY Zenon, ImageGood
    <2>3. \A k \in DOMAIN s, x \in Int : SameObject([s[k] EXCEPT !.lastAccessedAt = x], s[k])
      BY Zenon, <1>1, <1>2
    <2> QED
      BY Zenon, <2>1, <2>2, <2>3
  <1>4. DOMAIN Image(s) = DOMAIN s /\ DOMAIN loadSnapshot(s, t) = DOMAIN s \ Expired(s, t)
    BY Zenon, ImageGood
  <1> QED
    BY Zenon, <1>3, <1>4 DEF Alike, Lives, SameObject, Expired, isExpired

\* Every database looks alike.
AllAlike(ss, rr, D, t) == \A d \in D : Alike(ss[d], rr[d], t)

-----------------------------------------------------------------------------
\* A command makes of stores that look alike stores that look alike.

\* The same change to the same object.
LEMMA SameChanges ==
  ASSUME NEW o \in ValueObject, NEW q \in ValueObject, SameObject(o, q), NEW t
  PROVE  /\ SameObject([o EXCEPT !.lastAccessedAt = t], [q EXCEPT !.lastAccessedAt = t])
         /\ \A x : SameObject([o EXCEPT !.expiresAt = x], [q EXCEPT !.expiresAt = x])
         /\ \A v : SameObject([o EXCEPT !.value = v, !.lastAccessedAt = t],
                              [q EXCEPT !.value = v, !.lastAccessedAt = t])
         /\ \A l : SameObject([o EXCEPT !.list = l, !.lastAccessedAt = t],
                              [q EXCEPT !.list = l, !.lastAccessedAt = t])
  <1>1. /\ SameObject([o EXCEPT !.lastAccessedAt = t], [q EXCEPT !.lastAccessedAt = t])
        /\ \A x : SameObject([o EXCEPT !.expiresAt = x], [q EXCEPT !.expiresAt = x])
    BY Zenon DEF SameObject, ValueObject
  <1>2. ASSUME NEW v
        PROVE  SameObject([o EXCEPT !.value = v, !.lastAccessedAt = t],
                          [q EXCEPT !.value = v, !.lastAccessedAt = t])
    BY ZenonT(30) DEF SameObject, ValueObject
  <1>3. ASSUME NEW l
        PROVE  SameObject([o EXCEPT !.list = l, !.lastAccessedAt = t],
                          [q EXCEPT !.list = l, !.lastAccessedAt = t])
    BY ZenonT(30) DEF SameObject, ValueObject
  <1> QED
    BY Zenon, <1>1, <1>2, <1>3

LEMMA AlikePut ==
  ASSUME NEW a, NEW b, NEW t, Alike(a, b, t), NEW k \in Key, NEW o, NEW q, SameObject(o, q)
  PROVE  Alike(Put(a, k, o), Put(b, k, q), t)
  <1> SUFFICES ASSUME NEW x \in Key
               PROVE  /\ Lives(Put(a, k, o), x, t) <=> Lives(Put(b, k, q), x, t)
                      /\ Lives(Put(a, k, o), x, t) => SameObject(Put(a, k, o)[x], Put(b, k, q)[x])
    BY Zenon DEF Alike
  <1>1. CASE x = k
    BY Zenon, <1>1 DEF Put, Lives, isExpired, SameObject
  <1>2. CASE x # k
    BY Zenon, <1>2 DEF Put, Lives, isExpired, Alike
  <1> QED
    BY Zenon, <1>1, <1>2

LEMMA AlikeErase ==
  ASSUME NEW a, NEW b, NEW t, Alike(a, b, t), NEW K
  PROVE  Alike(Without(a, K), Without(b, K), t)
  BY Zenon DEF Alike, Without, Lives, isExpired

LEMMA AlikeSet ==
  ASSUME NEW a, NEW b, NEW t, Alike(a, b, t), NEW k \in DOMAIN a, k \in DOMAIN b, k \in Key,
         NEW o, NEW q, SameObject(o, q)
  PROVE  Alike([a EXCEPT ![k] = o], [b EXCEPT ![k] = q], t)
  <1> DEFINE c == [a EXCEPT ![k] = o]
             e == [b EXCEPT ![k] = q]
  <1> SUFFICES ASSUME NEW x \in Key
               PROVE  (Lives(c, x, t) <=> Lives(e, x, t)) /\ (Lives(c, x, t) => SameObject(c[x], e[x]))
    BY ZenonT(30) DEF Alike
  <1>1. CASE x = k
    <2>1. c[x] = o /\ e[x] = q /\ x \in DOMAIN c /\ x \in DOMAIN e
      BY Zenon, <1>1
    <2> HIDE DEF c, e
    <2> QED
      BY Zenon, <2>1 DEF Lives, isExpired, SameObject
  <1>2. CASE x # k
    <2>1. /\ x \in DOMAIN a => c[x] = a[x]
          /\ x \in DOMAIN b => e[x] = b[x]
          /\ DOMAIN c = DOMAIN a /\ DOMAIN e = DOMAIN b
      BY Zenon, <1>2
    <2> HIDE DEF c, e
    <2> QED
      BY Zenon, <2>1 DEF Lives, isExpired, Alike
  <1> QED
    BY Zenon, <1>1, <1>2

\* Two stores, without the key a command looks up if it has expired.
Matched(p, q, k, t) ==
  /\ GoodStore(p) /\ GoodStore(q) /\ Alike(p, q, t)
  /\ k \in DOMAIN p <=> k \in DOMAIN q
  /\ k \in DOMAIN p => SameObject(p[k], q[k]) /\ p[k] \in ValueObject /\ q[k] \in ValueObject

LEMMA PurgedMatched ==
  ASSUME NEW a, GoodStore(a), NEW b, GoodStore(b), NEW t, Alike(a, b, t), NEW k \in Key
  PROVE  /\ Matched(Purged(a, k, t), Purged(b, k, t), k, t)
         /\ Alike(Purged(a, k, t), a, t)
  <1> DEFINE p == Purged(a, k, t)
             q == Purged(b, k, t)
  <1>1. GoodStore(p) /\ GoodStore(q)
    BY Zenon, PurgedGood
  <1>2. Alike(p, a, t) /\ Alike(q, b, t)
    BY Zenon, AlikeWithout DEF Purged
  <1>3. Alike(p, q, t)
    BY ZenonT(30), <1>2, AlikeSwap, AlikeVia
  <1>4. (k \in DOMAIN p <=> Lives(p, k, t)) /\ (k \in DOMAIN q <=> Lives(q, k, t))
    BY PurgedGood DEF Lives
  <1> HIDE DEF p, q
  <1> QED
    BY Zenon, <1>1, <1>2, <1>3, <1>4 DEF Matched, Alike, GoodStore, IsStore, p, q

\* A new deadline, or a use of the key.
LEMMA MatchedTouched ==
  ASSUME NEW p, NEW q, NEW k \in Key, NEW t \in Int, Matched(p, q, k, t), k \in DOMAIN p, NEW x \in Int
  PROVE  /\ Matched(WithDeadline(p, k, x), WithDeadline(q, k, x), k, t)
         /\ Matched(Touched(p, k, t), Touched(q, k, t), k, t)
         /\ k \in DOMAIN WithDeadline(p, k, x)
  <1>1. /\ GoodStore(p) /\ GoodStore(q) /\ Alike(p, q, t) /\ k \in DOMAIN q
        /\ SameObject(p[k], q[k]) /\ p[k] \in ValueObject /\ q[k] \in ValueObject
    BY Zenon DEF Matched
  <1>2. /\ GoodStore(WithDeadline(p, k, x)) /\ GoodStore(WithDeadline(q, k, x))
        /\ GoodStore(Touched(p, k, t)) /\ GoodStore(Touched(q, k, t))
    BY Zenon, <1>1, GoodTouched
  <1> DEFINE o1 == [p[k] EXCEPT !.expiresAt = x]
             q1 == [q[k] EXCEPT !.expiresAt = x]
             o2 == [p[k] EXCEPT !.lastAccessedAt = t]
             q2 == [q[k] EXCEPT !.lastAccessedAt = t]
  <1>3. /\ WithDeadline(p, k, x) = [p EXCEPT ![k] = o1] /\ WithDeadline(q, k, x) = [q EXCEPT ![k] = q1]
        /\ Touched(p, k, t) = [p EXCEPT ![k] = o2] /\ Touched(q, k, t) = [q EXCEPT ![k] = q2]
    BY Zenon DEF WithDeadline, Touched
  <1>4. SameObject(o1, q1) /\ SameObject(o2, q2)
    BY Zenon, <1>1, SameChanges
  <1> HIDE DEF o1, q1, o2, q2
  <1>5. /\ Alike(WithDeadline(p, k, x), WithDeadline(q, k, x), t)
        /\ Alike(Touched(p, k, t), Touched(q, k, t), t)
    <2>1. Alike([p EXCEPT ![k] = o1], [q EXCEPT ![k] = q1], t)
      BY Zenon, <1>1, <1>4, AlikeSet
    <2>2. Alike([p EXCEPT ![k] = o2], [q EXCEPT ![k] = q2], t)
      BY Zenon, <1>1, <1>4, AlikeSet
    <2> QED
      BY Zenon, <1>3, <2>1, <2>2
  <1>6. /\ WithDeadline(p, k, x)[k] = o1 /\ WithDeadline(q, k, x)[k] = q1
        /\ Touched(p, k, t)[k] = o2 /\ Touched(q, k, t)[k] = q2
        /\ k \in DOMAIN WithDeadline(p, k, x) /\ k \in DOMAIN WithDeadline(q, k, x)
        /\ k \in DOMAIN Touched(p, k, t) /\ k \in DOMAIN Touched(q, k, t)
    BY Zenon, <1>1, <1>3 DEF GoodStore, IsStore
  <1> QED
    BY Zenon, <1>2, <1>4, <1>5, <1>6 DEF Matched, GoodStore, IsStore

\* The object an upsert starts from is the same in both.
LEMMA MatchedObject ==
  ASSUME NEW p, NEW q, NEW k, NEW t \in Int, Matched(p, q, k, t), NEW type \in DataType
  PROVE  /\ ObjectAt(p, k, type, t) \in ValueObject /\ ObjectAt(q, k, type, t) \in ValueObject
         /\ SameObject(ObjectAt(p, k, type, t), ObjectAt(q, k, type, t))
  <1>1. NewObject(type, t) \in ValueObject
    BY Zenon, NewObjectType
  <1> HIDE DEF NewObject
  <1> QED
    BY Zenon, <1>1 DEF ObjectAt, Matched, SameObject

\* A command on one store.
LEMMA ExecutedAlike ==
  ASSUME NEW c \in Command, c.name \in OneStore, NEW t \in Int,
         NEW a, GoodStore(a), NEW b, GoodStore(b), Alike(a, b, t)
  PROVE  Alike(Executed(c, a, t), Executed(c, b, t), t)
  <1> DEFINE k == c.key
             p == Purged(a, k, t)
             q == Purged(b, k, t)
  <1>1. k \in Key /\ t + c.seconds * Second \in Int /\ Never \in Int
    BY CommandFields, SecondAssumption DEF Never
  <1>2. Matched(p, q, k, t)
    BY Zenon, <1>1, PurgedMatched
  <1> HIDE DEF p, q
  <1>3. /\ Alike(p, q, t) /\ (k \in DOMAIN p <=> k \in DOMAIN q)
        /\ k \in DOMAIN p => SameObject(p[k], q[k]) /\ p[k] \in ValueObject /\ q[k] \in ValueObject
    BY Zenon, <1>2 DEF Matched
  <1>4. CASE c.name = "SET"
    <2> DEFINE o == [NewObject("string", t) EXCEPT !.value = <<c.arg>>, !.expiresAt = Deadline(c.seconds, t)]
    <2>1. Executed(c, a, t) = Put(a, k, o) /\ Executed(c, b, t) = Put(b, k, o)
      BY Zenon, <1>4 DEF Executed, WithString
    <2> HIDE DEF o
    <2>2. SameObject(o, o)
      BY Zenon DEF SameObject
    <2> QED
      BY Zenon, <1>1, <2>1, <2>2, AlikePut
  <1>5. CASE c.name = "DEL"
    BY Zenon, <1>5, AlikeErase DEF Executed
  <1>6. CASE c.name = "EXPIRE"
    <2> DEFINE x == t + c.seconds * Second
    <2>1. /\ Executed(c, a, t) = IF k \in DOMAIN p THEN WithDeadline(p, k, x) ELSE p
          /\ Executed(c, b, t) = IF k \in DOMAIN q THEN WithDeadline(q, k, x) ELSE q
      BY Zenon, <1>6 DEF Executed, p, q
    <2>2. x \in Int
      BY Zenon, <1>1
    <2> HIDE DEF x
    <2>3. k \in DOMAIN p => Alike(WithDeadline(p, k, x), WithDeadline(q, k, x), t)
      BY Zenon, <1>1, <1>2, <2>2, MatchedTouched DEF Matched
    <2> QED
      BY Zenon, <1>3, <2>1, <2>3
  <1>7. CASE c.name = "PERSIST"
    <2>1. /\ Executed(c, a, t) = IF k \in DOMAIN p /\ p[k].expiresAt # Never
                                 THEN Touched(WithDeadline(p, k, Never), k, t) ELSE p
          /\ Executed(c, b, t) = IF k \in DOMAIN q /\ q[k].expiresAt # Never
                                 THEN Touched(WithDeadline(q, k, Never), k, t) ELSE q
      BY Zenon, <1>7 DEF Executed, p, q
    <2>2. k \in DOMAIN p => Matched(WithDeadline(p, k, Never), WithDeadline(q, k, Never), k, t)
                            /\ k \in DOMAIN WithDeadline(p, k, Never)
      BY Zenon, <1>1, <1>2, MatchedTouched
    <2>3. k \in DOMAIN p => Alike(Touched(WithDeadline(p, k, Never), k, t),
                                  Touched(WithDeadline(q, k, Never), k, t), t)
      BY Zenon, <1>1, <2>2, MatchedTouched DEF Matched
    <2>4. k \in DOMAIN p => p[k].expiresAt = q[k].expiresAt
      BY Zenon, <1>3 DEF SameObject
    <2> QED
      BY ZenonT(30), <1>3, <2>1, <2>3, <2>4
  <1>8. CASE c.name = "INCR"
    <2> DEFINE o == ObjectAt(p, k, "string", t)
               u == ObjectAt(q, k, "string", t)
               v == <<CurrentInteger(p, k) + 1>>
    <2>1. /\ Executed(c, a, t) = IF Incrementable(p, k) THEN WithIncrement(p, k, 1, t) ELSE p
          /\ Executed(c, b, t) = IF Incrementable(q, k) THEN WithIncrement(q, k, 1, t) ELSE q
      BY Zenon, <1>8 DEF Executed, p, q
    <2>2. o \in ValueObject /\ u \in ValueObject /\ SameObject(o, u)
      BY Zenon, <1>2, MatchedObject DEF DataType
    <2>3. Incrementable(p, k) <=> Incrementable(q, k)
      BY Zenon, <1>3 DEF Incrementable, IsInteger, SameObject
    <2>4. CurrentInteger(p, k) = CurrentInteger(q, k)
      BY Zenon, <1>3 DEF CurrentInteger, SameObject
    <2>5. /\ WithIncrement(p, k, 1, t) = Put(p, k, [o EXCEPT !.value = v, !.lastAccessedAt = t])
          /\ WithIncrement(q, k, 1, t) = Put(q, k, [u EXCEPT !.value = v, !.lastAccessedAt = t])
      BY Zenon, <2>4 DEF WithIncrement
    <2> HIDE DEF o, u, v
    <2> DEFINE o1 == [o EXCEPT !.value = v, !.lastAccessedAt = t]
               u1 == [u EXCEPT !.value = v, !.lastAccessedAt = t]
    <2>6. SameObject(o1, u1)
      BY Zenon, <2>2, SameChanges
    <2>7. WithIncrement(p, k, 1, t) = Put(p, k, o1) /\ WithIncrement(q, k, 1, t) = Put(q, k, u1)
      BY Zenon, <2>5
    <2> HIDE DEF o1, u1
    <2>8. Alike(WithIncrement(p, k, 1, t), WithIncrement(q, k, 1, t), t)
      BY Zenon, <1>1, <1>3, <2>6, <2>7, AlikePut
    <2> QED
      BY Zenon, <1>3, <2>1, <2>3, <2>8
  <1>9. CASE c.name = "APPEND"
    <2> DEFINE o == ObjectAt(p, k, "string", t)
               u == ObjectAt(q, k, "string", t)
               v == Append(o.value, c.arg)
    <2>1. /\ Executed(c, a, t) = IF Accepts(p, k, "string") THEN WithSuffix(p, k, c.arg, t) ELSE p
          /\ Executed(c, b, t) = IF Accepts(q, k, "string") THEN WithSuffix(q, k, c.arg, t) ELSE q
      BY Zenon, <1>9 DEF Executed, p, q
    <2>2. o \in ValueObject /\ u \in ValueObject /\ SameObject(o, u)
      BY Zenon, <1>2, MatchedObject DEF DataType
    <2>3. Accepts(p, k, "string") <=> Accepts(q, k, "string")
      BY Zenon, <1>3 DEF Accepts, SameObject
    <2>4. o.value = u.value
      BY Zenon, <2>2 DEF SameObject
    <2>5. /\ WithSuffix(p, k, c.arg, t) = Put(p, k, [o EXCEPT !.value = v, !.lastAccessedAt = t])
          /\ WithSuffix(q, k, c.arg, t) = Put(q, k, [u EXCEPT !.value = v, !.lastAccessedAt = t])
      BY Zenon, <2>4 DEF WithSuffix
    <2> HIDE DEF o, u, v
    <2> DEFINE o1 == [o EXCEPT !.value = v, !.lastAccessedAt = t]
               u1 == [u EXCEPT !.value = v, !.lastAccessedAt = t]
    <2>6. SameObject(o1, u1)
      BY Zenon, <2>2, SameChanges
    <2>7. WithSuffix(p, k, c.arg, t) = Put(p, k, o1) /\ WithSuffix(q, k, c.arg, t) = Put(q, k, u1)
      BY Zenon, <2>5
    <2> HIDE DEF o1, u1
    <2>8. Alike(WithSuffix(p, k, c.arg, t), WithSuffix(q, k, c.arg, t), t)
      BY Zenon, <1>1, <1>3, <2>6, <2>7, AlikePut
    <2> QED
      BY Zenon, <1>3, <2>1, <2>3, <2>8
  <1>10. CASE c.name = "LPUSH"
    <2> DEFINE o == ObjectAt(p, k, "list", t)
               u == ObjectAt(q, k, "list", t)
               v == Reverse(<<c.arg>>) \o o.list
    <2>1. /\ Executed(c, a, t) = IF Accepts(p, k, "list") THEN WithHeads(p, k, <<c.arg>>, t) ELSE p
          /\ Executed(c, b, t) = IF Accepts(q, k, "list") THEN WithHeads(q, k, <<c.arg>>, t) ELSE q
      BY Zenon, <1>10 DEF Executed, p, q
    <2>2. o \in ValueObject /\ u \in ValueObject /\ SameObject(o, u)
      BY Zenon, <1>2, MatchedObject DEF DataType
    <2>3. Accepts(p, k, "list") <=> Accepts(q, k, "list")
      BY Zenon, <1>3 DEF Accepts, SameObject
    <2>4. o.list = u.list
      BY Zenon, <2>2 DEF SameObject
    <2>5. /\ WithHeads(p, k, <<c.arg>>, t) = Put(p, k, [o EXCEPT !.list = v, !.lastAccessedAt = t])
          /\ WithHeads(q, k, <<c.arg>>, t) = Put(q, k, [u EXCEPT !.list = v, !.lastAccessedAt = t])
      BY Zenon, <2>4 DEF WithHeads
    <2> HIDE DEF o, u, v
    <2> DEFINE o1 == [o EXCEPT !.list = v, !.lastAccessedAt = t]
               u1 == [u EXCEPT !.list = v, !.lastAccessedAt = t]
    <2>6. SameObject(o1, u1)
      BY Zenon, <2>2, SameChanges
    <2>7. WithHeads(p, k, <<c.arg>>, t) = Put(p, k, o1) /\ WithHeads(q, k, <<c.arg>>, t) = Put(q, k, u1)
      BY Zenon, <2>5
    <2> HIDE DEF o1, u1
    <2>8. Alike(WithHeads(p, k, <<c.arg>>, t), WithHeads(q, k, <<c.arg>>, t), t)
      BY Zenon, <1>1, <1>3, <2>6, <2>7, AlikePut
    <2> QED
      BY Zenon, <1>3, <2>1, <2>3, <2>8
  <1>11. CASE c.name = "LPOP"
    <2> DEFINE v == Tail(p[k].list)
               o == [p[k] EXCEPT !.list = v, !.lastAccessedAt = t]
               u == [q[k] EXCEPT !.list = v, !.lastAccessedAt = t]
    <2>1. /\ Executed(c, a, t) = IF HasType(p, k, "list") THEN WithRest(p, k, Tail(p[k].list), t) ELSE p
          /\ Executed(c, b, t) = IF HasType(q, k, "list") THEN WithRest(q, k, Tail(q[k].list), t) ELSE q
      BY Zenon, <1>11 DEF Executed, p, q
    <2>2. HasType(p, k, "list") <=> HasType(q, k, "list")
      BY Zenon, <1>3 DEF HasType, SameObject
    <2> SUFFICES ASSUME HasType(p, k, "list")
                 PROVE  Alike(WithRest(p, k, Tail(p[k].list), t), WithRest(q, k, Tail(q[k].list), t), t)
      BY Zenon, <1>3, <2>1, <2>2
    <2>3. k \in DOMAIN p /\ k \in DOMAIN q /\ p[k].list = q[k].list
      BY Zenon, <1>3 DEF HasType, SameObject
    <2>4. SameObject(o, u)
      BY Zenon, <1>3, <2>3, SameChanges
    <2>5. /\ [p EXCEPT ![k].list = v, ![k].lastAccessedAt = t] = [p EXCEPT ![k] = o]
          /\ [q EXCEPT ![k].list = v, ![k].lastAccessedAt = t] = [q EXCEPT ![k] = u]
      BY ZenonT(30), <1>2, <2>3 DEF Matched, GoodStore, IsStore
    <2>6. /\ WithRest(p, k, Tail(p[k].list), t) = IF v = <<>> THEN Without(p, {k}) ELSE [p EXCEPT ![k] = o]
          /\ WithRest(q, k, Tail(q[k].list), t) = IF v = <<>> THEN Without(q, {k}) ELSE [q EXCEPT ![k] = u]
      BY Zenon, <2>3, <2>5 DEF WithRest
    <2> HIDE DEF o, u, v
    <2>7. Alike(Without(p, {k}), Without(q, {k}), t)
      BY Zenon, <1>3, AlikeErase
    <2>8. Alike([p EXCEPT ![k] = o], [q EXCEPT ![k] = u], t)
      BY Zenon, <1>1, <1>3, <2>3, <2>4, AlikeSet
    <2> QED
      BY Zenon, <2>6, <2>7, <2>8
  <1>12. CASE c.name = "RENAME"
    <2> DEFINE o == [p[k] EXCEPT !.lastAccessedAt = t]
               u == [q[k] EXCEPT !.lastAccessedAt = t]
    <2>1. /\ Executed(c, a, t) = IF k \in DOMAIN p /\ k # c.arg THEN Renamed(p, k, c.arg, t) ELSE p
          /\ Executed(c, b, t) = IF k \in DOMAIN q /\ k # c.arg THEN Renamed(q, k, c.arg, t) ELSE q
      BY Zenon, <1>12 DEF Executed, p, q
    <2> SUFFICES ASSUME k \in DOMAIN p
                 PROVE  Alike(Renamed(p, k, c.arg, t), Renamed(q, k, c.arg, t), t)
      BY Zenon, <1>3, <2>1
    <2>2. SameObject(o, u)
      BY Zenon, <1>3, SameChanges
    <2>3. /\ Renamed(p, k, c.arg, t) = Without(Put(p, c.arg, o), {k})
          /\ Renamed(q, k, c.arg, t) = Without(Put(q, c.arg, u), {k})
      BY Zenon DEF Renamed
    <2> HIDE DEF o, u
    <2>4. Alike(Put(p, c.arg, o), Put(q, c.arg, u), t)
      BY Zenon, <1>3, <1>12, <2>2, CommandFields, AlikePut
    <2> QED
      BY Zenon, <2>3, <2>4, AlikeErase
  <1>13. CASE c.name = "FLUSHDB"
    BY Zenon, <1>13, AlikeSelf DEF Executed
  <1> QED
    BY Zenon, <1>4, <1>5, <1>6, <1>7, <1>8, <1>9, <1>10, <1>11, <1>12, <1>13 DEF OneStore

\* A command sent to one of several databases.
LEMMA AppliedAlike ==
  ASSUME NEW c \in Command, NEW D, NEW d \in D, NEW t \in Int,
         NEW ss, GoodStores(ss, D), NEW rr, GoodStores(rr, D), AllAlike(ss, rr, D, t)
  PROVE  AllAlike(Applied(c, d, ss, t), Applied(c, d, rr, t), D, t)
  <1>0. /\ DOMAIN ss = D /\ DOMAIN rr = D /\ c.key \in Key
        /\ \A e \in D : GoodStore(ss[e]) /\ GoodStore(rr[e]) /\ Alike(ss[e], rr[e], t)
    BY Zenon, CommandFields DEF GoodStores, AllAlike
  <1>1. CASE c.name = "FLUSHALL"
    BY Zenon, <1>0, <1>1, AlikeSelf DEF Applied, AllAlike
  <1>2. CASE c.name = "MOVE"
    <2> DEFINE k == c.key
               e == c.arg
               p == Purged(ss[d], k, t)
               q == Purged(rr[d], k, t)
               u == Purged(ss[e], k, t)
               v == Purged(rr[e], k, t)
               o1 == Touched(p, k, t)[k]
               o2 == Touched(q, k, t)[k]
               m == Put(u, k, o1)
               n == Put(v, k, o2)
    <2>1. /\ Applied(c, d, ss, t) =
               IF d = e \/ e \notin D THEN ss
               ELSE IF k \notin DOMAIN p \/ k \in DOMAIN u THEN [ss EXCEPT ![d] = p]
                    ELSE [ss EXCEPT ![d] = Without(p, {k}), ![e] = m]
          /\ Applied(c, d, rr, t) =
               IF d = e \/ e \notin D THEN rr
               ELSE IF k \notin DOMAIN q \/ k \in DOMAIN v THEN [rr EXCEPT ![d] = q]
                    ELSE [rr EXCEPT ![d] = Without(q, {k}), ![e] = n]
      BY ZenonT(30), <1>0, <1>2 DEF Applied, Moved
    <2> SUFFICES ASSUME d # e, e \in D
                 PROVE  AllAlike(Applied(c, d, ss, t), Applied(c, d, rr, t), D, t)
      BY Zenon, <2>1
    <2>2. Matched(p, q, k, t) /\ Matched(u, v, k, t)
      BY Zenon, <1>0, PurgedMatched
    <2> HIDE DEF p, q, u, v
    <2>3. /\ Alike(p, q, t) /\ Alike(u, v, t)
          /\ (k \in DOMAIN p <=> k \in DOMAIN q) /\ (k \in DOMAIN u <=> k \in DOMAIN v)
      BY Zenon, <2>2 DEF Matched
    <2>4. k \in DOMAIN p => SameObject(o1, o2)
      <3>1. Never \in Int
        BY DEF Never
      <3>2. k \in DOMAIN p => Matched(Touched(p, k, t), Touched(q, k, t), k, t)
        BY Zenon, <1>0, <2>2, <3>1, MatchedTouched
      <3>3. DOMAIN Touched(p, k, t) = DOMAIN p
        BY Zenon DEF Touched
      <3> QED
        BY Zenon, <3>2, <3>3 DEF Matched
    <2> HIDE DEF o1, o2
    <2>5. k \in DOMAIN p => Alike(m, n, t)
      BY Zenon, <1>0, <2>3, <2>4, AlikePut
    <2>6. Alike(Without(p, {k}), Without(q, {k}), t)
      BY Zenon, <2>3, AlikeErase
    <2> HIDE DEF m, n
    <2>7. CASE k \notin DOMAIN p \/ k \in DOMAIN u
      <3>1. Applied(c, d, ss, t) = [ss EXCEPT ![d] = p] /\ Applied(c, d, rr, t) = [rr EXCEPT ![d] = q]
        BY Zenon, <2>1, <2>3, <2>7
      <3> QED
        BY Zenon, <1>0, <2>3, <3>1 DEF AllAlike
    <2>8. CASE ~(k \notin DOMAIN p \/ k \in DOMAIN u)
      <3>1. /\ Applied(c, d, ss, t) = [ss EXCEPT ![d] = Without(p, {k}), ![e] = m]
            /\ Applied(c, d, rr, t) = [rr EXCEPT ![d] = Without(q, {k}), ![e] = n]
        BY Zenon, <2>1, <2>3, <2>8
      <3> QED
        BY <1>0, <2>5, <2>6, <2>8, <3>1 DEF AllAlike
    <2> QED
      BY Zenon, <2>7, <2>8
  <1>3. CASE c.name \in OneStore
    <2>1. /\ Applied(c, d, ss, t) = [ss EXCEPT ![d] = Executed(c, ss[d], t)]
          /\ Applied(c, d, rr, t) = [rr EXCEPT ![d] = Executed(c, rr[d], t)]
      BY Zenon, <1>3 DEF Applied, OneStore
    <2>2. Alike(Executed(c, ss[d], t), Executed(c, rr[d], t), t)
      BY Zenon, <1>0, <1>3, ExecutedAlike
    <2> QED
      BY Zenon, <1>0, <2>1, <2>2 DEF AllAlike
  <1> QED
    BY Zenon, <1>1, <1>2, <1>3, CommandFields

\* A command that answers "ERR ..." has changed nothing a client can see, unless
\* what it answered is an element it has popped.
LEMMA ErrKeeps ==
  ASSUME ErrElem \notin Elem, NEW c \in Command, NEW D, NEW d \in D, NEW t \in Int,
         NEW ss, GoodStores(ss, D), IsErr(c, ss[d], t)
  PROVE  AllAlike(Applied(c, d, ss, t), ss, D, t)
  <1> DEFINE k == c.key
             p == Purged(ss[d], k, t)
  <1>1. GoodStore(p) /\ Alike(p, ss[d], t)
    BY ZenonT(30), PurgedGood, AlikeWithout DEF GoodStores, Purged
  <1> HIDE DEF p
  <1>2. c.name \in {"INCR", "APPEND", "LPUSH", "LPOP", "RENAME"}
    BY Zenon DEF IsErr
  <1>3. Executed(c, ss[d], t) = p
    <2>1. CASE c.name = "LPOP"
      <3>1. k \in DOMAIN p /\ (p[k].type = "list" => Head(p[k].list) = ErrElem)
        BY Zenon, <2>1 DEF IsErr, p
      <3>2. p[k].type = "list" => p[k].list \in Seq(Elem) /\ p[k].list # <<>>
        BY Zenon, <1>1, <3>1 DEF GoodStore, IsStore, PayloadMatches, ValueObject
      <3>3. \A l \in Seq(Elem) : l # <<>> => Head(l) \in Elem
        OBVIOUS
      <3>4. ~HasType(p, k, "list")
        BY Zenon, <3>1, <3>2, <3>3 DEF HasType
      <3> QED
        BY Zenon, <2>1, <3>4 DEF Executed, p
    <2>2. CASE c.name \in {"INCR", "APPEND", "LPUSH", "RENAME"}
      BY Zenon, <2>2 DEF Executed, IsErr, p
    <2> QED
      BY Zenon, <1>2, <2>1, <2>2
  <1>4. Applied(c, d, ss, t) = [ss EXCEPT ![d] = p]
    BY Zenon, <1>2, <1>3 DEF Applied
  <1> QED
    BY Zenon, <1>1, <1>4, AlikeSelf DEF AllAlike, GoodStores

\* Chains of stores that look alike.
LEMMA AllAlikeChain ==
  ASSUME NEW D, NEW t
  PROVE  /\ \A ss : AllAlike(ss, ss, D, t)
         /\ \A ss, rr : AllAlike(ss, rr, D, t) => AllAlike(rr, ss, D, t)
         /\ \A ss, rr, uu : AllAlike(ss, rr, D, t) /\ AllAlike(rr, uu, D, t) => AllAlike(ss, uu, D, t)
  BY Zenon, AlikeSelf, AlikeSwap, AlikeVia DEF AllAlike

\* Erasing expired keys of one database.
LEMMA AllAlikeWithout ==
  ASSUME NEW D, NEW ss, DOMAIN ss = D, NEW t, NEW d \in D, NEW K \in SUBSET Expired(ss[d], t)
  PROVE  AllAlike(ss, [ss EXCEPT ![d] = Without(ss[d], K)], D, t)
  <1>1. Alike(ss[d], Without(ss[d], K), t)
    BY Zenon, AlikeWithout, AlikeSwap
  <1> QED
    BY Zenon, <1>1, AlikeSelf DEF AllAlike

-----------------------------------------------------------------------------
\* Commands that set the value and the deadline of a key outright, on a server
\* with one database.

Assignment == {c \in Command : c.name \in {"SET", "DEL", "EXPIRE", "FLUSHDB", "FLUSHALL"}}

\* The stores of a server whose only store is s.
Single(s) == [d \in 0 .. 0 |-> s]

\* What the command leaves of the store, and what replay of a log makes of it.
Assigned(c, s, t) == Applied(c, 0, Single(s), t)[0]

After(entries, s, t) == Replayed(entries, Single(s), t).stores[0]

LEMMA AssignedDef ==
  ASSUME NEW c \in Assignment, NEW s, GoodStore(s), NEW t \in Int
  PROVE  /\ Applied(c, 0, Single(s), t) = Single(Assigned(c, s, t))
         /\ Assigned(c, s, t) = IF c.name = "FLUSHALL" THEN EmptyMap ELSE Executed(c, s, t)
         /\ GoodStore(Assigned(c, s, t))
  <1>1. c \in Command /\ c.name \in {"SET", "DEL", "EXPIRE", "FLUSHDB", "FLUSHALL"}
    BY Zenon DEF Assignment
  <1>2. DOMAIN Single(s) = 0 .. 0 /\ 0 \in 0 .. 0 /\ Single(s)[0] = s /\ \A d \in 0 .. 0 : d = 0
    BY DEF Single
  <1>3. Applied(c, 0, Single(s), t) = IF c.name = "FLUSHALL" THEN [d \in 0 .. 0 |-> EmptyMap]
                                      ELSE [Single(s) EXCEPT ![0] = Executed(c, s, t)]
    BY Zenon, <1>1, <1>2 DEF Applied
  <1>4. [Single(s) EXCEPT ![0] = Executed(c, s, t)] = Single(Executed(c, s, t))
    BY Zenon, <1>2 DEF Single
  <1>5. Assigned(c, s, t) = IF c.name = "FLUSHALL" THEN EmptyMap ELSE Executed(c, s, t)
    BY Zenon, <1>2, <1>3 DEF Assigned
  <1>6. GoodStore(Assigned(c, s, t))
    BY Zenon, <1>1, <1>5, ExecutedGood, EmptyGood DEF OneStore
  <1> QED
    BY Zenon, <1>3, <1>4, <1>5, <1>6 DEF Single

LEMMA AppliedToFirst ==
  ASSUME NEW c \in Assignment, NEW ss, GoodStores(ss, 0 .. 0), NEW t \in Int
  PROVE  Applied(c, 0, ss, t)[0] = Assigned(c, ss[0], t)
  <1>1. DOMAIN ss = 0 .. 0 /\ 0 \in DOMAIN ss /\ GoodStore(ss[0])
    BY DEF GoodStores
  <1>2. Applied(c, 0, ss, t) = IF c.name = "FLUSHALL" THEN [d \in DOMAIN ss |-> EmptyMap]
                               ELSE [ss EXCEPT ![0] = Executed(c, ss[0], t)]
    BY Zenon DEF Applied, Assignment
  <1>3. Assigned(c, ss[0], t) = IF c.name = "FLUSHALL" THEN EmptyMap ELSE Executed(c, ss[0], t)
    BY Zenon, <1>1, AssignedDef
  <1> QED
    BY <1>1, <1>2, <1>3

\* Replay of such commands, one after the other.
LEMMA AfterSteps ==
  ASSUME NEW s, GoodStore(s), NEW t \in Int
  PROVE  /\ After(<<>>, s, t) = s
         /\ \A entries \in Seq(Assignment) :
              /\ GoodStore(After(entries, s, t))
              /\ \A c \in Assignment : After(Append(entries, c), s, t) = Assigned(c, After(entries, s, t), t)
  <1> DEFINE Run(entries) == Replayed(entries, Single(s), t)
             Plain(r) == \E a : GoodStore(a) /\ r = [stores |-> Single(a), db |-> 0, lost |-> 0, torn |-> NoCommand]
             T == {entries \in Seq(Assignment) : Plain(Run(entries))}
  <1>1. Run(<<>>) = [stores |-> Single(s), db |-> 0, lost |-> 0, torn |-> NoCommand]
    BY Zenon, ReplayedStart DEF Start
  <1>2. \A a : Single(a)[0] = a /\ DOMAIN Single(a) = 0 .. 0 /\ \A d \in 0 .. 0 : Single(a)[d] = a
    BY DEF Single
  <1>3. ASSUME NEW entries \in Seq(Assignment), NEW c \in Assignment, NEW a, GoodStore(a),
               Run(entries) = [stores |-> Single(a), db |-> 0, lost |-> 0, torn |-> NoCommand]
        PROVE  /\ Run(Append(entries, c)) = [stores |-> Single(Assigned(c, a, t)), db |-> 0,
                                             lost |-> 0, torn |-> NoCommand]
               /\ GoodStore(Assigned(c, a, t))
    <2> DEFINE r == Run(entries)
    <2>1. r.stores = Single(a) /\ r.db = 0 /\ r.lost = 0 /\ r.torn = NoCommand
      BY <1>3
    <2>2. GoodReplay(r, 0 .. 0)
      BY <1>2, <1>3, <2>1 DEF GoodReplay, GoodStores
    <2>3. Run(Append(entries, c)) = ReplayStep(r, c, t)
      BY ReplayedAppend
    <2> HIDE DEF r
    <2>4. c.name \notin {"torn", "SELECT"}
      BY Zenon DEF Assignment
    <2>5. ReplayStep(r, c, t) = [stores |-> Applied(c, r.db, r.stores, t), db |-> r.db,
                                 lost |-> 0, torn |-> r.torn]
      BY Zenon, <2>1, <2>2, <2>4, ReplayCommand
    <2>6. Applied(c, 0, Single(a), t) = Single(Assigned(c, a, t)) /\ GoodStore(Assigned(c, a, t))
      BY Zenon, <1>3, AssignedDef
    <2> QED
      BY Zenon, <2>1, <2>3, <2>5, <2>6
  <1> HIDE DEF Run
  <1>4. <<>> \in T
    BY <1>1
  <1>5. \A entries \in Seq(Assignment), c \in Assignment : entries \in T => Append(entries, c) \in T
    BY <1>3
  <1>6. \A entries \in Seq(Assignment) : Plain(Run(entries))
    <2> HIDE DEF Plain
    <2>1. Seq(Assignment) \subseteq T
      <3> HIDE DEF T
      <3> QED
        BY Zenon, <1>4, <1>5, SequenceInduction
    <2> QED
      BY Zenon, <2>1
  <1>7. After(<<>>, s, t) = s
    BY <1>1, <1>2 DEF After, Run
  <1>8. ASSUME NEW entries \in Seq(Assignment)
        PROVE  /\ GoodStore(After(entries, s, t))
               /\ \A c \in Assignment : After(Append(entries, c), s, t) = Assigned(c, After(entries, s, t), t)
    <2>1. PICK a : GoodStore(a) /\ Run(entries) = [stores |-> Single(a), db |-> 0, lost |-> 0, torn |-> NoCommand]
      BY Zenon, <1>6
    <2>2. After(entries, s, t) = a
      BY <1>2, <2>1 DEF After, Run
    <2>3. \A c \in Assignment : Run(Append(entries, c)).stores = Single(Assigned(c, a, t))
      BY <1>3, <2>1
    <2>4. \A c \in Assignment : After(Append(entries, c), s, t) = Assigned(c, a, t)
      BY Zenon, <1>2, <2>3 DEF After, Run
    <2> QED
      BY Zenon, <2>1, <2>2, <2>4
  <1> QED
    BY Zenon, <1>7, <1>8

\* Two objects with the same payload.
SameValue(o, q) ==
  o.value = q.value /\ o.list = q.list /\ o.hash = q.hash /\ o.set = q.set /\ o.type = q.type

\* What a SET stores.
Fresh(o, v) == o.value = <<v>> /\ o.list = <<>> /\ o.hash = EmptyMap /\ o.set = {} /\ o.type = "string"

\* What such a command, executed at time t, does to key k of a store s when it
\* makes it a: erase it, leave it, store a new object, or give the one that is
\* there a new deadline.
Effect(c, k, s, t, a) ==
  \/ /\ c.name \in {"FLUSHDB", "FLUSHALL"} \/ (c.name = "DEL" /\ c.key = k)
     /\ k \notin DOMAIN a
  \/ /\ c.name \in {"SET", "DEL", "EXPIRE"} /\ c.key # k
     /\ k \in DOMAIN a <=> k \in DOMAIN s
     /\ k \in DOMAIN s => a[k] = s[k]
  \/ /\ c.name = "SET" /\ c.key = k
     /\ k \in DOMAIN a /\ Fresh(a[k], c.arg) /\ a[k].expiresAt = Deadline(c.seconds, t)
  \/ /\ c.name = "EXPIRE" /\ c.key = k
     /\ k \in DOMAIN a <=> Lives(s, k, t)
     /\ k \in DOMAIN a => SameValue(a[k], s[k]) /\ a[k].expiresAt = t + c.seconds * Second

LEMMA AssignedKey ==
  ASSUME NEW c \in Assignment, NEW s, GoodStore(s), NEW t \in Nat, NEW k \in Key
  PROVE  Effect(c, k, s, t, Assigned(c, s, t))
  <1> DEFINE a == Assigned(c, s, t)
  <1>1. c \in Command /\ c.name \in {"SET", "DEL", "EXPIRE", "FLUSHDB", "FLUSHALL"}
    BY Zenon DEF Assignment
  <1>2. a = IF c.name = "FLUSHALL" THEN EmptyMap ELSE Executed(c, s, t)
    <2>1. t \in Int
      OBVIOUS
    <2> QED
      BY Zenon, <2>1, AssignedDef
  <1> HIDE DEF a
  <1>3. CASE c.name \in {"FLUSHDB", "FLUSHALL"}
    <2>1. a = EmptyMap
      BY Zenon, <1>2, <1>3 DEF Executed
    <2> QED
      BY Zenon, <1>3, <2>1, EmptyMapType DEF a, Effect
  <1>4. CASE c.name = "DEL"
    <2>1. a = Without(s, {c.key})
      BY Zenon, <1>2, <1>4 DEF Executed
    <2> QED
      BY Zenon, <1>4, <2>1 DEF Without, a, Effect
  <1>5. CASE c.name = "SET"
    <2> DEFINE o == [NewObject("string", t) EXCEPT !.value = <<c.arg>>, !.expiresAt = Deadline(c.seconds, t)]
    <2>1. a = Put(s, c.key, o)
      BY Zenon, <1>2, <1>5 DEF Executed, WithString
    <2>2. Fresh(o, c.arg) /\ o.expiresAt = Deadline(c.seconds, t)
      BY Zenon DEF Fresh, NewObject
    <2> HIDE DEF o
    <2> QED
      BY Zenon, <1>5, <2>1, <2>2 DEF Put, a, Effect
  <1>6. CASE c.name = "EXPIRE"
    <2> DEFINE p == Purged(s, c.key, t)
               x == t + c.seconds * Second
    <2>1. a = IF c.key \in DOMAIN p THEN WithDeadline(p, c.key, x) ELSE p
      BY Zenon, <1>2, <1>6 DEF Executed
    <2>2. /\ \A y : y \in DOMAIN p <=> y \in DOMAIN s /\ ~(y = c.key /\ isExpired(s[c.key], t))
          /\ \A y \in DOMAIN p : p[y] = s[y] /\ p[y] \in ValueObject
      BY PurgedGood DEF GoodStore, IsStore
    <2> HIDE DEF p, x
    <2>3. \A q \in ValueObject : SameValue([q EXCEPT !.expiresAt = x], q) /\ [q EXCEPT !.expiresAt = x].expiresAt = x
      BY Zenon DEF SameValue, ValueObject
    <2>4. /\ DOMAIN WithDeadline(p, c.key, x) = DOMAIN p
          /\ \A y \in DOMAIN p :
               WithDeadline(p, c.key, x)[y] = IF y = c.key THEN [p[y] EXCEPT !.expiresAt = x] ELSE p[y]
      BY Zenon DEF WithDeadline
    <2>5. CASE c.key = k
      <3>1. k \in DOMAIN a <=> Lives(s, k, t)
        BY Zenon, <2>1, <2>2, <2>4, <2>5 DEF Lives
      <3>2. k \in DOMAIN a => a[k] = [s[k] EXCEPT !.expiresAt = x] /\ s[k] \in ValueObject
        BY Zenon, <2>1, <2>2, <2>4, <2>5
      <3>3. k \in DOMAIN a => SameValue(a[k], s[k]) /\ a[k].expiresAt = x
        BY Zenon, <2>3, <3>2
      <3> QED
        BY Zenon, <1>6, <2>5, <3>1, <3>3 DEF a, x, Effect
    <2>6. CASE c.key # k
      BY Zenon, <1>6, <2>1, <2>2, <2>4, <2>6 DEF a, Effect
    <2> QED
      BY Zenon, <2>5, <2>6
  <1> QED
    BY Zenon, <1>1, <1>3, <1>4, <1>5, <1>6

-----------------------------------------------------------------------------
\* What replay at time t makes of a key, in r, against what memory has of it at
\* time n, in m.

\* The same payload; a deadline if and only if there is one, and no earlier.
Prolongs(o, q) ==
  SameValue(o, q) /\ (o.expiresAt = Never <=> q.expiresAt = Never) /\ o.expiresAt >= q.expiresAt

\* A live key is there, or may be missing; a key that is not alive in memory may
\* be there with a deadline.
Tracks(r, t, m, n, k, missing) ==
  /\ Lives(m, k, n) => \/ Lives(r, k, t) /\ Prolongs(r[k], m[k])
                       \/ missing /\ ~Lives(r, k, t)
  /\ Lives(r, k, t) /\ ~Lives(m, k, n) => r[k].expiresAt # Never

\* A live key is there, with the deadline of memory or with this one.
Keeps(r, t, m, n, k, at) ==
  Lives(m, k, n) => /\ Lives(r, k, t) /\ SameValue(r[k], m[k])
                    /\ Prolongs(r[k], m[k]) \/ r[k].expiresAt = at

\* Deadlines the two clocks give: both or neither, and the later clock a later one.
LEMMA TwoClocks ==
  ASSUME NEW n \in Nat, NEW t \in Nat, n <= t, NEW x \in Int
  PROVE  /\ Deadline(x, t) \in Int /\ Deadline(x, n) \in Int
         /\ Deadline(x, t) = Never <=> Deadline(x, n) = Never
         /\ Deadline(x, t) >= Deadline(x, n)
         /\ Deadline(x, n) # Never /\ Deadline(x, n) <= n <=> x = 0
         /\ Deadline(x, t) # Never /\ Deadline(x, t) <= t <=> x = 0
         /\ x >= 0 => Deadline(x, t) = t + x * Second /\ Deadline(x, n) = n + x * Second
                      /\ Deadline(x, t) # Never /\ Deadline(x, n) # Never
  <1>1. CASE x >= 0
    <2>1. x * Second \in Nat /\ (x * Second = 0 <=> x = 0)
      <3>1. \A y \in Nat, z \in Nat : z > 0 => y * z \in Nat /\ (y * z = 0 <=> y = 0)
        OBVIOUS
      <3> QED
        BY <1>1, <3>1, SecondAssumption
    <2> QED
      BY <1>1, <2>1 DEF Deadline, Never
  <1>2. CASE x < 0
    BY <1>2 DEF Deadline, Never
  <1> QED
    BY <1>1, <1>2

\* One more command, executed at time n in memory and at time t in replay.
LEMMA AssignTracks ==
  ASSUME NEW c \in Assignment, NEW r, GoodStore(r), NEW m, GoodStore(m), NEW n \in Nat, NEW t \in Nat,
         n <= t, NEW k \in Key, NEW missing \in BOOLEAN, Tracks(r, t, m, n, k, missing)
  PROVE  Tracks(Assigned(c, r, t), t, Assigned(c, m, n), n, k, missing)
  <1> DEFINE x == Assigned(c, r, t)
             y == Assigned(c, m, n)
  <1>1. c \in Command /\ c.seconds \in Int /\ (c.name = "EXPIRE" => c.seconds >= 0)
    BY CommandFields DEF Assignment
  <1>2. Effect(c, k, r, t, x) /\ Effect(c, k, m, n, y)
    BY Zenon, AssignedKey
  <1> HIDE DEF x, y
  <1>3. CASE c.name \in {"FLUSHDB", "FLUSHALL"} \/ (c.name = "DEL" /\ c.key = k)
    <2>1. k \notin DOMAIN x /\ k \notin DOMAIN y
      BY Zenon, <1>2, <1>3 DEF Effect
    <2> QED
      BY Zenon, <2>1 DEF Tracks, Lives, x, y
  <1>4. CASE c.name \in {"SET", "DEL", "EXPIRE"} /\ c.key # k
    <2>1. /\ k \in DOMAIN x <=> k \in DOMAIN r
          /\ k \in DOMAIN r => x[k] = r[k]
          /\ k \in DOMAIN y <=> k \in DOMAIN m
          /\ k \in DOMAIN m => y[k] = m[k]
      BY Zenon, <1>2, <1>4 DEF Effect
    <2> QED
      BY Zenon, <2>1 DEF Tracks, Lives, x, y
  <1>5. CASE c.name = "SET" /\ c.key = k
    <2>1. /\ k \in DOMAIN x /\ Fresh(x[k], c.arg) /\ x[k].expiresAt = Deadline(c.seconds, t)
          /\ k \in DOMAIN y /\ Fresh(y[k], c.arg) /\ y[k].expiresAt = Deadline(c.seconds, n)
      BY Zenon, <1>2, <1>5 DEF Effect
    <2>2. SameValue(x[k], y[k])
      BY Zenon, <2>1 DEF SameValue, Fresh
    <2>3. Prolongs(x[k], y[k]) /\ (Lives(x, k, t) <=> c.seconds # 0) /\ (Lives(y, k, n) <=> c.seconds # 0)
      BY <1>1, <2>1, <2>2, TwoClocks DEF Prolongs, Lives, isExpired
    <2> QED
      BY Zenon, <2>3 DEF Tracks, x, y
  <1>6. CASE c.name = "EXPIRE" /\ c.key = k
    <2>1. /\ k \in DOMAIN x <=> Lives(r, k, t)
          /\ k \in DOMAIN x => SameValue(x[k], r[k]) /\ x[k].expiresAt = Deadline(c.seconds, t)
          /\ k \in DOMAIN y <=> Lives(m, k, n)
          /\ k \in DOMAIN y => SameValue(y[k], m[k]) /\ y[k].expiresAt = Deadline(c.seconds, n)
      BY <1>1, <1>2, <1>6, TwoClocks DEF Effect
    <2>2. /\ Deadline(c.seconds, t) # Never /\ (Deadline(c.seconds, t) <= t <=> c.seconds = 0)
          /\ Deadline(c.seconds, n) # Never /\ (Deadline(c.seconds, n) <= n <=> c.seconds = 0)
      BY <1>1, <1>6, TwoClocks
    <2>3. /\ Lives(x, k, t) <=> Lives(r, k, t) /\ c.seconds # 0
          /\ Lives(y, k, n) <=> Lives(m, k, n) /\ c.seconds # 0
          /\ Lives(x, k, t) => x[k].expiresAt # Never
      <3>1. \A a, u : Lives(a, k, u) <=> k \in DOMAIN a /\ ~(a[k].expiresAt # Never /\ a[k].expiresAt <= u)
        BY Zenon DEF Lives, isExpired
      <3> QED
        BY Zenon, <2>1, <2>2, <3>1
    <2>4. ASSUME Lives(y, k, n), Lives(x, k, t)
          PROVE  Prolongs(x[k], y[k])
      <3>1. SameValue(r[k], m[k])
        BY Zenon, <2>3, <2>4 DEF Tracks, Prolongs
      <3>2. SameValue(x[k], y[k])
        BY Zenon, <2>1, <2>3, <2>4, <3>1 DEF SameValue
      <3> QED
        BY <1>1, <2>1, <2>3, <2>4, <3>2, TwoClocks DEF Prolongs
    <2> QED
      BY Zenon, <2>3, <2>4 DEF Tracks, x, y
  <1> QED
    BY Zenon, <1>3, <1>4, <1>5, <1>6 DEF Assignment

\* The same for a key the store replay started from has.  What a SET stores owes
\* nothing to that store.
LEMMA AssignKeeps ==
  ASSUME NEW c \in Assignment, NEW r, GoodStore(r), NEW m, GoodStore(m), NEW n \in Nat, NEW t \in Nat,
         n <= t, NEW k \in Key, NEW at, NEW o, Lives(Assigned(c, m, n), k, n),
         SameValue(o, Assigned(c, m, n)[k]),
         Lives(m, k, n) /\ SameValue(o, m[k]) => Keeps(r, t, m, n, k, at)
  PROVE  Keeps(Assigned(c, r, t), t, Assigned(c, m, n), n, k, at)
  <1> DEFINE x == Assigned(c, r, t)
             y == Assigned(c, m, n)
  <1>1. c \in Command /\ c.seconds \in Int /\ (c.name = "EXPIRE" => c.seconds >= 0)
    BY CommandFields DEF Assignment
  <1>2. Effect(c, k, r, t, x) /\ Effect(c, k, m, n, y)
    BY Zenon, AssignedKey
  <1>3. Lives(y, k, n) /\ SameValue(o, y[k])
    BY Zenon
  <1> HIDE DEF x, y
  <1>4. CASE c.name \in {"FLUSHDB", "FLUSHALL"} \/ (c.name = "DEL" /\ c.key = k)
    BY Zenon, <1>2, <1>3, <1>4 DEF Effect, Lives
  <1>5. CASE c.name \in {"SET", "DEL", "EXPIRE"} /\ c.key # k
    <2>1. /\ k \in DOMAIN x <=> k \in DOMAIN r
          /\ k \in DOMAIN r => x[k] = r[k]
          /\ k \in DOMAIN y <=> k \in DOMAIN m
          /\ k \in DOMAIN m => y[k] = m[k]
      BY Zenon, <1>2, <1>5 DEF Effect
    <2>2. Lives(m, k, n) /\ y[k] = m[k]
      BY Zenon, <1>3, <2>1 DEF Lives
    <2> QED
      BY Zenon, <1>3, <2>1, <2>2 DEF Keeps, Lives, x, y
  <1>6. CASE c.name = "SET" /\ c.key = k
    <2>1. /\ k \in DOMAIN x /\ Fresh(x[k], c.arg) /\ x[k].expiresAt = Deadline(c.seconds, t)
          /\ k \in DOMAIN y /\ Fresh(y[k], c.arg) /\ y[k].expiresAt = Deadline(c.seconds, n)
      BY Zenon, <1>2, <1>6 DEF Effect
    <2>2. SameValue(x[k], y[k])
      BY Zenon, <2>1 DEF SameValue, Fresh
    <2>3. Prolongs(x[k], y[k]) /\ Lives(x, k, t)
      BY SMTT(30), <1>1, <1>3, <2>1, <2>2, TwoClocks DEF Prolongs, Lives, isExpired
    <2> QED
      BY Zenon, <2>2, <2>3 DEF Keeps, x, y
  <1>7. CASE c.name = "EXPIRE" /\ c.key = k
    <2>1. /\ k \in DOMAIN x <=> Lives(r, k, t)
          /\ k \in DOMAIN x => SameValue(x[k], r[k]) /\ x[k].expiresAt = Deadline(c.seconds, t)
          /\ k \in DOMAIN y <=> Lives(m, k, n)
          /\ k \in DOMAIN y => SameValue(y[k], m[k]) /\ y[k].expiresAt = Deadline(c.seconds, n)
      BY SMTT(30), <1>1, <1>2, <1>7, TwoClocks DEF Effect
    <2>2. Lives(m, k, n) /\ SameValue(o, m[k])
      BY Zenon, <1>3, <2>1 DEF Lives, SameValue
    <2>3. Lives(r, k, t) /\ SameValue(r[k], m[k])
      BY SMTT(30), <2>2 DEF Keeps
    <2>4. SameValue(x[k], y[k])
      BY SMTT(30), <2>1, <2>2, <2>3 DEF SameValue
    <2>5. Prolongs(x[k], y[k]) /\ Lives(x, k, t)
      BY <1>1, <1>3, <2>1, <2>2, <2>3, <2>4, TwoClocks DEF Prolongs, Lives, isExpired
    <2> QED
      BY Zenon, <2>4, <2>5 DEF Keeps, x, y
  <1> QED
    BY Zenon, <1>4, <1>5, <1>6, <1>7 DEF Assignment

\* Time and expiry: memory m at time n has become q at time l.
LEMMA TracksLater ==
  ASSUME NEW m, GoodStore(m), NEW q, NEW n \in Nat, NEW l \in Nat, n <= l, Alike(m, q, l),
         NEW r, NEW t, NEW k \in Key
  PROVE  /\ Lives(q, k, l) => Lives(m, k, n) /\ SameValue(m[k], q[k])
         /\ \A missing \in BOOLEAN : Tracks(r, t, m, n, k, missing) => Tracks(r, t, q, l, k, missing)
         /\ \A at : Keeps(r, t, m, n, k, at) => Keeps(r, t, q, l, k, at)
  <1>1. k \in DOMAIN m => m[k].expiresAt \in Int
    BY Zenon DEF GoodStore, IsStore, ValueObject
  <1>2. /\ Lives(m, k, l) <=> Lives(q, k, l)
        /\ Lives(q, k, l) => /\ SameValue(m[k], q[k]) /\ m[k].expiresAt = q[k].expiresAt
                             /\ Lives(m, k, n) /\ \A o : SameValue(o, m[k]) => SameValue(o, q[k])
                             /\ \A o : Prolongs(o, m[k]) => Prolongs(o, q[k])
    <2>1. /\ Lives(m, k, l) <=> Lives(q, k, l)
          /\ Lives(q, k, l) => SameObject(m[k], q[k])
      BY Zenon DEF Alike
    <2>2. Lives(m, k, l) => Lives(m, k, n)
      BY <1>1 DEF Lives, isExpired
    <2>3. SameObject(m[k], q[k]) =>
            /\ SameValue(m[k], q[k]) /\ m[k].expiresAt = q[k].expiresAt
            /\ \A o : SameValue(o, m[k]) => SameValue(o, q[k])
            /\ \A o : Prolongs(o, m[k]) => Prolongs(o, q[k])
      BY ZenonT(30) DEF SameObject, SameValue, Prolongs
    <2> QED
      BY Zenon, <2>1, <2>2, <2>3
  <1>3. Lives(m, k, n) /\ ~Lives(q, k, l) => m[k].expiresAt # Never
    BY Zenon, <1>2 DEF Lives, isExpired
  <1>4. ASSUME NEW missing \in BOOLEAN, Tracks(r, t, m, n, k, missing)
        PROVE  Tracks(r, t, q, l, k, missing)
    <2>1. Lives(r, k, t) /\ ~Lives(q, k, l) => r[k].expiresAt # Never
      BY Zenon, <1>3, <1>4 DEF Tracks, Prolongs
    <2> QED
      BY Zenon, <1>2, <1>4, <2>1 DEF Tracks
  <1>5. ASSUME NEW at, Keeps(r, t, m, n, k, at)
        PROVE  Keeps(r, t, q, l, k, at)
    BY Zenon, <1>2, <1>5 DEF Keeps
  <1> QED
    BY Zenon, <1>2, <1>4, <1>5

-----------------------------------------------------------------------------
\* What the log and the snapshot are worth.

\* A start at any time from n on, with the store x in the snapshot, brings back
\* memory m; keys whose deadline in the snapshot has passed may be missing.
Recovers(entries, x, m, n) ==
  \A t \in Nat : n <= t =>
    \A k \in Key : Tracks(After(entries, loadSnapshot(x, t), t), t, m, n, k, k \in Expired(x, t))

\* So it would with any snapshot of memory in the place of that one: the log
\* brings back a key on its own or leaves it as the snapshot has it.
Rebuilds(entries, m, n) ==
  \A t \in Nat : n <= t => \A b \in StoreSet, k \in Key :
    /\ k \notin DOMAIN b => Tracks(After(entries, b, t), t, m, n, k, TRUE)
    /\ Lives(b, k, t) /\ Lives(m, k, n) /\ SameValue(b[k], m[k]) =>
         Keeps(After(entries, b, t), t, m, n, k, b[k].expiresAt)

\* The empty log leaves everything to the snapshot.
LEMMA RebuildsNothing ==
  ASSUME NEW m, NEW n \in Nat
  PROVE  Rebuilds(<<>>, m, n)
  <1> SUFFICES ASSUME NEW t \in Nat, NEW b \in StoreSet, NEW k \in Key
               PROVE  /\ k \notin DOMAIN b => Tracks(After(<<>>, b, t), t, m, n, k, TRUE)
                      /\ Lives(b, k, t) /\ Lives(m, k, n) /\ SameValue(b[k], m[k]) =>
                           Keeps(After(<<>>, b, t), t, m, n, k, b[k].expiresAt)
    BY Zenon DEF Rebuilds
  <1>1. After(<<>>, b, t) = b
    <2>1. GoodStore(b) /\ t \in Int
      BY StoreSetDef
    <2> QED
      BY Zenon, <2>1, AfterSteps
  <1> QED
    BY Zenon, <1>1 DEF Tracks, Keeps, Lives

\* A snapshot of memory and a log that rebuilds it.
LEMMA SnapshotRecovers ==
  ASSUME NEW entries, NEW x, GoodStore(x), NEW m, GoodStore(m), NEW n \in Nat,
         Rebuilds(entries, m, n), Alike(x, m, n)
  PROVE  Recovers(entries, x, m, n)
  <1> SUFFICES ASSUME NEW t \in Nat, n <= t, NEW k \in Key
               PROVE  Tracks(After(entries, loadSnapshot(x, t), t), t, m, n, k, k \in Expired(x, t))
    BY Zenon DEF Recovers
  <1> DEFINE b == loadSnapshot(x, t)
             r == After(entries, b, t)
  <1>1. /\ b \in StoreSet /\ DOMAIN b = DOMAIN x \ Expired(x, t)
        /\ k \in DOMAIN b => Lives(b, k, t) /\ SameObject(b[k], x[k])
    <2>1. t \in Int
      OBVIOUS
    <2>2. GoodStore(b) /\ DOMAIN b = DOMAIN x \ Expired(x, t) /\ Alike(b, x, t)
      BY Zenon, <2>1, ImageGood, AlikeImage
    <2> HIDE DEF b
    <2>3. k \in DOMAIN b => Lives(b, k, t)
      BY Zenon, <2>2 DEF Alike, Lives, Expired
    <2> QED
      BY Zenon, <2>2, <2>3, StoreSetDef DEF Alike
  <1>2. /\ k \notin DOMAIN b => Tracks(r, t, m, n, k, TRUE)
        /\ Lives(b, k, t) /\ Lives(m, k, n) /\ SameValue(b[k], m[k]) => Keeps(r, t, m, n, k, b[k].expiresAt)
    BY Zenon, <1>1 DEF Rebuilds
  <1> HIDE DEF b, r
  <1>3. /\ Lives(m, k, n) <=> Lives(x, k, n)
        /\ Lives(m, k, n) => SameObject(x[k], m[k])
    BY Zenon DEF Alike
  <1>4. /\ k \in DOMAIN x => x[k].expiresAt \in Int
        /\ k \in DOMAIN m => m[k].expiresAt \in Int
    BY Zenon DEF GoodStore, IsStore, ValueObject
  <1>5. CASE Lives(m, k, n) /\ k \in DOMAIN b
    <2>1. SameValue(b[k], m[k]) /\ b[k].expiresAt = m[k].expiresAt
      BY Zenon, <1>1, <1>3, <1>5 DEF SameObject, SameValue
    <2>2. Keeps(r, t, m, n, k, m[k].expiresAt)
      BY Zenon, <1>1, <1>2, <1>5, <2>1
    <2>3. Lives(r, k, t) /\ Prolongs(r[k], m[k])
      BY SMTT(30), <1>4, <1>5, <2>2 DEF Keeps, Prolongs, Lives
    <2> QED
      BY Zenon, <1>5, <2>3 DEF Tracks, r, b
  <1>6. CASE Lives(m, k, n) /\ k \notin DOMAIN b
    <2>1. k \in Expired(x, t)
      BY SMTT(30), <1>1, <1>3, <1>6 DEF Lives
    <2> QED
      BY SMTT(30), <1>2, <1>6, <2>1 DEF Tracks, r, b
  <1>7. CASE ~Lives(m, k, n)
    <2>1. k \notin DOMAIN b
      BY <1>1, <1>3, <1>4, <1>7 DEF Lives, isExpired, Expired
    <2> QED
      BY SMTT(30), <1>2, <1>7, <2>1 DEF Tracks, r, b
  <1> QED
    BY Zenon, <1>5, <1>6, <1>7

\* One more command, in memory and in the log.
LEMMA RecoversAppend ==
  ASSUME NEW entries \in Seq(Assignment), NEW c \in Assignment, NEW x, GoodStore(x), NEW m, GoodStore(m),
         NEW n \in Nat
  PROVE  /\ Recovers(entries, x, m, n) => Recovers(Append(entries, c), x, Assigned(c, m, n), n)
         /\ Rebuilds(entries, m, n) => Rebuilds(Append(entries, c), Assigned(c, m, n), n)
  <1> DEFINE more == Append(entries, c)
             q == Assigned(c, m, n)
  <1>1. ASSUME NEW b, GoodStore(b), NEW t \in Nat
        PROVE  After(more, b, t) = Assigned(c, After(entries, b, t), t) /\ GoodStore(After(entries, b, t))
    <2>1. t \in Int
      OBVIOUS
    <2> QED
      BY Zenon, <1>1, <2>1, AfterSteps
  <1>2. ASSUME Recovers(entries, x, m, n)
        PROVE  Recovers(more, x, q, n)
    <2> SUFFICES ASSUME NEW t \in Nat, n <= t, NEW k \in Key
                 PROVE  Tracks(After(more, loadSnapshot(x, t), t), t, q, n, k, k \in Expired(x, t))
      BY Zenon DEF Recovers
    <2> DEFINE b == loadSnapshot(x, t)
               missing == k \in Expired(x, t)
    <2>1. GoodStore(b)
      <3>1. t \in Int
        OBVIOUS
      <3> QED
        BY Zenon, <3>1, ImageGood
    <2>2. Tracks(After(entries, b, t), t, m, n, k, missing)
      BY Zenon, <1>2 DEF Recovers
    <2>3. missing \in BOOLEAN
      OBVIOUS
    <2> HIDE DEF b, missing
    <2>4. Tracks(After(more, b, t), t, q, n, k, missing)
      <3> HIDE DEF more
      <3>1. GoodStore(After(entries, b, t)) /\ After(more, b, t) = Assigned(c, After(entries, b, t), t)
        BY Zenon, <1>1, <2>1
      <3> QED
        BY Zenon, <2>2, <2>3, <3>1, AssignTracks
    <2> QED
      BY Zenon, <2>4 DEF b, missing
  <1>3. ASSUME Rebuilds(entries, m, n)
        PROVE  Rebuilds(more, q, n)
    <2> SUFFICES ASSUME NEW t \in Nat, n <= t, NEW b \in StoreSet, NEW k \in Key
                 PROVE  /\ k \notin DOMAIN b => Tracks(After(more, b, t), t, q, n, k, TRUE)
                        /\ Lives(b, k, t) /\ Lives(q, k, n) /\ SameValue(b[k], q[k]) =>
                             Keeps(After(more, b, t), t, q, n, k, b[k].expiresAt)
      BY Zenon DEF Rebuilds
    <2> DEFINE r == After(entries, b, t)
    <2>1. GoodStore(r) /\ After(more, b, t) = Assigned(c, r, t)
      BY Zenon, <1>1, StoreSetDef
    <2>2. /\ k \notin DOMAIN b => Tracks(r, t, m, n, k, TRUE)
          /\ Lives(b, k, t) /\ Lives(m, k, n) /\ SameValue(b[k], m[k]) => Keeps(r, t, m, n, k, b[k].expiresAt)
      BY Zenon, <1>3 DEF Rebuilds
    <2> HIDE DEF r, more
    <2>3. ASSUME k \notin DOMAIN b
          PROVE  Tracks(After(more, b, t), t, q, n, k, TRUE)
      <3>1. TRUE \in BOOLEAN
        BY Zenon
      <3> QED
        BY Zenon, <2>1, <2>2, <2>3, <3>1, AssignTracks
    <2>4. ASSUME Lives(b, k, t), Lives(q, k, n), SameValue(b[k], q[k])
          PROVE  Keeps(After(more, b, t), t, q, n, k, b[k].expiresAt)
      BY Zenon, <2>1, <2>2, <2>4, AssignKeeps
    <2> QED
      BY Zenon, <2>3, <2>4
  <1> QED
    BY Zenon, <1>2, <1>3

\* Time and expiry.
LEMMA RecoversLater ==
  ASSUME NEW entries, NEW x, NEW m, GoodStore(m), NEW q, NEW n \in Nat, NEW l \in Nat, n <= l,
         Alike(m, q, l)
  PROVE  /\ Recovers(entries, x, m, n) => Recovers(entries, x, q, l)
         /\ Rebuilds(entries, m, n) => Rebuilds(entries, q, l)
  <1>1. \A t \in Nat : l <= t => n <= t
    OBVIOUS
  <1>2. ASSUME Recovers(entries, x, m, n)
        PROVE  Recovers(entries, x, q, l)
    <2> SUFFICES ASSUME NEW t \in Nat, l <= t, NEW k \in Key
                 PROVE  Tracks(After(entries, loadSnapshot(x, t), t), t, q, l, k, k \in Expired(x, t))
      BY Zenon DEF Recovers
    <2> DEFINE r == After(entries, loadSnapshot(x, t), t)
               missing == k \in Expired(x, t)
    <2>1. Tracks(r, t, m, n, k, missing)
      BY Zenon, <1>1, <1>2 DEF Recovers
    <2>2. missing \in BOOLEAN
      OBVIOUS
    <2> HIDE DEF r, missing
    <2>3. Tracks(r, t, q, l, k, missing)
      BY <2>1, <2>2, TracksLater
    <2> QED
      BY Zenon, <2>3 DEF r, missing
  <1>3. ASSUME Rebuilds(entries, m, n)
        PROVE  Rebuilds(entries, q, l)
    <2> SUFFICES ASSUME NEW t \in Nat, l <= t, NEW b \in StoreSet, NEW k \in Key
                 PROVE  /\ k \notin DOMAIN b => Tracks(After(entries, b, t), t, q, l, k, TRUE)
                        /\ Lives(b, k, t) /\ Lives(q, k, l) /\ SameValue(b[k], q[k]) =>
                             Keeps(After(entries, b, t), t, q, l, k, b[k].expiresAt)
      BY Zenon DEF Rebuilds
    <2> DEFINE r == After(entries, b, t)
    <2>1. /\ k \notin DOMAIN b => Tracks(r, t, m, n, k, TRUE)
          /\ Lives(b, k, t) /\ Lives(m, k, n) /\ SameValue(b[k], m[k]) => Keeps(r, t, m, n, k, b[k].expiresAt)
      BY Zenon, <1>1, <1>3 DEF Rebuilds
    <2> HIDE DEF r
    <2>2. /\ Lives(q, k, l) => Lives(m, k, n) /\ SameValue(m[k], q[k])
          /\ Tracks(r, t, m, n, k, TRUE) => Tracks(r, t, q, l, k, TRUE)
          /\ \A at : Keeps(r, t, m, n, k, at) => Keeps(r, t, q, l, k, at)
      <3>1. TRUE \in BOOLEAN
        BY Zenon
      <3> QED
        BY Zenon, <3>1, TracksLater
    <2>3. SameValue(b[k], q[k]) /\ SameValue(m[k], q[k]) => SameValue(b[k], m[k])
      BY Zenon DEF SameValue
    <2> QED
      BY Zenon, <2>1, <2>2, <2>3 DEF r
  <1> QED
    BY Zenon, <1>2, <1>3

\* What a start reads back and replays is what later starts bring back.
LEMMA StartRecovers ==
  ASSUME NEW x, GoodStore(x), NEW n \in Nat
  PROVE  \A entries \in Seq(Assignment) :
           /\ Recovers(entries, x, After(entries, loadSnapshot(x, n), n), n)
           /\ Rebuilds(entries, After(entries, loadSnapshot(x, n), n), n)
  <1> DEFINE b == loadSnapshot(x, n)
             Fine(entries) == /\ Recovers(entries, x, After(entries, b, n), n)
                              /\ Rebuilds(entries, After(entries, b, n), n)
             T == {entries \in Seq(Assignment) : Fine(entries)}
  <1>1. n \in Int
    OBVIOUS
  <1>2. GoodStore(b) /\ Alike(x, b, n)
    BY Zenon, <1>1, ImageGood, AlikeImage, AlikeSwap
  <1> HIDE DEF b
  <1>3. After(<<>>, b, n) = b
    BY Zenon, <1>1, <1>2, AfterSteps
  <1>4. ASSUME NEW entries \in Seq(Assignment), NEW c \in Assignment
        PROVE  /\ GoodStore(After(entries, b, n))
               /\ After(Append(entries, c), b, n) = Assigned(c, After(entries, b, n), n)
    BY Zenon, <1>1, <1>2, AfterSteps
  <1>5. Fine(<<>>)
    BY Zenon, <1>2, <1>3, RebuildsNothing, SnapshotRecovers
  <1>6. ASSUME NEW entries \in Seq(Assignment), NEW c \in Assignment, Fine(entries)
        PROVE  Fine(Append(entries, c))
    BY Zenon, <1>4, <1>6, RecoversAppend
  <1> HIDE DEF Fine
  <1>7. <<>> \in T
    BY <1>5
  <1>8. \A entries \in Seq(Assignment), c \in Assignment : entries \in T => Append(entries, c) \in T
    BY <1>6
  <1>9. Seq(Assignment) \subseteq T
    <2> HIDE DEF T
    <2> QED
      BY Zenon, <1>7, <1>8, SequenceInduction
  <1> QED
    BY Zenon, <1>9 DEF Fine, b

\* What clients see of two such stores.
LEMMA SeenTracks ==
  ASSUME NEW r, GoodStore(r), NEW m, GoodStore(m), NEW x, NEW t,
         \A k \in Key : Tracks(r, t, m, t, k, k \in Expired(x, t))
  PROVE  LET a == Seen(r, t)
             b == Seen(m, t)
         IN /\ \A k \in DOMAIN b \ DOMAIN a : k \in Expired(x, t)
            /\ \A k \in DOMAIN b \cap DOMAIN a :
                 /\ a[k] = [b[k] EXCEPT !.expiresAt = a[k].expiresAt]
                 /\ a[k].expiresAt = Never <=> b[k].expiresAt = Never
                 /\ a[k].expiresAt >= b[k].expiresAt
            /\ \A k \in DOMAIN a \ DOMAIN b : a[k].expiresAt # Never
  <1> DEFINE a == Seen(r, t)
             b == Seen(m, t)
             Face(o) == [value |-> o.value, list |-> o.list, hash |-> o.hash, set |-> o.set, type |-> o.type,
                         createdAt |-> Never, expiresAt |-> o.expiresAt, lastAccessedAt |-> Never]
  <1>1. \A s : GoodStore(s) =>
          /\ \A k : k \in DOMAIN Seen(s, t) <=> k \in Key /\ Lives(s, k, t)
          /\ \A k \in DOMAIN Seen(s, t) : Seen(s, t)[k] = Face(s[k])
    <2> SUFFICES ASSUME NEW s, GoodStore(s)
                 PROVE  /\ \A k : k \in DOMAIN Seen(s, t) <=> k \in Key /\ Lives(s, k, t)
                        /\ \A k \in DOMAIN Seen(s, t) : Seen(s, t)[k] = Face(s[k])
      BY Zenon
    <2>1. DOMAIN s \subseteq Key /\ \A k \in DOMAIN s : s[k] \in ValueObject
      BY Zenon DEF GoodStore, IsStore
    <2>2. \A k : k \in DOMAIN Seen(s, t) <=> k \in Key /\ Lives(s, k, t)
      BY Zenon, <2>1 DEF Seen, Lives, Expired
    <2>3. \A k \in DOMAIN Seen(s, t) :
            Seen(s, t)[k] = [s[k] EXCEPT !.createdAt = Never, !.lastAccessedAt = Never] /\ k \in DOMAIN s
      BY Zenon DEF Seen
    <2>4. \A k \in DOMAIN s : [s[k] EXCEPT !.createdAt = Never, !.lastAccessedAt = Never] = Face(s[k])
      BY Zenon, <2>1, WithoutTimes
    <2> HIDE DEF Face
    <2> QED
      BY Zenon, <2>2, <2>3, <2>4
  <1>2. /\ \A k : k \in DOMAIN a <=> k \in Key /\ Lives(r, k, t)
        /\ \A k : k \in DOMAIN b <=> k \in Key /\ Lives(m, k, t)
        /\ \A k \in DOMAIN a : a[k] = Face(r[k])
        /\ \A k \in DOMAIN b : b[k] = Face(m[k])
    BY Zenon, <1>1
  <1>3. \A o : Face(o).expiresAt = o.expiresAt
    BY Zenon
  <1>4. \A o, q : SameValue(o, q) => Face(o) = [Face(q) EXCEPT !.expiresAt = o.expiresAt]
    BY DEF SameValue
  <1> HIDE DEF a, b, Face
  <1>5. \A k \in DOMAIN b \ DOMAIN a : k \in Expired(x, t)
    BY Zenon, <1>2 DEF Tracks
  <1>6. \A k \in DOMAIN a \ DOMAIN b : a[k].expiresAt # Never
    BY ZenonT(30), <1>2, <1>3 DEF Tracks
  <1>7. \A k \in DOMAIN b \cap DOMAIN a : Prolongs(r[k], m[k])
    BY Zenon, <1>2 DEF Tracks
  <1>8. ASSUME NEW k \in DOMAIN b \cap DOMAIN a
        PROVE  /\ a[k] = [b[k] EXCEPT !.expiresAt = a[k].expiresAt]
               /\ a[k].expiresAt = Never <=> b[k].expiresAt = Never
               /\ a[k].expiresAt >= b[k].expiresAt
    <2>1. a[k] = Face(r[k]) /\ b[k] = Face(m[k]) /\ SameValue(r[k], m[k])
      BY Zenon, <1>2, <1>7 DEF Prolongs
    <2>2. a[k].expiresAt = r[k].expiresAt /\ b[k].expiresAt = m[k].expiresAt
      BY Zenon, <1>3, <2>1
    <2>3. a[k] = [b[k] EXCEPT !.expiresAt = a[k].expiresAt]
      BY <1>4, <2>1, <2>2
    <2>4. Prolongs(r[k], m[k])
      BY Zenon, <1>7
    <2> QED
      BY Zenon, <2>2, <2>3, <2>4 DEF Prolongs
  <1> QED
    BY Zenon, <1>5, <1>6, <1>8 DEF a, b

-----------------------------------------------------------------------------
\* The process and its files.

\* Saves cannot overlap: the mutex of AofPersistence, or a single saver.
Alone == This.aofEnabled \/ \A s, t \in This.savers : s = t

-----------------------------------------------------------------------------
\* Facts about operators.

\* A snapshot file of so many stores, none of them mixed with another's bytes.
Sound(file, n) ==
  /\ file = [count |-> file.count, sections |-> file.sections, mangled |-> {}]
  /\ Len(file.sections) = n

\* A stream at the end of its file appends one store to it.
LEMMA WrittenAtEnd ==
  ASSUME NEW file, NEW n \in Nat, Sound(file, n), NEW store, NEW after \in Written(file, n, store)
  PROVE  /\ Sound(after, n + 1) /\ after.count = file.count
         /\ after.sections[n + 1] = store
         /\ \A i \in 1 .. n : after.sections[i] = file.sections[i]
  <1> DEFINE kept == [i \in 1 .. n + 1 |->
                        IF i = n + 1 THEN store ELSE IF i <= n THEN file.sections[i] ELSE EmptyMap]
  <1>1. Max({n, n + 1}) = n + 1
    BY MaxOfTwo
  <1>2. (n + 1 .. n) = {}
    OBVIOUS
  <1>3. ({} \cup (n + 1 .. n)) \ {n + 1} = {}
    BY Zenon, <1>2
  <1>4. file.mangled = {} /\ Len(file.sections) = n /\ n <= n
    BY DEF Sound
  <1>5. after \in {[file EXCEPT !.sections = kept, !.mangled = bad] : bad \in {{}}}
    BY ZenonT(30), <1>1, <1>3, <1>4 DEF Written
  <1>6. after = [file EXCEPT !.sections = kept, !.mangled = {}]
    BY Zenon, <1>5
  <1>7. /\ Len(kept) = n + 1 /\ kept[n + 1] = store
        /\ \A i \in 1 .. n : kept[i] = file.sections[i]
    OBVIOUS
  <1> HIDE DEF kept
  <1>8. after = [count |-> file.count, sections |-> kept, mangled |-> {}]
    BY Zenon, <1>6 DEF Sound
  <1> QED
    BY Zenon, <1>7, <1>8 DEF Sound

-----------------------------------------------------------------------------
\* The saves under way, and why they do not meet.  With the log on they are
\* within the phase "save" of whoever holds the mutex.

Saving == {s \in Saver : saving[s] # NotSaving}

\* A save nobody disturbs: its stream is open on the temporary file, which holds
\* the stores it has written and nothing else, and it is the only one.
Undisturbed(s) ==
  /\ saving[s].target = "temp" /\ saving[s].written \in 0 .. databases
  /\ Sound(tempFile, saving[s].written) /\ tempFile.count = databases
  /\ Saving = {s}

SaveTypes ==
  /\ setup \in DOMAIN Setups /\ databases \in Nat
  /\ saving \in [Saver -> [written : Nat, target : {"closed", "temp", "final", "unlinked"}]]
  /\ Saving \subseteq This.savers

SaveInv ==
  /\ SaveTypes
  /\ Saving # {} => up /\ (This.aofEnabled => phase = "save")
  /\ Alone => (\A s \in Saving : Undisturbed(s)) /\ SnapshotComplete

\* What the assumptions say of the situation.
LEMMA ThisSetup ==
  ASSUME setup \in DOMAIN Setups
  PROVE  /\ This.databases \subseteq Nat /\ 0 \notin This.databases /\ This.savers \subseteq Saver
         /\ This.aofEnabled \in BOOLEAN /\ This.commands \subseteq Command
  <1>1. This \in Setup
    BY Zenon, PersistenceAssumption DEF This
  <1> QED
    BY Zenon, <1>1 DEF Setup

\* When saves cannot overlap there is at most one.
LEMMA OneSaver ==
  ASSUME SaveTypes, Alone, ~This.aofEnabled, NEW s \in This.savers, NEW t \in This.savers
  PROVE  s = t
  BY Zenon DEF Alone

\* At the start nothing is saved and there is no file.
LEMMA InitSaveInv == Init => SaveInv
  <1> SUFFICES ASSUME Init
               PROVE  SaveInv
    BY Zenon
  <1>1. setup \in DOMAIN Setups /\ databases \in Nat
    BY Zenon, ThisSetup DEF Init
  <1>2. Saving = {}
    BY Zenon DEF Init, Saving
  <1>3. saving \in [Saver -> [written : Nat, target : {"closed", "temp", "final", "unlinked"}]]
    BY Zenon DEF Init, NotSaving
  <1>4. SnapshotComplete
    BY Zenon DEF Init, SnapshotComplete, Complete, NoFile
  <1> QED
    BY Zenon, <1>1, <1>2, <1>3, <1>4 DEF SaveInv, SaveTypes

\* A step that leaves the files and the savers alone.
LEMMA FilesAlone ==
  ASSUME SaveInv, UNCHANGED <<setup, databases, files, saving>>,
         Saving # {} => up' /\ (This.aofEnabled => phase' = "save")
  PROVE  SaveInv'
  <1>1. UNCHANGED <<setup, databases, saving, snapshotFile, tempFile>>
    BY Zenon DEF files
  <1>2. UNCHANGED <<This, Saving, Alone, SnapshotComplete>>
    BY Zenon, <1>1 DEF This, Saving, Alone, SnapshotComplete, Complete
  <1>3. \A s \in Saver : Undisturbed(s) => Undisturbed(s)'
    BY Zenon, <1>1, <1>2 DEF Undisturbed, Sound
  <1> QED
    BY Zenon, <1>1, <1>2, <1>3 DEF SaveInv, SaveTypes, Saving

\* A step after which nobody saves.
LEMMA NobodySaves ==
  ASSUME SaveInv, setup' = setup, databases' \in Nat,
         saving' = [s \in Saver |-> NotSaving], UNCHANGED snapshotFile
  PROVE  SaveInv'
  <1>1. Saving' = {}
    BY Zenon DEF Saving
  <1>2. UNCHANGED <<This, Alone, SnapshotComplete>>
    BY Zenon DEF This, Alone, SnapshotComplete, Complete
  <1>3. saving' \in [Saver -> [written : Nat, target : {"closed", "temp", "final", "unlinked"}]]
    BY Zenon DEF NotSaving
  <1> QED
    BY Zenon, <1>1, <1>2, <1>3 DEF SaveInv, SaveTypes

\* The step of one saver within its save, as the others see it.
LEMMA SaverSteps ==
  ASSUME SaveTypes, NEW s \in Saver, NEW x \in [written : Nat, target : {"closed", "temp", "final", "unlinked"}],
         saving' = [saving EXCEPT ![s] = x]
  PROVE  /\ saving' \in [Saver -> [written : Nat, target : {"closed", "temp", "final", "unlinked"}]]
         /\ saving'[s] = x
         /\ Saving' = IF x = NotSaving THEN Saving \ {s} ELSE Saving \cup {s}
  BY Zenon DEF SaveTypes, Saving

\* The temporary file is truncated; when saves cannot overlap nobody had it open.
LEMMA BeginSaveInv ==
  ASSUME SaveInv, NEW s \in This.savers, SaveBegin(s)
  PROVE  SaveInv'
  <1> DEFINE x == [written |-> 0, target |-> "temp"]
  <1>1. /\ up /\ saving[s] = NotSaving /\ MayBegin
        /\ phase' = (IF This.aofEnabled THEN "save" ELSE "idle")
        /\ tempFile' = [count |-> databases, sections |-> <<>>, mangled |-> {}]
        /\ saving' = [saving EXCEPT ![s] = x]
        /\ UNCHANGED <<setup, up, databases, snapshotFile>>
    BY Zenon DEF SaveBegin, process
  <1>2. s \in Saver /\ SaveTypes
    BY Zenon, ThisSetup DEF SaveInv, SaveTypes
  <1>3. x # NotSaving /\ x \in [written : Nat, target : {"closed", "temp", "final", "unlinked"}]
    BY Zenon DEF NotSaving
  <1>4. /\ saving' \in [Saver -> [written : Nat, target : {"closed", "temp", "final", "unlinked"}]]
        /\ saving'[s] = x /\ Saving' = Saving \cup {s}
    BY Zenon, <1>1, <1>2, <1>3, SaverSteps
  <1>5. UNCHANGED <<This, Alone, SnapshotComplete>>
    BY Zenon, <1>1 DEF This, Alone, SnapshotComplete, Complete
  <1>6. SaveTypes'
    BY Zenon, <1>1, <1>2, <1>4, <1>5 DEF SaveTypes
  <1>7. ASSUME Alone
        PROVE  Undisturbed(s)' /\ Saving' = {s}
    <2>1. Saving = {}
      <3>1. CASE This.aofEnabled
        BY Zenon, <1>1, <3>1 DEF MayBegin, SaveInv
      <3>2. CASE ~This.aofEnabled
        <4>1. \A t \in Saving : t = s
          BY Zenon, <1>2, <1>7, <3>2, OneSaver DEF SaveTypes
        <4> QED
          BY Zenon, <1>1, <4>1 DEF Saving
      <3> QED
        BY Zenon, <3>1, <3>2
    <2>2. Saving' = {s}
      BY Zenon, <1>4, <2>1
    <2>3. Sound(tempFile', 0) /\ tempFile'.count = databases
      BY Zenon, <1>1 DEF Sound
    <2>4. databases' = databases /\ databases \in Nat
      BY Zenon, <1>1, <1>2 DEF SaveTypes
    <2> HIDE DEF Sound
    <2> QED
      BY <1>4, <2>2, <2>3, <2>4 DEF Undisturbed
  <1> QED
    BY Zenon, <1>1, <1>5, <1>6, <1>7 DEF SaveInv

\* The store is appended to what the save has written.
LEMMA StoreSaveInv ==
  ASSUME SaveInv, NEW s \in This.savers, SaveStore(s)
  PROVE  SaveInv'
  <1> DEFINE n == saving[s].written
             x == [saving[s] EXCEPT !.written = n + 1]
  <1>1. s \in Saver /\ SaveTypes
    BY Zenon, ThisSetup DEF SaveInv, SaveTypes
  <1>2. /\ saving[s] # NotSaving /\ n \in Db
        /\ saving' = [saving EXCEPT ![s] = x]
        /\ UNCHANGED <<setup, up, databases, phase>>
    BY Zenon, <1>1 DEF SaveStore, process, lock, SaveTypes
  <1>3. n \in Nat /\ saving[s] \in [written : Nat, target : {"closed", "temp", "final", "unlinked"}]
    BY Zenon, <1>1 DEF SaveTypes
  <1>4. /\ x \in [written : Nat, target : {"closed", "temp", "final", "unlinked"}]
        /\ x.written = n + 1 /\ x.target = saving[s].target /\ x # NotSaving
    BY <1>3 DEF NotSaving
  <1>5. s \in Saving
    BY Zenon, <1>1, <1>2 DEF Saving
  <1> HIDE DEF x
  <1>6. /\ saving' \in [Saver -> [written : Nat, target : {"closed", "temp", "final", "unlinked"}]]
        /\ saving'[s] = x /\ Saving' = Saving
    <2>1. /\ saving' \in [Saver -> [written : Nat, target : {"closed", "temp", "final", "unlinked"}]]
          /\ saving'[s] = x
          /\ Saving' = IF x = NotSaving THEN Saving \ {s} ELSE Saving \cup {s}
      BY Zenon, <1>1, <1>2, <1>4, SaverSteps
    <2> QED
      BY <1>4, <1>5, <2>1
  <1>7. UNCHANGED <<This, Alone>>
    BY Zenon, <1>2 DEF This, Alone
  <1>8. SaveTypes'
    BY Zenon, <1>1, <1>2, <1>6, <1>7 DEF SaveTypes
  <1>9. ASSUME Alone
        PROVE  (\A t \in Saving' : Undisturbed(t)') /\ SnapshotComplete'
    <2>1. Undisturbed(s) /\ SnapshotComplete
      BY Zenon, <1>5, <1>9 DEF SaveInv
    <2>2. snapshotFile' = snapshotFile /\ \E store : tempFile' \in Written(tempFile, n, store)
      BY Zenon, <2>1 DEF SaveStore, Undisturbed
    <2>3. Sound(tempFile', n + 1) /\ tempFile'.count = databases
      BY <1>3, <2>1, <2>2, WrittenAtEnd DEF Undisturbed
    <2>4. n + 1 \in 0 .. databases
      BY <1>1, <1>2 DEF Db, SaveTypes
    <2>5. Saving' = {s}
      BY Zenon, <1>6, <2>1 DEF Undisturbed
    <2>6. Undisturbed(s)'
      BY Zenon, <1>2, <1>4, <1>6, <2>1, <2>3, <2>4, <2>5 DEF Undisturbed
    <2> QED
      BY Zenon, <2>1, <2>2, <2>5, <2>6 DEF SnapshotComplete
  <1> QED
    BY Zenon, <1>2, <1>6, <1>7, <1>8, <1>9 DEF SaveInv

\* A save gives up, or its file takes the place of the snapshot.
LEMMA EndSaveInv ==
  ASSUME SaveInv, NEW s \in This.savers, SaveFails(s) \/ SaveRename(s)
  PROVE  SaveInv'
  <1>1. s \in Saver /\ SaveTypes
    BY Zenon, ThisSetup DEF SaveInv, SaveTypes
  <1>2. /\ s \in Saving /\ UNCHANGED <<setup, up, databases>>
        /\ saving' = [saving EXCEPT ![s] = NotSaving] \/ saving' = Retargeted(s)
    BY Zenon, <1>1 DEF SaveFails, SaveRename, Saving, process
  <1>3. /\ saving' \in [Saver -> [written : Nat, target : {"closed", "temp", "final", "unlinked"}]]
        /\ Saving' \subseteq Saving \ {s}
    <2>1. CASE saving' = [saving EXCEPT ![s] = NotSaving]
      BY Zenon, <1>1, <2>1, SaverSteps DEF NotSaving
    <2>2. CASE saving' = Retargeted(s)
      <3>1. /\ saving'[s] = NotSaving
            /\ \A t \in Saver \ {s} :
                 saving'[t] \in {saving[t], [saving[t] EXCEPT !.target = "final"],
                                 [saving[t] EXCEPT !.target = "unlinked"]}
        BY Zenon, <1>1, <2>2 DEF Retargeted
      <3>2. \A t \in Saver \ {s} : saving[t] = NotSaving => saving'[t] = NotSaving
        BY <2>2 DEF Retargeted, NotSaving
      <3>3. saving' = [t \in Saver |-> saving'[t]]
        BY Zenon, <2>2 DEF Retargeted
      <3>4. \A t \in Saver :
              saving'[t] \in [written : Nat, target : {"closed", "temp", "final", "unlinked"}]
        BY <1>1, <3>1 DEF SaveTypes, NotSaving
      <3> QED
        BY Zenon, <3>1, <3>2, <3>3, <3>4 DEF Saving
    <2> QED
      BY Zenon, <1>2, <2>1, <2>2
  <1>4. UNCHANGED <<This, Alone>>
    BY Zenon, <1>2 DEF This, Alone
  <1>5. SaveTypes'
    BY Zenon, <1>1, <1>2, <1>3, <1>4 DEF SaveTypes
  <1>6. ASSUME Alone
        PROVE  Saving' = {} /\ SnapshotComplete'
    <2>1. Undisturbed(s) /\ SnapshotComplete
      BY Zenon, <1>2, <1>6 DEF SaveInv
    <2>2. Saving' = {}
      BY Zenon, <1>3, <2>1 DEF Undisturbed
    <2>3. CASE SaveFails(s)
      <3>1. snapshotFile' = snapshotFile
        BY Zenon, <2>3 DEF SaveFails
      <3>2. UNCHANGED SnapshotComplete
        BY Zenon, <3>1 DEF SnapshotComplete, Complete
      <3> QED
        BY Zenon, <2>1, <2>2, <3>2
    <2>4. CASE SaveRename(s)
      <3>1. snapshotFile' = tempFile /\ saving[s].written = databases
        BY Zenon, <2>4 DEF SaveRename
      <3>2. tempFile.mangled = {}
        BY <2>1 DEF Undisturbed, Sound
      <3>3. Len(tempFile.sections) = tempFile.count
        BY Zenon, <2>1, <3>1 DEF Undisturbed, Sound
      <3> QED
        BY Zenon, <2>2, <3>1, <3>2, <3>3 DEF SnapshotComplete, Complete
    <2> QED
      BY Zenon, <2>2, <2>3, <2>4
  <1>7. Saving' # {} => up' /\ ~This.aofEnabled
    BY Zenon, <1>2, <1>6 DEF Alone, SaveInv
  <1> QED
    BY Zenon, <1>4, <1>5, <1>6, <1>7 DEF SaveInv

\* Every step keeps a save that cannot overlap with another undisturbed.
LEMMA NextSaveInv == SaveInv /\ [Next]_vars => SaveInv'
  <1> SUFFICES ASSUME SaveInv, [Next]_vars
               PROVE  SaveInv'
    BY Zenon
  <1>1. CASE UNCHANGED vars
    BY Zenon, <1>1, FilesAlone DEF SaveInv, vars, process, lock
  <1>2. ASSUME NEW c \in This.commands, NEW d \in Db, ExecuteCommand(c, d)
        PROVE  SaveInv'
    BY Zenon, <1>2, FilesAlone DEF ExecuteCommand, SaveInv, process, lock
  <1>3. CASE AppendCommand \/ AppendFails
    BY Zenon, <1>3, FilesAlone DEF AppendCommand, AppendFails, SaveInv, process
  <1>4. CASE Truncate \/ TruncateFails
    BY Zenon, <1>4, FilesAlone DEF Truncate, TruncateFails, SaveInv, process
  <1>5. ASSUME NEW s \in This.savers, RenameThrows(s)
        PROVE  SaveInv'
    BY Zenon, <1>5, NobodySaves DEF RenameThrows, Dies, SaveInv, SaveTypes
  <1>6. CASE Crash
    BY Zenon, <1>6, NobodySaves DEF Crash, Dies, SaveInv, SaveTypes
  <1>7. CASE Restart
    <2>1. Saving = {}
      BY Zenon, <1>7 DEF Restart, SaveInv
    <2>2. setup' = setup /\ databases' \in Nat /\ UNCHANGED <<saving, snapshotFile>>
      BY Zenon, <1>7, ThisSetup DEF Restart, files, SaveInv, SaveTypes
    <2>3. saving' = [s \in Saver |-> NotSaving]
      BY Zenon, <2>1, <2>2 DEF Saving, SaveInv, SaveTypes
    <2> QED
      BY Zenon, <2>2, <2>3, NobodySaves
  <1>8. CASE StartRefused
    BY Zenon, <1>1, <1>8 DEF StartRefused
  <1>9. ASSUME Tick \/ \E d \in Db, k \in Key : DropExpired(d, k)
        PROVE  SaveInv'
    BY ZenonT(30), <1>9, FilesAlone DEF Tick, DropExpired, SaveInv, process, lock
  <1> QED
    BY Zenon, <1>1, <1>2, <1>3, <1>4, <1>5, <1>6, <1>7, <1>8, <1>9, BeginSaveInv, StoreSaveInv, EndSaveInv
       DEF Next

\* With the log on, or with a single saver, a crash never finds half a snapshot
\* where a start would read it: for any number of databases, and whatever
\* writes, truncations and renames have failed before.
THEOREM SnapshotAlwaysComplete == Spec => []OneSaverAtATime
  <1>1. SaveInv => OneSaverAtATime
    BY Zenon DEF SaveInv, Alone, OneSaverAtATime
  <1> QED
    BY <1>1, InitSaveInv, NextSaveInv, PTL DEF Spec

-----------------------------------------------------------------------------
\* Types: good stores everywhere, and entries that replay knows.

\* A missing file and a new one are files.
LEMMA NewFile ==
  ASSUME NEW n \in Nat
  PROVE  LET file == [count |-> n, sections |-> <<>>, mangled |-> {}]
         IN GoodFile(file) /\ file.count = n
  BY DEF GoodFile

\* A stream that is behind the end, at the end or beyond the end of its file
\* leaves a file of good stores, as long as it writes no more stores than the
\* header announces.
LEMMA WrittenGood ==
  ASSUME NEW file, GoodFile(file), NEW n \in Nat, n < file.count,
         NEW store, GoodStore(store), NEW after \in Written(file, n, store)
  PROVE  GoodFile(after) /\ after.count = file.count
  <1> DEFINE m == Len(file.sections)
             l == IF m <= n + 1 THEN n + 1 ELSE m
             kept == [i \in 1 .. l |->
                        IF i = n + 1 THEN store ELSE IF i <= m THEN file.sections[i] ELSE EmptyMap]
             mixed == (file.mangled \cup (m + 1 .. n)) \ {n + 1}
  <1>1. /\ m \in Nat /\ m <= file.count /\ file.count \in Nat /\ file.sections \in Seq(StoreSet)
        /\ file = [count |-> file.count, sections |-> file.sections, mangled |-> file.mangled]
        /\ file.mangled \subseteq 1 .. m
    BY DEF GoodFile
  <1>2. Max({m, n + 1}) = l /\ l \in Nat /\ n + 1 <= l /\ m <= l /\ l <= file.count
    <2>1. m \in Int /\ n + 1 \in Int
      BY <1>1
    <2>2. Max({m, n + 1}) = l
      BY Zenon, <2>1, MaxOfTwo
    <2> QED
      BY <1>1, <2>2
  <1>3. mixed \subseteq 1 .. l /\ mixed \cup (n + 2 .. m) \subseteq 1 .. l
    BY <1>1, <1>2
  <1>4. store \in StoreSet /\ EmptyMap \in StoreSet /\ \A i \in 1 .. m : file.sections[i] \in StoreSet
    BY <1>1, StoreSetDef, EmptyGood
  <1>5. kept \in Seq(StoreSet) /\ Len(kept) = l /\ DOMAIN kept = 1 .. l
    BY SMTT(30), <1>1, <1>2, <1>4
  <1>6. \E bad \in {mixed, mixed \cup (n + 2 .. m)} :
          after = [file EXCEPT !.sections = kept, !.mangled = bad]
    BY ZenonT(30), <1>2 DEF Written
  <1> HIDE DEF kept, mixed
  <1>7. PICK bad \in {mixed, mixed \cup (n + 2 .. m)} :
          after = [file EXCEPT !.sections = kept, !.mangled = bad]
    BY Zenon, <1>6
  <1>8. after = [count |-> file.count, sections |-> kept, mangled |-> bad]
    BY Zenon, <1>1, <1>7
  <1> QED
    BY Zenon, <1>1, <1>2, <1>3, <1>5, <1>7, <1>8 DEF GoodFile

\* Every entry the run can log is one replay knows.
LEMMA EntryType ==
  ASSUME setup \in DOMAIN Setups
  PROVE  Entry \subseteq LogEntry
  <1>1. This.commands \subseteq Command /\ This.databases \subseteq Nat
    BY Zenon, ThisSetup
  <1>2. UNION {0 .. n - 1 : n \in This.databases} \subseteq Nat
    BY <1>1
  <1>3. \A c : TornFrames(c) \subseteq TornEntry
    BY <1>1, PersistenceAssumption DEF TornFrames, TornEntry
  <1> QED
    BY Zenon, <1>1, <1>2, <1>3 DEF Entry, LogEntry

MemoryInv ==
  /\ up \in BOOLEAN /\ databases \in This.databases /\ now \in Nat /\ crashes \in Nat
  /\ GoodStores(stores, Db)

LogInv == aof \in Seq(Entry) /\ currentAppendDatabase \in Db

\* A stream finds the file it is open on, with the header it wrote.
OpenOn(s) ==
  /\ saving[s].written <= databases
  /\ saving[s].target = "temp" => tempFile.count = databases
  /\ saving[s].target = "final" => snapshotFile.count = databases

FileInv ==
  /\ GoodFile(snapshotFile) /\ snapshotFile.count \in This.databases \cup {0}
  /\ GoodFile(tempFile) /\ tempFile.count \in This.databases \cup {0}
  /\ \A s \in Saver : OpenOn(s)

LockInv ==
  /\ phase \in {"idle", "append", "save", "truncate"}
  /\ ~up \/ ~This.aofEnabled => phase = "idle"
  /\ phase = "append" =>
       inFlight.command \in This.commands /\ inFlight.db \in Db /\ GoodStores(inFlight.before, Db)

TypeInv == SaveInv /\ MemoryInv /\ LogInv /\ FileInv /\ LockInv

\* The databases of the process.
LEMMA DbFacts ==
  ASSUME SaveInv, databases \in This.databases
  PROVE  databases \in Nat /\ databases > 0 /\ 0 \in Db /\ Db \subseteq Nat
  BY ThisSetup DEF SaveInv, SaveTypes, Db

\* The types hold at the start.
LEMMA InitTypeInv == Init => TypeInv
  <1> SUFFICES ASSUME Init
               PROVE  TypeInv
    BY Zenon
  <1>1. SaveInv
    BY Zenon, InitSaveInv
  <1>2. databases \in This.databases /\ 0 \in Db /\ databases \in Nat
    BY Zenon, <1>1, DbFacts DEF Init
  <1>3. MemoryInv
    BY Zenon, <1>2, EmptyGood DEF Init, MemoryInv, GoodStores, Empty
  <1>4. LogInv
    BY <1>2 DEF Init, LogInv
  <1>5. GoodFile(NoFile) /\ NoFile.count = 0
    BY Zenon, NewFile DEF NoFile
  <1>6. \A s \in Saver : OpenOn(s)
    BY <1>2 DEF Init, OpenOn, NotSaving
  <1>7. FileInv
    BY Zenon, <1>5, <1>6 DEF Init, FileInv
  <1> QED
    BY Zenon, <1>1, <1>3, <1>4, <1>7 DEF TypeInv, LockInv, Init

\* A step that leaves the files alone, the log alone, the lock alone.
LEMMA FilesFrame ==
  ASSUME FileInv, UNCHANGED <<setup, databases, snapshotFile, tempFile, saving>>
  PROVE  FileInv'
  BY Zenon DEF FileInv, OpenOn, This

LEMMA LogFrame ==
  ASSUME LogInv, UNCHANGED <<setup, databases, aof, currentAppendDatabase>>
  PROVE  LogInv'
  BY DEF LogInv, Entry, TornFrames, This, Db

LEMMA LockFrame ==
  ASSUME LockInv, UNCHANGED <<setup, databases, up, phase, inFlight>>
  PROVE  LockInv'
  BY Zenon DEF LockInv, This, Db

\* The situation never changes, and so neither do the entries it can log.
LEMMA SameSetup ==
  ASSUME [Next]_vars
  PROVE  setup' = setup /\ This' = This /\ Entry' = Entry
  <1>1. setup' = setup
    <2>1. CASE UNCHANGED vars
      BY Zenon, <2>1 DEF vars, process
    <2>2. CASE Next
      BY ZenonT(30), <2>2 DEF Next, ExecuteCommand, AppendCommand, AppendFails, SaveBegin, SaveStore, SaveFails,
                  SaveRename, RenameThrows, Truncate, TruncateFails, Dies, Crash, Restart,
                  StartRefused, DropExpired, Tick, vars, process
    <2> QED
      BY Zenon, <2>1, <2>2
  <1> QED
    BY <1>1 DEF This, Entry, TornFrames

\* What an append writes are entries, and so is what it leaves when it fails.
LEMMA EntriesType ==
  ASSUME TypeInv, phase = "append"
  PROVE  Entries \in Seq(Entry) /\ PartialEntries \subseteq Seq(Entry)
  <1>1. inFlight.command \in Entry /\ Select(inFlight.db) \in Entry
    <2>1. inFlight.db \in 0 .. databases - 1 /\ databases \in This.databases
      BY Zenon DEF TypeInv, LockInv, MemoryInv, Db
    <2> QED
      BY Zenon, <2>1 DEF TypeInv, LockInv, Entry
  <1>2. /\ Entries \in Seq(Entry)
        /\ \A n \in 1 .. Len(Entries) : Entries[n] \in {inFlight.command, Select(inFlight.db)}
    BY <1>1 DEF Entries
  <1>3. TornFrames(inFlight.command) \subseteq Entry /\ TornFrames(Select(inFlight.db)) \subseteq Entry
    <2>1. TornFrames(Select(inFlight.db)) = TornFrames(Select(0))
      BY Zenon DEF TornFrames, Select
    <2>2. inFlight.command \in This.commands
      BY Zenon DEF TypeInv, LockInv
    <2> QED
      BY Zenon, <2>1, <2>2 DEF Entry
  <1> DEFINE N == 0 .. Len(Entries) - 1
  <1>4. \A n \in N : /\ SubSeq(Entries, 1, n) \in Seq(Entry)
                     /\ Entries[n + 1] \in {inFlight.command, Select(inFlight.db)}
    BY <1>2
  <1>5. \A n \in N : \A frame \in TornFrames(Entries[n + 1]) :
          Append(SubSeq(Entries, 1, n), frame) \in Seq(Entry)
    <2> SUFFICES ASSUME NEW n \in N, NEW frame \in TornFrames(Entries[n + 1])
                 PROVE  Append(SubSeq(Entries, 1, n), frame) \in Seq(Entry)
      BY Zenon
    <2>1. frame \in Entry
      BY Zenon, <1>3, <1>4
    <2>2. SubSeq(Entries, 1, n) \in Seq(Entry)
      BY Zenon, <1>4
    <2> QED
      BY <2>1, <2>2
  <1>6. PartialEntries =
          {SubSeq(Entries, 1, n) : n \in N} \cup
          UNION {{Append(SubSeq(Entries, 1, n), frame) : frame \in TornFrames(Entries[n + 1])} : n \in N}
    BY Zenon DEF PartialEntries
  <1> HIDE DEF N
  <1>7. PartialEntries \subseteq Seq(Entry)
    <2> SUFFICES ASSUME NEW written \in PartialEntries
                 PROVE  written \in Seq(Entry)
      BY Zenon
    <2>1. \/ \E n \in N : written = SubSeq(Entries, 1, n)
          \/ \E n \in N : \E frame \in TornFrames(Entries[n + 1]) :
               written = Append(SubSeq(Entries, 1, n), frame)
      BY ZenonT(30), <1>6
    <2> QED
      BY Zenon, <1>4, <1>5, <2>1
  <1> QED
    BY Zenon, <1>2, <1>7

\* Commands, appends and truncations keep the types.
LEMMA CommandTypes ==
  ASSUME TypeInv, SaveInv', setup' = setup,
         \/ \E c \in This.commands, d \in Db : ExecuteCommand(c, d)
         \/ AppendCommand \/ AppendFails \/ Truncate \/ TruncateFails
  PROVE  TypeInv'
  <1>1. UNCHANGED <<setup, up, databases, now, crashes, snapshotFile, tempFile, saving>>
    BY ZenonT(30) DEF ExecuteCommand, AppendCommand, AppendFails, Truncate, TruncateFails, process, files
  <1>2. FileInv'
    BY Zenon, <1>1, FilesFrame DEF TypeInv
  <1>3. This' = This /\ Entry' = Entry /\ Db' = Db /\ 0 \in Db
    BY <1>1, DbFacts DEF This, Entry, TornFrames, Db, TypeInv, MemoryInv
  <1>4. ASSUME NEW c \in This.commands, NEW d \in Db, ExecuteCommand(c, d)
        PROVE  MemoryInv' /\ LogInv' /\ LockInv'
    <2>1. c \in Command /\ GoodStores(stores, Db) /\ now \in Int /\ This.aofEnabled \in BOOLEAN
      BY ThisSetup DEF TypeInv, SaveInv, SaveTypes, MemoryInv
    <2>2. stores' = Applied(c, d, stores, now) /\ UNCHANGED <<aof, currentAppendDatabase>> /\ up
      BY Zenon, <1>4 DEF ExecuteCommand, log
    <2>3. GoodStores(stores', Db)
      BY Zenon, <2>1, <2>2, AppliedGood
    <2>4. MemoryInv'
      BY Zenon, <1>1, <1>3, <2>3 DEF TypeInv, MemoryInv
    <2>5. \/ phase' = phase /\ inFlight' = inFlight
          \/ /\ phase' = "append" /\ This.aofEnabled
             /\ inFlight' = [command |-> c, db |-> d, before |-> stores]
      BY Zenon, <1>4, <2>1 DEF ExecuteCommand, lock
    <2>6. LockInv'
      <3>1. CASE phase' = phase /\ inFlight' = inFlight
        BY Zenon, <1>1, <3>1, LockFrame DEF TypeInv
      <3>2. CASE /\ phase' = "append" /\ This.aofEnabled
                 /\ inFlight' = [command |-> c, db |-> d, before |-> stores]
        BY Zenon, <1>1, <1>3, <2>1, <2>2, <3>2 DEF LockInv
      <3> QED
        BY Zenon, <2>5, <3>1, <3>2
    <2> QED
      BY ZenonT(30), <1>1, <2>2, <2>4, <2>6, LogFrame DEF TypeInv
  <1>5. ASSUME AppendCommand \/ AppendFails
        PROVE  MemoryInv' /\ LogInv' /\ LockInv'
    <2>1. phase = "append" /\ stores' = stores /\ phase' = "idle"
      BY Zenon, <1>5 DEF AppendCommand, AppendFails
    <2>2. inFlight.db \in Db /\ Entries \in Seq(Entry) /\ PartialEntries \subseteq Seq(Entry)
      BY Zenon, <2>1, EntriesType DEF TypeInv, LockInv
    <2>3. \/ UNCHANGED <<aof, currentAppendDatabase>>
          \/ \E written \in Seq(Entry) : aof' = aof \o written /\ currentAppendDatabase' = inFlight.db
      BY ZenonT(30), <1>5, <2>2 DEF AppendCommand, AppendFails, log
    <2>4. aof' \in Seq(Entry) /\ currentAppendDatabase' \in Db
      <3>1. aof \in Seq(Entry) /\ currentAppendDatabase \in Db
        BY Zenon DEF TypeInv, LogInv
      <3>2. \A written \in Seq(Entry) : aof \o written \in Seq(Entry)
        BY <3>1
      <3> QED
        BY Zenon, <2>2, <2>3, <3>1, <3>2
    <2>5. LogInv'
      BY Zenon, <1>3, <2>4 DEF LogInv
    <2> QED
      BY Zenon, <1>1, <1>3, <2>1, <2>5 DEF TypeInv, MemoryInv, LockInv
  <1>6. ASSUME Truncate \/ TruncateFails
        PROVE  MemoryInv' /\ LogInv' /\ LockInv'
    <2>1. stores' = stores /\ phase' = "idle" /\ aof' \in {aof, <<>>} /\ currentAppendDatabase' = 0
      BY Zenon, <1>6 DEF Truncate, TruncateFails
    <2>2. aof' \in Seq(Entry) /\ currentAppendDatabase' \in Db
      <3>1. aof \in Seq(Entry) /\ <<>> \in Seq(Entry)
        BY DEF TypeInv, LogInv
      <3> QED
        BY Zenon, <1>3, <2>1, <3>1
    <2>3. LogInv'
      BY Zenon, <1>3, <2>2 DEF LogInv
    <2> QED
      BY Zenon, <1>1, <1>3, <2>1, <2>3 DEF TypeInv, MemoryInv, LockInv
  <1> QED
    BY Zenon, <1>2, <1>4, <1>5, <1>6 DEF TypeInv

\* So do the steps of a saver.
LEMMA SaverTypes ==
  ASSUME TypeInv, SaveInv', setup' = setup, NEW s \in This.savers,
         SaveBegin(s) \/ SaveStore(s) \/ SaveFails(s) \/ SaveRename(s)
  PROVE  TypeInv'
  <1>1. UNCHANGED <<setup, up, databases, now, crashes, aof, currentAppendDatabase, inFlight>>
    BY ZenonT(30) DEF SaveBegin, SaveStore, SaveFails, SaveRename, process, log, lock
  <1>2. LogInv'
    BY Zenon, <1>1, LogFrame DEF TypeInv
  <1>3. This' = This /\ Db' = Db /\ databases \in Nat /\ databases \in This.databases
    BY Zenon, <1>1, DbFacts DEF This, Db, TypeInv, MemoryInv
  <1>4. s \in Saver /\ SaveTypes /\ up /\ This.aofEnabled \in BOOLEAN
    BY Zenon, ThisSetup DEF TypeInv, SaveInv, SaveTypes, Saving, SaveBegin, SaveStore, SaveFails, SaveRename
  <1>5. LockInv'
    <2>1. \/ phase' = phase \/ phase' = "idle"
          \/ phase' \in {"save", "truncate"} /\ This.aofEnabled
      BY Zenon, <1>4 DEF SaveBegin, SaveStore, SaveFails, SaveRename, lock
    <2> QED
      BY Zenon, <1>1, <1>3, <1>4, <2>1 DEF LockInv, TypeInv
  <1>6. CASE SaveBegin(s)
    <2> DEFINE x == [written |-> 0, target |-> "temp"]
               new == [count |-> databases, sections |-> <<>>, mangled |-> {}]
    <2>1. /\ stores' = stores /\ snapshotFile' = snapshotFile /\ tempFile' = new
          /\ saving' = [saving EXCEPT ![s] = x]
      BY Zenon, <1>6 DEF SaveBegin
    <2>2. GoodFile(tempFile') /\ tempFile'.count = databases
      BY Zenon, <1>3, <2>1, NewFile
    <2> HIDE DEF new
    <2>3. \A q \in Saver : saving'[q] = IF q = s THEN x ELSE saving[q]
      BY Zenon, <1>4, <2>1 DEF SaveTypes
    <2>4. \A q \in Saver : OpenOn(q)'
      BY SMTT(30), <1>1, <1>3, <2>1, <2>2, <2>3 DEF OpenOn, TypeInv, FileInv
    <2>5. FileInv'
      BY Zenon, <1>3, <2>1, <2>2, <2>4 DEF FileInv, TypeInv
    <2> QED
      BY Zenon, <1>1, <1>2, <1>3, <1>5, <2>1, <2>5 DEF TypeInv, MemoryInv
  <1>7. CASE SaveStore(s)
    <2> DEFINE n == saving[s].written
               live == Without(stores[n], Expired(stores[n], now))
    <2>1. /\ n \in Db /\ stores' = [stores EXCEPT ![n] = live]
          /\ saving' = [saving EXCEPT ![s].written = n + 1]
          /\ tempFile' \in IF saving[s].target = "temp"
                           THEN Written(tempFile, n, Image(live)) ELSE {tempFile}
          /\ snapshotFile' \in IF saving[s].target = "final"
                               THEN Written(snapshotFile, n, Image(live)) ELSE {snapshotFile}
      BY Zenon, <1>7 DEF SaveStore
    <2>2. GoodStore(live) /\ GoodStore(Image(live))
      <3>1. GoodStore(stores[n]) /\ 0 \in Int
        BY <2>1 DEF TypeInv, MemoryInv, GoodStores
      <3> QED
        BY Zenon, <3>1, GoodWithout, ImageGood
    <2> HIDE DEF live
    <2>3. GoodStores(stores', Db)
      BY Zenon, <2>1, <2>2 DEF TypeInv, MemoryInv, GoodStores
    <2>4. n \in Nat /\ n < databases /\ OpenOn(s)
      BY <1>3, <1>4, <2>1 DEF Db, TypeInv, FileInv
    <2>5. GoodFile(tempFile') /\ tempFile'.count = tempFile.count
      BY Zenon, <2>1, <2>2, <2>4, WrittenGood DEF OpenOn, TypeInv, FileInv
    <2>6. GoodFile(snapshotFile') /\ snapshotFile'.count = snapshotFile.count
      BY Zenon, <2>1, <2>2, <2>4, WrittenGood DEF OpenOn, TypeInv, FileInv
    <2>7. \A q \in Saver : /\ saving'[q].target = saving[q].target
                           /\ saving'[q].written = IF q = s THEN n + 1 ELSE saving[q].written
      BY Zenon, <1>4, <2>1 DEF SaveTypes
    <2>8. \A q \in Saver : OpenOn(q)'
      <3>1. \A q \in Saver : OpenOn(q)
        BY Zenon DEF TypeInv, FileInv
      <3> QED
        BY SMTT(30), <1>1, <1>3, <2>4, <2>5, <2>6, <2>7, <3>1 DEF OpenOn
    <2>9. FileInv'
      BY Zenon, <1>3, <2>5, <2>6, <2>8 DEF FileInv, TypeInv
    <2> QED
      BY Zenon, <1>1, <1>2, <1>3, <1>5, <2>3, <2>9 DEF TypeInv, MemoryInv
  <1>8. CASE SaveFails(s)
    <2>1. /\ stores' = stores /\ snapshotFile' = snapshotFile
          /\ saving' = [saving EXCEPT ![s] = NotSaving]
          /\ tempFile' = IF \A q \in Saver : saving'[q] = NotSaving THEN NoFile ELSE tempFile
      BY Zenon, <1>8 DEF SaveFails
    <2>2. GoodFile(NoFile) /\ NoFile.count = 0
      BY Zenon, NewFile DEF NoFile
    <2>3. \A q \in Saver : saving'[q] = IF q = s THEN NotSaving ELSE saving[q]
      BY Zenon, <1>4, <2>1 DEF SaveTypes
    <2>4. NotSaving.target = "closed" /\ NotSaving.written = 0
      BY Zenon DEF NotSaving
    <2>5. \A q \in Saver : OpenOn(q)
      BY Zenon DEF TypeInv, FileInv
    <2>6. \A q \in Saver : OpenOn(q)'
      <3>1. CASE \A q \in Saver : saving'[q] = NotSaving
        BY SMTT(30), <1>1, <1>3, <2>4, <3>1 DEF OpenOn
      <3>2. CASE ~ \A q \in Saver : saving'[q] = NotSaving
        <4>1. tempFile' = tempFile
          BY Zenon, <2>1, <3>2
        <4> QED
          BY SMTT(30), <1>1, <1>3, <2>1, <2>3, <2>4, <2>5, <4>1 DEF OpenOn
      <3> QED
        BY Zenon, <3>1, <3>2
    <2>7. FileInv'
      BY Zenon, <1>3, <2>1, <2>2, <2>6 DEF FileInv, TypeInv
    <2> QED
      BY Zenon, <1>1, <1>2, <1>3, <1>5, <2>1, <2>7 DEF TypeInv, MemoryInv
  <1>9. CASE SaveRename(s)
    <2>1. /\ stores' = stores /\ snapshotFile' = tempFile /\ tempFile' = NoFile
          /\ saving' = Retargeted(s)
      BY Zenon, <1>9 DEF SaveRename
    <2>2. GoodFile(NoFile) /\ NoFile.count = 0
      BY Zenon, NewFile DEF NoFile
    <2>3. \A q \in Saver :
            /\ saving'[q].written \in {saving[q].written, 0}
            /\ saving'[q].target # "temp"
            /\ saving'[q].target = "final" => saving[q].target = "temp"
      <3> SUFFICES ASSUME NEW q \in Saver
                   PROVE  /\ saving'[q].written \in {saving[q].written, 0}
                          /\ saving'[q].target # "temp"
                          /\ saving'[q].target = "final" => saving[q].target = "temp"
        BY Zenon
      <3>1. saving[q] \in [written : Nat, target : {"closed", "temp", "final", "unlinked"}]
        BY Zenon, <1>4 DEF SaveTypes
      <3>2. saving'[q] = CASE q = s -> NotSaving
                           [] q # s /\ saving[q].target = "temp" -> [saving[q] EXCEPT !.target = "final"]
                           [] q # s /\ saving[q].target = "final" -> [saving[q] EXCEPT !.target = "unlinked"]
                           [] OTHER -> saving[q]
        BY Zenon, <2>1 DEF Retargeted
      <3> QED
        BY <3>1, <3>2 DEF NotSaving
    <2>4. \A q \in Saver : OpenOn(q)'
      <3>1. \A q \in Saver : OpenOn(q)
        BY Zenon DEF TypeInv, FileInv
      <3> QED
        BY SMTT(30), <1>1, <1>3, <2>1, <2>3, <3>1 DEF OpenOn
    <2>5. FileInv'
      BY Zenon, <1>3, <2>1, <2>2, <2>4 DEF FileInv, TypeInv
    <2> QED
      BY Zenon, <1>1, <1>2, <1>3, <1>5, <2>1, <2>5 DEF TypeInv, MemoryInv
  <1> QED
    BY Zenon, <1>6, <1>7, <1>8, <1>9

\* A process that dies leaves the log, perhaps with part of an append, and the
\* snapshot file.
LEMMA DeathTypes ==
  ASSUME TypeInv, SaveInv', setup' = setup, Crash \/ \E s \in This.savers : RenameThrows(s)
  PROVE  TypeInv'
  <1>0. /\ Dies
        /\ crashes' = crashes \/ crashes' = crashes + 1
        /\ aof' = aof \/ (phase = "append" /\ \E written \in PartialEntries : aof' = aof \o written)
    BY ZenonT(30) DEF Crash, RenameThrows
  <1>1. /\ up' = FALSE /\ stores' = Empty /\ saving' = [s \in Saver |-> NotSaving]
        /\ tempFile' = NoFile /\ phase' = "idle"
        /\ UNCHANGED <<setup, databases, now, currentAppendDatabase, snapshotFile>>
    BY Zenon, <1>0 DEF Dies
  <1>2. This' = This /\ Entry' = Entry /\ Db' = Db /\ databases \in Nat
    BY <1>1, DbFacts DEF This, Entry, TornFrames, Db, TypeInv, MemoryInv
  <1>3. MemoryInv'
    <2>1. GoodStores(stores', Db)
      BY Zenon, <1>1, EmptyGood DEF GoodStores, Empty
    <2>2. crashes' \in Nat
      BY <1>0 DEF MemoryInv, TypeInv
    <2> QED
      BY Zenon, <1>1, <1>2, <2>1, <2>2 DEF MemoryInv, TypeInv
  <1>4. LogInv'
    <2>1. aof \in Seq(Entry) /\ currentAppendDatabase \in Db
      BY Zenon DEF TypeInv, LogInv
    <2>2. \A written \in Seq(Entry) : aof \o written \in Seq(Entry)
      BY <2>1
    <2>3. aof' \in Seq(Entry)
      BY Zenon, <1>0, <2>1, <2>2, EntriesType
    <2> QED
      BY Zenon, <1>1, <1>2, <2>1, <2>3 DEF LogInv
  <1>5. FileInv'
    <2>1. GoodFile(NoFile) /\ NoFile.count = 0
      BY Zenon, NewFile DEF NoFile
    <2>2. \A s \in Saver : OpenOn(s)'
      BY <1>1, <1>2 DEF OpenOn, NotSaving
    <2> QED
      BY Zenon, <1>1, <1>2, <2>1, <2>2 DEF FileInv, TypeInv
  <1> QED
    BY ZenonT(30), <1>1, <1>3, <1>4, <1>5 DEF TypeInv, LockInv

\* A new process starts from good stores, however many databases it has.
LEMMA RestartTypes ==
  ASSUME TypeInv, SaveInv', setup' = setup, Restart
  PROVE  TypeInv'
  <1>1. /\ up' = TRUE /\ databases' \in This.databases /\ currentAppendDatabase' = 0
        /\ UNCHANGED <<setup, now, aof, snapshotFile, tempFile, saving, phase, inFlight, crashes>>
        /\ ~up /\ Complete(snapshotFile) /\ stores' = Recovered'
    BY Zenon DEF Restart, files, lock
  <1>2. This' = This /\ Entry' = Entry /\ setup \in DOMAIN Setups
    BY <1>1 DEF This, Entry, TornFrames, TypeInv, SaveInv, SaveTypes
  <1>3. databases' \in Nat /\ 0 \in Db' /\ Db' = 0 .. databases' - 1
    BY <1>1, <1>2, ThisSetup DEF Db
  <1>4. GoodStores(stores', Db')
    <2> DEFINE ss == Loaded(snapshotFile, databases', now)
    <2>1. GoodFile(snapshotFile) /\ now \in Int
      BY DEF TypeInv, FileInv, MemoryInv
    <2>2. GoodStores(ss, Db')
      BY Zenon, <1>1, <1>3, <2>1, LoadedGood
    <2>3. aof \in Seq(LogEntry)
      BY <1>2, EntryType DEF TypeInv, LogInv
    <2>4. stores' = Replayed(aof, ss, now).stores
      BY Zenon, <1>1 DEF Recovered
    <2> HIDE DEF ss
    <2>5. GoodReplay(Replayed(aof, ss, now), Db')
      BY Zenon, <1>3, <2>1, <2>2, <2>3, ReplayedGood
    <2> QED
      BY Zenon, <2>4, <2>5 DEF GoodReplay
  <1>5. MemoryInv'
    BY Zenon, <1>1, <1>2, <1>4 DEF MemoryInv, TypeInv
  <1>6. LogInv'
    BY Zenon, <1>1, <1>2, <1>3 DEF LogInv, TypeInv
  <1>7. \A s \in Saver : saving[s] = NotSaving
    BY Zenon, <1>1 DEF TypeInv, SaveInv, Saving
  <1>8. FileInv'
    <2>1. \A s \in Saver : OpenOn(s)'
      BY <1>1, <1>3, <1>7 DEF OpenOn, NotSaving
    <2> QED
      BY Zenon, <1>1, <1>2, <2>1 DEF FileInv, TypeInv
  <1> QED
    BY Zenon, <1>1, <1>5, <1>6, <1>8 DEF TypeInv, LockInv

\* Every step keeps the types.
LEMMA NextTypeInv == TypeInv /\ [Next]_vars => TypeInv'
  <1> SUFFICES ASSUME TypeInv, [Next]_vars
               PROVE  TypeInv'
    BY Zenon
  <1>1. SaveInv' /\ setup' = setup
    BY Zenon, NextSaveInv, SameSetup DEF TypeInv
  <1>2. CASE UNCHANGED vars
    <2>1. UNCHANGED <<setup, up, databases, crashes, stores, now, aof, currentAppendDatabase,
                      snapshotFile, tempFile, saving, phase, inFlight>>
      BY Zenon, <1>2 DEF vars, process, log, files, lock
    <2>2. MemoryInv'
      BY Zenon, <2>1 DEF MemoryInv, TypeInv, This, Db
    <2> QED
      BY Zenon, <1>1, <2>1, <2>2, FilesFrame, LogFrame, LockFrame DEF TypeInv
  <1>3. ASSUME Tick \/ \E d \in Db, k \in Key : DropExpired(d, k)
        PROVE  TypeInv'
    <2>1. /\ UNCHANGED <<setup, up, databases, crashes, aof, currentAppendDatabase,
                         snapshotFile, tempFile, saving, phase, inFlight>>
          /\ \/ stores' = stores /\ now' = now + 1
             \/ \E d \in Db, k \in Key :
                  now' = now /\ stores' = [stores EXCEPT ![d] = Without(stores[d], {k})]
      BY ZenonT(30), <1>3 DEF Tick, DropExpired, process, log, files, lock
    <2>2. GoodStores(stores', Db) /\ now' \in Nat
      <3>1. GoodStores(stores, Db) /\ now \in Nat
        BY Zenon DEF TypeInv, MemoryInv
      <3>2. CASE stores' = stores /\ now' = now + 1
        BY <3>1, <3>2
      <3>3. ASSUME NEW d \in Db, NEW k \in Key, now' = now,
                   stores' = [stores EXCEPT ![d] = Without(stores[d], {k})]
            PROVE  GoodStores(stores', Db) /\ now' \in Nat
        <4>1. GoodStore(Without(stores[d], {k}))
          BY Zenon, <3>1, GoodWithout DEF GoodStores
        <4> QED
          BY Zenon, <3>1, <3>3, <4>1 DEF GoodStores
      <3> QED
        BY Zenon, <2>1, <3>2, <3>3
    <2>3. MemoryInv'
      BY Zenon, <2>1, <2>2 DEF MemoryInv, TypeInv, This, Db
    <2> QED
      BY Zenon, <1>1, <2>1, <2>3, FilesFrame, LogFrame, LockFrame DEF TypeInv
  <1> QED
    BY Zenon, <1>1, <1>2, <1>3, CommandTypes, SaverTypes, DeathTypes, RestartTypes DEF Next, StartRefused

\* Memory and the snapshot files only ever hold well-formed stores, the log only
\* entries that replay knows, and a saver always finds the file its stream is
\* open on: for any number of databases and savers, whatever fails, and however
\* often the process dies and starts again, with another number of databases too.
THEOREM TypesHold == Spec => []TypeOK
  <1>1. TypeInv => TypeOK
    <2> SUFFICES ASSUME TypeInv
                 PROVE  TypeOK
      BY Zenon
    <2>1. databases \in Nat /\ databases > 0 /\ setup \in DOMAIN Setups /\ 0 \in Db
      BY Zenon, DbFacts DEF TypeInv, SaveInv, SaveTypes, MemoryInv
    <2>2. NoFile.count = 0
      BY Zenon DEF NoFile
    <2>3. \A s \in Saver : /\ saving[s].written \in 0 .. databases
                           /\ saving[s].target \in {"closed", "temp", "final", "unlinked"}
                           /\ saving[s].target = "temp" => tempFile # NoFile
                           /\ saving[s].target = "final" => snapshotFile # NoFile
      BY <2>1, <2>2 DEF TypeInv, FileInv, OpenOn, SaveInv, SaveTypes
    <2>4. \A file : GoodFile(file) /\ file.count \in This.databases \cup {0} => IsFile(file)
      <3> SUFFICES ASSUME NEW file, GoodFile(file), file.count \in This.databases \cup {0}
                   PROVE  IsFile(file)
        BY Zenon
      <3>1. \A i \in DOMAIN file.sections : GoodStore(file.sections[i])
        BY StoreSetDef DEF GoodFile
      <3> QED
        BY Zenon, <3>1 DEF GoodFile, IsFile, GoodStore
    <2> QED
      BY Zenon, <2>1, <2>3, <2>4 DEF TypeInv, TypeOK, MemoryInv, LogInv, FileInv, LockInv, GoodStores, GoodStore
  <1> QED
    BY <1>1, InitTypeInv, NextTypeInv, PTL DEF Spec

-----------------------------------------------------------------------------
\* Checkpoints.

\* The first n sections of a file look like the stores in memory.
Mirrors(file, n, ss, t) == \A i \in 0 .. n - 1 : Alike(file.sections[i + 1], ss[i], t)

\* Under the mutex the temporary file mirrors the stores written so far, and the
\* file that was renamed mirrors all of them until the log is truncated: clients
\* wait, and expiry changes neither side alone.
CheckpointInv ==
  /\ phase = "save" =>
       \A s \in Saving : Mirrors(tempFile, saving[s].written, stores, now)
  /\ phase = "truncate" =>
       Saving = {} /\ snapshotFile.count = databases /\ Mirrors(snapshotFile, databases, stores, now)

\* Time and expiry.
LEMMA MirrorsLater ==
  ASSUME NEW file, GoodFile(file), NEW n \in Nat, n <= Len(file.sections),
         NEW D, 0 .. n - 1 \subseteq D, NEW ss, GoodStores(ss, D),
         NEW t \in Int, Mirrors(file, n, ss, t)
  PROVE  /\ Mirrors(file, n, ss, t + 1)
         /\ \A d \in D : \A K \in SUBSET Expired(ss[d], t) :
              Mirrors(file, n, [ss EXCEPT ![d] = Without(@, K)], t)
  <1>1. \A i \in 0 .. n - 1 : /\ GoodStore(file.sections[i + 1]) /\ GoodStore(ss[i])
                              /\ Alike(file.sections[i + 1], ss[i], t)
    BY StoreSetDef DEF GoodFile, GoodStores, Mirrors
  <1>2. Mirrors(file, n, ss, t + 1)
    <2>1. t + 1 \in Int /\ t <= t + 1
      OBVIOUS
    <2> QED
      BY Zenon, <1>1, <2>1, AlikeLater DEF Mirrors
  <1>3. ASSUME NEW d \in D, NEW K \in SUBSET Expired(ss[d], t)
        PROVE  Mirrors(file, n, [ss EXCEPT ![d] = Without(@, K)], t)
    <2> DEFINE after == [ss EXCEPT ![d] = Without(@, K)]
    <2>1. \A i \in 0 .. n - 1 : after[i] = IF i = d THEN Without(ss[d], K) ELSE ss[i]
      BY Zenon DEF GoodStores
    <2>2. Alike(ss[d], Without(ss[d], K), t)
      BY Zenon, AlikeWithout, AlikeSwap
    <2> HIDE DEF after
    <2>3. \A i \in 0 .. n - 1 : Alike(file.sections[i + 1], after[i], t)
      BY ZenonT(30), <1>1, <2>1, <2>2, AlikeVia
    <2> QED
      BY Zenon, <2>3 DEF Mirrors, after
  <1> QED
    BY Zenon, <1>2, <1>3

\* Only the mutex of AofPersistence is held in a phase other than "idle".
LEMMA LockedSave ==
  ASSUME TypeInv, phase # "idle"
  PROVE  /\ This.aofEnabled /\ Alone /\ up /\ SnapshotComplete
         /\ \A s \in Saving : Undisturbed(s) /\ phase = "save"
  BY Zenon DEF TypeInv, LockInv, Alone, SaveInv

LEMMA InitCheckpointInv == Init => CheckpointInv
  BY Zenon DEF Init, CheckpointInv

\* The saver appends the image of the next store.
LEMMA StoreMirrors ==
  ASSUME TypeInv, CheckpointInv, NEW s \in This.savers, SaveStore(s), phase # "idle"
  PROVE  /\ phase' = "save" /\ Saving' \subseteq {s}
         /\ Mirrors(tempFile, saving[s].written, stores, now)'
  <1> DEFINE n == saving[s].written
             live == Without(stores[n], Expired(stores[n], now))
  <1>1. s \in Saver /\ s \in Saving /\ SaveTypes /\ setup \in DOMAIN Setups
    BY Zenon, ThisSetup DEF TypeInv, SaveInv, SaveTypes, SaveStore, Saving
  <1>2. phase = "save" /\ Undisturbed(s) /\ Mirrors(tempFile, n, stores, now)
    BY Zenon, <1>1, LockedSave DEF CheckpointInv
  <1>3. /\ n \in Db /\ stores' = [stores EXCEPT ![n] = live] /\ now' = now /\ phase' = phase
        /\ saving' = [saving EXCEPT ![s].written = n + 1]
        /\ tempFile' \in Written(tempFile, n, Image(live))
    BY Zenon, <1>2 DEF SaveStore, Undisturbed, lock
  <1>4. n \in Nat /\ saving'[s].written = n + 1
    BY Zenon, <1>1, <1>3 DEF SaveTypes
  <1>5. Saving' \subseteq {s}
    BY Zenon, <1>1, <1>2, <1>3 DEF Saving, Undisturbed, SaveTypes
  <1>6. /\ tempFile'.sections[n + 1] = Image(live)
        /\ \A i \in 1 .. n : tempFile'.sections[i] = tempFile.sections[i]
    BY SMTT(30), <1>2, <1>3, <1>4, WrittenAtEnd DEF Undisturbed
  <1>7. GoodStores(stores, Db) /\ GoodStore(live) /\ now \in Int
    BY <1>3, GoodWithout DEF TypeInv, MemoryInv, GoodStores
  <1> HIDE DEF live
  <1>8. \A i \in Db : stores'[i] = IF i = n THEN live ELSE stores[i]
    BY Zenon, <1>3, <1>7 DEF GoodStores
  <1>9. \A i \in 0 .. n - 1 : i \in Db /\ i # n /\ i + 1 \in 1 .. n
    BY <1>3, <1>4 DEF Db, TypeInv, SaveInv, SaveTypes
  <1>10. \A i \in 0 .. n - 1 : Alike(tempFile'.sections[i + 1], stores'[i], now)
    BY Zenon, <1>2, <1>6, <1>8, <1>9 DEF Mirrors
  <1>11. Alike(tempFile'.sections[n + 1], stores'[n], now)
    <2>1. stores'[n] = live /\ Alike(Image(live), live, now)
      BY Zenon, <1>3, <1>7, <1>8, AlikeImage
    <2> QED
      BY Zenon, <1>6, <2>1
  <1>12. \A i \in 0 .. (n + 1) - 1 : i \in 0 .. n - 1 \/ i = n
    BY <1>4
  <1> QED
    BY Zenon, <1>2, <1>3, <1>4, <1>5, <1>10, <1>11, <1>12 DEF Mirrors

\* Every step keeps the mirror.
LEMMA NextCheckpointInv == TypeInv /\ CheckpointInv /\ [Next]_vars => CheckpointInv'
  <1> SUFFICES ASSUME TypeInv, CheckpointInv, [Next]_vars
               PROVE  CheckpointInv'
    BY Zenon
  <1>0. TypeInv' /\ GoodStores(stores, Db) /\ now \in Int /\ databases \in Nat
    BY NextTypeInv, DbFacts DEF TypeInv, MemoryInv
  <1>1. CASE UNCHANGED <<stores, now, snapshotFile, tempFile, saving, phase, databases>>
    BY Zenon, <1>1 DEF CheckpointInv, Saving
  <1>2. CASE phase' \in {"idle", "append"}
    BY Zenon, <1>2 DEF CheckpointInv
  <1>3. ASSUME NEW s \in This.savers, SaveBegin(s)
        PROVE  CheckpointInv'
    <2>1. saving' = [saving EXCEPT ![s] = [written |-> 0, target |-> "temp"]] /\ phase' \in {"save", "idle"}
      BY Zenon, <1>3 DEF SaveBegin
    <2>2. ASSUME phase' # "idle"
          PROVE  \A q \in Saving' : saving'[q].written = 0
      <3>1. Undisturbed(s)' /\ s \in Saving'
        <4>1. s \in Saver /\ saving'[s] # NotSaving
          BY Zenon, <2>1, ThisSetup DEF TypeInv, SaveInv, SaveTypes, NotSaving
        <4>2. s \in Saving'
          BY Zenon, <4>1 DEF Saving
        <4>3. \A q \in Saving' : Undisturbed(q)'
          BY ZenonT(30), <1>0, <2>2 DEF TypeInv, LockInv, Alone, SaveInv
        <4> QED
          BY Zenon, <4>2, <4>3
      <3>2. Saving' = {s} /\ s \in Saver
        BY Zenon, <3>1 DEF Undisturbed, Saving
      <3> QED
        BY Zenon, <2>1, <3>2 DEF TypeInv, SaveInv, SaveTypes
    <2>3. \A file, ss, t : Mirrors(file, 0, ss, t)
      BY DEF Mirrors
    <2> QED
      BY Zenon, <2>1, <2>2, <2>3 DEF CheckpointInv
  <1>4. ASSUME NEW s \in This.savers, SaveStore(s)
        PROVE  CheckpointInv'
    <2>1. CASE phase = "idle"
      BY Zenon, <1>2, <1>4, <2>1 DEF SaveStore, lock
    <2>2. CASE phase # "idle"
      BY Zenon, <1>4, <2>2, StoreMirrors DEF CheckpointInv
    <2> QED
      BY Zenon, <2>1, <2>2
  <1>5. ASSUME NEW s \in This.savers, SaveRename(s)
        PROVE  CheckpointInv'
    <2>1. /\ s \in Saver /\ s \in Saving /\ saving[s].written = databases /\ snapshotFile' = tempFile
          /\ saving' = Retargeted(s) /\ UNCHANGED <<stores, now, databases>>
          /\ phase' = IF This.aofEnabled THEN "truncate" ELSE "idle"
      BY Zenon, <1>5, ThisSetup DEF SaveRename, process, Saving, TypeInv, SaveInv, SaveTypes
    <2>2. ASSUME This.aofEnabled
          PROVE  Saving' = {} /\ tempFile.count = databases /\ Mirrors(tempFile, databases, stores, now)
      <3>1. phase = "save" /\ Undisturbed(s)
        BY Zenon, <2>1, <2>2 DEF TypeInv, SaveInv, Alone
      <3>2. \A q \in Saver : q # s => saving[q] = NotSaving
        BY Zenon, <3>1 DEF Undisturbed, Saving
      <3>3. \A q \in Saver : saving'[q] = NotSaving
        BY <2>1, <3>2 DEF Retargeted, NotSaving
      <3> QED
        BY Zenon, <2>1, <3>1, <3>3 DEF CheckpointInv, Saving, Undisturbed
    <2> QED
      BY Zenon, <2>1, <2>2 DEF CheckpointInv
  <1>6. ASSUME Tick \/ \E d \in Db, k \in Key : DropExpired(d, k)
        PROVE  CheckpointInv'
    <2>1. /\ UNCHANGED <<databases, snapshotFile, tempFile, saving, phase>>
          /\ \/ stores' = stores /\ now' = now + 1
             \/ \E d \in Db : \E K \in SUBSET Expired(stores[d], now) :
                  now' = now /\ stores' = [stores EXCEPT ![d] = Without(@, K)]
      <3>1. CASE Tick
        BY Zenon, <3>1 DEF Tick, process, files, lock
      <3>2. ASSUME NEW d \in Db, NEW k \in Key, DropExpired(d, k)
            PROVE  /\ UNCHANGED <<databases, snapshotFile, tempFile, saving, phase>>
                   /\ \E K \in SUBSET Expired(stores[d], now) :
                        now' = now /\ stores' = [stores EXCEPT ![d] = Without(@, K)]
        <4>1. {k} \in SUBSET Expired(stores[d], now)
          BY Zenon, <3>2 DEF DropExpired
        <4> QED
          BY Zenon, <3>2, <4>1 DEF DropExpired, process, files, lock
      <3> QED
        BY Zenon, <1>6, <3>1, <3>2
    <2>2. ASSUME NEW file, GoodFile(file), NEW n \in Nat, n <= Len(file.sections), n <= databases,
                 Mirrors(file, n, stores, now)
          PROVE  Mirrors(file, n, stores', now')
      <3>1. 0 .. n - 1 \subseteq Db
        BY <1>0, <2>2 DEF Db
      <3>2. /\ Mirrors(file, n, stores, now + 1)
            /\ \A d \in Db : \A K \in SUBSET Expired(stores[d], now) :
                 Mirrors(file, n, [stores EXCEPT ![d] = Without(@, K)], now)
        BY ZenonT(30), <1>0, <2>2, <3>1, MirrorsLater
      <3> QED
        BY Zenon, <2>1, <3>2
    <2>3. Saving' = Saving /\ GoodFile(tempFile) /\ GoodFile(snapshotFile)
      BY Zenon, <2>1 DEF Saving, TypeInv, FileInv
    <2>4. ASSUME phase = "save", NEW s \in Saving
          PROVE  Mirrors(tempFile, saving[s].written, stores', now')
      <3>1. /\ saving[s].written \in Nat /\ saving[s].written <= databases
            /\ saving[s].written <= Len(tempFile.sections)
        BY <1>0, <2>4, LockedSave DEF Undisturbed, Sound
      <3> QED
        BY Zenon, <2>2, <2>3, <2>4, <3>1 DEF CheckpointInv
    <2>5. ASSUME phase = "truncate"
          PROVE  Mirrors(snapshotFile, databases, stores', now')
      <3>1. databases <= Len(snapshotFile.sections) /\ databases <= databases
        BY <1>0, <2>5, LockedSave DEF SnapshotComplete, Complete, CheckpointInv
      <3> QED
        BY Zenon, <1>0, <2>2, <2>3, <2>5, <3>1 DEF CheckpointInv
    <2> QED
      BY Zenon, <2>1, <2>3, <2>4, <2>5 DEF CheckpointInv
  <1>7. CASE Restart
    <2>1. phase' = "idle"
      BY Zenon, <1>7 DEF Restart, lock, TypeInv, LockInv
    <2> QED
      BY Zenon, <1>2, <2>1
  <1>8. CASE UNCHANGED vars \/ StartRefused
    BY Zenon, <1>1, <1>8 DEF StartRefused, vars, files, lock, process
  <1>9. ASSUME \/ \E c \in This.commands, d \in Db : ExecuteCommand(c, d)
               \/ AppendCommand \/ AppendFails \/ Truncate \/ TruncateFails \/ Crash
               \/ \E s \in This.savers : SaveFails(s) \/ RenameThrows(s)
        PROVE  CheckpointInv'
    <2>1. phase' \in {"idle", "append"}
      BY Zenon, <1>9 DEF ExecuteCommand, AppendCommand, AppendFails, Truncate, TruncateFails, Crash, SaveFails,
                  RenameThrows, Dies, lock
    <2> QED
      BY Zenon, <1>2, <2>1
  <1> QED
    BY Zenon, <1>3, <1>4, <1>5, <1>6, <1>7, <1>8, <1>9 DEF Next

\* What AllAlike says of what Contents compares.
LEMMA SameContents ==
  ASSUME NEW ss, GoodStores(ss, Db), NEW rr, GoodStores(rr, Db), AllAlike(ss, rr, Db, now)
  PROVE  Contents(ss) = Contents(rr)
  <1>1. \A d \in Db : Seen(ss[d], now) = Seen(rr[d], now)
    BY Zenon, SeenAlike DEF GoodStores, AllAlike
  <1> QED
    BY Zenon, <1>1 DEF Contents

\* Between the rename and the truncation the snapshot holds what is in memory.
LEMMA LoadedAlike ==
  ASSUME TypeInv, CheckpointInv, phase = "truncate"
  PROVE  /\ GoodStores(Loaded(snapshotFile, databases, now), Db)
         /\ AllAlike(Loaded(snapshotFile, databases, now), stores, Db, now)
  <1> DEFINE ss == Loaded(snapshotFile, databases, now)
  <1>1. /\ Complete(snapshotFile) /\ snapshotFile.count = databases
        /\ Mirrors(snapshotFile, databases, stores, now)
    BY Zenon, LockedSave DEF CheckpointInv, SnapshotComplete
  <1>2. GoodFile(snapshotFile) /\ now \in Int /\ databases \in Nat /\ GoodStores(stores, Db)
    BY DbFacts DEF TypeInv, FileInv, MemoryInv
  <1>3. GoodStores(ss, Db)
    BY Zenon, <1>1, <1>2, LoadedGood DEF Db
  <1>4. ASSUME NEW d \in Db
        PROVE  Alike(ss[d], stores[d], now)
    <2> DEFINE section == snapshotFile.sections[d + 1]
    <2>1. /\ d \in 0 .. databases - 1 /\ d < snapshotFile.count /\ d + 1 \in 1 .. Len(snapshotFile.sections)
      BY <1>1, <1>2 DEF Db, Complete
    <2>2. GoodStore(section) /\ Alike(section, stores[d], now)
      BY <1>1, <1>2, <2>1, StoreSetDef DEF GoodFile, Mirrors
    <2>3. ss[d] = loadSnapshot(section, now)
      BY Zenon, <2>1 DEF Loaded
    <2> HIDE DEF section, ss
    <2> QED
      BY Zenon, <1>2, <2>2, <2>3, AlikeImage, AlikeVia
  <1> QED
    BY Zenon, <1>3, <1>4 DEF AllAlike

\* A checkpoint that gets as far as truncating the log leaves files from which a
\* start recovers exactly what clients see in memory: for any commands, any
\* number of databases, and whatever the log had suffered before.
THEOREM CheckpointTheorem == Spec => CheckpointRestores
  <1>1. TypeInv /\ CheckpointInv /\ [Next]_vars => (Truncate => (Contents(Recovered) = Contents(stores))')
    <2> SUFFICES ASSUME TypeInv, CheckpointInv, [Next]_vars, Truncate
                 PROVE  (Contents(Recovered) = Contents(stores))'
      BY Zenon
    <2> DEFINE ss == Loaded(snapshotFile, databases, now)
    <2>1. /\ phase = "truncate" /\ aof' = <<>>
          /\ UNCHANGED <<stores, now, databases, snapshotFile>>
      BY Zenon DEF Truncate, process, files
    <2>2. GoodStores(ss, Db) /\ AllAlike(ss, stores, Db, now) /\ GoodStores(stores, Db)
      BY Zenon, <2>1, LoadedAlike DEF TypeInv, MemoryInv
    <2> HIDE DEF ss
    <2>3. Contents(ss) = Contents(stores)
      BY Zenon, <2>2, SameContents
    <2>4. Recovered' = ss
      BY <2>1, ReplayedStart DEF Recovered, Start, ss
    <2>5. Db' = Db
      BY Zenon, <2>1 DEF Db
    <2> QED
      BY Zenon, <2>1, <2>3, <2>4, <2>5 DEF Contents
  <1> QED
    BY <1>1, InitTypeInv, NextTypeInv, InitCheckpointInv, NextCheckpointInv, PTL DEF Spec, CheckpointRestores

-----------------------------------------------------------------------------
\* The first life of a server, at time 0: replay keeps up with memory.

\* What replay makes of the entries of the command in flight.
LEMMA ReplayEntries ==
  ASSUME TypeInv, phase = "append", NEW ss, GoodStores(ss, Db), NEW t \in Int,
         Replayed(aof, ss, t).lost = 0, Replayed(aof, ss, t).db = currentAppendDatabase
  PROVE  LET r == Replayed(aof \o Entries, ss, t)
         IN /\ r.lost = 0 /\ r.db = inFlight.db
            /\ r.stores = Applied(inFlight.command, inFlight.db, Replayed(aof, ss, t).stores, t)
  <1> DEFINE c == inFlight.command
             d == inFlight.db
             r == Replayed(aof, ss, t)
             marked == Append(aof, Select(d))
  <1>1. /\ c \in This.commands /\ c \in Command /\ d \in Db /\ Db \subseteq Nat /\ 0 \in Db
        /\ currentAppendDatabase \in Db
    BY Zenon, ThisSetup, DbFacts DEF TypeInv, LockInv, LogInv, MemoryInv, SaveInv, SaveTypes
  <1>2. c.name \notin {"torn", "SELECT"} /\ Select(d).name = "SELECT" /\ Select(d).db = d
    BY Zenon, <1>1, CommandFields DEF OneStore, Select
  <1>3. aof \in Seq(LogEntry) /\ c \in LogEntry /\ Select(d) \in LogEntry
    <2>1. Entry \subseteq LogEntry
      BY Zenon, EntryType DEF TypeInv, SaveInv, SaveTypes
    <2>2. aof \in Seq(Entry)
      BY Zenon DEF TypeInv, LogInv
    <2>3. aof \in Seq(LogEntry)
      BY <2>1, <2>2
    <2> QED
      BY ZenonT(30), <1>1, <2>3 DEF LogEntry
  <1>4. marked \in Seq(LogEntry)
    BY <1>3
  <1>5. GoodReplay(r, Db) /\ GoodReplay(Replayed(marked, ss, t), Db)
    BY ZenonT(30), <1>1, <1>3, <1>4, ReplayedGood
  <1>6. CASE d = currentAppendDatabase
    <2>1. aof \o Entries = Append(aof, c)
      BY <1>3, <1>6 DEF Entries
    <2>2. Replayed(Append(aof, c), ss, t) = ReplayStep(r, c, t)
      BY <1>3, ReplayedAppend
    <2>3. ReplayStep(r, c, t) = [stores |-> Applied(c, r.db, r.stores, t), db |-> r.db,
                                 lost |-> 0, torn |-> r.torn]
      BY ZenonT(30), <1>2, <1>5, ReplayCommand
    <2> QED
      BY SMTT(30), <1>6, <2>1, <2>2, <2>3
  <1>7. CASE d # currentAppendDatabase
    <2>1. aof \o Entries = Append(marked, c)
      BY <1>3, <1>7 DEF Entries
    <2>2. Replayed(marked, ss, t) = ReplayStep(r, Select(d), t)
      BY <1>3, ReplayedAppend
    <2> HIDE DEF marked
    <2>3. Replayed(Append(marked, c), ss, t) = ReplayStep(Replayed(marked, ss, t), c, t)
      BY <1>3, <1>4, ReplayedAppend
    <2>4. Replayed(marked, ss, t) = [stores |-> r.stores, db |-> d, lost |-> 0, torn |-> r.torn]
      BY SMTT(30), <1>1, <1>2, <1>5, <2>2, ReplaySelect
    <2>5. ReplayStep(Replayed(marked, ss, t), c, t) =
            [stores |-> Applied(c, d, r.stores, t), db |-> d, lost |-> 0, torn |-> r.torn]
      BY SMTT(30), <1>2, <1>5, <2>4, ReplayCommand
    <2> QED
      BY <2>1, <2>3, <2>5
  <1> QED
    BY Zenon, <1>6, <1>7

Quiet == This.aofEnabled /\ This.faults = {} /\ crashes = 0 /\ now = 0

ReplayNow == Replayed(aof, Loaded(snapshotFile, databases, now), now)

\* Replay has come out of its last frame, in the database the next append will
\* be for, with stores that look like these.
Follows(r, ss) == r.lost = 0 /\ r.db = currentAppendDatabase /\ AllAlike(r.stores, ss, Db, now)

\* Between the execution of a command and its append replay is one command
\* behind.  While a checkpoint waits to truncate the log, the log holds commands
\* the snapshot has too, and replay follows nothing.
FirstLifeInv ==
  Quiet => /\ up
           /\ phase \in {"idle", "save"} => Follows(ReplayNow, stores)
           /\ phase = "append" =>
                /\ Follows(ReplayNow, inFlight.before)
                /\ AllAlike(Applied(inFlight.command, inFlight.db, inFlight.before, now), stores, Db, now)

\* The stores replay starts from, and what it makes of them.
LEMMA ReplayGood ==
  ASSUME TypeInv, This.aofEnabled
  PROVE  /\ GoodStores(Loaded(snapshotFile, databases, now), Db) /\ GoodReplay(ReplayNow, Db)
         /\ \A entries \in Seq(Entry) :
              GoodReplay(Replayed(entries, Loaded(snapshotFile, databases, now), now), Db)
  <1>1. /\ GoodFile(snapshotFile) /\ now \in Int /\ databases \in Nat /\ 0 \in Db
        /\ aof \in Seq(Entry) /\ Entry \subseteq LogEntry
    BY DbFacts, EntryType DEF TypeInv, FileInv, MemoryInv, LogInv, SaveInv, SaveTypes
  <1>2. Complete(snapshotFile)
    BY Zenon DEF TypeInv, SaveInv, Alone, SnapshotComplete
  <1>3. GoodStores(Loaded(snapshotFile, databases, now), Db)
    BY Zenon, <1>1, <1>2, LoadedGood DEF Db
  <1>4. \A entries \in Seq(Entry) : entries \in Seq(LogEntry)
    BY <1>1
  <1> QED
    BY Zenon, <1>1, <1>3, <1>4, ReplayedGood DEF ReplayNow

LEMMA InitFirstLifeInv == Init => FirstLifeInv
  <1> SUFFICES ASSUME Init
               PROVE  FirstLifeInv
    BY Zenon
  <1> DEFINE ss == Loaded(snapshotFile, databases, now)
  <1>1. /\ aof = <<>> /\ currentAppendDatabase = 0 /\ stores = Empty /\ up /\ phase = "idle"
        /\ snapshotFile.count = 0
    BY Zenon DEF Init, NoFile
  <1>2. databases \in Nat
    BY Zenon, InitTypeInv, DbFacts DEF TypeInv, MemoryInv
  <1>3. Loaded(snapshotFile, databases, now) = Empty
    BY <1>1, <1>2 DEF Loaded, Empty, Db
  <1>4. ReplayNow = Start(Empty)
    BY Zenon, <1>1, <1>3, ReplayedStart DEF ReplayNow
  <1>5. ReplayNow.lost = 0 /\ ReplayNow.db = 0 /\ ReplayNow.stores = stores
    BY Zenon, <1>1, <1>4 DEF Start
  <1> QED
    BY Zenon, <1>1, <1>5, AllAlikeChain DEF FirstLifeInv, Follows

\* Every step keeps it.
LEMMA NextFirstLifeInv ==
  ASSUME ErrElem \notin Elem, TypeInv, CheckpointInv, FirstLifeInv, [Next]_vars
  PROVE  FirstLifeInv'
  <1> SUFFICES ASSUME Quiet'
               PROVE  FirstLifeInv'
    BY Zenon DEF FirstLifeInv
  <1>1. /\ TypeInv' /\ This' = This /\ setup' = setup /\ GoodStores(stores, Db) /\ now \in Nat
        /\ crashes \in Nat /\ This.commands \subseteq Command /\ databases > 0
    BY ZenonT(30), NextTypeInv, SameSetup, ThisSetup, DbFacts DEF TypeInv, MemoryInv, SaveInv, SaveTypes
  <1>2. ASSUME now \in Nat /\ now' = now, crashes' = crashes
        PROVE  Quiet /\ up
    BY Zenon, <1>1, <1>2 DEF Quiet, FirstLifeInv
  <1>3. ASSUME UNCHANGED <<aof, currentAppendDatabase, snapshotFile, databases, now>>, NEW ss, NEW rr,
               Follows(ReplayNow, ss), AllAlike(ss, rr, Db, now)
        PROVE  Db' = Db /\ ReplayNow' = ReplayNow /\ ReplayNow.lost = 0 /\ ReplayNow.db = currentAppendDatabase'
               /\ AllAlike(ReplayNow.stores, rr, Db', now')
    <2>1. Db' = Db /\ ReplayNow' = ReplayNow
      BY Zenon, <1>3 DEF Db, ReplayNow
    <2>2. AllAlike(ReplayNow.stores, rr, Db, now)
      BY Zenon, <1>3, AllAlikeChain DEF Follows
    <2> QED
      BY Zenon, <1>3, <2>1, <2>2 DEF Follows
  <1>4. ASSUME UNCHANGED <<aof, currentAppendDatabase, snapshotFile, databases, now, crashes>>,
               UNCHANGED <<up, inFlight>>, phase' \in {phase, "save"}, phase' = "save" => phase \in {"idle", "save"},
               AllAlike(stores, stores', Db, now)
        PROVE  FirstLifeInv'
    <2>1. Quiet /\ up
      BY Zenon, <1>1, <1>2, <1>4
    <2>2. phase' \in {"idle", "save"} => Follows(ReplayNow, stores)'
      <3> SUFFICES ASSUME phase' \in {"idle", "save"}
                   PROVE  Follows(ReplayNow, stores)'
        BY Zenon
      <3>1. Follows(ReplayNow, stores)
        BY Zenon, <1>4, <2>1 DEF FirstLifeInv
      <3> QED
        BY Zenon, <1>3, <1>4, <3>1 DEF Follows
    <2>3. ASSUME phase' = "append"
          PROVE  /\ Follows(ReplayNow, inFlight.before)'
                 /\ AllAlike(Applied(inFlight.command, inFlight.db, inFlight.before, now), stores, Db, now)'
      <3> DEFINE ran == Applied(inFlight.command, inFlight.db, inFlight.before, now)
      <3>1. Follows(ReplayNow, inFlight.before) /\ AllAlike(ran, stores, Db, now)
        BY Zenon, <1>4, <2>1, <2>3 DEF FirstLifeInv
      <3>2. ran' = ran /\ inFlight'.before = inFlight.before
        BY Zenon, <1>4
      <3> HIDE DEF ran
      <3>3. AllAlike(inFlight.before, inFlight.before, Db, now) /\ AllAlike(ran, stores', Db, now)
        BY Zenon, <1>4, <3>1, AllAlikeChain
      <3>4. Follows(ReplayNow, inFlight.before)' /\ Db' = Db
        BY Zenon, <1>3, <1>4, <3>1, <3>2, <3>3 DEF Follows
      <3>5. AllAlike(ran, stores, Db, now)'
        BY Zenon, <1>4, <3>2, <3>3, <3>4
      <3> QED
        BY Zenon, <3>4, <3>5 DEF ran
    <2> QED
      BY Zenon, <1>4, <2>1, <2>2, <2>3 DEF FirstLifeInv
  <1>5. CASE UNCHANGED vars \/ StartRefused
    <2>1. /\ UNCHANGED <<aof, currentAppendDatabase, snapshotFile, databases, now, crashes>>
          /\ UNCHANGED <<up, inFlight, phase, stores>>
      BY Zenon, <1>5 DEF StartRefused, vars, files, lock, process, log
    <2> QED
      BY Zenon, <1>4, <2>1, AllAlikeChain DEF FirstLifeInv
  <1>6. ASSUME NEW c \in This.commands, NEW d \in Db, ExecuteCommand(c, d)
        PROVE  FirstLifeInv'
    <2>1. /\ UNCHANGED <<aof, currentAppendDatabase, snapshotFile, databases, now, crashes, up>>
          /\ stores' = Applied(c, d, stores, now) /\ phase = "idle"
      BY ZenonT(30), <1>6 DEF ExecuteCommand, files, process, log
    <2>2. Quiet /\ Follows(ReplayNow, stores) /\ up
      BY ZenonT(30), <1>1, <1>2, <2>1 DEF FirstLifeInv
    <2>3. CASE IsErr(c, stores[d], now)
      <3>1. UNCHANGED <<phase, inFlight>>
        BY Zenon, <1>6, <2>3 DEF ExecuteCommand, lock
      <3>2. AllAlike(stores, stores', Db, now)
        BY <1>1, <2>1, <2>3, ErrKeeps, AllAlikeChain
      <3> QED
        BY Zenon, <1>4, <2>1, <3>1, <3>2
    <2>4. CASE ~IsErr(c, stores[d], now)
      <3>1. phase' = "append" /\ inFlight' = [command |-> c, db |-> d, before |-> stores]
        BY ZenonT(30), <1>6, <2>2, <2>4 DEF ExecuteCommand, Quiet
      <3>2. Applied(inFlight.command, inFlight.db, inFlight.before, now)' = stores' /\ inFlight'.before = stores
        BY Zenon, <2>1, <3>1
      <3>3. AllAlike(stores, stores, Db, now) /\ AllAlike(stores', stores', Db', now')
        BY Zenon, AllAlikeChain
      <3>4. Follows(ReplayNow, inFlight.before)'
        BY Zenon, <1>3, <2>1, <2>2, <3>2, <3>3 DEF Follows
      <3> QED
        BY ZenonT(30), <2>1, <2>2, <3>1, <3>2, <3>3, <3>4 DEF FirstLifeInv
    <2> QED
      BY Zenon, <2>3, <2>4
  <1>7. CASE AppendCommand
    <2> DEFINE ss == Loaded(snapshotFile, databases, now)
               r == Replayed(aof \o Entries, ss, now)
               ran == Applied(inFlight.command, inFlight.db, inFlight.before, now)
    <2>1. /\ UNCHANGED <<snapshotFile, databases, now, crashes, up, stores>>
          /\ phase = "append" /\ phase' = "idle" /\ aof' = aof \o Entries /\ currentAppendDatabase' = inFlight.db
      BY Zenon, <1>7 DEF AppendCommand, files, process
    <2>2. Quiet /\ up /\ Follows(ReplayNow, inFlight.before) /\ AllAlike(ran, stores, Db, now)
      BY ZenonT(30), <1>1, <1>2, <2>1 DEF FirstLifeInv
    <2>3. GoodStores(ss, Db) /\ GoodReplay(ReplayNow, Db) /\ now \in Int
      BY <1>1, <2>2, ReplayGood DEF Quiet
    <2>4. /\ inFlight.command \in Command /\ inFlight.db \in Db /\ GoodStores(inFlight.before, Db)
      BY Zenon, <1>1, <2>1 DEF TypeInv, LockInv
    <2>5. /\ r.lost = 0 /\ r.db = inFlight.db
          /\ r.stores = Applied(inFlight.command, inFlight.db, ReplayNow.stores, now)
      BY ZenonT(30), <2>1, <2>2, <2>3, ReplayEntries DEF Follows, ReplayNow
    <2>6. AllAlike(Applied(inFlight.command, inFlight.db, ReplayNow.stores, now), ran, Db, now)
      BY Zenon, <2>2, <2>3, <2>4, AppliedAlike DEF Follows, GoodReplay
    <2>7. ReplayNow' = r /\ Db' = Db
      BY Zenon, <2>1 DEF ReplayNow, Db
    <2> HIDE DEF r, ran
    <2>8. AllAlike(r.stores, stores, Db, now)
      <3>1. AllAlike(r.stores, ran, Db, now)
        BY Zenon, <2>5, <2>6
      <3> QED
        BY Zenon, <2>2, <3>1, AllAlikeChain
    <2>9. Follows(ReplayNow, stores)'
      BY Zenon, <2>1, <2>5, <2>7, <2>8 DEF Follows
    <2> QED
      BY ZenonT(30), <2>1, <2>2, <2>9 DEF FirstLifeInv
  <1>8. ASSUME AppendFails \/ TruncateFails \/ \E s \in This.savers : SaveFails(s)
        PROVE  FALSE
    BY Zenon, <1>1, <1>8 DEF Quiet, AppendFails, TruncateFails, SaveFails
  <1>9. CASE Crash \/ Tick
    BY <1>1, <1>9 DEF Crash, Tick, Quiet
  <1>10. ASSUME NEW s \in This.savers, SaveBegin(s)
         PROVE  FirstLifeInv'
    <2>1. /\ UNCHANGED <<aof, currentAppendDatabase, snapshotFile, databases, now, crashes>>
          /\ UNCHANGED <<up, inFlight, stores>>
      BY Zenon, <1>10 DEF SaveBegin, process, log
    <2>2. phase = "idle" /\ phase' = "save"
      BY Zenon, <1>1, <1>10 DEF SaveBegin, MayBegin, Quiet
    <2> QED
      BY ZenonT(30), <1>4, <2>1, <2>2, AllAlikeChain
  <1>11. ASSUME NEW s \in This.savers, saving[s] # NotSaving, This.aofEnabled
         PROVE  s \in Saver /\ Undisturbed(s) /\ phase = "save" /\ tempFile # NoFile
    <2>1. s \in Saving /\ s \in Saver
      BY Zenon, <1>1, <1>11, ThisSetup DEF Saving, TypeInv, SaveInv, SaveTypes
    <2>2. Undisturbed(s) /\ phase = "save"
      BY Zenon, <1>11, <2>1 DEF TypeInv, SaveInv, Alone
    <2> QED
      BY <1>1, <2>1, <2>2 DEF Undisturbed, NoFile
  <1>12. ASSUME NEW s \in This.savers, SaveStore(s)
         PROVE  FirstLifeInv'
    <2> DEFINE d == saving[s].written
               K == Expired(stores[d], now)
    <2>1. /\ UNCHANGED <<aof, currentAppendDatabase, databases, now, crashes>>
          /\ UNCHANGED <<up, inFlight, phase>> /\ saving[s] # NotSaving /\ d \in Db
          /\ stores' = [stores EXCEPT ![d] = Without(stores[d], K)]
          /\ saving[s].target = "temp" => snapshotFile' = snapshotFile
      BY ZenonT(30), <1>12 DEF SaveStore, process, log, lock
    <2>2. snapshotFile' = snapshotFile
      BY Zenon, <1>1, <1>11, <2>1 DEF Undisturbed, Quiet
    <2>3. AllAlike(stores, stores', Db, now)
      <3>1. DOMAIN stores = Db /\ K \in SUBSET K
        BY Zenon, <1>1 DEF GoodStores
      <3> QED
        BY Zenon, <2>1, <3>1, AllAlikeWithout
    <2> QED
      BY Zenon, <1>4, <2>1, <2>2, <2>3
  <1>13. ASSUME NEW s \in This.savers, SaveRename(s)
         PROVE  FirstLifeInv'
    <2>1. /\ UNCHANGED <<now, crashes, up>>
          /\ phase' = IF This.aofEnabled THEN "truncate" ELSE "idle"
      BY Zenon, <1>13 DEF SaveRename, process
    <2> QED
      BY Zenon, <1>1, <1>2, <2>1 DEF FirstLifeInv, Quiet
  <1>14. ASSUME NEW s \in This.savers, RenameThrows(s)
         PROVE  FALSE
    <2>1. saving[s] # NotSaving /\ tempFile = NoFile
      BY Zenon, <1>14 DEF RenameThrows
    <2> QED
      BY Zenon, <1>1, <1>11, <2>1 DEF Quiet
  <1>15. CASE Truncate
    <2> DEFINE ss == Loaded(snapshotFile, databases, now)
    <2>1. /\ UNCHANGED <<snapshotFile, databases, now, crashes, up, stores>> /\ phase = "truncate"
          /\ phase' = "idle" /\ aof' = <<>> /\ currentAppendDatabase' = 0
      BY Zenon, <1>15 DEF Truncate, files, process
    <2>2. Quiet /\ up /\ AllAlike(ss, stores, Db, now)
      BY Zenon, <1>1, <1>2, <2>1, LoadedAlike
    <2>3. ReplayNow' = Start(ss) /\ Db' = Db
      BY Zenon, <2>1, ReplayedStart DEF ReplayNow, Db
    <2> HIDE DEF ss
    <2>4. Follows(ReplayNow, stores)'
      BY Zenon, <2>1, <2>2, <2>3 DEF Follows, Start
    <2> QED
      BY ZenonT(30), <2>1, <2>2, <2>4 DEF FirstLifeInv
  <1>16. CASE Restart
    <2>1. ~up /\ now' = now /\ crashes' = crashes
      BY Zenon, <1>16 DEF Restart
    <2> QED
      BY Zenon, <1>1, <1>2, <2>1
  <1>17. ASSUME NEW d \in Db, NEW k \in Key, DropExpired(d, k)
         PROVE  FirstLifeInv'
    <2>1. /\ UNCHANGED <<aof, currentAppendDatabase, snapshotFile, databases, now, crashes>>
          /\ UNCHANGED <<up, inFlight, phase>> /\ {k} \in SUBSET Expired(stores[d], now)
          /\ stores' = [stores EXCEPT ![d] = Without(stores[d], {k})]
      BY Zenon, <1>17 DEF DropExpired, process, log, lock, files
    <2>2. DOMAIN stores = Db
      BY Zenon, <1>1 DEF GoodStores
    <2>3. AllAlike(stores, stores', Db, now)
      BY Zenon, <2>1, <2>2, AllAlikeWithout
    <2> QED
      BY Zenon, <1>4, <2>1, <2>3
  <1> QED
    BY Zenon, <1>5, <1>6, <1>7, <1>8, <1>9, <1>10, <1>12, <1>13, <1>14, <1>15, <1>16, <1>17 DEF Next

\* In the first life of a server, as long as every write succeeds and no time
\* passes, the snapshot and the log together reproduce memory whenever the mutex
\* is free, whatever mutating commands were executed, logged and compacted, and
\* in however many databases.  The exception is an element that starts with
\* "ERR ": the LPOP that answers it is not logged.
THEOREM FirstLifeTheorem ==
  ASSUME ErrElem \notin Elem
  PROVE  Spec => []RecoverableInFirstLife
  <1>1. TypeInv /\ FirstLifeInv => RecoverableInFirstLife
    <2> SUFFICES ASSUME TypeInv, FirstLifeInv, Quiet, phase = "idle"
                 PROVE  Contents(Recovered) = Contents(stores)
      BY Zenon DEF RecoverableInFirstLife, RecoverableWhenIdle, Quiet
    <2>1. AllAlike(ReplayNow.stores, stores, Db, now) /\ Recovered = ReplayNow.stores
      BY Zenon DEF FirstLifeInv, Follows, Recovered, ReplayNow
    <2>2. GoodStores(ReplayNow.stores, Db) /\ GoodStores(stores, Db)
      BY Zenon, ReplayGood DEF Quiet, GoodReplay, TypeInv, MemoryInv
    <2> QED
      BY Zenon, <2>1, <2>2, SameContents
  <1>2. TypeInv /\ CheckpointInv /\ FirstLifeInv /\ [Next]_vars => FirstLifeInv'
    BY Zenon, NextFirstLifeInv
  <1> QED
    BY <1>1, <1>2, InitTypeInv, NextTypeInv, InitCheckpointInv, NextCheckpointInv, InitFirstLifeInv, PTL DEF Spec

-----------------------------------------------------------------------------
\* Lives that end in crashes: commands that assign, on a single database.

\* The store in the snapshot file.
Section == IF snapshotFile.count > 0 THEN snapshotFile.sections[1] ELSE EmptyMap

\* Replay of these entries brings back memory m, from the snapshot that is there
\* and from any snapshot of m.
Safe(entries, m) == Recovers(entries, Section, m, now) /\ Rebuilds(entries, m, now)

\* Between the execution of a command and its append the log is good for the
\* stores before it, and will be good for those after it.
TtlInv ==
  Assigning =>
    /\ aof \in Seq(Assignment)
    /\ up /\ phase # "append" => Safe(aof, stores[0])
    /\ up /\ phase = "append" => Safe(aof, inFlight.before[0]) /\ Safe(Append(aof, inFlight.command), stores[0])

\* What there is of everything, with one database.
OneOfEach ==
  /\ This.aofEnabled /\ databases = 1 /\ Db = 0 .. 0 /\ 0 \in Db /\ \A d \in Db : d = 0
  /\ now \in Nat /\ now \in Int /\ This.commands \subseteq Assignment
  /\ GoodStore(stores[0]) /\ GoodStores(stores, 0 .. 0)
  /\ phase = "append" => inFlight.command \in Assignment /\ GoodStore(inFlight.before[0])
  /\ GoodStore(Section) /\ Complete(snapshotFile)
  /\ Loaded(snapshotFile, 1, now) = Single(loadSnapshot(Section, now))

LEMMA OneDatabase == TypeInv /\ Assigning => OneOfEach
  <1> SUFFICES ASSUME TypeInv, Assigning
               PROVE  OneOfEach
    BY Zenon
  <1>1. /\ This.aofEnabled /\ databases = 1 /\ now \in Nat /\ now \in Int
        /\ GoodStores(stores, Db) /\ setup \in DOMAIN Setups
    BY DEF Assigning, TypeInv, MemoryInv, SaveInv, SaveTypes
  <1>2. Db = 0 .. 0 /\ 0 \in Db /\ \A d \in Db : d = 0
    BY <1>1 DEF Db
  <1>3. This.commands \subseteq Assignment
    BY Zenon, <1>1, ThisSetup DEF Assigning, Assignment
  <1>4. GoodStore(stores[0]) /\ GoodStores(stores, 0 .. 0)
    BY Zenon, <1>1, <1>2 DEF GoodStores
  <1>5. phase = "append" => inFlight.command \in Assignment /\ GoodStore(inFlight.before[0])
    BY Zenon, <1>2, <1>3 DEF TypeInv, LockInv, GoodStores
  <1>6. Complete(snapshotFile) /\ GoodFile(snapshotFile) /\ snapshotFile.count \in Nat
    BY Zenon, <1>1 DEF TypeInv, SaveInv, Alone, SnapshotComplete, FileInv, GoodFile
  <1>7. GoodStore(Section)
    BY <1>6, StoreSetDef, EmptyGood DEF Section, GoodFile, Complete
  <1>8. Loaded(snapshotFile, 1, now) = Single(loadSnapshot(Section, now))
    <2>1. loadSnapshot(EmptyMap, now) = EmptyMap
      <3>1. DOMAIN EmptyMap \ Expired(EmptyMap, now) = {}
        BY Zenon, EmptyMapType
      <3> QED
        BY Zenon, <3>1 DEF loadSnapshot, EmptyMap
    <2>2. \A d \in 0 .. 1 - 1 : d = 0 /\ (d < snapshotFile.count <=> snapshotFile.count > 0) /\ d + 1 = 1
      BY <1>6
    <2> QED
      BY <2>1, <2>2 DEF Loaded, Single, Section
  <1> QED
    BY Zenon, <1>1, <1>2, <1>3, <1>4, <1>5, <1>6, <1>7, <1>8 DEF OneOfEach

\* At the start there is no log and no snapshot.
LEMMA InitTtlInv == Init => TtlInv
  <1> SUFFICES ASSUME Init, Assigning
               PROVE  TtlInv
    BY Zenon DEF TtlInv
  <1>1. aof = <<>> /\ phase = "idle" /\ stores = Empty /\ snapshotFile = NoFile
    BY Zenon DEF Init
  <1>2. GoodStore(stores[0]) /\ 0 \in Db /\ now \in Nat /\ GoodStore(Section)
    BY Zenon, InitTypeInv, OneDatabase DEF OneOfEach
  <1>3. stores[0] = EmptyMap /\ Section = EmptyMap
    BY <1>1, <1>2 DEF Empty, Section, NoFile
  <1>4. Rebuilds(<<>>, stores[0], now)
    BY Zenon, <1>2, RebuildsNothing
  <1>5. Recovers(<<>>, Section, stores[0], now)
    BY Zenon, <1>2, <1>3, <1>4, AlikeSelf, SnapshotRecovers
  <1>6. <<>> \in Seq(Assignment)
    OBVIOUS
  <1> QED
    BY Zenon, <1>1, <1>4, <1>5, <1>6 DEF TtlInv, Safe

\* While the log is about to be truncated the snapshot holds what is in memory.
LEMMA SectionAlike == TypeInv /\ CheckpointInv /\ Assigning /\ phase = "truncate" => Alike(Section, stores[0], now)
  <1> SUFFICES ASSUME TypeInv, CheckpointInv, Assigning, phase = "truncate"
               PROVE  Alike(Section, stores[0], now)
    BY Zenon
  <1>1. snapshotFile.count = 1 /\ Mirrors(snapshotFile, 1, stores, now)
    BY Zenon, OneDatabase DEF CheckpointInv, OneOfEach
  <1>2. 0 \in 0 .. 1 - 1 /\ 0 + 1 = 1
    OBVIOUS
  <1> QED
    BY <1>1, <1>2 DEF Mirrors, Section

\* Every step keeps it.
LEMMA NextTtlInv ==
  ASSUME TypeInv, CheckpointInv, TtlInv, [Next]_vars
  PROVE  TtlInv'
  <1> SUFFICES ASSUME Assigning'
               PROVE  TtlInv'
    BY Zenon DEF TtlInv
  <1>1. TypeInv' /\ CheckpointInv' /\ This' = This
    BY Zenon, NextTypeInv, NextCheckpointInv, SameSetup
  <1>2. Assigning
    BY Zenon, <1>1 DEF Assigning
  <1>3. OneOfEach
    BY Zenon, <1>2, OneDatabase
  <1>4. OneOfEach'
    BY <1>1, OneDatabase, PTL
  <1>5. /\ aof \in Seq(Assignment)
        /\ up /\ phase # "append" => Safe(aof, stores[0])
        /\ up /\ phase = "append" => /\ Safe(aof, inFlight.before[0])
                                     /\ Safe(Append(aof, inFlight.command), stores[0])
    BY Zenon, <1>2 DEF TtlInv
  \* A step that leaves the files and the command in flight alone, and of memory
  \* takes only what has expired.
  <1>6. ASSUME UNCHANGED <<aof, snapshotFile, up, inFlight>>, phase' = "append" <=> phase = "append",
               now <= now', Alike(stores[0], stores'[0], now')
        PROVE  TtlInv'
    <2>1. Section' = Section /\ now \in Nat /\ now' \in Nat /\ GoodStore(stores[0])
      BY Zenon, <1>3, <1>4, <1>6 DEF Section, OneOfEach
    <2>2. ASSUME NEW entries, NEW m, GoodStore(m), NEW q, Alike(m, q, now'), Safe(entries, m)
          PROVE  Recovers(entries, Section', q, now') /\ Rebuilds(entries, q, now')
      BY Zenon, <1>6, <2>1, <2>2, RecoversLater DEF Safe
    <2>3. phase = "append" => GoodStore(inFlight.before[0])
      BY Zenon, <1>3 DEF OneOfEach
    <2>4. \A m : Alike(m, m, now')
      BY Zenon, AlikeSelf
    <2>5. up' /\ phase' # "append" => Safe(aof, stores[0])'
      BY Zenon, <1>5, <1>6, <2>1, <2>2 DEF Safe
    <2>6. ASSUME up', phase' = "append"
          PROVE  Safe(aof, inFlight.before[0])' /\ Safe(Append(aof, inFlight.command), stores[0])'
      <3>1. Safe(aof, inFlight.before[0]) /\ Safe(Append(aof, inFlight.command), stores[0])
        BY Zenon, <1>5, <1>6, <2>6
      <3>2. inFlight' = inFlight /\ aof' = aof /\ GoodStore(inFlight.before[0])
        BY Zenon, <1>6, <2>3, <2>6
      <3>3. Safe(aof, inFlight.before[0])'
        BY Zenon, <2>2, <2>4, <3>1, <3>2 DEF Safe
      <3>4. Safe(Append(aof, inFlight.command), stores[0])'
        BY Zenon, <1>6, <2>1, <2>2, <3>1, <3>2 DEF Safe
      <3> QED
        BY Zenon, <3>3, <3>4
    <2> QED
      BY Zenon, <1>5, <1>6, <2>5, <2>6 DEF TtlInv
  <1>7. ASSUME UNCHANGED <<aof, snapshotFile, up, inFlight, now, stores>>, phase' = "append" <=> phase = "append"
        PROVE  TtlInv'
    <2>1. now <= now' /\ Alike(stores[0], stores'[0], now')
      BY <1>3, <1>7, AlikeSelf DEF OneOfEach
    <2> QED
      BY Zenon, <1>6, <1>7, <2>1
  <1>8. CASE UNCHANGED vars \/ StartRefused
    <2>1. UNCHANGED <<aof, snapshotFile, up, inFlight, now, stores, phase>>
      BY Zenon, <1>8 DEF StartRefused, vars, files, lock, process, log
    <2> QED
      BY Zenon, <1>7, <2>1
  <1>9. ASSUME NEW c \in This.commands, NEW d \in Db, ExecuteCommand(c, d)
        PROVE  TtlInv'
    <2>1. /\ UNCHANGED <<aof, snapshotFile, now, up>> /\ up /\ phase = "idle"
          /\ stores' = Applied(c, d, stores, now)
      BY ZenonT(30), <1>9 DEF ExecuteCommand, files, process, log
    <2>2. c \in Assignment /\ d = 0 /\ ~IsErr(c, stores[d], now)
      BY Zenon, <1>3, <1>9 DEF OneOfEach, IsErr, Assignment
    <2>3. phase' = "append" /\ inFlight' = [command |-> c, db |-> d, before |-> stores]
      BY ZenonT(30), <1>3, <1>9, <2>2 DEF ExecuteCommand, OneOfEach
    <2>4. inFlight'.before[0] = stores[0] /\ inFlight'.command = c /\ phase' # "idle"
      BY Zenon, <2>3
    <2>5. stores'[0] = Assigned(c, stores[0], now)
      BY Zenon, <1>3, <2>1, <2>2, AppliedToFirst DEF OneOfEach
    <2>6. Section' = Section
      BY Zenon, <2>1 DEF Section
    <2>7. Recovers(aof, Section, stores[0], now) /\ Rebuilds(aof, stores[0], now)
      BY Zenon, <1>5, <2>1 DEF Safe
    <2>8. /\ Recovers(Append(aof, c), Section, stores'[0], now)
          /\ Rebuilds(Append(aof, c), stores'[0], now)
      BY Zenon, <1>3, <1>5, <2>2, <2>5, <2>7, RecoversAppend DEF OneOfEach
    <2>9. Safe(aof, inFlight.before[0])' /\ Safe(Append(aof, inFlight.command), stores[0])'
      BY Zenon, <2>1, <2>4, <2>6, <2>7, <2>8 DEF Safe
    <2> QED
      BY Zenon, <1>5, <2>1, <2>3, <2>9 DEF TtlInv
  <1>10. CASE AppendCommand
    <2>1. /\ UNCHANGED <<snapshotFile, now, up, stores>> /\ phase = "append" /\ phase' = "idle"
          /\ aof' = aof \o Entries
      BY Zenon, <1>10 DEF AppendCommand, files, process
    <2>2. up /\ inFlight.db = 0 /\ currentAppendDatabase = 0 /\ inFlight.command \in Assignment
      BY Zenon, <1>3, <2>1 DEF TypeInv, LockInv, LogInv, OneOfEach
    <2>3. aof' = Append(aof, inFlight.command) /\ aof' \in Seq(Assignment)
      BY <1>5, <2>1, <2>2 DEF Entries
    <2>4. Section' = Section
      BY Zenon, <2>1 DEF Section
    <2>5. Safe(aof, stores[0])'
      BY Zenon, <1>5, <2>1, <2>2, <2>3, <2>4 DEF Safe
    <2>6. phase' # "append"
      BY Zenon, <2>1
    <2> QED
      BY Zenon, <2>3, <2>5, <2>6 DEF TtlInv
  <1>11. ~AppendFails
    BY Zenon, <1>2 DEF AppendFails, Assigning
  <1>12. ASSUME NEW s \in This.savers, SaveBegin(s)
         PROVE  TtlInv'
    <2>1. /\ UNCHANGED <<aof, snapshotFile, up, inFlight, now, stores>>
          /\ phase = "idle" /\ phase' = "save"
      BY Zenon, <1>3, <1>12 DEF SaveBegin, process, log, MayBegin, OneOfEach
    <2> QED
      BY Zenon, <1>7, <2>1
  <1>13. ASSUME NEW s \in This.savers, saving[s] # NotSaving
         PROVE  phase = "save" /\ saving[s].target = "temp" /\ up
    <2>1. s \in Saving
      BY Zenon, <1>13, ThisSetup DEF Saving, TypeInv, SaveInv, SaveTypes
    <2> QED
      BY Zenon, <1>3, <2>1 DEF TypeInv, SaveInv, Alone, Undisturbed, OneOfEach
  <1>14. ASSUME NEW K, K \subseteq Expired(stores[0], now), stores' = [stores EXCEPT ![0] = Without(stores[0], K)],
                UNCHANGED <<aof, snapshotFile, up, inFlight, now, phase>>
         PROVE  TtlInv'
    <2>1. stores'[0] = Without(stores[0], K) /\ now <= now'
      BY <1>3, <1>14 DEF OneOfEach, GoodStores
    <2>2. Alike(stores[0], stores'[0], now')
      BY Zenon, <1>14, <2>1, AlikeWithout, AlikeSwap
    <2> QED
      BY Zenon, <1>6, <1>14, <2>1, <2>2
  <1>15. ASSUME NEW s \in This.savers, SaveStore(s)
         PROVE  TtlInv'
    <2> DEFINE d == saving[s].written
    <2>1. /\ UNCHANGED <<aof, up, inFlight, now, phase>> /\ saving[s] # NotSaving /\ d \in Db
          /\ stores' = [stores EXCEPT ![d] = Without(stores[d], Expired(stores[d], now))]
          /\ saving[s].target = "temp" => snapshotFile' = snapshotFile
      BY ZenonT(30), <1>15 DEF SaveStore, process, log, lock
    <2>2. d = 0 /\ snapshotFile' = snapshotFile
      BY Zenon, <1>3, <1>13, <2>1 DEF OneOfEach
    <2>3. \A K : K \subseteq K
      BY Zenon
    <2> QED
      BY Zenon, <1>14, <2>1, <2>2, <2>3
  <1>16. ASSUME NEW s \in This.savers, SaveFails(s)
         PROVE  TtlInv'
    <2>1. /\ UNCHANGED <<aof, snapshotFile, up, inFlight, now, stores>> /\ phase' = "idle"
          /\ saving[s] # NotSaving
      BY Zenon, <1>16 DEF SaveFails, process, log
    <2>2. phase # "append" /\ phase' # "append"
      BY Zenon, <1>13, <2>1
    <2> QED
      BY Zenon, <1>7, <2>1, <2>2
  <1>17. ASSUME NEW s \in This.savers, SaveRename(s)
         PROVE  TtlInv'
    <2>1. UNCHANGED <<aof, up, now, stores>> /\ phase' = "truncate" /\ saving[s] # NotSaving
      BY Zenon, <1>3, <1>17 DEF SaveRename, process, log, OneOfEach
    <2>2. up /\ phase # "append" /\ phase' # "append"
      BY Zenon, <1>13, <2>1
    <2>3. Rebuilds(aof, stores[0], now)
      BY Zenon, <1>5, <2>2 DEF Safe
    <2>4. Alike(Section', stores'[0], now')
      <3>1. (phase = "truncate")'
        BY Zenon, <2>1
      <3>2. Alike(Section, stores[0], now)'
        BY <1>1, <3>1, SectionAlike, PTL
      <3> QED
        BY Zenon, <3>2
    <2>5. Recovers(aof, Section', stores[0], now)
      BY Zenon, <1>3, <1>4, <2>1, <2>3, <2>4, SnapshotRecovers DEF OneOfEach
    <2>6. Safe(aof, stores[0])'
      BY Zenon, <2>1, <2>3, <2>5 DEF Safe
    <2> QED
      BY Zenon, <1>5, <2>1, <2>2, <2>6 DEF TtlInv
  <1>18. CASE Truncate
    <2>1. UNCHANGED <<snapshotFile, now, stores>> /\ phase = "truncate" /\ phase' = "idle" /\ aof' = <<>>
      BY Zenon, <1>18 DEF Truncate, files
    <2>2. Section' = Section /\ Alike(Section, stores[0], now) /\ <<>> \in Seq(Assignment)
      BY SMTT(30), <1>2, <2>1, SectionAlike DEF Section
    <2>3. Rebuilds(<<>>, stores[0], now)
      BY Zenon, <1>3, RebuildsNothing DEF OneOfEach
    <2>4. Recovers(<<>>, Section, stores[0], now)
      BY Zenon, <1>3, <2>2, <2>3, SnapshotRecovers DEF OneOfEach
    <2>5. Safe(aof, stores[0])' /\ phase' # "append"
      BY Zenon, <2>1, <2>2, <2>3, <2>4 DEF Safe
    <2> QED
      BY Zenon, <2>1, <2>2, <2>5 DEF TtlInv
  <1>19. CASE TruncateFails
    <2>1. UNCHANGED <<aof, snapshotFile, up, inFlight, now, stores>> /\ phase = "truncate" /\ phase' = "idle"
      BY Zenon, <1>19 DEF TruncateFails, files, process
    <2> QED
      BY Zenon, <1>7, <2>1
  <1>20. ASSUME Crash \/ \E s \in This.savers : RenameThrows(s)
         PROVE  TtlInv'
    <2>1. aof' = aof /\ up' = FALSE
      BY Zenon, <1>2, <1>20 DEF Crash, RenameThrows, Dies, Assigning
    <2> QED
      BY Zenon, <1>5, <2>1 DEF TtlInv
  <1>21. CASE Restart
    <2>1. UNCHANGED <<aof, snapshotFile, now>> /\ ~up /\ phase' = phase /\ stores' = Recovered'
      BY Zenon, <1>21 DEF Restart, files, lock
    <2>2. phase' # "append" /\ Section' = Section
      BY Zenon, <2>1 DEF TypeInv, LockInv, Section
    <2> DEFINE m == After(aof, loadSnapshot(Section, now), now)
    <2>3. stores'[0] = m
      BY Zenon, <1>4, <2>1, <2>2 DEF Recovered, OneOfEach, After
    <2>4. Recovers(aof, Section, m, now) /\ Rebuilds(aof, m, now)
      BY Zenon, <1>3, <1>5, StartRecovers DEF OneOfEach
    <2> HIDE DEF m
    <2>5. Safe(aof, stores[0])'
      BY Zenon, <2>1, <2>2, <2>3, <2>4 DEF Safe
    <2> QED
      BY Zenon, <1>5, <2>1, <2>2, <2>5 DEF TtlInv
  <1>22. ASSUME NEW d \in Db, NEW k \in Key, DropExpired(d, k)
         PROVE  TtlInv'
    <2>1. /\ UNCHANGED <<aof, snapshotFile, up, inFlight, now, phase>> /\ {k} \subseteq Expired(stores[d], now)
          /\ stores' = [stores EXCEPT ![d] = Without(stores[d], {k})]
      BY Zenon, <1>22 DEF DropExpired, process, log, lock, files
    <2>2. d = 0
      BY Zenon, <1>3 DEF OneOfEach
    <2> QED
      BY Zenon, <1>14, <2>1, <2>2
  <1>23. CASE Tick
    <2>1. UNCHANGED <<aof, snapshotFile, up, inFlight, stores, phase>> /\ now' = now + 1
      BY Zenon, <1>23 DEF Tick, process, log, lock, files
    <2>2. now <= now' /\ Alike(stores[0], stores'[0], now')
      BY SMTT(30), <1>3, <2>1, AlikeSelf DEF OneOfEach
    <2> QED
      BY Zenon, <1>6, <2>1, <2>2
  <1> QED
    BY Zenon, <1>8, <1>9, <1>10, <1>11, <1>12, <1>15, <1>16, <1>17, <1>18, <1>19, <1>20, <1>21, <1>22, <1>23 DEF Next

\* On a server with one database whose log takes every write, and for commands
\* that set the value and the deadline of a key outright, every crash point
\* loses nothing: in any number of lives, also between the rename of a snapshot
\* and the truncation of the log, and when that truncation fails.  A start brings
\* back every live key with its value and no earlier deadline, unless its
\* deadline in the snapshot has passed, and any other key only with a deadline.
THEOREM RecoveryTheorem == Spec => []RecoversUpToTtl
  <1>1. TypeInv /\ TtlInv => RecoversUpToTtl
    <2> SUFFICES ASSUME TypeInv, TtlInv, Assigning, up, NEW d \in Db
                 PROVE  LET r == Contents(Recovered)[d]
                            m == Contents(Acknowledged)[d]
                        IN /\ \A k \in DOMAIN m \ DOMAIN r : Outlived(k)
                           /\ \A k \in DOMAIN m \cap DOMAIN r :
                                /\ r[k] = [m[k] EXCEPT !.expiresAt = r[k].expiresAt]
                                /\ r[k].expiresAt = Never <=> m[k].expiresAt = Never
                                /\ r[k].expiresAt >= m[k].expiresAt
                           /\ \A k \in DOMAIN r \ DOMAIN m : r[k].expiresAt # Never
      BY Zenon DEF RecoversUpToTtl
    <2> DEFINE a == Acknowledged[0]
               b == loadSnapshot(Section, now)
               q == After(aof, b, now)
    <2>1. OneOfEach /\ d = 0
      BY Zenon, OneDatabase DEF OneOfEach
    <2>2. Recovers(aof, Section, a, now) /\ GoodStore(a) /\ aof \in Seq(Assignment)
      BY Zenon, <2>1 DEF TtlInv, Safe, Acknowledged, OneOfEach
    <2>3. GoodStore(q)
      <3>1. GoodStore(b)
        BY Zenon, <2>1, ImageGood DEF OneOfEach
      <3> QED
        BY Zenon, <2>1, <2>2, <3>1, AfterSteps DEF OneOfEach
    <2>4. Recovered[0] = q
      BY Zenon, <2>1 DEF Recovered, After, OneOfEach
    <2>5. Contents(Recovered)[d] = Seen(q, now) /\ Contents(Acknowledged)[d] = Seen(a, now)
      BY ZenonT(30), <2>1, <2>4 DEF Contents
    <2> HIDE DEF a
    <2>6. \A k \in Key : Tracks(q, now, a, now, k, k \in Expired(Section, now))
      BY SMTT(30), <2>1, <2>2 DEF Recovers, OneOfEach
    <2>7. \A k : k \in Expired(Section, now) => Outlived(k)
      BY Zenon, EmptyMapType DEF Outlived, Section, Expired
    <2> HIDE DEF q
    <2>8. LET r == Seen(q, now)
              m == Seen(a, now)
          IN /\ \A k \in DOMAIN m \ DOMAIN r : k \in Expired(Section, now)
             /\ \A k \in DOMAIN m \cap DOMAIN r :
                  /\ r[k] = [m[k] EXCEPT !.expiresAt = r[k].expiresAt]
                  /\ r[k].expiresAt = Never <=> m[k].expiresAt = Never
                  /\ r[k].expiresAt >= m[k].expiresAt
             /\ \A k \in DOMAIN r \ DOMAIN m : r[k].expiresAt # Never
      BY SMTT(30), <2>2, <2>3, <2>6, SeenTracks
    <2> QED
      BY ZenonT(30), <2>5, <2>7, <2>8
  <1>2. TypeInv /\ CheckpointInv /\ TtlInv /\ [Next]_vars => TtlInv'
    BY Zenon, NextTtlInv
  <1> QED
    BY <1>1, <1>2, InitTypeInv, NextTypeInv, InitCheckpointInv, NextCheckpointInv, InitTtlInv, PTL DEF Spec

=============================================================================
