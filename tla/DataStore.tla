----------------------------- MODULE DataStore ------------------------------
(***************************************************************************)
(* The logical databases of the server and the methods of                  *)
(* datastore/DataStore.cpp, one action each.  A method holds its store's   *)
(* mutex_ from its first access to its return (moveKeyTo holds both        *)
(* stores'), so one method is one step; KEYS and DBSIZE take the mutex     *)
(* twice and are two steps.  Threads call the methods in any order.        *)
(***************************************************************************)
EXTENDS StoreOps

CONSTANTS
  Db,               \* indices of the logical databases
  Scanner,          \* threads that run KEYS or DBSIZE
  EvictionConfigs,  \* configurations the server may be started with
  Ttl,              \* seconds given to SET ... EX (-1: none) and EXPIRE
  MaxTime,          \* bound: the clock stops here
  MaxLen,           \* bound: chunks of a string, elements of a list
  MaxInt            \* bound: absolute value of a counter

ASSUME ConfigAssumption ==
  EvictionConfigs \subseteq [maxKeys : Nat, maxMemoryBytes : Nat, policy : EvictionPolicy]

ASSUME BoundAssumption == Ttl \subseteq Int /\ MaxTime \in Nat /\ MaxLen \in Nat /\ MaxInt \in Nat

VARIABLES
  values,          \* values_ of every store
  now,             \* what nowMillis() reads
  evictionConfig,  \* set once, before the server starts
  scanning         \* <<c, d, t>>: Scanner c swept store d at time t and has not yet read it

vars == <<values, now, evictionConfig, scanning>>

\* Types: every database holds a map from keys to ValueObjects of the declared shape.
TypeOK ==
  /\ DOMAIN values = Db /\ \A d \in Db : IsStore(values[d])
  /\ now \in Nat
  /\ evictionConfig \in EvictionConfigs
  /\ scanning \subseteq Scanner \X Db \X Nat

Init ==
  /\ values = [d \in Db |-> EmptyMap]
  /\ now = 0
  /\ evictionConfig \in EvictionConfigs
  /\ scanning = {}

-----------------------------------------------------------------------------

StoreBecomes(d, s) ==
  /\ values' = [values EXCEPT ![d] = s]
  /\ UNCHANGED <<now, evictionConfig, scanning>>

\* The end of every method that calls evictIfNeededLocked.
StoreBecomesEvicted(d, s) ==
  \E E \in evictIfNeeded(s, evictionConfig) : StoreBecomes(d, Without(s, E))

Found(d, k) == Purged(values[d], k, now)

\* A read: erases its key when expired, else touches it when it answers from it.
Lookup(d, k, answers) ==
  StoreBecomes(d, IF answers THEN Touched(Found(d, k), k, now) ELSE Found(d, k))

\* A write that creates or updates: nothing but the lookup when it fails.
Upsert(d, k, succeeds, s) ==
  \/ ~succeeds /\ StoreBecomes(d, Found(d, k))
  \/ succeeds /\ StoreBecomesEvicted(d, s)

\* A removal from a collection: nothing but the lookup when it fails.
Shrink(d, k, type, s) ==
  StoreBecomes(d, IF HasType(Found(d, k), k, type) THEN s ELSE Found(d, k))

-----------------------------------------------------------------------------
\* Keys and deadlines.

set(d, k, v, seconds) == StoreBecomesEvicted(d, WithString(values[d], k, v, seconds, now))

mset(d, entries) == StoreBecomesEvicted(d, WithStrings(values[d], entries, now))

del(d, k) == StoreBecomes(d, Without(values[d], {k}))

exists(d, k) == Lookup(d, k, k \in DOMAIN Found(d, k))

type(d, k) == Lookup(d, k, k \in DOMAIN Found(d, k))

memoryUsage(d, k) == Lookup(d, k, k \in DOMAIN Found(d, k))

expire(d, k, seconds) ==
  LET s == Found(d, k)
  IN StoreBecomes(d, IF k \in DOMAIN s THEN WithDeadline(s, k, now + seconds * Second) ELSE s)

ttl(d, k) ==
  LET s == Found(d, k)
  IN Lookup(d, k, k \in DOMAIN s /\ s[k].expiresAt # Never)

persist(d, k) ==
  LET s == Found(d, k)
  IN Upsert(d, k, k \in DOMAIN s /\ s[k].expiresAt # Never,
            Touched(WithDeadline(s, k, Never), k, now))

rename(d, source, destination) ==
  LET s == Found(d, source)
  IN Upsert(d, source, source \in DOMAIN s /\ source # destination,
            Renamed(s, source, destination, now))

\* Slip: the key arrives without its deadline.
moveKeyToFresh(d, k, e) ==
  LET source == Found(d, k)
      destination == Found(e, k)
      arrived == Put(destination, k, [Touched(source, k, now)[k] EXCEPT !.expiresAt = Never])
  IN /\ d # e
     /\ k \in DOMAIN source /\ k \notin DOMAIN destination
     /\ \E E \in evictIfNeeded(arrived, evictionConfig) :
          values' = [values EXCEPT ![d] = Without(source, {k}), ![e] = Without(arrived, E)]
     /\ UNCHANGED <<now, evictionConfig, scanning>>

\* Moving to the same store returns at once; a live key at the destination
\* stops the move; only the destination can have grown, and only it evicts.
moveKeyTo(d, k, e) ==
  LET source == Found(d, k)
      destination == Found(e, k)
      arrived == Put(destination, k, Touched(source, k, now)[k])
  IN /\ d # e
     /\ \/ /\ k \notin DOMAIN source \/ k \in DOMAIN destination
           /\ StoreBecomes(d, source)
        \/ /\ k \in DOMAIN source /\ k \notin DOMAIN destination
           /\ \E E \in evictIfNeeded(arrived, evictionConfig) :
                values' = [values EXCEPT ![d] = Without(source, {k}),
                                         ![e] = Without(arrived, E)]
           /\ UNCHANGED <<now, evictionConfig, scanning>>

flushdb(d) == StoreBecomes(d, EmptyMap)

-----------------------------------------------------------------------------
\* Strings.

get(d, k) == Lookup(d, k, HasType(Found(d, k), k, "string"))

strlen(d, k) == Lookup(d, k, HasType(Found(d, k), k, "string"))

mget(d, K) ==
  LET s == Without(values[d], K \cap Expired(values[d], now))
  IN StoreBecomes(d, [k \in DOMAIN s |->
       IF k \in K /\ s[k].type = "string" THEN Touched(s, k, now)[k] ELSE s[k]])

incrBy(d, k, delta) ==
  LET s == Found(d, k)
  IN /\ Incrementable(s, k) => CurrentInteger(s, k) + delta \in -MaxInt..MaxInt
     /\ Upsert(d, k, Incrementable(s, k), WithIncrement(s, k, delta, now))

\* Slip: APPEND returns without evictIfNeededLocked.
appendUnevicted(d, k, suffix) ==
  LET s == Found(d, k)
  IN /\ Len(ObjectAt(s, k, "string", now).value) < MaxLen
     /\ StoreBecomes(d, IF Accepts(s, k, "string") THEN WithSuffix(s, k, suffix, now) ELSE s)

append(d, k, suffix) ==
  LET s == Found(d, k)
  IN /\ Len(ObjectAt(s, k, "string", now).value) < MaxLen
     /\ Upsert(d, k, Accepts(s, k, "string"), WithSuffix(s, k, suffix, now))

-----------------------------------------------------------------------------
\* Lists, hashes and sets.

lpush(d, k, elems) ==
  LET s == Found(d, k)
  IN /\ Len(ObjectAt(s, k, "list", now).list \o elems) <= MaxLen
     /\ Upsert(d, k, Accepts(s, k, "list"), WithHeads(s, k, elems, now))

rpush(d, k, elems) ==
  LET s == Found(d, k)
  IN /\ Len(ObjectAt(s, k, "list", now).list \o elems) <= MaxLen
     /\ Upsert(d, k, Accepts(s, k, "list"), WithTails(s, k, elems, now))

lpop(d, k) ==
  LET s == Found(d, k)
  IN Shrink(d, k, "list", IF s[k].list = <<>> THEN s ELSE WithRest(s, k, Tail(s[k].list), now))

rpop(d, k) ==
  LET s == Found(d, k)
  IN Shrink(d, k, "list", IF s[k].list = <<>> THEN s ELSE WithRest(s, k, Front(s[k].list), now))

lrange(d, k, start, stop) ==
  LET s == Found(d, k)
      range == normalizeRange(start, stop, Len(s[k].list))
  IN Lookup(d, k, HasType(s, k, "list") /\ range[1] <= range[2])

hset(d, k, field, elem) ==
  LET s == Found(d, k)
  IN Upsert(d, k, Accepts(s, k, "hash"), WithField(s, k, field, elem, now))

hget(d, k, field) ==
  LET s == Found(d, k)
  IN Lookup(d, k, HasType(s, k, "hash") /\ field \in DOMAIN s[k].hash)

hdel(d, k, field) == Shrink(d, k, "hash", WithoutField(Found(d, k), k, field, now))

hexists(d, k) == Lookup(d, k, HasType(Found(d, k), k, "hash"))

hgetall(d, k) == Lookup(d, k, HasType(Found(d, k), k, "hash"))

sadd(d, k, members) ==
  LET s == Found(d, k)
  IN Upsert(d, k, Accepts(s, k, "set"), WithMembers(s, k, members, now))

srem(d, k, members) == Shrink(d, k, "set", WithoutMembers(Found(d, k), k, members, now))

sismember(d, k) == Lookup(d, k, HasType(Found(d, k), k, "set"))

smembers(d, k) == Lookup(d, k, HasType(Found(d, k), k, "set"))

scard(d, k) == Lookup(d, k, HasType(Found(d, k), k, "set"))

-----------------------------------------------------------------------------
\* Sweeps over a whole store.

Swept(d) == Without(values[d], Expired(values[d], now))

\* Slip: the worker sweeps one database only.
removeExpiredFromOne(d) == d = (CHOOSE e \in Db : TRUE) /\ StoreBecomes(d, Swept(d))

removeExpired(d) == StoreBecomes(d, Swept(d))

snapshot(d) == StoreBecomes(d, Swept(d))

\* Slip: keys and dbsize without removeExpired.
ScanNoSweep(c, d) ==
  /\ \A scan \in scanning : scan[1] # c
  /\ scanning' = scanning \cup {<<c, d, now>>}
  /\ UNCHANGED <<values, now, evictionConfig>>

\* keys and dbsize: removeExpired in a critical section of its own ...
ScanSweep(c, d) ==
  /\ \A scan \in scanning : scan[1] # c
  /\ scanning' = scanning \cup {<<c, d, now>>}
  /\ values' = [values EXCEPT ![d] = Swept(d)]
  /\ UNCHANGED <<now, evictionConfig>>

\* ... and the store read in a second one.
ScanRead(c, d) ==
  /\ \E scan \in scanning : scan[1] = c /\ scan[2] = d
  /\ scanning' = {scan \in scanning : scan[1] # c}
  /\ UNCHANGED <<values, now, evictionConfig>>

Tick ==
  /\ now < MaxTime
  /\ now' = now + 1
  /\ UNCHANGED <<values, evictionConfig, scanning>>

-----------------------------------------------------------------------------

Arguments == {<<x>> : x \in Elem} \cup (Elem \X Elem)

KeyStep(d, k) ==
  \/ \E v \in Text \cup {0}, t \in Ttl : set(d, k, v, t)
  \/ del(d, k) \/ exists(d, k) \/ type(d, k) \/ memoryUsage(d, k)
  \/ \E t \in Ttl \cap Nat : expire(d, k, t)
  \/ ttl(d, k) \/ persist(d, k)
  \/ \E destination \in Key : rename(d, k, destination)
  \/ \E e \in Db : moveKeyTo(d, k, e)

StringStep(d, k) ==
  \/ get(d, k) \/ strlen(d, k)
  \/ \E delta \in {-1, 1} : incrBy(d, k, delta)
  \/ \E suffix \in Text : append(d, k, suffix)

CollectionStep(d, k) ==
  \/ \E elems \in Arguments : lpush(d, k, elems) \/ rpush(d, k, elems)
  \/ lpop(d, k) \/ rpop(d, k)
  \/ \E start, stop \in {-1, 1} : lrange(d, k, start, stop)
  \/ \E field \in Field, elem \in Elem : hset(d, k, field, elem)
  \/ \E field \in Field : hget(d, k, field) \/ hdel(d, k, field)
  \/ hexists(d, k) \/ hgetall(d, k)
  \/ \E members \in (SUBSET Elem) \ {{}} : sadd(d, k, members) \/ srem(d, k, members)
  \/ sismember(d, k) \/ smembers(d, k) \/ scard(d, k)

StoreStep(d) ==
  \/ \E K \in SUBSET Key : mget(d, K)
  \/ \E K \in (SUBSET Key) \ {{}} : \E entries \in [K -> Text] : mset(d, entries)
  \/ flushdb(d) \/ removeExpired(d) \/ snapshot(d)
  \/ \E c \in Scanner : ScanSweep(c, d) \/ ScanRead(c, d)

Next ==
  \/ Tick
  \/ \E d \in Db : StoreStep(d)
  \/ \E d \in Db, k \in Key : KeyStep(d, k) \/ StringStep(d, k) \/ CollectionStep(d, k)

Spec == Init /\ [][Next]_vars

\* ExpiryWorker::run sweeps every store about once a second for as long as the
\* server runs, whatever the clients do.
FairSpec == Spec /\ \A d \in Db : WF_vars(removeExpired(d))

-----------------------------------------------------------------------------
\* Properties.

\* An object holds the payload of its own type and no other, and a collection
\* is never empty: every pop, HDEL and SREM that empties one erases the key,
\* every overwrite drops the old payload (estimateObjectBytes adds up all four).
WellFormed == \A d \in Db : \A k \in DOMAIN values[d] : PayloadMatches(values[d][k])

\* Under a policy that may evict any key the store is within its limits
\* whenever its mutex is free: every method that can grow it evicts before it returns.
WithinLimits ==
  evictionConfig.policy \in {"allkeys-lru", "random"} =>
    \A d \in Db : ~overEvictionLimit(values[d], evictionConfig)

\* Under a policy that evicts keys with a TTL, a store is over its limits only
\* when no key has one (docs/configuration.md).
VolatileWithinLimits ==
  evictionConfig.policy \in {"volatile-lru", "ttl-priority"} =>
    \A d \in Db : overEvictionLimit(values[d], evictionConfig) =>
                    \A k \in DOMAIN values[d] : values[d][k].expiresAt = Never

\* EXPIRE is the only command after which that stops being so: every other
\* method that adds a key, grows one or gives it a deadline evicts.
VolatileLimitKept ==
  [][VolatileWithinLimits /\ ~VolatileWithinLimits' =>
       \E d \in Db, k \in Key, t \in Ttl \cap Nat : expire(d, k, t)]_vars

Live(d) == DOMAIN values[d] \ Expired(values[d], now)

\* Object o is object p, perhaps touched since.
CameFrom(o, p) == o = [p EXCEPT !.lastAccessedAt = o.lastAccessedAt]

\* Once its deadline has passed an object is never read, extended or built upon:
\* at the next step it is untouched garbage, or gone, or its key holds an
\* object created by that very step or carried there from a live key.
ExpiredStaysDead ==
  [][\A d \in Db : \A k \in Expired(values[d], now) \cap DOMAIN values'[d] :
       \/ values'[d][k] = values[d][k]
       \/ values'[d][k].createdAt = now /\ values'[d][k].lastAccessedAt = now
       \/ \E e \in Db : \E j \in Live(e) : CameFrom(values'[d][k], values[e][j])]_vars

\* TTL of a live key with a deadline answers at least one second, and never
\* more than the longest TTL ever asked for: the remainder is rounded up.
TtlReplyInRange ==
  \A d \in Db : \A k \in Live(d) :
    values[d][k].expiresAt # Never =>
      /\ RemainingSeconds(values[d][k], now) >= 1
      /\ \E t \in Ttl : RemainingSeconds(values[d][k], now) <= t

\* A command that names key k of store d and sets, clears or brings a deadline.
SetsDeadline(d, k) ==
  \/ \E v \in Text \cup {0}, t \in Ttl : set(d, k, v, t)
  \/ \E K \in SUBSET Key : \E entries \in [K -> Text] : k \in K /\ mset(d, entries)
  \/ \E t \in Ttl \cap Nat : expire(d, k, t)
  \/ persist(d, k)
  \/ \E j \in Key : rename(d, j, k)

\* A live key's deadline moves only when a command that sets deadlines names
\* it: INCR, APPEND, pushes, HSET and SADD update in place and keep the TTL.
DeadlineMovesOnlyByCommand ==
  [][\A d \in Db : \A k \in Live(d) \cap DOMAIN values'[d] :
       values'[d][k].expiresAt # values[d][k].expiresAt => SetsDeadline(d, k)]_vars

\* A method that updates key k in place and then evicts.
InPlaceWrite(d, k) ==
  \/ \E suffix \in Text : append(d, k, suffix)
  \/ \E elems \in Arguments : lpush(d, k, elems) \/ rpush(d, k, elems)

\* A method that stores under key k and then evicts.
Writes(d, k) ==
  \/ InPlaceWrite(d, k)
  \/ \E v \in Text \cup {0}, t \in Ttl : set(d, k, v, t)
  \/ \E delta \in {-1, 1} : incrBy(d, k, delta)
  \/ \E field \in Field, elem \in Elem : hset(d, k, field, elem)
  \/ \E members \in (SUBSET Elem) \ {{}} : sadd(d, k, members)

\* Under allkeys-lru a write evicts the key it wrote only after every other key,
\* unless another was used in the same millisecond: it touches its key first.
LruKeepsWritten ==
  [][\A d \in Db, k \in Key :
       /\ evictionConfig.policy = "allkeys-lru"
       /\ \A j \in DOMAIN values[d] \ {k} : EvictionRank(values[d][j], "allkeys-lru") < now
       /\ Writes(d, k)
       => k \in DOMAIN values'[d] \/ DOMAIN values'[d] = {}]_vars

\* append, lpush and rpush end by reading the size of the value they updated
\* through the iterator they hold: the key is still there.
RepliesFromStoredKey ==
  [][\A d \in Db, k \in Key :
       k \in Live(d) /\ InPlaceWrite(d, k) => k \in DOMAIN values'[d]]_vars

\* KEYS and DBSIZE may report a key that expires while they run, but none whose
\* deadline had passed when they began: whatever the other threads store, rename
\* or move between the sweep and the read, no key of the store is that old.
ScanFindsNoneExpired ==
  \A scan \in scanning : \A k \in DOMAIN values[scan[2]] :
    values[scan[2]][k].expiresAt = Never \/ values[scan[2]][k].expiresAt >= scan[3]

\* Every key whose deadline has passed is removed or overwritten, also when no
\* client ever asks for it again.
ExpiredCollected ==
  \A d \in Db, k \in Key : k \in Expired(values[d], now) ~> k \notin Expired(values[d], now)

=============================================================================
