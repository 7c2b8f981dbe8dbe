-------------------------- MODULE RefinementProofs --------------------------
(***************************************************************************)
(* The stores implement Cache, nothing brings an object back whose deadline *)
(* has passed, and deadlines move only by command, for every set of keys,  *)
(* databases, arguments and every eviction configuration.                  *)
(***************************************************************************)
EXTENDS StoreRefinement, DataStoreProofs

\* Clients do not notice that expired objects are freed.
LEMMA ViewPurged ==
  ASSUME NEW s, NEW t, NEW E \in SUBSET Expired(s, t)
  PROVE  View(Without(s, E), t) = View(s, t)
  BY Zenon DEF View, Without, Expired

\* What clients see of a lookup is what they saw before it.
LEMMA ViewFound ==
  ASSUME NEW d \in Db, NEW k
  PROVE  View(Found(d, k), now) = View(values[d], now)
  <1>1. {k} \cap Expired(values[d], now) \in SUBSET Expired(values[d], now)
    BY Zenon
  <1> QED
    BY Zenon, <1>1, ViewPurged DEF Found, Purged

\* A stored object is seen unless it has expired already.
LEMMA ViewPut ==
  ASSUME NEW s, NEW k, NEW o, NEW t
  PROVE  /\ ~isExpired(o, t) => View(Put(s, k, o), t) = Promise!With(View(s, t), k, Seen(o))
         /\ isExpired(o, t) => View(Put(s, k, o), t) = Promise!Minus(View(s, t), k)
  BY Zenon DEF View, Put, Expired, Promise!With, Promise!Minus

\* Updating an object in place is storing it.
LEMMA ExceptIsPut ==
  ASSUME NEW s, IsStore(s), NEW k \in DOMAIN s, NEW o
  PROVE  [s EXCEPT ![k] = o] = Put(s, k, o)
  BY Zenon DEF IsStore, Put
-----------------------------------------------------------------------------
\* How a store settles.

\* Clients see what the method computed, less what was evicted, in database d,
\* and nothing new in the others.
Settles(d, s) ==
  /\ Promise!SurvivesFrom(Entries'[d], View(s, now))
  /\ \A e \in Db \ {d} : Entries'[e] = Entries[e]
  /\ UNCHANGED <<now, evictionConfig>>

\* The loop of evictIfNeededLocked only takes keys the policy may take.
LEMMA EvictedAreEvictable ==
  ASSUME TypeOK, NEW s, NEW E \in evictIfNeeded(s, evictionConfig), NEW k \in E
  PROVE  k \in DOMAIN s /\ Promise!Evictable(s[k])
  <1>1. k \in Candidates(s, evictionConfig.policy)
    BY Zenon DEF evictIfNeeded
  <1>2. evictionConfig.policy \in EvictionPolicy
    BY Zenon, ConfigAssumption DEF TypeOK
  <1> QED
    BY Zenon, <1>1, <1>2 DEF Candidates, EvictionPolicy, Promise!Evictable, Promise!Never, Never

\* Seeing an object is seeing its deadline.
LEMMA SeenEvictable ==
  ASSUME NEW o
  PROVE  Promise!Evictable(Seen(o)) <=> Promise!Evictable(o)
  BY Zenon DEF Promise!Evictable, Seen

\* Eviction takes nothing else from what clients see.
LEMMA SurvivesEviction ==
  ASSUME TypeOK, NEW s, NEW E \in evictIfNeeded(s, evictionConfig)
  PROVE  Promise!SurvivesFrom(View(Without(s, E), now), View(s, now))
  <1>1. \A k \in DOMAIN View(s, now) \cap E : Promise!Evictable(View(s, now)[k])
    BY Zenon, EvictedAreEvictable, SeenEvictable DEF View
  <1>2. /\ DOMAIN View(Without(s, E), now) = DOMAIN View(s, now) \ E
        /\ \A k \in DOMAIN View(s, now) \ E : View(Without(s, E), now)[k] = View(s, now)[k]
    BY Zenon DEF View, Without, Expired
  <1> DEFINE before == View(s, now)
             after == View(Without(s, E), now)
  <1> HIDE DEF before, after
  <1>3. /\ DOMAIN after = DOMAIN before \ E
        /\ \A k \in DOMAIN before \ E : after[k] = before[k]
        /\ \A k \in DOMAIN before \cap E : Promise!Evictable(before[k])
    BY Zenon, <1>1, <1>2 DEF before, after
  <1>4. Promise!SurvivesFrom(after, before)
    BY Zenon, <1>3 DEF Promise!SurvivesFrom
  <1> QED
    BY Zenon, <1>4 DEF before, after

\* A map survives from itself.
LEMMA SurvivesItself ==
  ASSUME NEW s
  PROVE  Promise!SurvivesFrom(s, s)
  BY Zenon DEF Promise!SurvivesFrom

\* What the clients see after a method that leaves s in database d.
LEMMA BecomesSeen ==
  ASSUME TypeOK, NEW d \in Db, NEW s, StoreBecomes(d, s)
  PROVE  /\ Entries'[d] = View(s, now)
         /\ \A e \in Db \ {d} : Entries'[e] = Entries[e]
         /\ UNCHANGED <<now, evictionConfig>>
  <1>1. /\ values'[d] = s /\ now' = now
        /\ \A e \in Db \ {d} : values'[e] = values[e]
    BY Zenon DEF StoreBecomes, TypeOK
  <1> QED
    BY <1>1 DEF StoreBecomes, Entries

\* A method without eviction settles.
LEMMA BecomesSettles ==
  ASSUME TypeOK, NEW d \in Db, NEW s, StoreBecomes(d, s)
  PROVE  Settles(d, s)
  BY Zenon, BecomesSeen, SurvivesItself DEF Settles

\* So does one that evicts.
LEMMA EvictedSettles ==
  ASSUME TypeOK, NEW d \in Db, NEW s, StoreBecomesEvicted(d, s)
  PROVE  Settles(d, s)
  <1>1. PICK E \in evictIfNeeded(s, evictionConfig) : StoreBecomes(d, Without(s, E))
    BY Zenon DEF StoreBecomesEvicted
  <1>2. Promise!SurvivesFrom(View(Without(s, E), now), View(s, now))
    BY Zenon, SurvivesEviction
  <1> QED
    BY Zenon, <1>1, <1>2, BecomesSeen DEF Settles

\* A method that leaves what clients see as it was is a step of no command.
LEMMA Invisible ==
  ASSUME TypeOK, NEW d \in Db, NEW s, StoreBecomes(d, s), View(s, now) = View(values[d], now)
  PROVE  UNCHANGED Promise!cacheVars
  <1>1. \A e \in Db : Entries'[e] = Entries[e]
    BY Zenon, BecomesSeen DEF Entries
  <1>2. Entries' = Entries
    BY Zenon, <1>1 DEF Entries
  <1> QED
    BY Zenon, <1>2, BecomesSeen DEF Promise!cacheVars

\* A key changed as one of the commands changes it is a command.
LEMMA KeyChangedIsCommand ==
  ASSUME NEW d \in Db, NEW k \in Key, NEW s, Settles(d, s),
         Promise!KeyChanged(Entries[d], Entries'[d], k)
  PROVE  Promise!CacheNext
  BY Zenon DEF Settles, Promise!CacheNext, Promise!Command

-----------------------------------------------------------------------------
\* The commands, one lemma for what each kind makes of what clients see.

\* A key looked up is there exactly when clients see it.
LEMMA FoundSeen ==
  ASSUME TypeOK, NEW d \in Db, NEW k, NEW s, s = Found(d, k)
  PROVE  /\ IsStore(s) /\ View(s, now) = Entries[d]
         /\ k \in DOMAIN s <=> k \in DOMAIN Entries[d]
         /\ k \in DOMAIN s => ~isExpired(s[k], now) /\ Entries[d][k] = Seen(s[k])
  <1>1. IsStore(s)
    BY Zenon DEF TypeOK, Found, Purged, Without, IsStore
  <1>2. View(s, now) = Entries[d]
    BY Zenon, ViewFound DEF Entries
  <1>3. k \in DOMAIN s => ~isExpired(s[k], now)
    BY Zenon DEF Found, Purged, Without, Expired
  <1>4. k \in DOMAIN s <=> k \in DOMAIN View(s, now)
    BY Zenon, <1>3 DEF View, Expired
  <1>5. k \in DOMAIN s => View(s, now)[k] = Seen(s[k])
    BY Zenon, <1>4 DEF View
  <1> QED
    BY Zenon, <1>1, <1>2, <1>3, <1>4, <1>5

\* A new payload for a key is an update when it keeps type and deadline.
LEMMA UpdateAllowed ==
  ASSUME NEW v, NEW t, NEW k, NEW e, Promise!SurvivesFrom(t, Promise!With(v, k, e)),
         k \in DOMAIN v => e.type = v[k].type /\ e.expiresAt = v[k].expiresAt,
         k \notin DOMAIN v => e.expiresAt = Never
  PROVE  Promise!KeyChanged(v, t, k)
  <1>1. CASE k \in DOMAIN t
    <2>1. t[k] = e
      BY ZenonT(30), <1>1 DEF Promise!SurvivesFrom, Promise!With
    <2>2. Promise!Updated(v, t, k)
      BY Zenon, <1>1, <2>1 DEF Promise!Updated, Promise!Never, Never
    <2> QED
      BY Zenon, <2>2 DEF Promise!KeyChanged
  <1>2. CASE k \notin DOMAIN t
    <2>1. Promise!Evictable(e)
      BY ZenonT(30), <1>2 DEF Promise!SurvivesFrom, Promise!With
    <2>2. k \notin DOMAIN v => evictionConfig.policy \in {"allkeys-lru", "random"}
      BY Zenon, <2>1 DEF Promise!Evictable, Promise!Never, Never
    <2>3. k \in DOMAIN v => Promise!Evictable(v[k])
      BY Zenon, <2>1 DEF Promise!Evictable
    <2>4. Promise!SurvivesFrom(t, v)
      BY ZenonT(30), <1>2, <2>3 DEF Promise!SurvivesFrom, Promise!With
    <2>5. Promise!UpdatedAndLost(v, t, k)
      BY Zenon, <1>2, <2>2, <2>4 DEF Promise!UpdatedAndLost
    <2> QED
      BY Zenon, <2>5 DEF Promise!KeyChanged
  <1> QED
    BY Zenon, <1>1, <1>2

\* INCR, APPEND, pushes, HSET, SADD and removals that leave something.
LEMMA UpdateStep ==
  ASSUME TypeOK, NEW d \in Db, NEW k \in Key, NEW o,
         LET s == Found(d, k)
         IN /\ Settles(d, Put(s, k, o))
            /\ k \in DOMAIN s => o.type = s[k].type /\ o.expiresAt = s[k].expiresAt
            /\ k \notin DOMAIN s => o.expiresAt = Never
  PROVE  Promise!CacheNext
  <1> DEFINE s == Found(d, k)
             v == Entries[d]
             t == Entries'[d]
  <1>0. /\ IsStore(s) /\ View(s, now) = v
        /\ k \in DOMAIN s <=> k \in DOMAIN v
        /\ k \in DOMAIN s => ~isExpired(s[k], now) /\ v[k] = Seen(s[k])
    BY ZenonT(30), FoundSeen
  <1>a. /\ Settles(d, Put(s, k, o))
        /\ k \in DOMAIN s => o.type = s[k].type /\ o.expiresAt = s[k].expiresAt
        /\ k \notin DOMAIN s => o.expiresAt = Never
    BY Zenon
  <1> HIDE DEF s, v, t
  <1>1. ~isExpired(o, now)
    BY Zenon, <1>0, <1>a DEF isExpired
  <1>2. Promise!SurvivesFrom(t, Promise!With(v, k, Seen(o)))
    BY <1>0, <1>1, <1>a, ViewPut DEF Settles, t
  <1>3. /\ k \in DOMAIN v => Seen(o).type = v[k].type /\ Seen(o).expiresAt = v[k].expiresAt
        /\ k \notin DOMAIN v => Seen(o).expiresAt = Never
    BY <1>0, <1>a DEF Seen
  <1>4. Promise!KeyChanged(v, t, k)
    BY Zenon, <1>2, <1>3, UpdateAllowed
  <1> QED
    BY Zenon, <1>4, <1>a, KeyChangedIsCommand DEF v, t

\* DEL, and removals that leave nothing.
LEMMA EraseStep ==
  ASSUME TypeOK, NEW d \in Db, NEW k \in Key, NEW s,
         View(s, now) = Entries[d], k \in DOMAIN Entries[d], Settles(d, Without(s, {k}))
  PROVE  Promise!CacheNext
  <1>1. View(Without(s, {k}), now) = Promise!Minus(Entries[d], k)
    BY Zenon DEF View, Without, Expired, Promise!Minus
  <1>2. Promise!Erased(Entries[d], Entries'[d], k)
    BY Zenon, <1>1 DEF Settles, Promise!Erased
  <1> QED
    BY ZenonT(30), <1>2, KeyChangedIsCommand DEF Promise!KeyChanged

\* Nothing that clients see is overdue.
LEMMA NoneOverdue ==
  ASSUME NEW d \in Db
  PROVE  /\ Promise!Overdue(Entries[d], now) = {}
         /\ DOMAIN Entries[d] \cap Expired(values[d], now) = {}
  BY Zenon DEF Entries, View, Expired, isExpired, Seen, Promise!Overdue, Promise!Never, Never

\* Of a key given a new object, what is alive at once.
LEMMA AliveWith ==
  ASSUME NEW d \in Db, NEW k, NEW e
  PROVE  LET with == Promise!With(Entries[d], k, e)
         IN /\ ~(e.expiresAt # Never /\ e.expiresAt <= now) => Promise!Alive(with, now) = with
            /\ (e.expiresAt # Never /\ e.expiresAt <= now)
                 => Promise!Alive(with, now) = Promise!Minus(Entries[d], k)
  <1> DEFINE v == Entries[d]
  <1>1. \A j \in DOMAIN v : ~(v[j].expiresAt # Never /\ v[j].expiresAt <= now)
    BY Zenon, NoneOverdue DEF Promise!Overdue, Promise!Never, Never
  <1> HIDE DEF v
  <1>2. LET with == Promise!With(v, k, e)
        IN /\ ~(e.expiresAt # Never /\ e.expiresAt <= now) => Promise!Alive(with, now) = with
           /\ (e.expiresAt # Never /\ e.expiresAt <= now)
                => Promise!Alive(with, now) = Promise!Minus(v, k)
    BY Zenon, <1>1 DEF Promise!With, Promise!Minus, Promise!Alive, Promise!Overdue, Promise!Never, Never
  <1> QED
    BY Zenon, <1>2 DEF v

\* What clients see of an object stored over what they saw before.
LEMMA StoredSeen ==
  ASSUME NEW d \in Db, NEW s, View(s, now) = Entries[d], NEW k, NEW o
  PROVE  View(Put(s, k, o), now) = Promise!Alive(Promise!With(Entries[d], k, Seen(o)), now)
  <1>1. isExpired(o, now) <=> (Seen(o).expiresAt # Never /\ Seen(o).expiresAt <= now)
    BY Zenon DEF isExpired, Seen
  <1> QED
    BY <1>1, ViewPut, AliveWith

\* SET
LEMMA AssignStep ==
  ASSUME TypeOK, NEW d \in Db, NEW k \in Key, NEW v \in Text \cup {0}, NEW seconds \in Ttl,
         set(d, k, v, seconds)
  PROVE  Promise!CacheNext
  <1> DEFINE o == [NewObject("string", now) EXCEPT
                     !.value = <<v>>, !.expiresAt = Deadline(seconds, now)]
  <1>1. Settles(d, Put(values[d], k, o))
    BY Zenon, EvictedSettles DEF set, WithString
  <1>2. Seen(o) = Promise!StringEntry(v, Promise!Deadline(seconds))
    BY Zenon DEF NewObject, Seen, Deadline, EmptyMap, Never,
           Promise!StringEntry, Promise!Deadline, Promise!Nothing, Promise!Never
  <1> HIDE DEF o
  <1>3. View(Put(values[d], k, o), now) = Promise!Alive(Promise!With(Entries[d], k, Seen(o)), now)
    BY StoredSeen DEF Entries
  <1>4. Promise!Assigned(Entries[d], Entries'[d], k, v, seconds)
    BY Zenon, <1>1, <1>2, <1>3 DEF Settles, Promise!Assigned
  <1>5. Promise!KeyChanged(Entries[d], Entries'[d], k)
    BY ZenonT(30), <1>4 DEF Promise!KeyChanged
  <1> QED
    BY ZenonT(30), <1>1, <1>5, KeyChangedIsCommand

\* MSET
LEMMA AllAssignedStep ==
  ASSUME TypeOK, NEW d \in Db, NEW K \in (SUBSET Key) \ {{}}, NEW strings \in [K -> Text],
         mset(d, strings)
  PROVE  Promise!CacheNext
  <1> DEFINE v == Entries[d]
             o(k) == [NewObject("string", now) EXCEPT !.value = <<strings[k]>>]
  <1>1. Settles(d, WithStrings(values[d], strings, now))
    BY Zenon, EvictedSettles DEF mset
  <1>2. \A k \in K : /\ Seen(o(k)) = Promise!StringEntry(strings[k], Promise!Never)
                     /\ ~isExpired(o(k), now)
    BY Zenon DEF NewObject, Seen, EmptyMap, Never, isExpired,
           Promise!StringEntry, Promise!Nothing, Promise!Never
  <1>3. WithStrings(values[d], strings, now)
          = [k \in DOMAIN values[d] \cup K |-> IF k \in K THEN o(k) ELSE values[d][k]]
    BY Zenon DEF WithStrings
  <1> HIDE DEF o
  <1>4. View(WithStrings(values[d], strings, now), now)
          = [k \in DOMAIN v \cup K |-> IF k \in K THEN Promise!StringEntry(strings[k], Promise!Never)
                                                  ELSE v[k]]
    BY <1>2, <1>3 DEF Entries, View, Expired
  <1>5. Promise!AllAssigned(v, Entries'[d], strings)
    BY Zenon, <1>1, <1>4 DEF Settles, Promise!AllAssigned
  <1> QED
    BY ZenonT(30), <1>1, <1>5 DEF Settles, Promise!CacheNext, Promise!Command

\* EXPIRE and PERSIST
LEMMA RedeadlineStep ==
  ASSUME TypeOK, NEW d \in Db, NEW k \in Key, NEW o, NEW at,
         at \in {Never} \cup {now + seconds * Second : seconds \in Ttl \cap Nat},
         k \in DOMAIN Found(d, k), Settles(d, Put(Found(d, k), k, o)),
         Seen(o) = [Seen(Found(d, k)[k]) EXCEPT !.expiresAt = at]
  PROVE  Promise!CacheNext
  <1> DEFINE s == Found(d, k)
             v == Entries[d]
  <1>1. View(s, now) = v /\ k \in DOMAIN v /\ v[k] = Seen(s[k])
    BY FoundSeen
  <1>2. View(Put(s, k, o), now) = Promise!Alive(Promise!With(v, k, Seen(o)), now)
    BY <1>1, StoredSeen
  <1>3. Promise!With(v, k, Seen(o)) = [v EXCEPT ![k].expiresAt = at]
    <2>1. v = [j \in DOMAIN v |-> v[j]] /\ Seen(o) = [v[k] EXCEPT !.expiresAt = at]
      BY ZenonT(30), <1>1 DEF Entries, View
    <2> HIDE DEF v
    <2> QED
      BY <1>1, <2>1 DEF Promise!With
  <1>4. Promise!Redeadlined(v, Entries'[d], k, at)
    BY Zenon, <1>1, <1>2, <1>3 DEF Settles, Promise!Redeadlined
  <1>5. Promise!KeyChanged(v, Entries'[d], k)
    BY ZenonT(30), <1>4 DEF Promise!KeyChanged, Promise!Never, Never
  <1> QED
    BY ZenonT(30), <1>5, KeyChangedIsCommand

\* RENAME
LEMMA CarryStep ==
  ASSUME TypeOK, NEW d \in Db, NEW k \in Key, NEW j \in Key, j # k, k \in DOMAIN Found(d, k),
         Settles(d, Renamed(Found(d, k), k, j, now))
  PROVE  Promise!CacheNext
  <1> DEFINE s == Found(d, k)
             v == Entries[d]
             o == [s[k] EXCEPT !.lastAccessedAt = now]
  <1>1. /\ IsStore(s) /\ View(s, now) = v /\ k \in DOMAIN v /\ v[k] = Seen(s[k])
        /\ ~isExpired(s[k], now)
    BY Zenon, FoundSeen
  <1>2. s[k] \in ValueObject
    BY Zenon, <1>1 DEF IsStore
  <1>3. Seen(o) = v[k] /\ ~isExpired(o, now)
    BY Zenon, <1>1, <1>2 DEF Seen, isExpired, ValueObject
  <1>4. Settles(d, Without(Put(s, j, o), {k}))
    BY Zenon DEF Renamed
  <1> HIDE DEF o, s, v
  <1>5. View(Put(s, j, o), now) = Promise!With(v, j, v[k])
    BY SMTT(30), <1>1, <1>3, ViewPut
  <1>6. View(Without(Put(s, j, o), {k}), now) = Promise!Minus(View(Put(s, j, o), now), k)
    BY Zenon DEF View, Without, Expired, Promise!Minus
  <1>7. Promise!Carried(v, Entries'[d], k, j)
    BY Zenon, <1>1, <1>4, <1>5, <1>6 DEF Settles, Promise!Carried
  <1>8. Promise!KeyChanged(v, Entries'[d], k)
    BY ZenonT(30), <1>7 DEF Promise!KeyChanged
  <1> QED
    BY ZenonT(30), <1>4, <1>8, KeyChangedIsCommand DEF v

\* Touching an object does not change what clients see of it.
LEMMA TouchedSeen ==
  ASSUME NEW s, IsStore(s), NEW k \in DOMAIN s, NEW t
  PROVE  /\ View(Touched(s, k, now), now) = View(s, now)
         /\ Seen(Touched(s, k, t)[k]) = Seen(s[k])
  <1> DEFINE o == [s[k] EXCEPT !.lastAccessedAt = t]
             p == [s[k] EXCEPT !.lastAccessedAt = now]
  <1>1. s[k] \in ValueObject
    BY Zenon DEF IsStore
  <1>2. /\ Seen(o) = Seen(s[k])
        /\ Seen(p) = Seen(s[k]) /\ (isExpired(p, now) <=> isExpired(s[k], now))
    BY Zenon, <1>1 DEF Seen, isExpired, ValueObject
  <1>3. Touched(s, k, t) = [s EXCEPT ![k] = o] /\ Touched(s, k, now) = [s EXCEPT ![k] = p]
    BY Zenon DEF Touched
  <1> HIDE DEF o, p
  <1>4. View([s EXCEPT ![k] = p], now) = View(s, now)
    BY Zenon, <1>2 DEF View, Expired, IsStore
  <1> QED
    BY Zenon, <1>2, <1>3, <1>4 DEF IsStore

\* A read is a step of no command.
LEMMA LookupStep ==
  ASSUME TypeOK, NEW d \in Db, NEW k, NEW answers \in BOOLEAN,
         answers => k \in DOMAIN Found(d, k), Lookup(d, k, answers)
  PROVE  UNCHANGED Promise!cacheVars
  <1>1. IsStore(Found(d, k)) /\ View(Found(d, k), now) = View(values[d], now)
    BY Zenon, FoundSeen, ViewFound
  <1>2. CASE answers
    <2>1. View(Touched(Found(d, k), k, now), now) = View(Found(d, k), now)
      BY Zenon, <1>1, <1>2, TouchedSeen
    <2> QED
      BY Zenon, <1>1, <1>2, <2>1, Invisible DEF Lookup
  <1>3. CASE ~answers
    BY Zenon, <1>1, <1>3, Invisible DEF Lookup
  <1> QED
    BY Zenon, <1>2, <1>3

-----------------------------------------------------------------------------
\* The methods.

\* A step of the promise, or one that clients do not notice.
Allowed == Promise!CacheNext \/ UNCHANGED Promise!cacheVars

\* A method that only looks its key up.
LEMMA FailStep ==
  ASSUME TypeOK, NEW d \in Db, NEW k, StoreBecomes(d, Found(d, k))
  PROVE  Allowed
  BY Zenon, ViewFound, Invisible DEF Allowed

\* Object o can take the place of what store s holds under k.
Continues(s, k, o) ==
  /\ k \in DOMAIN s => o.type = s[k].type /\ o.expiresAt = s[k].expiresAt
  /\ k \notin DOMAIN s => o.expiresAt = Never

\* The object an upsert starts from continues the one stored, whatever payload
\* it is then given.
LEMMA BaseContinues ==
  ASSUME NEW s, IsStore(s), NEW k, NEW ty \in DataType, NEW t \in Int, NEW x
  PROVE  LET b == ObjectAt(s, k, ty, t)
         IN /\ Continues(s, k, [b EXCEPT !.value = x, !.lastAccessedAt = t])
            /\ Continues(s, k, [b EXCEPT !.list = x, !.lastAccessedAt = t])
            /\ Continues(s, k, [b EXCEPT !.hash = x, !.lastAccessedAt = t])
            /\ Continues(s, k, [b EXCEPT !.set = x, !.lastAccessedAt = t])
  <1> DEFINE b == ObjectAt(s, k, ty, t)
  <1>1. b \in ValueObject
    BY Zenon, NewObjectType DEF ObjectAt, IsStore
  <1>2. Continues(s, k, b)
    BY Zenon DEF Continues, ObjectAt, NewObject
  <1> HIDE DEF b
  <1>3. \A o : o.type = b.type /\ o.expiresAt = b.expiresAt => Continues(s, k, o)
    BY Zenon, <1>2 DEF Continues
  <1>4. /\ Continues(s, k, [b EXCEPT !.value = x, !.lastAccessedAt = t])
        /\ Continues(s, k, [b EXCEPT !.list = x, !.lastAccessedAt = t])
        /\ Continues(s, k, [b EXCEPT !.hash = x, !.lastAccessedAt = t])
        /\ Continues(s, k, [b EXCEPT !.set = x, !.lastAccessedAt = t])
    BY ZenonT(30), <1>1, <1>3 DEF ValueObject
  <1> QED
    BY Zenon, <1>4 DEF b

\* What a removal may make of the store it looked its key up in.
Lessens(s, k, r) ==
  \/ r = s
  \/ r = Without(s, {k})
  \/ \E o : r = Put(s, k, o) /\ Continues(s, k, o)

\* A stored object that loses some of its payload continues it too.
LEMMA RestContinues ==
  ASSUME NEW s, IsStore(s), NEW k \in DOMAIN s, NEW x, NEW t
  PROVE  /\ Lessens(s, k, [s EXCEPT ![k].list = x, ![k].lastAccessedAt = t])
         /\ Lessens(s, k, [s EXCEPT ![k].hash = x, ![k].lastAccessedAt = t])
         /\ Lessens(s, k, [s EXCEPT ![k].set = x, ![k].lastAccessedAt = t])
  <1> DEFINE l == [s[k] EXCEPT !.list = x, !.lastAccessedAt = t]
             h == [s[k] EXCEPT !.hash = x, !.lastAccessedAt = t]
             m == [s[k] EXCEPT !.set = x, !.lastAccessedAt = t]
  <1>1. s[k] \in ValueObject /\ s = [j \in DOMAIN s |-> s[j]]
    BY Zenon DEF IsStore
  <1>2. Continues(s, k, l) /\ Continues(s, k, h) /\ Continues(s, k, m)
    BY Zenon, <1>1 DEF Continues, ValueObject
  <1>3. /\ [s EXCEPT ![k].list = x, ![k].lastAccessedAt = t] = [s EXCEPT ![k] = l]
        /\ [s EXCEPT ![k].hash = x, ![k].lastAccessedAt = t] = [s EXCEPT ![k] = h]
        /\ [s EXCEPT ![k].set = x, ![k].lastAccessedAt = t] = [s EXCEPT ![k] = m]
    BY ZenonT(30), <1>1
  <1> HIDE DEF l, h, m
  <1>4. /\ [s EXCEPT ![k] = l] = Put(s, k, l)
        /\ [s EXCEPT ![k] = h] = Put(s, k, h)
        /\ [s EXCEPT ![k] = m] = Put(s, k, m)
    BY Zenon, ExceptIsPut
  <1>5. /\ Lessens(s, k, Put(s, k, l))
        /\ Lessens(s, k, Put(s, k, h))
        /\ Lessens(s, k, Put(s, k, m))
    BY ZenonT(30), <1>2 DEF Lessens
  <1> QED
    BY ZenonT(30), <1>3, <1>4, <1>5

\* Pops, HDEL and SREM lessen the store.
LEMMA RestLessens ==
  ASSUME NEW s, IsStore(s), NEW k \in DOMAIN s, NEW x, NEW t
  PROVE  /\ Lessens(s, k, WithRest(s, k, x, t))
         /\ Lessens(s, k, WithoutField(s, k, x, t))
         /\ Lessens(s, k, WithoutMembers(s, k, x, t))
  <1> DEFINE h == Without(s[k].hash, {x})
             m == s[k].set \ x
  <1>1. Lessens(s, k, Without(s, {k}))
    BY Zenon DEF Lessens
  <1>2. \A y : /\ Lessens(s, k, [s EXCEPT ![k].list = y, ![k].lastAccessedAt = t])
               /\ Lessens(s, k, [s EXCEPT ![k].hash = y, ![k].lastAccessedAt = t])
               /\ Lessens(s, k, [s EXCEPT ![k].set = y, ![k].lastAccessedAt = t])
    BY ZenonT(30), RestContinues
  <1>3. Lessens(s, k, WithRest(s, k, x, t))
    BY ZenonT(30), <1>1, <1>2 DEF WithRest
  <1>4. Lessens(s, k, WithoutField(s, k, x, t))
    <2>1. Lessens(s, k, [s EXCEPT ![k].hash = h, ![k].lastAccessedAt = t])
      BY ZenonT(30), <1>2
    <2> QED
      BY ZenonT(30), <1>1, <2>1 DEF WithoutField
  <1>5. Lessens(s, k, WithoutMembers(s, k, x, t))
    <2>1. Lessens(s, k, [s EXCEPT ![k].set = m, ![k].lastAccessedAt = t])
      BY ZenonT(30), <1>2
    <2> QED
      BY ZenonT(30), <1>1, <2>1 DEF WithoutMembers
  <1> QED
    BY Zenon, <1>3, <1>4, <1>5

\* INCR, APPEND, pushes, HSET and SADD.
LEMMA UpsertStep ==
  ASSUME TypeOK, NEW d \in Db, NEW k \in Key, NEW succeeds \in BOOLEAN, NEW o,
         Continues(Found(d, k), k, o), Upsert(d, k, succeeds, Put(Found(d, k), k, o))
  PROVE  Allowed
  <1>1. CASE StoreBecomes(d, Found(d, k))
    BY Zenon, <1>1, FailStep
  <1>2. CASE StoreBecomesEvicted(d, Put(Found(d, k), k, o))
    <2>1. Settles(d, Put(Found(d, k), k, o))
      BY Zenon, <1>2, EvictedSettles
    <2> QED
      BY Zenon, <2>1, UpdateStep DEF Continues, Allowed
  <1> QED
    BY Zenon, <1>1, <1>2 DEF Upsert

\* Pops, HDEL and SREM.
LEMMA ShrinkStep ==
  ASSUME TypeOK, NEW d \in Db, NEW k \in Key, NEW ty, NEW r, Shrink(d, k, ty, r),
         HasType(Found(d, k), k, ty) => Lessens(Found(d, k), k, r)
  PROVE  Allowed
  <1> DEFINE s == Found(d, k)
  <1>1. CASE StoreBecomes(d, s)
    BY Zenon, <1>1, FailStep
  <1>2. CASE HasType(s, k, ty) /\ StoreBecomes(d, r) /\ r = Without(s, {k})
    <2>1. View(s, now) = Entries[d] /\ k \in DOMAIN Entries[d]
      BY Zenon, <1>2, FoundSeen DEF HasType
    <2> QED
      BY Zenon, <1>2, <2>1, BecomesSettles, EraseStep DEF Allowed
  <1>3. CASE /\ StoreBecomes(d, r)
             /\ \E o : r = Put(s, k, o) /\ Continues(s, k, o)
    BY Zenon, <1>3, BecomesSettles, UpdateStep DEF Continues, Allowed
  <1> QED
    BY Zenon, <1>1, <1>2, <1>3 DEF Shrink, Lessens

\* MOVE: the source loses the key, the destination gets it as it was.
LEMMA MoveStep ==
  ASSUME TypeOK, NEW d \in Db, NEW k \in Key, NEW e \in Db, moveKeyTo(d, k, e)
  PROVE  Allowed
  <1> DEFINE source == Found(d, k)
             destination == Found(e, k)
             o == Touched(source, k, now)[k]
             arrived == Put(destination, k, o)
  <1>1. CASE StoreBecomes(d, source)
    BY Zenon, <1>1, FailStep
  <1>2. CASE /\ d # e /\ k \in DOMAIN source /\ k \notin DOMAIN destination
             /\ \E E \in evictIfNeeded(arrived, evictionConfig) :
                  values' = [values EXCEPT ![d] = Without(source, {k}), ![e] = Without(arrived, E)]
             /\ UNCHANGED <<now, evictionConfig, scanning>>
    <2>1. /\ IsStore(source) /\ View(source, now) = Entries[d] /\ k \in DOMAIN Entries[d]
          /\ Entries[d][k] = Seen(source[k]) /\ ~isExpired(source[k], now)
      BY ZenonT(30), <1>2, FoundSeen
    <2>2. View(destination, now) = Entries[e] /\ k \notin DOMAIN Entries[e]
      BY Zenon, <1>2, FoundSeen
    <2>3. Seen(o) = Entries[d][k]
      BY SMTT(30), <1>2, <2>1, TouchedSeen
    <2>4. ~isExpired(o, now)
      BY <2>1, <2>3 DEF Seen, isExpired
    <2> HIDE DEF o
    <2>5. View(arrived, now) = Promise!With(Entries[e], k, Entries[d][k])
      BY <2>2, <2>3, <2>4, ViewPut
    <2> HIDE DEF arrived
    <2>6. PICK E \in evictIfNeeded(arrived, evictionConfig) :
            values' = [values EXCEPT ![d] = Without(source, {k}), ![e] = Without(arrived, E)]
      BY ZenonT(30), <1>2
    <2> DEFINE left == Without(source, {k})
               right == Without(arrived, E)
    <2>7. View(left, now) = Promise!Minus(Entries[d], k)
      BY Zenon, <2>1 DEF View, Without, Expired, Promise!Minus
    <2>8. Promise!SurvivesFrom(View(right, now), Promise!With(Entries[e], k, Entries[d][k]))
      BY Zenon, <2>5, SurvivesEviction
    <2>9. values' = [values EXCEPT ![d] = left, ![e] = right]
      BY Zenon, <2>6
    <2>10. now' = now /\ evictionConfig' = evictionConfig /\ d # e
      BY ZenonT(30), <1>2
    <2> HIDE DEF left, right, source, destination
    <2>11. /\ values'[d] = left /\ values'[e] = right
           /\ \A f \in Db \ {d, e} : values'[f] = values[f]
      BY Zenon, <2>9, <2>10 DEF TypeOK
    <2>12. /\ Entries'[d] = View(left, now) /\ Entries'[e] = View(right, now)
           /\ \A f \in Db \ {d, e} : Entries'[f] = Entries[f]
      BY Zenon, <2>10, <2>11 DEF Entries
    <2>13. Promise!Move(d, k, e)
      BY ZenonT(30), <2>1, <2>2, <2>7, <2>8, <2>10, <2>12 DEF Promise!Move
    <2> QED
      BY ZenonT(30), <2>13 DEF Allowed, Promise!CacheNext
  <1> QED
    BY ZenonT(30), <1>1, <1>2 DEF moveKeyTo

\* The methods on keys and deadlines.
LEMMA KeyStepAllowed ==
  ASSUME TypeOK, NEW d \in Db, NEW k \in Key, KeyStep(d, k)
  PROVE  Allowed
  <1> DEFINE s == Found(d, k)
  <1>0. IsStore(s) /\ (k \in DOMAIN s => s[k] \in ValueObject)
    BY Zenon, FoundSeen DEF IsStore
  <1>1. ASSUME NEW v \in Text \cup {0}, NEW t \in Ttl, set(d, k, v, t)
        PROVE  Allowed
    BY Zenon, <1>1, AssignStep DEF Allowed
  <1>2. CASE del(d, k)
    <2>1. CASE k \in DOMAIN Entries[d]
      <3>1. View(values[d], now) = Entries[d] /\ Settles(d, Without(values[d], {k}))
        BY Zenon, <1>2, BecomesSettles DEF del, Entries
      <3> QED
        BY Zenon, <2>1, <3>1, EraseStep DEF Allowed
    <2>2. CASE k \notin DOMAIN Entries[d]
      <3>1. View(Without(values[d], {k}), now) = View(values[d], now)
        BY Zenon, <2>2 DEF Entries, View, Without, Expired
      <3> QED
        BY SMTT(30), <1>2, <3>1, Invisible DEF del, Allowed
    <2> QED
      BY Zenon, <2>1, <2>2
  <1>3. CASE exists(d, k) \/ type(d, k) \/ memoryUsage(d, k)
    <2>1. (k \in DOMAIN Found(d, k)) \in BOOLEAN
      OBVIOUS
    <2> QED
      BY ZenonT(30), <1>3, <2>1, LookupStep DEF exists, type, memoryUsage, Allowed
  <1>4. ASSUME NEW t \in Ttl \cap Nat, expire(d, k, t)
        PROVE  Allowed
    <2> DEFINE at == now + t * Second
               o == [s[k] EXCEPT !.expiresAt = at]
    <2>1. CASE k \in DOMAIN s /\ StoreBecomes(d, WithDeadline(s, k, at))
      <3>1. WithDeadline(s, k, at) = Put(s, k, o)
        BY <1>0, <2>1, ExceptIsPut DEF WithDeadline
      <3>2. Seen(o) = [Seen(s[k]) EXCEPT !.expiresAt = at]
        BY <1>0, <2>1 DEF Seen, ValueObject
      <3>3. Settles(d, Put(s, k, o))
        BY Zenon, <2>1, <3>1, BecomesSettles
      <3>4. at \in {Never} \cup {now + seconds * Second : seconds \in Ttl \cap Nat}
        BY Zenon
      <3> HIDE DEF o, at
      <3> QED
        BY Zenon, <2>1, <3>2, <3>3, <3>4, RedeadlineStep DEF Allowed
    <2>2. CASE StoreBecomes(d, s)
      BY Zenon, <2>2, FailStep
    <2> QED
      BY Zenon, <1>4, <2>1, <2>2 DEF expire
  <1>5. CASE ttl(d, k)
    BY ZenonT(30), <1>5, LookupStep DEF ttl, Allowed
  <1>6. CASE persist(d, k)
    <2> DEFINE p == [s[k] EXCEPT !.expiresAt = Never]
               o == [p EXCEPT !.lastAccessedAt = now]
    <2>1. CASE /\ k \in DOMAIN s
               /\ StoreBecomesEvicted(d, Touched(WithDeadline(s, k, Never), k, now))
      <3>1. Touched(WithDeadline(s, k, Never), k, now) = Put(s, k, o)
        BY ZenonT(30), <1>0, <2>1 DEF WithDeadline, Touched, Put, IsStore
      <3>2. Seen(o) = [Seen(s[k]) EXCEPT !.expiresAt = Never]
        BY <1>0, <2>1 DEF Seen, ValueObject
      <3>3. Settles(d, Put(s, k, o))
        BY Zenon, <2>1, <3>1, EvictedSettles
      <3> HIDE DEF o
      <3> QED
        BY Zenon, <2>1, <3>2, <3>3, RedeadlineStep DEF Allowed
    <2>2. CASE StoreBecomes(d, s)
      BY Zenon, <2>2, FailStep
    <2> QED
      BY ZenonT(30), <1>6, <2>1, <2>2 DEF persist, Upsert
  <1>7. ASSUME NEW j \in Key, rename(d, k, j)
        PROVE  Allowed
    <2>1. CASE k \in DOMAIN s /\ k # j /\ StoreBecomesEvicted(d, Renamed(s, k, j, now))
      BY Zenon, <2>1, EvictedSettles, CarryStep DEF Allowed
    <2>2. CASE StoreBecomes(d, s)
      BY Zenon, <2>2, FailStep
    <2> QED
      BY ZenonT(30), <1>7, <2>1, <2>2 DEF rename, Upsert
  <1>8. ASSUME NEW e \in Db, moveKeyTo(d, k, e)
        PROVE  Allowed
    BY Zenon, <1>8, MoveStep
  <1> QED
    BY ZenonT(30), <1>1, <1>2, <1>3, <1>4, <1>5, <1>6, <1>7, <1>8 DEF KeyStep

\* The methods on strings.
LEMMA StringStepAllowed ==
  ASSUME TypeOK, NEW d \in Db, NEW k \in Key, StringStep(d, k)
  PROVE  Allowed
  <1> DEFINE s == Found(d, k)
  <1>0. IsStore(s) /\ now \in Int /\ "string" \in DataType
    BY FoundSeen DEF TypeOK, DataType
  <1>1. CASE get(d, k) \/ strlen(d, k)
    BY SMTT(30), <1>1, LookupStep, TypedLookup DEF get, strlen, Allowed
  <1>2. ASSUME NEW delta \in {-1, 1}, incrBy(d, k, delta)
        PROVE  Allowed
    <2> DEFINE b == ObjectAt(s, k, "string", now)
               x == <<CurrentInteger(s, k) + delta>>
    <2>1. Continues(s, k, [b EXCEPT !.value = x, !.lastAccessedAt = now])
      BY ZenonT(30), <1>0, BaseContinues
    <2>2. Incrementable(s, k) \in BOOLEAN
      BY Zenon DEF Incrementable
    <2>3. Upsert(d, k, Incrementable(s, k), Put(s, k, [b EXCEPT !.value = x, !.lastAccessedAt = now]))
      BY Zenon, <1>2 DEF incrBy, WithIncrement
    <2> QED
      BY SMTT(30), <2>1, <2>2, <2>3, UpsertStep
  <1>3. ASSUME NEW suffix \in Text, append(d, k, suffix)
        PROVE  Allowed
    <2> DEFINE b == ObjectAt(s, k, "string", now)
               x == Append(b.value, suffix)
    <2>1. Continues(s, k, [b EXCEPT !.value = x, !.lastAccessedAt = now])
      BY ZenonT(30), <1>0, BaseContinues
    <2>2. Accepts(s, k, "string") \in BOOLEAN
      BY Zenon DEF Accepts
    <2>3. Upsert(d, k, Accepts(s, k, "string"), Put(s, k, [b EXCEPT !.value = x, !.lastAccessedAt = now]))
      BY Zenon, <1>3 DEF append, WithSuffix
    <2> QED
      BY SMTT(30), <2>1, <2>2, <2>3, UpsertStep
  <1> QED
    BY Zenon, <1>1, <1>2, <1>3 DEF StringStep

\* The methods that add to lists, hashes and sets.
LEMMA GrowStepAllowed ==
  ASSUME TypeOK, NEW d \in Db, NEW k \in Key,
         \/ \E elems \in Arguments : lpush(d, k, elems) \/ rpush(d, k, elems)
         \/ \E field \in Field, elem \in Elem : hset(d, k, field, elem)
         \/ \E members \in (SUBSET Elem) \ {{}} : sadd(d, k, members)
  PROVE  Allowed
  <1> DEFINE s == Found(d, k)
             l == ObjectAt(s, k, "list", now)
             h == ObjectAt(s, k, "hash", now)
             m == ObjectAt(s, k, "set", now)
  <1>1. IsStore(s) /\ now \in Int /\ {"list", "hash", "set"} \subseteq DataType
    BY FoundSeen DEF TypeOK, DataType
  <1>2. \A ty : Accepts(s, k, ty) \in BOOLEAN
    BY Zenon DEF Accepts
  <1>3. \A x : /\ Continues(s, k, [l EXCEPT !.list = x, !.lastAccessedAt = now])
               /\ Continues(s, k, [h EXCEPT !.hash = x, !.lastAccessedAt = now])
               /\ Continues(s, k, [m EXCEPT !.set = x, !.lastAccessedAt = now])
    BY ZenonT(30), <1>1, BaseContinues
  <1>4. \A ty, o : Continues(s, k, o) /\ Upsert(d, k, Accepts(s, k, ty), Put(s, k, o)) => Allowed
    BY Zenon, <1>2, UpsertStep
  <1>5. ASSUME NEW elems \in Arguments, lpush(d, k, elems) \/ rpush(d, k, elems)
        PROVE  Allowed
    <2>1. \E x : Upsert(d, k, Accepts(s, k, "list"),
                        Put(s, k, [l EXCEPT !.list = x, !.lastAccessedAt = now]))
      BY ZenonT(30), <1>5 DEF lpush, rpush, WithHeads, WithTails
    <2> HIDE DEF s, l
    <2> QED
      BY ZenonT(30), <1>3, <1>4, <2>1
  <1>6. ASSUME NEW field \in Field, NEW elem \in Elem, hset(d, k, field, elem)
        PROVE  Allowed
    <2>1. \E x : Upsert(d, k, Accepts(s, k, "hash"),
                        Put(s, k, [h EXCEPT !.hash = x, !.lastAccessedAt = now]))
      BY ZenonT(30), <1>6 DEF hset, WithField
    <2> HIDE DEF s, h
    <2> QED
      BY ZenonT(30), <1>3, <1>4, <2>1
  <1>7. ASSUME NEW members \in (SUBSET Elem) \ {{}}, sadd(d, k, members)
        PROVE  Allowed
    <2>1. \E x : Upsert(d, k, Accepts(s, k, "set"),
                        Put(s, k, [m EXCEPT !.set = x, !.lastAccessedAt = now]))
      BY ZenonT(30), <1>7 DEF sadd, WithMembers
    <2> HIDE DEF s, m
    <2> QED
      BY ZenonT(30), <1>3, <1>4, <2>1
  <1> QED
    BY ZenonT(30), <1>5, <1>6, <1>7

\* The methods on lists, hashes and sets.
LEMMA CollectionStepAllowed ==
  ASSUME TypeOK, NEW d \in Db, NEW k \in Key, CollectionStep(d, k)
  PROVE  Allowed
  <1> DEFINE s == Found(d, k)
  <1>1. IsStore(s)
    BY Zenon, FoundSeen
  <1>2. CASE \/ \E elems \in Arguments : lpush(d, k, elems) \/ rpush(d, k, elems)
             \/ \E field \in Field, elem \in Elem : hset(d, k, field, elem)
             \/ \E members \in (SUBSET Elem) \ {{}} : sadd(d, k, members)
    BY ZenonT(30), <1>2, GrowStepAllowed
  <1>a. ASSUME NEW ty, NEW r, Shrink(d, k, ty, r), HasType(s, k, ty) => Lessens(s, k, r)
        PROVE  Allowed
    BY Zenon, <1>a, ShrinkStep
  <1>b. \A x : k \in DOMAIN s => /\ Lessens(s, k, WithRest(s, k, x, now))
                                 /\ Lessens(s, k, WithoutField(s, k, x, now))
                                 /\ Lessens(s, k, WithoutMembers(s, k, x, now))
    BY Zenon, <1>1, RestLessens
  <1>c. \A ty : HasType(s, k, ty) => k \in DOMAIN s
    BY Zenon DEF HasType
  <1>3. CASE lpop(d, k) \/ rpop(d, k)
    <2>1. PICK rest : Shrink(d, k, "list",
                             IF s[k].list = <<>> THEN s ELSE WithRest(s, k, rest, now))
      BY ZenonT(30), <1>3 DEF lpop, rpop
    <2> HIDE DEF s
    <2>2. HasType(s, k, "list") =>
            Lessens(s, k, IF s[k].list = <<>> THEN s ELSE WithRest(s, k, rest, now))
      BY ZenonT(30), <1>b, <1>c DEF Lessens
    <2> QED
      BY ZenonT(30), <1>a, <2>1, <2>2
  <1>4. ASSUME NEW field \in Field, hdel(d, k, field)
        PROVE  Allowed
    <2>1. Shrink(d, k, "hash", WithoutField(s, k, field, now))
      BY Zenon, <1>4 DEF hdel
    <2> HIDE DEF s
    <2> QED
      BY ZenonT(30), <1>a, <1>b, <1>c, <2>1
  <1>5. ASSUME NEW members \in (SUBSET Elem) \ {{}}, srem(d, k, members)
        PROVE  Allowed
    <2>1. Shrink(d, k, "set", WithoutMembers(s, k, members, now))
      BY Zenon, <1>5 DEF srem
    <2> HIDE DEF s
    <2> QED
      BY ZenonT(30), <1>a, <1>b, <1>c, <2>1
  <1>6. ASSUME NEW start, NEW stop, lrange(d, k, start, stop)
        PROVE  Allowed
    <2> DEFINE range == normalizeRange(start, stop, Len(s[k].list))
               answers == HasType(s, k, "list") /\ range[1] <= range[2]
    <2>1. answers \in BOOLEAN /\ (answers => k \in DOMAIN s) /\ Lookup(d, k, answers)
      BY Zenon, <1>6 DEF HasType, lrange
    <2> HIDE DEF answers
    <2> QED
      BY SMTT(30), <2>1, LookupStep DEF Allowed
  <1>7. ASSUME NEW field \in Field, hget(d, k, field)
        PROVE  Allowed
    <2> DEFINE answers == HasType(s, k, "hash") /\ field \in DOMAIN s[k].hash
    <2>1. answers \in BOOLEAN /\ (answers => k \in DOMAIN s) /\ Lookup(d, k, answers)
      BY Zenon, <1>7 DEF HasType, hget
    <2> HIDE DEF answers
    <2> QED
      BY SMTT(30), <2>1, LookupStep DEF Allowed
  <1>8. CASE hexists(d, k) \/ hgetall(d, k) \/ sismember(d, k) \/ smembers(d, k) \/ scard(d, k)
    BY SMTT(30), <1>8, LookupStep, TypedLookup
       DEF hexists, hgetall, sismember, smembers, scard, Allowed
  <1> QED
    BY ZenonT(30), <1>2, <1>3, <1>4, <1>5, <1>6, <1>7, <1>8 DEF CollectionStep

\* The methods on a whole store.
LEMMA StoreStepAllowed ==
  ASSUME TypeOK, NEW d \in Db, StoreStep(d)
  PROVE  Allowed
  <1>0. IsStore(values[d])
    BY Zenon DEF TypeOK
  <1>1. ASSUME NEW K \in SUBSET Key, mget(d, K)
        PROVE  Allowed
    <2> DEFINE s == Without(values[d], K \cap Expired(values[d], now))
               m == [k \in DOMAIN s |->
                       IF k \in K /\ s[k].type = "string" THEN Touched(s, k, now)[k] ELSE s[k]]
    <2>1. IsStore(s)
      BY Zenon, <1>0 DEF Without, IsStore
    <2>2. View(s, now) = View(values[d], now)
      BY Zenon, ViewPurged
    <2> HIDE DEF s
    <2>3. \A k \in DOMAIN s : Seen(m[k]) = Seen(s[k])
      BY Zenon, <2>1, TouchedSeen
    <2>4. DOMAIN m = DOMAIN s
      BY Zenon
    <2>5. StoreBecomes(d, m)
      BY Zenon, <1>1 DEF mget, s
    <2> HIDE DEF m
    <2>6. \A k \in DOMAIN s : isExpired(m[k], now) <=> isExpired(s[k], now)
      BY ZenonT(30), <2>3 DEF Seen, isExpired
    <2>7. View(m, now) = View(s, now)
      BY Zenon, <2>3, <2>4, <2>6 DEF View, Expired
    <2> QED
      BY Zenon, <2>2, <2>5, <2>7, Invisible DEF Allowed
  <1>2. ASSUME NEW K \in (SUBSET Key) \ {{}}, NEW strings \in [K -> Text], mset(d, strings)
        PROVE  Allowed
    BY ZenonT(30), <1>2, AllAssignedStep DEF Allowed
  <1>3. CASE flushdb(d)
    <2>1. Entries'[d] = Promise!Nothing
      <3>1. View(EmptyMap, now) = Promise!Nothing
        BY Zenon DEF View, Expired, EmptyMap, Promise!Nothing
      <3> QED
        BY Zenon, <1>3, <3>1, BecomesSeen DEF flushdb
    <2>2. Settles(d, EmptyMap)
      BY Zenon, <1>3, BecomesSettles DEF flushdb
    <2> QED
      BY ZenonT(30), <2>1, <2>2 DEF Settles, Allowed, Promise!CacheNext, Promise!Command
  <1>4. View(Swept(d), now) = View(values[d], now)
    BY Zenon, ViewPurged DEF Swept
  <1>5. CASE removeExpired(d) \/ snapshot(d)
    BY Zenon, <1>4, <1>5, Invisible DEF removeExpired, snapshot, Allowed
  <1>6. ASSUME NEW c \in Scanner, ScanSweep(c, d) \/ ScanRead(c, d)
        PROVE  Allowed
    <2>1. now' = now /\ evictionConfig' = evictionConfig
      BY Zenon, <1>6 DEF ScanSweep, ScanRead
    <2>2. \A e \in Db : View(values'[e], now) = View(values[e], now)
      <3> HIDE DEF Swept
      <3> QED
        BY Zenon, <1>4, <1>6 DEF ScanSweep, ScanRead, TypeOK
    <2>3. Entries' = Entries
      BY Zenon, <2>1, <2>2 DEF Entries
    <2> QED
      BY Zenon, <2>1, <2>3 DEF Allowed, Promise!cacheVars
  <1> QED
    BY ZenonT(30), <1>1, <1>2, <1>3, <1>5, <1>6 DEF StoreStep

\* When the clock moves, clients lose exactly the keys whose deadline it passes.
LEMMA TickAllowed ==
  ASSUME TypeOK, Tick
  PROVE  Promise!Passes
  <1>1. ASSUME NEW d \in Db
        PROVE  View(values[d], now + 1) = Promise!Alive(View(values[d], now), now + 1)
    <2> DEFINE s == values[d]
    <2>1. now \in Int /\ IsStore(s)
      BY DEF TypeOK
    <2>2. \A k \in DOMAIN s : s[k].expiresAt \in Int
      BY Zenon, <2>1 DEF IsStore, ValueObject
    <2> HIDE DEF s
    <2>3. Expired(s, now) \subseteq Expired(s, now + 1)
      BY SMTT(30), <2>1, <2>2 DEF Expired, isExpired, Never
    <2>4. DOMAIN View(s, now) \ Promise!Overdue(View(s, now), now + 1) = DOMAIN View(s, now + 1)
      BY Zenon, <2>3 DEF View, Expired, isExpired, Seen, Never, Promise!Overdue, Promise!Never
    <2>5. \A k \in DOMAIN View(s, now + 1) : View(s, now)[k] = View(s, now + 1)[k]
      BY Zenon, <2>3 DEF View
    <2>6. View(s, now + 1) = [k \in DOMAIN View(s, now + 1) |-> View(s, now)[k]]
      BY Zenon, <2>5 DEF View
    <2> QED
      BY Zenon, <2>4, <2>6 DEF Promise!Alive, s
  <1>2. values' = values /\ now' = now + 1 /\ evictionConfig' = evictionConfig
    BY Zenon DEF Tick
  <1>3. Entries' = [d \in Db |-> Promise!Alive(Entries[d], now')]
    BY Zenon, <1>1, <1>2 DEF Entries
  <1> QED
    BY Zenon, <1>2, <1>3 DEF Promise!Passes

\* A new server's databases are empty.
LEMMA InitAllowed == Init => Promise!CacheInit
  BY Zenon DEF Init, Entries, View, Expired, EmptyMap, Promise!CacheInit, Promise!Nothing

\* Every step of the stores is a step of the promise, or invisible.
LEMMA NextAllowed == TypeOK /\ [Next]_vars => [Promise!CacheNext]_(Promise!cacheVars)
  <1> SUFFICES ASSUME TypeOK, [Next]_vars
               PROVE  Allowed
    BY Zenon DEF Allowed
  <1>1. CASE Tick
    BY Zenon, <1>1, TickAllowed DEF Allowed, Promise!CacheNext
  <1>2. CASE UNCHANGED vars
    BY Zenon, <1>2 DEF vars, Allowed, Entries, View, Expired, Promise!cacheVars
  <1> QED
    BY Zenon, <1>1, <1>2, StoreStepAllowed, KeyStepAllowed, StringStepAllowed, CollectionStepAllowed DEF Next

\* The methods of DataStore, with their lazy and background expiry, access
\* times, sweeps and evictions, keep the promise of Cache for any keys,
\* databases, arguments and eviction configuration.
THEOREM StoresImplementCache == Spec => ImplementsCache
  BY InitAllowed, NextAllowed, TypeCorrect, PTL DEF Spec, ImplementsCache, Promise!CacheSpec

-----------------------------------------------------------------------------
\* Objects past their deadline.  What is proved of them rests on where the
\* objects of a store come from (Sound): an object was there before, or is new,
\* or was carried from a live key, or takes the place of a live one; and on
\* where deadlines come from: the deadline of an object was there before or is
\* one a command sets, and a live key keeps its own unless a command names it.

Fresh(o) == o.expiresAt = Never \/ o.expiresAt >= now

Origin(o, d, k) ==
  \/ k \in DOMAIN values[d] /\ o = values[d][k]
  \/ o.createdAt = now /\ o.lastAccessedAt = now /\ Fresh(o)
  \/ \E e \in Db : \E j \in Live(e) : CameFrom(o, values[e][j])
  \/ k \in Live(d) /\ Fresh(o)

Asked(at) == \E t \in Ttl \cap Nat : at = now + t * Second

Dated(o) ==
  \/ o.expiresAt = Never \/ Asked(o.expiresAt)
  \/ \E e \in Db : \E j \in DOMAIN values[e] : o.expiresAt = values[e][j].expiresAt

Kept(o, d, k) == k \in Live(d) => o.expiresAt = values[d][k].expiresAt \/ SetsDeadline(d, k)

Sound(o, d, k) == Origin(o, d, k) /\ Dated(o) /\ Kept(o, d, k)

SoundStore(d, s) == \A k \in DOMAIN s : Sound(s[k], d, k)

\* A scan that begins sweeps its store at that instant.
ScansSweep ==
  /\ now' \in Nat /\ now' >= now
  /\ \A scan \in scanning' \ scanning :
       scan[3] = now /\ \A k \in DOMAIN values'[scan[2]] : Fresh(values'[scan[2]][k])

Tidy == (\A d \in Db : SoundStore(d, values'[d])) /\ ScansSweep

-----------------------------------------------------------------------------

\* A live object is not past its deadline.
LEMMA LiveFresh ==
  ASSUME IInv, NEW d \in Db, NEW k \in Live(d)
  PROVE  k \in DOMAIN values[d] /\ values[d][k] \in ValueObject /\ Fresh(values[d][k])
  <1>1. k \in DOMAIN values[d] /\ values[d][k] \in ValueObject /\ now \in Nat
    BY Zenon DEF Live, IInv, TypeOK, IsStore
  <1>2. values[d][k].expiresAt \in Int
    BY Zenon, <1>1 DEF ValueObject
  <1> QED
    BY <1>1, <1>2 DEF Live, Expired, isExpired, Fresh

\* The lookup leaves what was there, and its own key only when it is live.
LEMMA FoundLive ==
  ASSUME NEW d \in Db, NEW k
  PROVE  /\ \A j \in DOMAIN Found(d, k) : j \in DOMAIN values[d] /\ Found(d, k)[j] = values[d][j]
         /\ k \in DOMAIN Found(d, k) <=> k \in Live(d)
  BY Zenon DEF Found, Purged, Without, Live

\* What is left of a store came from where it came from.
LEMMA SoundWithout ==
  ASSUME NEW d, NEW s, SoundStore(d, s), NEW K
  PROVE  SoundStore(d, Without(s, K))
  BY Zenon DEF SoundStore, Without

\* A store stays sound when a sound object is put into it.
LEMMA SoundPut ==
  ASSUME NEW d, NEW s, SoundStore(d, s), NEW k, NEW o, Sound(o, d, k)
  PROVE  SoundStore(d, Put(s, k, o))
  BY Zenon DEF SoundStore, Put

\* The same for an object that is replaced.
LEMMA SoundExcept ==
  ASSUME NEW d, NEW s, SoundStore(d, s), NEW k, NEW o, Sound(o, d, k)
  PROVE  SoundStore(d, [s EXCEPT ![k] = o])
  BY Zenon DEF SoundStore

\* The store before the method, and the store after its lookup.
LEMMA SoundFound ==
  ASSUME NEW d \in Db, NEW k
  PROVE  SoundStore(d, values[d]) /\ SoundStore(d, Found(d, k))
  <1>1. SoundStore(d, values[d])
    BY ZenonT(30) DEF SoundStore, Sound, Origin, Dated, Kept
  <1> QED
    BY Zenon, <1>1, SoundWithout DEF Found, Purged

\* An object in the place of a live one that has its deadline, or one that a
\* command gives it.
LEMMA SoundInPlace ==
  ASSUME IInv, NEW d \in Db, NEW k, k \in DOMAIN Found(d, k), NEW o,
         \/ o.expiresAt = Found(d, k)[k].expiresAt
         \/ Fresh(o) /\ Dated(o) /\ SetsDeadline(d, k)
  PROVE  Sound(o, d, k)
  <1>1. k \in Live(d) /\ k \in DOMAIN values[d] /\ Found(d, k)[k] = values[d][k]
    BY Zenon, FoundLive
  <1>2. Fresh(o)
    BY Zenon, <1>1, LiveFresh DEF Fresh
  <1>3. Dated(o) /\ Kept(o, d, k)
    BY ZenonT(30), <1>1 DEF Dated, Kept
  <1> QED
    BY Zenon, <1>1, <1>2, <1>3 DEF Sound, Origin

\* An object carried from a live key to itself, to a key that is not live, or
\* to the key a command names.
LEMMA SoundCarried ==
  ASSUME IInv, NEW d \in Db, NEW e \in Db, NEW k, NEW j, k \in DOMAIN Found(d, k),
         (d = e /\ k = j) \/ j \notin Live(e) \/ SetsDeadline(e, j)
  PROVE  Sound([Found(d, k)[k] EXCEPT !.lastAccessedAt = now], e, j)
  <1> DEFINE p == Found(d, k)[k]
             o == [p EXCEPT !.lastAccessedAt = now]
  <1>1. k \in Live(d) /\ k \in DOMAIN values[d] /\ p = values[d][k] /\ p \in ValueObject
    BY FoundLive, LiveFresh
  <1>2. o.lastAccessedAt = now /\ o.expiresAt = p.expiresAt
    BY Zenon, <1>1 DEF ValueObject
  <1>3. CameFrom(o, p)
    BY ZenonT(30), <1>2 DEF CameFrom
  <1> HIDE DEF o, p
  <1>4. Origin(o, e, j)
    BY ZenonT(30), <1>1, <1>3 DEF Origin
  <1>5. Dated(o) /\ Kept(o, e, j)
    BY ZenonT(30), <1>1, <1>2 DEF Dated, Kept
  <1>6. Sound(o, e, j)
    BY Zenon, <1>4, <1>5 DEF Sound
  <1> QED
    BY Zenon, <1>6 DEF o, p

\* What a write may put in the place of what its lookup found: the deadline is
\* kept, and an object that was not there is new and has none.
Builds(s, k, o) ==
  IF k \in DOMAIN s THEN o.expiresAt = s[k].expiresAt
  ELSE o.createdAt = now /\ o.lastAccessedAt = now /\ o.expiresAt = Never

\* Such an object is sound.
LEMMA BuiltSound ==
  ASSUME IInv, NEW d \in Db, NEW k, NEW o, Builds(Found(d, k), k, o)
  PROVE  SoundStore(d, Put(Found(d, k), k, o))
  <1>1. CASE k \in DOMAIN Found(d, k)
    BY SMTT(30), <1>1, SoundInPlace, SoundFound, SoundPut DEF Builds
  <1>2. CASE k \notin DOMAIN Found(d, k)
    <2>1. Sound(o, d, k)
      BY ZenonT(30), <1>2, FoundLive DEF Builds, Sound, Origin, Dated, Kept, Fresh
    <2> QED
      BY Zenon, <2>1, SoundFound, SoundPut
  <1> QED
    BY Zenon, <1>1, <1>2

\* INCR, APPEND, pushes, HSET and SADD build on what they found.
LEMMA BaseBuilds ==
  ASSUME NEW s, IsStore(s), NEW k, NEW ty \in DataType, now \in Int, NEW x
  PROVE  LET b == ObjectAt(s, k, ty, now)
         IN /\ Builds(s, k, [b EXCEPT !.value = x, !.lastAccessedAt = now])
            /\ Builds(s, k, [b EXCEPT !.list = x, !.lastAccessedAt = now])
            /\ Builds(s, k, [b EXCEPT !.hash = x, !.lastAccessedAt = now])
            /\ Builds(s, k, [b EXCEPT !.set = x, !.lastAccessedAt = now])
  <1> DEFINE b == ObjectAt(s, k, ty, now)
  <1>1. b \in ValueObject
    BY Zenon, NewObjectType DEF ObjectAt, IsStore
  <1>2. Builds(s, k, b)
    BY Zenon DEF Builds, ObjectAt, NewObject
  <1> HIDE DEF b
  <1>3. \A o : /\ o.createdAt = b.createdAt /\ o.expiresAt = b.expiresAt
               /\ o.lastAccessedAt = now
               => Builds(s, k, o)
    BY Zenon, <1>2 DEF Builds
  <1>4. /\ Builds(s, k, [b EXCEPT !.value = x, !.lastAccessedAt = now])
        /\ Builds(s, k, [b EXCEPT !.list = x, !.lastAccessedAt = now])
        /\ Builds(s, k, [b EXCEPT !.hash = x, !.lastAccessedAt = now])
        /\ Builds(s, k, [b EXCEPT !.set = x, !.lastAccessedAt = now])
    BY ZenonT(30), <1>1, <1>3 DEF ValueObject
  <1> QED
    BY Zenon, <1>4 DEF b

\* Pops, HDEL and SREM leave a sound store.
LEMMA RestSound ==
  ASSUME IInv, NEW d \in Db, NEW k, k \in DOMAIN Found(d, k), NEW x
  PROVE  /\ SoundStore(d, WithRest(Found(d, k), k, x, now))
         /\ SoundStore(d, WithoutField(Found(d, k), k, x, now))
         /\ SoundStore(d, WithoutMembers(Found(d, k), k, x, now))
  <1> DEFINE s == Found(d, k)
             l(y) == [s[k] EXCEPT !.list = y, !.lastAccessedAt = now]
             h(y) == [s[k] EXCEPT !.hash = y, !.lastAccessedAt = now]
             m(y) == [s[k] EXCEPT !.set = y, !.lastAccessedAt = now]
             fields == Without(s[k].hash, {x})
             members == s[k].set \ x
  <1>1. s[k] \in ValueObject /\ SoundStore(d, s) /\ s = [j \in DOMAIN s |-> s[j]]
    BY Zenon, FoundGood, SoundFound DEF GoodStore, IsStore
  <1>2. \A y : /\ l(y).expiresAt = s[k].expiresAt
               /\ h(y).expiresAt = s[k].expiresAt
               /\ m(y).expiresAt = s[k].expiresAt
    BY Zenon, <1>1 DEF ValueObject
  <1>3. \A y : /\ [s EXCEPT ![k].list = y, ![k].lastAccessedAt = now] = [s EXCEPT ![k] = l(y)]
               /\ [s EXCEPT ![k].hash = y, ![k].lastAccessedAt = now] = [s EXCEPT ![k] = h(y)]
               /\ [s EXCEPT ![k].set = y, ![k].lastAccessedAt = now] = [s EXCEPT ![k] = m(y)]
    BY ZenonT(30), <1>1
  <1> HIDE DEF l, h, m
  <1>4. \A y : Sound(l(y), d, k) /\ Sound(h(y), d, k) /\ Sound(m(y), d, k)
    BY Zenon, <1>2, SoundInPlace
  <1> HIDE DEF s
  <1>5. \A y : /\ SoundStore(d, [s EXCEPT ![k] = l(y)])
               /\ SoundStore(d, [s EXCEPT ![k] = h(y)])
               /\ SoundStore(d, [s EXCEPT ![k] = m(y)])
    BY ZenonT(30), <1>1, <1>4, SoundExcept
  <1>6. \A y : /\ SoundStore(d, [s EXCEPT ![k].list = y, ![k].lastAccessedAt = now])
               /\ SoundStore(d, [s EXCEPT ![k].hash = y, ![k].lastAccessedAt = now])
               /\ SoundStore(d, [s EXCEPT ![k].set = y, ![k].lastAccessedAt = now])
    BY ZenonT(30), <1>3, <1>5
  <1>7. SoundStore(d, Without(s, {k}))
    BY Zenon, <1>1, SoundWithout
  <1>8. SoundStore(d, WithRest(s, k, x, now))
    BY ZenonT(30), <1>6, <1>7 DEF WithRest
  <1>9. SoundStore(d, WithoutField(s, k, x, now))
    <2>1. SoundStore(d, [s EXCEPT ![k].hash = fields, ![k].lastAccessedAt = now])
      BY ZenonT(30), <1>6
    <2> QED
      BY ZenonT(30), <1>7, <2>1 DEF WithoutField
  <1>10. SoundStore(d, WithoutMembers(s, k, x, now))
    <2>1. SoundStore(d, [s EXCEPT ![k].set = members, ![k].lastAccessedAt = now])
      BY ZenonT(30), <1>6
    <2> QED
      BY ZenonT(30), <1>7, <2>1 DEF WithoutMembers
  <1> QED
    BY Zenon, <1>8, <1>9, <1>10 DEF s

-----------------------------------------------------------------------------
\* The shapes methods have.

\* A method that leaves a sound store.
LEMMA BecomesTidy ==
  ASSUME IInv, NEW d \in Db, NEW s, SoundStore(d, s), StoreBecomes(d, s)
  PROVE  Tidy
  <1>1. values'[d] = s /\ \A e \in Db \ {d} : values'[e] = values[e]
    BY Zenon DEF StoreBecomes, IInv, TypeOK
  <1>2. \A e \in Db : SoundStore(e, values'[e])
    BY Zenon, <1>1, SoundFound
  <1>3. ScansSweep
    BY DEF StoreBecomes, ScansSweep, IInv, TypeOK
  <1> QED
    BY Zenon, <1>2, <1>3 DEF Tidy

\* A method that evicts at its end.
LEMMA EvictedTidy ==
  ASSUME IInv, NEW d \in Db, NEW s, SoundStore(d, s), StoreBecomesEvicted(d, s)
  PROVE  Tidy
  <1>1. PICK E : StoreBecomes(d, Without(s, E))
    BY Zenon DEF StoreBecomesEvicted
  <1> QED
    BY Zenon, <1>1, SoundWithout, BecomesTidy

\* A touched object that is live is sound.
LEMMA TouchedSound ==
  ASSUME IInv, NEW d \in Db, NEW k, k \in DOMAIN Found(d, k)
  PROVE  SoundStore(d, Touched(Found(d, k), k, now))
  <1> DEFINE s == Found(d, k)
             o == [s[k] EXCEPT !.lastAccessedAt = now]
  <1>1. Sound(o, d, k) /\ SoundStore(d, s)
    BY Zenon, SoundCarried, SoundFound
  <1>2. Touched(s, k, now) = [s EXCEPT ![k] = o]
    BY Zenon DEF Touched
  <1> HIDE DEF o, s
  <1>3. SoundStore(d, [s EXCEPT ![k] = o])
    BY Zenon, <1>1, SoundExcept
  <1> QED
    BY Zenon, <1>2, <1>3 DEF s

\* Reads.
LEMMA LookupTidy ==
  ASSUME IInv, NEW d \in Db, NEW k, NEW answers \in BOOLEAN,
         answers => k \in DOMAIN Found(d, k), Lookup(d, k, answers)
  PROVE  Tidy
  <1>1. CASE answers
    BY SMTT(30), <1>1, TouchedSound, BecomesTidy DEF Lookup
  <1>2. CASE ~answers
    BY SMTT(30), <1>2, SoundFound, BecomesTidy DEF Lookup
  <1> QED
    BY Zenon, <1>1, <1>2

\* Reads that answer from a key of one type.
LEMMA TypedTidy ==
  ASSUME IInv, NEW d \in Db, NEW k, NEW ty, Lookup(d, k, HasType(Found(d, k), k, ty))
  PROVE  Tidy
  <1>1. /\ HasType(Found(d, k), k, ty) \in BOOLEAN
        /\ HasType(Found(d, k), k, ty) => k \in DOMAIN Found(d, k)
    BY Zenon DEF HasType
  <1> QED
    BY ZenonT(30), <1>1, LookupTidy

\* Writes that create or update.
LEMMA UpsertTidy ==
  ASSUME IInv, NEW d \in Db, NEW k, NEW succeeds \in BOOLEAN, NEW s,
         succeeds => SoundStore(d, s), Upsert(d, k, succeeds, s)
  PROVE  Tidy
  BY SMTT(30), SoundFound, BecomesTidy, EvictedTidy DEF Upsert

\* Removals from a collection.
LEMMA ShrinkTidy ==
  ASSUME IInv, NEW d \in Db, NEW k, NEW ty, NEW s,
         HasType(Found(d, k), k, ty) => SoundStore(d, s), Shrink(d, k, ty, s)
  PROVE  Tidy
  <1>1. CASE HasType(Found(d, k), k, ty)
    BY SMTT(30), <1>1, BecomesTidy DEF Shrink
  <1>2. CASE ~HasType(Found(d, k), k, ty)
    BY SMTT(30), <1>2, SoundFound, BecomesTidy DEF Shrink
  <1> QED
    BY Zenon, <1>1, <1>2

-----------------------------------------------------------------------------
\* The methods.

\* A deadline that is set is none, or one asked for, which is not before now.
LEMMA DeadlineFresh ==
  ASSUME now \in Nat, NEW t \in Ttl
  PROVE  /\ Deadline(t, now) = Never \/ (Deadline(t, now) >= now /\ Asked(Deadline(t, now)))
         /\ t \in Nat => now + t * Second >= now /\ Asked(now + t * Second)
  <1>0. t \in Int
    BY Zenon, BoundAssumption
  <1>1. t \in Nat => t * Second \in Nat
    BY SecondAssumption
  <1> HIDE DEF Never
  <1>2. t \in Nat => now + t * Second >= now
    <2> DEFINE p == t * Second
    <2> HIDE DEF p
    <2>1. t \in Nat => p \in Nat
      BY Zenon, <1>1 DEF p
    <2>2. t \in Nat => now + p >= now
      BY <2>1
    <2> QED
      BY Zenon, <2>2 DEF p
  <1>3. t >= 0 => t \in Nat
    BY <1>0
  <1>4. t \in Nat => Asked(now + t * Second)
    BY ZenonT(30) DEF Asked
  <1> QED
    BY ZenonT(30), <1>2, <1>3, <1>4 DEF Deadline

\* What SET and MSET store is sound.
LEMMA NewSound ==
  ASSUME now \in Nat, NEW d, NEW k, SetsDeadline(d, k), NEW x, NEW at,
         at = Never \/ (at >= now /\ Asked(at))
  PROVE  /\ Sound([NewObject("string", now) EXCEPT !.value = x, !.expiresAt = at], d, k)
         /\ Sound([NewObject("string", now) EXCEPT !.value = x], d, k)
  <1> DEFINE o == [NewObject("string", now) EXCEPT !.value = x, !.expiresAt = at]
             q == [NewObject("string", now) EXCEPT !.value = x]
  <1>1. /\ o.createdAt = now /\ o.lastAccessedAt = now /\ o.expiresAt = at
        /\ q.createdAt = now /\ q.lastAccessedAt = now /\ q.expiresAt = Never
    BY Zenon DEF NewObject
  <1> HIDE DEF o, q
  <1>2. Fresh(o) /\ Fresh(q)
    BY ZenonT(30), <1>1 DEF Fresh
  <1>3. Sound(o, d, k) /\ Sound(q, d, k)
    BY ZenonT(30), <1>1, <1>2 DEF Sound, Origin, Dated, Kept
  <1> QED
    BY Zenon, <1>3 DEF o, q

\* The methods on keys and deadlines.
LEMMA KeyStepTidy ==
  ASSUME IInv, NEW d \in Db, NEW k \in Key, KeyStep(d, k)
  PROVE  Tidy
  <1> DEFINE s == Found(d, k)
  <1>0. SoundStore(d, values[d]) /\ SoundStore(d, s) /\ GoodStore(s) /\ now \in Nat
    BY SMTT(30), SoundFound, FoundGood DEF IInv, TypeOK
  <1>1. ASSUME NEW v \in Text \cup {0}, NEW t \in Ttl, set(d, k, v, t)
        PROVE  Tidy
    <2>1. Deadline(t, now) = Never \/ (Deadline(t, now) >= now /\ Asked(Deadline(t, now)))
      BY ZenonT(30), <1>0, DeadlineFresh
    <2>a. SetsDeadline(d, k)
      BY ZenonT(30), <1>1 DEF SetsDeadline
    <2>2. SoundStore(d, WithString(values[d], k, v, t, now))
      BY ZenonT(30), <1>0, <2>1, <2>a, NewSound, SoundPut DEF WithString
    <2> QED
      BY SMTT(30), <1>1, <2>2, EvictedTidy DEF set
  <1>2. CASE del(d, k)
    BY SMTT(30), <1>0, <1>2, SoundWithout, BecomesTidy DEF del
  <1>3. CASE exists(d, k) \/ type(d, k) \/ memoryUsage(d, k) \/ ttl(d, k)
    <2>1. /\ (k \in DOMAIN s) \in BOOLEAN
          /\ (k \in DOMAIN s /\ s[k].expiresAt # Never) \in BOOLEAN
      OBVIOUS
    <2> QED
      BY ZenonT(30), <1>3, <2>1, LookupTidy DEF exists, type, memoryUsage, ttl
  <1>4. ASSUME NEW t \in Ttl \cap Nat, expire(d, k, t)
        PROVE  Tidy
    <2> DEFINE at == now + t * Second
               e == IF k \in DOMAIN s THEN WithDeadline(s, k, at) ELSE s
               o == [s[k] EXCEPT !.expiresAt = at]
    <2>1. StoreBecomes(d, e)
      BY Zenon, <1>4 DEF expire
    <2>2. at >= now /\ Asked(at)
      BY ZenonT(30), <1>0, DeadlineFresh
    <2>b. SetsDeadline(d, k)
      BY ZenonT(30), <1>4 DEF SetsDeadline
    <2> HIDE DEF at
    <2>c. k \in DOMAIN s => o.expiresAt = at
      BY Zenon, <1>0 DEF GoodStore, IsStore, ValueObject
    <2>3. k \in DOMAIN s => Fresh(o) /\ Dated(o)
      BY ZenonT(30), <2>2, <2>c DEF Fresh, Dated
    <2>4. WithDeadline(s, k, at) = [s EXCEPT ![k] = o]
      BY Zenon DEF WithDeadline
    <2> HIDE DEF o
    <2>5. k \in DOMAIN s => Sound(o, d, k)
      BY Zenon, <2>3, <2>b, SoundInPlace
    <2> HIDE DEF s
    <2>a. k \in DOMAIN s => SoundStore(d, [s EXCEPT ![k] = o])
      BY ZenonT(30), <1>0, <2>5, SoundExcept
    <2>6. k \in DOMAIN s => SoundStore(d, WithDeadline(s, k, at))
      BY ZenonT(30), <2>4, <2>a
    <2>7. SoundStore(d, e)
      BY ZenonT(30), <1>0, <2>6
    <2> HIDE DEF e
    <2> QED
      BY SMTT(30), <2>1, <2>7, BecomesTidy
  <1>5. CASE persist(d, k)
    <2> DEFINE o == [[s[k] EXCEPT !.expiresAt = Never] EXCEPT !.lastAccessedAt = now]
    <2>1. k \in DOMAIN s => o.expiresAt = Never
      BY Zenon, <1>0 DEF GoodStore, IsStore, ValueObject
    <2>2. k \in DOMAIN s => Touched(WithDeadline(s, k, Never), k, now) = [s EXCEPT ![k] = o]
      BY ZenonT(30), <1>0 DEF WithDeadline, Touched, GoodStore, IsStore
    <2> HIDE DEF o
    <2>a. SetsDeadline(d, k)
      BY ZenonT(30), <1>5 DEF SetsDeadline
    <2>3. k \in DOMAIN s => Sound(o, d, k)
      BY ZenonT(30), <2>1, <2>a, SoundInPlace DEF Fresh, Dated
    <2>4. k \in DOMAIN s => SoundStore(d, [s EXCEPT ![k] = o])
      BY ZenonT(30), <1>0, <2>3, SoundExcept
    <2>5. k \in DOMAIN s => SoundStore(d, Touched(WithDeadline(s, k, Never), k, now))
      BY ZenonT(30), <2>2, <2>4
    <2> QED
      BY ZenonT(30), <1>5, <2>5, UpsertTidy DEF persist
  <1>6. ASSUME NEW destination \in Key, rename(d, k, destination)
        PROVE  Tidy
    <2> DEFINE o == [s[k] EXCEPT !.lastAccessedAt = now]
    <2>a. SetsDeadline(d, destination)
      BY ZenonT(30), <1>6 DEF SetsDeadline
    <2>1. k \in DOMAIN s => Sound(o, d, destination)
      BY ZenonT(30), <2>a, SoundCarried
    <2>2. Renamed(s, k, destination, now) = Without(Put(s, destination, o), {k})
      BY ZenonT(30) DEF Renamed
    <2> HIDE DEF o
    <2>3. k \in DOMAIN s => SoundStore(d, Renamed(s, k, destination, now))
      BY ZenonT(30), <1>0, <2>1, <2>2, SoundPut, SoundWithout
    <2> QED
      BY ZenonT(30), <1>6, <2>3, UpsertTidy DEF rename
  <1>7. ASSUME NEW e \in Db, moveKeyTo(d, k, e)
        PROVE  Tidy
    <2> DEFINE o == Touched(s, k, now)[k]
               arrived == Put(Found(e, k), k, o)
    <2>1. CASE StoreBecomes(d, s)
      BY SMTT(30), <1>0, <2>1, BecomesTidy
    <2>2. CASE /\ d # e /\ k \in DOMAIN s /\ k \notin DOMAIN Found(e, k)
               /\ \E E \in evictIfNeeded(arrived, evictionConfig) :
                    values' = [values EXCEPT ![d] = Without(s, {k}), ![e] = Without(arrived, E)]
               /\ UNCHANGED <<now, evictionConfig, scanning>>
      <3>1. o = [s[k] EXCEPT !.lastAccessedAt = now]
        BY ZenonT(30), <1>0, <2>2 DEF Touched, GoodStore, IsStore
      <3> DEFINE q == [s[k] EXCEPT !.lastAccessedAt = now]
      <3>a. k \in DOMAIN Found(d, k) /\ k \notin Live(e)
        BY Zenon, <2>2, FoundLive
      <3>b. Sound(q, e, k)
        BY ZenonT(30), <3>a, SoundCarried
      <3> HIDE DEF q, o
      <3>2. Sound(o, e, k)
        BY SMTT(30), <3>1, <3>b DEF q
      <3> HIDE DEF o
      <3>3. SoundStore(e, arrived)
        BY SMTT(30), <3>2, SoundFound, SoundPut
      <3> HIDE DEF arrived, s
      <3>4. PICK E \in evictIfNeeded(arrived, evictionConfig) :
              values' = [values EXCEPT ![d] = Without(s, {k}), ![e] = Without(arrived, E)]
        BY ZenonT(30), <2>2
      <3>5. SoundStore(d, Without(s, {k})) /\ SoundStore(e, Without(arrived, E))
        BY SMTT(30), <1>0, <3>3, SoundWithout
      <3>6. /\ values'[d] = Without(s, {k}) /\ values'[e] = Without(arrived, E)
            /\ \A f \in Db \ {d, e} : values'[f] = values[f]
        BY ZenonT(30), <2>2, <3>4 DEF IInv, TypeOK
      <3>7. \A f \in Db : SoundStore(f, values'[f])
        BY SMTT(30), <3>5, <3>6, SoundFound
      <3>8. ScansSweep
        BY SMTT(30), <1>0, <2>2 DEF ScansSweep
      <3> QED
        BY SMTT(30), <3>7, <3>8 DEF Tidy
    <2> QED
      BY SMTT(30), <1>7, <2>1, <2>2 DEF moveKeyTo
  <1> QED
    BY ZenonT(30), <1>1, <1>2, <1>3, <1>4, <1>5, <1>6, <1>7 DEF KeyStep

\* The methods on strings.
LEMMA StringStepTidy ==
  ASSUME IInv, NEW d \in Db, NEW k \in Key, StringStep(d, k)
  PROVE  Tidy
  <1> DEFINE s == Found(d, k)
  <1>0. IsStore(s) /\ now \in Int /\ "string" \in DataType
    BY FoundGood DEF IInv, TypeOK, GoodStore, DataType
  <1>1. CASE get(d, k) \/ strlen(d, k)
    BY SMTT(30), <1>1, TypedTidy DEF get, strlen
  <1>2. ASSUME NEW delta \in {-1, 1}, incrBy(d, k, delta)
        PROVE  Tidy
    <2>1. SoundStore(d, WithIncrement(s, k, delta, now))
      BY ZenonT(30), <1>0, BaseBuilds, BuiltSound DEF WithIncrement
    <2>2. Incrementable(s, k) \in BOOLEAN
      BY Zenon DEF Incrementable
    <2> QED
      BY SMTT(30), <1>2, <2>1, <2>2, UpsertTidy DEF incrBy
  <1>3. ASSUME NEW suffix \in Text, append(d, k, suffix)
        PROVE  Tidy
    <2>1. SoundStore(d, WithSuffix(s, k, suffix, now))
      BY ZenonT(30), <1>0, BaseBuilds, BuiltSound DEF WithSuffix
    <2>2. Accepts(s, k, "string") \in BOOLEAN
      BY Zenon DEF Accepts
    <2> QED
      BY SMTT(30), <1>3, <2>1, <2>2, UpsertTidy DEF append
  <1> QED
    BY SMTT(30), <1>1, <1>2, <1>3 DEF StringStep

\* The methods on lists, hashes and sets.
LEMMA CollectionStepTidy ==
  ASSUME IInv, NEW d \in Db, NEW k \in Key, CollectionStep(d, k)
  PROVE  Tidy
  <1> DEFINE s == Found(d, k)
  <1>0. /\ IsStore(s) /\ now \in Int /\ SoundStore(d, s)
        /\ "list" \in DataType /\ "hash" \in DataType /\ "set" \in DataType
    BY SMTT(30), FoundGood, SoundFound DEF IInv, TypeOK, GoodStore, DataType
  <1>a. \A ty : Accepts(s, k, ty) \in BOOLEAN /\ (HasType(s, k, ty) => k \in DOMAIN s)
    BY Zenon DEF Accepts, HasType
  <1>1. ASSUME NEW elems \in Arguments, lpush(d, k, elems) \/ rpush(d, k, elems)
        PROVE  Tidy
    <2>1. SoundStore(d, WithHeads(s, k, elems, now))
      BY ZenonT(30), <1>0, BaseBuilds, BuiltSound DEF WithHeads
    <2>2. SoundStore(d, WithTails(s, k, elems, now))
      BY ZenonT(30), <1>0, BaseBuilds, BuiltSound DEF WithTails
    <2>3. CASE lpush(d, k, elems)
      BY SMTT(30), <1>a, <2>1, <2>3, UpsertTidy DEF lpush
    <2>4. CASE rpush(d, k, elems)
      BY SMTT(30), <1>a, <2>2, <2>4, UpsertTidy DEF rpush
    <2> QED
      BY SMTT(30), <1>1, <2>3, <2>4
  <1>2. CASE lpop(d, k) \/ rpop(d, k)
    <2> DEFINE rest(r) == IF s[k].list = <<>> THEN s ELSE WithRest(s, k, r, now)
    <2>1. ASSUME NEW r, k \in DOMAIN s
          PROVE  SoundStore(d, rest(r))
      BY ZenonT(30), <1>0, <2>1, RestSound
    <2>2. \/ Shrink(d, k, "list", rest(Tail(s[k].list)))
          \/ Shrink(d, k, "list", rest(Front(s[k].list)))
      BY Zenon, <1>2 DEF lpop, rpop
    <2> HIDE DEF rest
    <2> QED
      BY SMTT(30), <1>a, <2>1, <2>2, ShrinkTidy
  <1>3. ASSUME NEW start, NEW stop, lrange(d, k, start, stop)
        PROVE  Tidy
    <2> DEFINE range == normalizeRange(start, stop, Len(s[k].list))
               answers == HasType(s, k, "list") /\ range[1] <= range[2]
    <2>1. answers \in BOOLEAN /\ Lookup(d, k, answers) /\ (answers => k \in DOMAIN s)
      BY SMTT(30), <1>3, <1>a DEF lrange
    <2> HIDE DEF answers
    <2> QED
      BY SMTT(30), <2>1, LookupTidy
  <1>4. ASSUME NEW field \in Field, NEW elem \in Elem, hset(d, k, field, elem)
        PROVE  Tidy
    <2>1. SoundStore(d, WithField(s, k, field, elem, now))
      BY ZenonT(30), <1>0, BaseBuilds, BuiltSound DEF WithField
    <2> QED
      BY SMTT(30), <1>4, <1>a, <2>1, UpsertTidy DEF hset
  <1>5. ASSUME NEW field \in Field, hget(d, k, field) \/ hdel(d, k, field)
        PROVE  Tidy
    <2>1. CASE hget(d, k, field)
      <3> DEFINE answers == HasType(s, k, "hash") /\ field \in DOMAIN s[k].hash
      <3>1. answers \in BOOLEAN /\ Lookup(d, k, answers) /\ (answers => k \in DOMAIN s)
        BY SMTT(30), <1>a, <2>1 DEF hget
      <3> HIDE DEF answers
      <3> QED
        BY SMTT(30), <3>1, LookupTidy
    <2>2. CASE hdel(d, k, field)
      BY SMTT(30), <1>a, <2>2, RestSound, ShrinkTidy DEF hdel
    <2> QED
      BY SMTT(30), <1>5, <2>1, <2>2
  <1>6. ASSUME NEW members \in (SUBSET Elem) \ {{}}, sadd(d, k, members) \/ srem(d, k, members)
        PROVE  Tidy
    <2>1. CASE sadd(d, k, members)
      <3>1. SoundStore(d, WithMembers(s, k, members, now))
        BY ZenonT(30), <1>0, BaseBuilds, BuiltSound DEF WithMembers
      <3> QED
        BY SMTT(30), <1>a, <2>1, <3>1, UpsertTidy DEF sadd
    <2>2. CASE srem(d, k, members)
      BY SMTT(30), <1>a, <2>2, RestSound, ShrinkTidy DEF srem
    <2> QED
      BY SMTT(30), <1>6, <2>1, <2>2
  <1>7. CASE hexists(d, k) \/ hgetall(d, k)
    BY SMTT(30), <1>7, TypedTidy DEF hexists, hgetall
  <1>8. CASE sismember(d, k) \/ smembers(d, k) \/ scard(d, k)
    BY SMTT(30), <1>8, TypedTidy DEF sismember, smembers, scard
  <1> QED
    BY SMTT(30), <1>1, <1>2, <1>3, <1>4, <1>5, <1>6, <1>7, <1>8 DEF CollectionStep

\* The methods on a whole store.
LEMMA StoreStepTidy ==
  ASSUME IInv, NEW d \in Db, StoreStep(d)
  PROVE  Tidy
  <1>0. /\ SoundStore(d, values[d]) /\ now \in Nat
        /\ IsStore(values[d])
    BY Zenon, SoundFound DEF IInv, TypeOK
  <1>1. ASSUME NEW K \in SUBSET Key, mget(d, K)
        PROVE  Tidy
    <2> DEFINE s == Without(values[d], K \cap Expired(values[d], now))
               m == [k \in DOMAIN s |->
                       IF k \in K /\ s[k].type = "string" THEN Touched(s, k, now)[k] ELSE s[k]]
    <2>1. StoreBecomes(d, m)
      BY Zenon, <1>1 DEF mget
    <2>2. SoundStore(d, s) /\ DOMAIN s \subseteq DOMAIN values[d]
      BY ZenonT(30), <1>0, SoundWithout DEF Without
    <2>3. ASSUME NEW k \in DOMAIN s, k \in K
          PROVE  Sound(Touched(s, k, now)[k], d, k)
      <3> DEFINE q == [Found(d, k)[k] EXCEPT !.lastAccessedAt = now]
      <3>1. k \in Live(d) /\ s[k] = values[d][k]
        BY Zenon, <2>2, <2>3 DEF Without, Live
      <3>2. k \in DOMAIN Found(d, k) /\ Found(d, k)[k] = values[d][k]
        BY Zenon, <3>1 DEF Live, Found, Purged, Without
      <3>3. Sound(q, d, k)
        BY ZenonT(30), <3>2, SoundCarried
      <3>4. Touched(s, k, now)[k] = [s[k] EXCEPT !.lastAccessedAt = now]
        BY ZenonT(30), <2>3 DEF Touched
      <3>5. Touched(s, k, now)[k] = q
        BY ZenonT(30), <3>1, <3>2, <3>4
      <3> HIDE DEF q, s
      <3> QED
        BY Zenon, <3>3, <3>5
    <2> HIDE DEF s
    <2>4. SoundStore(d, m)
      BY ZenonT(30), <2>2, <2>3 DEF SoundStore
    <2> HIDE DEF m
    <2> QED
      BY SMTT(30), <2>1, <2>4, BecomesTidy
  <1>2. ASSUME NEW K \in SUBSET Key, NEW entries \in [K -> Text], mset(d, entries)
        PROVE  Tidy
    <2> DEFINE o(k) == [NewObject("string", now) EXCEPT !.value = <<entries[k]>>]
    <2>a. \A k \in K : SetsDeadline(d, k)
      BY ZenonT(30), <1>2 DEF SetsDeadline
    <2>1. \A k \in DOMAIN entries : Sound(o(k), d, k)
      BY ZenonT(30), <1>0, <2>a, NewSound
    <2>2. WithStrings(values[d], entries, now) =
            [k \in DOMAIN values[d] \cup DOMAIN entries |->
               IF k \in DOMAIN entries THEN o(k) ELSE values[d][k]]
      BY ZenonT(30) DEF WithStrings
    <2> HIDE DEF o
    <2>3. SoundStore(d, WithStrings(values[d], entries, now))
      BY SMTT(30), <1>0, <2>1, <2>2 DEF SoundStore
    <2> QED
      BY SMTT(30), <1>2, <2>3, EvictedTidy DEF mset
  <1>3. CASE flushdb(d)
    <2>1. SoundStore(d, EmptyMap)
      BY Zenon, EmptyMapType DEF SoundStore
    <2> QED
      BY SMTT(30), <1>3, <2>1, BecomesTidy DEF flushdb
  <1>4. SoundStore(d, Swept(d))
    BY Zenon, <1>0, SoundWithout DEF Swept
  <1>5. CASE removeExpired(d) \/ snapshot(d)
    BY SMTT(30), <1>4, <1>5, BecomesTidy DEF removeExpired, snapshot
  <1>6. ASSUME NEW c \in Scanner, ScanSweep(c, d)
        PROVE  Tidy
    <2>1. \A k \in DOMAIN Swept(d) : Fresh(Swept(d)[k])
      <3> SUFFICES ASSUME NEW k \in DOMAIN Swept(d)
                   PROVE  Fresh(Swept(d)[k])
        BY Zenon
      <3>1. k \in Live(d) /\ Swept(d)[k] = values[d][k]
        BY Zenon DEF Swept, Without, Live
      <3> QED
        BY Zenon, <3>1, LiveFresh
    <2>2. /\ values'[d] = Swept(d) /\ \A e \in Db \ {d} : values'[e] = values[e]
          /\ scanning' \ scanning \subseteq {<<c, d, now>>} /\ now' = now
      BY SMTT(30), <1>6 DEF ScanSweep, IInv, TypeOK
    <2>3. \A e \in Db : SoundStore(e, values'[e])
      BY SMTT(30), <1>4, <2>2, SoundFound
    <2>4. ScansSweep
      BY SMTT(30), <1>0, <2>1, <2>2 DEF ScansSweep
    <2> QED
      BY Zenon, <2>3, <2>4 DEF Tidy
  <1>7. ASSUME NEW c \in Scanner, ScanRead(c, d)
        PROVE  Tidy
    BY SMTT(30), <1>0, <1>7, SoundFound DEF ScanRead, Tidy, ScansSweep
  <1> QED
    BY SMTT(30), <1>1, <1>2, <1>3, <1>5, <1>6, <1>7 DEF StoreStep

\* Every step.
LEMMA NextTidy ==
  ASSUME IInv, [Next]_vars
  PROVE  Tidy
  <1>1. CASE Tick
    BY SMTT(30), <1>1, SoundFound DEF Tick, Tidy, ScansSweep, IInv, TypeOK
  <1>2. CASE UNCHANGED vars
    BY SMTT(30), <1>2, SoundFound DEF vars, Tidy, ScansSweep, IInv, TypeOK
  <1> QED
    BY SMTT(30), <1>1, <1>2, StoreStepTidy, KeyStepTidy, StringStepTidy, CollectionStepTidy
       DEF Next

-----------------------------------------------------------------------------

\* Whatever the threads do, an object past its deadline is left alone, erased,
\* or replaced by an object made by that step or carried from a live key.
THEOREM ExpiredNeverRevived == Spec => ExpiredStaysDead
  <1>1. ASSUME IInv, [Next]_vars, NEW d \in Db,
               NEW k \in Expired(values[d], now) \cap DOMAIN values'[d]
        PROVE  \/ values'[d][k] = values[d][k]
               \/ values'[d][k].createdAt = now /\ values'[d][k].lastAccessedAt = now
               \/ \E e \in Db : \E j \in Live(e) : CameFrom(values'[d][k], values[e][j])
    <2>1. Sound(values'[d][k], d, k)
      BY Zenon, <1>1, NextTidy DEF Tidy, SoundStore
    <2>2. k \notin Live(d)
      BY Zenon DEF Live
    <2> QED
      BY ZenonT(30), <2>1, <2>2 DEF Sound, Origin
  <1>2. IInv /\ [Next]_vars =>
          [\A d \in Db : \A k \in Expired(values[d], now) \cap DOMAIN values'[d] :
             \/ values'[d][k] = values[d][k]
             \/ values'[d][k].createdAt = now /\ values'[d][k].lastAccessedAt = now
             \/ \E e \in Db : \E j \in Live(e) : CameFrom(values'[d][k], values[e][j])]_vars
    BY ZenonT(30), <1>1
  <1> QED
    BY <1>2, Invariance, PTL DEF Spec, ExpiredStaysDead

\* A scan does not begin in the future, and finds no object older than itself.
ScanInv == ScanFindsNoneExpired /\ \A scan \in scanning : scan[3] <= now

\* A sound object in a scanned store is not older than the scan.
LEMMA SoundSinceScan ==
  ASSUME IInv, ScanInv, NEW scan \in scanning, NEW o \in ValueObject, NEW k, Sound(o, scan[2], k)
  PROVE  o.expiresAt = Never \/ o.expiresAt >= scan[3]
  <1> DEFINE d == scan[2]
             since == scan[3]
  <1>0. now \in Nat /\ d \in Db /\ since \in Nat /\ since <= now
    BY Zenon DEF IInv, TypeOK, ScanInv
  <1>1. \A e \in Db : \A j \in Live(e) : values[e][j] \in ValueObject /\ Fresh(values[e][j])
    BY Zenon, LiveFresh
  <1>2. CASE k \in DOMAIN values[d] /\ o = values[d][k]
    BY ZenonT(30), <1>2 DEF ScanInv, ScanFindsNoneExpired
  <1>3. ASSUME NEW e \in Db, NEW j \in Live(e), CameFrom(o, values[e][j])
        PROVE  Fresh(o)
    <2> DEFINE p == values[e][j]
    <2>1. p \in ValueObject /\ Fresh(p)
      BY Zenon, <1>1
    <2>2. o = [p EXCEPT !.lastAccessedAt = o.lastAccessedAt]
      BY Zenon, <1>3 DEF CameFrom
    <2> HIDE DEF p
    <2>3. \A x : [p EXCEPT !.lastAccessedAt = x].expiresAt = p.expiresAt
      BY Zenon, <2>1 DEF ValueObject
    <2>4. o.expiresAt = p.expiresAt
      BY ZenonT(30), <2>2, <2>3
    <2> QED
      BY ZenonT(30), <2>1, <2>4 DEF Fresh
  <1>4. Fresh(o) \/ (k \in DOMAIN values[d] /\ o = values[d][k])
    BY ZenonT(30), <1>3 DEF Sound, Origin
  <1>5. o.expiresAt \in Int
    BY Zenon DEF ValueObject
  <1> HIDE DEF d, since
  <1>6. CASE Fresh(o)
    <2>1. o.expiresAt = Never \/ o.expiresAt >= since
      BY SMTT(30), <1>0, <1>5, <1>6 DEF Fresh
    <2> QED
      BY Zenon, <2>1 DEF since
  <1> QED
    BY SMTT(30), <1>2, <1>4, <1>6 DEF d

\* Every step keeps a scan from finding an object older than itself.
LEMMA NextScanInv ==
  ASSUME IInv, IInv', ScanInv, [Next]_vars
  PROVE  ScanInv'
  <1>0. /\ now \in Nat /\ now' \in Nat /\ now' >= now
        /\ \A scan \in scanning : scan[3] \in Nat /\ scan[2] \in Db
        /\ \A scan \in scanning' : scan[3] \in Nat /\ scan[2] \in Db
        /\ \A d \in Db : \A k \in DOMAIN values'[d] : values'[d][k] \in ValueObject
    BY Zenon, NextTidy DEF Tidy, ScansSweep, IInv, TypeOK, IsStore
  <1>1. ASSUME NEW scan \in scanning'
        PROVE  /\ scan[3] <= now'
               /\ \A k \in DOMAIN values'[scan[2]] :
                    \/ values'[scan[2]][k].expiresAt = Never
                    \/ values'[scan[2]][k].expiresAt >= scan[3]
    <2>1. CASE scan \in scanning
      <3>1. scan[3] <= now'
        BY SMTT(30), <1>0, <2>1 DEF ScanInv
      <3>2. \A k \in DOMAIN values'[scan[2]] : Sound(values'[scan[2]][k], scan[2], k)
        BY SMTT(30), <1>0, <2>1, NextTidy DEF Tidy, SoundStore
      <3> QED
        BY ZenonT(30), <1>0, <2>1, <3>1, <3>2, SoundSinceScan
    <2>2. CASE scan \notin scanning
      BY Zenon, <1>0, <2>2, NextTidy DEF Tidy, ScansSweep, Fresh
    <2> QED
      BY Zenon, <2>1, <2>2
  <1> QED
    BY ZenonT(30), <1>1 DEF ScanInv, ScanFindsNoneExpired

\* Whatever the threads store, rename or move between the sweep of a KEYS or
\* DBSIZE and its read, it finds no object that had expired when it began.
THEOREM ScansNeverFindExpired == Spec => []ScanFindsNoneExpired
  <1>1. Init => ScanInv
    BY Zenon DEF Init, ScanInv, ScanFindsNoneExpired
  <1>2. IInv /\ IInv' /\ ScanInv /\ [Next]_vars => ScanInv'
    BY Zenon, NextScanInv
  <1>3. ScanInv => ScanFindsNoneExpired
    BY Zenon DEF ScanInv
  <1> QED
    BY <1>1, <1>2, <1>3, Invariance, PTL DEF Spec

-----------------------------------------------------------------------------
\* Deadlines and what TTL answers.

\* Whatever the threads do, a live key that survives a step has the deadline it
\* had, unless the step is a command that sets deadlines and names the key.
THEOREM DeadlinesMoveByCommand == Spec => DeadlineMovesOnlyByCommand
  <1>1. ASSUME IInv, [Next]_vars, NEW d \in Db, NEW k \in Live(d) \cap DOMAIN values'[d]
        PROVE  values'[d][k].expiresAt # values[d][k].expiresAt => SetsDeadline(d, k)
    <2>1. Sound(values'[d][k], d, k)
      BY Zenon, <1>1, NextTidy DEF Tidy, SoundStore
    <2> QED
      BY ZenonT(30), <1>1, <2>1 DEF Sound, Kept
  <1>2. IInv /\ [Next]_vars =>
          [\A d \in Db : \A k \in Live(d) \cap DOMAIN values'[d] :
             values'[d][k].expiresAt # values[d][k].expiresAt => SetsDeadline(d, k)]_vars
    BY ZenonT(30), <1>1
  <1> QED
    BY <1>2, Invariance, PTL DEF Spec, DeadlineMovesOnlyByCommand

\* No deadline is further away than the longest TTL a command may ask for.
DeadlineInv ==
  \A d \in Db : \A k \in DOMAIN values[d] :
    values[d][k].expiresAt # Never =>
      \E t \in Ttl \cap Nat : values[d][k].expiresAt <= now + t * Second

\* Every step sets a deadline within reach or carries one over, and time only
\* brings deadlines nearer.
LEMMA NextDeadlineInv ==
  ASSUME IInv, IInv', DeadlineInv, [Next]_vars
  PROVE  DeadlineInv'
  <1> SUFFICES ASSUME NEW d \in Db, NEW k \in DOMAIN values'[d], values'[d][k].expiresAt # Never
               PROVE  \E t \in Ttl \cap Nat : values'[d][k].expiresAt <= now' + t * Second
    BY Zenon DEF DeadlineInv
  <1> DEFINE at == values'[d][k].expiresAt
  <1>0. now \in Nat /\ now' \in Nat /\ now' >= now /\ at \in Int
    <2>1. values'[d][k] \in ValueObject
      BY Zenon DEF IInv, TypeOK, IsStore
    <2> QED
      BY Zenon, <2>1, NextTidy DEF Tidy, ScansSweep, IInv, TypeOK, ValueObject
  <1>1. Dated(values'[d][k])
    BY Zenon, NextTidy DEF Tidy, SoundStore, Sound
  <1>2. PICK t \in Ttl \cap Nat : at = now + t * Second \/ at <= now + t * Second
    BY ZenonT(30), <1>1 DEF Dated, Asked, DeadlineInv
  <1>3. t * Second \in Nat
    BY SecondAssumption
  <1> DEFINE p == t * Second
  <1> HIDE DEF at, p
  <1>4. at <= now' + p
    <2>1. p \in Nat /\ (at = now + p \/ at <= now + p)
      BY Zenon, <1>2, <1>3 DEF p
    <2>2. \A x \in Int : \A m, n, r \in Nat : n >= m /\ (x = m + r \/ x <= m + r) => x <= n + r
      OBVIOUS
    <2> QED
      BY ZenonT(30), <1>0, <2>1, <2>2
  <1> QED
    BY Zenon, <1>4 DEF at, p

\* Whole seconds, rounded up, of a time that is to come and within t seconds.
LEMMA SecondsRoundedUp ==
  ASSUME NEW x \in Nat \ {0}, NEW t \in Nat, x <= t * Second
  PROVE  (x + Second - 1) \div Second \in 1 .. t
  <1> DEFINE q == (x + Second - 1) \div Second
  <1>1. Second \in Nat \ {0}
    BY Zenon, SecondAssumption
  <1>2. /\ q \in Int
        /\ Second * q <= x + Second - 1
        /\ x + Second - 1 < Second * (q + 1)
    BY <1>1
  <1> HIDE DEF q
  <1>3. Second * (q + 1) = Second * q + Second /\ t * Second = Second * t
    BY SMTT(30), <1>1, <1>2
  <1>4. q >= 1
    <2> SUFFICES ASSUME q <= 0
                 PROVE  FALSE
      BY <1>2
    <2>1. Second * q <= 0
      BY SMTT(30), <1>1, <1>2
    <2> DEFINE p == Second * q
    <2>2. p \in Int /\ p <= 0 /\ x + Second - 1 < p + Second
      BY SMTT(30), <1>1, <1>2, <1>3, <2>1
    <2> HIDE DEF p
    <2> QED
      BY SMTT(30), <1>1, <2>2
  <1>5. q <= t
    <2> SUFFICES ASSUME q >= t + 1
                 PROVE  FALSE
      BY <1>2
    <2>1. Second * q >= Second * (t + 1)
      BY SMTT(30), <1>1, <1>2
    <2>2. Second * (t + 1) = Second * t + Second
      BY <1>1
    <2> DEFINE p == Second * q
               r == Second * t
    <2>3. p \in Int /\ r \in Int /\ p >= r + Second /\ p <= x + Second - 1 /\ x <= r
      BY SMTT(30), <1>1, <1>2, <1>3, <2>1, <2>2
    <2> HIDE DEF p, r
    <2> QED
      BY SMTT(30), <1>1, <2>3
  <1> QED
    BY SMTT(30), <1>2, <1>4, <1>5 DEF q

\* Whatever deadlines were set, renamed, moved and approached, TTL answers at
\* least one second for a live key that has one, and no more than was asked for.
THEOREM TtlRepliesInRange == Spec => []TtlReplyInRange
  <1>1. Init => DeadlineInv
    BY Zenon, EmptyMapType DEF Init, DeadlineInv
  <1>2. IInv /\ IInv' /\ DeadlineInv /\ [Next]_vars => DeadlineInv'
    BY Zenon, NextDeadlineInv
  <1>3. IInv /\ DeadlineInv => TtlReplyInRange
    <2> SUFFICES ASSUME IInv, DeadlineInv, NEW d \in Db, NEW k \in Live(d),
                        values[d][k].expiresAt # Never
                 PROVE  /\ RemainingSeconds(values[d][k], now) >= 1
                        /\ \E t \in Ttl : RemainingSeconds(values[d][k], now) <= t
      BY Zenon DEF TtlReplyInRange
    <2> DEFINE at == values[d][k].expiresAt
    <2>1. k \in DOMAIN values[d] /\ values[d][k] \in ValueObject /\ now \in Nat
      BY Zenon, LiveFresh DEF IInv, TypeOK
    <2>2. at \in Int /\ at > now
      BY <2>1 DEF ValueObject, Live, Expired, isExpired
    <2>3. PICK t \in Ttl \cap Nat : at <= now + t * Second
      BY ZenonT(30), <2>1 DEF DeadlineInv
    <2> HIDE DEF at
    <2>4. at - now \in Nat \ {0} /\ at - now <= t * Second
      <3> DEFINE p == t * Second
      <3>1. p \in Nat /\ at <= now + p
        BY SMTT(30), <2>3, SecondAssumption
      <3> HIDE DEF p
      <3>2. at - now \in Nat \ {0} /\ at - now <= p
        BY SMTT(30), <2>1, <2>2, <3>1
      <3> QED
        BY Zenon, <3>2 DEF p
    <2>5. (at - now + Second - 1) \div Second \in 1 .. t
      BY Zenon, <2>4, SecondsRoundedUp
    <2>6. RemainingSeconds(values[d][k], now) \in 1 .. t
      BY Zenon, <2>5 DEF RemainingSeconds, at
    <2> QED
      BY <2>6
  <1> QED
    BY <1>1, <1>2, <1>3, Invariance, PTL DEF Spec

=============================================================================
