-------------------------- MODULE DataStoreProofs ---------------------------
(***************************************************************************)
(* Proofs about DataStore for every set of keys, databases and arguments   *)
(* and every eviction configuration: types and payloads; the sum of the    *)
(* bytes of a store's objects; the closed form of eviction as what its     *)
(* loop does; and the limits of a store.                                   *)
(***************************************************************************)
EXTENDS DataStore, EvictionLoop, StoreOpsProofs, FiniteSetTheorems

-----------------------------------------------------------------------------
\* The inductive invariant.  Neither conjunct is inductive alone: that a pop
\* leaves a list of the right type needs TypeOK, and that an in-place update
\* starts from an object with one payload needs WellFormed.
IInv == TypeOK /\ WellFormed

\* The inductive invariant says of every store that it is good.
LEMMA StoresGood ==
  ASSUME IInv, NEW d \in Db
  PROVE  GoodStore(values[d]) /\ now \in Int
  BY DEF IInv, TypeOK, WellFormed, GoodStore

\* The lookup at the start of a method leaves a good store.
LEMMA FoundGood ==
  ASSUME IInv, NEW d \in Db, NEW k
  PROVE  GoodStore(Found(d, k)) /\ DOMAIN Found(d, k) \subseteq Key
  BY Zenon, StoresGood, GoodWithout DEF Found, Purged, GoodStore, IsStore

\* A method that leaves a good store preserves the invariant.
LEMMA BecomesGood ==
  ASSUME IInv, NEW d \in Db, NEW s, GoodStore(s), StoreBecomes(d, s)
  PROVE  IInv'
  BY SMTT(30) DEF StoreBecomes, IInv, TypeOK, WellFormed, GoodStore

\* So does one that evicts at its end.
LEMMA BecomesEvictedGood ==
  ASSUME IInv, NEW d \in Db, NEW s, GoodStore(s), StoreBecomesEvicted(d, s)
  PROVE  IInv'
  <1>1. PICK E : StoreBecomes(d, Without(s, E))
    BY Zenon DEF StoreBecomesEvicted
  <1> QED
    BY Zenon, <1>1, GoodWithout, BecomesGood

\* Reads preserve the invariant.
LEMMA LookupGood ==
  ASSUME IInv, NEW d \in Db, NEW k, NEW answers \in BOOLEAN,
         answers => k \in DOMAIN Found(d, k), Lookup(d, k, answers)
  PROVE  IInv'
  <1>1. GoodStore(Found(d, k)) /\ now \in Int
    BY Zenon, FoundGood, StoresGood
  <1>2. answers => GoodStore(Touched(Found(d, k), k, now))
    BY Zenon, <1>1, GoodTouched
  <1>3. CASE answers
    BY Zenon, <1>2, <1>3, BecomesGood DEF Lookup
  <1>4. CASE ~answers
    BY Zenon, <1>1, <1>4, BecomesGood DEF Lookup
  <1> QED
    BY Zenon, <1>3, <1>4

\* Writes that create or update preserve the invariant when their result is good.
LEMMA UpsertGood ==
  ASSUME IInv, NEW d \in Db, NEW k, NEW succeeds \in BOOLEAN, NEW s,
         succeeds => GoodStore(s), Upsert(d, k, succeeds, s)
  PROVE  IInv'
  BY Zenon, FoundGood, BecomesGood, BecomesEvictedGood DEF Upsert

\* Removals from a collection preserve the invariant when their result is good.
LEMMA ShrinkGood ==
  ASSUME IInv, NEW d \in Db, NEW k, NEW ty, NEW s,
         HasType(Found(d, k), k, ty) => GoodStore(s), Shrink(d, k, ty, s)
  PROVE  IInv'
  <1>1. CASE HasType(Found(d, k), k, ty)
    BY Zenon, <1>1, BecomesGood DEF Shrink
  <1>2. CASE ~HasType(Found(d, k), k, ty)
    BY Zenon, <1>2, FoundGood, BecomesGood DEF Shrink
  <1> QED
    BY Zenon, <1>1, <1>2

-----------------------------------------------------------------------------

\* The stores of a new server are good.
LEMMA InitGood == Init => IInv
  BY SMTT(30), EmptyGood DEF Init, IInv, TypeOK, WellFormed, GoodStore

\* The methods on keys and deadlines preserve the invariant.
LEMMA KeyStepGood ==
  ASSUME IInv, NEW d \in Db, NEW k \in Key, KeyStep(d, k)
  PROVE  IInv'
  <1> DEFINE s == Found(d, k)
  <1>0. GoodStore(values[d]) /\ GoodStore(s) /\ now \in Int
    BY Zenon, StoresGood, FoundGood
  <1>1. ASSUME NEW v \in Text \cup {0}, NEW t \in Ttl, set(d, k, v, t)
        PROVE  IInv'
    <2>1. v \in Int \cup Text /\ t \in Int
      BY BoundAssumption
    <2> QED
      BY SMTT(30), <1>0, <1>1, <2>1, GoodWithString, BecomesEvictedGood DEF set
  <1>2. CASE del(d, k)
    BY SMTT(30), <1>0, <1>2, GoodWithout, BecomesGood DEF del
  <1>3. CASE exists(d, k) \/ type(d, k) \/ memoryUsage(d, k)
    <2>1. (k \in DOMAIN Found(d, k)) \in BOOLEAN
      OBVIOUS
    <2> QED
      BY ZenonT(30), <1>3, <2>1, LookupGood DEF exists, type, memoryUsage
  <1>4. ASSUME NEW t \in Ttl \cap Nat, expire(d, k, t)
        PROVE  IInv'
    <2>1. now + t * Second \in Int
      BY Zenon, <1>0, BoundAssumption, DeadlineType
    <2>2. k \in DOMAIN s => GoodStore(WithDeadline(s, k, now + t * Second))
      BY Zenon, <1>0, <2>1, GoodTouched
    <2>3. CASE k \in DOMAIN s
      BY SMTT(30), <1>4, <2>2, <2>3, BecomesGood DEF expire
    <2>4. CASE k \notin DOMAIN s
      BY SMTT(30), <1>0, <1>4, <2>4, BecomesGood DEF expire
    <2> QED
      BY Zenon, <2>3, <2>4
  <1>5. CASE ttl(d, k)
    BY ZenonT(30), <1>5, LookupGood DEF ttl
  <1>6. CASE persist(d, k)
    <2> DEFINE p == WithDeadline(s, k, Never)
    <2>1. k \in DOMAIN s => GoodStore(p) /\ k \in DOMAIN p
      BY <1>0, GoodTouched DEF Never
    <2>2. k \in DOMAIN s => GoodStore(Touched(p, k, now))
      BY Zenon, <1>0, <2>1, GoodTouched
    <2> QED
      BY ZenonT(30), <1>6, <2>2, UpsertGood DEF persist
  <1>7. ASSUME NEW destination \in Key, rename(d, k, destination)
        PROVE  IInv'
    <2>1. k \in DOMAIN s => GoodStore(Renamed(s, k, destination, now))
      BY Zenon, <1>0, GoodRenamed
    <2> QED
      BY ZenonT(30), <1>7, <2>1, UpsertGood DEF rename
  <1>8. ASSUME NEW e \in Db, moveKeyTo(d, k, e)
        PROVE  IInv'
    <2> DEFINE destination == Found(e, k)
               arrived == Put(destination, k, Touched(s, k, now)[k])
    <2>1. CASE StoreBecomes(d, s)
      BY Zenon, <1>0, <2>1, BecomesGood
    <2>2. CASE /\ k \in DOMAIN s
               /\ \E E \in evictIfNeeded(arrived, evictionConfig) :
                    values' = [values EXCEPT ![d] = Without(s, {k}), ![e] = Without(arrived, E)]
               /\ UNCHANGED <<now, evictionConfig, scanning>>
      <3>1. GoodStore(Touched(s, k, now)) /\ k \in DOMAIN Touched(s, k, now)
        BY Zenon, <1>0, <2>2, GoodTouched
      <3>2. GoodObject(Touched(s, k, now)[k])
        BY SMTT(30), <3>1 DEF GoodStore, IsStore, GoodObject
      <3>3. GoodStore(arrived)
        BY Zenon, <3>2, FoundGood, GoodPut
      <3> HIDE DEF arrived
      <3>4. PICK E : values' = [values EXCEPT ![d] = Without(s, {k}), ![e] = Without(arrived, E)]
        BY ZenonT(30), <2>2
      <3> DEFINE left == Without(s, {k})
                 right == Without(arrived, E)
      <3>5. GoodStore(left) /\ GoodStore(right)
        BY Zenon, <1>0, <3>3, GoodWithout
      <3>6. values' = [values EXCEPT ![d] = left, ![e] = right]
        BY Zenon, <3>4
      <3> HIDE DEF s, left, right
      <3>7. DOMAIN values' = Db /\ \A f \in Db : GoodStore(values'[f])
        BY SMTT(30), <3>5, <3>6, StoresGood DEF IInv, TypeOK
      <3>8. UNCHANGED <<now, evictionConfig, scanning>>
        BY ZenonT(30), <2>2
      <3> QED
        BY SMTT(30), <3>7, <3>8 DEF IInv, TypeOK, WellFormed, GoodStore
    <2> QED
      BY Zenon, <1>8, <2>1, <2>2 DEF moveKeyTo
  <1> QED
    BY ZenonT(30), <1>1, <1>2, <1>3, <1>4, <1>5, <1>6, <1>7, <1>8 DEF KeyStep

\* A key of some type is a key.
LEMMA TypedLookup ==
  ASSUME NEW s, NEW k, NEW ty
  PROVE  HasType(s, k, ty) \in BOOLEAN /\ (HasType(s, k, ty) => k \in DOMAIN s)
  BY Zenon DEF HasType

\* The methods on strings preserve the invariant.
LEMMA StringStepGood ==
  ASSUME IInv, NEW d \in Db, NEW k \in Key, StringStep(d, k)
  PROVE  IInv'
  <1> DEFINE s == Found(d, k)
  <1>0. GoodStore(s) /\ now \in Int
    BY Zenon, StoresGood, FoundGood
  <1>1. CASE get(d, k) \/ strlen(d, k)
    BY SMTT(30), <1>1, LookupGood, TypedLookup DEF get, strlen
  <1>2. ASSUME NEW delta \in {-1, 1}, incrBy(d, k, delta)
        PROVE  IInv'
    <2>1. Incrementable(s, k) => GoodStore(WithIncrement(s, k, delta, now))
      BY <1>0, GoodWithIncrement
    <2>2. Incrementable(s, k) \in BOOLEAN
      BY Zenon DEF Incrementable
    <2> QED
      BY SMTT(30), <1>2, <2>1, <2>2, UpsertGood DEF incrBy
  <1>3. ASSUME NEW suffix \in Text, append(d, k, suffix)
        PROVE  IInv'
    <2>1. Accepts(s, k, "string") => GoodStore(WithSuffix(s, k, suffix, now))
      BY Zenon, <1>0, GoodWithSuffix
    <2>2. Accepts(s, k, "string") \in BOOLEAN
      BY Zenon DEF Accepts
    <2> QED
      BY SMTT(30), <1>3, <2>1, <2>2, UpsertGood DEF append
  <1> QED
    BY Zenon, <1>1, <1>2, <1>3 DEF StringStep

\* LPUSH and RPUSH are given at least one element.
LEMMA ArgumentsType ==
  ASSUME NEW elems \in Arguments
  PROVE  elems \in Seq(Elem) /\ elems # <<>>
  <1>1. CASE \E x \in Elem : elems = <<x>>
    BY <1>1
  <1>2. CASE \E x, y \in Elem : elems = <<x, y>>
    BY <1>2
  <1> QED
    BY <1>1, <1>2 DEF Arguments

\* The methods on lists, hashes and sets preserve the invariant.
LEMMA CollectionStepGood ==
  ASSUME IInv, NEW d \in Db, NEW k \in Key, CollectionStep(d, k)
  PROVE  IInv'
  <1> DEFINE s == Found(d, k)
  <1>0. GoodStore(s) /\ now \in Int
    BY Zenon, StoresGood, FoundGood
  <1>a. \A ty : Accepts(s, k, ty) \in BOOLEAN
    BY Zenon DEF Accepts
  <1>1. ASSUME NEW elems \in Arguments, lpush(d, k, elems) \/ rpush(d, k, elems)
        PROVE  IInv'
    <2>1. Accepts(s, k, "list") => /\ GoodStore(WithHeads(s, k, elems, now))
                                   /\ GoodStore(WithTails(s, k, elems, now))
      BY SMTT(30), <1>0, ArgumentsType, GoodWithHeadsAndTails
    <2>2. CASE lpush(d, k, elems)
      BY SMTT(30), <1>a, <2>1, <2>2, UpsertGood DEF lpush
    <2>3. CASE rpush(d, k, elems)
      BY SMTT(30), <1>a, <2>1, <2>3, UpsertGood DEF rpush
    <2> QED
      BY Zenon, <1>1, <2>2, <2>3
  <1>2. CASE lpop(d, k) \/ rpop(d, k)
    <2> DEFINE l == s[k].list
    <2>1. HasType(s, k, "list") => l \in Seq(Elem)
      BY SMTT(30), <1>0 DEF HasType, GoodStore, IsStore, ValueObject
    <2>2. HasType(s, k, "list") /\ l # <<>> => Tail(l) \in Seq(Elem) /\ Front(l) \in Seq(Elem)
      <3> HIDE DEF l
      <3> QED
        BY <2>1 DEF Front
    <2>3. HasType(s, k, "list") =>
            /\ GoodStore(IF l = <<>> THEN s ELSE WithRest(s, k, Tail(l), now))
            /\ GoodStore(IF l = <<>> THEN s ELSE WithRest(s, k, Front(l), now))
      BY ZenonT(30), <1>0, <2>2, GoodWithRest
    <2>4. CASE lpop(d, k)
      BY Zenon, <2>3, <2>4, ShrinkGood DEF lpop
    <2>5. CASE rpop(d, k)
      BY Zenon, <2>3, <2>5, ShrinkGood DEF rpop
    <2> QED
      BY Zenon, <1>2, <2>4, <2>5
  <1>3. ASSUME NEW start, NEW stop, lrange(d, k, start, stop)
        PROVE  IInv'
    <2> DEFINE range == normalizeRange(start, stop, Len(s[k].list))
               answers == HasType(s, k, "list") /\ range[1] <= range[2]
    <2>1. answers \in BOOLEAN /\ (answers => k \in DOMAIN s)
      BY Zenon DEF HasType
    <2>2. Lookup(d, k, answers)
      BY Zenon, <1>3 DEF lrange
    <2> HIDE DEF answers
    <2> QED
      BY SMTT(30), <2>1, <2>2, LookupGood
  <1>4. ASSUME NEW field \in Field, NEW elem \in Elem, hset(d, k, field, elem)
        PROVE  IInv'
    <2>1. Accepts(s, k, "hash") => GoodStore(WithField(s, k, field, elem, now))
      BY Zenon, <1>0, GoodWithField
    <2> QED
      BY SMTT(30), <1>4, <1>a, <2>1, UpsertGood DEF hset
  <1>5. ASSUME NEW field \in Field, hget(d, k, field) \/ hdel(d, k, field)
        PROVE  IInv'
    <2>1. CASE hget(d, k, field)
      <3> DEFINE answers == HasType(s, k, "hash") /\ field \in DOMAIN s[k].hash
      <3>1. answers \in BOOLEAN /\ (answers => k \in DOMAIN s)
        BY Zenon DEF HasType
      <3>2. Lookup(d, k, answers)
        BY Zenon, <2>1 DEF hget
      <3> HIDE DEF answers
      <3> QED
        BY Zenon, <3>1, <3>2, LookupGood
    <2>2. CASE hdel(d, k, field)
      <3>1. HasType(s, k, "hash") => GoodStore(WithoutField(s, k, field, now))
        BY Zenon, <1>0, GoodWithoutField
      <3> QED
        BY Zenon, <2>2, <3>1, ShrinkGood DEF hdel
    <2> QED
      BY Zenon, <1>5, <2>1, <2>2
  <1>6. ASSUME NEW members \in (SUBSET Elem) \ {{}}, sadd(d, k, members) \/ srem(d, k, members)
        PROVE  IInv'
    <2>1. CASE sadd(d, k, members)
      <3>1. Accepts(s, k, "set") => GoodStore(WithMembers(s, k, members, now))
        BY SMTT(30), <1>0, <1>6, GoodWithMembers
      <3> QED
        BY SMTT(30), <1>a, <2>1, <3>1, UpsertGood DEF sadd
    <2>2. CASE srem(d, k, members)
      <3>1. HasType(s, k, "set") => GoodStore(WithoutMembers(s, k, members, now))
        BY Zenon, <1>0, GoodWithoutMembers
      <3> QED
        BY SMTT(30), <2>2, <3>1, ShrinkGood DEF srem
    <2> QED
      BY Zenon, <1>6, <2>1, <2>2
  <1>7. CASE hexists(d, k) \/ hgetall(d, k)
    BY SMTT(30), <1>7, LookupGood, TypedLookup DEF hexists, hgetall
  <1>8. CASE sismember(d, k) \/ smembers(d, k) \/ scard(d, k)
    BY Zenon, <1>8, LookupGood, TypedLookup DEF sismember, smembers, scard
  <1> QED
    BY SMTT(30), <1>1, <1>2, <1>3, <1>4, <1>5, <1>6, <1>7, <1>8 DEF CollectionStep

\* The methods on a whole store preserve the invariant.
LEMMA StoreStepGood ==
  ASSUME IInv, NEW d \in Db, StoreStep(d)
  PROVE  IInv'
  <1>0. GoodStore(values[d]) /\ now \in Int /\ GoodStore(Swept(d))
    BY Zenon, StoresGood, GoodWithout DEF Swept
  <1>1. ASSUME NEW K \in SUBSET Key, mget(d, K)
        PROVE  IInv'
    <2> DEFINE s == Without(values[d], K \cap Expired(values[d], now))
               m == [k \in DOMAIN s |->
                       IF k \in K /\ s[k].type = "string" THEN Touched(s, k, now)[k] ELSE s[k]]
    <2>1. GoodStore(s)
      BY Zenon, <1>0, GoodWithout
    <2> HIDE DEF s
    <2>2. \A k \in DOMAIN s : GoodObject(s[k]) /\ GoodObject(Touched(s, k, now)[k])
      BY SMTT(30), <1>0, <2>1, GoodTouched DEF GoodStore, IsStore, GoodObject
    <2>3. GoodStore(m)
      BY SMTT(30), <2>1, <2>2 DEF GoodStore, IsStore, GoodObject
    <2>4. StoreBecomes(d, m)
      BY Zenon, <1>1 DEF mget, s
    <2> HIDE DEF m
    <2> QED
      BY Zenon, <2>3, <2>4, BecomesGood
  <1>2. ASSUME NEW K \in SUBSET Key, NEW entries \in [K -> Text], mset(d, entries)
        PROVE  IInv'
    BY SMTT(30), <1>0, <1>2, GoodWithStrings, BecomesEvictedGood DEF mset
  <1>3. CASE flushdb(d)
    BY SMTT(30), <1>3, EmptyGood, BecomesGood DEF flushdb
  <1>4. CASE removeExpired(d) \/ snapshot(d)
    BY SMTT(30), <1>0, <1>4, BecomesGood DEF removeExpired, snapshot
  <1>5. ASSUME NEW c \in Scanner, ScanSweep(c, d) \/ ScanRead(c, d)
        PROVE  IInv'
    <2>1. CASE ScanSweep(c, d)
      <3> HIDE DEF Swept
      <3> QED
        BY <1>0, <2>1 DEF ScanSweep, IInv, TypeOK, WellFormed, GoodStore
    <2>2. CASE ScanRead(c, d)
      BY SMTT(30), <2>2 DEF ScanRead, IInv, TypeOK, WellFormed
    <2> QED
      BY SMTT(30), <1>5, <2>1, <2>2
  <1> QED
    BY SMTT(30), <1>1, <1>2, <1>3, <1>4, <1>5 DEF StoreStep

-----------------------------------------------------------------------------

\* Every step preserves the invariant.
LEMMA NextGood == IInv /\ [Next]_vars => IInv'
  <1> SUFFICES ASSUME IInv, [Next]_vars
               PROVE  IInv'
    BY Zenon
  <1>1. CASE Tick
    BY <1>1 DEF Tick, IInv, TypeOK, WellFormed
  <1>2. CASE UNCHANGED vars
    BY SMTT(30), <1>2 DEF vars, IInv, TypeOK, WellFormed
  <1> QED
    BY SMTT(30), <1>1, <1>2, StoreStepGood, KeyStepGood, StringStepGood, CollectionStepGood DEF Next

\* The inductive invariant of the stores: every method of DataStore leaves
\* well-typed objects that hold the payload of their type and no other.
THEOREM Invariance == Spec => []IInv
  BY InitGood, NextGood, PTL DEF Spec

\* Whatever the threads do, every store holds ValueObjects under keys, the clock
\* is a natural number and the eviction configuration is the one started with.
THEOREM TypeCorrect == Spec => []TypeOK
  BY Invariance, PTL DEF IInv

\* Every object holds the payload of its own type and no other, and no
\* collection is ever empty, for any keys, arguments and eviction configuration.
THEOREM PayloadsMatchTypes == Spec => []WellFormed
  BY Invariance, PTL DEF IInv

-----------------------------------------------------------------------------
\* Finite sets.

\* Induction over the subsets of a finite set.
LEMMA FiniteInduction ==
  ASSUME NEW S, IsFiniteSet(S), NEW G, {} \in G,
         \A T \in SUBSET S : \A x \in S \ T : T \in G => T \cup {x} \in G
  PROVE  SUBSET S \subseteq G
  <1> DEFINE N == {n \in Nat : \A T \in SUBSET S : Cardinality(T) = n => T \in G}
  <1>0. \A T \in SUBSET S : IsFiniteSet(T) /\ Cardinality(T) \in Nat
    BY Zenon, FS_Subset, FS_CardinalityType
  <1>1. 0 \in N
    BY ZenonT(30), <1>0, FS_EmptySet
  <1>2. ASSUME NEW n \in Nat, n \in N
        PROVE  n + 1 \in N
    <2> SUFFICES ASSUME NEW T \in SUBSET S, Cardinality(T) = n + 1
                 PROVE  T \in G
      OBVIOUS
    <2>1. Cardinality({}) = 0 /\ IsFiniteSet(T)
      BY Zenon, <1>0, FS_EmptySet
    <2>2. PICK x \in T : TRUE
      BY <2>1
    <2>3. Cardinality(T \ {x}) = n /\ T \ {x} \in SUBSET S
      <3>1. Cardinality(T \ {x}) = Cardinality(T) - 1
        BY ZenonT(30), <2>1, FS_RemoveElement
      <3> QED
        BY <3>1
    <2>4. T \ {x} \in G /\ x \in S \ (T \ {x}) /\ (T \ {x}) \cup {x} = T
      BY Zenon, <1>2, <2>3
    <2> QED
      BY Zenon, <2>3, <2>4
  <1> HIDE DEF N
  <1>3. Nat \subseteq N
    BY Zenon, <1>1, <1>2, Induction
  <1> QED
    BY Zenon, <1>0, <1>3 DEF N

-----------------------------------------------------------------------------
\* The bytes of a set of keys of a store.

Bytes(s, K) == MapThenSumSet(LAMBDA k : estimateObjectBytes(s[k]), K)

SomeKey(K) == CHOOSE k \in K : TRUE

\* What defines the sum: the bytes of one key, and those of the others.
OneMore(s, g, K) ==
  IF K = {} THEN 0 ELSE estimateObjectBytes(s[SomeKey(K)]) + g[K \ {SomeKey(K)}]

Sums(s, S, g) == g = [K \in SUBSET S |-> OneMore(s, g, K)]

\* One key fewer, and it is one of the keys.
LEMMA SomeKeyFewer ==
  ASSUME NEW K, IsFiniteSet(K), K # {}
  PROVE  /\ SomeKey(K) \in K /\ IsFiniteSet(K \ {SomeKey(K)})
         /\ Cardinality(K) \in Nat /\ Cardinality(K \ {SomeKey(K)}) = Cardinality(K) - 1
  <1>1. SomeKey(K) \in K
    BY Zenon DEF SomeKey
  <1> QED
    BY Zenon, <1>1, FS_RemoveElement, FS_CardinalityType

\* Such a function exists.
LEMMA BytesExist ==
  ASSUME NEW s, NEW S, IsFiniteSet(S)
  PROVE  \E g : Sums(s, S, g)
  <1> DEFINE N == {n \in Nat : \E g : \A K \in SUBSET S :
                                 Cardinality(K) <= n => g[K] = OneMore(s, g, K)}
  <1>0. \A K \in SUBSET S : IsFiniteSet(K) /\ Cardinality(K) \in Nat /\ Cardinality(K) <= Cardinality(S)
    BY Zenon, FS_Subset, FS_CardinalityType
  <1>1. 0 \in N
    <2> DEFINE g == [K \in SUBSET S |-> 0]
    <2>1. \A K \in SUBSET S : Cardinality(K) <= 0 => g[K] = OneMore(s, g, K)
      BY <1>0, FS_EmptySet DEF OneMore
    <2> QED
      BY Zenon, <2>1
  <1>2. ASSUME NEW n \in Nat, n \in N
        PROVE  n + 1 \in N
    <2>1. PICK g : \A K \in SUBSET S : Cardinality(K) <= n => g[K] = OneMore(s, g, K)
      BY Zenon, <1>2
    <2> DEFINE h == [K \in SUBSET S |-> IF Cardinality(K) <= n THEN g[K] ELSE OneMore(s, g, K)]
    <2>2. ASSUME NEW K \in SUBSET S, Cardinality(K) <= n + 1
          PROVE  h[K] = OneMore(s, h, K)
      <3>1. h[K] = OneMore(s, g, K)
        BY Zenon, <2>1
      <3>2. CASE K = {}
        BY Zenon, <3>1, <3>2 DEF OneMore
      <3>3. CASE K # {}
        <4>1. Cardinality(K \ {SomeKey(K)}) <= n /\ K \ {SomeKey(K)} \in SUBSET S
          BY <1>0, <2>2, <3>3, SomeKeyFewer
        <4>2. h[K \ {SomeKey(K)}] = g[K \ {SomeKey(K)}]
          BY Zenon, <4>1
        <4> HIDE DEF h
        <4> QED
          BY Zenon, <3>1, <3>3, <4>2 DEF OneMore
      <3> QED
        BY Zenon, <3>2, <3>3
    <2> HIDE DEF h
    <2> QED
      BY <2>2
  <1>3. Cardinality(S) \in N
    <2> HIDE DEF N
    <2>1. Nat \subseteq N
      BY Zenon, <1>1, <1>2, Induction
    <2> QED
      BY Zenon, <2>1, FS_CardinalityType
  <1>4. PICK g : \A K \in SUBSET S : Cardinality(K) <= Cardinality(S) => g[K] = OneMore(s, g, K)
    BY Zenon, <1>3
  <1> DEFINE h == [K \in SUBSET S |-> g[K]]
  <1>5. \A K \in SUBSET S : OneMore(s, g, K) = OneMore(s, h, K)
    <2> SUFFICES ASSUME NEW K \in SUBSET S
                 PROVE  OneMore(s, g, K) = OneMore(s, h, K)
      BY ZenonT(30)
    <2>1. K \ {SomeKey(K)} \in SUBSET S
      BY Zenon
    <2> QED
      BY Zenon, <2>1 DEF OneMore
  <1>6. h = [K \in SUBSET S |-> OneMore(s, h, K)]
    BY ZenonT(30), <1>0, <1>4, <1>5
  <1> QED
    BY ZenonT(30), <1>6 DEF Sums

\* Two of them agree where both are defined.
LEMMA BytesUnique ==
  ASSUME NEW s, NEW S, IsFiniteSet(S), NEW T \in SUBSET S, NEW g, NEW h,
         Sums(s, S, g), Sums(s, T, h)
  PROVE  \A K \in SUBSET T : g[K] = h[K]
  <1> DEFINE N == {n \in Nat : \A K \in SUBSET T : Cardinality(K) = n => g[K] = h[K]}
  <1>0. \A K \in SUBSET T : IsFiniteSet(K) /\ Cardinality(K) \in Nat
    BY Zenon, FS_Subset, FS_CardinalityType
  <1>a. \A K \in SUBSET T : g[K] = OneMore(s, g, K) /\ h[K] = OneMore(s, h, K)
    <2>1. \A K \in SUBSET T : K \in SUBSET S
      BY Zenon
    <2>2. \A K \in SUBSET S : g[K] = OneMore(s, g, K)
      BY Zenon DEF Sums
    <2>3. \A K \in SUBSET T : h[K] = OneMore(s, h, K)
      BY Zenon DEF Sums
    <2> QED
      BY Zenon, <2>1, <2>2, <2>3
  <1>1. 0 \in N
    BY ZenonT(30), <1>0, <1>a, FS_EmptySet DEF OneMore
  <1>2. ASSUME NEW n \in Nat, n \in N
        PROVE  n + 1 \in N
    <2>0. n + 1 \in Nat
      OBVIOUS
    <2> SUFFICES ASSUME NEW K \in SUBSET T, Cardinality(K) = n + 1
                 PROVE  g[K] = h[K]
      BY Zenon, <2>0 DEF N
    <2>1. K # {}
      BY FS_EmptySet
    <2>2. Cardinality(K \ {SomeKey(K)}) = n /\ K \ {SomeKey(K)} \in SUBSET T
      BY <1>0, <2>1, SomeKeyFewer
    <2>3. g[K \ {SomeKey(K)}] = h[K \ {SomeKey(K)}]
      BY Zenon, <1>2, <2>2
    <2> QED
      BY Zenon, <1>a, <2>1, <2>3 DEF OneMore
  <1> HIDE DEF N
  <1>3. Nat \subseteq N
    BY Zenon, <1>1, <1>2, Induction
  <1> QED
    BY Zenon, <1>0, <1>3 DEF N

\* The sum is what it is meant to be.
LEMMA BytesDef ==
  ASSUME NEW s, NEW S, IsFiniteSet(S)
  PROVE  \E g : Sums(s, S, g) /\ \A K \in SUBSET S : Bytes(s, K) = g[K]
  <1> DEFINE sum(T) == CHOOSE g : Sums(s, T, g)
  <1>1. \A T : Bytes(s, T) = sum(T)[T]
    BY Zenon DEF Bytes, MapThenSumSet, MapThenFoldSet, Sums, OneMore, SomeKey
  <1>2. \A T \in SUBSET S : Sums(s, T, sum(T))
    <2> SUFFICES ASSUME NEW T \in SUBSET S
                 PROVE  Sums(s, T, sum(T))
      BY Zenon
    <2>1. IsFiniteSet(T)
      BY Zenon, FS_Subset
    <2>2. \E g : Sums(s, T, g)
      BY Zenon, <2>1, BytesExist
    <2> QED
      BY Zenon, <2>2
  <1> HIDE DEF sum
  <1>3. \A T \in SUBSET S : sum(S)[T] = sum(T)[T]
    <2> SUFFICES ASSUME NEW T \in SUBSET S
                 PROVE  sum(S)[T] = sum(T)[T]
      BY Zenon
    <2>1. Sums(s, S, sum(S))
      BY Zenon, <1>2
    <2>2. Sums(s, T, sum(T))
      BY Zenon, <1>2
    <2> QED
      BY <2>1, <2>2, BytesUnique
  <1> QED
    BY Zenon, <1>1, <1>2, <1>3

\* The sum over no key, and over some.
LEMMA BytesStep ==
  ASSUME NEW s, NEW K, IsFiniteSet(K)
  PROVE  Bytes(s, K) =
           IF K = {} THEN 0 ELSE estimateObjectBytes(s[SomeKey(K)]) + Bytes(s, K \ {SomeKey(K)})
  <1>1. PICK g : Sums(s, K, g) /\ \A L \in SUBSET K : Bytes(s, L) = g[L]
    BY Zenon, BytesDef
  <1>2. g[K] = OneMore(s, g, K)
    BY Zenon, <1>1 DEF Sums
  <1> QED
    BY Zenon, <1>1, <1>2 DEF OneMore

Weighed(s, K) == \A k \in K : estimateObjectBytes(s[k]) \in Nat

\* Sums are natural numbers.
LEMMA BytesNat ==
  ASSUME NEW s, NEW S, IsFiniteSet(S), Weighed(s, S)
  PROVE  \A K \in SUBSET S : Bytes(s, K) \in Nat
  <1> DEFINE N == {n \in Nat : \A K \in SUBSET S : Cardinality(K) = n => Bytes(s, K) \in Nat}
  <1>0. \A K \in SUBSET S : IsFiniteSet(K) /\ Cardinality(K) \in Nat
    BY Zenon, FS_Subset, FS_CardinalityType
  <1>1. 0 \in N
    <2>1. Bytes(s, {}) \in Nat
      BY FS_EmptySet, BytesStep
    <2> QED
      BY Zenon, <1>0, <2>1, FS_EmptySet
  <1>2. ASSUME NEW n \in Nat, n \in N
        PROVE  n + 1 \in N
    <2>0. n + 1 \in Nat
      OBVIOUS
    <2> SUFFICES ASSUME NEW K \in SUBSET S, Cardinality(K) = n + 1
                 PROVE  Bytes(s, K) \in Nat
      BY Zenon, <2>0 DEF N
    <2> DEFINE a == SomeKey(K)
    <2>1. K # {}
      BY FS_EmptySet
    <2>2. a \in K /\ Bytes(s, K) = estimateObjectBytes(s[a]) + Bytes(s, K \ {a})
      BY Zenon, <1>0, <2>1, BytesStep DEF SomeKey
    <2> HIDE DEF a
    <2>3. Cardinality(K \ {a}) = n /\ K \ {a} \in SUBSET S
      <3>1. IsFiniteSet(K)
        BY Zenon, <1>0
      <3>2. Cardinality(K \ {a}) = Cardinality(K) - 1
        BY ZenonT(30), <2>2, <3>1, FS_RemoveElement
      <3> QED
        BY <3>2
    <2>4. Bytes(s, K \ {a}) \in Nat
      BY Zenon, <1>2, <2>3 DEF N
    <2> QED
      BY <2>2, <2>4 DEF Weighed
  <1>3. Nat \subseteq N
    <2> HIDE DEF N
    <2> QED
      BY Zenon, <1>1, <1>2, Induction
  <1> QED
    BY Zenon, <1>0, <1>3

\* Any key may be taken out of a sum.
LEMMA BytesRemove ==
  ASSUME NEW s, NEW S, IsFiniteSet(S), Weighed(s, S)
  PROVE  /\ Bytes(s, S) \in Nat
         /\ \A k \in S : Bytes(s, S) = estimateObjectBytes(s[k]) + Bytes(s, S \ {k})
  <1> DEFINE w(k) == estimateObjectBytes(s[k])
             Good(K) == /\ Bytes(s, K) \in Nat
                        /\ \A k \in K : Bytes(s, K) = w(k) + Bytes(s, K \ {k})
             N == {n \in Nat : \A K \in SUBSET S : Cardinality(K) = n => Good(K)}
  <1>0. \A K \in SUBSET S : IsFiniteSet(K) /\ Cardinality(K) \in Nat
    BY Zenon, FS_Subset, FS_CardinalityType
  <1>a. \A k \in S : w(k) \in Nat
    BY Zenon DEF Weighed
  <1>b. \A K \in SUBSET S : K # {} => Bytes(s, K) = w(SomeKey(K)) + Bytes(s, K \ {SomeKey(K)})
    BY Zenon, <1>0, BytesStep
  <1>c. \A K \in SUBSET S : \A k \in K : Cardinality(K \ {k}) = Cardinality(K) - 1
    BY ZenonT(30), <1>0, FS_RemoveElement
  <1> HIDE DEF w
  <1>1. 0 \in N
    <2>1. Good({})
      BY FS_EmptySet, BytesStep
    <2> HIDE DEF Good
    <2> QED
      BY Zenon, <1>0, <2>1, FS_EmptySet
  <1>2. ASSUME NEW n \in Nat, n \in N
        PROVE  n + 1 \in N
    <2>0. n + 1 \in Nat
      OBVIOUS
    <2> SUFFICES ASSUME NEW K \in SUBSET S, Cardinality(K) = n + 1
                 PROVE  Good(K)
      BY Zenon, <2>0 DEF N
    <2>1. K # {}
      BY FS_EmptySet
    <2> DEFINE a == SomeKey(K)
    <2>2. a \in K /\ Bytes(s, K) = w(a) + Bytes(s, K \ {a})
      BY Zenon, <1>b, <2>1 DEF SomeKey
    <2>3. \A k \in K : Good(K \ {k})
      <3> SUFFICES ASSUME NEW k \in K
                   PROVE  Good(K \ {k})
        BY Zenon
      <3>1. K \ {k} \in SUBSET S /\ Cardinality(K \ {k}) = n
        BY <1>c
      <3> QED
        BY Zenon, <1>2, <3>1 DEF N
    <2> HIDE DEF a
    <2>4. ASSUME NEW k \in K, k # a
          PROVE  Bytes(s, K) = w(k) + Bytes(s, K \ {k})
      <3> DEFINE rest == Bytes(s, (K \ {a}) \ {k})
      <3>1. Bytes(s, K \ {a}) = w(k) + rest /\ Bytes(s, K \ {a}) \in Nat
        BY Zenon, <2>2, <2>3, <2>4
      <3>2. Bytes(s, K \ {k}) = w(a) + Bytes(s, (K \ {k}) \ {a})
        BY Zenon, <2>2, <2>3, <2>4
      <3>3. (K \ {k}) \ {a} = (K \ {a}) \ {k}
        BY Zenon
      <3>4. rest \in Nat
        <4>1. (K \ {a}) \ {k} \in SUBSET S
          BY Zenon
        <4> QED
          BY Zenon, <4>1, BytesNat
      <3> HIDE DEF rest
      <3>5. Bytes(s, K \ {k}) = w(a) + rest
        BY Zenon, <3>2, <3>3 DEF rest
      <3>6. w(a) \in Nat /\ w(k) \in Nat
        BY Zenon, <1>a, <2>2
      <3> QED
        BY SMTT(30), <2>2, <3>1, <3>4, <3>5, <3>6
    <2>5. Bytes(s, K) \in Nat
      BY <1>a, <2>2, <2>3
    <2> QED
      BY Zenon, <2>2, <2>4, <2>5
  <1>3. S \in SUBSET S /\ Cardinality(S) \in N
    <2> HIDE DEF N
    <2>1. Nat \subseteq N
      BY Zenon, <1>1, <1>2, Induction
    <2> QED
      BY SMTT(30), <2>1, FS_CardinalityType
  <1>4. Good(S)
    BY Zenon, <1>3 DEF N
  <1> QED
    BY Zenon, <1>4 DEF w

\* Fewer keys with smaller objects have fewer bytes.
LEMMA BytesMonotone ==
  ASSUME NEW s, NEW S, IsFiniteSet(S), Weighed(s, S), NEW t, NEW T \in SUBSET S, Weighed(t, T),
         \A k \in T : estimateObjectBytes(t[k]) <= estimateObjectBytes(s[k])
  PROVE  Bytes(t, T) <= Bytes(s, S)
  <1> DEFINE G == {K \in SUBSET S : Bytes(t, K \cap T) <= Bytes(s, K)}
  <1>1. {} \in G
    <2>1. {} \cap T = {}
      BY Zenon
    <2>2. Bytes(t, {}) = 0 /\ Bytes(s, {}) = 0
      BY Zenon, FS_EmptySet, BytesStep
    <2> QED
      BY <2>1, <2>2
  <1>2. ASSUME NEW K \in SUBSET S, NEW x \in S \ K, K \in G
        PROVE  K \cup {x} \in G
    <2> DEFINE L == K \cup {x}
    <2>1. /\ IsFiniteSet(L) /\ IsFiniteSet(L \cap T) /\ IsFiniteSet(K) /\ IsFiniteSet(K \cap T)
          /\ Weighed(s, L) /\ Weighed(t, L \cap T) /\ Weighed(s, K) /\ Weighed(t, K \cap T)
      BY Zenon, FS_Subset DEF Weighed
    <2>2. L \ {x} = K /\ x \in L
      BY Zenon, <1>2
    <2>3. /\ Bytes(s, L) = estimateObjectBytes(s[x]) + Bytes(s, K)
          /\ Bytes(s, K) \in Nat /\ Bytes(t, K \cap T) \in Nat /\ Bytes(t, L \cap T) \in Nat
          /\ estimateObjectBytes(s[x]) \in Nat
      BY <2>1, <2>2, BytesRemove DEF Weighed
    <2>4. CASE x \in T
      <3>1. (L \cap T) \ {x} = K \cap T /\ x \in L \cap T
        BY Zenon, <1>2, <2>4
      <3>2. /\ Bytes(t, L \cap T) = estimateObjectBytes(t[x]) + Bytes(t, K \cap T)
            /\ estimateObjectBytes(t[x]) \in Nat
        <4>1. Bytes(t, L \cap T) = estimateObjectBytes(t[x]) + Bytes(t, (L \cap T) \ {x})
          BY SMTT(30), <2>1, <3>1, BytesRemove
        <4> QED
          BY Zenon, <2>4, <3>1, <4>1 DEF Weighed
      <3>3. Bytes(t, L \cap T) <= Bytes(s, L)
        BY <1>2, <2>3, <2>4, <3>2
      <3> QED
        BY Zenon, <3>3
    <2>5. CASE x \notin T
      <3>1. L \cap T = K \cap T
        BY Zenon, <2>5
      <3>2. Bytes(t, L \cap T) <= Bytes(s, L)
        BY <1>2, <2>3, <3>1
      <3> QED
        BY Zenon, <3>2
    <2> QED
      BY Zenon, <2>4, <2>5
  <1>3. S \in G
    <2> HIDE DEF G
    <2> QED
      BY ZenonT(30), <1>1, <1>2, FiniteInduction
  <1>4. S \cap T = T
    BY Zenon
  <1> QED
    BY Zenon, <1>3, <1>4

-----------------------------------------------------------------------------
\* Stores that got lighter, and the limits.

FiniteNames == IsFiniteSet(Key) /\ IsFiniteSet(Field) /\ IsFiniteSet(Elem)

\* An object has a number of bytes.
LEMMA ObjectBytes ==
  ASSUME FiniteNames, NEW o \in ValueObject
  PROVE  /\ estimateObjectBytes(o) \in Nat
         /\ Len(o.value) \in Nat /\ Len(o.list) \in Nat
         /\ IsFiniteSet(DOMAIN o.hash) /\ Cardinality(DOMAIN o.hash) \in Nat
         /\ IsFiniteSet(o.set) /\ Cardinality(o.set) \in Nat
  <1>1. /\ o.value \in Seq(Int \cup Text) /\ o.list \in Seq(Elem)
        /\ o.hash \in Map(Field, Elem) /\ o.set \subseteq Elem
    BY Zenon DEF ValueObject
  <1>2. DOMAIN o.hash \subseteq Field
    BY Zenon, <1>1, MapDef
  <1>3. /\ IsFiniteSet(DOMAIN o.hash) /\ Cardinality(DOMAIN o.hash) \in Nat
        /\ IsFiniteSet(o.set) /\ Cardinality(o.set) \in Nat
    BY Zenon, <1>1, <1>2, FS_Subset, FS_CardinalityType DEF FiniteNames
  <1>4. Len(o.value) \in Nat /\ Len(o.list) \in Nat
    BY <1>1
  <1>5. \A a, b, c, e \in Nat : 1 + a + b + 2 * c + e \in Nat
    OBVIOUS
  <1>6. estimateObjectBytes(o) \in Nat
    BY Zenon, <1>3, <1>4, <1>5 DEF estimateObjectBytes
  <1> QED
    BY Zenon, <1>3, <1>4, <1>6

\* So has a store.
LEMMA StoreBytes ==
  ASSUME FiniteNames, NEW s, IsStore(s)
  PROVE  /\ IsFiniteSet(DOMAIN s) /\ Cardinality(DOMAIN s) \in Nat
         /\ Weighed(s, DOMAIN s) /\ Bytes(s, DOMAIN s) \in Nat
  <1>1. IsFiniteSet(DOMAIN s) /\ Cardinality(DOMAIN s) \in Nat
    BY Zenon, FS_Subset, FS_CardinalityType DEF FiniteNames, IsStore
  <1>2. Weighed(s, DOMAIN s)
    BY Zenon, ObjectBytes DEF Weighed, IsStore
  <1> QED
    BY Zenon, <1>1, <1>2, BytesRemove

\* What may become of an object that a read or a removal leaves behind.
NoHeavier(o, p) == estimateObjectBytes(p) <= estimateObjectBytes(o)

Lighter(s, t) == DOMAIN t \subseteq DOMAIN s /\ \A k \in DOMAIN t : NoHeavier(s[k], t[k])

\* The limits over the sum.
LEMMA OverLimit ==
  ASSUME NEW s, NEW cfg
  PROVE  overEvictionLimit(s, cfg) <=>
           \/ cfg.maxKeys > 0 /\ Cardinality(DOMAIN s) > cfg.maxKeys
           \/ cfg.maxMemoryBytes # 0 /\ Bytes(s, DOMAIN s) > cfg.maxMemoryBytes
  BY Zenon DEF overEvictionLimit, Bytes

\* A store that got lighter is over no limit it was not over before.
LEMMA LighterWithin ==
  ASSUME FiniteNames, NEW s, IsStore(s), NEW t, IsStore(t), Lighter(s, t),
         NEW cfg, cfg.maxKeys \in Nat, cfg.maxMemoryBytes \in Nat, overEvictionLimit(t, cfg)
  PROVE  overEvictionLimit(s, cfg)
  <1>1. /\ IsFiniteSet(DOMAIN s) /\ Cardinality(DOMAIN s) \in Nat /\ Bytes(s, DOMAIN s) \in Nat
        /\ Cardinality(DOMAIN t) \in Nat /\ Bytes(t, DOMAIN t) \in Nat
        /\ Weighed(s, DOMAIN s) /\ Weighed(t, DOMAIN t)
    BY Zenon, StoreBytes
  <1>2. Cardinality(DOMAIN t) <= Cardinality(DOMAIN s)
    BY Zenon, <1>1, FS_Subset DEF Lighter
  <1>3. Bytes(t, DOMAIN t) <= Bytes(s, DOMAIN s)
    <2>1. DOMAIN t \in SUBSET DOMAIN s
      BY Zenon DEF Lighter
    <2>2. \A k \in DOMAIN t : estimateObjectBytes(t[k]) <= estimateObjectBytes(s[k])
      BY Zenon DEF Lighter, NoHeavier
    <2> QED
      BY Zenon, <1>1, <2>1, <2>2, BytesMonotone
  <1> QED
    BY <1>1, <1>2, <1>3, OverLimit

\* A store without keys is within every limit.
LEMMA EmptyWithin ==
  ASSUME NEW s, DOMAIN s = {}, NEW cfg, cfg.maxKeys \in Nat, cfg.maxMemoryBytes \in Nat
  PROVE  ~overEvictionLimit(s, cfg)
  <1>1. Cardinality(DOMAIN s) = 0 /\ Bytes(s, DOMAIN s) = 0
    BY Zenon, FS_EmptySet, BytesStep
  <1> QED
    BY <1>1, OverLimit

\* A store is no heavier than itself, and erasing keys makes it lighter.
LEMMA LighterWithout ==
  ASSUME FiniteNames, NEW s, IsStore(s), NEW K
  PROVE  Lighter(s, s) /\ Lighter(s, Without(s, K))
  <1>1. \A k \in DOMAIN s : estimateObjectBytes(s[k]) \in Nat
    BY Zenon, ObjectBytes DEF IsStore
  <1> QED
    BY <1>1 DEF Lighter, NoHeavier, Without

\* So does replacing an object by one that is no heavier.
LEMMA LighterExcept ==
  ASSUME FiniteNames, NEW s, IsStore(s), NEW k \in DOMAIN s, NEW o, NoHeavier(s[k], o)
  PROVE  Lighter(s, [s EXCEPT ![k] = o])
  BY Zenon, LighterWithout DEF Lighter, IsStore

\* Lighter is transitive.
LEMMA LighterTransitive ==
  ASSUME FiniteNames, NEW s, IsStore(s), NEW t, IsStore(t), NEW u, IsStore(u),
         Lighter(s, t), Lighter(t, u)
  PROVE  Lighter(s, u)
  <1>1. \A k \in DOMAIN u : /\ estimateObjectBytes(s[k]) \in Nat /\ estimateObjectBytes(t[k]) \in Nat
                            /\ estimateObjectBytes(u[k]) \in Nat
    BY Zenon, ObjectBytes DEF IsStore, Lighter
  <1> QED
    BY <1>1 DEF Lighter, NoHeavier

\* Changing times or taking out of a collection makes no object heavier.
LEMMA ObjectLighter ==
  ASSUME FiniteNames, NEW o \in ValueObject, NEW t
  PROVE  /\ NoHeavier(o, [o EXCEPT !.lastAccessedAt = t])
         /\ NoHeavier(o, [o EXCEPT !.expiresAt = t])
         /\ \A l : Len(l) \in Nat /\ Len(l) <= Len(o.list) =>
              NoHeavier(o, [o EXCEPT !.list = l, !.lastAccessedAt = t])
         /\ \A h : DOMAIN h \subseteq DOMAIN o.hash =>
              NoHeavier(o, [o EXCEPT !.hash = h, !.lastAccessedAt = t])
         /\ \A m : m \subseteq o.set =>
              NoHeavier(o, [o EXCEPT !.set = m, !.lastAccessedAt = t])
  <1> DEFINE a == Len(o.value)
             b == Len(o.list)
             c == Cardinality(DOMAIN o.hash)
             e == Cardinality(o.set)
  <1>1. a \in Nat /\ b \in Nat /\ c \in Nat /\ e \in Nat
    BY Zenon, ObjectBytes
  <1>2. estimateObjectBytes(o) = 1 + a + b + 2 * c + e
    BY Zenon DEF estimateObjectBytes
  <1>3. /\ estimateObjectBytes([o EXCEPT !.lastAccessedAt = t]) = 1 + a + b + 2 * c + e
        /\ estimateObjectBytes([o EXCEPT !.expiresAt = t]) = 1 + a + b + 2 * c + e
    BY Zenon DEF estimateObjectBytes, ValueObject
  <1>4. ASSUME NEW l
        PROVE  estimateObjectBytes([o EXCEPT !.list = l, !.lastAccessedAt = t])
                 = 1 + a + Len(l) + 2 * c + e
    BY ZenonT(30) DEF estimateObjectBytes, ValueObject
  <1>5. ASSUME NEW h
        PROVE  estimateObjectBytes([o EXCEPT !.hash = h, !.lastAccessedAt = t])
                 = 1 + a + b + 2 * Cardinality(DOMAIN h) + e
    BY ZenonT(30) DEF estimateObjectBytes, ValueObject
  <1>6. ASSUME NEW m
        PROVE  estimateObjectBytes([o EXCEPT !.set = m, !.lastAccessedAt = t])
                 = 1 + a + b + 2 * c + Cardinality(m)
    BY ZenonT(30) DEF estimateObjectBytes, ValueObject
  <1>7. ASSUME NEW h, DOMAIN h \subseteq DOMAIN o.hash
        PROVE  Cardinality(DOMAIN h) \in Nat /\ Cardinality(DOMAIN h) <= c
    BY Zenon, <1>7, ObjectBytes, FS_Subset, FS_CardinalityType
  <1>8. ASSUME NEW m, m \subseteq o.set
        PROVE  Cardinality(m) \in Nat /\ Cardinality(m) <= e
    BY Zenon, <1>8, ObjectBytes, FS_Subset, FS_CardinalityType
  <1> HIDE DEF a, b, c, e
  <1>9. NoHeavier(o, [o EXCEPT !.lastAccessedAt = t]) /\ NoHeavier(o, [o EXCEPT !.expiresAt = t])
    BY <1>1, <1>2, <1>3 DEF NoHeavier
  <1>10. ASSUME NEW l, Len(l) \in Nat, Len(l) <= Len(o.list)
         PROVE  NoHeavier(o, [o EXCEPT !.list = l, !.lastAccessedAt = t])
    <2> DEFINE x == estimateObjectBytes([o EXCEPT !.list = l, !.lastAccessedAt = t])
    <2>1. x = 1 + a + Len(l) + 2 * c + e
      BY Zenon, <1>4
    <2> HIDE DEF x
    <2>2. x <= estimateObjectBytes(o)
      BY <1>1, <1>2, <1>10, <2>1 DEF b
    <2> QED
      BY Zenon, <2>2 DEF NoHeavier, x
  <1>11. ASSUME NEW h, DOMAIN h \subseteq DOMAIN o.hash
         PROVE  NoHeavier(o, [o EXCEPT !.hash = h, !.lastAccessedAt = t])
    <2> DEFINE x == estimateObjectBytes([o EXCEPT !.hash = h, !.lastAccessedAt = t])
    <2>1. x = 1 + a + b + 2 * Cardinality(DOMAIN h) + e
      BY Zenon, <1>5
    <2> HIDE DEF x
    <2>2. x <= estimateObjectBytes(o)
      BY <1>1, <1>2, <1>7, <1>11, <2>1
    <2> QED
      BY Zenon, <2>2 DEF NoHeavier, x
  <1>12. ASSUME NEW m, m \subseteq o.set
         PROVE  NoHeavier(o, [o EXCEPT !.set = m, !.lastAccessedAt = t])
    <2> DEFINE x == estimateObjectBytes([o EXCEPT !.set = m, !.lastAccessedAt = t])
    <2>1. x = 1 + a + b + 2 * c + Cardinality(m)
      BY Zenon, <1>6
    <2> HIDE DEF x
    <2>2. x <= estimateObjectBytes(o)
      BY <1>1, <1>2, <1>8, <1>12, <2>1
    <2> QED
      BY Zenon, <2>2 DEF NoHeavier, x
  <1> QED
    BY ZenonT(30), <1>9, <1>10, <1>11, <1>12

-----------------------------------------------------------------------------
\* The closed form of eviction and its loop.

\* Ranks are integers, and erasing keys changes neither the rank of another key
\* nor whether it may be evicted.
LEMMA CandidatesOfRest ==
  ASSUME NEW s, IsStore(s), NEW p \in EvictionPolicy, NEW K
  PROVE  /\ Candidates(s, p) \subseteq DOMAIN s
         /\ Candidates(Without(s, K), p) = Candidates(s, p) \ K
         /\ \A k \in Candidates(s, p) : EvictionRank(s[k], p) \in Int
         /\ \A k \in Candidates(s, p) \ K :
              EvictionRank(Without(s, K)[k], p) = EvictionRank(s[k], p)
  <1>1. \A k \in DOMAIN s : /\ s[k].expiresAt \in Int /\ s[k].createdAt \in Int
                            /\ s[k].lastAccessedAt \in Int
    BY Zenon DEF IsStore, ValueObject
  <1>2. DOMAIN Without(s, K) = DOMAIN s \ K /\ \A k \in DOMAIN s \ K : Without(s, K)[k] = s[k]
    BY Zenon DEF Without
  <1>3. Candidates(s, p) \subseteq DOMAIN s
    BY Zenon DEF Candidates, EvictionPolicy
  <1>4. Candidates(Without(s, K), p) = Candidates(s, p) \ K
    BY Zenon, <1>2 DEF Candidates, EvictionPolicy
  <1>5. \A k \in DOMAIN s : EvictionRank(s[k], p) \in Int
    BY <1>1 DEF EvictionRank, EvictionPolicy
  <1> QED
    BY Zenon, <1>2, <1>3, <1>4, <1>5

\* A finite set of integers named by keys has a least one.
LEMMA LeastRank ==
  ASSUME NEW S, IsFiniteSet(S), S # {}, NEW r, \A k \in S : r[k] \in Int
  PROVE  \E k \in S : \A j \in S : r[k] <= r[j]
  <1> DEFINE G == {K \in SUBSET S : K = {} \/ \E k \in K : \A j \in K : r[k] <= r[j]}
  <1>1. {} \in G
    BY Zenon
  <1>2. ASSUME NEW K \in SUBSET S, NEW x \in S \ K, K \in G
        PROVE  K \cup {x} \in G
    <2>1. CASE K = {}
      <3>1. \A j \in K \cup {x} : r[x] <= r[j]
        BY <2>1
      <3> QED
        BY Zenon, <3>1
    <2>2. CASE K # {}
      <3>1. PICK k \in K : \A j \in K : r[k] <= r[j]
        BY Zenon, <1>2, <2>2
      <3>2. CASE r[k] <= r[x]
        <4>1. \A j \in K \cup {x} : r[k] <= r[j]
          BY Zenon, <3>1, <3>2
        <4> QED
          BY Zenon, <4>1
      <3>3. CASE ~(r[k] <= r[x])
        <4>1. \A j \in K \cup {x} : r[x] <= r[j]
          BY <3>1, <3>3
        <4> QED
          BY Zenon, <4>1
      <3> QED
        BY Zenon, <3>2, <3>3
    <2> QED
      BY Zenon, <2>1, <2>2
  <1>3. S \in G
    <2> HIDE DEF G
    <2> QED
      BY ZenonT(30), <1>1, <1>2, FiniteInduction
  <1> QED
    BY Zenon, <1>3

\* One turn of the loop, on the sets the closed form gives.
Unfolded(s, cfg) ==
  IF ~overEvictionLimit(s, cfg) \/ evictOne(s, cfg.policy) = {}
  THEN {{}}
  ELSE {F \in SUBSET DOMAIN s :
          \E k \in evictOne(s, cfg.policy) :
            \E E \in evictIfNeeded(Without(s, {k}), cfg) : F = E \cup {k}}

\* A configuration the server may run with.
Limits(cfg) == cfg.policy \in EvictionPolicy /\ cfg.maxKeys \in Nat /\ cfg.maxMemoryBytes \in Nat

\* What the closed form says, over ranks that do not change.
LEMMA ClosedForm ==
  ASSUME FiniteNames, NEW s, IsStore(s), NEW cfg, Limits(cfg), NEW K, NEW E
  PROVE  LET cand == Candidates(s, cfg.policy) \ K
             rank == [k \in Candidates(s, cfg.policy) |-> EvictionRank(s[k], cfg.policy)]
         IN E \in evictIfNeeded(Without(s, K), cfg) <=>
              /\ E \subseteq cand
              /\ \A e \in E, c \in cand \ E : rank[e] <= rank[c]
              /\ E = cand \/ ~overEvictionLimit(Without(s, K \cup E), cfg)
              /\ E # {} => \E e \in E : /\ \A f \in E : rank[f] <= rank[e]
                                        /\ overEvictionLimit(Without(s, K \cup (E \ {e})), cfg)
  <1> DEFINE p == cfg.policy
             cand == Candidates(s, p) \ K
             rank == [k \in Candidates(s, p) |-> EvictionRank(s[k], p)]
             r(k) == EvictionRank(Without(s, K)[k], p)
  <1>1. \A F : Without(Without(s, K), F) = Without(s, K \cup F)
    <2> SUFFICES ASSUME NEW F PROVE Without(Without(s, K), F) = Without(s, K \cup F)
      BY Zenon
    <2>1. (DOMAIN s \ K) \ F = DOMAIN s \ (K \cup F)
      BY Zenon
    <2> QED
      BY Zenon, <2>1 DEF Without
  <1>2. /\ Candidates(Without(s, K), p) = cand
        /\ \A k \in cand : r(k) = rank[k]
    BY CandidatesOfRest DEF Limits
  <1>3. E \in evictIfNeeded(Without(s, K), cfg) <=>
              /\ E \subseteq cand
              /\ \A e \in E, c \in cand \ E : r(e) <= r(c)
              /\ E = cand \/ ~overEvictionLimit(Without(Without(s, K), E), cfg)
              /\ E # {} => \E e \in E : /\ \A f \in E : r(f) <= r(e)
                                        /\ overEvictionLimit(Without(Without(s, K), E \ {e}), cfg)
    BY ZenonT(30), <1>2 DEF evictIfNeeded
  <1> HIDE DEF cand, rank, r, p
  <1>4. E \in evictIfNeeded(Without(s, K), cfg) <=>
              /\ E \subseteq cand
              /\ \A e \in E, c \in cand \ E : rank[e] <= rank[c]
              /\ E = cand \/ ~overEvictionLimit(Without(s, K \cup E), cfg)
              /\ E # {} => \E e \in E : /\ \A f \in E : rank[f] <= rank[e]
                                        /\ overEvictionLimit(Without(s, K \cup (E \ {e})), cfg)
    <2>1. CASE E \subseteq cand
      <3>1. (\A e \in E, c \in cand \ E : r(e) <= r(c)) <=>
              \A e \in E, c \in cand \ E : rank[e] <= rank[c]
        BY SMTT(30), <1>2, <2>1
      <3>2. \A e \in E : (\A f \in E : r(f) <= r(e)) <=> \A f \in E : rank[f] <= rank[e]
        BY SMTT(30), <1>2, <2>1
      <3>3. (\E e \in E : /\ \A f \in E : r(f) <= r(e)
                         /\ overEvictionLimit(Without(Without(s, K), E \ {e}), cfg)) <=>
            \E e \in E : /\ \A f \in E : rank[f] <= rank[e]
                        /\ overEvictionLimit(Without(s, K \cup (E \ {e})), cfg)
        BY ZenonT(30), <1>1, <3>2
      <3>4. Without(Without(s, K), E) = Without(s, K \cup E)
        BY Zenon, <1>1
      <3> QED
        BY ZenonT(30), <1>3, <3>1, <3>3, <3>4
    <2> QED
      BY ZenonT(30), <1>3, <2>1
  <1> QED
    BY ZenonT(30), <1>4 DEF cand, rank, p

\* The closed form unfolds as one turn of the loop.
LEMMA EvictionUnfolds ==
  ASSUME FiniteNames, NEW s, IsStore(s), NEW cfg, Limits(cfg)
  PROVE  evictIfNeeded(s, cfg) = Unfolded(s, cfg)
  <1> DEFINE p == cfg.policy
             cand == Candidates(s, p)
             rank == [k \in cand |-> EvictionRank(s[k], p)]
             over(K) == overEvictionLimit(Without(s, K), cfg)
             WentOver(E, K) ==
               E # {} => \E e \in E : (\A f \in E : rank[f] <= rank[e]) /\ over(K \cup (E \ {e}))
             Closed(E, K) == /\ E \subseteq cand \ K
                             /\ \A e \in E, c \in (cand \ K) \ E : rank[e] <= rank[c]
                             /\ E = cand \ K \/ ~over(K \cup E)
                             /\ WentOver(E, K)
             one == evictOne(s, p)
  <1>1. /\ \A k \in cand : rank[k] \in Int
        /\ cand \subseteq DOMAIN s /\ IsFiniteSet(cand)
    BY Zenon, CandidatesOfRest, StoreBytes, FS_Subset DEF Limits
  <1>2. one = {k \in cand : \A j \in cand : rank[k] <= rank[j]}
    BY ZenonT(30) DEF evictOne
  <1>3. s = Without(s, {})
    BY Zenon DEF Without, IsStore
  <1>4. \A E : E \in evictIfNeeded(s, cfg) <=> Closed(E, {})
    <2> SUFFICES ASSUME NEW E PROVE E \in evictIfNeeded(Without(s, {}), cfg) <=> Closed(E, {})
      BY ZenonT(30), <1>3
    <2> QED
      BY ZenonT(30), ClosedForm
  <1>5. \A E, k : E \in evictIfNeeded(Without(s, {k}), cfg) <=> Closed(E, {k})
    <2> SUFFICES ASSUME NEW E, NEW k
                 PROVE  E \in evictIfNeeded(Without(s, {k}), cfg) <=> Closed(E, {k})
      BY ZenonT(30)
    <2> QED
      BY ZenonT(30), ClosedForm
  <1>6. overEvictionLimit(s, cfg) <=> over({})
    BY Zenon, <1>3
  <1>7. \A K : over(K) => over({})
    <2> SUFFICES ASSUME NEW K, over(K) PROVE over({})
      BY Zenon
    <2>1. Lighter(s, Without(s, K)) /\ IsStore(Without(s, K))
      BY Zenon, LighterWithout DEF Without, IsStore
    <2> QED
      BY Zenon, <1>3, <2>1, LighterWithin DEF Limits
  <1>8. cand # {} => one # {}
    BY ZenonT(30), <1>1, <1>2, LeastRank
  <1> HIDE DEF p, cand, rank, over, one
  <1>9. CASE ~over({}) \/ one = {}
    <2>1. Closed({}, {})
      <3>1. one = {} => cand = {}
        BY Zenon, <1>8
      <3>2. {} = cand \ {} \/ ~over({} \cup {})
        BY Zenon, <1>9, <3>1
      <3> QED
        BY SMTT(30), <3>2
    <2>2. ASSUME NEW E, Closed(E, {}), E # {}
          PROVE  FALSE
      <3>1. PICK e \in E : over({} \cup (E \ {e})) /\ e \in cand
        BY SMTT(30), <2>2
      <3> QED
        BY Zenon, <1>7, <1>8, <1>9, <3>1
    <2>3. evictIfNeeded(s, cfg) = {{}}
      <3> HIDE DEF Closed
      <3> QED
        BY ZenonT(30), <1>4, <2>1, <2>2
    <2> QED
      BY Zenon, <1>6, <1>9, <2>3 DEF Unfolded, one, p
  <1>10. CASE over({}) /\ one # {}
    <2>1. ASSUME NEW E, Closed(E, {})
          PROVE  \E k \in one : \E F : Closed(F, {k}) /\ E = F \cup {k}
      <3>1. E # {} /\ E \subseteq cand
        BY Zenon, <1>2, <1>10, <2>1
      <3>2. PICK e \in E : /\ \A f \in E : rank[f] <= rank[e]
                           /\ over(E \ {e})
        <4>1. PICK e \in E : (\A f \in E : rank[f] <= rank[e]) /\ over({} \cup (E \ {e}))
          BY SMTT(30), <2>1, <3>1
        <4>2. {} \cup (E \ {e}) = E \ {e}
          BY Zenon
        <4> QED
          BY Zenon, <4>1, <4>2
      <3>3. PICK k \in E : /\ \A f \in E : rank[k] <= rank[f]
                           /\ E = {k} \/ e # k
        <4>1. CASE E = {e}
          BY <1>1, <3>1, <4>1
        <4>2. CASE E # {e}
          <5>1. IsFiniteSet(E \ {e}) /\ E \ {e} # {} /\ \A k \in E \ {e} : rank[k] \in Int
            BY Zenon, <1>1, <3>1, <4>2, FS_Subset
          <5>2. PICK k \in E \ {e} : \A f \in E \ {e} : rank[k] <= rank[f]
            BY Zenon, <5>1, LeastRank
          <5> QED
            BY Zenon, <3>2, <5>2
        <4> QED
          BY Zenon, <4>1, <4>2
      <3>4. \A j \in cand : rank[k] <= rank[j]
        BY SMTT(30), <2>1, <3>3
      <3>5. k \in one
        BY Zenon, <1>2, <3>1, <3>4
      <3> DEFINE F == E \ {k}
      <3>6. E = F \cup {k} /\ {k} \cup F = E
        BY Zenon
      <3>7. F \subseteq cand \ {k} /\ (cand \ {k}) \ F = cand \ E
        BY Zenon, <3>1
      <3>8. \A f \in F, c \in (cand \ {k}) \ F : rank[f] <= rank[c]
        BY SMTT(30), <2>1, <3>7
      <3>9. F = cand \ {k} \/ ~over({k} \cup F)
        <4>1. E = cand \/ ~over(E)
          <5>1. E = cand \ {} \/ ~over({} \cup E)
            BY SMTT(30), <2>1
          <5>2. cand \ {} = cand /\ {} \cup E = E
            BY Zenon
          <5> QED
            BY Zenon, <5>1, <5>2
        <4> QED
          BY Zenon, <3>6, <4>1
      <3>10. WentOver(F, {k})
        <4> SUFFICES ASSUME F # {} PROVE \E f \in F : /\ \A g \in F : rank[g] <= rank[f]
                                                      /\ over({k} \cup (F \ {f}))
          BY Zenon
        <4>1. e \in F /\ {k} \cup (F \ {e}) = E \ {e}
          BY Zenon, <3>3
        <4> QED
          BY Zenon, <3>2, <4>1
      <3>11. Closed(F, {k})
        BY SMTT(30), <3>7, <3>8, <3>9, <3>10
      <3> QED
        BY ZenonT(30), <3>5, <3>6, <3>11
    <2>2. ASSUME NEW k \in one, NEW E, Closed(E, {k})
          PROVE  Closed(E \cup {k}, {})
      <3> DEFINE F == E \cup {k}
      <3>1. /\ F \subseteq cand \ {} /\ (cand \ {}) \ F = (cand \ {k}) \ E
            /\ {} \cup F = {k} \cup E /\ k \notin E
        BY SMTT(30), <1>2, <2>2
      <3>2. \A e \in F, c \in (cand \ {}) \ F : rank[e] <= rank[c]
        BY SMTT(30), <1>2, <2>2, <3>1
      <3>3. F = cand \ {} \/ ~over({} \cup F)
        BY SMTT(30), <1>2, <2>2, <3>1
      <3>4. WentOver(F, {})
        <4>1. CASE E = {}
          <5>1. F = {k} /\ {} \cup (F \ {k}) = {} /\ rank[k] <= rank[k]
            BY Zenon, <1>1, <1>2, <4>1
          <5> QED
            BY SMTT(30), <1>10, <5>1
        <4>2. CASE E # {}
          <5>1. PICK e \in E : (\A f \in E : rank[f] <= rank[e]) /\ over({k} \cup (E \ {e}))
            BY Zenon, <2>2, <4>2
          <5>2. {} \cup (F \ {e}) = {k} \cup (E \ {e}) /\ rank[k] <= rank[e] /\ e \in F
            BY SMTT(30), <1>2, <2>2, <3>1, <5>1
          <5> QED
            BY ZenonT(30), <5>1, <5>2
        <4> QED
          BY SMTT(30), <4>1, <4>2
      <3> QED
        BY SMTT(30), <3>1, <3>2, <3>3, <3>4
    <2>3. \A E : Closed(E, {}) => E \in SUBSET DOMAIN s
      BY SMTT(30), <1>1
    <2> HIDE DEF Closed
    <2>4. \A E : E \in evictIfNeeded(s, cfg) <=> E \in Unfolded(s, cfg)
      <3>1. \A E : E \in Unfolded(s, cfg) <=>
              E \in SUBSET DOMAIN s /\ \E k \in one : \E F : Closed(F, {k}) /\ E = F \cup {k}
        BY ZenonT(30), <1>5, <1>6, <1>10 DEF Unfolded, one, p
      <3>2. ASSUME NEW E, Closed(E, {})
            PROVE  E \in Unfolded(s, cfg)
        BY ZenonT(30), <2>1, <2>3, <3>1, <3>2
      <3>3. ASSUME NEW E, E \in Unfolded(s, cfg)
            PROVE  Closed(E, {})
        <4>1. PICK k \in one : \E F : Closed(F, {k}) /\ E = F \cup {k}
          BY ZenonT(30), <3>1, <3>3
        <4>2. PICK F : Closed(F, {k}) /\ E = F \cup {k}
          BY Zenon, <4>1
        <4> QED
          BY Zenon, <2>2, <4>2
      <3> QED
        BY ZenonT(30), <1>4, <3>2, <3>3
    <2> QED
      BY ZenonT(30), <2>4 DEF Unfolded, evictIfNeeded
  <1> QED
    BY Zenon, <1>9, <1>10

\* The sets the loop of Evicted may end with, once the keys in gone are gone.
Turn(s, cfg, ends, gone) ==
  LET left == Without(s, gone)
      next == evictOne(left, cfg.policy)
  IN IF ~overEvictionLimit(left, cfg) \/ next = {}
     THEN {gone}
     ELSE UNION {ends[gone \cup {k}] : k \in next}

\* Which functions describe the loop.
Describes(s, cfg, ends) == ends = [gone \in SUBSET DOMAIN s |-> Turn(s, cfg, ends, gone)]

\* The closed form, from the keys gone so far.
ClosedEnds(s, cfg) ==
  [gone \in SUBSET DOMAIN s |-> {gone \cup E : E \in evictIfNeeded(Without(s, gone), cfg)}]

\* A key the loop erases next has not been erased.
LEMMA NextKey ==
  ASSUME NEW s, IsStore(s), NEW cfg, Limits(cfg), NEW gone,
         NEW k \in evictOne(Without(s, gone), cfg.policy)
  PROVE  k \in DOMAIN s \ gone
  <1>1. IsStore(Without(s, gone)) /\ DOMAIN Without(s, gone) = DOMAIN s \ gone
    BY Zenon DEF Without, IsStore
  <1>2. k \in Candidates(Without(s, gone), cfg.policy)
    BY Zenon DEF evictOne
  <1> QED
    BY Zenon, <1>1, <1>2, CandidatesOfRest DEF Limits

\* The closed form describes the loop.
LEMMA ClosedDescribes ==
  ASSUME FiniteNames, NEW s, IsStore(s), NEW cfg, Limits(cfg)
  PROVE  Describes(s, cfg, ClosedEnds(s, cfg))
  <1> DEFINE g == ClosedEnds(s, cfg)
  <1>1. ASSUME NEW gone \in SUBSET DOMAIN s
        PROVE  g[gone] = Turn(s, cfg, g, gone)
    <2> DEFINE left == Without(s, gone)
               next == evictOne(left, cfg.policy)
    <2>1. IsStore(left)
      BY Zenon DEF Without, IsStore
    <2>2. g[gone] = {gone \cup E : E \in Unfolded(left, cfg)}
      BY Zenon, <2>1, EvictionUnfolds DEF ClosedEnds
    <2>3. \A k \in next : /\ k \in DOMAIN s \ gone
                          /\ gone \cup {k} \in SUBSET DOMAIN s
                          /\ Without(left, {k}) = Without(s, gone \cup {k})
      <3> SUFFICES ASSUME NEW k \in next
                   PROVE  k \in DOMAIN s \ gone /\ Without(left, {k}) = Without(s, gone \cup {k})
        BY Zenon
      <3>1. k \in DOMAIN s \ gone
        BY Zenon, NextKey
      <3>2. (DOMAIN s \ gone) \ {k} = DOMAIN s \ (gone \cup {k})
        BY Zenon
      <3>3. Without(left, {k}) = Without(s, gone \cup {k})
        BY Zenon, <3>2 DEF Without
      <3> QED
        BY Zenon, <3>1, <3>3
    <2> HIDE DEF left, next
    <2>4. \A k \in next :
            g[gone \cup {k}] = {(gone \cup {k}) \cup E : E \in evictIfNeeded(Without(left, {k}), cfg)}
      BY ZenonT(30), <2>3 DEF ClosedEnds
    <2>5. \A k \in next : \A E \in evictIfNeeded(Without(left, {k}), cfg) :
            E \cup {k} \in SUBSET DOMAIN left
      <3> SUFFICES ASSUME NEW k \in next, NEW E \in evictIfNeeded(Without(left, {k}), cfg)
                   PROVE  E \cup {k} \in SUBSET DOMAIN left
        BY Zenon
      <3>1. E \subseteq Candidates(Without(left, {k}), cfg.policy)
        BY Zenon DEF evictIfNeeded
      <3>2. IsStore(Without(left, {k})) /\ DOMAIN Without(left, {k}) \subseteq DOMAIN left
        BY Zenon, <2>1 DEF Without, IsStore
      <3>3. E \subseteq DOMAIN left
        BY ZenonT(30), <3>1, <3>2, CandidatesOfRest DEF Limits
      <3>4. DOMAIN left = DOMAIN s \ gone
        BY Zenon DEF left, Without
      <3> QED
        BY ZenonT(30), <2>3, <3>3, <3>4
    <2>6. CASE ~overEvictionLimit(left, cfg) \/ next = {}
      <3>1. Turn(s, cfg, g, gone) = {gone}
        BY ZenonT(30), <2>6 DEF Turn, left, next
      <3>2. Unfolded(left, cfg) = {{}}
        BY ZenonT(30), <2>6 DEF Unfolded, next
      <3> HIDE DEF g
      <3> QED
        BY <2>2, <3>1, <3>2
    <2>7. CASE ~(~overEvictionLimit(left, cfg) \/ next = {})
      <3>1. Turn(s, cfg, g, gone) = UNION {g[gone \cup {k}] : k \in next}
        BY ZenonT(30), <2>7 DEF Turn, left, next
      <3>2. \A F : F \in Unfolded(left, cfg) <=>
              /\ F \in SUBSET DOMAIN left
              /\ \E k \in next : \E E \in evictIfNeeded(Without(left, {k}), cfg) : F = E \cup {k}
        BY ZenonT(30), <2>7 DEF Unfolded, next
      <3> HIDE DEF g
      <3>3. ASSUME NEW F, F \in g[gone]
            PROVE  F \in UNION {g[gone \cup {k}] : k \in next}
        <4>1. PICK H \in Unfolded(left, cfg) : F = gone \cup H
          BY Zenon, <2>2, <3>3
        <4>2. PICK k \in next : \E E \in evictIfNeeded(Without(left, {k}), cfg) : H = E \cup {k}
          BY ZenonT(30), <3>2, <4>1
        <4>3. PICK E \in evictIfNeeded(Without(left, {k}), cfg) : H = E \cup {k}
          BY Zenon, <4>2
        <4>4. F = (gone \cup {k}) \cup E
          BY Zenon, <4>1, <4>3
        <4>5. F \in g[gone \cup {k}]
          BY ZenonT(30), <2>4, <4>4
        <4> QED
          BY ZenonT(30), <4>5
      <3>4. ASSUME NEW F, F \in UNION {g[gone \cup {k}] : k \in next}
            PROVE  F \in g[gone]
        <4>1. PICK k \in next : F \in g[gone \cup {k}]
          BY Zenon, <3>4
        <4>2. PICK E \in evictIfNeeded(Without(left, {k}), cfg) : F = (gone \cup {k}) \cup E
          BY <2>4, <4>1
        <4>3. E \cup {k} \in Unfolded(left, cfg)
          BY ZenonT(30), <2>5, <3>2
        <4>4. F = gone \cup (E \cup {k})
          BY Zenon, <4>2
        <4> QED
          BY Zenon, <2>2, <4>3, <4>4
      <3>5. g[gone] = UNION {g[gone \cup {k}] : k \in next}
        BY ZenonT(30), <3>3, <3>4
      <3> QED
        BY Zenon, <3>1, <3>5
    <2> QED
      BY Zenon, <2>6, <2>7
  <1>2. g = [gone \in SUBSET DOMAIN s |-> g[gone]]
    BY Zenon DEF ClosedEnds
  <1> HIDE DEF g
  <1>3. g = [gone \in SUBSET DOMAIN s |-> Turn(s, cfg, g, gone)]
    BY ZenonT(30), <1>1, <1>2
  <1> QED
    BY Zenon, <1>3 DEF Describes, g

\* Only one function describes the loop: it erases a key at every turn.
LEMMA LoopUnique ==
  ASSUME FiniteNames, NEW s, IsStore(s), NEW cfg, Limits(cfg),
         NEW f, Describes(s, cfg, f), NEW g, Describes(s, cfg, g)
  PROVE  \A gone \in SUBSET DOMAIN s : f[gone] = g[gone]
  <1> DEFINE D == DOMAIN s
             left == [gone \in SUBSET D |-> Cardinality(D \ gone)]
             N == {n \in Nat : \A gone \in SUBSET D : left[gone] <= n => f[gone] = g[gone]}
  <1>0. \A a, b \in Nat : /\ b = a - 1 => a = b + 1
                          /\ a = b + 1 => ~(a <= 0) /\ \A n \in Nat : a <= n + 1 => b <= n
    OBVIOUS
  <1>1. \A gone \in SUBSET D : f[gone] = Turn(s, cfg, f, gone) /\ g[gone] = Turn(s, cfg, g, gone)
    BY ZenonT(30) DEF Describes
  <1>2. \A gone \in SUBSET D : IsFiniteSet(D \ gone) /\ left[gone] \in Nat
    BY Zenon, StoreBytes, FS_Subset, FS_CardinalityType
  <1>3. \A gone \in SUBSET D : \A k \in evictOne(Without(s, gone), cfg.policy) :
          /\ gone \cup {k} \in SUBSET D
          /\ left[gone] = left[gone \cup {k}] + 1
    <2> SUFFICES ASSUME NEW gone \in SUBSET D, NEW k \in evictOne(Without(s, gone), cfg.policy)
                 PROVE  /\ gone \cup {k} \in SUBSET D
                        /\ left[gone] = left[gone \cup {k}] + 1
      BY ZenonT(30)
    <2>1. k \in D \ gone
      BY Zenon, NextKey
    <2>2. (D \ gone) \ {k} = D \ (gone \cup {k})
      BY Zenon
    <2>3. Cardinality((D \ gone) \ {k}) = Cardinality(D \ gone) - 1
      BY ZenonT(30), <1>2, <2>1, FS_RemoveElement
    <2>4. left[gone \cup {k}] = left[gone] - 1
      BY Zenon, <2>1, <2>2, <2>3
    <2> HIDE DEF left
    <2>5. gone \cup {k} \in SUBSET D
      BY Zenon, <2>1
    <2> QED
      BY ZenonT(30), <1>0, <1>2, <2>4, <2>5
  <1> HIDE DEF left
  <1>4. ASSUME NEW gone \in SUBSET D,
               \A k \in evictOne(Without(s, gone), cfg.policy) : f[gone \cup {k}] = g[gone \cup {k}]
        PROVE  f[gone] = g[gone]
    <2> DEFINE next == evictOne(Without(s, gone), cfg.policy)
    <2>1. {f[gone \cup {k}] : k \in next} = {g[gone \cup {k}] : k \in next}
      BY ZenonT(30), <1>4
    <2>2. Turn(s, cfg, f, gone) = Turn(s, cfg, g, gone)
      BY ZenonT(30), <2>1 DEF Turn
    <2> QED
      BY Zenon, <1>1, <2>2
  <1>5. 0 \in N
    <2> SUFFICES ASSUME NEW gone \in SUBSET D, left[gone] <= 0
                 PROVE  f[gone] = g[gone]
      BY Zenon
    <2>1. ASSUME NEW k \in evictOne(Without(s, gone), cfg.policy)
          PROVE  FALSE
      <3> DEFINE more == gone \cup {k}
      <3>1. more \in SUBSET D /\ left[gone] \in Nat /\ left[gone] = left[more] + 1
        BY ZenonT(30), <1>2, <1>3
      <3> HIDE DEF more
      <3>2. left[more] \in Nat
        BY ZenonT(30), <1>2, <3>1
      <3> QED
        BY ZenonT(30), <1>0, <3>1, <3>2
    <2> QED
      BY SMTT(30), <1>4, <2>1
  <1>6. ASSUME NEW n \in Nat, n \in N
        PROVE  n + 1 \in N
    <2> SUFFICES ASSUME NEW gone \in SUBSET D, left[gone] <= n + 1
                 PROVE  f[gone] = g[gone]
      OBVIOUS
    <2>1. ASSUME NEW k \in evictOne(Without(s, gone), cfg.policy)
          PROVE  f[gone \cup {k}] = g[gone \cup {k}]
      <3> DEFINE more == gone \cup {k}
      <3>1. more \in SUBSET D /\ left[gone] \in Nat /\ left[gone] = left[more] + 1
        BY ZenonT(30), <1>2, <1>3
      <3> HIDE DEF more
      <3>2. left[more] \in Nat
        BY ZenonT(30), <1>2, <3>1
      <3>3. left[more] <= n
        BY ZenonT(30), <1>0, <3>1, <3>2
      <3>4. f[more] = g[more]
        BY ZenonT(30), <1>6, <3>1, <3>3
      <3> QED
        BY Zenon, <3>4 DEF more
    <2> QED
      BY Zenon, <1>4, <2>1
  <1>7. Nat \subseteq N
    <2> HIDE DEF N
    <2> QED
      BY Zenon, <1>5, <1>6, Induction
  <1>8. \A n \in Nat : n <= n
    OBVIOUS
  <1> QED
    BY ZenonT(30), <1>2, <1>7, <1>8

\* For every store and every configuration the closed form used by the actions
\* gives exactly the sets of keys that the loop of evictIfNeededLocked, one
\* evictOneLocked at a time, may have erased when it ends.
THEOREM LoopTheorem ==
  ASSUME FiniteNames, NEW s, IsStore(s), NEW cfg, Limits(cfg)
  PROVE  evictIfNeeded(s, cfg) = Evicted(s, cfg)
  <1> DEFINE f == CHOOSE ends : Describes(s, cfg, ends)
  <1>1. Evicted(s, cfg) = f[{}]
    BY Zenon DEF Evicted, Describes, Turn
  <1>2. Describes(s, cfg, f)
    BY ZenonT(30), ClosedDescribes
  <1> HIDE DEF f
  <1>3. f[{}] = ClosedEnds(s, cfg)[{}]
    <2>1. Describes(s, cfg, ClosedEnds(s, cfg)) /\ {} \in SUBSET DOMAIN s
      BY Zenon, ClosedDescribes
    <2> QED
      BY ZenonT(30), <1>2, <2>1, LoopUnique
  <1>4. Without(s, {}) = s
    BY Zenon DEF Without, IsStore
  <1>5. ClosedEnds(s, cfg)[{}] = {{} \cup E : E \in evictIfNeeded(s, cfg)}
    BY ZenonT(30), <1>4 DEF ClosedEnds
  <1>6. {{} \cup E : E \in evictIfNeeded(s, cfg)} = evictIfNeeded(s, cfg)
    BY Zenon
  <1> QED
    BY Zenon, <1>1, <1>3, <1>5, <1>6

-----------------------------------------------------------------------------
\* The two ways a method treats a store: it makes it lighter and gives no key a
\* deadline that had none, or it ends with evictIfNeededLocked.  EXPIRE alone
\* does neither.
Shrunk(s, t) ==
  Lighter(s, t) /\ \A k \in DOMAIN t : t[k].expiresAt # Never => s[k].expiresAt # Never

EndsEvicting(d) ==
  \E s : \E E \in evictIfNeeded(s, evictionConfig) : IsStore(s) /\ values'[d] = Without(s, E)

Bounded ==
  /\ evictionConfig' = evictionConfig
  /\ \A d \in Db : Shrunk(values[d], values'[d]) \/ EndsEvicting(d)

Expires == \E d \in Db, k \in Key, t \in Ttl \cap Nat : expire(d, k, t)

-----------------------------------------------------------------------------

\* A store is shrunk in itself and without some of its keys.
LEMMA ShrunkWithout ==
  ASSUME FiniteNames, NEW s, IsStore(s), NEW K
  PROVE  Shrunk(s, s) /\ Shrunk(s, Without(s, K))
  <1>1. Lighter(s, s) /\ Lighter(s, Without(s, K))
    BY Zenon, LighterWithout
  <1> QED
    BY Zenon, <1>1 DEF Shrunk, Without

\* So is one with an object replaced by one that is no heavier and has the same deadline.
LEMMA ShrunkExcept ==
  ASSUME FiniteNames, NEW s, IsStore(s), NEW k \in DOMAIN s, NEW o,
         NoHeavier(s[k], o), o.expiresAt = s[k].expiresAt
  PROVE  Shrunk(s, [s EXCEPT ![k] = o])
  <1>1. Lighter(s, [s EXCEPT ![k] = o])
    BY Zenon, LighterExcept
  <1> QED
    BY Zenon, <1>1 DEF Shrunk

\* Shrinking twice.
LEMMA ShrunkTwice ==
  ASSUME FiniteNames, NEW s, IsStore(s), NEW t, IsStore(t), NEW u, IsStore(u),
         Shrunk(s, t), Shrunk(t, u)
  PROVE  Shrunk(s, u)
  <1>1. Lighter(s, u)
    BY Zenon, LighterTransitive DEF Shrunk
  <1> QED
    BY Zenon, <1>1 DEF Shrunk, Lighter

\* A touched key.
LEMMA ShrunkTouched ==
  ASSUME FiniteNames, NEW s, IsStore(s), NEW k \in DOMAIN s, NEW t
  PROVE  Shrunk(s, Touched(s, k, t))
  <1> DEFINE o == [s[k] EXCEPT !.lastAccessedAt = t]
  <1>1. s[k] \in ValueObject
    BY Zenon DEF IsStore
  <1>2. NoHeavier(s[k], o)
    BY ZenonT(30), <1>1, ObjectLighter
  <1>3. o.expiresAt = s[k].expiresAt
    BY Zenon, <1>1 DEF ValueObject
  <1>4. Touched(s, k, t) = [s EXCEPT ![k] = o]
    BY Zenon DEF Touched
  <1> HIDE DEF o
  <1>5. Shrunk(s, [s EXCEPT ![k] = o])
    BY Zenon, <1>2, <1>3, ShrunkExcept
  <1> QED
    BY Zenon, <1>4, <1>5

\* What a pop, HDEL or SREM leaves.
LEMMA ShrunkRest ==
  ASSUME FiniteNames, NEW s, IsStore(s), NEW k \in DOMAIN s, NEW t, NEW x
  PROVE  /\ Len(x) \in Nat /\ Len(x) <= Len(s[k].list) => Shrunk(s, WithRest(s, k, x, t))
         /\ Shrunk(s, WithoutField(s, k, x, t))
         /\ Shrunk(s, WithoutMembers(s, k, x, t))
  <1> DEFINE l(y) == [s[k] EXCEPT !.list = y, !.lastAccessedAt = t]
             h(y) == [s[k] EXCEPT !.hash = y, !.lastAccessedAt = t]
             m(y) == [s[k] EXCEPT !.set = y, !.lastAccessedAt = t]
             fields == Without(s[k].hash, {x})
             members == s[k].set \ x
  <1>1. s[k] \in ValueObject /\ s = [j \in DOMAIN s |-> s[j]]
    BY Zenon DEF IsStore
  <1>2. \A y : /\ l(y).expiresAt = s[k].expiresAt
               /\ h(y).expiresAt = s[k].expiresAt
               /\ m(y).expiresAt = s[k].expiresAt
    BY ZenonT(30), <1>1 DEF ValueObject
  <1>3. \A y : /\ [s EXCEPT ![k].list = y, ![k].lastAccessedAt = t] = [s EXCEPT ![k] = l(y)]
               /\ [s EXCEPT ![k].hash = y, ![k].lastAccessedAt = t] = [s EXCEPT ![k] = h(y)]
               /\ [s EXCEPT ![k].set = y, ![k].lastAccessedAt = t] = [s EXCEPT ![k] = m(y)]
    BY ZenonT(30), <1>1
  <1>4. DOMAIN fields \subseteq DOMAIN s[k].hash /\ members \subseteq s[k].set
    BY Zenon DEF Without
  <1>5. /\ Len(x) \in Nat /\ Len(x) <= Len(s[k].list) => NoHeavier(s[k], l(x))
        /\ NoHeavier(s[k], h(fields)) /\ NoHeavier(s[k], m(members))
    BY ZenonT(30), <1>1, <1>4, ObjectLighter
  <1> HIDE DEF l, h, m, fields, members
  <1>6. /\ Len(x) \in Nat /\ Len(x) <= Len(s[k].list) => Shrunk(s, [s EXCEPT ![k] = l(x)])
        /\ Shrunk(s, [s EXCEPT ![k] = h(fields)]) /\ Shrunk(s, [s EXCEPT ![k] = m(members)])
    BY ZenonT(30), <1>2, <1>5, ShrunkExcept
  <1>7. Shrunk(s, Without(s, {k}))
    BY Zenon, ShrunkWithout
  <1>8. Len(x) \in Nat /\ Len(x) <= Len(s[k].list) => Shrunk(s, WithRest(s, k, x, t))
    BY ZenonT(30), <1>3, <1>6, <1>7 DEF WithRest
  <1>9. Shrunk(s, WithoutField(s, k, x, t))
    BY ZenonT(30), <1>3, <1>6, <1>7 DEF WithoutField, fields
  <1>10. Shrunk(s, WithoutMembers(s, k, x, t))
    BY ZenonT(30), <1>3, <1>6, <1>7 DEF WithoutMembers, members
  <1> QED
    BY ZenonT(30), <1>8, <1>9, <1>10

-----------------------------------------------------------------------------

\* A method that shrinks its store is bounded.
LEMMA BecomesBounded ==
  ASSUME FiniteNames, IInv, NEW d \in Db, NEW s, Shrunk(values[d], s), StoreBecomes(d, s)
  PROVE  Bounded
  <1>1. \A e \in Db : IsStore(values[e])
    BY Zenon DEF IInv, TypeOK
  <1>2. \A e \in Db : values'[e] = IF e = d THEN s ELSE values[e]
    BY Zenon DEF StoreBecomes, IInv, TypeOK
  <1>3. \A e \in Db : Shrunk(values[e], values'[e])
    BY Zenon, <1>1, <1>2, ShrunkWithout
  <1> QED
    BY Zenon, <1>3 DEF StoreBecomes, Bounded

\* A method that ends with evictIfNeededLocked is bounded.
LEMMA EvictedBounded ==
  ASSUME FiniteNames, IInv, NEW d \in Db, NEW s, GoodStore(s), StoreBecomesEvicted(d, s)
  PROVE  Bounded
  <1>1. PICK E \in evictIfNeeded(s, evictionConfig) : StoreBecomes(d, Without(s, E))
    BY Zenon DEF StoreBecomesEvicted
  <1>2. \A e \in Db : IsStore(values[e])
    BY Zenon DEF IInv, TypeOK
  <1>3. \A e \in Db : values'[e] = IF e = d THEN Without(s, E) ELSE values[e]
    BY Zenon, <1>1 DEF StoreBecomes, IInv, TypeOK
  <1>4. EndsEvicting(d)
    BY Zenon, <1>1, <1>3 DEF EndsEvicting, GoodStore
  <1>5. \A e \in Db \ {d} : Shrunk(values[e], values'[e])
    BY Zenon, <1>2, <1>3, ShrunkWithout
  <1> QED
    BY Zenon, <1>1, <1>4, <1>5 DEF StoreBecomes, Bounded

\* A lookup shrinks.
LEMMA FoundShrunk ==
  ASSUME FiniteNames, IInv, NEW d \in Db, NEW k
  PROVE  /\ IsStore(values[d]) /\ IsStore(Found(d, k))
         /\ Shrunk(values[d], Found(d, k))
  <1>1. IsStore(values[d]) /\ IsStore(Found(d, k))
    BY Zenon, FoundGood DEF IInv, TypeOK, GoodStore
  <1> QED
    BY Zenon, <1>1, ShrunkWithout DEF Found, Purged

\* What is shrunk from what the lookup left is shrunk from what was there.
LEMMA FromFound ==
  ASSUME FiniteNames, IInv, NEW d \in Db, NEW k, NEW s, IsStore(s), Shrunk(Found(d, k), s)
  PROVE  Shrunk(values[d], s)
  BY Zenon, FoundShrunk, ShrunkTwice

\* Reads are bounded.
LEMMA LookupBounded ==
  ASSUME FiniteNames, IInv, NEW d \in Db, NEW k, NEW answers \in BOOLEAN,
         answers => k \in DOMAIN Found(d, k), Lookup(d, k, answers)
  PROVE  Bounded
  <1>1. CASE answers
    <2> DEFINE s == Touched(Found(d, k), k, now)
    <2>1. IsStore(s)
      BY Zenon, <1>1, FoundGood, StoresGood, GoodTouched DEF GoodStore
    <2>2. Shrunk(values[d], s)
      BY Zenon, <1>1, <2>1, FoundShrunk, ShrunkTouched, FromFound
    <2>3. StoreBecomes(d, s)
      BY Zenon, <1>1 DEF Lookup
    <2> HIDE DEF s
    <2> QED
      BY Zenon, <2>2, <2>3, BecomesBounded
  <1>2. CASE ~answers
    BY SMTT(30), <1>2, FoundShrunk, BecomesBounded DEF Lookup
  <1> QED
    BY Zenon, <1>1, <1>2

\* Reads that answer from a key of one type.
LEMMA TypedBounded ==
  ASSUME FiniteNames, IInv, NEW d \in Db, NEW k, NEW ty, Lookup(d, k, HasType(Found(d, k), k, ty))
  PROVE  Bounded
  <1>1. /\ HasType(Found(d, k), k, ty) \in BOOLEAN
        /\ HasType(Found(d, k), k, ty) => k \in DOMAIN Found(d, k)
    BY Zenon DEF HasType
  <1> QED
    BY ZenonT(30), <1>1, LookupBounded

\* Writes that create or update end with evictIfNeededLocked.
LEMMA UpsertBounded ==
  ASSUME FiniteNames, IInv, NEW d \in Db, NEW k, NEW succeeds \in BOOLEAN, NEW s,
         succeeds => GoodStore(s), Upsert(d, k, succeeds, s)
  PROVE  Bounded
  BY SMTT(30), FoundShrunk, BecomesBounded, EvictedBounded DEF Upsert

\* Removals from a collection are bounded.
LEMMA ShrinkBounded ==
  ASSUME FiniteNames, IInv, NEW d \in Db, NEW k, NEW ty, NEW s,
         HasType(Found(d, k), k, ty) => GoodStore(s) /\ Shrunk(Found(d, k), s), Shrink(d, k, ty, s)
  PROVE  Bounded
  <1>1. CASE HasType(Found(d, k), k, ty)
    BY SMTT(30), <1>1, FromFound, BecomesBounded DEF Shrink, GoodStore
  <1>2. CASE ~HasType(Found(d, k), k, ty)
    BY SMTT(30), <1>2, FoundShrunk, BecomesBounded DEF Shrink
  <1> QED
    BY Zenon, <1>1, <1>2

-----------------------------------------------------------------------------

\* The methods on keys and deadlines are bounded, but for EXPIRE.
LEMMA KeyStepBounded ==
  ASSUME FiniteNames, IInv, NEW d \in Db, NEW k \in Key, KeyStep(d, k), ~Expires
  PROVE  Bounded
  <1> DEFINE s == Found(d, k)
  <1>0. GoodStore(values[d]) /\ GoodStore(s) /\ now \in Int
    BY Zenon, StoresGood, FoundGood
  <1>1. ASSUME NEW v \in Text \cup {0}, NEW t \in Ttl, set(d, k, v, t)
        PROVE  Bounded
    <2>1. v \in Int \cup Text /\ t \in Int
      BY BoundAssumption
    <2>2. GoodStore(WithString(values[d], k, v, t, now))
      BY SMTT(30), <1>0, <2>1, GoodWithString
    <2> QED
      BY SMTT(30), <1>1, <2>2, EvictedBounded DEF set
  <1>2. CASE del(d, k)
    BY SMTT(30), <1>0, <1>2, ShrunkWithout, BecomesBounded DEF del, GoodStore
  <1>3. CASE exists(d, k) \/ type(d, k) \/ memoryUsage(d, k) \/ ttl(d, k)
    <2>1. /\ (k \in DOMAIN s) \in BOOLEAN
          /\ (k \in DOMAIN s /\ s[k].expiresAt # Never) \in BOOLEAN
      OBVIOUS
    <2> QED
      BY ZenonT(30), <1>3, <2>1, LookupBounded DEF exists, type, memoryUsage, ttl
  <1>4. ASSUME NEW t \in Ttl \cap Nat, expire(d, k, t)
        PROVE  Bounded
    BY Zenon, <1>4 DEF Expires
  <1>5. CASE persist(d, k)
    <2> DEFINE p == WithDeadline(s, k, Never)
    <2>1. k \in DOMAIN s => GoodStore(p) /\ k \in DOMAIN p
      BY <1>0, GoodTouched DEF Never
    <2>2. k \in DOMAIN s => GoodStore(Touched(p, k, now))
      BY Zenon, <1>0, <2>1, GoodTouched
    <2> QED
      BY ZenonT(30), <1>5, <2>2, UpsertBounded DEF persist
  <1>6. ASSUME NEW destination \in Key, rename(d, k, destination)
        PROVE  Bounded
    <2>1. k \in DOMAIN s => GoodStore(Renamed(s, k, destination, now))
      BY Zenon, <1>0, GoodRenamed
    <2> QED
      BY ZenonT(30), <1>6, <2>1, UpsertBounded DEF rename
  <1>7. ASSUME NEW e \in Db, moveKeyTo(d, k, e)
        PROVE  Bounded
    <2> DEFINE o == Touched(s, k, now)[k]
               arrived == Put(Found(e, k), k, o)
    <2>1. CASE StoreBecomes(d, s)
      BY SMTT(30), <2>1, FoundShrunk, BecomesBounded
    <2>2. CASE /\ d # e /\ k \in DOMAIN s
               /\ \E E \in evictIfNeeded(arrived, evictionConfig) :
                    values' = [values EXCEPT ![d] = Without(s, {k}), ![e] = Without(arrived, E)]
               /\ UNCHANGED <<now, evictionConfig, scanning>>
      <3>1. GoodStore(Touched(s, k, now)) /\ k \in DOMAIN Touched(s, k, now)
        BY Zenon, <1>0, <2>2, GoodTouched
      <3>2. GoodObject(o)
        BY Zenon, <3>1 DEF GoodStore, GoodObject, IsStore
      <3> HIDE DEF o
      <3>3. GoodStore(arrived)
        BY Zenon, <3>2, FoundGood, GoodPut
      <3>4. Shrunk(values[d], Without(s, {k}))
        BY SMTT(30), <1>0, FoundShrunk, ShrunkWithout, GoodWithout, FromFound DEF GoodStore
      <3> HIDE DEF arrived, s
      <3>5. PICK E \in evictIfNeeded(arrived, evictionConfig) :
              values' = [values EXCEPT ![d] = Without(s, {k}), ![e] = Without(arrived, E)]
        BY ZenonT(30), <2>2
      <3>6. /\ values'[d] = Without(s, {k}) /\ values'[e] = Without(arrived, E)
            /\ \A f \in Db \ {d, e} : values'[f] = values[f]
        BY ZenonT(30), <2>2, <3>5 DEF IInv, TypeOK
      <3>7. EndsEvicting(e)
        BY SMTT(30), <3>3, <3>5, <3>6 DEF EndsEvicting, GoodStore
      <3>8. \A f \in Db \ {d, e} : Shrunk(values[f], values'[f])
        BY SMTT(30), <3>6, ShrunkWithout DEF IInv, TypeOK
      <3>9. evictionConfig' = evictionConfig
        BY ZenonT(30), <2>2
      <3>10. \A f \in Db : Shrunk(values[f], values'[f]) \/ EndsEvicting(f)
        BY ZenonT(30), <3>4, <3>6, <3>7, <3>8
      <3> QED
        BY ZenonT(30), <3>9, <3>10 DEF Bounded
    <2> QED
      BY SMTT(30), <1>7, <2>1, <2>2 DEF moveKeyTo
  <1> QED
    BY ZenonT(30), <1>1, <1>2, <1>3, <1>4, <1>5, <1>6, <1>7 DEF KeyStep

\* The methods on strings are bounded.
LEMMA StringStepBounded ==
  ASSUME FiniteNames, IInv, NEW d \in Db, NEW k \in Key, StringStep(d, k)
  PROVE  Bounded
  <1> DEFINE s == Found(d, k)
  <1>0. GoodStore(s) /\ now \in Int
    BY Zenon, StoresGood, FoundGood
  <1>1. CASE get(d, k) \/ strlen(d, k)
    BY SMTT(30), <1>1, TypedBounded DEF get, strlen
  <1>2. ASSUME NEW delta \in {-1, 1}, incrBy(d, k, delta)
        PROVE  Bounded
    <2>1. Incrementable(s, k) => GoodStore(WithIncrement(s, k, delta, now))
      BY <1>0, GoodWithIncrement
    <2>2. Incrementable(s, k) \in BOOLEAN
      BY Zenon DEF Incrementable
    <2> QED
      BY SMTT(30), <1>2, <2>1, <2>2, UpsertBounded DEF incrBy
  <1>3. ASSUME NEW suffix \in Text, append(d, k, suffix)
        PROVE  Bounded
    <2>1. Accepts(s, k, "string") => GoodStore(WithSuffix(s, k, suffix, now))
      BY Zenon, <1>0, GoodWithSuffix
    <2>2. Accepts(s, k, "string") \in BOOLEAN
      BY Zenon DEF Accepts
    <2> QED
      BY SMTT(30), <1>3, <2>1, <2>2, UpsertBounded DEF append
  <1> QED
    BY SMTT(30), <1>1, <1>2, <1>3 DEF StringStep

\* The methods on lists, hashes and sets are bounded.
LEMMA CollectionStepBounded ==
  ASSUME FiniteNames, IInv, NEW d \in Db, NEW k \in Key, CollectionStep(d, k)
  PROVE  Bounded
  <1> DEFINE s == Found(d, k)
  <1>0. GoodStore(s) /\ IsStore(s) /\ now \in Int
    BY Zenon, StoresGood, FoundGood DEF GoodStore
  <1>a. \A ty : Accepts(s, k, ty) \in BOOLEAN /\ (HasType(s, k, ty) => k \in DOMAIN s)
    BY Zenon DEF Accepts, HasType
  <1>1. ASSUME NEW elems \in Arguments, lpush(d, k, elems) \/ rpush(d, k, elems)
        PROVE  Bounded
    <2>1. Accepts(s, k, "list") => /\ GoodStore(WithHeads(s, k, elems, now))
                                   /\ GoodStore(WithTails(s, k, elems, now))
      BY SMTT(30), <1>0, ArgumentsType, GoodWithHeadsAndTails
    <2>2. CASE lpush(d, k, elems)
      BY SMTT(30), <1>a, <2>1, <2>2, UpsertBounded DEF lpush
    <2>3. CASE rpush(d, k, elems)
      BY SMTT(30), <1>a, <2>1, <2>3, UpsertBounded DEF rpush
    <2> QED
      BY SMTT(30), <1>1, <2>2, <2>3
  <1>2. CASE lpop(d, k) \/ rpop(d, k)
    <2> DEFINE rest(r) == IF s[k].list = <<>> THEN s ELSE WithRest(s, k, r, now)
    <2>1. ASSUME NEW r \in Seq(Elem), Len(r) <= Len(s[k].list), HasType(s, k, "list")
          PROVE  GoodStore(rest(r)) /\ Shrunk(s, rest(r))
      <3>1. GoodStore(WithRest(s, k, r, now))
        BY Zenon, <1>0, <2>1, GoodWithRest
      <3>2. Len(r) \in Nat
        OBVIOUS
      <3>3. Shrunk(s, WithRest(s, k, r, now)) /\ Shrunk(s, s)
        BY SMTT(30), <1>0, <1>a, <2>1, <3>2, ShrunkRest, ShrunkWithout
      <3> QED
        BY Zenon, <1>0, <3>1, <3>3
    <2>2. ASSUME HasType(s, k, "list")
          PROVE  \A r \in {Tail(s[k].list), Front(s[k].list)} :
                   GoodStore(rest(r)) /\ Shrunk(s, rest(r))
      <3>1. s[k].list \in Seq(Elem)
        BY Zenon, <1>0, <1>a, <2>2 DEF IsStore, ValueObject
      <3>2. CASE s[k].list = <<>>
        BY Zenon, <1>0, <3>2, ShrunkWithout
      <3>3. CASE s[k].list # <<>>
        <4> DEFINE l == s[k].list
        <4>1. l \in Seq(Elem) /\ l # <<>>
          BY Zenon, <3>1, <3>3
        <4> HIDE DEF l
        <4>2. /\ Tail(l) \in Seq(Elem) /\ Len(Tail(l)) <= Len(l)
              /\ Front(l) \in Seq(Elem) /\ Len(Front(l)) <= Len(l)
          BY <4>1 DEF Front
        <4>3. /\ Tail(s[k].list) \in Seq(Elem) /\ Len(Tail(s[k].list)) <= Len(s[k].list)
              /\ Front(s[k].list) \in Seq(Elem) /\ Len(Front(s[k].list)) <= Len(s[k].list)
          BY Zenon, <4>2 DEF l
        <4> HIDE DEF rest
        <4> QED
          BY ZenonT(30), <2>1, <2>2, <4>3
      <3> QED
        BY ZenonT(30), <3>2, <3>3
    <2>3. \/ Shrink(d, k, "list", rest(Tail(s[k].list)))
          \/ Shrink(d, k, "list", rest(Front(s[k].list)))
      BY Zenon, <1>2 DEF lpop, rpop
    <2> HIDE DEF rest
    <2> QED
      BY SMTT(30), <2>2, <2>3, ShrinkBounded
  <1>3. ASSUME NEW start, NEW stop, lrange(d, k, start, stop)
        PROVE  Bounded
    <2> DEFINE range == normalizeRange(start, stop, Len(s[k].list))
               answers == HasType(s, k, "list") /\ range[1] <= range[2]
    <2>1. answers \in BOOLEAN /\ Lookup(d, k, answers) /\ (answers => k \in DOMAIN s)
      BY SMTT(30), <1>3, <1>a DEF lrange
    <2> HIDE DEF answers
    <2> QED
      BY Zenon, <2>1, LookupBounded
  <1>4. ASSUME NEW field \in Field, NEW elem \in Elem, hset(d, k, field, elem)
        PROVE  Bounded
    <2>1. Accepts(s, k, "hash") => GoodStore(WithField(s, k, field, elem, now))
      BY Zenon, <1>0, GoodWithField
    <2> QED
      BY SMTT(30), <1>4, <1>a, <2>1, UpsertBounded DEF hset
  <1>5. ASSUME NEW field \in Field, hget(d, k, field) \/ hdel(d, k, field)
        PROVE  Bounded
    <2>1. CASE hget(d, k, field)
      <3> DEFINE answers == HasType(s, k, "hash") /\ field \in DOMAIN s[k].hash
      <3>1. answers \in BOOLEAN /\ Lookup(d, k, answers) /\ (answers => k \in DOMAIN s)
        BY SMTT(30), <1>a, <2>1 DEF hget
      <3> HIDE DEF answers
      <3> QED
        BY Zenon, <3>1, LookupBounded
    <2>2. CASE hdel(d, k, field)
      <3>1. HasType(s, k, "hash") => /\ GoodStore(WithoutField(s, k, field, now))
                                     /\ Shrunk(s, WithoutField(s, k, field, now))
        BY SMTT(30), <1>0, <1>a, GoodWithoutField, ShrunkRest
      <3> QED
        BY SMTT(30), <2>2, <3>1, ShrinkBounded DEF hdel
    <2> QED
      BY SMTT(30), <1>5, <2>1, <2>2
  <1>6. ASSUME NEW members \in (SUBSET Elem) \ {{}}, sadd(d, k, members) \/ srem(d, k, members)
        PROVE  Bounded
    <2>1. CASE sadd(d, k, members)
      <3>1. Accepts(s, k, "set") => GoodStore(WithMembers(s, k, members, now))
        BY SMTT(30), <1>0, <1>6, GoodWithMembers
      <3> QED
        BY SMTT(30), <1>a, <2>1, <3>1, UpsertBounded DEF sadd
    <2>2. CASE srem(d, k, members)
      <3>1. HasType(s, k, "set") => /\ GoodStore(WithoutMembers(s, k, members, now))
                                    /\ Shrunk(s, WithoutMembers(s, k, members, now))
        BY SMTT(30), <1>0, <1>a, GoodWithoutMembers, ShrunkRest
      <3> QED
        BY SMTT(30), <2>2, <3>1, ShrinkBounded DEF srem
    <2> QED
      BY SMTT(30), <1>6, <2>1, <2>2
  <1>7. CASE hexists(d, k) \/ hgetall(d, k)
    BY SMTT(30), <1>7, TypedBounded DEF hexists, hgetall
  <1>8. CASE sismember(d, k) \/ smembers(d, k) \/ scard(d, k)
    BY SMTT(30), <1>8, TypedBounded DEF sismember, smembers, scard
  <1> QED
    BY SMTT(30), <1>1, <1>2, <1>3, <1>4, <1>5, <1>6, <1>7, <1>8 DEF CollectionStep

\* MGET touches the strings it finds.
LEMMA MgetShrunk ==
  ASSUME FiniteNames, IInv, NEW d \in Db, NEW K, NEW m,
         LET s == Without(values[d], K \cap Expired(values[d], now))
         IN m = [k \in DOMAIN s |->
                   IF k \in K /\ s[k].type = "string" THEN Touched(s, k, now)[k] ELSE s[k]]
  PROVE  Shrunk(values[d], m)
  <1> DEFINE s == Without(values[d], K \cap Expired(values[d], now))
  <1>1. /\ DOMAIN m = DOMAIN s
        /\ \A k \in DOMAIN s :
             m[k] = IF k \in K /\ s[k].type = "string" THEN Touched(s, k, now)[k] ELSE s[k]
    BY ZenonT(30)
  <1>2. IsStore(values[d])
    BY Zenon DEF IInv, TypeOK
  <1>3. /\ DOMAIN s \subseteq DOMAIN values[d]
        /\ \A k \in DOMAIN s : s[k] = values[d][k] /\ s[k] \in ValueObject
    BY Zenon, <1>2 DEF Without, IsStore
  <1> HIDE DEF s
  <1>4. \A k \in DOMAIN s : Touched(s, k, now)[k] = [s[k] EXCEPT !.lastAccessedAt = now]
    BY ZenonT(30) DEF Touched
  <1>5. ASSUME NEW k \in DOMAIN m
        PROVE  NoHeavier(values[d][k], m[k]) /\ m[k].expiresAt = values[d][k].expiresAt
    <2> DEFINE o == s[k]
               q == [o EXCEPT !.lastAccessedAt = now]
    <2>1. k \in DOMAIN s /\ o = values[d][k] /\ o \in ValueObject /\ m[k] \in {o, q}
      BY ZenonT(30), <1>1, <1>3, <1>4
    <2>2. NoHeavier(o, q)
      BY ZenonT(30), <2>1, ObjectLighter
    <2>4. NoHeavier(o, o)
      BY <2>1, ObjectBytes DEF NoHeavier
    <2>3. q.expiresAt = o.expiresAt
      BY Zenon, <2>1 DEF ValueObject
    <2> HIDE DEF o, q
    <2> QED
      BY Zenon, <2>1, <2>2, <2>3, <2>4
  <1>6. DOMAIN m \subseteq DOMAIN values[d]
    BY Zenon, <1>1, <1>3
  <1> QED
    BY ZenonT(30), <1>5, <1>6 DEF Shrunk, Lighter

\* The methods on a whole store are bounded.
LEMMA StoreStepBounded ==
  ASSUME FiniteNames, IInv, NEW d \in Db, StoreStep(d)
  PROVE  Bounded
  <1>0. IsStore(values[d]) /\ GoodStore(values[d]) /\ now \in Int
    BY Zenon, StoresGood DEF GoodStore
  <1>1. ASSUME NEW K \in SUBSET Key, mget(d, K)
        PROVE  Bounded
    <2> DEFINE s == Without(values[d], K \cap Expired(values[d], now))
               m == [k \in DOMAIN s |->
                       IF k \in K /\ s[k].type = "string" THEN Touched(s, k, now)[k] ELSE s[k]]
    <2>1. Shrunk(values[d], m)
      BY ZenonT(30), MgetShrunk
    <2>2. StoreBecomes(d, m)
      BY Zenon, <1>1 DEF mget
    <2> HIDE DEF m
    <2> QED
      BY SMTT(30), <2>1, <2>2, BecomesBounded
  <1>2. ASSUME NEW K \in SUBSET Key, NEW entries \in [K -> Text], mset(d, entries)
        PROVE  Bounded
    <2>1. GoodStore(WithStrings(values[d], entries, now))
      BY SMTT(30), <1>0, GoodWithStrings
    <2> QED
      BY SMTT(30), <1>2, <2>1, EvictedBounded DEF mset
  <1>3. CASE flushdb(d)
    <2>1. Shrunk(values[d], EmptyMap)
      BY Zenon, EmptyMapType DEF Shrunk, Lighter
    <2> QED
      BY SMTT(30), <1>3, <2>1, BecomesBounded DEF flushdb
  <1>4. Shrunk(values[d], Swept(d))
    BY Zenon, <1>0, ShrunkWithout DEF Swept
  <1>5. CASE removeExpired(d) \/ snapshot(d)
    BY SMTT(30), <1>4, <1>5, BecomesBounded DEF removeExpired, snapshot
  <1>6. ASSUME NEW c \in Scanner, ScanSweep(c, d) \/ ScanRead(c, d)
        PROVE  Bounded
    <2>1. /\ evictionConfig' = evictionConfig
          /\ \A e \in Db : values'[e] \in {values[e], Swept(e)}
      BY SMTT(30), <1>6 DEF ScanSweep, ScanRead, IInv, TypeOK
    <2>2. \A e \in Db : Shrunk(values[e], values[e]) /\ Shrunk(values[e], Swept(e))
      BY SMTT(30), ShrunkWithout DEF Swept, IInv, TypeOK
    <2> QED
      BY SMTT(30), <2>1, <2>2 DEF Bounded
  <1> QED
    BY SMTT(30), <1>1, <1>2, <1>3, <1>5, <1>6 DEF StoreStep

\* Every step but EXPIRE shrinks a store, or ends by evicting from it.
LEMMA NextBounded ==
  ASSUME FiniteNames, IInv, [Next]_vars, ~Expires
  PROVE  Bounded
  <1>1. ASSUME values' = values, evictionConfig' = evictionConfig
        PROVE  Bounded
    BY SMTT(30), <1>1, ShrunkWithout DEF Bounded, IInv, TypeOK
  <1>2. CASE Tick
    BY Zenon, <1>1, <1>2 DEF Tick
  <1>3. CASE UNCHANGED vars
    BY Zenon, <1>1, <1>3 DEF vars
  <1> QED
    BY SMTT(30), <1>2, <1>3, StoreStepBounded, KeyStepBounded, StringStepBounded, CollectionStepBounded
       DEF Next

\* EXPIRE adds no key and makes no object heavier.
LEMMA ExpireLighter ==
  ASSUME FiniteNames, IInv, Expires
  PROVE  /\ evictionConfig' = evictionConfig
         /\ \A d \in Db : Lighter(values[d], values'[d])
  <1>1. PICK d \in Db, k \in Key, t \in Ttl \cap Nat : expire(d, k, t)
    BY Zenon DEF Expires
  <1> DEFINE s == Found(d, k)
             w == WithDeadline(s, k, now + t * Second)
  <1>2. IsStore(values[d]) /\ GoodStore(s) /\ IsStore(s) /\ Lighter(values[d], s) /\ now \in Int
    BY Zenon, FoundShrunk, StoresGood, FoundGood DEF Shrunk
  <1>3. ASSUME k \in DOMAIN s
        PROVE  Lighter(values[d], w)
    <2> DEFINE o == [s[k] EXCEPT !.expiresAt = now + t * Second]
    <2>1. w = [s EXCEPT ![k] = o]
      BY ZenonT(30) DEF WithDeadline
    <2>2. s[k] \in ValueObject
      BY Zenon, <1>2, <1>3 DEF IsStore
    <2>3. NoHeavier(s[k], o)
      BY ZenonT(30), <2>2, ObjectLighter
    <2>4. now + t * Second \in Int
      BY Zenon, <1>2, BoundAssumption, DeadlineType
    <2>5. IsStore(w)
      BY Zenon, <1>2, <1>3, <2>4, GoodTouched DEF GoodStore
    <2> HIDE DEF o, w, s
    <2>6. Lighter(s, w)
      BY ZenonT(30), <1>2, <1>3, <2>1, <2>3, LighterExcept
    <2> QED
      BY ZenonT(30), <1>2, <2>5, <2>6, LighterTransitive
  <1>4. PICK x : StoreBecomes(d, x) /\ Lighter(values[d], x)
    <2> HIDE DEF w
    <2>1. CASE k \in DOMAIN s
      BY ZenonT(30), <1>1, <1>3, <2>1 DEF expire, w
    <2>2. CASE k \notin DOMAIN s
      BY ZenonT(30), <1>1, <1>2, <2>2 DEF expire
    <2> QED
      BY Zenon, <2>1, <2>2
  <1>5. \A e \in Db : values'[e] = IF e = d THEN x ELSE values[e]
    BY Zenon, <1>4 DEF StoreBecomes, IInv, TypeOK
  <1>6. \A e \in Db : Lighter(values[e], values[e])
    BY Zenon, LighterWithout DEF IInv, TypeOK
  <1> QED
    BY Zenon, <1>4, <1>5, <1>6 DEF StoreBecomes

\* Every step leaves a store no heavier than it was, or ends by evicting from it.
LEMMA NextLighter ==
  ASSUME FiniteNames, IInv, [Next]_vars
  PROVE  /\ evictionConfig' = evictionConfig
         /\ \A d \in Db : Lighter(values[d], values'[d]) \/ EndsEvicting(d)
  <1>1. CASE Expires
    BY Zenon, <1>1, ExpireLighter
  <1>2. CASE ~Expires
    BY Zenon, <1>2, NextBounded DEF Bounded, Shrunk
  <1> QED
    BY Zenon, <1>1, <1>2

\* The limits are numbers.
LEMMA LimitsType ==
  ASSUME IInv
  PROVE  evictionConfig.maxKeys \in Nat /\ evictionConfig.maxMemoryBytes \in Nat
  BY Zenon, ConfigAssumption DEF IInv, TypeOK

-----------------------------------------------------------------------------

\* The loop stops within the limits, or with no candidate left.
LEMMA EvictionStops ==
  ASSUME NEW s, NEW cfg, NEW E \in evictIfNeeded(s, cfg)
  PROVE  E = Candidates(s, cfg.policy) \/ ~overEvictionLimit(Without(s, E), cfg)
  BY Zenon DEF evictIfNeeded

\* A step keeps a store within its limits when every key may be evicted.
LEMMA LimitsKept ==
  ASSUME FiniteNames, IInv, IInv', [Next]_vars, WithinLimits
  PROVE  WithinLimits'
  <1> DEFINE cfg == evictionConfig
  <1>1. cfg' = cfg /\ cfg.maxKeys \in Nat /\ cfg.maxMemoryBytes \in Nat
    BY Zenon, NextLighter, LimitsType
  <1> SUFFICES ASSUME cfg.policy \in {"allkeys-lru", "random"}, NEW d \in Db
               PROVE  ~overEvictionLimit(values'[d], cfg)
    BY Zenon, <1>1 DEF WithinLimits
  <1>2. ~overEvictionLimit(values[d], cfg)
    BY Zenon DEF WithinLimits
  <1>3. IsStore(values[d]) /\ IsStore(values'[d])
    BY Zenon DEF IInv, TypeOK
  <1>4. Lighter(values[d], values'[d]) \/ EndsEvicting(d)
    BY Zenon, NextLighter
  <1>5. CASE Lighter(values[d], values'[d])
    BY Zenon, <1>1, <1>2, <1>3, <1>5, LighterWithin
  <1>6. CASE EndsEvicting(d)
    <2>1. PICK s : \E E \in evictIfNeeded(s, cfg) : values'[d] = Without(s, E)
      BY Zenon, <1>6 DEF EndsEvicting
    <2>2. PICK E \in evictIfNeeded(s, cfg) : values'[d] = Without(s, E)
      BY Zenon, <2>1
    <2>3. Candidates(s, cfg.policy) = DOMAIN s
      BY Zenon DEF Candidates
    <2>4. CASE E = DOMAIN s
      <3>1. DOMAIN values'[d] = {}
        BY Zenon, <2>2, <2>4 DEF Without
      <3> QED
        BY ZenonT(30), <1>1, <3>1, EmptyWithin
    <2> QED
      BY Zenon, <2>2, <2>3, <2>4, EvictionStops
  <1> QED
    BY Zenon, <1>4, <1>5, <1>6

\* The empty stores of a new server are within every limit.
LEMMA InitWithinLimits == Init => WithinLimits
  <1> SUFFICES ASSUME Init PROVE WithinLimits
    BY Zenon
  <1>1. evictionConfig.maxKeys \in Nat /\ evictionConfig.maxMemoryBytes \in Nat
    BY Zenon, InitGood, LimitsType
  <1>2. \A d \in Db : DOMAIN values[d] = {}
    BY Zenon, EmptyMapType DEF Init
  <1> QED
    BY ZenonT(30), <1>1, <1>2, EmptyWithin DEF WithinLimits

\* Whatever the threads do, a store under allkeys-lru or random is within both
\* its limits when its mutex is free: a method leaves no object heavier, or ends
\* with evictIfNeededLocked, which stops within the limits or at an empty store.
THEOREM LimitsHold ==
  ASSUME FiniteNames
  PROVE  Spec => []WithinLimits
  <1>1. Init => WithinLimits
    BY Zenon, InitWithinLimits
  <1>2. IInv /\ IInv' /\ WithinLimits /\ [Next]_vars => WithinLimits'
    BY Zenon, LimitsKept
  <1> QED
    BY <1>1, <1>2, Invariance, PTL DEF Spec

-----------------------------------------------------------------------------

\* A step other than EXPIRE leaves a store over its limits only without volatile keys.
LEMMA VolatileKept ==
  ASSUME FiniteNames, IInv, IInv', [Next]_vars, ~Expires, VolatileWithinLimits
  PROVE  VolatileWithinLimits'
  <1> DEFINE cfg == evictionConfig
  <1>1. cfg' = cfg /\ cfg.maxKeys \in Nat /\ cfg.maxMemoryBytes \in Nat /\ Bounded
    BY Zenon, NextBounded, LimitsType DEF Bounded
  <1> SUFFICES ASSUME cfg.policy \in {"volatile-lru", "ttl-priority"}, NEW d \in Db,
                      overEvictionLimit(values'[d], cfg), NEW k \in DOMAIN values'[d]
               PROVE  values'[d][k].expiresAt = Never
    BY Zenon, <1>1 DEF VolatileWithinLimits
  <1>2. IsStore(values[d]) /\ IsStore(values'[d])
    BY Zenon DEF IInv, TypeOK
  <1>3. CASE Shrunk(values[d], values'[d])
    <2>1. Lighter(values[d], values'[d])
      BY Zenon, <1>3 DEF Shrunk
    <2>2. overEvictionLimit(values[d], cfg) /\ k \in DOMAIN values[d]
      BY Zenon, <1>1, <1>2, <2>1, LighterWithin DEF Lighter
    <2>3. values[d][k].expiresAt = Never
      BY Zenon, <2>2 DEF VolatileWithinLimits
    <2> QED
      BY Zenon, <1>3, <2>3 DEF Shrunk
  <1>4. CASE EndsEvicting(d)
    <2>1. PICK s : \E E \in evictIfNeeded(s, cfg) : values'[d] = Without(s, E)
      BY Zenon, <1>4 DEF EndsEvicting
    <2>2. PICK E \in evictIfNeeded(s, cfg) : values'[d] = Without(s, E)
      BY Zenon, <2>1
    <2>3. E = {j \in DOMAIN s : s[j].expiresAt # Never}
      BY Zenon, <2>2, EvictionStops DEF Candidates
    <2> QED
      BY Zenon, <2>2, <2>3 DEF Without
  <1> QED
    BY Zenon, <1>1, <1>3, <1>4 DEF Bounded

\* EXPIRE is the only command that leaves a store over its limits with a key
\* that volatile-lru or ttl-priority could evict: every other method gives no key
\* a deadline and makes nothing heavier, or evicts before it unlocks.
THEOREM VolatileLimitTheorem == ASSUME FiniteNames PROVE Spec => VolatileLimitKept
  <1>1. IInv /\ IInv' /\ [Next]_vars =>
          [VolatileWithinLimits /\ ~VolatileWithinLimits' =>
             \E d \in Db, k \in Key, t \in Ttl \cap Nat : expire(d, k, t)]_vars
    BY Zenon, VolatileKept DEF Expires
  <1> QED
    BY <1>1, Invariance, PTL DEF Spec, VolatileLimitKept

-----------------------------------------------------------------------------
\* A store in which a write has put an object it touched: eviction takes that
\* object last.
LEMMA PutEvictedLast ==
  ASSUME IInv, NEW d \in Db, NEW k \in Key, evictionConfig.policy = "allkeys-lru",
         \A j \in DOMAIN values[d] \ {k} : EvictionRank(values[d][j], "allkeys-lru") < now,
         NEW s, DOMAIN s \subseteq DOMAIN values[d], \A j \in DOMAIN s : s[j] = values[d][j],
         NEW o, o.lastAccessedAt = now, StoreBecomesEvicted(d, Put(s, k, o))
  PROVE  k \in DOMAIN values'[d] \/ DOMAIN values'[d] = {}
  <1> DEFINE t == Put(s, k, o)
             p == "allkeys-lru"
  <1>1. DOMAIN t = DOMAIN s \cup {k} /\ t[k] = o /\ \A j \in DOMAIN s \ {k} : t[j] = values[d][j]
    BY Zenon DEF Put
  <1>2. EvictionRank(t[k], p) = now /\ now \in Nat
    BY <1>1 DEF EvictionRank, Never, IInv, TypeOK
  <1>3. \A j \in DOMAIN t \ {k} : EvictionRank(t[j], p) < now
    BY Zenon, <1>1
  <1>4. \A j \in DOMAIN t \ {k} : EvictionRank(t[j], p) \in Int
    <2>1. IsStore(values[d]) /\ p \in EvictionPolicy
      BY Zenon DEF IInv, TypeOK, EvictionPolicy
    <2>2. Candidates(values[d], p) = DOMAIN values[d]
      BY Zenon DEF Candidates
    <2>3. \A j \in DOMAIN values[d] : EvictionRank(values[d][j], p) \in Int
      BY ZenonT(30), <2>1, <2>2, CandidatesOfRest
    <2> QED
      BY Zenon, <1>1, <2>3
  <1> HIDE DEF t
  <1>5. PICK E \in evictIfNeeded(t, evictionConfig) : StoreBecomes(d, Without(t, E))
    BY Zenon DEF StoreBecomesEvicted, t
  <1>6. values'[d] = Without(t, E)
    BY Zenon, <1>5 DEF StoreBecomes, IInv, TypeOK
  <1>7. DOMAIN values'[d] = DOMAIN t \ E
    BY Zenon, <1>6 DEF Without
  <1>8. k \in E => \A c \in DOMAIN t \ E : EvictionRank(t[k], p) <= EvictionRank(t[c], p)
    BY Zenon, <1>5 DEF evictIfNeeded, Candidates
  <1>9. k \in E => DOMAIN t \ E = {}
    <2> SUFFICES ASSUME k \in E, NEW c \in DOMAIN t \ E
                 PROVE  FALSE
      BY Zenon
    <2> DEFINE r == EvictionRank(t[c], p)
    <2>1. now <= r /\ r < now /\ r \in Int
      BY Zenon, <1>2, <1>3, <1>4, <1>8
    <2> HIDE DEF r
    <2> QED
      BY <1>2, <2>1
  <1>10. k \in DOMAIN t
    BY Zenon, <1>1
  <1> QED
    BY Zenon, <1>7, <1>9, <1>10

\* What each write puts under its key, it has touched.
LEMMA WritesPut ==
  ASSUME IInv, NEW d \in Db, NEW k \in Key, Writes(d, k)
  PROVE  \/ StoreBecomes(d, Found(d, k)) /\ k \in DOMAIN Found(d, k)
         \/ \E s \in {values[d], Found(d, k)} : \E o :
              o.lastAccessedAt = now /\ StoreBecomesEvicted(d, Put(s, k, o))
  <1> DEFINE s == Found(d, k)
             Puts(f) == \E o : o.lastAccessedAt = now /\ StoreBecomesEvicted(d, Put(f, k, o))
  <1>0. IsStore(s) /\ GoodStore(s)
    BY Zenon, FoundGood DEF GoodStore
  <1>1. \A ty : /\ Accepts(s, k, ty) \in BOOLEAN
                /\ ~Accepts(s, k, ty) => k \in DOMAIN s
    BY Zenon DEF Accepts
  <1>2. Incrementable(s, k) \in BOOLEAN /\ (~Incrementable(s, k) => k \in DOMAIN s)
    BY Zenon DEF Incrementable
  <1>3. ASSUME NEW ty
        PROVE  LET b == ObjectAt(s, k, ty, now)
               IN \A v : /\ [b EXCEPT !.value = v, !.lastAccessedAt = now].lastAccessedAt = now
                         /\ [b EXCEPT !.list = v, !.lastAccessedAt = now].lastAccessedAt = now
                         /\ [b EXCEPT !.hash = v, !.lastAccessedAt = now].lastAccessedAt = now
                         /\ [b EXCEPT !.set = v, !.lastAccessedAt = now].lastAccessedAt = now
    <2> DEFINE b == ObjectAt(s, k, ty, now)
    <2>1. "lastAccessedAt" \in DOMAIN b
      BY Zenon, <1>0 DEF ObjectAt, NewObject, IsStore, ValueObject
    <2> HIDE DEF b
    <2>2. \A v : /\ [b EXCEPT !.value = v, !.lastAccessedAt = now].lastAccessedAt = now
                 /\ [b EXCEPT !.list = v, !.lastAccessedAt = now].lastAccessedAt = now
                 /\ [b EXCEPT !.hash = v, !.lastAccessedAt = now].lastAccessedAt = now
                 /\ [b EXCEPT !.set = v, !.lastAccessedAt = now].lastAccessedAt = now
      BY ZenonT(30), <2>1
    <2> QED
      BY Zenon, <2>2 DEF b
  <1> HIDE DEF s
  <1>4. ASSUME NEW ty, NEW succeeds \in BOOLEAN, ~succeeds => k \in DOMAIN s,
               NEW o, o.lastAccessedAt = now, Upsert(d, k, succeeds, Put(s, k, o))
        PROVE  (StoreBecomes(d, s) /\ k \in DOMAIN s) \/ Puts(s)
    BY ZenonT(30), <1>4 DEF Upsert, s
  <1>5. ASSUME NEW suffix \in Text, append(d, k, suffix)
        PROVE  (StoreBecomes(d, s) /\ k \in DOMAIN s) \/ Puts(s)
    <2> DEFINE o == [ObjectAt(s, k, "string", now) EXCEPT !.value = Append(@, suffix), !.lastAccessedAt = now]
    <2>1. o.lastAccessedAt = now
      BY ZenonT(30), <1>3
    <2>2. Upsert(d, k, Accepts(s, k, "string"), Put(s, k, o))
      BY ZenonT(30), <1>5 DEF append, WithSuffix, s
    <2> HIDE DEF o
    <2> QED
      BY ZenonT(30), <1>1, <1>4, <2>1, <2>2
  <1>6. ASSUME NEW elems \in Arguments, lpush(d, k, elems) \/ rpush(d, k, elems)
        PROVE  (StoreBecomes(d, s) /\ k \in DOMAIN s) \/ Puts(s)
    <2> DEFINE b == ObjectAt(s, k, "list", now)
               o(l) == [b EXCEPT !.list = l, !.lastAccessedAt = now]
    <2>1. \A l : o(l).lastAccessedAt = now
      BY ZenonT(30), <1>3
    <2>2. \/ Upsert(d, k, Accepts(s, k, "list"), Put(s, k, o(Reverse(elems) \o b.list)))
          \/ Upsert(d, k, Accepts(s, k, "list"), Put(s, k, o(b.list \o elems)))
      BY ZenonT(30), <1>6 DEF lpush, rpush, WithHeads, WithTails, s
    <2> HIDE DEF o, b
    <2> QED
      BY ZenonT(30), <1>1, <1>4, <2>1, <2>2
  <1>7. ASSUME NEW v \in Text \cup {0}, NEW t \in Ttl, set(d, k, v, t)
        PROVE  Puts(values[d])
    <2> DEFINE o == [NewObject("string", now) EXCEPT !.value = <<v>>, !.expiresAt = Deadline(t, now)]
    <2>1. o.lastAccessedAt = now
      BY Zenon DEF NewObject
    <2>2. StoreBecomesEvicted(d, Put(values[d], k, o))
      BY ZenonT(30), <1>7 DEF set, WithString
    <2> HIDE DEF o
    <2> QED
      BY Zenon, <2>1, <2>2
  <1>8. ASSUME NEW delta \in {-1, 1}, incrBy(d, k, delta)
        PROVE  (StoreBecomes(d, s) /\ k \in DOMAIN s) \/ Puts(s)
    <2> DEFINE v == <<CurrentInteger(s, k) + delta>>
               o == [ObjectAt(s, k, "string", now) EXCEPT !.value = v, !.lastAccessedAt = now]
    <2>1. o.lastAccessedAt = now
      BY ZenonT(30), <1>3
    <2>2. Upsert(d, k, Incrementable(s, k), Put(s, k, o))
      BY ZenonT(30), <1>8 DEF incrBy, WithIncrement, s
    <2> HIDE DEF o
    <2> QED
      BY ZenonT(30), <1>2, <1>4, <2>1, <2>2
  <1>9. ASSUME NEW field \in Field, NEW elem \in Elem, hset(d, k, field, elem)
        PROVE  (StoreBecomes(d, s) /\ k \in DOMAIN s) \/ Puts(s)
    <2> DEFINE b == ObjectAt(s, k, "hash", now)
               o == [b EXCEPT !.hash = Put(@, field, elem), !.lastAccessedAt = now]
    <2>1. o.lastAccessedAt = now
      BY ZenonT(30), <1>3
    <2>2. Upsert(d, k, Accepts(s, k, "hash"), Put(s, k, o))
      BY ZenonT(30), <1>9 DEF hset, WithField, s
    <2> HIDE DEF o
    <2> QED
      BY ZenonT(30), <1>1, <1>4, <2>1, <2>2
  <1>10. ASSUME NEW members \in (SUBSET Elem) \ {{}}, sadd(d, k, members)
         PROVE  (StoreBecomes(d, s) /\ k \in DOMAIN s) \/ Puts(s)
    <2> DEFINE b == ObjectAt(s, k, "set", now)
               o == [b EXCEPT !.set = @ \cup members, !.lastAccessedAt = now]
    <2>1. o.lastAccessedAt = now
      BY ZenonT(30), <1>3
    <2>2. Upsert(d, k, Accepts(s, k, "set"), Put(s, k, o))
      BY ZenonT(30), <1>10 DEF sadd, WithMembers, s
    <2> HIDE DEF o
    <2> QED
      BY ZenonT(30), <1>1, <1>4, <2>1, <2>2
  <1>11. (StoreBecomes(d, s) /\ k \in DOMAIN s) \/ Puts(s) \/ Puts(values[d])
    <2> HIDE DEF Puts
    <2> QED
      BY ZenonT(30), <1>5, <1>6, <1>7, <1>8, <1>9, <1>10 DEF Writes, InPlaceWrite
  <1> QED
    BY ZenonT(30), <1>11 DEF s

\* Under allkeys-lru the key a write has just touched outlives every other key
\* that was last used earlier: the write evicts it only when it empties the store.
THEOREM LruTheorem == Spec => LruKeepsWritten
  <1>1. ASSUME IInv, NEW d \in Db, NEW k \in Key, evictionConfig.policy = "allkeys-lru",
               \A j \in DOMAIN values[d] \ {k} : EvictionRank(values[d][j], "allkeys-lru") < now,
               Writes(d, k)
        PROVE  k \in DOMAIN values'[d] \/ DOMAIN values'[d] = {}
    <2>1. CASE StoreBecomes(d, Found(d, k)) /\ k \in DOMAIN Found(d, k)
      BY Zenon, <1>1, <2>1 DEF StoreBecomes, IInv, TypeOK
    <2>2. \A s \in {values[d], Found(d, k)} :
            DOMAIN s \subseteq DOMAIN values[d] /\ \A j \in DOMAIN s : s[j] = values[d][j]
      BY Zenon DEF Found, Purged, Without
    <2>3. CASE \E s \in {values[d], Found(d, k)} : \E o :
                 o.lastAccessedAt = now /\ StoreBecomesEvicted(d, Put(s, k, o))
      BY ZenonT(30), <1>1, <2>2, <2>3, PutEvictedLast
    <2> QED
      BY Zenon, <1>1, <2>1, <2>3, WritesPut
  <1>2. IInv /\ [Next]_vars =>
          [\A d \in Db, k \in Key :
             /\ evictionConfig.policy = "allkeys-lru"
             /\ \A j \in DOMAIN values[d] \ {k} : EvictionRank(values[d][j], "allkeys-lru") < now
             /\ Writes(d, k)
             => k \in DOMAIN values'[d] \/ DOMAIN values'[d] = {}]_vars
    BY ZenonT(30), <1>1
  <1> QED
    BY <1>2, Invariance, PTL DEF Spec, LruKeepsWritten

=============================================================================
