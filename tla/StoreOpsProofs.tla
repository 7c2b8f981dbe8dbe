--------------------------- MODULE StoreOpsProofs ---------------------------
(***************************************************************************)
(* Facts about the operators of StoreOps, for every set of keys and        *)
(* values: what each method makes of a well-formed store.  The proofs      *)
(* about DataStore and Persistence share them.                             *)
(***************************************************************************)
EXTENDS StoreOps, NaturalsInduction, WellFoundedInduction, TLAPS

\* An object of the right type whose payload matches it, and a store of such
\* objects: what every method is given and leaves behind.
GoodObject(o) == o \in ValueObject /\ PayloadMatches(o)

GoodStore(s) == IsStore(s) /\ \A k \in DOMAIN s : PayloadMatches(s[k])

\* The empty map is a map.
LEMMA EmptyMapType == \A D, R : EmptyMap \in Map(D, R) /\ DOMAIN EmptyMap = {}
  BY DEF EmptyMap, Map

\* Partial functions, without the UNION.
LEMMA MapDef == ASSUME NEW D, NEW R, NEW m
                PROVE  m \in Map(D, R) <=> m \in [DOMAIN m -> R] /\ DOMAIN m \subseteq D
  BY DEF Map

\* Storing a good object keeps a store good.
LEMMA GoodPut ==
  ASSUME NEW s, GoodStore(s), NEW k \in Key, NEW o, GoodObject(o)
  PROVE  GoodStore(Put(s, k, o))
  BY DEF GoodStore, GoodObject, IsStore, Put

\* Erasing keys keeps a store good.
LEMMA GoodWithout ==
  ASSUME NEW s, GoodStore(s), NEW K
  PROVE  GoodStore(Without(s, K))
  BY DEF GoodStore, IsStore, Without

\* Replacing an object by a good one keeps a store good.
LEMMA GoodExcept ==
  ASSUME NEW s, GoodStore(s), NEW k \in DOMAIN s, NEW o, GoodObject(o)
  PROVE  GoodStore([s EXCEPT ![k] = o])
  BY DEF GoodStore, GoodObject, IsStore

\* Timestamps may change freely.
LEMMA GoodTimes ==
  ASSUME NEW o, GoodObject(o), NEW t \in Int
  PROVE  /\ GoodObject([o EXCEPT !.lastAccessedAt = t])
         /\ GoodObject([o EXCEPT !.expiresAt = t])
  BY DEF GoodObject, ValueObject, PayloadMatches

\* Reads and EXPIRE change times only.
LEMMA GoodTouched ==
  ASSUME NEW s, GoodStore(s), NEW k \in DOMAIN s, NEW t \in Int
  PROVE  /\ GoodStore(Touched(s, k, t)) /\ DOMAIN Touched(s, k, t) = DOMAIN s
         /\ GoodStore(WithDeadline(s, k, t)) /\ DOMAIN WithDeadline(s, k, t) = DOMAIN s
  BY GoodTimes DEF GoodStore, GoodObject, IsStore, Touched, WithDeadline

\* Deadlines are computed within the integers.
LEMMA DeadlineType ==
  ASSUME NEW t \in Int, NEW seconds \in Int
  PROVE  Deadline(seconds, t) \in Int /\ t + seconds * Second \in Int
  <1>1. seconds * Second \in Int
    BY SecondAssumption
  <1> QED
    BY <1>1 DEF Deadline, Never

\* A new object has every field of a ValueObject.
LEMMA NewObjectType ==
  ASSUME NEW ty \in DataType, NEW t \in Int
  PROVE  NewObject(ty, t) \in ValueObject
  <1>1. EmptyMap \in Map(Field, Elem)
    BY EmptyMapType
  <1> QED
    BY <1>1 DEF NewObject, ValueObject, Never

\* The string objects SET and MSET store are good.
LEMMA GoodNew ==
  ASSUME NEW t \in Int, NEW at \in Int, NEW v \in Int \cup Text
  PROVE  /\ GoodObject([NewObject("string", t) EXCEPT !.value = <<v>>, !.expiresAt = at])
         /\ GoodObject([NewObject("string", t) EXCEPT !.value = <<v>>])
  <1>1. NewObject("string", t) \in ValueObject
    BY NewObjectType DEF DataType
  <1>2. /\ NewObject("string", t).list = <<>>
        /\ NewObject("string", t).hash = EmptyMap
        /\ NewObject("string", t).set = {}
        /\ NewObject("string", t).type = "string"
    BY DEF NewObject
  <1>3. <<v>> \in Seq(Int \cup Text)
    OBVIOUS
  <1> HIDE DEF NewObject
  <1> QED
    BY ZenonT(30), <1>1, <1>2, <1>3, EmptyMapType DEF GoodObject, ValueObject, PayloadMatches

-----------------------------------------------------------------------------
\* What each method makes of a good store.

\* SET leaves a good store.
LEMMA GoodWithString ==
  ASSUME NEW s, GoodStore(s), NEW k \in Key, NEW v \in Int \cup Text,
         NEW seconds \in Int, NEW t \in Int
  PROVE  GoodStore(WithString(s, k, v, seconds, t))
  BY ZenonT(30), GoodPut, GoodNew, DeadlineType DEF WithString

\* MSET leaves a good store.
LEMMA GoodWithStrings ==
  ASSUME NEW s, GoodStore(s), NEW K \in SUBSET Key, NEW entries \in [K -> Text], NEW t \in Int
  PROVE  GoodStore(WithStrings(s, entries, t))
  <1>1. \A k \in K : GoodObject([NewObject("string", t) EXCEPT !.value = <<entries[k]>>])
    <2> SUFFICES ASSUME NEW k \in K
                 PROVE  GoodObject([NewObject("string", t) EXCEPT !.value = <<entries[k]>>])
      OBVIOUS
    <2>1. entries[k] \in Int \cup Text /\ 0 \in Int
      OBVIOUS
    <2> QED
      BY ZenonT(30), <2>1, GoodNew
  <1> QED
    BY SMTT(30), <1>1 DEF WithStrings, GoodStore, GoodObject, IsStore

\* The object an upsert of type ty starts from has no payload of another type.
LEMMA UpsertBase ==
  ASSUME NEW s, GoodStore(s), NEW k \in Key, NEW ty \in DataType, Accepts(s, k, ty), NEW t \in Int
  PROVE  LET o == ObjectAt(s, k, ty, t)
         IN /\ o \in ValueObject /\ o.type = ty
            /\ ty # "string" => o.value = <<>>
            /\ ty # "list" => o.list = <<>>
            /\ ty # "hash" => DOMAIN o.hash = {}
            /\ ty # "set" => o.set = {}
  <1>1. CASE k \in DOMAIN s
    BY <1>1 DEF ObjectAt, Accepts, GoodStore, IsStore, PayloadMatches
  <1>2. CASE k \notin DOMAIN s
    <2>1. ObjectAt(s, k, ty, t) = NewObject(ty, t)
      BY <1>2 DEF ObjectAt
    <2>2. NewObject(ty, t) \in ValueObject
      BY NewObjectType
    <2> QED
      BY <2>1, <2>2, EmptyMapType DEF NewObject
  <1> QED
    BY <1>1, <1>2

\* INCR leaves a good store.
LEMMA GoodWithIncrement ==
  ASSUME NEW s, GoodStore(s), NEW k \in Key, Incrementable(s, k), NEW delta \in Int, NEW t \in Int
  PROVE  GoodStore(WithIncrement(s, k, delta, t))
  <1> DEFINE o == ObjectAt(s, k, "string", t)
             n == CurrentInteger(s, k) + delta
  <1>1. Accepts(s, k, "string")
    BY DEF Incrementable, Accepts
  <1>2. CurrentInteger(s, k) \in Int
    <2>1. CASE k \in DOMAIN s
      <3>1. s[k].value \in Seq(Int \cup Text) /\ IsInteger(s[k].value)
        BY <2>1 DEF GoodStore, IsStore, ValueObject, Incrementable
      <3> QED
        BY <2>1, <3>1 DEF IsInteger, CurrentInteger
    <2> QED
      BY <2>1 DEF CurrentInteger
  <1>3. <<n>> \in Seq(Int \cup Text)
    BY <1>2
  <1>4. /\ o \in ValueObject /\ o.type = "string" /\ o.list = <<>>
        /\ DOMAIN o.hash = {} /\ o.set = {}
    BY <1>1, UpsertBase DEF DataType
  <1>5. GoodObject([o EXCEPT !.value = <<n>>, !.lastAccessedAt = t])
    <2> HIDE DEF o, n
    <2> QED
      BY ZenonT(30), <1>3, <1>4 DEF GoodObject, ValueObject, PayloadMatches
  <1> QED
    BY <1>5, GoodPut DEF WithIncrement

\* APPEND leaves a good store.
LEMMA GoodWithSuffix ==
  ASSUME NEW s, GoodStore(s), NEW k \in Key, Accepts(s, k, "string"), NEW v \in Text, NEW t \in Int
  PROVE  GoodStore(WithSuffix(s, k, v, t))
  <1> DEFINE o == ObjectAt(s, k, "string", t)
  <1>1. /\ o \in ValueObject /\ o.type = "string" /\ o.list = <<>>
        /\ DOMAIN o.hash = {} /\ o.set = {}
    BY UpsertBase DEF DataType
  <1> HIDE DEF o
  <1>2. o.value \in Seq(Int \cup Text)
    BY <1>1 DEF ValueObject
  <1>3. Append(o.value, v) \in Seq(Int \cup Text)
    BY <1>2
  <1>4. GoodObject([o EXCEPT !.value = Append(o.value, v), !.lastAccessedAt = t])
    BY ZenonT(30), <1>1, <1>3 DEF GoodObject, ValueObject, PayloadMatches
  <1> QED
    BY <1>4, GoodPut DEF WithSuffix, o

\* The arguments of LPUSH, reversed, are as many elements.
LEMMA ReverseType ==
  ASSUME NEW e \in Seq(Elem)
  PROVE  Reverse(e) \in Seq(Elem) /\ Len(Reverse(e)) = Len(e)
  BY DEF Reverse

\* LPUSH and RPUSH leave a good store: the list has at least the new elements.
LEMMA GoodWithHeadsAndTails ==
  ASSUME NEW s, GoodStore(s), NEW k \in Key, Accepts(s, k, "list"),
         NEW elems \in Seq(Elem), elems # <<>>, NEW t \in Int
  PROVE  GoodStore(WithHeads(s, k, elems, t)) /\ GoodStore(WithTails(s, k, elems, t))
  <1> DEFINE o == ObjectAt(s, k, "list", t)
  <1>1. /\ o \in ValueObject /\ o.type = "list" /\ o.value = <<>>
        /\ DOMAIN o.hash = {} /\ o.set = {}
    BY UpsertBase DEF DataType
  <1> HIDE DEF o
  <1>2. o.list \in Seq(Elem)
    BY <1>1 DEF ValueObject
  <1>3. \A l \in Seq(Elem) : l # <<>> => GoodObject([o EXCEPT !.list = l, !.lastAccessedAt = t])
    BY ZenonT(30), <1>1 DEF GoodObject, ValueObject, PayloadMatches
  <1>4. /\ Reverse(elems) \o o.list \in Seq(Elem) /\ Reverse(elems) \o o.list # <<>>
        /\ o.list \o elems \in Seq(Elem) /\ o.list \o elems # <<>>
    <2>1. Reverse(elems) \in Seq(Elem) /\ Len(Reverse(elems)) > 0
      BY ReverseType
    <2> QED
      BY <1>2, <2>1
  <1> QED
    BY ZenonT(30), <1>3, <1>4, GoodPut DEF WithHeads, WithTails, o

\* HSET leaves a good store: the hash has at least the new field.
LEMMA GoodWithField ==
  ASSUME NEW s, GoodStore(s), NEW k \in Key, Accepts(s, k, "hash"),
         NEW field \in Field, NEW elem \in Elem, NEW t \in Int
  PROVE  GoodStore(WithField(s, k, field, elem, t))
  <1> DEFINE o == ObjectAt(s, k, "hash", t)
             h == Put(o.hash, field, elem)
  <1>1. /\ o \in ValueObject /\ o.type = "hash" /\ o.value = <<>> /\ o.list = <<>> /\ o.set = {}
    BY UpsertBase DEF DataType
  <1> HIDE DEF o
  <1>2. o.hash \in Map(Field, Elem)
    BY <1>1 DEF ValueObject
  <1>3. o.hash \in [DOMAIN o.hash -> Elem] /\ DOMAIN o.hash \subseteq Field
    BY <1>2, MapDef
  <1>4. h \in [DOMAIN h -> Elem] /\ DOMAIN h \subseteq Field /\ DOMAIN h # {}
    BY <1>3 DEF Put
  <1>5. h \in Map(Field, Elem)
    BY <1>4, MapDef
  <1>6. GoodObject([o EXCEPT !.hash = h, !.lastAccessedAt = t])
    <2> HIDE DEF h
    <2> QED
      BY ZenonT(30), <1>1, <1>4, <1>5 DEF GoodObject, ValueObject, PayloadMatches
  <1> QED
    BY <1>6, GoodPut DEF WithField, o

\* SADD leaves a good store: the set has at least the new members.
LEMMA GoodWithMembers ==
  ASSUME NEW s, GoodStore(s), NEW k \in Key, Accepts(s, k, "set"),
         NEW members \in SUBSET Elem, members # {}, NEW t \in Int
  PROVE  GoodStore(WithMembers(s, k, members, t))
  <1> DEFINE o == ObjectAt(s, k, "set", t)
  <1>1. /\ o \in ValueObject /\ o.type = "set" /\ o.value = <<>> /\ o.list = <<>>
        /\ DOMAIN o.hash = {}
    BY UpsertBase DEF DataType
  <1> HIDE DEF o
  <1>2. o.set \cup members \in SUBSET Elem /\ o.set \cup members # {}
    BY <1>1 DEF ValueObject
  <1>3. GoodObject([o EXCEPT !.set = o.set \cup members, !.lastAccessedAt = t])
    BY ZenonT(30), <1>1, <1>2 DEF GoodObject, ValueObject, PayloadMatches
  <1> QED
    BY <1>3, GoodPut DEF WithMembers, o

\* The removals: the branch that keeps the key leaves a payload behind.
LEMMA GoodWithRest ==
  ASSUME NEW s, GoodStore(s), NEW k, HasType(s, k, "list"), NEW rest \in Seq(Elem), NEW t \in Int
  PROVE  GoodStore(WithRest(s, k, rest, t))
  <1>1. k \in DOMAIN s /\ GoodObject(s[k]) /\ s[k].type = "list"
    BY DEF HasType, GoodStore, IsStore, GoodObject
  <1>2. ASSUME rest # <<>>
        PROVE  GoodObject([s[k] EXCEPT !.list = rest, !.lastAccessedAt = t])
    BY ZenonT(30), <1>1, <1>2 DEF GoodObject, ValueObject, PayloadMatches
  <1>3. [s EXCEPT ![k].list = rest, ![k].lastAccessedAt = t]
          = [s EXCEPT ![k] = [s[k] EXCEPT !.list = rest, !.lastAccessedAt = t]]
    BY ZenonT(30), <1>1 DEF GoodStore, IsStore
  <1> QED
    BY <1>1, <1>2, <1>3, GoodWithout, GoodExcept DEF WithRest

\* HDEL leaves a good store: the last field takes the key with it.
LEMMA GoodWithoutField ==
  ASSUME NEW s, GoodStore(s), NEW k, HasType(s, k, "hash"), NEW field \in Field, NEW t \in Int
  PROVE  GoodStore(WithoutField(s, k, field, t))
  <1> DEFINE h == Without(s[k].hash, {field})
  <1>1. k \in DOMAIN s /\ GoodObject(s[k]) /\ s[k].type = "hash"
    BY DEF HasType, GoodStore, IsStore, GoodObject
  <1>2. s[k].hash \in [DOMAIN s[k].hash -> Elem] /\ DOMAIN s[k].hash \subseteq Field
    BY <1>1, MapDef DEF GoodObject, ValueObject
  <1>3. /\ h \in [DOMAIN h -> Elem] /\ DOMAIN h \subseteq Field
        /\ ~(DOMAIN s[k].hash \subseteq {field}) => DOMAIN h # {}
    BY <1>2 DEF Without
  <1>4. h \in Map(Field, Elem)
    BY ZenonT(30), <1>3, MapDef
  <1>5. ASSUME ~(DOMAIN s[k].hash \subseteq {field})
        PROVE  GoodObject([s[k] EXCEPT !.hash = h, !.lastAccessedAt = t])
    <2>1. DOMAIN h # {}
      BY <1>3, <1>5
    <2> HIDE DEF h
    <2> QED
      BY ZenonT(30), <1>1, <1>4, <2>1 DEF GoodObject, ValueObject, PayloadMatches
  <1>6. [s EXCEPT ![k].hash = h, ![k].lastAccessedAt = t]
          = [s EXCEPT ![k] = [s[k] EXCEPT !.hash = h, !.lastAccessedAt = t]]
    <2> HIDE DEF h
    <2> QED
      BY ZenonT(30), <1>1 DEF GoodStore, IsStore
  <1> QED
    BY <1>1, <1>5, <1>6, GoodWithout, GoodExcept DEF WithoutField

\* SREM leaves a good store: the last member takes the key with it.
LEMMA GoodWithoutMembers ==
  ASSUME NEW s, GoodStore(s), NEW k, HasType(s, k, "set"), NEW members, NEW t \in Int
  PROVE  GoodStore(WithoutMembers(s, k, members, t))
  <1> DEFINE m == s[k].set \ members
  <1>1. k \in DOMAIN s /\ GoodObject(s[k]) /\ s[k].type = "set"
    BY DEF HasType, GoodStore, IsStore, GoodObject
  <1>2. m \in SUBSET Elem
    BY <1>1 DEF GoodObject, ValueObject
  <1>3. ASSUME ~(s[k].set \subseteq members)
        PROVE  GoodObject([s[k] EXCEPT !.set = m, !.lastAccessedAt = t])
    <2>1. m # {}
      BY <1>3
    <2> HIDE DEF m
    <2> QED
      BY ZenonT(30), <1>1, <1>2, <2>1 DEF GoodObject, ValueObject, PayloadMatches
  <1>4. [s EXCEPT ![k].set = m, ![k].lastAccessedAt = t]
          = [s EXCEPT ![k] = [s[k] EXCEPT !.set = m, !.lastAccessedAt = t]]
    <2> HIDE DEF m
    <2> QED
      BY ZenonT(30), <1>1 DEF GoodStore, IsStore
  <1> QED
    BY <1>1, <1>3, <1>4, GoodWithout, GoodExcept DEF WithoutMembers

\* RENAME leaves a good store.
LEMMA GoodRenamed ==
  ASSUME NEW s, GoodStore(s), NEW j \in DOMAIN s, NEW k \in Key, NEW t \in Int
  PROVE  GoodStore(Renamed(s, j, k, t))
  <1>1. GoodObject([s[j] EXCEPT !.lastAccessedAt = t])
    BY ZenonT(30), GoodTimes DEF GoodStore, IsStore, GoodObject
  <1> QED
    BY <1>1, GoodPut, GoodWithout DEF Renamed

\* flushdb leaves a good store.
LEMMA EmptyGood == GoodStore(EmptyMap)
  <1>1. EmptyMap \in Map(Key, ValueObject) /\ DOMAIN EmptyMap = {}
    BY EmptyMapType
  <1> QED
    BY <1>1, MapDef DEF GoodStore, IsStore

-----------------------------------------------------------------------------
\* Induction.

\* A set of naturals that is not empty has a least element.
LEMMA Least ==
  ASSUME NEW T, T \subseteq Nat, T # {}
  PROVE  \E x \in T : \A y \in T : x <= y
  <1> DEFINE R == {pair \in Nat \X Nat : pair[1] < pair[2]}
  <1>1. IsWellFoundedOn(R, Nat)
    BY NatLessThanWellFounded DEF OpToRel
  <1> HIDE DEF R
  <1>2. PICK x \in T : \A y \in T : <<y, x>> \notin R
    BY ZenonT(30), <1>1, WFMin
  <1>3. ASSUME NEW y \in T
        PROVE  x <= y
    <2>1. <<y, x>> \in Nat \X Nat /\ <<y, x>>[1] = y /\ <<y, x>>[2] = x
      OBVIOUS
    <2>2. ~(y < x)
      BY Zenon, <1>2, <2>1 DEF R
    <2> QED
      BY <2>2
  <1> QED
    BY <1>3

\* Induction over the naturals, for a property given as the set where it holds.
LEMMA Induction ==
  ASSUME NEW T, 0 \in T, \A n \in Nat : n \in T => n + 1 \in T
  PROVE  Nat \subseteq T
  <1> SUFFICES ASSUME Nat \ T # {}
               PROVE  FALSE
    OBVIOUS
  <1>1. PICK m \in Nat \ T : \A n \in Nat \ T : m <= n
    BY ZenonT(30), Least
  <1>2. m - 1 \in Nat /\ m - 1 \in T /\ (m - 1) + 1 = m
    BY <1>1
  <1> QED
    BY <1>2

=============================================================================
