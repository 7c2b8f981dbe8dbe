------------------------------ MODULE StoreOps ------------------------------
(***************************************************************************)
(* The values a DataStore holds and what its methods compute from them,    *)
(* without the lock and without the threads: datastore/DataStore.{h,cpp}.  *)
(*                                                                         *)
(* A store (the map values_) is a function from the keys present to        *)
(* ValueObjects.  A string value is a sequence of chunks: SET stores one   *)
(* chunk, APPEND adds one, INCR stores a single integer chunk.  A chunk    *)
(* that is not an integer is an opaque member of Text.  List elements,     *)
(* hash values and set members are opaque members of Elem.                 *)
(***************************************************************************)
EXTENDS Integers, Sequences, FiniteSets, FiniteSetsExt

CONSTANTS
  Key,     \* the names of keys
  Text,    \* string chunks that parseInteger rejects
  Elem,    \* list elements, hash values and set members
  Field,   \* the fields of a hash
  Second   \* clock ticks in a second: 1000 in the code

ASSUME SecondAssumption == Second \in Nat \ {0}

\* "No deadline" in expiresAt, "never read" in lastAccessedAt.
Never == -1

\* Partial functions from D to R: the unordered_maps of the code.
Map(D, R) == UNION {[S -> R] : S \in SUBSET D}

DataType == {"string", "list", "hash", "set"}

ValueObject ==
  [value          : Seq(Int \cup Text),
   list           : Seq(Elem),
   hash           : Map(Field, Elem),
   set            : SUBSET Elem,
   type           : DataType,
   createdAt      : Int,
   expiresAt      : Int,
   lastAccessedAt : Int]

\* The payload of the object's own type and no other; no empty collection.
PayloadMatches(o) ==
  /\ o.type # "string" => o.value = <<>>
  /\ o.type = "list" <=> o.list # <<>>
  /\ o.type = "hash" <=> DOMAIN o.hash # {}
  /\ o.type = "set" <=> o.set # {}

IsStore(s) == DOMAIN s \subseteq Key /\ s \in [DOMAIN s -> ValueObject]

EmptyMap == [x \in {} |-> x]

-----------------------------------------------------------------------------
\* Maps.

Put(m, k, v) == [x \in DOMAIN m \cup {k} |-> IF x = k THEN v ELSE m[x]]

Without(m, K) == [x \in DOMAIN m \ K |-> m[x]]

-----------------------------------------------------------------------------
\* Expiry.  Every method looks its key up and erases it when its deadline has
\* passed before it does anything else; Purged is the store it then works on.

isExpired(o, now) == o.expiresAt # Never /\ o.expiresAt <= now

Expired(s, now) == {k \in DOMAIN s : isExpired(s[k], now)}

\* Slip: a lookup that forgets to ask isExpired.
PurgedNever(s, k, now) == s

Purged(s, k, now) == Without(s, {k} \cap Expired(s, now))

Deadline(ttl, now) == IF ttl >= 0 THEN now + ttl * Second ELSE Never

\* Slip: whole seconds, rounded down.
RemainingSecondsDown(o, now) == (o.expiresAt - now) \div Second

\* What TTL answers for a key with a deadline: whole seconds, rounded up.
RemainingSeconds(o, now) == (o.expiresAt - now + Second - 1) \div Second

-----------------------------------------------------------------------------
\* Eviction.

EvictionPolicy == {"none", "allkeys-lru", "volatile-lru", "ttl-priority", "random"}

estimateObjectBytes(o) ==
  1 + Len(o.value) + Len(o.list) + 2 * Cardinality(DOMAIN o.hash) + Cardinality(o.set)

overEvictionLimit(s, cfg) ==
  \/ cfg.maxKeys > 0 /\ Cardinality(DOMAIN s) > cfg.maxKeys
  \/ /\ cfg.maxMemoryBytes # 0
     /\ MapThenSumSet(LAMBDA k : estimateObjectBytes(s[k]), DOMAIN s) > cfg.maxMemoryBytes

\* Slip: ttl-priority finds no key to evict.
CandidatesNoTtlPriority(s, policy) ==
  CASE policy \in {"none", "ttl-priority"} -> {}
    [] policy \in {"allkeys-lru", "random"} -> DOMAIN s
    [] policy = "volatile-lru" -> {k \in DOMAIN s : s[k].expiresAt # Never}

\* The keys evictOneLocked may choose among, and the quantity it minimises.
Candidates(s, policy) ==
  CASE policy = "none" -> {}
    [] policy \in {"allkeys-lru", "random"} -> DOMAIN s
    [] policy \in {"volatile-lru", "ttl-priority"} -> {k \in DOMAIN s : s[k].expiresAt # Never}

EvictionRank(o, policy) ==
  CASE policy = "random" -> 0
    [] policy = "ttl-priority" -> o.expiresAt
    [] OTHER -> IF o.lastAccessedAt = Never THEN o.createdAt ELSE o.lastAccessedAt

\* Slip: one more key goes than the limits ask for.
evictIfNeededGreedy(s, cfg) ==
  LET cand == Candidates(s, cfg.policy)
      rank(k) == EvictionRank(s[k], cfg.policy)
  IN {E \in SUBSET cand : /\ \A e \in E, c \in cand \ E : rank(e) <= rank(c)
                          /\ E = cand \/ ~overEvictionLimit(Without(s, E), cfg)}

\* The sets of keys the loop of evictIfNeededLocked may erase.  It erases
\* candidates in the order of their rank (ties fall as the hash table iterates,
\* so any of them may go first) and stops when the store is within its limits
\* or has no candidate left: the last key went while the store was over a limit.
evictIfNeeded(s, cfg) ==
  LET cand == Candidates(s, cfg.policy)
      rank(k) == EvictionRank(s[k], cfg.policy)
  IN {E \in SUBSET cand :
        /\ \A e \in E, c \in cand \ E : rank(e) <= rank(c)
        /\ E = cand \/ ~overEvictionLimit(Without(s, E), cfg)
        /\ E # {} => \E e \in E :
                       /\ \A f \in E : rank(f) <= rank(e)
                       /\ overEvictionLimit(Without(s, E \ {e}), cfg)}
-----------------------------------------------------------------------------
\* The methods, as the store each leaves behind before eviction.  The store s
\* they are given has already lost the key when it had expired (Purged).

HasType(s, k, type) == k \in DOMAIN s /\ s[k].type = type

\* A write that creates its key or updates it in place fails on another type.
Accepts(s, k, type) == k \in DOMAIN s => s[k].type = type

Touched(s, k, now) == [s EXCEPT ![k].lastAccessedAt = now]

NewObject(type, now) ==
  [value |-> <<>>, list |-> <<>>, hash |-> EmptyMap, set |-> {}, type |-> type,
   createdAt |-> now, expiresAt |-> Never, lastAccessedAt |-> now]

\* Slip: a new object whose type is left at its default.
ObjectAtUntyped(s, k, type, now) == IF k \in DOMAIN s THEN s[k] ELSE NewObject("", now)

\* The object an upsert starts from: the one stored, or a new one.
ObjectAt(s, k, type, now) == IF k \in DOMAIN s THEN s[k] ELSE NewObject(type, now)

WithString(s, k, v, ttl, now) ==
  Put(s, k, [NewObject("string", now) EXCEPT !.value = <<v>>, !.expiresAt = Deadline(ttl, now)])

WithStrings(s, entries, now) ==
  [k \in DOMAIN s \cup DOMAIN entries |->
     IF k \in DOMAIN entries THEN [NewObject("string", now) EXCEPT !.value = <<entries[k]>>]
                             ELSE s[k]]

WithDeadline(s, k, at) == [s EXCEPT ![k].expiresAt = at]

\* parseInteger: the whole string is one integer.
IsInteger(v) == Len(v) = 1 /\ v[1] \notin Text

Incrementable(s, k) == k \in DOMAIN s => s[k].type = "string" /\ IsInteger(s[k].value)

CurrentInteger(s, k) == IF k \in DOMAIN s THEN s[k].value[1] ELSE 0

WithIncrement(s, k, delta, now) ==
  Put(s, k, [ObjectAt(s, k, "string", now) EXCEPT
               !.value = <<CurrentInteger(s, k) + delta>>, !.lastAccessedAt = now])

\* Slips: APPEND stores a new object as SET does; APPEND does not touch its key.
WithSuffixAnew(s, k, suffix, now) ==
  Put(s, k, [NewObject("string", now) EXCEPT
               !.value = Append(ObjectAt(s, k, "string", now).value, suffix)])

WithSuffixUntouched(s, k, suffix, now) ==
  Put(s, k, [ObjectAt(s, k, "string", now) EXCEPT !.value = Append(@, suffix)])

WithSuffix(s, k, suffix, now) ==
  Put(s, k, [ObjectAt(s, k, "string", now) EXCEPT
               !.value = Append(@, suffix), !.lastAccessedAt = now])

\* The sequence read from its end, and without its last element.  (As in
\* SequencesExt, which would also bring in what no module built on this uses.)
Reverse(elems) == [i \in 1 .. Len(elems) |-> elems[Len(elems) + 1 - i]]

Front(elems) == SubSeq(elems, 1, Len(elems) - 1)

\* LPUSH puts its arguments in front one by one, so the last ends up first.
WithHeads(s, k, elems, now) ==
  Put(s, k, [ObjectAt(s, k, "list", now) EXCEPT
               !.list = Reverse(elems) \o @, !.lastAccessedAt = now])

WithTails(s, k, elems, now) ==
  Put(s, k, [ObjectAt(s, k, "list", now) EXCEPT
               !.list = @ \o elems, !.lastAccessedAt = now])

\* Slip: the last element leaves an empty list behind.
WithRestKept(s, k, rest, now) == [s EXCEPT ![k].list = rest, ![k].lastAccessedAt = now]

\* LPOP and RPOP: a list that becomes empty takes its key with it.
WithRest(s, k, rest, now) ==
  IF rest = <<>> THEN Without(s, {k})
                 ELSE [s EXCEPT ![k].list = rest, ![k].lastAccessedAt = now]

WithField(s, k, field, elem, now) ==
  Put(s, k, [ObjectAt(s, k, "hash", now) EXCEPT
               !.hash = Put(@, field, elem), !.lastAccessedAt = now])

WithoutField(s, k, field, now) ==
  IF DOMAIN s[k].hash \subseteq {field}
  THEN Without(s, {k})
  ELSE [s EXCEPT ![k].hash = Without(@, {field}), ![k].lastAccessedAt = now]

WithMembers(s, k, members, now) ==
  Put(s, k, [ObjectAt(s, k, "set", now) EXCEPT
               !.set = @ \cup members, !.lastAccessedAt = now])

WithoutMembers(s, k, members, now) ==
  IF s[k].set \subseteq members
  THEN Without(s, {k})
  ELSE [s EXCEPT ![k].set = @ \ members, ![k].lastAccessedAt = now]

\* Slip: the destination keeps the deadline of what it held.
RenamedInto(s, source, destination, now) ==
  Without(Put(s, destination,
              [s[source] EXCEPT !.lastAccessedAt = now,
                                !.expiresAt = IF destination \in DOMAIN s
                                              THEN s[destination].expiresAt ELSE Never]), {source})

Renamed(s, source, destination, now) ==
  Without(Put(s, destination, [s[source] EXCEPT !.lastAccessedAt = now]), {source})

\* Indices are 0-based as in the code; <<1, 0>> is the empty range.
normalizeRange(start, stop, size) ==
  LET from == IF start < 0 THEN size + start ELSE start
      to   == IF stop < 0 THEN size + stop ELSE stop
      lo   == IF from < 0 THEN 0 ELSE from
      hi   == IF to > size - 1 THEN size - 1 ELSE to
  IN IF size = 0 \/ lo > hi \/ lo >= size THEN <<1, 0>> ELSE <<lo, hi>>

=============================================================================
