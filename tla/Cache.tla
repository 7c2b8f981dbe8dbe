------------------------------- MODULE Cache --------------------------------
(***************************************************************************)
(* What the databases promise to their clients.                            *)
(*                                                                         *)
(* A database is a map from the keys that are alive to what a client can   *)
(* read of them: type, payload and deadline.  A key is gone at the instant *)
(* its deadline passes.  A command changes the keys it names and no other, *)
(* except that the eviction policy may take keys it is allowed to take     *)
(* from the database the command wrote to.  Reads, sweeps and snapshots    *)
(* change nothing.  When an object was created and last used is not part   *)
(* of the promise, nor is when an expired object is freed.                 *)
(***************************************************************************)
EXTENDS Integers

CONSTANTS
  Key,     \* the names of keys
  Text,    \* string chunks that are not integers
  Db,      \* indices of the logical databases
  Ttl,     \* seconds given to SET ... EX (-1: none) and EXPIRE
  Second   \* clock ticks in a second

VARIABLES
  entries,  \* per database, the keys that are alive and what they hold
  policy,   \* the eviction policy
  now       \* the clock

cacheVars == <<entries, policy, now>>

\* "No deadline" in expiresAt.
Never == -1

Nothing == [k \in {} |-> k]

With(s, k, o) == [x \in DOMAIN s \cup {k} |-> IF x = k THEN o ELSE s[x]]

Minus(s, k) == [x \in DOMAIN s \ {k} |-> s[x]]

StringEntry(v, at) ==
  [type |-> "string", value |-> <<v>>, list |-> <<>>, hash |-> Nothing, set |-> {},
   expiresAt |-> at]

Deadline(seconds) == IF seconds >= 0 THEN now + seconds * Second ELSE Never

\* What is left of s at an instant.
Overdue(s, at) == {k \in DOMAIN s : s[k].expiresAt # Never /\ s[k].expiresAt <= at}

Alive(s, at) == [k \in DOMAIN s \ Overdue(s, at) |-> s[k]]

\* A key the policy may evict.
Evictable(o) ==
  \/ policy \in {"allkeys-lru", "random"}
  \/ policy \in {"volatile-lru", "ttl-priority"} /\ o.expiresAt # Never

\* Of s, the map t keeps all but keys that could be evicted.
SurvivesFrom(t, s) ==
  /\ DOMAIN t \subseteq DOMAIN s
  /\ \A k \in DOMAIN t : t[k] = s[k]
  /\ \A k \in DOMAIN s \ DOMAIN t : Evictable(s[k])

-----------------------------------------------------------------------------
\* What a command makes of a database: t after it, when it was s.

\* SET: whatever the key held is replaced, its deadline included.
Assigned(s, t, k, v, seconds) ==
  SurvivesFrom(t, Alive(With(s, k, StringEntry(v, Deadline(seconds))), now))

\* MSET
AllAssigned(s, t, strings) ==
  SurvivesFrom(t, [k \in DOMAIN s \cup DOMAIN strings |->
                     IF k \in DOMAIN strings THEN StringEntry(strings[k], Never) ELSE s[k]])

\* INCR, APPEND, pushes, pops, HSET, HDEL, SADD, SREM: a key that was there
\* keeps its type and its deadline, a new one has no deadline.
Updated(s, t, k) ==
  /\ k \in DOMAIN t
  /\ IF k \in DOMAIN s THEN t[k].type = s[k].type /\ t[k].expiresAt = s[k].expiresAt
                        ELSE t[k].expiresAt = Never
  /\ SurvivesFrom(t, With(s, k, t[k]))

\* The same when the key is evicted at once.
UpdatedAndLost(s, t, k) ==
  /\ k \notin DOMAIN t
  /\ k \notin DOMAIN s => policy \in {"allkeys-lru", "random"}
  /\ SurvivesFrom(t, s)

\* DEL, and removals that empty a collection.
Erased(s, t, k) == k \in DOMAIN s /\ SurvivesFrom(t, Minus(s, k))

\* EXPIRE and PERSIST
Redeadlined(s, t, k, at) ==
  k \in DOMAIN s /\ SurvivesFrom(t, Alive([s EXCEPT ![k].expiresAt = at], now))

\* RENAME
Carried(s, t, k, j) ==
  k \in DOMAIN s /\ k # j /\ SurvivesFrom(t, Minus(With(s, j, s[k]), k))

KeyChanged(s, t, k) ==
  \/ Updated(s, t, k) \/ UpdatedAndLost(s, t, k) \/ Erased(s, t, k)
  \/ \E v \in Text \cup {0}, seconds \in Ttl : Assigned(s, t, k, v, seconds)
  \/ \E at \in {Never} \cup {now + seconds * Second : seconds \in Ttl \cap Nat} :
       Redeadlined(s, t, k, at)
  \/ \E j \in Key : Carried(s, t, k, j)

-----------------------------------------------------------------------------

CacheInit ==
  /\ entries = [d \in Db |-> Nothing]
  /\ now = 0

Passes ==
  /\ now' = now + 1
  /\ entries' = [d \in Db |-> Alive(entries[d], now')]
  /\ UNCHANGED policy

\* A command on one database; FLUSHDB leaves it empty.
Command(d) ==
  LET s == entries[d]
      t == entries'[d]
  IN /\ UNCHANGED <<policy, now>>
     /\ \A e \in Db \ {d} : entries'[e] = entries[e]
     /\ \/ t = Nothing
        \/ \E k \in Key : KeyChanged(s, t, k)
        \/ \E K \in (SUBSET Key) \ {{}} : \E strings \in [K -> Text] : AllAssigned(s, t, strings)

\* MOVE: the key leaves one database as it arrives in the other.
Move(d, k, e) ==
  /\ UNCHANGED <<policy, now>>
  /\ d # e /\ k \in DOMAIN entries[d] /\ k \notin DOMAIN entries[e]
  /\ entries'[d] = Minus(entries[d], k)
  /\ SurvivesFrom(entries'[e], With(entries[e], k, entries[d][k]))
  /\ \A f \in Db \ {d, e} : entries'[f] = entries[f]

CacheNext ==
  \/ Passes
  \/ \E d \in Db : Command(d)
  \/ \E d, e \in Db, k \in Key : Move(d, k, e)

CacheSpec == CacheInit /\ [][CacheNext]_cacheVars

=============================================================================
