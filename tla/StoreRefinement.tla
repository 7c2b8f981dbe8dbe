-------------------------- MODULE StoreRefinement ---------------------------
(***************************************************************************)
(* DataStore implements Cache: the databases as clients see them are what  *)
(* is alive in the stores, without the times of creation and access.       *)
(***************************************************************************)
EXTENDS DataStore

Seen(o) ==
  [type |-> o.type, value |-> o.value, list |-> o.list, hash |-> o.hash, set |-> o.set,
   expiresAt |-> o.expiresAt]

View(s, at) == [k \in DOMAIN s \ Expired(s, at) |-> Seen(s[k])]

Entries == [d \in Db |-> View(values[d], now)]

Promise == INSTANCE Cache WITH entries <- Entries, policy <- evictionConfig.policy

\* The stores keep the promise of Cache: expired objects that wait to be freed,
\* lookups that free them, sweeps and access times are invisible; every method
\* changes only the keys it names and those the policy may evict.
ImplementsCache == Promise!CacheSpec

=============================================================================
