---------------------------- MODULE MCDataStore -----------------------------
(***************************************************************************)
(* Instances of DataStore for TLC: the configurations a run starts from,   *)
(* and the closed form of eviction compared with its loop.                 *)
(***************************************************************************)
EXTENDS StoreRefinement, EvictionLoop, TLC

Config(policy, keys, bytes) == [policy |-> policy, maxKeys |-> keys, maxMemoryBytes |-> bytes]

TtlNoneOne == {-1, 1}

TtlNoneZeroOne == {-1, 0, 1}

\* No limit; or one of two keys fits, or one object of two units beside one of one.
EveryPolicy ==
  {Config("none", 0, 0)} \cup
  {Config(p, 1, 0) : p \in EvictionPolicy \ {"none", "random"}} \cup
  {Config(p, 0, 4) : p \in {"allkeys-lru", "random"}}

OneKey == {Config("allkeys-lru", 1, 0)}

MemoryLimit == {Config(p, 0, 3) : p \in {"random", "ttl-priority"}}

Symmetry == Permutations(Key)

\* Strings of one chunk, used and expiring at various times.
Samples ==
  {[NewObject("string", at) EXCEPT !.value = <<0>>, !.expiresAt = deadline] :
     at \in {0, 1}, deadline \in {Never, 1}}

\* The closed form gives exactly the outcomes of the loop, for the store as it is
\* now, for that store with one more key, and for limits that make the loop erase
\* several keys, under every policy.
EvictionLoopAgrees ==
  \A d \in Db, p \in EvictionPolicy :
    \A limit \in {<<1, 0>>, <<2, 3>>} :
      \A s \in {values[d]} \cup {Put(values[d], "another", o) : o \in Samples} :
        LET cfg == Config(p, limit[1], limit[2])
        IN evictIfNeeded(s, cfg) = Evicted(s, cfg)

=============================================================================
