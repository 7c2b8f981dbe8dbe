---------------------------- MODULE EvictionLoop ----------------------------
(***************************************************************************)
(* evictIfNeededLocked as the loop it is, one evictOneLocked at a time:    *)
(* the reference for the closed form evictIfNeeded that the actions of     *)
(* DataStore use.                                                          *)
(***************************************************************************)
EXTENDS StoreOps

\* The keys evictOneLocked may choose: a candidate no other ranks below.  Which
\* of several it is depends on the order in which the table iterates.
evictOne(s, policy) ==
  LET cand == Candidates(s, policy)
  IN {k \in cand : \A j \in cand : EvictionRank(s[k], policy) <= EvictionRank(s[j], policy)}

\* The sets of keys that may be gone when the loop ends: from the keys gone so
\* far it ends there, or goes on with one key more.
Evicted(s, cfg) ==
  LET ends[gone \in SUBSET DOMAIN s] ==
        LET left == Without(s, gone)
            next == evictOne(left, cfg.policy)
        IN IF ~overEvictionLimit(left, cfg) \/ next = {}
           THEN {gone}
           ELSE UNION {ends[gone \cup {k}] : k \in next}
  IN ends[{}]

=============================================================================
