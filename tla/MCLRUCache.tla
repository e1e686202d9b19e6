----------------------------- MODULE MCLRUCache -----------------------------
(***************************************************************************)
(* LRUCache on a small instance, with a history variable that remembers    *)
(* the order of uses independently of the list.                            *)
(***************************************************************************)
EXTENDS LRUCache

VARIABLE older  \* <<j, k>>: the last use of j came before that of k

MCPrefixSets == {s \in SUBSET Keys : Cardinality(s) = 2}

hvars == <<entries, lru, now, reply, sweep, older>>

HInit == Init /\ older = {}

\* A hit and a Set are uses; a miss, an Invalidate and a sweep are not.
Used(k) == {p \in older : p[1] # k} \cup {<<j, k>> : j \in Keys \ {k}}

HNext ==
  \/ \E k \in Keys :
       /\ GetMiss(k) \/ GetExpired(k) \/ Invalidate(k) \/ SweepOne(k)
       /\ UNCHANGED older
  \/ \E k \in Keys : GetHit(k) /\ older' = Used(k)
  \/ \E k \in Keys, v \in Values :
       (SetExisting(k, v) \/ SetNew(k, v)) /\ older' = Used(k)
  \/ \E ks \in PrefixSets : InvalidatePrefix(ks) /\ UNCHANGED older
  \/ Tick /\ UNCHANGED older

HSpec == HInit /\ [][HNext]_hvars

\* cache.go:4 calls the cache an LRU cache.  The entry a Set pushes out was
\* used before every entry that stays: a hit on an old entry protects it, an
\* overwrite does, a miss or the removal of another key does not.
EvictsLeastRecentlyUsed ==
  [][\A k \in entries \ entries' :
       reply'.op = "set" => \A j \in entries \cap entries' : <<k, j>> \in older]_hvars
=============================================================================
