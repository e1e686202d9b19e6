------------------------------ MODULE LRUCache ------------------------------
(***************************************************************************)
(* The TTL/LRU cache of internal/cache/cache.go: a map from keys to list   *)
(* elements and a list ordered by use, kept in step under one mutex.       *)
(*                                                                         *)
(* Every method holds c.mu from its first read to its return, so each      *)
(* outcome of a method is one action.  The exception is InvalidatePrefix,  *)
(* whose removal loop is modelled element by element: while it runs it     *)
(* holds the mutex, which is what sweep # {} says.                         *)
(***************************************************************************)
EXTENDS Integers, Sequences, FiniteSets, SequencesExt

CONSTANTS Keys, Values,
          NoKey, NoValue,     \* what a reply carries when it has none
          PrefixSets,         \* the sets of keys that share a prefix
          MaxEntries,         \* Config.MaxEntries, any integer
          DefaultMaxEntries,  \* 1000 in the code, small here
          Ttl,                \* Config.TTL in ticks, 0: no expiry
          MaxTime             \* bound of the clock, for TLC only

ASSUME CacheAssumption ==
  /\ NoKey \notin Keys
  /\ NoKey \notin [value : Values, expiry : Nat]
  /\ PrefixSets \subseteq SUBSET Keys
  /\ IsFiniteSet(Keys)
  /\ MaxEntries \in Int
  /\ DefaultMaxEntries \in Nat \ {0}
  /\ Ttl \in Nat
  /\ MaxTime \in Nat

VARIABLES entries,  \* keys of the map; its element is the one PosOf finds
          lru,      \* the list, least recently used first
          now,      \* time.Now()
          reply,    \* the last method that returned, and what
          sweep     \* keys InvalidatePrefix still has to remove

vars == <<entries, lru, now, reply, sweep>>

Element == [key : Keys, value : Values, expiry : Nat]
Reply == [op : {"none", "hit", "miss", "set", "drop"},
          key : Keys \cup {NoKey}, value : Values \cup {NoValue}]

-----------------------------------------------------------------------------
\* New: a limit that is not positive is replaced by the default.
Limit == IF MaxEntries <= 0 THEN DefaultMaxEntries ELSE MaxEntries

PosOf(k) == CHOOSE i \in 1..Len(lru) : lru[i].key = k

Expired(e) == Ttl > 0 /\ now > e.expiry

ExpiryOfNew == IF Ttl > 0 THEN now + Ttl ELSE 0

\* container/list: Remove, then PushBack of the element e.
MoveToBack(i, e) == Append(RemoveAt(lru, i), e)

Init ==
  /\ entries = {}
  /\ lru = <<>>
  /\ now = 0
  /\ reply = [op |-> "none", key |-> NoKey, value |-> NoValue]
  /\ sweep = {}

Answer(op, k, v) == reply' = [op |-> op, key |-> k, value |-> v]

\* Mutant: the element leaves the list, its key stays in the map.
RemoveFromListOnly(i) ==
  /\ lru' = RemoveAt(lru, i)
  /\ UNCHANGED entries

\* removeElement: the element leaves the list and its key the map.
RemoveElement(i) ==
  /\ lru' = RemoveAt(lru, i)
  /\ entries' = entries \ {lru[i].key}

-----------------------------------------------------------------------------
GetMiss(k) ==
  /\ sweep = {}
  /\ k \notin entries
  /\ Answer("miss", k, NoValue)
  /\ UNCHANGED <<entries, lru, now, sweep>>

GetExpired(k) ==
  /\ sweep = {}
  /\ k \in entries
  /\ Expired(lru[PosOf(k)])
  /\ RemoveElement(PosOf(k))
  /\ Answer("miss", k, NoValue)
  /\ UNCHANGED <<now, sweep>>

\* Mutant: a hit does not move the element to the back.
GetHitInPlace(k) ==
  /\ sweep = {}
  /\ k \in entries
  /\ ~Expired(lru[PosOf(k)])
  /\ Answer("hit", k, lru[PosOf(k)].value)
  /\ UNCHANGED <<entries, lru, now, sweep>>

GetHit(k) ==
  /\ sweep = {}
  /\ k \in entries
  /\ ~Expired(lru[PosOf(k)])
  /\ lru' = MoveToBack(PosOf(k), lru[PosOf(k)])
  /\ Answer("hit", k, lru[PosOf(k)].value)
  /\ UNCHANGED <<entries, now, sweep>>

Fresh(k, v) == [key |-> k, value |-> v, expiry |-> ExpiryOfNew]

\* Mutant: an overwrite keeps the expiry of the old value.
SetExistingKeepsExpiry(k, v) ==
  /\ sweep = {}
  /\ k \in entries
  /\ lru' = MoveToBack(PosOf(k), [lru[PosOf(k)] EXCEPT !.value = v])
  /\ Answer("set", k, v)
  /\ UNCHANGED <<entries, now, sweep>>

SetExisting(k, v) ==
  /\ sweep = {}
  /\ k \in entries
  /\ lru' = MoveToBack(PosOf(k), Fresh(k, v))
  /\ Answer("set", k, v)
  /\ UNCHANGED <<entries, now, sweep>>

SetNew(k, v) ==
  /\ sweep = {}
  /\ k \notin entries
  /\ IF Cardinality(entries) >= Limit
       THEN /\ lru' = Append(Tail(lru), Fresh(k, v))
            /\ entries' = (entries \ {Head(lru).key}) \cup {k}
       ELSE /\ lru' = Append(lru, Fresh(k, v))
            /\ entries' = entries \cup {k}
  /\ Answer("set", k, v)
  /\ UNCHANGED <<now, sweep>>

Invalidate(k) ==
  /\ sweep = {}
  /\ IF k \in entries
       THEN RemoveElement(PosOf(k))
       ELSE UNCHANGED <<entries, lru>>
  /\ Answer("drop", NoKey, NoValue)
  /\ UNCHANGED <<now, sweep>>

\* InvalidatePrefix takes the mutex and collects the elements to remove.
InvalidatePrefix(ks) ==
  /\ sweep = {}
  /\ sweep' = entries \cap ks
  /\ Answer("drop", NoKey, NoValue)
  /\ UNCHANGED <<entries, lru, now>>

\* Mutant: the loop forgets that it has removed the element.
SweepOneTwice(k) ==
  /\ k \in sweep
  /\ RemoveElement(PosOf(k))
  /\ UNCHANGED <<now, reply, sweep>>

\* Its loop removes them in the order of the map's iteration: any order.
SweepOne(k) ==
  /\ k \in sweep
  /\ RemoveElement(PosOf(k))
  /\ sweep' = sweep \ {k}
  /\ UNCHANGED <<now, reply>>

Tick ==
  /\ now < MaxTime
  /\ now' = now + 1
  /\ UNCHANGED <<entries, lru, reply, sweep>>

Next ==
  \/ \E k \in Keys : GetMiss(k) \/ GetExpired(k) \/ GetHit(k)
  \/ \E k \in Keys, v \in Values : SetExisting(k, v) \/ SetNew(k, v)
  \/ \E k \in Keys : Invalidate(k) \/ SweepOne(k)
  \/ \E ks \in PrefixSets : InvalidatePrefix(ks)
  \/ Tick

Spec == Init /\ [][Next]_vars

-----------------------------------------------------------------------------
TypeOK ==
  /\ entries \subseteq Keys
  /\ lru \in Seq(Element)
  /\ now \in Nat
  /\ reply \in Reply
  /\ sweep \subseteq entries

\* The map and the list hold the same keys, each once.
ListMatchesMap ==
  /\ \A i \in 1..Len(lru) : lru[i].key \in entries
  /\ \A k \in entries : \E i \in 1..Len(lru) : lru[i].key = k
  /\ \A i, j \in 1..Len(lru) : lru[i].key = lru[j].key => i = j

\* No sequence of calls makes the cache larger than its limit.
WithinLimit == Cardinality(entries) <= Limit

\* The map and the list never come apart, whatever order of hits, late
\* removals, overwrites, evictions and sweeps produced them, and they stay
\* within the limit New computed.
CacheConsistent == ListMatchesMap /\ WithinLimit

\* LRUCache implements TTLMap: what a caller sees is a map.  During a sweep
\* the keys still to be removed are already out of it, since the mutex
\* keeps everybody from looking.
StoreOf ==
  [k \in Keys |->
     IF k \in entries \ sweep
       THEN [value |-> lru[PosOf(k)].value, expiry |-> lru[PosOf(k)].expiry]
       ELSE NoKey]

Map == INSTANCE TTLMap WITH store <- StoreOf, Absent <- NoKey,
                            Size <- Cardinality, Capacity <- Limit

\* A hit returns the value last set, never after its time and never after an
\* invalidation; an entry is lost to a Set only when the cache is full, and
\* then exactly one.
ImplementsMap == Map!Spec
=============================================================================
