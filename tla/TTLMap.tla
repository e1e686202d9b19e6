------------------------------- MODULE TTLMap -------------------------------
(***************************************************************************)
(* What the cache of internal/cache promises the code that calls it: a     *)
(* bounded map whose entries die of age.  Nothing is said here of the      *)
(* list or of which entry makes room for a new one; LRUCache is shown to   *)
(* implement this module.                                                  *)
(***************************************************************************)
EXTENDS Integers

CONSTANTS Keys, Values,
          Absent,      \* the content of the map at a key it does not hold
          NoValue,     \* the value of a reply that carries none
          Ttl,         \* 0: entries do not age
          Size(_),     \* how many keys a set of keys has
          Capacity

VARIABLES store,       \* store[k]: Absent, or the value and its last instant
          now,
          reply        \* the last operation and its result

mapVars == <<store, now, reply>>

Held == {k \in Keys : store[k] # Absent}

\* The entry at k may be handed out.
Servable(k) == k \in Held /\ (Ttl > 0 => now <= store[k].expiry)

Init ==
  /\ store = [k \in Keys |-> Absent]
  /\ now = 0
  /\ reply = [op |-> "none", key |-> Absent, value |-> NoValue]

Hit(k) ==
  /\ Servable(k)
  /\ reply' = [op |-> "hit", key |-> k, value |-> store[k].value]
  /\ UNCHANGED <<store, now>>

\* A miss is honest: the key is absent or its time has run out.
Miss(k) ==
  /\ ~Servable(k)
  /\ reply' = [op |-> "miss", key |-> k, value |-> NoValue]
  /\ store' = [store EXCEPT ![k] = Absent]
  /\ UNCHANGED now

\* A new key may push out one other entry, and only from a full map.
Put(k, v) ==
  /\ \E lost \in SUBSET (Held \ {k}) :
       /\ lost # {} => /\ k \notin Held
                       /\ Size(Held) >= Capacity
                       /\ \E victim \in Held : lost = {victim}
       /\ store' = [j \in Keys |->
                      IF j = k
                        THEN [value  |-> v,
                              expiry |-> IF Ttl > 0 THEN now + Ttl ELSE 0]
                        ELSE IF j \in lost THEN Absent ELSE store[j]]
  /\ reply' = [op |-> "set", key |-> k, value |-> v]
  /\ UNCHANGED now

\* Some keys leave the map together, no other entry changes.
Drop(ks) ==
  /\ store' = [j \in Keys |-> IF j \in ks THEN Absent ELSE store[j]]
  /\ reply' = [op |-> "drop", key |-> Absent, value |-> NoValue]
  /\ UNCHANGED now

Tick ==
  /\ now' = now + 1
  /\ UNCHANGED <<store, reply>>

Next ==
  \/ \E k \in Keys : Hit(k) \/ Miss(k)
  \/ \E k \in Keys, v \in Values : Put(k, v)
  \/ \E ks \in SUBSET Keys : Drop(ks)
  \/ Tick

Spec == Init /\ [][Next]_mapVars
=============================================================================
