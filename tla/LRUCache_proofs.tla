-------------------------- MODULE LRUCache_proofs --------------------------
(***************************************************************************)
(* The map and the list of the cache stay in step, the cache is a bounded  *)
(* map with expiry, and what it evicts is what was used longest ago, for   *)
(* every set of keys, limit and TTL.                                       *)
(***************************************************************************)
EXTENDS MCLRUCache, TLAPS, SequenceTheorems, FiniteSetTheorems

\* ListMatchesMap for a list l and a set of keys E.
Matches(l, E) ==
  /\ l \in Seq(Element)
  /\ \A i \in 1..Len(l) : l[i].key \in E
  /\ \A k \in E : \E i \in 1..Len(l) : l[i].key = k
  /\ \A i, j \in 1..Len(l) : l[i].key = l[j].key => i = j

At(l, k) == CHOOSE i \in 1..Len(l) : l[i].key = k

\* The element of key k in a list.
ElementOf(l, k) == l[At(l, k)]

-----------------------------------------------------------------------------
\* Removing position i of a sequence shifts the positions after it by one.
LEMMA RemoveAtProperties ==
  ASSUME NEW S, NEW s \in Seq(S), NEW i \in 1..Len(s)
  PROVE  /\ RemoveAt(s, i) \in Seq(S)
         /\ Len(RemoveAt(s, i)) = Len(s) - 1
         /\ \A j \in 1..(Len(s) - 1) :
              RemoveAt(s, i)[j] = IF j < i THEN s[j] ELSE s[j + 1]
<1> DEFINE a == SubSeq(s, 1, i - 1)
           b == SubSeq(s, i + 1, Len(s))
<1>1. Len(s) \in Nat /\ \A j \in 1..Len(s) : s[j] \in S
  BY LenProperties, ElementOfSeq
<1>2. /\ a \in Seq(S) /\ Len(a) = i - 1
      /\ \A j \in 1..(i - 1) : a[j] = s[j]
  <2>1. \A j \in 1..(i - 1) : s[j] \in S
    BY <1>1
  <2>2. /\ a \in Seq(S)
        /\ Len(a) = IF 1 <= i - 1 THEN i - 1 - 1 + 1 ELSE 0
        /\ \A j \in 1..(i - 1 - 1 + 1) : a[j] = s[1 + j - 1]
    BY <2>1, <1>1, SubSeqProperties
  <2> QED BY <2>2, <1>1
<1>3. /\ b \in Seq(S) /\ Len(b) = Len(s) - i
      /\ \A j \in 1..(Len(s) - i) : b[j] = s[i + j]
  <2>1. \A j \in (i + 1)..Len(s) : s[j] \in S
    BY <1>1
  <2>2. /\ b \in Seq(S)
        /\ Len(b) = IF i + 1 <= Len(s) THEN Len(s) - (i + 1) + 1 ELSE 0
        /\ \A j \in 1..(Len(s) - (i + 1) + 1) : b[j] = s[(i + 1) + j - 1]
    BY <2>1, <1>1, SubSeqProperties
  <2> QED BY <2>2, <1>1
<1>4. /\ a \o b \in Seq(S)
      /\ Len(a \o b) = Len(a) + Len(b)
      /\ \A j \in 1..(Len(a) + Len(b)) :
           (a \o b)[j] = IF j <= Len(a) THEN a[j] ELSE b[j - Len(a)]
  BY <1>2, <1>3, ConcatProperties
<1>5. RemoveAt(s, i) = a \o b
  BY DEF RemoveAt
<1> HIDE DEF a, b
<1>6. ASSUME NEW j \in 1..(Len(s) - 1)
      PROVE  (a \o b)[j] = IF j < i THEN s[j] ELSE s[j + 1]
  <2>1. CASE j < i
    BY <2>1, <1>1, <1>2, <1>3, <1>4
  <2>2. CASE j >= i
    <3>1. (a \o b)[j] = b[j - (i - 1)]
      BY <2>2, <1>1, <1>2, <1>3, <1>4
    <3>2. j - (i - 1) \in 1..(Len(s) - i) /\ i + (j - (i - 1)) = j + 1
      BY <2>2, <1>1
    <3> QED BY <3>1, <3>2, <2>2, <1>3, <1>1
  <2>3. j < i \/ j >= i
    BY <1>1
  <2> QED BY <2>1, <2>2, <2>3
<1> QED BY <1>1, <1>2, <1>3, <1>4, <1>5, <1>6

\* In a list without duplicate keys an element is found where it is.
LEMMA AtProperties ==
  ASSUME NEW l, NEW E, Matches(l, E)
  PROVE  /\ \A i \in 1..Len(l) : At(l, l[i].key) = i
         /\ \A k \in E : At(l, k) \in 1..Len(l) /\ l[At(l, k)].key = k
<1>1. ASSUME NEW k \in E
      PROVE  At(l, k) \in 1..Len(l) /\ l[At(l, k)].key = k
  <2>1. \E i \in 1..Len(l) : l[i].key = k
    BY DEF Matches
  <2> QED BY <2>1 DEF At
<1>2. ASSUME NEW i \in 1..Len(l)
      PROVE  At(l, l[i].key) = i
  <2>1. l[i].key \in E
    BY DEF Matches
  <2>2. At(l, l[i].key) \in 1..Len(l) /\ l[At(l, l[i].key)].key = l[i].key
    BY <2>1, <1>1
  <2> QED BY <2>2 DEF Matches
<1> QED BY <1>1, <1>2

\* Removing an element and its key keeps the rest in step and in place.
LEMMA RemoveMatches ==
  ASSUME NEW l, NEW E, Matches(l, E), NEW i \in 1..Len(l)
  PROVE  /\ Matches(RemoveAt(l, i), E \ {l[i].key})
         /\ \A k \in E \ {l[i].key} :
              ElementOf(RemoveAt(l, i), k) = ElementOf(l, k)
<1> DEFINE r == RemoveAt(l, i)
<1>1. l \in Seq(Element) /\ Len(l) \in Nat
  BY LenProperties DEF Matches
<1>2. /\ r \in Seq(Element) /\ Len(r) = Len(l) - 1
      /\ \A j \in 1..(Len(l) - 1) : r[j] = IF j < i THEN l[j] ELSE l[j + 1]
  BY <1>1, RemoveAtProperties
<1> HIDE DEF r
<1>3. \A j \in 1..Len(r) : r[j].key \in E \ {l[i].key}
  <2> SUFFICES ASSUME NEW j \in 1..Len(r)
               PROVE  r[j].key \in E \ {l[i].key}
    OBVIOUS
  <2>1. PICK h \in 1..Len(l) : h # i /\ r[j] = l[h]
    BY <1>1, <1>2
  <2> QED BY <2>1 DEF Matches
<1>4. ASSUME NEW k \in E \ {l[i].key}
      PROVE  \E j \in 1..Len(r) : r[j].key = k /\ r[j] = ElementOf(l, k)
  <2>1. At(l, k) \in 1..Len(l) /\ l[At(l, k)].key = k
    BY AtProperties
  <2>2. At(l, k) # i
    BY <2>1
  <2>3. CASE At(l, k) < i
    BY <2>1, <2>3, <1>1, <1>2 DEF ElementOf
  <2>4. CASE At(l, k) > i
    <3>1. At(l, k) - 1 \in 1..Len(r) /\ r[At(l, k) - 1] = l[At(l, k)]
      BY <2>1, <2>4, <1>1, <1>2
    <3> QED BY <3>1, <2>1 DEF ElementOf
  <2> QED BY <2>1, <2>2, <2>3, <2>4, <1>1
<1>5. \A j, h \in 1..Len(r) : r[j].key = r[h].key => j = h
  <2> SUFFICES ASSUME NEW j \in 1..Len(r), NEW h \in 1..Len(r),
                      r[j].key = r[h].key
               PROVE  j = h
    OBVIOUS
  <2>1. r[j] = l[IF j < i THEN j ELSE j + 1] /\ r[h] = l[IF h < i THEN h ELSE h + 1]
    BY <1>1, <1>2
  <2>2. (IF j < i THEN j ELSE j + 1) = (IF h < i THEN h ELSE h + 1)
    BY <2>1, <1>1, <1>2 DEF Matches
  <2> QED BY <2>2, <1>1, <1>2
<1>6. Matches(r, E \ {l[i].key})
  BY <1>2, <1>3, <1>4, <1>5 DEF Matches
<1>7. ASSUME NEW k \in E \ {l[i].key}
      PROVE  ElementOf(r, k) = ElementOf(l, k)
  <2>1. PICK j \in 1..Len(r) : r[j].key = k /\ r[j] = ElementOf(l, k)
    BY <1>4
  <2>2. At(r, k) = j
    BY <2>1, <1>6, AtProperties
  <2> QED BY <2>1, <2>2 DEF ElementOf
<1> QED BY <1>6, <1>7 DEF r

\* Pushing an element of a new key keeps list and map in step.
LEMMA AppendMatches ==
  ASSUME NEW l, NEW E, Matches(l, E), NEW e \in Element, e.key \notin E
  PROVE  /\ Matches(Append(l, e), E \cup {e.key})
         /\ ElementOf(Append(l, e), e.key) = e
         /\ \A k \in E : ElementOf(Append(l, e), k) = ElementOf(l, k)
<1> DEFINE r == Append(l, e)
<1>1. l \in Seq(Element) /\ Len(l) \in Nat
  BY LenProperties DEF Matches
<1>2. /\ r \in Seq(Element) /\ Len(r) = Len(l) + 1
      /\ \A j \in 1..Len(l) : r[j] = l[j]
      /\ r[Len(l) + 1] = e
  BY <1>1, AppendProperties
<1> HIDE DEF r
<1>3. Matches(r, E \cup {e.key})
  <2>1. \A j \in 1..Len(r) : j \in 1..Len(l) \/ j = Len(l) + 1
    BY <1>1, <1>2
  <2>2. \A j \in 1..Len(r) : r[j].key \in E \cup {e.key}
    BY <2>1, <1>2 DEF Matches
  <2>3. \A k \in E \cup {e.key} : \E j \in 1..Len(r) : r[j].key = k
    <3>1. Len(l) + 1 \in 1..Len(r) /\ \A j \in 1..Len(l) : j \in 1..Len(r)
      BY <1>1, <1>2
    <3> QED BY <3>1, <1>2 DEF Matches
  <2>4. \A j, h \in 1..Len(r) : r[j].key = r[h].key => j = h
    BY <2>1, <1>2 DEF Matches
  <2> QED BY <2>2, <2>3, <2>4, <1>2 DEF Matches
<1>4. ElementOf(r, e.key) = e
  <2>1. Len(l) + 1 \in 1..Len(r) /\ r[Len(l) + 1].key = e.key
    BY <1>1, <1>2
  <2>2. At(r, r[Len(l) + 1].key) = Len(l) + 1
    BY <2>1, <1>3, AtProperties
  <2> QED BY <2>1, <2>2, <1>2 DEF ElementOf
<1>5. ASSUME NEW k \in E
      PROVE  ElementOf(r, k) = ElementOf(l, k)
  <2>1. At(l, k) \in 1..Len(l) /\ l[At(l, k)].key = k
    BY AtProperties
  <2>2. At(l, k) \in 1..Len(r) /\ r[At(l, k)] = l[At(l, k)]
    BY <2>1, <1>1, <1>2
  <2>3. At(r, r[At(l, k)].key) = At(l, k)
    BY <2>2, <1>3, AtProperties
  <2> QED BY <2>1, <2>2, <2>3 DEF ElementOf
<1> QED BY <1>3, <1>4, <1>5 DEF r

\* Moving an element to the back, with a new content under the same key,
\* changes nothing for the other keys.
LEMMA MoveMatches ==
  ASSUME NEW l, NEW E, Matches(l, E), NEW k \in E,
         NEW e \in Element, e.key = k
  PROVE  LET r == Append(RemoveAt(l, At(l, k)), e)
         IN  /\ Matches(r, E)
             /\ ElementOf(r, k) = e
             /\ \A j \in E \ {k} : ElementOf(r, j) = ElementOf(l, j)
<1> DEFINE m == RemoveAt(l, At(l, k))
           r == Append(m, e)
<1>1. At(l, k) \in 1..Len(l) /\ l[At(l, k)].key = k
  BY AtProperties
<1>2. /\ Matches(m, E \ {k})
      /\ \A j \in E \ {k} : ElementOf(m, j) = ElementOf(l, j)
  BY <1>1, RemoveMatches
<1> HIDE DEF m
<1>3. /\ Matches(r, (E \ {k}) \cup {k})
      /\ ElementOf(r, k) = e
      /\ \A j \in E \ {k} : ElementOf(r, j) = ElementOf(m, j)
  BY <1>2, AppendMatches
<1>4. (E \ {k}) \cup {k} = E
  OBVIOUS
<1> QED BY <1>2, <1>3, <1>4 DEF m

\* The tail of a list is the list without its first element.
LEMMA TailIsRemoveFirst ==
  ASSUME NEW S, NEW l \in Seq(S), l # <<>>
  PROVE  /\ 1 \in 1..Len(l) /\ Head(l) = l[1]
         /\ Tail(l) = RemoveAt(l, 1)
<1>1. Len(l) \in Nat /\ Len(l) >= 1
  BY LenProperties, EmptySeq
<1>2. /\ Head(l) = l[1]
      /\ Tail(l) \in Seq(S) /\ Len(Tail(l)) = Len(l) - 1
      /\ \A i \in 1..Len(Tail(l)) : Tail(l)[i] = l[i + 1]
  BY <1>1, HeadTailProperties
<1>3. /\ RemoveAt(l, 1) \in Seq(S) /\ Len(RemoveAt(l, 1)) = Len(l) - 1
      /\ \A j \in 1..(Len(l) - 1) : RemoveAt(l, 1)[j] = l[j + 1]
  <2>1. 1 \in 1..Len(l)
    BY <1>1
  <2>2. \A j \in 1..(Len(l) - 1) : RemoveAt(l, 1)[j] = IF j < 1 THEN l[j] ELSE l[j + 1]
    BY <1>1, <2>1, RemoveAtProperties
  <2>3. RemoveAt(l, 1) \in Seq(S) /\ Len(RemoveAt(l, 1)) = Len(l) - 1
    BY <1>1, <2>1, RemoveAtProperties
  <2> QED BY <1>1, <2>2, <2>3
<1>4. Tail(l) = RemoveAt(l, 1)
  BY <1>1, <1>2, <1>3, SeqEqual
<1> QED BY <1>1, <1>2, <1>4

LEMMA TailMatches ==
  ASSUME NEW l, NEW E, Matches(l, E), l # <<>>
  PROVE  /\ 1 \in 1..Len(l) /\ Head(l) = l[1]
         /\ Matches(Tail(l), E \ {Head(l).key})
         /\ \A k \in E \ {Head(l).key} : ElementOf(Tail(l), k) = ElementOf(l, k)
<1>1. l \in Seq(Element)
  BY DEF Matches
<1>2. 1 \in 1..Len(l) /\ Head(l) = l[1] /\ Tail(l) = RemoveAt(l, 1)
  BY <1>1, TailIsRemoveFirst
<1>3. /\ Matches(RemoveAt(l, 1), E \ {l[1].key})
      /\ \A k \in E \ {l[1].key} : ElementOf(RemoveAt(l, 1), k) = ElementOf(l, k)
  BY <1>2, RemoveMatches
<1> QED BY <1>2, <1>3

-----------------------------------------------------------------------------
\* The inductive invariant.  CacheConsistent alone does not say what the
\* list is a list of, and the limit needs the keys to be finitely many.
IInv == TypeOK /\ Matches(lru, entries) /\ WithinLimit

LEMMA LimitPositive == Limit \in Nat /\ Limit >= 1
  BY CacheAssumption DEF Limit

LEMMA EntriesFinite ==
  ASSUME NEW E \in SUBSET Keys
  PROVE  IsFiniteSet(E) /\ Cardinality(E) \in Nat
  BY CacheAssumption, FS_Subset, FS_CardinalityType

\* Where IInv holds the position of a key is found, and the element there
\* is its only one.
LEMMA PosProperties ==
  ASSUME IInv, NEW k \in entries
  PROVE  /\ PosOf(k) = At(lru, k)
         /\ PosOf(k) \in 1..Len(lru)
         /\ lru[PosOf(k)] \in Element
         /\ lru[PosOf(k)].key = k
<1>1. PosOf(k) = At(lru, k)
  BY DEF PosOf, At
<1>2. At(lru, k) \in 1..Len(lru) /\ lru[At(lru, k)].key = k
  BY AtProperties DEF IInv
<1>3. lru \in Seq(Element)
  BY DEF IInv, Matches
<1>4. lru[At(lru, k)] \in Element
  BY <1>2, <1>3, ElementOfSeq
<1> QED BY <1>1, <1>2, <1>4

\* removeElement, wherever it is called.
LEMMA RemovePreserves ==
  ASSUME IInv, NEW k \in entries, RemoveElement(PosOf(k))
  PROVE  /\ entries' = entries \ {k}
         /\ Matches(lru', entries') /\ WithinLimit'
         /\ \A j \in entries' : ElementOf(lru', j) = ElementOf(lru, j)
<1>1. PosOf(k) \in 1..Len(lru) /\ lru[PosOf(k)].key = k
  BY PosProperties
<1>2. entries' = entries \ {k} /\ lru' = RemoveAt(lru, PosOf(k))
  BY <1>1 DEF RemoveElement
<1>3. /\ Matches(lru', entries')
      /\ \A j \in entries' : ElementOf(lru', j) = ElementOf(lru, j)
  BY <1>1, <1>2, RemoveMatches DEF IInv
<1>4. Cardinality(entries') <= Cardinality(entries)
  BY <1>2, EntriesFinite, FS_Subset DEF IInv, TypeOK
<1>5. Cardinality(entries') \in Nat /\ Cardinality(entries) \in Nat
  BY <1>2, EntriesFinite DEF IInv, TypeOK
<1>6. WithinLimit'
  BY <1>4, <1>5, LimitPositive DEF IInv, WithinLimit, Limit
<1> QED BY <1>2, <1>3, <1>6

\* The element moved to the back, with its old content or a new one.
LEMMA MovePreserves ==
  ASSUME IInv, NEW k \in entries, NEW e \in Element, e.key = k,
         lru' = MoveToBack(PosOf(k), e), entries' = entries
  PROVE  /\ Matches(lru', entries') /\ WithinLimit'
         /\ ElementOf(lru', k) = e
         /\ \A j \in entries \ {k} : ElementOf(lru', j) = ElementOf(lru, j)
<1>1. lru' = Append(RemoveAt(lru, At(lru, k)), e)
  BY PosProperties DEF MoveToBack
<1>2. WithinLimit'
  BY DEF IInv, WithinLimit, Limit
<1> QED BY <1>1, <1>2, MoveMatches DEF IInv

LEMMA FreshType ==
  ASSUME IInv, NEW k \in Keys, NEW v \in Values
  PROVE  Fresh(k, v) \in Element /\ Fresh(k, v).key = k
  BY CacheAssumption DEF IInv, TypeOK, Fresh, Element, ExpiryOfNew

\* A full cache loses the head of its list, no other entry, and a cache
\* that is not full loses none.
LEMMA SetNewPreserves ==
  ASSUME IInv, NEW k \in Keys, NEW v \in Values, SetNew(k, v)
  PROVE  /\ Matches(lru', entries') /\ WithinLimit'
         /\ entries' \subseteq Keys
         /\ ElementOf(lru', k) = Fresh(k, v)
         /\ \E lost \in SUBSET entries :
              /\ entries' = (entries \ lost) \cup {k}
              /\ lost # {} => /\ Cardinality(entries) >= Limit
                              /\ \E victim \in entries : lost = {victim}
              /\ \A j \in entries \ lost : ElementOf(lru', j) = ElementOf(lru, j)
<1>1. Fresh(k, v) \in Element /\ Fresh(k, v).key = k
  BY FreshType
<1>2. k \notin entries /\ entries \subseteq Keys
  BY DEF SetNew, IInv, TypeOK
<1>3. IsFiniteSet(entries) /\ Cardinality(entries) \in Nat /\ Limit \in Nat /\ Limit >= 1
  BY <1>2, EntriesFinite, LimitPositive
<1>4. Cardinality(entries) <= Limit
  BY DEF IInv, WithinLimit
<1>5. CASE Cardinality(entries) >= Limit
  <2> DEFINE out == Head(lru).key
  <2>1. entries # {}
    BY <1>3, <1>5, FS_EmptySet
  <2>2. lru # <<>>
    BY <2>1, EmptySeq DEF IInv, Matches
  <2>3. /\ 1 \in 1..Len(lru) /\ Head(lru) = lru[1]
        /\ Matches(Tail(lru), entries \ {out})
        /\ \A j \in entries \ {out} : ElementOf(Tail(lru), j) = ElementOf(lru, j)
    BY <2>2, TailMatches DEF IInv
  <2>4. out \in entries
    BY <2>3 DEF IInv, Matches
  <2>5. lru' = Append(Tail(lru), Fresh(k, v)) /\ entries' = (entries \ {out}) \cup {k}
    BY <1>5 DEF SetNew
  <2> HIDE DEF out
  <2>6. /\ Matches(lru', entries')
        /\ ElementOf(lru', k) = Fresh(k, v)
        /\ \A j \in entries \ {out} : ElementOf(lru', j) = ElementOf(Tail(lru), j)
    <3> DEFINE e == Fresh(k, v)
               t == Tail(lru)
    <3>1. e \in Element /\ e.key \notin entries \ {out} /\ e.key = k
      BY <1>1, <1>2
    <3>2. Matches(t, entries \ {out})
      BY <2>3
    <3>3. lru' = Append(t, e) /\ entries' = (entries \ {out}) \cup {e.key}
      BY <2>5, <3>1
    <3> HIDE DEF e, t
    <3>4. /\ Matches(Append(t, e), (entries \ {out}) \cup {e.key})
          /\ ElementOf(Append(t, e), e.key) = e
          /\ \A j \in entries \ {out} : ElementOf(Append(t, e), j) = ElementOf(t, j)
      BY <3>1, <3>2, AppendMatches
    <3> QED BY <3>1, <3>3, <3>4 DEF e, t
  <2>7. Cardinality(entries') = Cardinality(entries)
    <3>1. /\ IsFiniteSet(entries \ {out})
          /\ Cardinality(entries \ {out}) = Cardinality(entries) - 1
      BY <1>3, <2>4, FS_RemoveElement
    <3>2. k \notin entries \ {out}
      BY <1>2
    <3>3. Cardinality(entries') = Cardinality(entries \ {out}) + 1
      BY <2>5, <3>1, <3>2, FS_AddElement
    <3> QED BY <3>1, <3>3, <1>3
  <2>8. WithinLimit'
    BY <2>7, <1>4 DEF WithinLimit, Limit
  <2>9. /\ {out} \in SUBSET entries
        /\ \A j \in entries \ {out} : ElementOf(lru', j) = ElementOf(lru, j)
    BY <2>3, <2>4, <2>6
  <2>10. entries' \subseteq Keys
    BY <2>5, <1>2
  <2>11. \E lost \in SUBSET entries :
           /\ entries' = (entries \ lost) \cup {k}
           /\ lost # {} => /\ Cardinality(entries) >= Limit
                           /\ \E victim \in entries : lost = {victim}
           /\ \A j \in entries \ lost : ElementOf(lru', j) = ElementOf(lru, j)
    <3> WITNESS {out} \in SUBSET entries
    <3>1. \E victim \in entries : {out} = {victim}
      BY <2>4
    <3> QED BY <1>5, <2>5, <2>9, <3>1
  <2> QED BY <2>6, <2>8, <2>10, <2>11
<1>6. CASE ~(Cardinality(entries) >= Limit)
  <2>1. lru' = Append(lru, Fresh(k, v)) /\ entries' = entries \cup {k}
    BY <1>6 DEF SetNew
  <2>2. /\ Matches(lru', entries')
        /\ ElementOf(lru', k) = Fresh(k, v)
        /\ \A j \in entries : ElementOf(lru', j) = ElementOf(lru, j)
    <3> DEFINE e == Fresh(k, v)
    <3>1. e \in Element /\ e.key \notin entries /\ e.key = k
      BY <1>1, <1>2
    <3>2. Matches(lru, entries)
      BY DEF IInv
    <3>3. lru' = Append(lru, e) /\ entries' = entries \cup {e.key}
      BY <2>1, <3>1
    <3> HIDE DEF e
    <3>4. /\ Matches(Append(lru, e), entries \cup {e.key})
          /\ ElementOf(Append(lru, e), e.key) = e
          /\ \A j \in entries : ElementOf(Append(lru, e), j) = ElementOf(lru, j)
      BY <3>1, <3>2, AppendMatches
    <3> QED BY <3>1, <3>3, <3>4 DEF e
  <2>3. Cardinality(entries') = Cardinality(entries) + 1
    BY <1>2, <1>3, <2>1, FS_AddElement
  <2>4. WithinLimit'
    BY <2>3, <1>3, <1>6 DEF WithinLimit, Limit
  <2>5. {} \in SUBSET entries /\ entries' = (entries \ {}) \cup {k}
    BY <2>1
  <2>6. entries' \subseteq Keys
    BY <2>1, <1>2
  <2>7. \E lost \in SUBSET entries :
          /\ entries' = (entries \ lost) \cup {k}
          /\ lost # {} => /\ Cardinality(entries) >= Limit
                          /\ \E victim \in entries : lost = {victim}
          /\ \A j \in entries \ lost : ElementOf(lru', j) = ElementOf(lru, j)
    <3> WITNESS {} \in SUBSET entries
    <3>1. \A j \in entries \ {} : ElementOf(lru', j) = ElementOf(lru, j)
      BY <2>2
    <3>2. {} # {} => /\ Cardinality(entries) >= Limit
                     /\ \E victim \in entries : {} = {victim}
      OBVIOUS
    <3> QED BY <2>5, <3>1, <3>2
  <2> QED BY <2>2, <2>4, <2>6, <2>7
<1> QED BY <1>5, <1>6

-----------------------------------------------------------------------------
LEMMA InitIInv == Init => IInv
<1> SUFFICES ASSUME Init
             PROVE  IInv
  OBVIOUS
<1>1. lru \in Seq(Element) /\ Len(lru) = 0
  BY EmptySeq DEF Init
<1>2. TypeOK
  BY <1>1 DEF Init, TypeOK, Reply
<1>3. Matches(lru, entries)
  BY <1>1 DEF Init, Matches
<1>4. WithinLimit
  BY LimitPositive, FS_EmptySet DEF Init, WithinLimit
<1> QED BY <1>2, <1>3, <1>4 DEF IInv

\* Every call keeps the map and the list in step and within the limit.
LEMMA StepIInv == IInv /\ [Next]_vars => IInv'
<1> SUFFICES ASSUME IInv, [Next]_vars
             PROVE  IInv'
  OBVIOUS
<1>t. TypeOK /\ Matches(lru, entries) /\ WithinLimit
  BY DEF IInv
<1>s. ASSUME entries' = entries, lru' = lru
      PROVE  Matches(lru', entries') /\ WithinLimit'
  BY <1>s, <1>t DEF WithinLimit, Limit
<1>l. Matches(lru', entries') => lru' \in Seq(Element)
  BY DEF Matches
<1>1. ASSUME NEW k \in Keys, GetMiss(k)
      PROVE  IInv'
  <2>1. TypeOK'
    BY <1>1, <1>t DEF GetMiss, Answer, TypeOK, Reply
  <2> QED BY <1>1, <1>s, <2>1 DEF GetMiss, IInv
<1>2. ASSUME NEW k \in Keys, GetExpired(k)
      PROVE  IInv'
  <2>1. k \in entries /\ RemoveElement(PosOf(k))
    BY <1>2 DEF GetExpired
  <2>2. entries' = entries \ {k} /\ Matches(lru', entries') /\ WithinLimit'
    BY <2>1, RemovePreserves
  <2>3. TypeOK'
    BY <1>2, <1>t, <1>l, <2>2 DEF GetExpired, Answer, TypeOK, Reply
  <2> QED BY <2>2, <2>3 DEF IInv
<1>3. ASSUME NEW k \in Keys, GetHit(k)
      PROVE  IInv'
  <2>1. k \in entries /\ lru' = MoveToBack(PosOf(k), lru[PosOf(k)]) /\ entries' = entries
    BY <1>3 DEF GetHit
  <2>2. lru[PosOf(k)] \in Element /\ lru[PosOf(k)].key = k
    BY <2>1, PosProperties
  <2>3. Matches(lru', entries') /\ WithinLimit'
    BY <2>1, <2>2, MovePreserves
  <2>4. lru[PosOf(k)].value \in Values
    BY <2>2 DEF Element
  <2>5. TypeOK'
    BY <1>3, <1>t, <1>l, <2>1, <2>3, <2>4 DEF GetHit, Answer, TypeOK, Reply
  <2> QED BY <2>3, <2>5 DEF IInv
<1>4. ASSUME NEW k \in Keys, NEW v \in Values, SetExisting(k, v)
      PROVE  IInv'
  <2>1. k \in entries /\ lru' = MoveToBack(PosOf(k), Fresh(k, v)) /\ entries' = entries
    BY <1>4 DEF SetExisting
  <2>2. Fresh(k, v) \in Element /\ Fresh(k, v).key = k
    BY FreshType
  <2>3. Matches(lru', entries') /\ WithinLimit'
    BY <2>1, <2>2, MovePreserves
  <2>4. TypeOK'
    BY <1>4, <1>t, <1>l, <2>1, <2>3 DEF SetExisting, Answer, TypeOK, Reply
  <2> QED BY <2>3, <2>4 DEF IInv
<1>5. ASSUME NEW k \in Keys, NEW v \in Values, SetNew(k, v)
      PROVE  IInv'
  <2>1. Matches(lru', entries') /\ WithinLimit' /\ entries' \subseteq Keys
    BY <1>5, SetNewPreserves
  <2>2. sweep' = {} /\ now' = now
    BY <1>5 DEF SetNew
  <2>3. reply' \in Reply
    BY <1>5 DEF SetNew, Answer, Reply
  <2>4. TypeOK'
    BY <1>t, <1>l, <2>1, <2>2, <2>3 DEF TypeOK
  <2> QED BY <2>1, <2>4 DEF IInv
<1>6. ASSUME NEW k \in Keys, Invalidate(k)
      PROVE  IInv'
  <2>1. Matches(lru', entries') /\ WithinLimit' /\ entries' \subseteq entries
    <3>1. CASE k \in entries
      <4>1. RemoveElement(PosOf(k))
        BY <1>6, <3>1 DEF Invalidate
      <4> QED BY <4>1, <3>1, RemovePreserves
    <3>2. CASE k \notin entries
      BY <1>6, <3>2, <1>s DEF Invalidate
    <3> QED BY <3>1, <3>2
  <2>2. TypeOK'
    BY <1>6, <1>t, <1>l, <2>1 DEF Invalidate, Answer, TypeOK, Reply
  <2> QED BY <2>1, <2>2 DEF IInv
<1>7. ASSUME NEW k \in Keys, SweepOne(k)
      PROVE  IInv'
  <2>1. k \in sweep /\ k \in entries /\ RemoveElement(PosOf(k))
    BY <1>7, <1>t DEF SweepOne, TypeOK
  <2>2. entries' = entries \ {k} /\ Matches(lru', entries') /\ WithinLimit'
    BY <2>1, RemovePreserves
  <2>3. TypeOK'
    BY <1>7, <1>t, <1>l, <2>2 DEF SweepOne, TypeOK
  <2> QED BY <2>2, <2>3 DEF IInv
<1>8. ASSUME NEW ks \in PrefixSets, InvalidatePrefix(ks)
      PROVE  IInv'
  <2>1. TypeOK'
    BY <1>8, <1>t DEF InvalidatePrefix, Answer, TypeOK, Reply
  <2> QED BY <1>8, <1>s, <2>1 DEF InvalidatePrefix, IInv
<1>9. ASSUME Tick
      PROVE  IInv'
  <2>1. TypeOK'
    BY <1>9, <1>t DEF Tick, TypeOK
  <2> QED BY <1>9, <1>s, <2>1 DEF Tick, IInv
<1>10. CASE UNCHANGED vars
  <2>1. TypeOK'
    BY <1>10, <1>t DEF vars, TypeOK
  <2> QED BY <1>10, <1>s, <2>1 DEF vars, IInv
<1> QED
  BY <1>1, <1>2, <1>3, <1>4, <1>5, <1>6, <1>7, <1>8, <1>9, <1>10 DEF Next

\* The inductive invariant holds in every reachable state.
THEOREM Invariance == Spec => []IInv
  BY InitIInv, StepIInv, PTL DEF Spec

\* Every reachable state has its type: the keys a sweep still has to remove
\* are keys of the map.
THEOREM TypeCorrect == Spec => []TypeOK
<1>1. IInv => TypeOK
  BY DEF IInv
<1> QED BY <1>1, Invariance, PTL

\* cache.go: however Get, Set, removeElement and the sweep of
\* InvalidatePrefix interleave, c.data and c.list hold the same keys, each
\* once, and never more than the limit.
THEOREM Consistent == Spec => []CacheConsistent
<1>1. IInv => CacheConsistent
  BY DEF IInv, CacheConsistent, ListMatchesMap, Matches
<1> QED BY <1>1, Invariance, PTL

-----------------------------------------------------------------------------
\* What a caller can be handed of the element of a list.
Cell(e) == [value |-> e.value, expiry |-> e.expiry]

\* StoreOf, by ElementOf; a key is in it exactly when it holds a cell.
CellsMatch ==
  /\ \A k \in entries \ sweep :
       StoreOf[k] = Cell(ElementOf(lru, k)) /\ StoreOf[k] # NoKey
  /\ \A k \in Keys \ (entries \ sweep) : StoreOf[k] = NoKey
  /\ Map!Held = entries \ sweep

LEMMA StoreOfCells == IInv => CellsMatch
<1> SUFFICES ASSUME IInv
             PROVE  CellsMatch
  OBVIOUS
<1>1. entries \subseteq Keys
  BY DEF IInv, TypeOK
<1>2. ASSUME NEW k \in entries \ sweep
      PROVE  StoreOf[k] = Cell(ElementOf(lru, k)) /\ StoreOf[k] # NoKey
  <2>1. StoreOf[k] = Cell(lru[PosOf(k)])
    BY <1>1 DEF StoreOf, Cell
  <2>2. PosOf(k) = At(lru, k) /\ lru[PosOf(k)] \in Element
    BY PosProperties
  <2>3. Cell(lru[PosOf(k)]) \in [value : Values, expiry : Nat]
    BY <2>2 DEF Cell, Element
  <2>4. Cell(lru[PosOf(k)]) # NoKey
    BY <2>3, CacheAssumption
  <2> QED BY <2>1, <2>2, <2>4 DEF ElementOf
<1>3. \A k \in Keys \ (entries \ sweep) : StoreOf[k] = NoKey
  BY DEF StoreOf
<1>4. Map!Held = entries \ sweep
  BY <1>1, <1>2, <1>3 DEF Map!Held
<1> QED BY <1>2, <1>3, <1>4 DEF CellsMatch

\* The two states of a step, cell by cell: keys that stay hold what they
\* held, the others are absent.
LEMMA StoreAfter ==
  ASSUME IInv, IInv', NEW D \in SUBSET Keys,
         entries' \ sweep' = (entries \ sweep) \ D,
         \A k \in entries' \ sweep' : ElementOf(lru', k) = ElementOf(lru, k)
  PROVE  StoreOf' = [k \in Keys |-> IF k \in D THEN NoKey ELSE StoreOf[k]]
<1>1. /\ \A k \in entries' \ sweep' : StoreOf'[k] = Cell(ElementOf(lru', k))
      /\ \A k \in Keys \ (entries' \ sweep') : StoreOf'[k] = NoKey
  <2>1. IInv' => CellsMatch'
    BY StoreOfCells, PTL
  <2> QED BY <2>1 DEF CellsMatch
<1>2. /\ \A k \in entries \ sweep : StoreOf[k] = Cell(ElementOf(lru, k))
      /\ \A k \in Keys \ (entries \ sweep) : StoreOf[k] = NoKey
  BY StoreOfCells DEF CellsMatch
<1>3. ASSUME NEW k \in Keys
      PROVE  StoreOf'[k] = IF k \in D THEN NoKey ELSE StoreOf[k]
  BY <1>1, <1>2
<1>4. StoreOf' = [k \in Keys |-> StoreOf'[k]]
  BY DEF StoreOf
<1> QED BY <1>3, <1>4

\* The same, when one key holds a fresh cell and the keys of D are gone.
LEMMA StoreAfterSet ==
  ASSUME IInv, IInv', sweep = {}, sweep' = {},
         NEW k \in Keys, NEW v \in Values, NEW D \in SUBSET entries,
         entries' = (entries \ D) \cup {k},
         ElementOf(lru', k) = Fresh(k, v),
         \A j \in (entries \ D) \ {k} : ElementOf(lru', j) = ElementOf(lru, j)
  PROVE  StoreOf' = [j \in Keys |->
                       IF j = k
                         THEN [value  |-> v,
                               expiry |-> IF Ttl > 0 THEN now + Ttl ELSE 0]
                         ELSE IF j \in D THEN NoKey ELSE StoreOf[j]]
<1>1. /\ \A j \in entries' : StoreOf'[j] = Cell(ElementOf(lru', j))
      /\ \A j \in Keys \ entries' : StoreOf'[j] = NoKey
  <2>1. IInv' => CellsMatch'
    BY StoreOfCells, PTL
  <2> QED BY <2>1 DEF CellsMatch
<1>2. /\ \A j \in entries : StoreOf[j] = Cell(ElementOf(lru, j))
      /\ \A j \in Keys \ entries : StoreOf[j] = NoKey
  BY StoreOfCells DEF CellsMatch
<1>3. Cell(Fresh(k, v)) = [value |-> v, expiry |-> IF Ttl > 0 THEN now + Ttl ELSE 0]
  BY DEF Cell, Fresh, ExpiryOfNew
<1>4. StoreOf'[k] = [value |-> v, expiry |-> IF Ttl > 0 THEN now + Ttl ELSE 0]
  BY <1>1, <1>3
<1>5. ASSUME NEW j \in Keys, j # k
      PROVE  StoreOf'[j] = IF j \in D THEN NoKey ELSE StoreOf[j]
  <2>1. CASE j \in entries \ D
    <3>1. j \in entries' /\ ElementOf(lru', j) = ElementOf(lru, j)
      BY <2>1, <1>5
    <3>2. StoreOf'[j] = Cell(ElementOf(lru, j)) /\ StoreOf[j] = Cell(ElementOf(lru, j))
      BY <2>1, <3>1, <1>1, <1>2
    <3> QED BY <2>1, <3>2
  <2>2. CASE j \notin entries \ D
    <3>1. j \notin entries'
      BY <2>2, <1>5
    <3>2. StoreOf'[j] = NoKey
      BY <3>1, <1>1
    <3>3. j \notin D => StoreOf[j] = NoKey
      BY <2>2, <1>2
    <3> QED BY <3>2, <3>3
  <2> QED BY <2>1, <2>2
<1>6. StoreOf' = [j \in Keys |-> StoreOf'[j]]
  BY DEF StoreOf
<1> QED BY <1>4, <1>5, <1>6

LEMMA InitRefines == Init => Map!Init
<1> SUFFICES ASSUME Init
             PROVE  Map!Init
  OBVIOUS
<1>1. StoreOf = [k \in Keys |-> NoKey]
  BY DEF Init, StoreOf
<1> QED BY <1>1 DEF Init, Map!Init

\* Every call is one step of the map, and an iteration of the sweep is none:
\* its keys left the map when InvalidatePrefix took the mutex.
LEMMA StepRefines ==
  ASSUME IInv, IInv', [Next]_vars
  PROVE  [Map!Next]_Map!mapVars
<1>c. /\ \A k \in entries \ sweep :
           StoreOf[k] = Cell(ElementOf(lru, k)) /\ StoreOf[k] # NoKey
      /\ \A k \in Keys \ (entries \ sweep) : StoreOf[k] = NoKey
      /\ Map!Held = entries \ sweep
  BY StoreOfCells DEF CellsMatch
<1>e. entries \subseteq Keys /\ sweep \subseteq entries
  BY DEF IInv, TypeOK
\* Where no sweep runs, servable means present and not expired.
<1>v. ASSUME sweep = {}, NEW k \in entries
      PROVE  /\ Map!Servable(k) <=> ~Expired(lru[PosOf(k)])
             /\ StoreOf[k].value = lru[PosOf(k)].value
  <2>1. StoreOf[k] = Cell(lru[PosOf(k)])
    BY <1>v, <1>c, PosProperties DEF ElementOf
  <2>2. lru[PosOf(k)].expiry \in Nat /\ now \in Nat /\ Ttl \in Nat
    BY PosProperties, CacheAssumption DEF Element, IInv, TypeOK
  <2> QED BY <1>v, <1>c, <2>1, <2>2 DEF Map!Servable, Expired, Cell
<1>u. ASSUME entries' = entries, lru' = lru, sweep' = sweep
      PROVE  StoreOf' = StoreOf
  BY <1>u DEF StoreOf, PosOf
<1>1. ASSUME NEW k \in Keys, GetMiss(k)
      PROVE  Map!Miss(k)
  <2>1. StoreOf[k] = NoKey /\ ~Map!Servable(k)
    BY <1>1, <1>c DEF GetMiss, Map!Servable
  <2>2. StoreOf' = StoreOf
    BY <1>1, <1>u DEF GetMiss
  <2>3. StoreOf = [StoreOf EXCEPT ![k] = NoKey]
    BY <2>1 DEF StoreOf
  <2> QED BY <1>1, <2>1, <2>2, <2>3 DEF GetMiss, Answer, Map!Miss
<1>2. ASSUME NEW k \in Keys, GetExpired(k)
      PROVE  Map!Miss(k)
  <2>1. sweep = {} /\ sweep' = {} /\ k \in entries /\ RemoveElement(PosOf(k))
    BY <1>2 DEF GetExpired
  <2>2. ~Map!Servable(k)
    BY <1>2, <2>1, <1>v DEF GetExpired
  <2>3. /\ entries' = entries \ {k}
        /\ \A j \in entries' : ElementOf(lru', j) = ElementOf(lru, j)
    BY <2>1, RemovePreserves
  <2>4. StoreOf' = [j \in Keys |-> IF j \in {k} THEN NoKey ELSE StoreOf[j]]
    BY <2>1, <2>3, StoreAfter
  <2>5. StoreOf' = [StoreOf EXCEPT ![k] = NoKey]
    BY <2>4 DEF StoreOf
  <2> QED BY <1>2, <2>2, <2>5 DEF GetExpired, Answer, Map!Miss
<1>3. ASSUME NEW k \in Keys, GetHit(k)
      PROVE  Map!Hit(k)
  <2>1. /\ sweep = {} /\ sweep' = {} /\ k \in entries /\ entries' = entries
        /\ lru' = MoveToBack(PosOf(k), lru[PosOf(k)])
        /\ ~Expired(lru[PosOf(k)])
    BY <1>3 DEF GetHit
  <2>2. Map!Servable(k) /\ StoreOf[k].value = lru[PosOf(k)].value
    BY <2>1, <1>v
  <2>3. lru[PosOf(k)] = ElementOf(lru, k) /\ lru[PosOf(k)] \in Element /\ lru[PosOf(k)].key = k
    BY <2>1, PosProperties DEF ElementOf
  <2>4. \A j \in entries' : ElementOf(lru', j) = ElementOf(lru, j)
    BY <2>1, <2>3, MovePreserves
  <2>5. StoreOf' = [j \in Keys |-> IF j \in {} THEN NoKey ELSE StoreOf[j]]
    BY <2>1, <2>4, StoreAfter
  <2>6. StoreOf' = StoreOf
    BY <2>5 DEF StoreOf
  <2> QED BY <1>3, <2>2, <2>6 DEF GetHit, Answer, Map!Hit
<1>4. ASSUME NEW k \in Keys, NEW v \in Values, SetExisting(k, v)
      PROVE  Map!Put(k, v)
  <2>1. /\ sweep = {} /\ sweep' = {} /\ k \in entries /\ entries' = entries
        /\ lru' = MoveToBack(PosOf(k), Fresh(k, v))
    BY <1>4 DEF SetExisting
  <2>2. Fresh(k, v) \in Element /\ Fresh(k, v).key = k
    BY FreshType
  <2>3. /\ ElementOf(lru', k) = Fresh(k, v)
        /\ \A j \in entries \ {k} : ElementOf(lru', j) = ElementOf(lru, j)
    BY <2>1, <2>2, MovePreserves
  <2>4. entries' = (entries \ {}) \cup {k}
    BY <2>1
  <2>5. StoreOf' = [j \in Keys |->
                      IF j = k
                        THEN [value  |-> v,
                              expiry |-> IF Ttl > 0 THEN now + Ttl ELSE 0]
                        ELSE IF j \in {} THEN NoKey ELSE StoreOf[j]]
    BY <2>1, <2>3, <2>4, StoreAfterSet
  <2>6. reply' = [op |-> "set", key |-> k, value |-> v] /\ now' = now
    BY <1>4 DEF SetExisting, Answer
  <2> QED
    <3> SUFFICES
          \E lost \in SUBSET (Map!Held \ {k}) :
            /\ lost # {} => /\ k \notin Map!Held
                            /\ Cardinality(Map!Held) >= Limit
                            /\ \E victim \in Map!Held : lost = {victim}
            /\ StoreOf' = [j \in Keys |->
                             IF j = k
                               THEN [value  |-> v,
                                     expiry |-> IF Ttl > 0 THEN now + Ttl ELSE 0]
                               ELSE IF j \in lost THEN NoKey ELSE StoreOf[j]]
      BY <2>6 DEF Map!Put
    <3> WITNESS {} \in SUBSET (Map!Held \ {k})
    <3> QED BY <2>5
<1>5. ASSUME NEW k \in Keys, NEW v \in Values, SetNew(k, v)
      PROVE  Map!Put(k, v)
  <2>1. sweep = {} /\ sweep' = {} /\ k \notin entries
    BY <1>5 DEF SetNew
  <2>2. PICK lost \in SUBSET entries :
          /\ entries' = (entries \ lost) \cup {k}
          /\ lost # {} => /\ Cardinality(entries) >= Limit
                          /\ \E victim \in entries : lost = {victim}
          /\ \A j \in entries \ lost : ElementOf(lru', j) = ElementOf(lru, j)
    BY <1>5, SetNewPreserves
  <2>3. ElementOf(lru', k) = Fresh(k, v)
    BY <1>5, SetNewPreserves
  <2>4. StoreOf' = [j \in Keys |->
                      IF j = k
                        THEN [value  |-> v,
                              expiry |-> IF Ttl > 0 THEN now + Ttl ELSE 0]
                        ELSE IF j \in lost THEN NoKey ELSE StoreOf[j]]
    BY <2>1, <2>2, <2>3, StoreAfterSet
  <2>5. Map!Held = entries /\ lost \in SUBSET (Map!Held \ {k})
    BY <2>1, <2>2, <1>c
  <2>6. reply' = [op |-> "set", key |-> k, value |-> v] /\ now' = now
    BY <1>5 DEF SetNew, Answer
  <2>7. lost # {} => /\ k \notin Map!Held
                     /\ Cardinality(Map!Held) >= Limit
                     /\ \E victim \in Map!Held : lost = {victim}
    BY <2>1, <2>2, <2>5
  <2> QED
    <3> SUFFICES
          \E gone \in SUBSET (Map!Held \ {k}) :
            /\ gone # {} => /\ k \notin Map!Held
                            /\ Cardinality(Map!Held) >= Limit
                            /\ \E victim \in Map!Held : gone = {victim}
            /\ StoreOf' = [j \in Keys |->
                             IF j = k
                               THEN [value  |-> v,
                                     expiry |-> IF Ttl > 0 THEN now + Ttl ELSE 0]
                               ELSE IF j \in gone THEN NoKey ELSE StoreOf[j]]
      BY <2>6 DEF Map!Put
    <3> WITNESS lost \in SUBSET (Map!Held \ {k})
    <3> QED BY <2>4, <2>5, <2>7
<1>6. ASSUME NEW k \in Keys, Invalidate(k)
      PROVE  \E ks \in SUBSET Keys : Map!Drop(ks)
  <2>1. sweep = {} /\ sweep' = {}
    BY <1>6 DEF Invalidate
  <2>2. StoreOf' = [j \in Keys |-> IF j \in {k} THEN NoKey ELSE StoreOf[j]]
    <3>1. CASE k \in entries
      <4>1. RemoveElement(PosOf(k))
        BY <1>6, <3>1 DEF Invalidate
      <4>2. /\ entries' = entries \ {k}
            /\ \A j \in entries' : ElementOf(lru', j) = ElementOf(lru, j)
        BY <4>1, <3>1, RemovePreserves
      <4> QED BY <2>1, <4>2, StoreAfter
    <3>2. CASE k \notin entries
      <4>1. entries' = entries /\ lru' = lru
        BY <1>6, <3>2 DEF Invalidate
      <4>2. entries' \ sweep' = (entries \ sweep) \ {k}
        BY <2>1, <3>2, <4>1
      <4>3. \A j \in entries' \ sweep' : ElementOf(lru', j) = ElementOf(lru, j)
        BY <4>1
      <4>4. {k} \in SUBSET Keys
        OBVIOUS
      <4> QED BY <4>2, <4>3, <4>4, StoreAfter
    <3> QED BY <3>1, <3>2
  <2>3. Map!Drop({k})
    BY <1>6, <2>2 DEF Invalidate, Answer, Map!Drop
  <2> QED BY <2>3
<1>7. ASSUME NEW k \in Keys, SweepOne(k)
      PROVE  UNCHANGED Map!mapVars
  <2>1. /\ k \in sweep /\ k \in entries /\ RemoveElement(PosOf(k))
        /\ sweep' = sweep \ {k} /\ UNCHANGED <<now, reply>>
    BY <1>7, <1>e DEF SweepOne
  <2>2. /\ entries' = entries \ {k}
        /\ \A j \in entries' : ElementOf(lru', j) = ElementOf(lru, j)
    BY <2>1, RemovePreserves
  <2>3. entries' \ sweep' = (entries \ sweep) \ {}
    BY <2>1, <2>2
  <2>4. StoreOf' = [j \in Keys |-> IF j \in {} THEN NoKey ELSE StoreOf[j]]
    <3>1. {} \in SUBSET Keys /\ \A j \in entries' \ sweep' : ElementOf(lru', j) = ElementOf(lru, j)
      BY <2>2
    <3> QED BY <2>3, <3>1, StoreAfter
  <2>5. StoreOf' = StoreOf
    BY <2>4 DEF StoreOf
  <2> QED BY <2>1, <2>5 DEF Map!mapVars
<1>8. ASSUME NEW ks \in PrefixSets, InvalidatePrefix(ks)
      PROVE  \E D \in SUBSET Keys : Map!Drop(D)
  <2>1. /\ sweep = {} /\ sweep' = entries \cap ks
        /\ entries' = entries /\ lru' = lru /\ now' = now
    BY <1>8 DEF InvalidatePrefix
  <2>2. ks \in SUBSET Keys
    BY CacheAssumption
  <2>3. entries' \ sweep' = (entries \ sweep) \ ks
    BY <2>1
  <2>4. \A j \in entries' \ sweep' : ElementOf(lru', j) = ElementOf(lru, j)
    BY <2>1
  <2>5. StoreOf' = [j \in Keys |-> IF j \in ks THEN NoKey ELSE StoreOf[j]]
    BY <2>2, <2>3, <2>4, StoreAfter
  <2>6. Map!Drop(ks)
    BY <1>8, <2>1, <2>5 DEF InvalidatePrefix, Answer, Map!Drop
  <2> QED BY <2>2, <2>6
<1>9. ASSUME Tick
      PROVE  Map!Tick
  BY <1>9, <1>u DEF Tick, Map!Tick
<1>10. CASE UNCHANGED vars
  BY <1>10, <1>u DEF vars, Map!mapVars
<1> QED
  BY <1>1, <1>2, <1>3, <1>4, <1>5, <1>6, <1>7, <1>8, <1>9, <1>10
  DEF Next, Map!Next

\* cache.go: for every set of keys, limit and TTL the cache is the bounded
\* map with expiry that its callers take it for.
THEOREM Refinement == Spec => ImplementsMap
<1>1. IInv /\ IInv' /\ [Next]_vars => [Map!Next]_Map!mapVars
  BY StepRefines
<1> QED BY <1>1, InitRefines, Invariance, PTL DEF Spec, ImplementsMap, Map!Spec

-----------------------------------------------------------------------------
\* The order of a list agrees with the order o of uses.
InOrder(l, o) ==
  \A i, j \in 1..Len(l) : i < j => <<l[i].key, l[j].key>> \in o

\* The inductive invariant of the eviction order.  A sweep removes keys and
\* leaves the reply as it is, so what the reply says while one runs counts.
OrderInv ==
  /\ IInv
  /\ InOrder(lru, older)
  /\ sweep # {} => reply.op = "drop"

LEMMA RemoveInOrder ==
  ASSUME NEW l \in Seq(Element), NEW o, InOrder(l, o), NEW i \in 1..Len(l)
  PROVE  InOrder(RemoveAt(l, i), o)
<1> DEFINE r == RemoveAt(l, i)
<1>1. Len(l) \in Nat
  BY LenProperties
<1>2. /\ Len(r) = Len(l) - 1
      /\ \A j \in 1..(Len(l) - 1) : r[j] = IF j < i THEN l[j] ELSE l[j + 1]
  BY RemoveAtProperties
<1> HIDE DEF r
<1>3. ASSUME NEW a \in 1..Len(r), NEW b \in 1..Len(r), a < b
      PROVE  <<r[a].key, r[b].key>> \in o
  <2>1. PICK x \in 1..Len(l), y \in 1..Len(l) :
          x < y /\ r[a] = l[x] /\ r[b] = l[y]
    <3>1. CASE b < i
      BY <3>1, <1>1, <1>2, <1>3
    <3>2. CASE a < i /\ b >= i
      BY <3>2, <1>1, <1>2, <1>3
    <3>3. CASE a >= i
      <4>1. a + 1 \in 1..Len(l) /\ b + 1 \in 1..Len(l) /\ a + 1 < b + 1
        BY <1>1, <1>2, <1>3
      <4>2. r[a] = l[a + 1] /\ r[b] = l[b + 1]
        BY <3>3, <1>1, <1>2, <1>3
      <4> QED BY <4>1, <4>2
    <3> QED BY <3>1, <3>2, <3>3, <1>1, <1>2, <1>3
  <2> QED BY <2>1 DEF InOrder
<1> QED BY <1>3 DEF InOrder, r

\* The key pushed to the back is the one used last.
LEMMA AppendInOrder ==
  ASSUME NEW l, NEW E \in SUBSET Keys, Matches(l, E), InOrder(l, older),
         NEW e \in Element, e.key \notin E
  PROVE  InOrder(Append(l, e), Used(e.key))
<1> DEFINE r == Append(l, e)
<1>1. l \in Seq(Element) /\ Len(l) \in Nat
  BY LenProperties DEF Matches
<1>2. /\ Len(r) = Len(l) + 1
      /\ \A j \in 1..Len(l) : r[j] = l[j]
      /\ r[Len(l) + 1] = e
  BY <1>1, AppendProperties
<1> HIDE DEF r
<1>3. \A j \in 1..Len(l) : l[j].key \in Keys \ {e.key}
  BY DEF Matches
<1>4. ASSUME NEW a \in 1..Len(r), NEW b \in 1..Len(r), a < b
      PROVE  <<r[a].key, r[b].key>> \in Used(e.key)
  <2>1. a \in 1..Len(l) /\ r[a] = l[a] /\ l[a].key \in Keys \ {e.key}
    BY <1>1, <1>2, <1>3, <1>4
  <2>2. CASE b = Len(l) + 1
    BY <2>1, <2>2, <1>2 DEF Used
  <2>3. CASE b # Len(l) + 1
    <3>1. b \in 1..Len(l) /\ r[b] = l[b]
      BY <2>3, <1>1, <1>2
    <3>2. <<l[a].key, l[b].key>> \in older
      BY <3>1, <2>1, <1>4 DEF InOrder
    <3> QED BY <3>1, <3>2, <2>1 DEF Used
  <2> QED BY <2>2, <2>3
<1> QED BY <1>4 DEF InOrder, r

\* A use moves the element to the back of the list and of the order.
LEMMA MoveInOrder ==
  ASSUME OrderInv, NEW k \in entries, NEW e \in Element, e.key = k
  PROVE  InOrder(MoveToBack(PosOf(k), e), Used(k))
<1> DEFINE m == RemoveAt(lru, PosOf(k))
<1>1. IInv /\ InOrder(lru, older) /\ Matches(lru, entries) /\ entries \subseteq Keys
  BY DEF OrderInv, IInv, TypeOK
<1>2. PosOf(k) \in 1..Len(lru) /\ lru[PosOf(k)].key = k
  BY <1>1, PosProperties
<1>3. Matches(m, entries \ {k})
  BY <1>1, <1>2, RemoveMatches
<1>4. InOrder(m, older)
  BY <1>1, <1>2, RemoveInOrder DEF Matches
<1> HIDE DEF m
<1>5. InOrder(Append(m, e), Used(e.key))
  BY <1>1, <1>3, <1>4, AppendInOrder
<1> QED BY <1>5 DEF MoveToBack, m

LEMMA DropInOrder ==
  ASSUME OrderInv, NEW k \in entries, RemoveElement(PosOf(k)), older' = older
  PROVE  InOrder(lru', older')
<1>1. PosOf(k) \in 1..Len(lru) /\ lru \in Seq(Element) /\ InOrder(lru, older)
  BY PosProperties DEF OrderInv, IInv, Matches
<1> QED BY <1>1, RemoveInOrder DEF RemoveElement

\* A full cache evicts the front of the list.
LEMMA FullEvictsFront ==
  ASSUME OrderInv, NEW k \in Keys, NEW v \in Values, SetNew(k, v),
         Cardinality(entries) >= Limit
  PROVE  /\ lru # <<>> /\ 1 \in 1..Len(lru) /\ Head(lru) = lru[1]
         /\ Tail(lru) = RemoveAt(lru, 1)
         /\ entries' = (entries \ {lru[1].key}) \cup {k}
<1>1. Cardinality(entries) \in Nat /\ Limit \in Nat /\ Limit >= 1
  BY EntriesFinite, LimitPositive DEF OrderInv, IInv, TypeOK
<1>2. entries # {}
  BY <1>1, FS_EmptySet
<1>3. Matches(lru, entries) /\ lru \in Seq(Element) /\ Len(lru) \in Nat
  BY LenProperties DEF OrderInv, IInv, Matches
<1>4. lru # <<>> /\ Len(lru) >= 1
  BY <1>2, <1>3, EmptySeq DEF Matches
<1>5. 1 \in 1..Len(lru) /\ Head(lru) = lru[1]
  BY <1>3, <1>4, TailMatches
<1>6. Tail(lru) = RemoveAt(lru, 1)
  BY <1>3, <1>4, TailIsRemoveFirst
<1> QED BY <1>4, <1>5, <1>6 DEF SetNew

LEMMA NewInOrder ==
  ASSUME OrderInv, NEW k \in Keys, NEW v \in Values, SetNew(k, v), older' = Used(k)
  PROVE  InOrder(lru', older')
<1>1. Fresh(k, v) \in Element /\ Fresh(k, v).key = k
  BY FreshType DEF OrderInv
<1>2. /\ Matches(lru, entries) /\ InOrder(lru, older) /\ lru \in Seq(Element)
      /\ entries \in SUBSET Keys /\ k \notin entries
  BY DEF OrderInv, IInv, TypeOK, Matches, SetNew
<1> DEFINE e == Fresh(k, v)
<1>3. CASE Cardinality(entries) >= Limit
  <2> DEFINE t == RemoveAt(lru, 1)
  <2>1. 1 \in 1..Len(lru) /\ Tail(lru) = t
    BY <1>3, FullEvictsFront
  <2>2. Matches(t, entries \ {lru[1].key}) /\ InOrder(t, older)
    BY <2>1, <1>2, RemoveMatches, RemoveInOrder
  <2>3. lru' = Append(t, e)
    BY <1>3, <2>1 DEF SetNew
  <2> HIDE DEF t, e
  <2>4. InOrder(Append(t, e), Used(e.key))
    BY <2>2, <1>1, <1>2, AppendInOrder DEF e
  <2> QED BY <2>3, <2>4, <1>1 DEF e
<1>4. CASE ~(Cardinality(entries) >= Limit)
  <2>1. lru' = Append(lru, e)
    BY <1>4 DEF SetNew
  <2> HIDE DEF e
  <2>2. InOrder(Append(lru, e), Used(e.key))
    BY <1>1, <1>2, AppendInOrder DEF e
  <2> QED BY <2>1, <2>2, <1>1 DEF e
<1> QED BY <1>3, <1>4

LEMMA InitOrder == HInit => OrderInv
<1> SUFFICES ASSUME HInit
             PROVE  OrderInv
  OBVIOUS
<1>1. IInv
  BY InitIInv DEF HInit
<1>2. InOrder(lru, older)
  BY EmptySeq DEF HInit, Init, InOrder
<1> QED BY <1>1, <1>2 DEF HInit, Init, OrderInv

\* Recording the uses does not restrict the cache.
LEMMA HistoryIsNext == [HNext]_hvars => [Next]_vars
  BY DEF HNext, Next, hvars, vars

LEMMA StepOrder ==
  ASSUME OrderInv, [HNext]_hvars
  PROVE  OrderInv'
<1>1. IInv'
  BY HistoryIsNext, StepIInv DEF OrderInv
<1>2. sweep \subseteq entries
  BY DEF OrderInv, IInv, TypeOK
<1>3. (sweep # {} => reply.op = "drop")'
  BY DEF OrderInv, HNext, hvars, GetMiss, GetExpired, GetHit, SetExisting, SetNew,
         Invalidate, InvalidatePrefix, SweepOne, Tick, Answer
<1>4. InOrder(lru', older')
  <2>0. ASSUME lru' = lru, older' = older
        PROVE  InOrder(lru', older')
    BY <2>0 DEF OrderInv
  <2>1. ASSUME NEW k \in Keys, older' = older,
               GetMiss(k) \/ GetExpired(k) \/ Invalidate(k) \/ SweepOne(k)
        PROVE  InOrder(lru', older')
    <3>1. lru' = lru \/ (k \in entries /\ RemoveElement(PosOf(k)))
      BY <2>1, <1>2 DEF GetMiss, GetExpired, Invalidate, SweepOne
    <3> QED BY <3>1, <2>0, <2>1, DropInOrder
  <2>2. ASSUME NEW k \in Keys, GetHit(k), older' = Used(k)
        PROVE  InOrder(lru', older')
    <3>1. k \in entries /\ lru' = MoveToBack(PosOf(k), lru[PosOf(k)])
      BY <2>2 DEF GetHit
    <3>2. lru[PosOf(k)] \in Element /\ lru[PosOf(k)].key = k
      BY <3>1, PosProperties DEF OrderInv
    <3> QED BY <3>1, <3>2, <2>2, MoveInOrder
  <2>3. ASSUME NEW k \in Keys, NEW v \in Values, SetExisting(k, v), older' = Used(k)
        PROVE  InOrder(lru', older')
    <3>1. k \in entries /\ lru' = MoveToBack(PosOf(k), Fresh(k, v))
      BY <2>3 DEF SetExisting
    <3>2. Fresh(k, v) \in Element /\ Fresh(k, v).key = k
      BY FreshType DEF OrderInv
    <3> QED BY <3>1, <3>2, <2>3, MoveInOrder
  <2>4. ASSUME NEW k \in Keys, NEW v \in Values, SetNew(k, v), older' = Used(k)
        PROVE  InOrder(lru', older')
    BY <2>4, NewInOrder
  <2>5. ASSUME NEW ks \in PrefixSets, InvalidatePrefix(ks), older' = older
        PROVE  InOrder(lru', older')
    BY <2>5, <2>0 DEF InvalidatePrefix
  <2>6. ASSUME Tick, older' = older
        PROVE  InOrder(lru', older')
    BY <2>6, <2>0 DEF Tick
  <2>7. CASE UNCHANGED hvars
    BY <2>7, <2>0 DEF hvars
  <2> QED BY <2>1, <2>2, <2>3, <2>4, <2>5, <2>6, <2>7 DEF HNext
<1> QED BY <1>1, <1>3, <1>4 DEF OrderInv

\* What a Set pushes out is at the front, so before all that stay.
LEMMA StepEvictsOldest ==
  ASSUME OrderInv, [HNext]_hvars, NEW k \in entries \ entries',
         reply'.op = "set", NEW j \in entries \cap entries'
  PROVE  <<k, j>> \in older
<1>1. PICK n \in Keys, v \in Values : SetNew(n, v)
  BY DEF OrderInv, HNext, hvars, GetMiss, GetExpired, GetHit, SetExisting,
         Invalidate, InvalidatePrefix, SweepOne, Tick, Answer
<1>2. Cardinality(entries) >= Limit
  BY <1>1 DEF SetNew
<1>3. /\ 1 \in 1..Len(lru)
      /\ entries' = (entries \ {lru[1].key}) \cup {n}
  BY <1>1, <1>2, FullEvictsFront
<1>4. k = lru[1].key /\ j # k
  BY <1>3
<1>5. Matches(lru, entries) /\ InOrder(lru, older) /\ Len(lru) \in Nat
  BY LenProperties DEF OrderInv, IInv, Matches
<1>6. PICK i \in 1..Len(lru) : lru[i].key = j
  BY <1>5 DEF Matches
<1>7. 1 < i
  BY <1>3, <1>4, <1>5, <1>6
<1> QED BY <1>3, <1>4, <1>5, <1>6, <1>7 DEF InOrder

\* cache.go: the entry a Set of a new key pushes out was used before every
\* entry that stays, for every limit, TTL and order of hits, overwrites,
\* expiries, invalidations and half-done sweeps.
THEOREM EvictionOrder == HSpec => EvictsLeastRecentlyUsed
<1>1. OrderInv /\ [HNext]_hvars => OrderInv'
  BY StepOrder
<1>2. OrderInv /\ [HNext]_hvars =>
        [\A k \in entries \ entries' :
           reply'.op = "set" => \A j \in entries \cap entries' : <<k, j>> \in older]_hvars
  BY StepEvictsOldest
<1> QED BY <1>1, <1>2, InitOrder, PTL DEF HSpec, EvictsLeastRecentlyUsed

\* The order of the list is that of the uses: which of two entries present
\* goes first is decided by the last hit or Set of each, and by nothing else.
THEOREM ListOrderIsUseOrder == HSpec => []InOrder(lru, older)
<1>1. OrderInv => InOrder(lru, older)
  BY DEF OrderInv
<1>2. OrderInv /\ [HNext]_hvars => OrderInv'
  BY StepOrder
<1> QED BY <1>1, <1>2, InitOrder, PTL DEF HSpec

\* The history the two theorems above speak of is an order: no key is older
\* than itself, no two are each older than the other.
StrictOrder ==
  /\ older \subseteq Keys \X Keys
  /\ \A j \in Keys : <<j, j>> \notin older
  /\ \A i, j, k \in Keys :
       <<i, j>> \in older /\ <<j, k>> \in older => <<i, k>> \in older

LEMMA UsedStrict ==
  ASSUME StrictOrder, NEW k \in Keys, older' = Used(k)
  PROVE  StrictOrder'
<1>1. \A a, b \in Keys : <<a, b>> \in older' <=>
                           (a # k /\ (b = k \/ <<a, b>> \in older))
  BY DEF Used, StrictOrder
<1>2. older' \subseteq Keys \X Keys
  BY DEF Used, StrictOrder
<1>3. \A j \in Keys : <<j, j>> \notin older'
  BY <1>1 DEF StrictOrder
<1>4. ASSUME NEW a \in Keys, NEW b \in Keys, NEW c \in Keys,
             <<a, b>> \in older', <<b, c>> \in older'
      PROVE  <<a, c>> \in older'
  <2>1. a # k /\ b # k /\ <<a, b>> \in older
    BY <1>1, <1>4
  <2>2. c = k \/ <<b, c>> \in older
    BY <1>1, <1>4
  <2> QED BY <2>1, <2>2, <1>1 DEF StrictOrder
<1> QED BY <1>2, <1>3, <1>4 DEF StrictOrder

\* The uses recorded of the cache are strictly ordered in every reachable
\* state, so "used before" can be false and never holds both ways.
LEMMA UsesAreOrdered == HSpec => []StrictOrder
<1>1. HInit => StrictOrder
  BY DEF HInit, StrictOrder
<1>2. StrictOrder /\ [HNext]_hvars => StrictOrder'
  <2> SUFFICES ASSUME StrictOrder, [HNext]_hvars
               PROVE  StrictOrder'
    OBVIOUS
  <2>1. CASE older' = older
    BY <2>1 DEF StrictOrder
  <2>2. CASE older' # older
    <3>1. PICK k \in Keys : older' = Used(k)
      BY <2>2 DEF HNext, hvars
    <3> QED BY <3>1, UsedStrict
  <2> QED BY <2>1, <2>2
<1> QED BY <1>1, <1>2, PTL DEF HSpec
=============================================================================
