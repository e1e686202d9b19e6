-------------------------- MODULE GitalyFS_proofs --------------------------
(***************************************************************************)
(* InvalidatePaths covers what a commit changes, for every tree of paths,  *)
(* and so every stale entry of the cache has one of the known causes; when *)
(* nothing goes wrong outside the only one that is left is a late fill.    *)
(***************************************************************************)
EXTENDS GitalyFS, TLAPS, SequenceTheorems

(* Prefixes of sequences.                                                  *)

\* A prefix agrees with the sequence wherever it has an element.
LEMMA PrefixAgrees ==
  ASSUME NEW S, NEW s \in Seq(S), NEW t \in Seq(S)
  PROVE  IsPrefix(s, t) <=> /\ Len(s) <= Len(t)
                            /\ \A i \in 1..Len(s) : s[i] = t[i]
<1>1. /\ Len(s) \in Nat /\ Len(t) \in Nat
      /\ \A i \in 1..Len(t) : t[i] \in S
  BY LenProperties, ElementOfSeq
<1>2. SubSeq(s, 1, Len(s)) = s
  BY SubSeqFull
<1>3. ASSUME Len(s) <= Len(t)
      PROVE  /\ SubSeq(t, 1, Len(s)) \in Seq(S)
             /\ Len(SubSeq(t, 1, Len(s))) = Len(s)
             /\ \A i \in 1..Len(s) : SubSeq(t, 1, Len(s))[i] = t[i]
  <2>1. \A i \in 1..Len(s) : t[i] \in S
    BY <1>1, <1>3
  <2>2. /\ SubSeq(t, 1, Len(s)) \in Seq(S)
        /\ Len(SubSeq(t, 1, Len(s))) = IF 1 <= Len(s) THEN Len(s) - 1 + 1 ELSE 0
        /\ \A i \in 1..(Len(s) - 1 + 1) : SubSeq(t, 1, Len(s))[i] = t[1 + i - 1]
    BY <2>1, <1>1, SubSeqProperties
  <2> QED BY <2>2, <1>1
<1>4. ASSUME Len(s) <= Len(t), \A i \in 1..Len(s) : s[i] = t[i]
      PROVE  s = SubSeq(t, 1, Len(s))
  <2>1. Len(s) = Len(SubSeq(t, 1, Len(s)))
    BY <1>3, <1>4
  <2>2. SubSeq(t, 1, Len(s)) \in Seq(S)
    BY <1>3, <1>4
  <2>3. \A i \in 1..Len(s) : s[i] = SubSeq(t, 1, Len(s))[i]
    BY <1>3, <1>4
  <2> QED BY <2>1, <2>2, <2>3, SeqEqual
<1> QED BY <1>2, <1>3, <1>4 DEF IsPrefix

\* A strict prefix is shorter.
LEMMA StrictPrefixAgrees ==
  ASSUME NEW S, NEW s \in Seq(S), NEW t \in Seq(S)
  PROVE  IsStrictPrefix(s, t) <=> /\ Len(s) < Len(t)
                                  /\ \A i \in 1..Len(s) : s[i] = t[i]
<1>1. Len(s) \in Nat /\ Len(t) \in Nat
  BY LenProperties
<1>2. ASSUME Len(s) = Len(t), \A i \in 1..Len(s) : s[i] = t[i]
      PROVE  s = t
  BY <1>2, SeqEqual
<1> QED BY <1>1, <1>2, PrefixAgrees DEF IsStrictPrefix

\* Two prefixes of one sequence are comparable.
LEMMA PrefixesCompare ==
  ASSUME NEW S, NEW s \in Seq(S), NEW t \in Seq(S), NEW u \in Seq(S),
         IsPrefix(s, u), IsPrefix(t, u)
  PROVE  IsStrictPrefix(s, t) \/ s = t \/ IsStrictPrefix(t, s)
<1>1. Len(s) \in Nat /\ Len(t) \in Nat
  BY LenProperties
<1>2. /\ Len(s) <= Len(u) /\ \A i \in 1..Len(s) : s[i] = u[i]
      /\ Len(t) <= Len(u) /\ \A i \in 1..Len(t) : t[i] = u[i]
  BY PrefixAgrees
<1>3. CASE Len(s) < Len(t)
  BY <1>1, <1>2, <1>3, StrictPrefixAgrees
<1>4. CASE Len(t) < Len(s)
  BY <1>1, <1>2, <1>4, StrictPrefixAgrees
<1>5. CASE Len(s) = Len(t)
  BY <1>1, <1>2, <1>5, SeqEqual
<1> QED BY <1>1, <1>3, <1>4, <1>5

\* What comes before the last element.
LEMMA AppendPrefix ==
  ASSUME NEW S, NEW s \in Seq(S), NEW e \in S, NEW t \in Seq(S),
         IsStrictPrefix(t, Append(s, e))
  PROVE  IsStrictPrefix(t, s) \/ t = s
<1> DEFINE a == Append(s, e)
<1>1. Len(s) \in Nat /\ Len(t) \in Nat
  BY LenProperties
<1>2. /\ a \in Seq(S) /\ Len(a) = Len(s) + 1
      /\ \A i \in 1..Len(s) : a[i] = s[i]
  BY AppendProperties
<1>a. IsStrictPrefix(t, a)
  OBVIOUS
<1> HIDE DEF a
<1>3. Len(t) < Len(s) + 1 /\ \A i \in 1..Len(t) : t[i] = a[i]
  BY <1>2, <1>a, StrictPrefixAgrees
<1>4. Len(t) <= Len(s) /\ \A i \in 1..Len(t) : t[i] = s[i]
  BY <1>1, <1>2, <1>3
<1>5. CASE Len(t) < Len(s)
  BY <1>4, <1>5, StrictPrefixAgrees
<1>6. CASE Len(t) = Len(s)
  BY <1>4, <1>6, SeqEqual
<1> QED BY <1>1, <1>4, <1>5, <1>6

-----------------------------------------------------------------------------
(* What a commit changes.                                                  *)

LEMMA PathTypes ==
  /\ \A p \in Paths : p \in Seq(Names) /\ Len(p) \in Nat
  /\ <<>> \in Paths /\ Len(<<>>) = 0
  /\ \A k \in Keys : k.path \in Paths /\ k.kind \in {"tree", "meta", "blob"}
  /\ \A p \in Paths : \A kind \in {"tree", "meta", "blob"} : Key(kind, p) \in Keys
  /\ \A k \in Keys : k = Key(k.kind, k.path)
<1>1. \A p \in Paths : p \in Seq(Names)
  BY FSAssumption DEF Paths
<1>2. \A p \in Paths : Len(p) \in Nat
  BY <1>1, LenProperties
<1>3. <<>> \in Paths /\ Len(<<>>) = 0
  BY FSAssumption, EmptySeq DEF Paths
<1> QED BY <1>1, <1>2, <1>3 DEF Keys, Key

\* The answer at key k depends on the file f.
DependsOn(k, f) ==
  IF k.kind = "tree" THEN k.path \in Dirs /\ IsStrictPrefix(k.path, f)
                     ELSE f = k.path

\* It depends on nothing else.
LEMMA AnswerDepends ==
  ASSUME NEW k \in Keys, NEW r1, NEW r2,
         \A f \in Files : DependsOn(k, f) => r1[f] = r2[f]
  PROVE  Answer(k, r1) = Answer(k, r2)
<1>1. CASE k.kind = "tree" /\ k.path \in Dirs
  <2>1. \A f \in Files : IsStrictPrefix(k.path, f) => r1[f] = r2[f]
    BY <1>1 DEF DependsOn
  <2>2. IsDir(k.path, r1) = IsDir(k.path, r2)
    BY <2>1 DEF IsDir
  <2>3. List(k.path, r1) = List(k.path, r2)
    BY <2>1 DEF List
  <2> QED BY <1>1, <2>2, <2>3 DEF Answer
<1>2. CASE k.kind = "tree" /\ k.path \notin Dirs
  BY <1>2 DEF Answer
<1>3. CASE k.kind # "tree"
  BY <1>3 DEF Answer, DependsOn
<1> QED BY <1>1, <1>2, <1>3

\* The files an operation can change.
Touches(op, f) ==
  CASE op.kind = "mkdir" -> f = Append(op.path, Keep)
    [] op.kind = "move"  -> IsPrefix(op.from, f) \/ IsPrefix(op.path, f)
    [] OTHER             -> f = op.path

LEMMA EffectTouches ==
  ASSUME NEW op \in Operations, NEW r \in [Files -> Contents \cup {None}],
         NEW f \in Files, Effect(op, r)[f] # r[f]
  PROVE  Touches(op, f)
<1>1. CASE op.kind = "create"
  BY <1>1 DEF Effect, Touches
<1>2. CASE op.kind = "mkdir"
  BY <1>2 DEF Effect, Touches
<1>3. CASE op.kind = "update"
  BY <1>3 DEF Effect, Touches
<1>4. CASE op.kind = "move"
  BY <1>4 DEF Effect, Touches, AtOrBelow
<1> QED BY <1>1, <1>2, <1>3, <1>4 DEF Operations

-----------------------------------------------------------------------------
(* What its handler invalidates.                                           *)

\* The keys of one affected path: its own, and the trees of its ancestors
\* below the root.
LEMMA PathKeysHold ==
  ASSUME NEW p \in Paths
  PROVE  /\ PathKeys(p) \in Seq(Keys)
         /\ \A kind \in {"tree", "meta", "blob"} : Key(kind, p) \in ToSet(PathKeys(p))
         /\ \A d \in Paths : IsStrictPrefix(d, p) /\ d # <<>>
              => Key("tree", d) \in ToSet(PathKeys(p))
<1> DEFINE own == <<Key("tree", p), Key("meta", p), Key("blob", p)>>
           up == [i \in 1..(Len(p) - 1) |-> Key("tree", SubSeq(p, 1, Len(p) - i))]
<1>1. p \in Seq(Names) /\ Len(p) \in Nat /\ \A i \in 1..Len(p) : p[i] \in Names
  BY PathTypes, ElementOfSeq
<1>2. own \in Seq(Keys) /\ Len(own) = 3
  BY PathTypes
<1>3. ASSUME NEW i \in 1..(Len(p) - 1)
      PROVE  Key("tree", SubSeq(p, 1, Len(p) - i)) \in Keys
  <2>1. Len(p) - i \in 0..(Len(p) - 1)
    BY <1>1
  <2>2. SubSeq(p, 1, Len(p) - i) \in Dirs
    BY <2>1, FSAssumption
  <2> QED BY <2>2, PathTypes DEF Paths
<1>4. up \in Seq(Keys) /\ Len(up) = IF Len(p) = 0 THEN 0 ELSE Len(p) - 1
  <2>1. CASE Len(p) = 0
    <3>1. up = <<>>
      BY <2>1
    <3> QED BY <2>1, <3>1, EmptySeq
  <2>2. CASE Len(p) # 0
    <3>1. Len(p) - 1 \in Nat
      BY <1>1, <2>2
    <3>2. up \in [1..(Len(p) - 1) -> Keys]
      BY <1>3
    <3> HIDE DEF up
    <3>3. up \in Seq(Keys)
      BY <3>1, <3>2, SeqDef
    <3>4. DOMAIN up = 1..(Len(p) - 1)
      BY <3>2
    <3>5. Len(up) \in Nat /\ 1..Len(up) = 1..(Len(p) - 1)
      BY <3>3, <3>4, LenProperties
    <3>6. Len(up) = Len(p) - 1
      BY <3>1, <3>5
    <3> QED BY <2>2, <3>3, <3>6
  <2> QED BY <2>1, <2>2
<1>5. PathKeys(p) = own \o up
  BY DEF PathKeys
<1>6. \A i \in 1..(Len(p) - 1) : up[i] = Key("tree", SubSeq(p, 1, Len(p) - i))
  OBVIOUS
<1>7. own[1] = Key("tree", p) /\ own[2] = Key("meta", p) /\ own[3] = Key("blob", p)
  OBVIOUS
<1> HIDE DEF own, up
<1>8. /\ own \o up \in Seq(Keys) /\ Len(own \o up) = 3 + Len(up)
      /\ \A i \in 1..(3 + Len(up)) :
           (own \o up)[i] = IF i <= 3 THEN own[i] ELSE up[i - 3]
  <2>1. /\ own \o up \in Seq(Keys) /\ Len(own \o up) = Len(own) + Len(up)
        /\ \A i \in 1..(Len(own) + Len(up)) :
             (own \o up)[i] = IF i <= Len(own) THEN own[i] ELSE up[i - Len(own)]
    BY <1>2, <1>4, ConcatProperties
  <2> QED BY <1>2, <2>1
<1>9. ToSet(PathKeys(p)) = {(own \o up)[i] : i \in 1..(3 + Len(up))}
  BY <1>5, <1>8, LenProperties DEF ToSet
<1>10. \A kind \in {"tree", "meta", "blob"} : Key(kind, p) \in ToSet(PathKeys(p))
  <2>1. Len(up) \in Nat
    BY <1>1, <1>4
  <2>2. 1 \in 1..(3 + Len(up)) /\ 2 \in 1..(3 + Len(up)) /\ 3 \in 1..(3 + Len(up))
    BY <2>1
  <2>3. (own \o up)[1] = own[1] /\ (own \o up)[2] = own[2] /\ (own \o up)[3] = own[3]
    BY <2>2, <1>8
  <2> QED BY <2>2, <2>3, <1>7, <1>9
<1>11. ASSUME NEW d \in Paths, IsStrictPrefix(d, p), d # <<>>
       PROVE  Key("tree", d) \in ToSet(PathKeys(p))
  <2>1. /\ d \in Seq(Names) /\ Len(d) \in Nat \ {0} /\ Len(d) < Len(p)
        /\ d = SubSeq(p, 1, Len(d))
    <3>1. d \in Seq(Names) /\ Len(d) \in Nat \ {0}
      BY <1>11, PathTypes, EmptySeq
    <3>2. Len(d) < Len(p)
      BY <3>1, <1>1, <1>11, StrictPrefixAgrees
    <3>3. SubSeq(d, 1, Len(d)) = SubSeq(p, 1, Len(d))
      BY <1>11 DEF IsStrictPrefix, IsPrefix
    <3>4. SubSeq(d, 1, Len(d)) = d
      BY <3>1, SubSeqFull
    <3> QED BY <3>1, <3>2, <3>3, <3>4
  <2> DEFINE i == Len(p) - Len(d)
  <2>2. i \in 1..(Len(p) - 1) /\ Len(p) - i = Len(d)
    BY <2>1, <1>1
  <2>3. up[i] = Key("tree", d)
    BY <2>1, <2>2, <1>6
  <2>4. /\ i + 3 \in 1..(3 + Len(up)) /\ (own \o up)[i + 3] = up[i]
    <3>1. Len(up) = Len(p) - 1
      BY <2>2, <1>1, <1>4
    <3>2. i + 3 \in 1..(3 + Len(up)) /\ ~(i + 3 <= 3) /\ (i + 3) - 3 = i
      BY <2>2, <3>1, <1>1
    <3> HIDE DEF i
    <3> QED BY <3>2, <1>8
  <2> HIDE DEF i
  <2> QED BY <2>3, <2>4, <1>9
<1> QED BY <1>5, <1>8, <1>10, <1>11

\* A list holds what its two parts hold.
LEMMA ToSetConcat ==
  ASSUME NEW S, NEW s \in Seq(S), NEW t \in Seq(S)
  PROVE  /\ s \o t \in Seq(S)
         /\ ToSet(s \o t) = ToSet(s) \cup ToSet(t)
<1>1. /\ s \o t \in Seq(S) /\ Len(s \o t) = Len(s) + Len(t)
      /\ \A i \in 1..(Len(s) + Len(t)) :
           (s \o t)[i] = IF i <= Len(s) THEN s[i] ELSE t[i - Len(s)]
  BY ConcatProperties
<1>2. Len(s) \in Nat /\ Len(t) \in Nat
  BY LenProperties
<1>3. /\ ToSet(s) = {s[i] : i \in 1..Len(s)} /\ ToSet(t) = {t[i] : i \in 1..Len(t)}
      /\ ToSet(s \o t) = {(s \o t)[i] : i \in 1..(Len(s) + Len(t))}
  BY <1>1, LenProperties DEF ToSet
<1> DEFINE c == s \o t
<1> HIDE DEF c
<1>4. ASSUME NEW i \in 1..(Len(s) + Len(t))
      PROVE  c[i] \in {s[j] : j \in 1..Len(s)} \cup {t[j] : j \in 1..Len(t)}
  <2>1. CASE i <= Len(s)
    BY <1>1, <1>2, <2>1 DEF c
  <2>2. CASE ~(i <= Len(s))
    <3>1. i - Len(s) \in 1..Len(t) /\ c[i] = t[i - Len(s)]
      BY <1>1, <1>2, <2>2 DEF c
    <3> QED BY <3>1
  <2> QED BY <2>1, <2>2
<1>5. ASSUME NEW i \in 1..Len(s)
      PROVE  s[i] \in {c[j] : j \in 1..(Len(s) + Len(t))}
  <2>1. i \in 1..(Len(s) + Len(t)) /\ c[i] = s[i]
    BY <1>1, <1>2 DEF c
  <2> QED BY <2>1
<1>6. ASSUME NEW i \in 1..Len(t)
      PROVE  t[i] \in {c[j] : j \in 1..(Len(s) + Len(t))}
  <2>1. /\ Len(s) + i \in 1..(Len(s) + Len(t)) /\ ~(Len(s) + i <= Len(s))
        /\ (Len(s) + i) - Len(s) = i
    BY <1>2
  <2>2. c[Len(s) + i] = t[i]
    BY <1>1, <2>1 DEF c
  <2> QED BY <2>1, <2>2
<1> QED BY <1>1, <1>3, <1>4, <1>5, <1>6 DEF c

\* The keys a handler invalidates: those of the paths it touched, and the
\* tree of the root.
LEMMA ToInvalidateHolds ==
  ASSUME NEW op \in Operations
  PROVE  /\ ToInvalidate(op) \in Seq(Keys) /\ ToInvalidate(op) # <<>>
         /\ op.path \in Paths
         /\ op.kind = "move" => op.from \in Paths
         /\ Key("tree", <<>>) \in ToSet(ToInvalidate(op))
         /\ ToSet(PathKeys(op.path)) \subseteq ToSet(ToInvalidate(op))
         /\ op.kind = "move" => ToSet(PathKeys(op.from)) \subseteq ToSet(ToInvalidate(op))
<1> DEFINE root == <<Key("tree", <<>>)>>
           head == CASE op.kind = "move"   -> PathKeys(op.from) \o PathKeys(op.path)
                     [] op.kind = "update" -> PathKeys(op.path)
                     [] OTHER -> PathKeys(op.path) \o PathKeys(Parent(op.path))
<1>1. op.path \in Paths /\ op.kind \in {"create", "mkdir", "move", "update"}
  BY DEF Operations, Paths
<1>2. op.kind = "move" => op.from \in Paths
  BY DEF Operations
<1>3. op.kind \in {"create", "mkdir"} => Parent(op.path) \in Paths
  <2> SUFFICES ASSUME op.kind \in {"create", "mkdir"}
               PROVE  Parent(op.path) \in Paths
    OBVIOUS
  <2>1. op.path # <<>>
    BY DEF Operations
  <2>2. Len(op.path) \in Nat \ {0}
    BY <1>1, <2>1, PathTypes, EmptySeq
  <2>3. Len(op.path) - 1 \in 0..(Len(op.path) - 1)
    BY <2>2
  <2> QED BY <1>1, <2>3, FSAssumption DEF Parent, Paths
<1>4. root \in Seq(Keys) /\ Len(root) = 1 /\ ToSet(root) = {Key("tree", <<>>)}
  <2>1. root \in Seq(Keys) /\ Len(root) = 1 /\ root[1] = Key("tree", <<>>)
    BY PathTypes
  <2> HIDE DEF root
  <2>2. DOMAIN root = {1}
    BY <2>1, LenProperties
  <2> QED BY <2>1, <2>2 DEF ToSet
<1>5. /\ PathKeys(op.path) \in Seq(Keys)
      /\ op.kind = "move" => PathKeys(op.from) \in Seq(Keys)
      /\ op.kind \in {"create", "mkdir"} => PathKeys(Parent(op.path)) \in Seq(Keys)
  BY <1>1, <1>2, <1>3, PathKeysHold
<1>6. /\ head \in Seq(Keys)
      /\ ToSet(PathKeys(op.path)) \subseteq ToSet(head)
      /\ op.kind = "move" => ToSet(PathKeys(op.from)) \subseteq ToSet(head)
  <2>1. CASE op.kind = "move"
    <3>1. head = PathKeys(op.from) \o PathKeys(op.path)
      BY <2>1
    <3> QED BY <2>1, <3>1, <1>5, ToSetConcat
  <2>2. CASE op.kind = "update"
    BY <2>2, <1>5
  <2>3. CASE op.kind \in {"create", "mkdir"}
    <3>1. head = PathKeys(op.path) \o PathKeys(Parent(op.path))
      BY <2>3
    <3> QED BY <2>3, <3>1, <1>5, ToSetConcat
  <2> QED BY <1>1, <2>1, <2>2, <2>3
<1>7. ToInvalidate(op) = head \o root
  BY DEF ToInvalidate
<1> HIDE DEF head, root
<1>8. /\ head \o root \in Seq(Keys)
      /\ ToSet(head \o root) = ToSet(head) \cup ToSet(root)
  BY <1>4, <1>6, ToSetConcat
<1>9. head \o root # <<>>
  <2>1. root # <<>>
    BY <1>4, EmptySeq
  <2> QED BY <1>4, <1>6, <2>1, ConcatEqualIffEmpty
<1> QED BY <1>1, <1>2, <1>4, <1>6, <1>7, <1>8, <1>9

\* fs.go:39: what InvalidatePaths is for.  A key with an answer that an
\* accepted commit changes is among the keys its handler invalidates, or
\* lies below a moved path.
THEOREM InvalidationCovers ==
  ASSUME NEW op \in Operations, NEW r \in [Files -> Contents \cup {None}],
         Legal(op, r), NEW k \in Keys,
         Answer(k, r) # None, Answer(k, Effect(op, r)) # Answer(k, r)
  PROVE  k \in ToSet(ToInvalidate(op)) \/ k \in Below(op)
<1>1. PICK f \in Files : DependsOn(k, f) /\ Effect(op, r)[f] # r[f]
  BY AnswerDepends
<1>2. Touches(op, f)
  BY <1>1, EffectTouches
<1>3. /\ f \in Paths /\ f \in Seq(Names) /\ k.path \in Paths /\ k.path \in Seq(Names)
      /\ op.path \in Paths /\ op.path \in Seq(Names)
      /\ k = Key(k.kind, k.path) /\ k.kind \in {"tree", "meta", "blob"}
  BY PathTypes, ToInvalidateHolds DEF Paths
\* The keys of a path p and of its ancestors are covered where p's are.
<1>4. ASSUME NEW p \in Paths, ToSet(PathKeys(p)) \subseteq ToSet(ToInvalidate(op)),
             \/ k.path = p
             \/ k.kind = "tree" /\ IsStrictPrefix(k.path, p)
      PROVE  k \in ToSet(ToInvalidate(op))
  <2>1. CASE k.path = p
    BY <2>1, <1>3, <1>4, PathKeysHold
  <2>2. CASE k.kind = "tree" /\ k.path = <<>>
    BY <2>2, <1>3, ToInvalidateHolds
  <2>3. CASE k.kind = "tree" /\ k.path # <<>> /\ IsStrictPrefix(k.path, p)
    BY <2>3, <1>3, <1>4, PathKeysHold
  <2> QED BY <1>4, <2>1, <2>2, <2>3
<1>5. CASE op.kind \in {"create", "update"}
  <2>1. f = op.path
    BY <1>2, <1>5 DEF Touches
  <2> QED BY <1>1, <1>3, <1>4, <2>1, ToInvalidateHolds DEF DependsOn
<1>6. CASE op.kind = "mkdir"
  <2>1. f = Append(op.path, Keep)
    BY <1>2, <1>6 DEF Touches
  <2>2. Keep \in Names /\ Len(op.path) \in Nat
    BY <1>3, FSAssumption, LenProperties
  <2>3. CASE k.kind = "tree"
    <3>1. IsStrictPrefix(k.path, f)
      BY <2>3, <1>1 DEF DependsOn
    <3>2. IsStrictPrefix(k.path, op.path) \/ k.path = op.path
      BY <2>1, <2>2, <3>1, <1>3, AppendPrefix
    <3> QED BY <2>3, <3>2, <1>3, <1>4, ToInvalidateHolds
  <2>4. CASE k.kind # "tree"
    \* The file Gitaly keeps in the new directory was not there.
    <3>1. k.path = f /\ r[f] # None
      BY <1>1, <2>4 DEF DependsOn, Answer
    <3>2. IsStrictPrefix(op.path, f)
      <4> DEFINE a == Append(op.path, Keep)
      <4>1. /\ a \in Seq(Names) /\ Len(a) = Len(op.path) + 1
            /\ \A i \in 1..Len(op.path) : a[i] = op.path[i]
        BY <1>3, <2>2, AppendProperties
      <4>2. f = a
        BY <2>1
      <4> HIDE DEF a
      <4>3. Len(op.path) < Len(a)
        BY <2>2, <4>1
      <4>4. \A i \in 1..Len(op.path) : op.path[i] = a[i]
        BY <4>1
      <4>5. IsStrictPrefix(op.path, a)
        BY <1>3, <4>1, <4>3, <4>4, StrictPrefixAgrees
      <4> QED BY <4>2, <4>5
    <3>3. IsDir(op.path, r)
      BY <3>1, <3>2 DEF IsDir
    <3>4. op.path \notin Files
      BY <1>6, FSAssumption DEF Operations
    <3> QED BY <1>6, <3>3, <3>4 DEF Legal, Exists
  <2> QED BY <2>3, <2>4
<1>7. CASE op.kind = "move"
  <2>1. PICK p \in {op.from, op.path} : IsPrefix(p, f)
    BY <1>2, <1>7 DEF Touches
  <2>2. /\ p \in Paths /\ p \in Seq(Names)
        /\ ToSet(PathKeys(p)) \subseteq ToSet(ToInvalidate(op))
    BY <2>1, <1>7, ToInvalidateHolds, PathTypes
  <2>3. IsPrefix(k.path, f)
    <3>1. CASE k.kind = "tree"
      BY <3>1, <1>1 DEF DependsOn, IsStrictPrefix
    <3>2. CASE k.kind # "tree"
      <4>1. k.path = f
        BY <3>2, <1>1 DEF DependsOn
      <4>2. Len(f) \in Nat
        BY <1>3, LenProperties
      <4> QED BY <4>1, <4>2 DEF IsPrefix
    <3> QED BY <3>1, <3>2
  <2>4. IsStrictPrefix(k.path, p) \/ k.path = p \/ IsStrictPrefix(p, k.path)
    BY <1>3, <2>1, <2>2, <2>3, PrefixesCompare
  <2>5. CASE IsStrictPrefix(p, k.path)
    BY <2>1, <2>5, <1>7 DEF Below
  <2>6. CASE k.path = p
    BY <2>2, <2>6, <1>4
  <2>7. CASE IsStrictPrefix(k.path, p)
    <3>1. CASE k.kind = "tree"
      BY <2>2, <2>7, <3>1, <1>4
    <3>2. CASE k.kind # "tree"
      \* A file below nothing: its path is no strict prefix of p, as p is
      \* a prefix of it.
      <4>1. k.path = f
        BY <3>2, <1>1 DEF DependsOn
      <4>2. Len(f) < Len(p) /\ Len(p) <= Len(f)
        BY <4>1, <2>1, <2>2, <2>7, <1>3, PrefixAgrees, StrictPrefixAgrees
      <4>3. Len(f) \in Nat /\ Len(p) \in Nat
        BY <1>3, <2>2, LenProperties
      <4> QED BY <4>2, <4>3
    <3> QED BY <3>1, <3>2
  <2> QED BY <2>4, <2>5, <2>6, <2>7
<1> QED BY <1>5, <1>6, <1>7 DEF Operations

-----------------------------------------------------------------------------
(* Types.                                                                  *)

LEMMA AnswerType ==
  ASSUME NEW k \in Keys, NEW r \in [Files -> Contents \cup {None}]
  PROVE  Answer(k, r) \in {None} \cup Contents \cup Listing
<1>1. CASE k.kind = "tree" /\ k.path \in Dirs
  <2>1. ASSUME NEW f \in Files, r[f] # None, IsStrictPrefix(k.path, f)
        PROVE  [path |-> SubSeq(f, 1, Len(k.path) + 1),
                what |-> IF Len(f) = Len(k.path) + 1 THEN r[f] ELSE "subtree"]
                 \in [path : Paths, what : Contents \cup {"subtree"}]
    <3>1. /\ f \in Paths /\ f \in Seq(Names) /\ Len(f) \in Nat
          /\ k.path \in Seq(Names) /\ Len(k.path) \in Nat
      BY PathTypes DEF Paths
    <3>2. Len(k.path) < Len(f)
      BY <3>1, <2>1, StrictPrefixAgrees
    <3>3. SubSeq(f, 1, Len(k.path) + 1) \in Paths
      <4>1. CASE Len(k.path) + 1 = Len(f)
        BY <3>1, <4>1, SubSeqFull
      <4>2. CASE Len(k.path) + 1 # Len(f)
        <5>1. Len(k.path) + 1 \in 0..(Len(f) - 1)
          BY <3>1, <3>2, <4>2
        <5> QED BY <3>1, <5>1, FSAssumption DEF Paths
      <4> QED BY <4>1, <4>2
    <3>4. r[f] \in Contents
      BY <2>1
    <3> QED BY <3>3, <3>4
  <2>2. List(k.path, r) \in Listing
    BY <2>1 DEF List, Listing
  <2> QED BY <1>1, <2>2 DEF Answer
<1>2. CASE k.kind = "tree" /\ k.path \notin Dirs
  BY <1>2 DEF Answer
<1>3. CASE k.kind # "tree"
  BY <1>3 DEF Answer
<1> QED BY <1>1, <1>2, <1>3

LEMMA EffectType ==
  ASSUME NEW op \in Operations, NEW r \in [Files -> Contents \cup {None}]
  PROVE  Effect(op, r) \in [Files -> Contents \cup {None}]
<1>1. CASE op.kind = "create"
  BY <1>1, FSAssumption DEF Effect
<1>2. CASE op.kind = "mkdir"
  BY <1>2, FSAssumption DEF Effect
<1>3. CASE op.kind = "update"
  <2>1. op.content \in Contents
    BY <1>3 DEF Operations
  <2> QED BY <1>3, <2>1 DEF Effect
<1>4. CASE op.kind = "move"
  BY <1>4 DEF Effect
<1> QED BY <1>1, <1>2, <1>3, <1>4 DEF Operations

\* A request in a state has the fields of that state.
LEMMA RequestFields ==
  ASSUME NEW q \in Request
  PROVE  /\ q.pc = "fetch" => q.key \in Keys
         /\ q.pc = "store" => q.key \in Keys /\ q.value \in Contents \cup Listing
         /\ q.pc = "sent" => q.op \in Operations
         /\ q.pc = "inval" => q.todo \in Seq(Keys) /\ q.todo # <<>>
  BY DEF Request

\* One Invalidate takes the first key off the list and leaves the others.
LEMMA TodoShrinks ==
  ASSUME NEW todo \in Seq(Keys), todo # <<>>
  PROVE  /\ Head(todo) \in Keys /\ Tail(todo) \in Seq(Keys)
         /\ ToSet(todo) = {Head(todo)} \cup ToSet(Tail(todo))
<1>1. /\ Head(todo) \in Keys /\ Tail(todo) \in Seq(Keys)
      /\ Len(Tail(todo)) = Len(todo) - 1
      /\ \A i \in 1..Len(Tail(todo)) : Tail(todo)[i] = todo[i + 1]
  BY HeadTailProperties
<1>2. Len(todo) \in Nat \ {0} /\ Head(todo) = todo[1]
  BY EmptySeq
<1>3. /\ ToSet(todo) = {todo[i] : i \in 1..Len(todo)}
      /\ ToSet(Tail(todo)) = {Tail(todo)[i] : i \in 1..Len(Tail(todo))}
  BY <1>1, LenProperties DEF ToSet
<1>4. ASSUME NEW i \in 1..Len(todo)
      PROVE  todo[i] = Head(todo) \/ todo[i] \in ToSet(Tail(todo))
  <2>1. CASE i = 1
    BY <2>1, <1>2
  <2>2. CASE i # 1
    <3>1. i - 1 \in 1..Len(Tail(todo)) /\ (i - 1) + 1 = i
      BY <1>1, <1>2, <2>2
    <3>2. Tail(todo)[i - 1] = todo[i]
      BY <1>1, <3>1
    <3> QED BY <1>3, <3>1, <3>2
  <2> QED BY <2>1, <2>2
<1>5. ASSUME NEW i \in 1..Len(Tail(todo))
      PROVE  Tail(todo)[i] \in ToSet(todo)
  <2>1. i + 1 \in 1..Len(todo)
    BY <1>1, <1>2
  <2> QED BY <1>1, <1>3, <2>1
<1>6. Head(todo) \in ToSet(todo)
  BY <1>2, <1>3
<1> QED BY <1>1, <1>3, <1>4, <1>5, <1>6

LEMMA TypeInit == Init => TypeOK
<1> SUFFICES ASSUME Init
             PROVE  TypeOK
  OBVIOUS
<1>1. req \in [Procs -> Request]
  BY DEF Init, Idle, Request
<1> QED BY <1>1, FSAssumption DEF Init, TypeOK

\* Only a request's own steps and what they fetch can break a type.
LEMMA TypeStep == TypeOK /\ [Next]_vars => TypeOK'
<1> SUFFICES ASSUME TypeOK, [Next]_vars
             PROVE  TypeOK'
  OBVIOUS
<1>t. /\ repo \in [Files -> Contents \cup {None}]
      /\ cache \in [Keys -> {None} \cup Contents \cup Listing]
      /\ req \in [Procs -> Request]
      /\ writes \in Nat /\ excused \subseteq Keys
  BY DEF TypeOK
<1>i. Idle \in Request
  BY DEF Idle, Request
<1>f. ASSUME NEW p \in Procs
      PROVE  /\ req[p].pc = "fetch" => req[p].key \in Keys
             /\ req[p].pc = "store" => /\ req[p].key \in Keys
                                       /\ req[p].value \in Contents \cup Listing
             /\ req[p].pc = "sent" => req[p].op \in Operations
             /\ req[p].pc = "inval" => req[p].todo \in Seq(Keys) /\ req[p].todo # <<>>
  BY <1>t, RequestFields
<1>1. ASSUME NEW p \in Procs, NEW k \in ReadKeys, Miss(p, k)
      PROVE  TypeOK'
  <2>1. [pc |-> "fetch", key |-> k] \in Request
    BY FSAssumption DEF Request
  <2> QED BY <1>1, <1>t, <2>1 DEF Miss, TypeOK
<1>2. ASSUME NEW p \in Procs, NEW op \in Ops, Submit(p, op)
      PROVE  TypeOK'
  <2>1. [pc |-> "sent", op |-> op] \in Request
    BY FSAssumption DEF Request
  <2> QED BY <1>2, <1>t, <2>1 DEF Submit, TypeOK
<1>3. ASSUME NEW p \in Procs, Fetch(p)
      PROVE  TypeOK'
  <2>1. req[p].key \in Keys
    BY <1>3, <1>f DEF Fetch
  <2>2. Answer(req[p].key, repo) \in Contents \cup Listing
    BY <1>3, <1>t, <2>1, AnswerType DEF Fetch
  <2>3. [pc |-> "store", key |-> req[p].key,
         value |-> Answer(req[p].key, repo)] \in Request
    BY <2>1, <2>2 DEF Request
  <2> QED BY <1>3, <1>t, <2>3 DEF Fetch, TypeOK
<1>4. ASSUME NEW p \in Procs, FetchFails(p)
      PROVE  TypeOK'
  BY <1>4, <1>t, <1>i DEF FetchFails, TypeOK
<1>5. ASSUME NEW p \in Procs, Store(p)
      PROVE  TypeOK'
  <2>1. req[p].key \in Keys /\ req[p].value \in Contents \cup Listing
    BY <1>5, <1>f DEF Store
  <2>2. cache' \in [Keys -> {None} \cup Contents \cup Listing] /\ excused' \subseteq Keys
    <3>1. CASE TooLarge(req[p].key, req[p].value)
      BY <1>5, <3>1, <1>t DEF Store
    <3>2. CASE ~TooLarge(req[p].key, req[p].value)
      BY <1>5, <3>2, <2>1, <1>t DEF Store
    <3> QED BY <3>1, <3>2
  <2> QED BY <1>5, <1>t, <1>i, <2>2 DEF Store, TypeOK
<1>6. ASSUME NEW p \in Procs, Commit(p)
      PROVE  TypeOK'
  <2>1. req[p].op \in Operations
    BY <1>6, <1>f DEF Commit
  <2>2. repo' \in [Files -> Contents \cup {None}]
    BY <1>6, <1>t, <2>1, EffectType DEF Commit
  <2>3. [pc |-> "inval", todo |-> ToInvalidate(req[p].op)] \in Request
    BY <2>1, ToInvalidateHolds DEF Request
  <2>4. Below(req[p].op) \subseteq Keys
    BY DEF Below
  <2> QED BY <1>6, <1>t, <2>2, <2>3, <2>4 DEF Commit, TypeOK
<1>7. ASSUME NEW p \in Procs, Reject(p)
      PROVE  TypeOK'
  BY <1>7, <1>t, <1>i DEF Reject, TypeOK
<1>8. ASSUME NEW p \in Procs, CommitLost(p)
      PROVE  TypeOK'
  <2>1. req[p].op \in Operations
    BY <1>8, <1>f DEF CommitLost
  <2>2. repo' \in [Files -> Contents \cup {None}]
    BY <1>8, <1>t, <2>1, EffectType DEF CommitLost
  <2>3. Changed(repo, repo') \subseteq Keys
    BY DEF Changed
  <2> QED BY <1>8, <1>t, <1>i, <2>2, <2>3 DEF CommitLost, TypeOK
<1>9. ASSUME NEW op \in Ops, OtherCommit(op)
      PROVE  TypeOK'
  <2>1. op \in Operations
    BY FSAssumption
  <2>2. repo' \in [Files -> Contents \cup {None}]
    BY <1>9, <1>t, <2>1, EffectType DEF OtherCommit
  <2>3. Changed(repo, repo') \subseteq Keys
    BY DEF Changed
  <2> QED BY <1>9, <1>t, <2>2, <2>3 DEF OtherCommit, TypeOK
<1>10. ASSUME NEW p \in Procs, Invalidate(p)
       PROVE  TypeOK'
  <2>1. req[p].todo \in Seq(Keys) /\ req[p].todo # <<>>
    BY <1>10, <1>f DEF Invalidate
  <2>2. Head(req[p].todo) \in Keys /\ Tail(req[p].todo) \in Seq(Keys)
    BY <2>1, TodoShrinks
  <2>3. (IF Tail(req[p].todo) = <<>> THEN Idle
         ELSE [pc |-> "inval", todo |-> Tail(req[p].todo)]) \in Request
    BY <2>2, <1>i DEF Request
  <2> QED BY <1>10, <1>t, <2>2, <2>3 DEF Invalidate, TypeOK
<1>11. ASSUME NEW k \in Keys, Expire(k)
       PROVE  TypeOK'
  BY <1>11, <1>t DEF Expire, TypeOK
<1>12. CASE UNCHANGED vars
  BY <1>12, <1>t DEF vars, TypeOK
<1> QED
  BY <1>1, <1>2, <1>3, <1>4, <1>5, <1>6, <1>7, <1>8, <1>9, <1>10, <1>11, <1>12
  DEF Next, Proceed

\* Every reachable state has its type.
THEOREM TypeCorrect == Spec => []TypeOK
  BY TypeInit, TypeStep, PTL DEF Spec

-----------------------------------------------------------------------------
(* Stale entries.                                                          *)

\* A step of p that ends no invalidation leaves the others' as they are.
LEMMA PendingKept ==
  ASSUME TypeOK, NEW p \in Procs, NEW q, req' = [req EXCEPT ![p] = q],
         NEW k, Pending(k), req[p].pc # "inval"
  PROVE  Pending(k)'
<1>1. PICK o \in Procs : req[o].pc = "inval" /\ k \in ToSet(req[o].todo)
  BY DEF Pending
<1>2. req'[o] = req[o]
  <2>1. o # p
    BY <1>1
  <2>2. req \in [Procs -> Request]
    BY DEF TypeOK
  <2> QED BY <2>1, <2>2
<1> QED BY <1>1, <1>2 DEF Pending

\* A commit makes stale what it changes, and nothing that was fresh besides.
LEMMA StaleAfter ==
  ASSUME TypeOK, TypeOK', cache' = cache, NEW k \in Keys, Stale(k)'
  PROVE  Stale(k) \/ (Answer(k, repo) # None /\ k \in Changed(repo, repo'))
  BY DEF Stale, Changed, TypeOK

LEMMA ExplainedInit == Init => StaleExplained
  BY DEF Init, StaleExplained, Stale

LEMMA ExplainedStep ==
  TypeOK /\ TypeOK' /\ StaleExplained /\ [Next]_vars => StaleExplained'
<1> SUFFICES ASSUME TypeOK, TypeOK', StaleExplained, [Next]_vars, NEW k \in Keys,
                    Stale(k)'
             PROVE  Pending(k)' \/ k \in excused'
  BY DEF StaleExplained
<1>t. /\ repo \in [Files -> Contents \cup {None}]
      /\ cache \in [Keys -> {None} \cup Contents \cup Listing]
      /\ req \in [Procs -> Request]
  BY DEF TypeOK
<1>e. Stale(k) => Pending(k) \/ k \in excused
  BY DEF StaleExplained
<1>f. ASSUME NEW p \in Procs
      PROVE  /\ req[p].pc = "store" => req[p].key \in Keys
             /\ req[p].pc = "sent" => req[p].op \in Operations
             /\ req[p].pc = "inval" => req[p].todo \in Seq(Keys) /\ req[p].todo # <<>>
  BY <1>t, RequestFields
\* Steps that leave the cache, the repository and the excuses alone.
<1>q. ASSUME NEW p \in Procs, NEW q, req' = [req EXCEPT ![p] = q],
             req[p].pc # "inval", UNCHANGED <<repo, cache, excused>>
      PROVE  Pending(k)' \/ k \in excused'
  <2>1. Stale(k)
    BY <1>q DEF Stale
  <2> QED BY <2>1, <1>q, <1>e, PendingKept
<1>1. ASSUME NEW p \in Procs, NEW j \in ReadKeys, Miss(p, j)
      PROVE  Pending(k)' \/ k \in excused'
  <2>1. req[p].pc # "inval"
    BY <1>1 DEF Miss, Idle
  <2>2. /\ req' = [req EXCEPT ![p] = [pc |-> "fetch", key |-> j]]
        /\ UNCHANGED <<repo, cache, excused>>
    BY <1>1 DEF Miss
  <2> QED BY <2>1, <2>2, <1>q
<1>2. ASSUME NEW p \in Procs, NEW op \in Ops, Submit(p, op)
      PROVE  Pending(k)' \/ k \in excused'
  <2>1. req[p].pc # "inval"
    BY <1>2 DEF Submit, Idle
  <2>2. /\ req' = [req EXCEPT ![p] = [pc |-> "sent", op |-> op]]
        /\ UNCHANGED <<repo, cache, excused>>
    BY <1>2 DEF Submit
  <2> QED BY <2>1, <2>2, <1>q
<1>3. ASSUME NEW p \in Procs, Fetch(p) \/ FetchFails(p) \/ Reject(p)
      PROVE  Pending(k)' \/ k \in excused'
  BY <1>3, <1>q DEF Fetch, FetchFails, Reject
<1>4. ASSUME NEW p \in Procs, Store(p)
      PROVE  Pending(k)' \/ k \in excused'
  <2> DEFINE j == req[p].key
             v == req[p].value
  <2>1. /\ req' = [req EXCEPT ![p] = Idle] /\ req[p].pc # "inval"
        /\ repo' = repo /\ j \in Keys
    BY <1>4, <1>f DEF Store
  <2>2. CASE TooLarge(j, v)
    BY <1>4, <2>1, <2>2, <1>q DEF Store
  <2>3. CASE ~TooLarge(j, v)
    <3>1. /\ cache' = [cache EXCEPT ![j] = v]
          /\ excused' = IF v = Answer(j, repo) THEN excused \ {j} ELSE excused \cup {j}
      BY <1>4, <2>3 DEF Store
    <3>2. CASE k = j
      BY <2>1, <3>1, <3>2, <1>t DEF Stale
    <3>3. CASE k # j
      <4>1. Stale(k)
        BY <2>1, <3>1, <3>3, <1>t DEF Stale
      <4>2. Pending(k) => Pending(k)'
        BY <2>1, PendingKept
      <4> QED BY <4>1, <4>2, <3>1, <3>3, <1>e
    <3> QED BY <3>2, <3>3
  <2> QED BY <2>2, <2>3
<1>5. ASSUME NEW p \in Procs, Commit(p)
      PROVE  Pending(k)' \/ k \in excused'
  <2> DEFINE op == req[p].op
  <2>1. /\ op \in Operations /\ Legal(op, repo) /\ repo' = Effect(op, repo)
        /\ req' = [req EXCEPT ![p] = [pc |-> "inval", todo |-> ToInvalidate(op)]]
        /\ excused' = excused \cup Below(op) /\ cache' = cache
        /\ req[p].pc # "inval"
    BY <1>5, <1>f DEF Commit
  <2> HIDE DEF op
  <2>2. CASE Stale(k)
    BY <2>1, <2>2, <1>e, PendingKept
  <2>3. CASE ~Stale(k)
    <3>1. Answer(k, repo) # None /\ Answer(k, Effect(op, repo)) # Answer(k, repo)
      BY <2>1, <2>3, StaleAfter DEF Changed
    <3>2. k \in ToSet(ToInvalidate(op)) \/ k \in Below(op)
      BY <2>1, <3>1, <1>t, InvalidationCovers
    <3>3. req'[p] = [pc |-> "inval", todo |-> ToInvalidate(op)]
      BY <2>1, <1>t
    <3> QED BY <2>1, <3>2, <3>3 DEF Pending
  <2> QED BY <2>2, <2>3
<1>6. ASSUME NEW p \in Procs, CommitLost(p)
      PROVE  Pending(k)' \/ k \in excused'
  <2>1. /\ req' = [req EXCEPT ![p] = Idle] /\ req[p].pc # "inval"
        /\ cache' = cache /\ excused' = excused \cup Changed(repo, repo')
    BY <1>6 DEF CommitLost
  <2>2. CASE Stale(k)
    BY <2>1, <2>2, <1>e, PendingKept
  <2>3. CASE ~Stale(k)
    BY <2>1, <2>3, StaleAfter
  <2> QED BY <2>2, <2>3
<1>7. ASSUME NEW op \in Ops, OtherCommit(op)
      PROVE  Pending(k)' \/ k \in excused'
  <2>1. /\ req' = req /\ cache' = cache
        /\ excused' = excused \cup Changed(repo, repo')
    BY <1>7 DEF OtherCommit
  <2>2. CASE Stale(k)
    BY <2>1, <2>2, <1>e DEF Pending
  <2>3. CASE ~Stale(k)
    BY <2>1, <2>3, StaleAfter
  <2> QED BY <2>2, <2>3
<1>8. ASSUME NEW p \in Procs, Invalidate(p)
      PROVE  Pending(k)' \/ k \in excused'
  <2> DEFINE todo == req[p].todo
  <2>1. /\ todo \in Seq(Keys) /\ todo # <<>> /\ repo' = repo
        /\ req[p].pc = "inval"
        /\ cache' = [cache EXCEPT ![Head(todo)] = None]
        /\ excused' = excused \ {Head(todo)}
        /\ req' = [req EXCEPT ![p] = IF Tail(todo) = <<>> THEN Idle
                                     ELSE [pc |-> "inval", todo |-> Tail(todo)]]
    BY <1>8, <1>f DEF Invalidate
  <2>2. /\ Head(todo) \in Keys /\ Tail(todo) \in Seq(Keys)
        /\ ToSet(todo) = {Head(todo)} \cup ToSet(Tail(todo))
    BY <2>1, TodoShrinks
  <2>3. k # Head(todo) /\ Stale(k)
    BY <2>1, <2>2, <1>t DEF Stale
  <2>4. CASE k \in excused
    BY <2>1, <2>3, <2>4
  <2>5. ASSUME NEW o \in Procs, req[o].pc = "inval", k \in ToSet(req[o].todo)
        PROVE  Pending(k)'
    <3>1. CASE o = p
      <4>1. k \in ToSet(Tail(todo))
        BY <2>2, <2>3, <2>5, <3>1
      <4>2. Tail(todo) # <<>>
        <5>1. ASSUME Tail(todo) = <<>>
              PROVE  ToSet(Tail(todo)) = {}
          <6>1. DOMAIN Tail(todo) = 1..0
            BY <5>1, <2>2, LenProperties, EmptySeq
          <6> QED BY <6>1 DEF ToSet
        <5> QED BY <4>1, <5>1
      <4>3. req'[p] = [pc |-> "inval", todo |-> Tail(todo)]
        BY <2>1, <4>2, <1>t
      <4>4. req'[p].pc = "inval" /\ req'[p].todo = Tail(todo)
        BY <4>3
      <4> HIDE DEF todo
      <4> QED BY <4>1, <4>4 DEF Pending
    <3>2. CASE o # p
      <4>1. req'[o] = req[o]
        BY <2>1, <3>2, <1>t
      <4> QED BY <4>1, <2>5 DEF Pending
    <3> QED BY <3>1, <3>2
  <2>6. Pending(k) => Pending(k)'
    BY <2>5 DEF Pending
  <2> QED BY <2>3, <2>4, <2>6, <1>e
<1>9. ASSUME NEW j \in Keys, Expire(j)
      PROVE  Pending(k)' \/ k \in excused'
  <2>1. /\ cache' = [cache EXCEPT ![j] = None] /\ excused' = excused \ {j}
        /\ repo' = repo /\ req' = req
    BY <1>9 DEF Expire
  <2>2. k # j /\ Stale(k)
    BY <2>1, <1>t DEF Stale
  <2> QED BY <2>1, <2>2, <1>e DEF Pending
<1>10. CASE UNCHANGED vars
  BY <1>10, <1>e DEF vars, Stale, Pending
<1> QED
  BY <1>1, <1>2, <1>3, <1>4, <1>5, <1>6, <1>7, <1>8, <1>9, <1>10
  DEF Next, Proceed

\* fs.go:39, for every tree of paths, number of goroutines and sequence of
\* operations: a stale entry is about to be invalidated, or a late fill, a
\* lost reply, a foreign commit or a moved directory left it.
THEOREM StaleHasCause == Spec => []StaleExplained
<1>1. Spec => []TypeOK
  BY TypeCorrect
<1> QED BY <1>1, ExplainedInit, ExplainedStep, PTL DEF Spec

-----------------------------------------------------------------------------
(* What is left when nothing goes wrong outside: the late fill.            *)

\* No answer on its way to the cache has been overtaken by a commit.
Current ==
  \A p \in Procs : req[p].pc = "store" => req[p].value = Answer(req[p].key, repo)

\* Only files are renamed.
FilesMove == \A op \in Ops : op.kind = "move" => op.from \in Files

NothingExcused == excused = {}

\* What is sent was submitted.
SentOps == \A p \in Procs : req[p].pc = "sent" => req[p].op \in Ops

\* There is no path below a file.
LEMMA NothingBelowFile ==
  ASSUME NEW f \in Files, NEW p \in Paths
  PROVE  ~IsStrictPrefix(f, p)
<1> SUFFICES ASSUME IsStrictPrefix(f, p)
             PROVE  FALSE
  OBVIOUS
<1>1. /\ f \in Seq(Names) /\ Len(f) \in Nat
      /\ p \in Seq(Names) /\ Len(p) \in Nat
  BY PathTypes DEF Paths
<1>2. Len(f) \in 0..(Len(p) - 1)
  BY <1>1, StrictPrefixAgrees
<1>3. SubSeq(f, 1, Len(f)) = SubSeq(p, 1, Len(f)) /\ SubSeq(f, 1, Len(f)) = f
  BY <1>1, SubSeqFull DEF IsStrictPrefix, IsPrefix
<1>4. f \in Dirs
  BY <1>2, <1>3, FSAssumption
<1> QED BY <1>4, FSAssumption

\* A file that moves takes no other key with it.
LEMMA FileMoveCovered ==
  ASSUME FilesMove, NEW op \in Ops, NEW r, Legal(op, r)
  PROVE  Below(op) = {}
<1>1. CASE op.kind = "move"
  <2>1. op.from \in Files /\ op.path \in Files
    BY <1>1 DEF FilesMove, Legal
  <2>2. \A k \in Keys : ~IsStrictPrefix(op.from, k.path) /\ ~IsStrictPrefix(op.path, k.path)
    BY <2>1, NothingBelowFile, PathTypes
  <2> QED BY <2>2 DEF Below
<1>2. CASE op.kind # "move"
  BY <1>2 DEF Below
<1> QED BY <1>1, <1>2

LEMMA SentOpsStep == TypeOK /\ SentOps /\ [Next]_vars => SentOps'
<1> SUFFICES ASSUME TypeOK, SentOps, [Next]_vars, NEW o \in Procs, req'[o].pc = "sent"
             PROVE  req'[o].op \in Ops
  BY DEF SentOps
<1>t. req \in [Procs -> Request]
  BY DEF TypeOK
<1>s. req[o].pc = "sent" => req[o].op \in Ops
  BY DEF SentOps
<1>1. ASSUME NEW p \in Procs, NEW q, req' = [req EXCEPT ![p] = q], q.pc # "sent"
      PROVE  req'[o].op \in Ops
  BY <1>1, <1>t, <1>s
<1>2. ASSUME NEW p \in Procs, NEW k \in ReadKeys, Miss(p, k)
      PROVE  req'[o].op \in Ops
  <2>1. [pc |-> "fetch", key |-> k].pc # "sent"
    OBVIOUS
  <2>2. req' = [req EXCEPT ![p] = [pc |-> "fetch", key |-> k]]
    BY <1>2 DEF Miss
  <2> QED BY <1>1, <2>1, <2>2
<1>3. ASSUME NEW p \in Procs, NEW op \in Ops, Submit(p, op)
      PROVE  req'[o].op \in Ops
  BY <1>3, <1>t, <1>s DEF Submit
<1>4. ASSUME NEW p \in Procs, Fetch(p) \/ Commit(p) \/ Invalidate(p)
      PROVE  req'[o].op \in Ops
  <2>1. Idle.pc # "sent"
    BY DEF Idle
  <2>2. CASE Fetch(p)
    <3> DEFINE q == [pc |-> "store", key |-> req[p].key,
                     value |-> Answer(req[p].key, repo)]
    <3>1. q.pc # "sent" /\ req' = [req EXCEPT ![p] = q]
      BY <2>2 DEF Fetch
    <3> HIDE DEF q
    <3> QED BY <1>1, <3>1
  <2>3. CASE Commit(p)
    <3> DEFINE q == [pc |-> "inval", todo |-> ToInvalidate(req[p].op)]
    <3>1. q.pc # "sent" /\ req' = [req EXCEPT ![p] = q]
      BY <2>3 DEF Commit
    <3> HIDE DEF q
    <3> QED BY <1>1, <3>1
  <2>4. CASE Invalidate(p)
    <3> DEFINE q == IF Tail(req[p].todo) = <<>> THEN Idle
                    ELSE [pc |-> "inval", todo |-> Tail(req[p].todo)]
    <3>1. q.pc # "sent" /\ req' = [req EXCEPT ![p] = q]
      BY <2>4, <2>1 DEF Invalidate
    <3> HIDE DEF q
    <3> QED BY <1>1, <3>1
  <2> QED BY <1>4, <2>2, <2>3, <2>4
<1>5. ASSUME NEW p \in Procs, FetchFails(p) \/ Store(p) \/ Reject(p) \/ CommitLost(p)
      PROVE  req'[o].op \in Ops
  <2>1. Idle.pc # "sent"
    BY DEF Idle
  <2>2. req' = [req EXCEPT ![p] = Idle]
    BY <1>5 DEF FetchFails, Store, Reject, CommitLost
  <2> QED BY <1>1, <2>1, <2>2
<1>6. ASSUME NEW op \in Ops, OtherCommit(op)
      PROVE  req'[o].op \in Ops
  BY <1>6, <1>s DEF OtherCommit
<1>7. ASSUME NEW k \in Keys, Expire(k)
      PROVE  req'[o].op \in Ops
  BY <1>7, <1>s DEF Expire
<1>8. CASE UNCHANGED vars
  BY <1>8, <1>s DEF vars
<1> QED
  BY <1>2, <1>3, <1>4, <1>5, <1>6, <1>7, <1>8 DEF Next, Proceed

\* Without faults and moved directories only a late fill leaves a key stale
\* beyond the reach of invalidation.
LEMMA ExcusedStep ==
  ASSUME ~Faults, FilesMove, TypeOK, SentOps, Current, NothingExcused, [Next]_vars
  PROVE  NothingExcused'
<1>1. ASSUME NEW p \in Procs, Store(p)
      PROVE  NothingExcused'
  <2>1. req[p].value = Answer(req[p].key, repo)
    BY <1>1 DEF Store, Current
  <2> QED BY <1>1, <2>1 DEF Store, NothingExcused
<1>2. ASSUME NEW p \in Procs, Commit(p)
      PROVE  NothingExcused'
  <2>1. Below(req[p].op) = {}
    BY <1>2, FileMoveCovered DEF Commit, SentOps
  <2> QED BY <1>2, <2>1 DEF Commit, NothingExcused
<1>3. ASSUME NEW p \in Procs,
             Fetch(p) \/ FetchFails(p) \/ Reject(p) \/ CommitLost(p) \/ Invalidate(p)
      PROVE  NothingExcused'
  BY <1>3 DEF Fetch, FetchFails, Reject, CommitLost, Invalidate, NothingExcused
<1>4. ASSUME NEW p \in Procs, NEW k \in ReadKeys, Miss(p, k)
      PROVE  NothingExcused'
  BY <1>4 DEF Miss, NothingExcused
<1>5. ASSUME NEW p \in Procs, NEW op \in Ops, Submit(p, op)
      PROVE  NothingExcused'
  BY <1>5 DEF Submit, NothingExcused
<1>6. ASSUME NEW k \in Keys, Expire(k)
      PROVE  NothingExcused'
  BY <1>6 DEF Expire, NothingExcused
<1>7. CASE UNCHANGED vars
  BY <1>7 DEF vars, NothingExcused
<1> QED
  BY <1>1, <1>2, <1>3, <1>4, <1>5, <1>6, <1>7 DEF Next, Proceed, OtherCommit

LEMMA ExplainedQuiet ==
  StaleExplained /\ NothingExcused => QuietMeansFresh
<1> SUFFICES ASSUME StaleExplained, NothingExcused, \A p \in Procs : req[p] = Idle,
                    NEW k \in Keys, Stale(k)
             PROVE  FALSE
  BY DEF QuietMeansFresh
<1>1. Pending(k)
  BY DEF StaleExplained, NothingExcused
<1> QED BY <1>1 DEF Pending, Idle

\* fs.go:39, node.go:66-72: with any number of goroutines, as long as nobody
\* else commits, no reply is lost and only files are renamed, the cache can
\* be wrong with no request under way only if some fill brought an answer
\* that a commit had overtaken.
THEOREM OnlyLateFills ==
  ASSUME ~Faults, FilesMove
  PROVE  Spec /\ []Current => []QuietMeansFresh
<1>1. Init => SentOps /\ NothingExcused
  BY DEF Init, SentOps, NothingExcused, Idle
<1>2. TypeOK /\ SentOps /\ NothingExcused /\ Current /\ [Next]_vars
        => (SentOps /\ NothingExcused)'
  BY SentOpsStep, ExcusedStep
<1>3. Spec => []TypeOK /\ []StaleExplained
  BY TypeCorrect, StaleHasCause, PTL
<1>4. StaleExplained /\ NothingExcused => QuietMeansFresh
  BY ExplainedQuiet
<1> QED BY <1>1, <1>2, <1>3, <1>4, PTL DEF Spec

\* One goroutine commits nothing while it fills.
LEMMA CurrentStep ==
  ASSUME ~Faults, \A p, q \in Procs : p = q, TypeOK, Current, [Next]_vars
  PROVE  Current'
<1> SUFFICES ASSUME NEW o \in Procs, req'[o].pc = "store"
             PROVE  req'[o].value = Answer(req'[o].key, repo')
  BY DEF Current
<1>t. req \in [Procs -> Request]
  BY DEF TypeOK
<1>c. req[o].pc = "store" => req[o].value = Answer(req[o].key, repo)
  BY DEF Current
<1>1. ASSUME NEW p \in Procs, NEW q, req' = [req EXCEPT ![p] = q], q.pc # "store"
      PROVE  FALSE
  BY <1>1, <1>t
<1>2. ASSUME NEW p \in Procs, NEW k \in ReadKeys, Miss(p, k)
      PROVE  FALSE
  <2>1. [pc |-> "fetch", key |-> k].pc # "store"
    OBVIOUS
  <2>2. req' = [req EXCEPT ![p] = [pc |-> "fetch", key |-> k]]
    BY <1>2 DEF Miss
  <2> QED BY <1>1, <2>1, <2>2
<1>3. ASSUME NEW p \in Procs, NEW op \in Ops, Submit(p, op)
      PROVE  FALSE
  <2>1. [pc |-> "sent", op |-> op].pc # "store"
    OBVIOUS
  <2>2. req' = [req EXCEPT ![p] = [pc |-> "sent", op |-> op]]
    BY <1>3 DEF Submit
  <2> QED BY <1>1, <2>1, <2>2
<1>4. ASSUME NEW p \in Procs, Fetch(p)
      PROVE  req'[o].value = Answer(req'[o].key, repo')
  <2>1. o = p /\ repo' = repo
    BY <1>4 DEF Fetch
  <2>2. req'[o] = [pc |-> "store", key |-> req[p].key, value |-> Answer(req[p].key, repo)]
    BY <1>4, <1>t, <2>1 DEF Fetch
  <2> QED BY <2>1, <2>2
<1>5. ASSUME NEW p \in Procs, Commit(p) \/ Invalidate(p)
      PROVE  FALSE
  <2>1. Idle.pc # "store"
    BY DEF Idle
  <2>2. CASE Commit(p)
    <3> DEFINE q == [pc |-> "inval", todo |-> ToInvalidate(req[p].op)]
    <3>1. q.pc # "store" /\ req' = [req EXCEPT ![p] = q]
      BY <2>2 DEF Commit
    <3> HIDE DEF q
    <3> QED BY <1>1, <3>1
  <2>3. CASE Invalidate(p)
    <3> DEFINE q == IF Tail(req[p].todo) = <<>> THEN Idle
                    ELSE [pc |-> "inval", todo |-> Tail(req[p].todo)]
    <3>1. q.pc # "store" /\ req' = [req EXCEPT ![p] = q]
      BY <2>3, <2>1 DEF Invalidate
    <3> HIDE DEF q
    <3> QED BY <1>1, <3>1
  <2> QED BY <1>5, <2>2, <2>3
<1>6. ASSUME NEW p \in Procs, FetchFails(p) \/ Store(p) \/ Reject(p) \/ CommitLost(p)
      PROVE  FALSE
  <2>1. Idle.pc # "store"
    BY DEF Idle
  <2>2. req' = [req EXCEPT ![p] = Idle]
    BY <1>6 DEF FetchFails, Store, Reject, CommitLost
  <2> QED BY <1>1, <2>1, <2>2
<1>7. ASSUME NEW k \in Keys, Expire(k)
      PROVE  req'[o].value = Answer(req'[o].key, repo')
  BY <1>7, <1>c DEF Expire
<1>8. CASE UNCHANGED vars
  BY <1>8, <1>c DEF vars
<1> QED
  BY <1>2, <1>3, <1>4, <1>5, <1>6, <1>7, <1>8 DEF Next, Proceed, OtherCommit

\* fs.go:39: one request at a time and no fault from outside, and the cache
\* is right whenever no request is under way, for every tree of paths and
\* every sequence of reads, edits and renames of files.
THEOREM SequentialFresh ==
  ASSUME ~Faults, FilesMove, \A p, q \in Procs : p = q
  PROVE  Spec => []QuietMeansFresh
<1>1. Init => Current
  BY DEF Init, Current, Idle
<1>2. TypeOK /\ Current /\ [Next]_vars => Current'
  BY CurrentStep
<1>3. Spec => []TypeOK
  BY TypeCorrect
<1>4. Spec => []Current
  BY <1>1, <1>2, <1>3, PTL DEF Spec
<1>5. Spec /\ []Current => []QuietMeansFresh
  BY OnlyLateFills
<1> QED BY <1>4, <1>5, PTL
=============================================================================
