------------------------- MODULE FileHandles_proofs -------------------------
(***************************************************************************)
(* What the slices that open files share with the cache hold, for any      *)
(* number of files, handles and commits and contents of any length.        *)
(***************************************************************************)
EXTENDS FileHandles, SequenceTheorems, TLAPS

IsOpen(h) == handle[h].pc = "open"
Dirty(h) == IsOpen(h) /\ handle[h].dirty

HandleStates ==
  {Closed} \cup OpenHandles
    \cup [pc : {"asking"}, file : Files]
    \cup [pc : {"opening"}, file : Files, data : Contents]

\* What is referred to is in use; a slice is cached at one key at most, and a
\* handle that has a cached slice is of a file with that key.
Shared ==
  /\ \A b \in Buffers : Live(b) => slice[b] # Unused
  /\ \A j, k \in Keys : cache[j] # Nil /\ cache[j] = cache[k] => j = k
  /\ \A h \in Handles, k \in Keys :
       IsOpen(h) /\ cache[k] = handle[h].buf => KeyOf(handle[h].file) = k

\* Only open handles are the writers of a slice.
Authors ==
  \A h \in Handles, b \in Buffers :
    slice[b] # Unused /\ slice[b].author = h => IsOpen(h)

\* A commit that has yet to invalidate the key k.
WillDrop(t, k) == KeyOf(t.file) = k /\ (t.stage = "blob" => t.file.oid # NoOid)

Owned(k) ==
  \/ \E h \in Handles : Dirty(h) /\ KeyOf(handle[h].file) = k
  \/ \E t \in flights : WillDrop(t, k)
  \/ k \in lost

Owners == \A k \in Keys : Spoilt(k) => Owned(k)

\* Nothing refers to a file that does not exist.
Exists ==
  \A p \in Paths : repo[p] = NoFile =>
    /\ landed[p] = NoOne
    /\ \A t \in flights : t.file.path # p
    /\ \A f \in nodes : f.path # p
    /\ \A h \in Handles : handle[h].pc # "closed" => handle[h].file.path # p

Numbered ==
  /\ \A t \in flights : t.number <= latest[t.handle]
  /\ \A p \in Paths, h \in Handles, n \in Nat : landed[p] = <<h, n>> => n <= latest[h]

\* The latest commit of a handle without later writes has what the handle has.
FlightData ==
  \A h \in Handles, t \in flights :
    /\ t.handle = h /\ t.number = latest[h]
    /\ IsOpen(h) /\ ~handle[h].dirty /\ t.file.path = handle[h].file.path
    /\ slice[handle[h].buf].author = h
    => slice[handle[h].buf].data = t.data

IInv ==
  /\ TypeOK /\ Shared /\ Authors /\ Owners /\ Exists /\ Numbered
  /\ FlightData /\ EditKept

-----------------------------------------------------------------------------
LEMMA KeyTypes ==
  /\ \A f \in Files : KeyOf(f) \in Keys /\ f.path \in Paths
                      /\ (f.oid = NoOid \/ f.oid \in Contents)
  /\ \A p \in Paths : [path |-> p] \in Keys
  /\ \A c \in Contents : [oid |-> c] \in Keys
<1>1. \A p \in Paths : [path |-> p] \in Keys
  BY DEF Keys
<1>2. \A c \in Contents : [oid |-> c] \in Keys
  BY DEF Keys
<1>3. \A f \in Files : f.path \in Paths /\ (f.oid = NoOid \/ f.oid \in Contents)
  BY DEF Files
<1> QED
  BY <1>1, <1>2, <1>3 DEF KeyOf

LEMMA HandleTypes ==
  ASSUME TypeOK, NEW h \in Handles
  PROVE  /\ handle[h] \in HandleStates
         /\ IsOpen(h) => /\ handle[h] \in OpenHandles
                         /\ handle[h].file \in Files /\ handle[h].buf \in Buffers
                         /\ handle[h].dirty \in BOOLEAN
         /\ handle[h].pc = "asking" => handle[h].file \in Files
         /\ handle[h].pc = "opening" =>
              handle[h].file \in Files /\ handle[h].data \in Contents
         /\ handle[h].pc \in {"closed", "open", "asking", "opening"}
         /\ handle[h].pc = "closed" => handle[h] = Closed
<1>1. handle[h] \in HandleStates
  BY DEF TypeOK, HandleStates
<1> QED
  BY <1>1 DEF HandleStates, IsOpen, OpenHandles, Closed

LEMMA Lives ==
  ASSUME TypeOK
  PROVE  /\ \A h \in Handles : IsOpen(h) => Live(handle[h].buf)
         /\ \A k \in Keys : cache[k] # Nil => Live(cache[k]) /\ cache[k] \in Buffers
BY DEF Live, IsOpen, TypeOK

LEMMA ContentsAre ==
  /\ \A d \in Contents : d \in Seq(Byte) /\ Len(d) \in 0..MaxLen
  /\ \A d \in Seq(Byte) : Len(d) <= MaxLen => d \in Contents
  /\ <<>> \in Contents
<1> USE HandleAssumption
<1>1. ASSUME NEW d \in Contents
      PROVE  d \in Seq(Byte) /\ Len(d) \in 0..MaxLen
  <2>1. PICK n \in 0..MaxLen : d \in [1..n -> Byte]
    BY DEF Contents
  <2> QED
    BY <2>1
<1>2. ASSUME NEW d \in Seq(Byte), Len(d) <= MaxLen
      PROVE  d \in Contents
  <2>1. Len(d) \in 0..MaxLen /\ d \in [1..Len(d) -> Byte]
    BY <1>2
  <2> QED
    BY <2>1 DEF Contents
<1>3. <<>> \in Seq(Byte) /\ Len(<<>>) <= MaxLen
  OBVIOUS
<1>4. <<>> \in Contents
  BY <1>2, <1>3, Zenon
<1> QED
  BY <1>1, <1>2, <1>4

\* A Write of a byte within the bound makes a content of a content
\* (handle.go:47-60).
LEMMA WriteIsContent ==
  ASSUME NEW data \in Contents, NEW offset \in 0..(MaxLen - 1), NEW byte \in Byte
  PROVE  WriteAt(data, offset, <<byte>>) \in Contents
<1> USE HandleAssumption
<1> DEFINE bytes == <<byte>>
           n == LengthAfter(data, offset, bytes)
           w == WriteAt(data, offset, bytes)
<1>0. /\ data \in Seq(Byte) /\ Len(data) \in Nat /\ Len(data) <= MaxLen
      /\ Len(bytes) = 1 /\ bytes[1] = byte
  BY ContentsAre
<1>1. n \in 0..MaxLen /\ n >= Len(data)
  BY <1>0 DEF LengthAfter, Grows
<1>2. ASSUME NEW i \in 1..n
      PROVE  (IF i \in (offset + 1)..(offset + Len(bytes)) THEN bytes[i - offset]
              ELSE IF i <= Len(data) THEN data[i] ELSE Zero) \in Byte
  <2>1. CASE i \in (offset + 1)..(offset + Len(bytes))
    <3>1. i - offset = 1
      BY <2>1, <1>0
    <3> QED
      BY <3>1, <2>1, <1>0
  <2>2. CASE i \notin (offset + 1)..(offset + Len(bytes)) /\ i <= Len(data)
    <3>1. i \in 1..Len(data)
      BY <2>2, <1>0, <1>1
    <3> QED
      BY <3>1, <2>2, <1>0
  <2>3. CASE i \notin (offset + 1)..(offset + Len(bytes)) /\ ~(i <= Len(data))
    BY <2>3
  <2> QED
    BY <2>1, <2>2, <2>3
<1>3. w \in [1..n -> Byte]
  BY <1>2 DEF WriteAt
<1> QED
  BY <1>1, <1>3 DEF Contents

LEMMA InitIInv == Init => IInv
<1> SUFFICES ASSUME Init PROVE IInv
  OBVIOUS
<1> USE HandleAssumption
<1>1. \A h \in Handles : handle[h].pc = "closed"
  BY DEF Init, Closed
<1>2. TypeOK
  <2>1. repo \in [Paths -> Contents \cup {NoFile}]
    BY DEF Init
  <2>2. landed \in [Paths -> (Handles \cup {Nil}) \X Nat]
    BY DEF Init, NoOne
  <2> QED
    BY <2>1, <2>2 DEF Init, TypeOK
<1>3. Shared
  BY <1>1 DEF Init, Shared, Live, IsOpen
<1>4. Authors /\ Owners
  BY DEF Init, Authors, Owners, Spoilt
<1>5. Exists
  BY <1>1 DEF Init, Exists
<1>6. Numbered
  BY DEF Init, Numbered, NoOne
<1>7. FlightData
  BY DEF Init, FlightData
<1>8. EditKept
  BY <1>1 DEF EditKept
<1> QED
  BY <1>2, <1>3, <1>4, <1>5, <1>6, <1>7, <1>8 DEF IInv

-----------------------------------------------------------------------------
\* Open, Create and a Write past the end give the handle h a slice of its own,
\* which is also cached or not; all others keep theirs.
LEMMA NewSlice ==
  ASSUME IInv, NEW h \in Handles, NEW b \in Buffers, slice[b] = Unused,
         NEW r \in OpenHandles, r.buf = b, handle' = [handle EXCEPT ![h] = r],
         cache' \in [Keys -> Buffers \cup {Nil}],
         \A k \in Keys : cache'[k] \in {cache[k], Nil}
                          \/ (cache'[k] = b /\ k = KeyOf(r.file)),
         NEW d \in Contents, NEW a \in {h, Nil},
         Collect([slice EXCEPT ![b] = Made(d, a)]),
         UNCHANGED <<flights, latest, landed>>,
         IsOpen(h) => r.dirty /\ r.file = handle[h].file,
         r.dirty \/ a = Nil \/ (/\ landed[r.file.path] = NoOne
                               /\ \A t \in flights : t.file.path # r.file.path),
         \A k \in Keys : k \in lost => k \in lost' \/ cache'[k] \in {b, Nil},
         \A o \in Handles : IsOpen(o) /\ o # h =>
           repo'[handle[o].file.path] = repo[handle[o].file.path]
  PROVE  /\ slice' \in [Buffers -> {Unused} \cup Slices]
         /\ handle' \in [Handles -> HandleStates]
         /\ Shared' /\ Authors' /\ Owners' /\ Numbered' /\ FlightData' /\ EditKept'
<1> USE HandleAssumption
<1>0. /\ TypeOK /\ Shared /\ Authors /\ Owners /\ Numbered /\ FlightData /\ EditKept
      /\ handle \in [Handles -> HandleStates]
      /\ slice \in [Buffers -> {Unused} \cup Slices]
      /\ cache \in [Keys -> Buffers \cup {Nil}]
  BY DEF IInv, TypeOK, HandleStates
<1>1. /\ r.pc = "open" /\ r.file \in Files /\ r.dirty \in BOOLEAN
      /\ KeyOf(r.file) \in Keys
  BY KeyTypes DEF OpenHandles
<1>2. \A o \in Handles : handle'[o] = IF o = h THEN r ELSE handle[o]
  BY <1>0
<1>3. ~Live(b)
  BY <1>0 DEF Shared
<1>4. \A k \in Keys : /\ cache[k] # b
                    /\ \/ cache'[k] \in {cache[k], Nil}
                       \/ cache'[k] = b /\ k = KeyOf(r.file)
  BY <1>0, <1>1, <1>3 DEF Live
<1>5. \A o \in Handles : IsOpen(o) => handle[o].buf # b /\ handle[o].buf \in Buffers
  BY <1>0, <1>3, HandleTypes DEF Live, IsOpen
<1>7. handle' \in [Handles -> HandleStates]
  BY <1>0 DEF HandleStates
<1>8. \A c \in Buffers : slice'[c] = IF Live(c)' THEN (IF c = b THEN Made(d, a) ELSE slice[c])
                                     ELSE Unused
  BY <1>0 DEF Collect
<1>9. Made(d, a) \in Slices /\ Made(d, a).author = a /\ Made(d, a).data = d
        /\ Made(d, a).origin = d
  BY DEF Made, Slices
<1>10. slice' \in [Buffers -> {Unused} \cup Slices]
  BY <1>0, <1>9 DEF Collect
\* What each handle and key refers to after the step.
<1>11. Live(b)' /\ slice'[b] = Made(d, a)
  BY <1>1, <1>2, <1>8 DEF Live
<1>12. ASSUME NEW o \in Handles, o # h, IsOpen(o)
       PROVE  /\ handle'[o] = handle[o]
              /\ slice'[handle[o].buf] = slice[handle[o].buf]
  <2>1. handle'[o] = handle[o] /\ handle[o].pc = "open"
    BY <1>2, <1>12 DEF IsOpen
  <2>2. \A c \in Buffers : c = handle[o].buf => Live(c)'
    BY <2>1 DEF Live
  <2> QED
    BY <1>5, <1>8, <1>12, <2>1, <2>2
<1>13. ASSUME NEW k \in Keys, cache'[k] # Nil, cache'[k] # b
       PROVE  /\ cache'[k] = cache[k] /\ cache[k] \in Buffers
              /\ slice'[cache[k]] = slice[cache[k]]
  <2>1. cache'[k] = cache[k] /\ cache[k] \in Buffers
    BY <1>0, <1>4, <1>13
  <2>2. \A c \in Buffers : c = cache[k] => Live(c)'
    BY <2>1 DEF Live
  <2> QED
    BY <1>8, <1>13, <2>1, <2>2
<1>14. ASSUME NEW c \in Buffers, Live(c)', c # b
       PROVE  Live(c)
  <2>1. CASE \E k \in Keys : cache'[k] = c
    BY <1>4, <1>14, <2>1 DEF Live
  <2>2. CASE \E o \in Handles : handle'[o].pc = "open" /\ handle'[o].buf = c
    BY <1>2, <1>14, <2>2 DEF Live
  <2> QED
    BY <1>14, <2>1, <2>2 DEF Live
<1>15. Made(d, a) # Unused
  BY <1>9
<1>16. Shared'
  <2>1. ASSUME NEW c \in Buffers, Live(c)'
        PROVE  slice'[c] # Unused
    BY <1>0, <1>8, <1>14, <1>15, <2>1 DEF Shared
  <2>2. ASSUME NEW j \in Keys, NEW k \in Keys, cache'[j] # Nil, cache'[j] = cache'[k]
        PROVE  j = k
    BY <1>0, <1>4, <2>2 DEF Shared
  <2>3. ASSUME NEW o \in Handles, NEW k \in Keys, IsOpen(o)', cache'[k] = handle'[o].buf
        PROVE  KeyOf(handle'[o].file) = k
    <3>1. CASE o = h
      BY <1>2, <1>4, <2>3, <3>1
    <3>2. CASE o # h
      BY <1>0, <1>2, <1>4, <1>5, <2>3, <3>2 DEF Shared, IsOpen
    <3> QED
      BY <3>1, <3>2
  <2> QED
    BY <2>1, <2>2, <2>3 DEF Shared
<1>17. Authors'
  <2> SUFFICES ASSUME NEW o \in Handles, NEW c \in Buffers,
                      slice'[c] # Unused, slice'[c].author = o
               PROVE  IsOpen(o)'
    BY DEF Authors
  <2>1. CASE o = h
    BY <1>1, <1>2, <2>1 DEF IsOpen
  <2>2. CASE o # h
    <3>1. c # b
      BY <1>9, <1>11, <2>2
    <3>2. slice[c] # Unused /\ slice[c].author = o
      BY <1>8, <3>1
    <3> QED
      BY <1>0, <1>2, <2>2, <3>2 DEF Authors, IsOpen
  <2> QED
    BY <2>1, <2>2
<1>18. Owners'
  <2> SUFFICES ASSUME NEW k \in Keys, Spoilt(k)' PROVE Owned(k)'
    BY DEF Owners
  <2>1. cache'[k] # Nil /\ cache'[k] # b
    BY <1>9, <1>11 DEF Spoilt
  <2>2. Spoilt(k)
    BY <1>13, <2>1 DEF Spoilt
  <2>3. CASE \E t \in flights : WillDrop(t, k)
    BY <2>3 DEF Owned
  <2>4. CASE k \in lost
    BY <2>1, <2>4 DEF Owned
  <2>5. ASSUME NEW o \in Handles, Dirty(o), KeyOf(handle[o].file) = k
        PROVE  Dirty(o)' /\ KeyOf(handle'[o].file) = k
    BY <1>1, <1>2, <2>5 DEF Dirty, IsOpen
  <2> QED
    BY <1>0, <2>2, <2>3, <2>4, <2>5 DEF Owners, Owned
<1>19. Numbered'
  BY <1>0 DEF Numbered
<1>20. FlightData'
  <2> SUFFICES ASSUME NEW o \in Handles, NEW t \in flights, t.handle = o,
                      t.number = latest[o], IsOpen(o)', ~handle'[o].dirty,
                      t.file.path = handle'[o].file.path,
                      slice'[handle'[o].buf].author = o
               PROVE  slice'[handle'[o].buf].data = t.data
    BY DEF FlightData
  <2>1. CASE o = h
    BY <1>2, <1>9, <1>11, <2>1
  <2>2. CASE o # h
    BY <1>0, <1>2, <1>12, <2>2 DEF FlightData, IsOpen
  <2> QED
    BY <2>1, <2>2
<1>21. EditKept'
  <2> SUFFICES ASSUME NEW o \in Handles, IsOpen(o)', ~handle'[o].dirty,
                      landed[handle'[o].file.path] = <<o, latest[o]>>,
                      slice'[handle'[o].buf].author = o
               PROVE  repo'[handle'[o].file.path] = slice'[handle'[o].buf].data
    BY DEF EditKept, IsOpen
  <2>1. CASE o = h
    BY <1>2, <1>9, <1>11, <2>1 DEF NoOne
  <2>2. CASE o # h
    BY <1>0, <1>2, <1>12, <2>2 DEF EditKept, IsOpen
  <2> QED
    BY <2>1, <2>2
<1> QED
  BY <1>7, <1>10, <1>16, <1>17, <1>18, <1>19, <1>20, <1>21

LEMMA CreateStep ==
  ASSUME IInv, NEW h \in Handles, NEW p \in Paths, Create(h, p) PROVE IInv'
<1> USE HandleAssumption
<1> DEFINE f == [path |-> p, oid |-> NoOid]
<1>0. TypeOK /\ Exists /\ f \in Files /\ f.path = p /\ KeyOf(f) = [path |-> p]
  BY DEF IInv, Files, KeyOf
<1>1. PICK b \in Buffers :
        /\ IsNext(b)
        /\ handle' = [handle EXCEPT ![h] = OpenHandle(f, b)]
        /\ Collect([slice EXCEPT ![b] = Made(<<>>, h)])
  BY DEF Create
<1> DEFINE r == OpenHandle(f, b)
<1>2. r \in OpenHandles /\ r.buf = b /\ r.file = f /\ slice[b] = Unused
  BY <1>0, <1>1 DEF OpenHandle, OpenHandles, IsNext
<1>3. /\ ~IsOpen(h) /\ repo[p] = NoFile /\ repo' = [repo EXCEPT ![p] = <<>>]
      /\ UNCHANGED <<flights, latest, landed>>
      /\ nodes' = nodes \cup {f}
      /\ cache' = [k \in Keys |-> IF k = [path |-> p] THEN Nil ELSE cache[k]]
      /\ lost' = lost \ {[path |-> p]}
  BY DEF Create, IsOpen, Closed, Drop
<1>4. \A o \in Handles : IsOpen(o) /\ o # h =>
        repo'[handle[o].file.path] = repo[handle[o].file.path]
  <2> SUFFICES ASSUME NEW o \in Handles, IsOpen(o)
               PROVE  repo'[handle[o].file.path] = repo[handle[o].file.path]
    OBVIOUS
  <2>1. handle[o].file.path \in Paths /\ handle[o].file.path # p
    BY <1>0, <1>3, HandleTypes, KeyTypes DEF Exists, IsOpen
  <2> QED
    BY <1>0, <1>3, <2>1 DEF TypeOK
<1>5. landed[p] = NoOne /\ \A t \in flights : t.file.path # p
  BY <1>0, <1>3 DEF Exists
<1>6. /\ cache' \in [Keys -> Buffers \cup {Nil}]
      /\ \A k \in Keys : cache'[k] \in {cache[k], Nil}
      /\ \A k \in Keys : k \in lost => k \in lost' \/ cache'[k] = Nil
  BY <1>0, <1>3 DEF TypeOK
<1> HIDE DEF r, f
<1>7. /\ slice' \in [Buffers -> {Unused} \cup Slices]
      /\ handle' \in [Handles -> HandleStates]
      /\ Shared' /\ Authors' /\ Owners' /\ Numbered' /\ FlightData' /\ EditKept'
  <2> DEFINE d == <<>>
  <2>1. d \in Contents /\ Collect([slice EXCEPT ![b] = Made(d, h)])
    BY <1>1, ContentsAre
  <2>2. handle' = [handle EXCEPT ![h] = r]
    BY <1>1 DEF r
  <2>3. \A k \in Keys : cache'[k] \in {cache[k], Nil}
                        \/ (cache'[k] = b /\ k = KeyOf(r.file))
    BY <1>6
  <2>4. \A k \in Keys : k \in lost => k \in lost' \/ cache'[k] \in {b, Nil}
    BY <1>6
  <2>5. r.dirty \/ h = Nil \/ (/\ landed[r.file.path] = NoOne
                              /\ \A t \in flights : t.file.path # r.file.path)
    BY <1>0, <1>2, <1>5
  <2>6. h \in {h, Nil} /\ (IsOpen(h) => r.dirty /\ r.file = handle[h].file)
    BY <1>3
  <2>7. r \in OpenHandles /\ r.buf = b /\ slice[b] = Unused
    BY <1>2
  <2>8. UNCHANGED <<flights, latest, landed>>
    BY <1>3
  <2>9. cache' \in [Keys -> Buffers \cup {Nil}]
    BY <1>6
  <2> HIDE DEF d
  <2> QED
    BY <1>4, <2>7, <2>8, <2>9, <2>1, <2>2, <2>3, <2>4, <2>5, <2>6, NewSlice
<1>8. TypeOK'
  <2>1. repo' \in [Paths -> Contents \cup {NoFile}]
    BY <1>0, <1>3, ContentsAre DEF TypeOK
  <2>2. nodes' \subseteq Files /\ lost' \subseteq Keys
    BY <1>0, <1>3 DEF TypeOK
  <2> QED
    BY <1>0, <1>3, <1>6, <1>7, <2>1, <2>2 DEF TypeOK, HandleStates
<1>9. Exists'
  <2> SUFFICES ASSUME NEW q \in Paths, repo'[q] = NoFile
               PROVE  /\ landed[q] = NoOne
                      /\ \A t \in flights : t.file.path # q
                      /\ \A g \in nodes' : g.path # q
                      /\ \A o \in Handles : handle'[o].pc # "closed" => handle'[o].file.path # q
    BY <1>3 DEF Exists
  <2>1. q # p /\ repo[q] = NoFile
    BY <1>0, <1>3, ContentsAre DEF TypeOK
  <2>2. \A o \in Handles : handle'[o] = IF o = h THEN r ELSE handle[o]
    BY <1>0, <1>1 DEF TypeOK, r
  <2> QED
    BY <1>0, <1>2, <1>3, <2>1, <2>2 DEF Exists
<1> QED
  BY <1>7, <1>8, <1>9 DEF IInv

\* The steps that give a handle a slice and leave the files alone.
LEMMA SliceStep ==
  ASSUME IInv, NEW h \in Handles, NEW b \in Buffers, IsNext(b),
         NEW r \in OpenHandles, r.buf = b, handle' = [handle EXCEPT ![h] = r],
         handle[h].pc # "closed", r.file = handle[h].file,
         \/ UNCHANGED <<cache, lost>>
         \/ cache' = [cache EXCEPT ![KeyOf(r.file)] = b] /\ lost' = lost \ {KeyOf(r.file)},
         NEW d \in Contents, NEW a \in {h, Nil},
         Collect([slice EXCEPT ![b] = Made(d, a)]),
         UNCHANGED <<repo, nodes, flights, latest, landed>>,
         IsOpen(h) => r.dirty, r.dirty \/ a = Nil
  PROVE  IInv'
<1>0. TypeOK /\ Exists /\ slice[b] = Unused /\ r.file \in Files /\ KeyOf(r.file) \in Keys
  BY KeyTypes DEF IInv, IsNext, OpenHandles
<1>1. /\ cache' \in [Keys -> Buffers \cup {Nil}]
      /\ \A k \in Keys : cache'[k] \in {cache[k], Nil}
                       \/ (cache'[k] = b /\ k = KeyOf(r.file))
      /\ \A k \in Keys : k \in lost => k \in lost' \/ cache'[k] \in {b, Nil}
      /\ lost' \subseteq Keys
  BY <1>0 DEF TypeOK
<1>2. /\ slice' \in [Buffers -> {Unused} \cup Slices]
      /\ handle' \in [Handles -> HandleStates]
      /\ Shared' /\ Authors' /\ Owners' /\ Numbered' /\ FlightData' /\ EditKept'
  <2>1. IsOpen(h) => r.dirty /\ r.file = handle[h].file
    OBVIOUS
  <2>2. r.dirty \/ a = Nil \/ (/\ landed[r.file.path] = NoOne
                              /\ \A t \in flights : t.file.path # r.file.path)
    OBVIOUS
  <2>3. \A o \in Handles : IsOpen(o) /\ o # h =>
          repo'[handle[o].file.path] = repo[handle[o].file.path]
    OBVIOUS
  <2> QED
    BY <1>0, <1>1, <2>1, <2>2, <2>3, NewSlice
<1>3. TypeOK'
  BY <1>0, <1>1, <1>2 DEF TypeOK, HandleStates
<1>4. \A o \in Handles : handle'[o] = IF o = h THEN r ELSE handle[o]
  BY <1>0 DEF TypeOK
<1>5. Exists'
  BY <1>0, <1>4 DEF Exists
<1> QED
  BY <1>2, <1>3, <1>5 DEF IInv

LEMMA OpenedStep ==
  ASSUME IInv, NEW h \in Handles, OpenDone(h) \/ OpenEmpty(h) PROVE IInv'
<1>0. /\ handle[h].pc \in {"asking", "opening"} /\ ~IsOpen(h) /\ handle[h].file \in Files
      /\ handle[h].pc = "opening" => handle[h].data \in Contents
      /\ UNCHANGED <<repo, nodes, flights, latest, landed>>
  BY HandleTypes DEF IInv, OpenDone, OpenEmpty, IsOpen
<1>1. ASSUME NEW b \in Buffers
      PROVE  /\ OpenHandle(handle[h].file, b) \in OpenHandles
             /\ OpenHandle(handle[h].file, b).buf = b
             /\ OpenHandle(handle[h].file, b).file = handle[h].file
  BY <1>0 DEF OpenHandle, OpenHandles
<1>2. CASE OpenDone(h)
  <2>1. PICK b \in Buffers :
          /\ IsNext(b)
          /\ handle' = [handle EXCEPT ![h] = OpenHandle(handle[h].file, b)]
          /\ IF Cacheable(handle[h].data)
               THEN /\ cache' = [cache EXCEPT ![KeyOf(handle[h].file)] = b]
                    /\ lost' = lost \ {KeyOf(handle[h].file)}
               ELSE UNCHANGED <<cache, lost>>
          /\ Collect([slice EXCEPT ![b] = Made(handle[h].data, Nil)])
    BY <1>2 DEF OpenDone
  <2> DEFINE r == OpenHandle(handle[h].file, b)
             d == handle[h].data
  <2>2. /\ r \in OpenHandles /\ r.buf = b /\ r.file = handle[h].file
        /\ handle' = [handle EXCEPT ![h] = r]
        /\ Collect([slice EXCEPT ![b] = Made(d, Nil)]) /\ d \in Contents
    BY <1>0, <1>1, <1>2, <2>1 DEF OpenDone
  <2> HIDE DEF r, d
  <2>3. \/ UNCHANGED <<cache, lost>>
        \/ cache' = [cache EXCEPT ![KeyOf(r.file)] = b] /\ lost' = lost \ {KeyOf(r.file)}
    BY <2>1, <2>2
  <2> QED
    BY <1>0, <2>1, <2>2, <2>3, SliceStep
<1>3. CASE OpenEmpty(h)
  <2>1. PICK b \in Buffers :
          /\ IsNext(b)
          /\ handle' = [handle EXCEPT ![h] = OpenHandle(handle[h].file, b)]
          /\ Collect([slice EXCEPT ![b] = Made(<<>>, Nil)])
    BY <1>3 DEF OpenEmpty
  <2> DEFINE r == OpenHandle(handle[h].file, b)
             d == <<>>
  <2>2. /\ r \in OpenHandles /\ r.buf = b /\ r.file = handle[h].file
        /\ handle' = [handle EXCEPT ![h] = r]
        /\ Collect([slice EXCEPT ![b] = Made(d, Nil)]) /\ d \in Contents
    BY <1>1, <2>1, ContentsAre
  <2>3. UNCHANGED <<cache, lost>>
    BY <1>3 DEF OpenEmpty
  <2> HIDE DEF r, d
  <2> QED
    BY <1>0, <2>1, <2>2, <2>3, SliceStep
<1> QED
  BY <1>2, <1>3

\* The steps up to the slice, and an Open that finds one in the cache.
LEMMA HandleStep ==
  ASSUME IInv, NEW h \in Handles, ~IsOpen(h), NEW r \in HandleStates,
         handle' = [handle EXCEPT ![h] = r],
         UNCHANGED <<repo, nodes, cache, slice, flights, latest, landed, lost>>,
         r.pc # "closed" => repo[r.file.path] # NoFile,
         r.pc = "open" => /\ ~r.dirty /\ r.buf \in Buffers /\ KeyOf(r.file) \in Keys
                          /\ cache[KeyOf(r.file)] = r.buf
  PROVE  IInv'
<1> USE HandleAssumption
<1>0. /\ TypeOK /\ Shared /\ Authors /\ Owners /\ Exists /\ Numbered /\ FlightData /\ EditKept
      /\ handle \in [Handles -> HandleStates]
      /\ \A o \in Handles : handle'[o] = IF o = h THEN r ELSE handle[o]
  BY DEF IInv, TypeOK, HandleStates
<1>1. TypeOK'
  BY <1>0 DEF TypeOK, HandleStates
<1>2. \A b \in Buffers : Live(b)' => Live(b)
  <2>1. r.pc = "open" => Live(r.buf)
    BY DEF Live
  <2> QED
    BY <1>0, <2>1 DEF Live
<1>3. Shared'
  <2>1. \A o \in Handles, k \in Keys :
          IsOpen(o)' /\ cache[k] = handle'[o].buf => KeyOf(handle'[o].file) = k
    <3> TAKE o \in Handles, k \in Keys
    <3>1. CASE o = h
      BY <1>0, <3>1 DEF Shared, IsOpen
    <3>2. CASE o # h
      BY <1>0, <3>2 DEF Shared, IsOpen
    <3> QED
      BY <3>1, <3>2
  <2> QED
    BY <1>0, <1>2, <2>1 DEF Shared
<1>4. Authors'
  BY <1>0 DEF Authors, IsOpen
<1>5. Owners'
  <2>1. \A k \in Keys : Spoilt(k)' => Spoilt(k)
    BY DEF Spoilt
  <2>2. \A k \in Keys : Owned(k) => Owned(k)'
    BY <1>0 DEF Owned, Dirty, IsOpen
  <2> QED
    BY <1>0, <2>1, <2>2 DEF Owners
<1>6. Exists'
  BY <1>0 DEF Exists
<1>7. Numbered'
  BY <1>0 DEF Numbered
<1>8. \A b \in Buffers : Live(b) => slice[b].author # h
  BY <1>0 DEF Shared, Authors
<1>9. IsOpen(h)' => Live(handle'[h].buf) /\ handle'[h].buf \in Buffers
  BY <1>0 DEF IsOpen, Live
<1>10. FlightData'
  <2> SUFFICES ASSUME NEW o \in Handles, NEW t \in flights, t.handle = o,
                      t.number = latest[o], IsOpen(o)', ~handle'[o].dirty,
                      t.file.path = handle'[o].file.path,
                      slice[handle'[o].buf].author = o
               PROVE  slice[handle'[o].buf].data = t.data
    BY DEF FlightData
  <2>1. CASE o = h
    BY <1>8, <1>9, <2>1
  <2>2. CASE o # h
    BY <1>0, <2>2 DEF FlightData, IsOpen
  <2> QED
    BY <2>1, <2>2
<1>11. EditKept'
  BY <1>0, <1>8, <1>9 DEF EditKept, IsOpen
<1> QED
  BY <1>1, <1>3, <1>4, <1>5, <1>6, <1>7, <1>10, <1>11 DEF IInv

LEMMA OpeningStep ==
  ASSUME IInv, NEW h \in Handles,
         \/ Answer(h) \/ OpenFails(h)
         \/ \E f \in nodes : OpenHit(h, f) \/ OpenMiss(h, f)
  PROVE  IInv'
<1> USE HandleAssumption
<1>0. TypeOK /\ Exists /\ UNCHANGED <<repo, nodes, cache, slice, flights, latest, landed, lost>>
  BY DEF IInv, Answer, OpenFails, OpenHit, OpenMiss
<1>1. CASE Answer(h)
  <2> DEFINE f == handle[h].file
             r == [pc |-> "opening", file |-> f, data |-> repo[f.path]]
  <2>1. handle[h].pc = "asking" /\ f \in Files /\ f.path \in Paths /\ repo[f.path] # NoFile
    BY <1>0, <1>1, HandleTypes, KeyTypes DEF Answer, Exists
  <2>2. repo[f.path] \in Contents
    BY <1>0, <2>1 DEF TypeOK
  <2>3. r \in HandleStates /\ r.pc = "opening" /\ r.file = f
    BY <2>1, <2>2 DEF HandleStates
  <2>4. handle' = [handle EXCEPT ![h] = r]
    BY <1>1 DEF Answer
  <2> HIDE DEF r
  <2> QED
    BY <1>0, <2>1, <2>3, <2>4, HandleStep DEF IsOpen
<1>2. CASE OpenFails(h)
  <2>1. Closed \in HandleStates /\ Closed.pc = "closed"
    BY DEF HandleStates, Closed
  <2>2. ~IsOpen(h) /\ handle' = [handle EXCEPT ![h] = Closed]
    BY <1>2 DEF OpenFails, IsOpen
  <2> QED
    BY <1>0, <2>1, <2>2, HandleStep
<1>3. ASSUME NEW f \in nodes, OpenHit(h, f) \/ OpenMiss(h, f)
      PROVE  IInv'
  <2>1. f \in Files /\ f.path \in Paths /\ repo[f.path] # NoFile /\ ~IsOpen(h)
          /\ KeyOf(f) \in Keys /\ (f.oid = NoOid \/ f.oid \in Contents)
    BY <1>0, <1>3, KeyTypes DEF TypeOK, Exists, OpenHit, OpenMiss, IsOpen, Closed
  <2>2. CASE OpenHit(h, f)
    <3> DEFINE r == OpenHandle(f, cache[KeyOf(f)])
    <3>1. cache[KeyOf(f)] \in Buffers
      BY <1>0, <2>1, <2>2 DEF TypeOK, OpenHit, Usable
    <3>2. /\ r \in HandleStates /\ r.pc = "open" /\ ~r.dirty /\ r.file = f
          /\ r.buf = cache[KeyOf(f)]
      BY <2>1, <3>1 DEF OpenHandle, HandleStates, OpenHandles
    <3>3. handle' = [handle EXCEPT ![h] = r]
      BY <2>2 DEF OpenHit
    <3> HIDE DEF r
    <3> QED
      BY <1>0, <2>1, <3>1, <3>2, <3>3, HandleStep
  <2>3. CASE OpenMiss(h, f) /\ f.oid = NoOid
    <3> DEFINE r == [pc |-> "asking", file |-> f]
    <3>1. r \in HandleStates /\ r.pc = "asking" /\ r.file = f
      BY <2>1 DEF HandleStates
    <3>2. handle' = [handle EXCEPT ![h] = r]
      BY <2>3 DEF OpenMiss
    <3> HIDE DEF r
    <3> QED
      BY <1>0, <2>1, <3>1, <3>2, HandleStep
  <2>4. CASE OpenMiss(h, f) /\ f.oid # NoOid
    <3> DEFINE r == [pc |-> "opening", file |-> f, data |-> f.oid]
    <3>1. r \in HandleStates /\ r.pc = "opening" /\ r.file = f
      BY <2>1, <2>4 DEF HandleStates
    <3>2. handle' = [handle EXCEPT ![h] = r]
      BY <2>4 DEF OpenMiss
    <3> HIDE DEF r
    <3> QED
      BY <1>0, <2>1, <3>1, <3>2, HandleStep
  <2> QED
    BY <1>3, <2>2, <2>3, <2>4
<1> QED
  BY <1>1, <1>2, <1>3

\* The steps that leave slices, handles and commits alone.
LEMMA FilesStep ==
  ASSUME IInv, NEW p \in Paths, Lookup(p) \/ CreateFails(p) PROVE IInv'
<1>0. /\ TypeOK /\ Exists /\ Shared /\ Authors /\ Owners /\ Numbered /\ FlightData /\ EditKept
      /\ UNCHANGED <<cache, slice, handle, flights, latest, landed, lost>>
  BY DEF IInv, Lookup, CreateFails
<1>1. Shared' /\ Authors' /\ Numbered' /\ FlightData'
  BY <1>0 DEF Shared, Live, Authors, Numbered, FlightData, IsOpen
<1>2. Owners'
  BY <1>0 DEF Owners, Spoilt, Owned, Dirty, IsOpen
<1>3. CASE Lookup(p)
  <2>1. [path |-> p, oid |-> repo[p]] \in Files /\ repo' = repo
    BY <1>0, <1>3 DEF Lookup, TypeOK, Files
  <2>2. TypeOK'
    BY <1>0, <1>3, <2>1 DEF Lookup, TypeOK
  <2>3. Exists'
    BY <1>0, <1>3, <2>1 DEF Lookup, Exists
  <2>4. EditKept'
    BY <1>0, <2>1 DEF EditKept
  <2> QED
    BY <1>1, <1>2, <2>2, <2>3, <2>4 DEF IInv
<1>4. CASE CreateFails(p)
  <2>1. repo[p] = NoFile /\ repo' = [repo EXCEPT ![p] = <<>>] /\ nodes' = nodes
    BY <1>4 DEF CreateFails
  <2>2. repo' \in [Paths -> Contents \cup {NoFile}]
    BY <1>0, <2>1, ContentsAre DEF TypeOK
  <2>3. TypeOK'
    BY <1>0, <2>1, <2>2 DEF TypeOK
  <2>4. \A q \in Paths : q # p => repo'[q] = repo[q]
    BY <1>0, <2>1 DEF TypeOK
  <2>5. repo'[p] # NoFile
    BY <1>0, <2>1, ContentsAre, HandleAssumption DEF TypeOK
  <2>6. Exists'
    BY <1>0, <2>1, <2>4, <2>5 DEF Exists
  <2>7. EditKept'
    <3>1. \A h \in Handles : IsOpen(h) =>
            handle[h].file.path \in Paths /\ handle[h].file.path # p
      BY <1>0, <2>1, HandleTypes, KeyTypes DEF Exists, IsOpen
    <3> QED
      BY <1>0, <2>4, <3>1 DEF EditKept, IsOpen
  <2> QED
    BY <1>1, <1>2, <2>3, <2>6, <2>7 DEF IInv
<1> QED
  BY <1>3, <1>4

LEMMA WriteStep ==
  ASSUME IInv, NEW h \in Handles, NEW offset \in 0..(MaxLen - 1), NEW byte \in Byte,
         Write(h, offset, <<byte>>)
  PROVE  IInv'
<1> USE HandleAssumption
<1> DEFINE b == handle[h].buf
           old == slice[b].data
           d == WriteAt(old, offset, <<byte>>)
<1>0. /\ TypeOK /\ Shared /\ Authors /\ Owners /\ Exists /\ Numbered /\ FlightData /\ EditKept
      /\ IsOpen(h) /\ handle[h] \in OpenHandles /\ b \in Buffers
      /\ UNCHANGED <<repo, nodes, cache, flights, latest, landed, lost>>
  BY HandleTypes DEF IInv, Write, IsOpen
<1>1. slice[b] \in Slices
  <2>1. slice[b] # Unused
    BY <1>0, Lives DEF Shared
  <2> QED
    BY <1>0, <2>1 DEF TypeOK
<1>2. d \in Contents
  BY <1>1, WriteIsContent DEF Slices
<1>3. CASE Grows(old, offset, <<byte>>)
  <2>1. PICK new \in Buffers :
          /\ IsNext(new)
          /\ handle' = [handle EXCEPT ![h].buf = new, ![h].dirty = TRUE]
          /\ Collect([slice EXCEPT ![new] = Made(d, h)])
    BY <1>3 DEF Write
  <2> DEFINE r == [handle[h] EXCEPT !.buf = new, !.dirty = TRUE]
  <2>2. /\ r \in OpenHandles /\ r.buf = new /\ r.dirty /\ r.file = handle[h].file
    BY <1>0 DEF OpenHandles
  <2>3. handle' = [handle EXCEPT ![h] = r]
    BY <1>0, <2>1 DEF TypeOK
  <2>4. handle[h].pc # "closed"
    BY <1>0 DEF IsOpen
  <2> HIDE DEF r, d
  <2> QED
    BY <1>0, <1>2, <2>1, <2>2, <2>3, <2>4, SliceStep
<1>4. CASE ~Grows(old, offset, <<byte>>)
  <2>1. /\ handle' = [handle EXCEPT ![h].dirty = TRUE]
        /\ slice' = [slice EXCEPT ![b].data = d, ![b].author = h]
    BY <1>4 DEF Write
  <2>2. /\ \A o \in Handles : o # h => handle'[o] = handle[o]
        /\ handle'[h] = [handle[h] EXCEPT !.dirty = TRUE]
        /\ handle'[h].pc = handle[h].pc /\ handle'[h].buf = handle[h].buf
        /\ handle'[h].file = handle[h].file
    BY <1>0, <2>1 DEF TypeOK, OpenHandles
  <2>3. handle'[h] \in OpenHandles /\ handle'[h].dirty
    BY <1>0, <2>1 DEF TypeOK, OpenHandles
  <2> HIDE DEF d
  <2>4. \A c \in Buffers : c # b => slice'[c] = slice[c]
    BY <1>0, <2>1 DEF TypeOK
  <2>5. slice'[b] \in Slices /\ slice'[b].author = h /\ slice'[b] # Unused
    BY <1>0, <1>1, <1>2, <2>1 DEF TypeOK, Slices
  <2> HIDE DEF b, old
  <2>6. slice' \in [Buffers -> {Unused} \cup Slices]
    BY <1>0, <2>1, <2>4, <2>5 DEF TypeOK
  <2>7. TypeOK'
    <3>1. handle' \in [Handles -> HandleStates]
      BY <1>0, <2>1, <2>3 DEF TypeOK, HandleStates
    <3> QED
      BY <1>0, <2>6, <3>1 DEF TypeOK, HandleStates
  <2>8. \A c \in Buffers : Live(c)' <=> Live(c)
    BY <1>0, <2>2 DEF Live, IsOpen
  <2>9. Shared'
    <3>1. \A c \in Buffers : Live(c)' => slice'[c] # Unused
      BY <1>0, <2>4, <2>5, <2>8 DEF Shared
    <3>2. \A o \in Handles, k \in Keys :
            IsOpen(o)' /\ cache[k] = handle'[o].buf => KeyOf(handle'[o].file) = k
      <4> TAKE o \in Handles, k \in Keys
      <4>1. CASE o = h
        <5>1. cache[k] = handle[h].buf => KeyOf(handle[h].file) = k
          BY <1>0 DEF Shared
        <5> QED
          BY <2>2, <4>1, <5>1
      <4>2. CASE o # h
        BY <1>0, <2>2, <4>2 DEF Shared, IsOpen
      <4> QED
        BY <4>1, <4>2
    <3> QED
      BY <1>0, <3>1, <3>2 DEF Shared
  <2>10. Authors'
    <3> SUFFICES ASSUME NEW o \in Handles, NEW c \in Buffers,
                        slice'[c] # Unused, slice'[c].author = o
                 PROVE  IsOpen(o)'
      BY DEF Authors
    <3>1. CASE c = b
      BY <1>0, <2>2, <2>5, <3>1 DEF IsOpen
    <3>2. CASE c # b
      <4>1. IsOpen(o)
        BY <1>0, <2>4, <3>2 DEF Authors
      <4>2. CASE o = h
        BY <2>2, <4>1, <4>2 DEF IsOpen
      <4>3. CASE o # h
        BY <2>2, <4>1, <4>3 DEF IsOpen
      <4> QED
        BY <4>2, <4>3
    <3> QED
      BY <3>1, <3>2
  <2>11. Owners'
    <3> SUFFICES ASSUME NEW k \in Keys, Spoilt(k)' PROVE Owned(k)'
      BY DEF Owners
    <3>1. CASE cache[k] = b
      <4>1. KeyOf(handle[h].file) = k
        BY <1>0, <3>1 DEF Shared, b
      <4> QED
        BY <1>0, <2>2, <2>3, <4>1 DEF Owned, Dirty, IsOpen
    <3>2. CASE cache[k] # b
      <4>1. cache[k] \in Buffers
        BY <1>0 DEF Spoilt, TypeOK
      <4>2. Owned(k)
        BY <1>0, <2>4, <3>2, <4>1 DEF Spoilt, Owners
      <4> QED
        BY <1>0, <2>2, <2>3, <4>2 DEF Owned, Dirty, IsOpen
    <3> QED
      BY <3>1, <3>2
  <2>12. Exists'
    <3>1. \A o \in Handles : handle'[o].pc = handle[o].pc /\ handle'[o].file = handle[o].file
      <4> TAKE o \in Handles
      <4>1. CASE o = h
        BY <2>2, <4>1
      <4>2. CASE o # h
        BY <2>2, <4>2
      <4> QED
        BY <4>1, <4>2
    <3> QED
      BY <1>0, <3>1 DEF Exists
  <2>13. Numbered'
    BY <1>0 DEF Numbered
  <2>14. ASSUME NEW o \in Handles, IsOpen(o)', ~handle'[o].dirty,
                slice'[handle'[o].buf].author = o
         PROVE  /\ o # h /\ handle'[o] = handle[o] /\ IsOpen(o)
                /\ slice'[handle[o].buf] = slice[handle[o].buf]
    <3>1. o # h /\ handle'[o] = handle[o] /\ IsOpen(o)
      BY <2>2, <2>3, <2>14 DEF IsOpen
    <3>2. handle[o].buf \in Buffers /\ handle[o].buf # b
      BY <1>0, <2>5, <2>14, <3>1, HandleTypes
    <3> QED
      BY <2>4, <3>1, <3>2
  <2>15. FlightData'
    BY <1>0, <2>14 DEF FlightData
  <2>16. EditKept'
    BY <1>0, <2>14 DEF EditKept, IsOpen
  <2> QED
    BY <2>7, <2>9, <2>10, <2>11, <2>12, <2>13, <2>15, <2>16 DEF IInv
<1> QED
  BY <1>3, <1>4

-----------------------------------------------------------------------------
\* The commit that Flush and Release start, and a handle that is clean or
\* gone after it: what the slices hold stays (handle.go:71-76).
LEMMA SnapshotStep ==
  ASSUME IInv, NEW h \in Handles, Snapshot(h),
         handle' \in [Handles -> HandleStates],
         \A o \in Handles : o # h => handle'[o] = handle[o],
         handle'[h] # Closed => /\ IsOpen(h)' /\ ~handle'[h].dirty
                                /\ handle'[h].buf = handle[h].buf
                                /\ handle'[h].file = handle[h].file,
         slice' \in [Buffers -> {Unused} \cup Slices],
         \A c \in Buffers : Live(c)' =>
           /\ slice'[c] # Unused
           /\ slice'[c].data = slice[c].data /\ slice'[c].origin = slice[c].origin,
         \A c \in Buffers, o \in Handles :
           slice'[c] # Unused /\ slice'[c].author = o =>
             slice[c] # Unused /\ slice[c].author = o /\ IsOpen(o)'
  PROVE  IInv'
<1> USE HandleAssumption
<1> DEFINE new == NewFlight(h)
<1>0. /\ TypeOK /\ Shared /\ Authors /\ Owners /\ Exists /\ Numbered /\ FlightData /\ EditKept
      /\ UNCHANGED <<repo, nodes, cache, landed, lost>>
      /\ IsOpen(h) /\ handle[h] \in OpenHandles /\ handle[h].file \in Files
      /\ handle[h].buf \in Buffers /\ handle[h].dirty \in BOOLEAN
  BY HandleTypes DEF IInv, Snapshot, IsOpen
<1>1. slice[handle[h].buf] \in Slices
  <2>1. slice[handle[h].buf] # Unused
    BY <1>0, Lives DEF Shared
  <2> QED
    BY <1>0, <2>1 DEF TypeOK
<1>2. /\ new \in Flights /\ new.handle = h /\ new.number = latest[h] + 1
      /\ new.file = handle[h].file /\ new.data = slice[handle[h].buf].data
      /\ new.stage = "sent"
  <2>1. latest[h] + 1 \in Nat /\ slice[handle[h].buf].data \in Contents
    BY <1>0, <1>1 DEF TypeOK, Slices
  <2> QED
    BY <1>0, <2>1 DEF NewFlight, Flights
<1>3. \/ /\ handle[h].dirty /\ flights' = flights \cup {new}
         /\ latest' = [latest EXCEPT ![h] = latest[h] + 1]
      \/ ~handle[h].dirty /\ flights' = flights /\ latest' = latest
  BY <1>0 DEF Snapshot
<1> HIDE DEF new
<1>4. /\ flights' \subseteq Flights /\ latest' \in [Handles -> Nat]
      /\ \A o \in Handles : latest'[o] \in Nat /\ latest[o] \in Nat /\ latest[o] <= latest'[o]
      /\ \A o \in Handles : o # h => latest'[o] = latest[o]
  BY <1>0, <1>2, <1>3 DEF TypeOK
<1>5. TypeOK'
  BY <1>0, <1>4 DEF TypeOK, HandleStates
<1>6. ASSUME NEW o \in Handles, IsOpen(o)'
      PROVE  /\ IsOpen(o) /\ handle'[o].buf = handle[o].buf
             /\ handle'[o].file = handle[o].file
             /\ handle[o].buf \in Buffers /\ handle[o].file \in Files
             /\ \A c \in Buffers : c = handle[o].buf => Live(c)'
  <2>1. IsOpen(o) /\ handle'[o].buf = handle[o].buf /\ handle'[o].file = handle[o].file
    <3>1. CASE o = h
      BY <1>0, <1>6, <3>1 DEF Closed, IsOpen
    <3>2. CASE o # h
      BY <1>6, <3>2 DEF IsOpen
    <3> QED
      BY <3>1, <3>2
  <2>2. \A c \in Buffers : c = handle[o].buf => Live(c)'
    BY <1>6, <2>1 DEF Live, IsOpen
  <2> QED
    BY <1>0, <2>1, <2>2, HandleTypes
<1>7. ASSUME NEW c \in Buffers, Live(c)' PROVE Live(c)
  BY <1>0, <1>6, <1>7 DEF Live, IsOpen
<1>8. Shared'
  <2>1. \A c \in Buffers : Live(c)' => slice'[c] # Unused
    OBVIOUS
  <2>2. ASSUME NEW o \in Handles, NEW k \in Keys, IsOpen(o)', cache[k] = handle'[o].buf
        PROVE  KeyOf(handle'[o].file) = k
    BY <1>0, <1>6, <2>2 DEF Shared
  <2> QED
    BY <1>0, <2>1, <2>2 DEF Shared
<1>9. Authors'
  BY DEF Authors
<1>10. Owners'
  <2> SUFFICES ASSUME NEW k \in Keys, Spoilt(k)' PROVE Owned(k)'
    BY DEF Owners
  <2>1. cache[k] \in Buffers /\ cache[k] # Nil
    BY <1>0 DEF Spoilt, TypeOK
  <2>2. Live(cache[k])'
    BY <1>0 DEF Live
  <2>3. Spoilt(k)
    BY <1>0, <2>1, <2>2 DEF Spoilt
  <2>4. Owned(k)
    BY <1>0, <2>3 DEF Owners
  <2>5. CASE \E t \in flights : WillDrop(t, k)
    BY <1>3, <2>5 DEF Owned
  <2>6. CASE k \in lost
    BY <1>0, <2>6 DEF Owned
  <2>7. ASSUME NEW o \in Handles, Dirty(o), KeyOf(handle[o].file) = k
        PROVE  Owned(k)'
    <3>1. CASE o = h
      <4>1. new \in flights' /\ WillDrop(new, k)
        BY <1>2, <1>3, <2>7, <3>1 DEF WillDrop, Dirty
      <4> QED
        BY <4>1 DEF Owned
    <3>2. CASE o # h
      <4>1. Dirty(o)' /\ KeyOf(handle'[o].file) = k
        BY <2>7, <3>2 DEF Dirty, IsOpen
      <4> QED
        BY <4>1 DEF Owned
    <3> QED
      BY <3>1, <3>2
  <2> QED
    BY <2>4, <2>5, <2>6, <2>7 DEF Owned
<1>11. Exists'
  <2> SUFFICES ASSUME NEW p \in Paths, repo[p] = NoFile
               PROVE  /\ \A t \in flights' : t.file.path # p
                      /\ \A o \in Handles : handle'[o].pc # "closed" => handle'[o].file.path # p
    BY <1>0 DEF Exists
  <2>1. \A o \in Handles : handle'[o].pc # "closed" =>
          handle[o].pc # "closed" /\ handle'[o].file = handle[o].file
    <3> TAKE o \in Handles
    <3>1. CASE o = h
      BY <1>0, <3>1 DEF Closed, IsOpen
    <3>2. CASE o # h
      BY <3>2
    <3> QED
      BY <3>1, <3>2
  <2>2. handle[h].file.path # p
    BY <1>0 DEF Exists, IsOpen
  <2> QED
    BY <1>0, <1>2, <1>3, <2>1, <2>2 DEF Exists
<1>12. Numbered'
  <2>1. ASSUME NEW t \in flights' PROVE t.number <= latest'[t.handle]
    <3>1. CASE t \in flights
      <4>1. t.handle \in Handles /\ t.number \in Nat /\ t.number <= latest[t.handle]
        BY <1>0, <3>1 DEF Numbered, TypeOK, Flights
      <4> QED
        BY <1>4, <4>1
    <3>2. CASE t \notin flights
      BY <1>0, <1>2, <1>3, <1>4, <3>2 DEF TypeOK
    <3> QED
      BY <3>1, <3>2
  <2>2. ASSUME NEW p \in Paths, NEW o \in Handles, NEW n \in Nat, landed[p] = <<o, n>>
        PROVE  n <= latest'[o]
    BY <1>0, <1>4, <2>2 DEF Numbered
  <2> QED
    BY <1>0, <2>1, <2>2 DEF Numbered
\* Of a handle that is still open, and the last writer of its slice.
<1>13. ASSUME NEW o \in Handles, IsOpen(o)', slice'[handle'[o].buf].author = o
       PROVE  /\ slice[handle[o].buf].author = o
              /\ slice'[handle'[o].buf].data = slice[handle[o].buf].data
  <2>1. PICK c \in Buffers : c = handle[o].buf /\ handle'[o].buf = c /\ Live(c)'
    BY <1>6, <1>13
  <2>2. slice'[c] # Unused /\ slice'[c].data = slice[c].data
    BY <2>1
  <2>3. slice'[c].author = o
    BY <1>13, <2>1
  <2>4. slice[c].author = o
    BY <2>2, <2>3
  <2> QED
    BY <2>1, <2>2, <2>4
<1>14. FlightData'
  <2> SUFFICES ASSUME NEW o \in Handles, NEW t \in flights', t.handle = o,
                      t.number = latest'[o], IsOpen(o)', ~handle'[o].dirty,
                      t.file.path = handle'[o].file.path,
                      slice'[handle'[o].buf].author = o
               PROVE  slice'[handle'[o].buf].data = t.data
    BY DEF FlightData
  <2>1. CASE o = h /\ handle[h].dirty
    <3>1. t \notin flights
      <4>1. latest'[h] = latest[h] + 1 /\ latest[h] \in Nat
        BY <1>0, <1>3, <2>1 DEF TypeOK
      <4> QED
        BY <1>0, <2>1, <4>1 DEF Numbered
    <3> QED
      BY <1>2, <1>3, <1>13, <2>1, <3>1
  <2>2. CASE ~(o = h /\ handle[h].dirty)
    <3>1. t \in flights /\ t.number = latest[o]
      BY <1>2, <1>3, <1>4, <2>2
    <3>2. ~handle[o].dirty
      BY <2>2
    <3> QED
      BY <1>0, <1>6, <1>13, <3>1, <3>2 DEF FlightData
  <2> QED
    BY <2>1, <2>2
<1>15. EditKept'
  <2> SUFFICES ASSUME NEW o \in Handles, IsOpen(o)', ~handle'[o].dirty,
                      landed[handle'[o].file.path] = <<o, latest'[o]>>,
                      slice'[handle'[o].buf].author = o
               PROVE  repo[handle'[o].file.path] = slice'[handle'[o].buf].data
    BY <1>0 DEF EditKept, IsOpen
  <2>1. handle[o].file.path \in Paths /\ handle'[o].file = handle[o].file
    BY <1>6, KeyTypes
  <2>2. latest'[o] = latest[o]
    <3>1. latest'[o] <= latest[o]
      BY <1>0, <1>4, <2>1 DEF Numbered
    <3> QED
      BY <1>4, <3>1
  <2>3. ~handle[o].dirty
    <3>1. CASE o = h
      BY <1>0, <1>3, <1>4, <2>2, <3>1 DEF TypeOK
    <3>2. CASE o # h
      BY <3>2
    <3> QED
      BY <3>1, <3>2
  <2> QED
    BY <1>0, <1>6, <1>13, <2>1, <2>2, <2>3 DEF EditKept, IsOpen
<1> QED
  BY <1>5, <1>8, <1>9, <1>10, <1>11, <1>12, <1>14, <1>15 DEF IInv

LEMMA FlushStep ==
  ASSUME IInv, NEW h \in Handles, Flush(h) PROVE IInv'
<1>0. /\ TypeOK /\ Shared /\ Authors /\ IsOpen(h) /\ handle[h] \in OpenHandles
      /\ handle' = [handle EXCEPT ![h].dirty = FALSE] /\ slice' = slice
      /\ Snapshot(h) /\ UNCHANGED cache
  BY HandleTypes DEF IInv, Flush, Snapshot, IsOpen
<1>1. /\ \A o \in Handles : o # h => handle'[o] = handle[o]
      /\ handle'[h] \in OpenHandles /\ handle'[h].pc = "open" /\ ~handle'[h].dirty
      /\ handle'[h].buf = handle[h].buf /\ handle'[h].file = handle[h].file
  BY <1>0 DEF TypeOK, OpenHandles
<1>2. handle' \in [Handles -> HandleStates]
  BY <1>0, <1>1 DEF TypeOK, HandleStates
<1>3. handle'[h] # Closed => /\ IsOpen(h)' /\ ~handle'[h].dirty
                             /\ handle'[h].buf = handle[h].buf
                             /\ handle'[h].file = handle[h].file
  BY <1>1 DEF IsOpen
<1>4. \A o \in Handles : IsOpen(o)' <=> IsOpen(o)
  <2> TAKE o \in Handles
  <2>1. CASE o = h
    BY <1>0, <1>1, <2>1 DEF IsOpen
  <2>2. CASE o # h
    BY <1>1, <2>2 DEF IsOpen
  <2> QED
    BY <2>1, <2>2
<1>5. \A c \in Buffers : Live(c)' => Live(c)
  <2> SUFFICES ASSUME NEW c \in Buffers, NEW o \in Handles, IsOpen(o)', handle'[o].buf = c
               PROVE  IsOpen(o) /\ handle[o].buf = c
    BY <1>0 DEF Live, IsOpen
  <2>1. CASE o = h
    BY <1>0, <1>1, <2>1
  <2>2. CASE o # h
    BY <1>1, <1>4, <2>2
  <2> QED
    BY <2>1, <2>2
<1>6. slice' \in [Buffers -> {Unused} \cup Slices]
  BY <1>0 DEF TypeOK
<1>7. \A c \in Buffers : Live(c)' =>
        /\ slice'[c] # Unused
        /\ slice'[c].data = slice[c].data /\ slice'[c].origin = slice[c].origin
  BY <1>0, <1>5 DEF Shared
<1>8. \A c \in Buffers, o \in Handles :
        slice'[c] # Unused /\ slice'[c].author = o =>
          slice[c] # Unused /\ slice[c].author = o /\ IsOpen(o)'
  BY <1>0, <1>4 DEF Authors
<1> QED
  BY <1>0, <1>1, <1>2, <1>3, <1>6, <1>7, <1>8, SnapshotStep

LEMMA ReleaseStep ==
  ASSUME IInv, NEW h \in Handles, Release(h) PROVE IInv'
<1> USE HandleAssumption
<1> DEFINE kept(c) == IF slice[c] # Unused /\ slice[c].author = h
                        THEN [slice[c] EXCEPT !.author = Nil] ELSE slice[c]
<1>0. /\ TypeOK /\ Shared /\ Authors
      /\ handle' = [handle EXCEPT ![h] = Closed] /\ Snapshot(h) /\ UNCHANGED cache
      /\ Collect([c \in Buffers |-> kept(c)])
  BY DEF IInv, Release, Snapshot
<1>1. \A o \in Handles : handle'[o] = IF o = h THEN Closed ELSE handle[o]
  BY <1>0 DEF TypeOK
<1>2. handle' \in [Handles -> HandleStates]
  BY <1>0 DEF TypeOK, HandleStates
<1>3. ASSUME NEW c \in Buffers
      PROVE  /\ kept(c) \in {Unused} \cup Slices
             /\ slice[c] = Unused => kept(c) = Unused
             /\ slice[c] # Unused =>
                  /\ kept(c) # Unused
                  /\ kept(c).data = slice[c].data /\ kept(c).origin = slice[c].origin
                  /\ kept(c).author = IF slice[c].author = h THEN Nil ELSE slice[c].author
  <2>1. CASE slice[c] = Unused
    BY <2>1
  <2>2. CASE slice[c] # Unused
    <3>1. slice[c] \in Slices
      BY <1>0, <2>2 DEF TypeOK
    <3>2. kept(c) \in Slices
      BY <2>2, <3>1 DEF Slices
    <3> QED
      BY <2>2, <3>1, <3>2 DEF Slices
  <2> QED
    BY <2>1, <2>2
<1> HIDE DEF kept
<1>4. slice' = [c \in Buffers |-> IF Live(c)' THEN kept(c) ELSE Unused]
  BY <1>0 DEF Collect
<1>5. slice' \in [Buffers -> {Unused} \cup Slices]
  BY <1>3, <1>4
<1>6. \A c \in Buffers : Live(c)' => Live(c)
  BY <1>0, <1>1 DEF Live, Closed
<1>7. \A c \in Buffers : Live(c)' =>
        /\ slice'[c] # Unused
        /\ slice'[c].data = slice[c].data /\ slice'[c].origin = slice[c].origin
  BY <1>0, <1>3, <1>4, <1>6 DEF Shared
<1>8. ASSUME NEW c \in Buffers, NEW o \in Handles, slice'[c] # Unused, slice'[c].author = o
      PROVE  slice[c] # Unused /\ slice[c].author = o /\ IsOpen(o)'
  <2>1. slice'[c] = kept(c) /\ slice[c] # Unused
    BY <1>3, <1>4, <1>8
  <2>2. slice[c].author = o /\ o # h
    BY <1>3, <1>8, <2>1
  <2> QED
    BY <1>0, <1>1, <2>1, <2>2 DEF Authors, IsOpen
<1>9. handle'[h] # Closed => /\ IsOpen(h)' /\ ~handle'[h].dirty
                             /\ handle'[h].buf = handle[h].buf
                             /\ handle'[h].file = handle[h].file
  BY <1>1
<1>10. \A o \in Handles : o # h => handle'[o] = handle[o]
  BY <1>1
<1> QED
  BY <1>0, <1>2, <1>5, <1>7, <1>8, <1>9, <1>10, SnapshotStep

-----------------------------------------------------------------------------
\* The commits of the next state are those of this one, further on.
Carried ==
  /\ flights' \subseteq Flights
  /\ \A u \in flights' : \E t \in flights :
       /\ u.handle = t.handle /\ u.number = t.number
       /\ u.file = t.file /\ u.data = t.data

LEMMA CommitsGo ==
  ASSUME TypeOK, NEW t \in flights,
         flights' = flights \ {t} \/ \E stage \in {"paths", "blob"} : Goes(t, stage)
  PROVE  Carried
<1>1. CASE flights' = flights \ {t}
  BY <1>1 DEF TypeOK, Carried
<1>2. ASSUME NEW stage \in {"paths", "blob"}, Goes(t, stage)
      PROVE  Carried
  <2> DEFINE u == [t EXCEPT !.stage = stage]
  <2>1. /\ u \in Flights /\ u.handle = t.handle /\ u.number = t.number
        /\ u.file = t.file /\ u.data = t.data
    BY DEF TypeOK, Flights
  <2>2. flights' = (flights \ {t}) \cup {u}
    BY <1>2 DEF Goes
  <2> HIDE DEF u
  <2> QED
    BY <2>1, <2>2 DEF TypeOK, Carried
<1> QED
  BY <1>1, <1>2

\* Keys leave the cache and nothing else changes but the stage of a commit,
\* which no longer has a key to invalidate that it has invalidated.
LEMMA DropStep ==
  ASSUME IInv, NEW ks \in SUBSET Keys, Drop(ks), Collect(slice), Carried,
         UNCHANGED <<repo, nodes, handle, latest, landed>>,
         \A k \in Keys \ ks, t \in flights : WillDrop(t, k) =>
           \E u \in flights' : WillDrop(u, k)
  PROVE  IInv'
<1> USE HandleAssumption
<1>0. /\ TypeOK /\ Shared /\ Authors /\ Owners /\ Exists /\ Numbered /\ FlightData /\ EditKept
      /\ flights' \subseteq Flights
      /\ cache' = [k \in Keys |-> IF k \in ks THEN Nil ELSE cache[k]]
      /\ lost' = lost \ ks
      /\ slice' = [c \in Buffers |-> IF Live(c)' THEN slice[c] ELSE Unused]
  BY DEF IInv, Drop, Collect, Carried
<1>1. \A k \in Keys : cache'[k] # Nil => k \notin ks /\ cache'[k] = cache[k]
  BY <1>0
<1>2. TypeOK'
  <2>1. cache' \in [Keys -> Buffers \cup {Nil}] /\ lost' \subseteq Keys
    BY <1>0 DEF TypeOK
  <2>2. slice' \in [Buffers -> {Unused} \cup Slices]
    BY <1>0 DEF TypeOK
  <2> QED
    BY <1>0, <2>1, <2>2 DEF TypeOK
<1>3. \A c \in Buffers : Live(c)' => Live(c) /\ slice'[c] = slice[c]
  <2>1. \A c \in Buffers : Live(c)' => Live(c)
    BY <1>1 DEF Live
  <2> QED
    BY <1>0, <2>1
<1>4. \A c \in Buffers : slice'[c] # Unused => slice'[c] = slice[c]
  BY <1>0
<1>5. ASSUME NEW o \in Handles, IsOpen(o)
      PROVE  handle[o].buf \in Buffers /\ slice'[handle[o].buf] = slice[handle[o].buf]
  <2>1. handle[o].buf \in Buffers
    BY <1>0, <1>5, HandleTypes
  <2>2. \A c \in Buffers : c = handle[o].buf => Live(c)'
    BY <1>5 DEF Live, IsOpen
  <2> QED
    BY <1>3, <2>1, <2>2
<1>6. Shared'
  <2>1. \A c \in Buffers : Live(c)' => slice'[c] # Unused
    BY <1>0, <1>3 DEF Shared
  <2>2. ASSUME NEW j \in Keys, NEW k \in Keys, cache'[j] # Nil, cache'[j] = cache'[k]
        PROVE  j = k
    BY <1>0, <1>1, <2>2 DEF Shared
  <2>3. ASSUME NEW o \in Handles, NEW k \in Keys, IsOpen(o), cache'[k] = handle[o].buf
        PROVE  KeyOf(handle[o].file) = k
    <3>1. cache'[k] # Nil
      BY <1>5, <2>3
    <3> QED
      BY <1>0, <1>1, <2>3, <3>1 DEF Shared
  <2> QED
    BY <1>0, <2>1, <2>2, <2>3 DEF Shared, IsOpen
<1>7. Authors'
  BY <1>0, <1>4 DEF Authors, IsOpen
<1>8. Owners'
  <2> SUFFICES ASSUME NEW k \in Keys, Spoilt(k)' PROVE Owned(k)'
    BY DEF Owners
  <2>1. cache'[k] # Nil /\ k \notin ks /\ cache'[k] = cache[k] /\ cache[k] \in Buffers
    BY <1>0, <1>1 DEF Spoilt, TypeOK
  <2>2. \A c \in Buffers : c = cache[k] => Live(c)'
    BY <2>1 DEF Live
  <2>3. Spoilt(k)
    BY <1>3, <2>1, <2>2 DEF Spoilt
  <2>4. Owned(k)
    BY <1>0, <2>3 DEF Owners
  <2> QED
    BY <1>0, <2>1, <2>4 DEF Owned, Dirty, IsOpen
<1>9. Exists'
  BY <1>0 DEF Exists, Carried
<1>10. Numbered'
  BY <1>0 DEF Numbered, Carried
<1>11. FlightData'
  <2> SUFFICES ASSUME NEW o \in Handles, NEW u \in flights', u.handle = o,
                      u.number = latest[o], IsOpen(o), ~handle[o].dirty,
                      u.file.path = handle[o].file.path,
                      slice'[handle[o].buf].author = o
               PROVE  slice'[handle[o].buf].data = u.data
    BY DEF FlightData, IsOpen
  <2> QED
    BY <1>0, <1>5 DEF FlightData, Carried
<1>12. EditKept'
  BY <1>0, <1>5 DEF EditKept, IsOpen
<1> QED
  BY <1>2, <1>6, <1>7, <1>8, <1>9, <1>10, <1>11, <1>12 DEF IInv

LEMMA DropSteps ==
  ASSUME IInv,
         \/ \E t \in flights : InvalidatePaths(t) \/ InvalidateBlob(t)
         \/ \E k \in Keys : Expire(k)
  PROVE  IInv'
<1>0. TypeOK /\ flights \subseteq Flights
  BY DEF IInv, TypeOK
<1>1. ASSUME NEW t \in flights, InvalidatePaths(t)
      PROVE  IInv'
  <2> DEFINE ks == {[path |-> t.file.path]}
             u == [t EXCEPT !.stage = "blob"]
  <2>1. t \in Flights /\ ks \in SUBSET Keys
    BY <1>0, KeyTypes DEF Flights
  <2>2. /\ Drop(ks) /\ Collect(slice) /\ UNCHANGED <<repo, nodes, handle, latest, landed>>
        /\ Goes(t, "blob")
    BY <1>1 DEF InvalidatePaths
  <2>3. Carried
    BY <1>0, <2>2, CommitsGo
  <2>4. u \in flights' /\ flights \ {t} \subseteq flights' /\ u.file = t.file
    BY <2>1, <2>2 DEF Goes, Flights
  <2>5. ASSUME NEW k \in Keys \ ks, NEW v \in flights, WillDrop(v, k)
        PROVE  \E w \in flights' : WillDrop(w, k)
    <3>1. CASE v # t
      BY <2>4, <2>5, <3>1
    <3>2. CASE v = t
      <4>1. KeyOf(t.file) = k /\ t.file.oid # NoOid
        BY <2>5, <3>2 DEF WillDrop, KeyOf
      <4> QED
        BY <2>4, <4>1 DEF WillDrop
    <3> QED
      BY <3>1, <3>2
  <2> HIDE DEF ks
  <2> QED
    BY <2>1, <2>2, <2>3, <2>5, DropStep
<1>2. ASSUME NEW t \in flights, InvalidateBlob(t)
      PROVE  IInv'
  <2> DEFINE ks == IF t.file.oid = NoOid THEN {} ELSE {[oid |-> t.file.oid]}
  <2>1. t \in Flights /\ ks \in SUBSET Keys
    BY <1>0, KeyTypes DEF Flights
  <2>2. /\ Drop(ks) /\ Collect(slice) /\ UNCHANGED <<repo, nodes, handle, latest, landed>>
        /\ flights' = flights \ {t} /\ t.stage = "blob"
    BY <1>2 DEF InvalidateBlob
  <2>3. Carried
    BY <1>0, <2>2, CommitsGo
  <2>4. ASSUME NEW k \in Keys \ ks, NEW v \in flights, WillDrop(v, k)
        PROVE  \E w \in flights' : WillDrop(w, k)
    <3>1. v # t
      BY <2>2, <2>4 DEF WillDrop, KeyOf
    <3> QED
      BY <2>2, <2>4, <3>1
  <2> HIDE DEF ks
  <2> QED
    BY <2>1, <2>2, <2>3, <2>4, DropStep
<1>3. ASSUME NEW k \in Keys, Expire(k)
      PROVE  IInv'
  <2> DEFINE ks == {k}
  <2>1. /\ Drop(ks) /\ Collect(slice) /\ UNCHANGED <<repo, nodes, handle, latest, landed>>
        /\ flights' = flights /\ ks \in SUBSET Keys
    BY <1>3 DEF Expire
  <2>2. Carried
    BY <1>0, <2>1 DEF Carried
  <2>3. \A j \in Keys \ ks, t \in flights : WillDrop(t, j) =>
          \E u \in flights' : WillDrop(u, j)
    BY <2>1
  <2> HIDE DEF ks
  <2> QED
    BY <2>1, <2>2, <2>3, DropStep
<1> QED
  BY <1>1, <1>2, <1>3

\* UserCommitFiles ends: the file holds what the handle held at the snapshot.
LEMMA LandStep ==
  ASSUME IInv, NEW t \in flights, Land(t) \/ Fail(t) PROVE IInv'
<1> USE HandleAssumption
<1> DEFINE p == t.file.path
<1>0. /\ TypeOK /\ Shared /\ Authors /\ Owners /\ Exists /\ Numbered /\ FlightData /\ EditKept
      /\ UNCHANGED <<nodes, cache, slice, handle, latest>>
      /\ Landed(t) \/ UNCHANGED <<repo, landed>>
  BY DEF IInv, Land, Fail
<1>1. /\ t \in Flights /\ p \in Paths /\ t.data \in Contents /\ KeyOf(t.file) \in Keys
      /\ t.handle \in Handles /\ t.number \in Nat
  BY <1>0, KeyTypes DEF TypeOK, Flights
<1>2. Carried
  BY <1>0, CommitsGo DEF Land, Fail
<1>3. /\ repo' \in [Paths -> Contents \cup {NoFile}]
      /\ landed' \in [Paths -> (Handles \cup {Nil}) \X Nat]
  BY <1>0, <1>1 DEF TypeOK, Landed
\* What a commit that landed changed.
<1>4. ASSUME NEW q \in Paths
      PROVE  \/ repo'[q] = repo[q] /\ landed'[q] = landed[q]
             \/ q = p /\ repo'[q] = t.data /\ landed'[q] = <<t.handle, t.number>>
  BY <1>0, <1>1 DEF TypeOK, Landed
<1> HIDE DEF p
<1>5. lost' \subseteq Keys /\ lost \subseteq lost'
  BY <1>0, <1>1 DEF Land, Fail, TypeOK
<1>6. TypeOK'
  BY <1>0, <1>2, <1>3, <1>5 DEF TypeOK, Carried
<1>7. Shared' /\ Authors'
  BY <1>0 DEF Shared, Authors, Live, IsOpen
<1>8. ASSUME NEW k \in Keys, NEW v \in flights, WillDrop(v, k)
      PROVE  k \in lost' \/ \E w \in flights' : WillDrop(w, k)
  <2>1. CASE v # t
    <3>1. v \in flights'
      BY <2>1 DEF Land, Fail, Goes
    <3> QED
      BY <1>8, <3>1
  <2>2. CASE v = t /\ Fail(t)
    BY <1>8, <2>2 DEF Fail, WillDrop
  <2>3. CASE v = t /\ Land(t)
    <3> DEFINE w == [t EXCEPT !.stage = "paths"]
    <3>1. w \in flights' /\ w.file = t.file /\ w.stage = "paths"
      BY <1>1, <2>3 DEF Land, Goes, Flights
    <3> QED
      BY <1>8, <2>3, <3>1 DEF WillDrop
  <2> QED
    BY <2>1, <2>2, <2>3
<1>9. Owners'
  <2> SUFFICES ASSUME NEW k \in Keys, Spoilt(k)' PROVE Owned(k)'
    BY DEF Owners
  <2>1. Owned(k)
    BY <1>0 DEF Owners, Spoilt
  <2> QED
    BY <1>0, <1>5, <1>8, <2>1 DEF Owned, Dirty, IsOpen
<1>10. Exists'
  <2> SUFFICES ASSUME NEW q \in Paths, repo'[q] = NoFile
               PROVE  repo[q] = NoFile /\ landed'[q] = landed[q]
    BY <1>0, <1>2 DEF Exists, Carried
  <2> QED
    BY <1>1, <1>4
<1>11. Numbered'
  <2>1. \A u \in flights' : u.number <= latest[u.handle]
    BY <1>0, <1>2 DEF Numbered, Carried
  <2>2. ASSUME NEW q \in Paths, NEW h \in Handles, NEW n \in Nat, landed'[q] = <<h, n>>
        PROVE  n <= latest[h]
    <3>1. CASE landed'[q] = landed[q]
      BY <1>0, <2>2, <3>1 DEF Numbered
    <3>2. CASE landed'[q] = <<t.handle, t.number>>
      <4>1. h = t.handle /\ n = t.number
        BY <2>2, <3>2
      <4> QED
        BY <1>0, <4>1 DEF Numbered
    <3> QED
      BY <1>4, <3>1, <3>2
  <2> QED
    BY <1>0, <2>1, <2>2 DEF Numbered
<1>12. FlightData'
  BY <1>0, <1>2 DEF FlightData, Carried, IsOpen
<1>13. EditKept'
  <2> SUFFICES ASSUME NEW h \in Handles, IsOpen(h), ~handle[h].dirty,
                      landed'[handle[h].file.path] = <<h, latest[h]>>,
                      slice[handle[h].buf].author = h
               PROVE  repo'[handle[h].file.path] = slice[handle[h].buf].data
    BY <1>0 DEF EditKept, IsOpen
  <2> DEFINE q == handle[h].file.path
  <2>1. q \in Paths
    BY <1>0, HandleTypes, KeyTypes
  <2>2. CASE repo'[q] = repo[q] /\ landed'[q] = landed[q]
    BY <1>0, <2>2 DEF EditKept, IsOpen
  <2>3. CASE q = p /\ repo'[q] = t.data /\ landed'[q] = <<t.handle, t.number>>
    <3>1. t.handle = h /\ t.number = latest[h]
      BY <2>3
    <3> QED
      BY <1>0, <2>3, <3>1 DEF FlightData, p
  <2> QED
    BY <1>4, <2>1, <2>2, <2>3
<1> QED
  BY <1>6, <1>7, <1>9, <1>10, <1>11, <1>12, <1>13 DEF IInv

LEMMA Inductive == IInv /\ [Next]_vars => IInv'
<1> SUFFICES ASSUME IInv, [Next]_vars PROVE IInv'
  OBVIOUS
<1>1. ASSUME NEW p \in Paths, Lookup(p) \/ CreateFails(p) PROVE IInv'
  BY <1>1, FilesStep
<1>2. ASSUME NEW h \in Handles, NEW p \in Paths, Create(h, p) PROVE IInv'
  BY <1>2, CreateStep
<1>3. ASSUME NEW h \in Handles, NEW f \in nodes, OpenHit(h, f) \/ OpenMiss(h, f)
      PROVE  IInv'
  BY <1>3, OpeningStep
<1>4. ASSUME NEW h \in Handles, Answer(h) \/ OpenFails(h) PROVE IInv'
  BY <1>4, OpeningStep
<1>5. ASSUME NEW h \in Handles, OpenDone(h) \/ OpenEmpty(h) PROVE IInv'
  BY <1>5, OpenedStep
<1>6. ASSUME NEW h \in Handles, Flush(h) PROVE IInv'
  BY <1>6, FlushStep
<1>7. ASSUME NEW h \in Handles, Release(h) PROVE IInv'
  BY <1>7, ReleaseStep
<1>8. ASSUME NEW h \in Handles, NEW offset \in 0..(MaxLen - 1), NEW byte \in Byte,
             Write(h, offset, <<byte>>)
      PROVE  IInv'
  BY <1>8, WriteStep
<1>9. ASSUME NEW t \in flights, Land(t) \/ Fail(t) PROVE IInv'
  BY <1>9, LandStep
<1>10. ASSUME \/ \E t \in flights : InvalidatePaths(t) \/ InvalidateBlob(t)
              \/ \E k \in Keys : Expire(k)
       PROVE  IInv'
  BY <1>10, DropSteps
<1>11. CASE UNCHANGED vars
  BY <1>11 DEF vars, IInv, TypeOK, Shared, Live, Authors, Owners, Spoilt, Owned, Dirty,
     Exists, Numbered, FlightData, EditKept, IsOpen
<1> QED
  BY <1>1, <1>2, <1>3, <1>4, <1>5, <1>6, <1>7, <1>8, <1>9, <1>10, <1>11 DEF Next

LEMMA Invariant == Spec => []IInv
BY InitIInv, Inductive, PTL DEF Spec

\* Every handle, slice, cached entry and commit under way is what the code
\* can make of it, and none is of a slice that was collected (handle.go:19-24).
THEOREM TypeCorrect == Spec => []TypeOK
<1>1. IInv => TypeOK
  BY DEF IInv
<1> QED
  BY <1>1, Invariant, PTL

\* A cached slice that no longer holds what was fetched has an owner, who will
\* invalidate it or whose commit failed (handle.go:56, 70-93).
THEOREM SpoiltIsOwned == Spec => []SpoiltHasOwner
<1>1. IInv => SpoiltHasOwner
  BY DEF IInv, Owners, Owned, Dirty, IsOpen, WillDrop, SpoiltHasOwner, HasOwner
<1> QED
  BY <1>1, Invariant, PTL

\* What a clean handle last wrote and committed last is what the file holds
\* (handle.go:71-76).
THEOREM EditIsKept == Spec => []EditKept
<1>1. IInv => EditKept
  BY DEF IInv
<1> QED
  BY <1>1, Invariant, PTL

-----------------------------------------------------------------------------
(* What is cached at an oid.                                               *)

\* The slice cached at an oid was made of that content.
CachedOrigin ==
  \A c \in Contents :
    cache[[oid |-> c]] # Nil => slice[cache[[oid |-> c]]].origin = c

\* What a File with an oid is opened on is the content of that oid, and only
\* a File without one asks for its path.
OpeningOid ==
  \A h \in Handles :
    /\ handle[h].pc = "opening" /\ handle[h].file.oid # NoOid
         => handle[h].data = handle[h].file.oid
    /\ handle[h].pc = "asking" => handle[h].file.oid = NoOid

\* A step that caches nothing keeps the origins that its slices keep.
LEMMA OriginsKept ==
  ASSUME IInv, CachedOrigin, NEW s, Collect(s),
         \A b \in Buffers : slice[b] # Unused => s[b].origin = slice[b].origin,
         \A k \in Keys : cache'[k] \in {cache[k], Nil}
  PROVE  CachedOrigin'
<1> SUFFICES ASSUME NEW c \in Contents, cache'[[oid |-> c]] # Nil
             PROVE  slice'[cache'[[oid |-> c]]].origin = c
  BY DEF CachedOrigin
<1> DEFINE k == [oid |-> c]
<1>1. k \in Keys
  BY KeyTypes
<1>2. cache'[k] = cache[k] /\ cache[k] # Nil
  BY <1>1
<1>3. /\ cache[k] \in Buffers /\ slice[cache[k]] # Unused
      /\ slice[cache[k]].origin = c
  BY <1>1, <1>2, Lives DEF IInv, Shared, CachedOrigin
<1>4. PICK b \in Buffers : b = cache[k]
  BY <1>3
<1>5. Live(b)'
  BY <1>1, <1>2, <1>4 DEF Live
<1>6. slice'[b] = s[b]
  BY <1>5 DEF Collect
<1> QED
  BY <1>2, <1>3, <1>4, <1>6

\* A handle that starts on nothing new keeps the rest as it is.
LEMMA OpeningKept ==
  ASSUME IInv, OpeningOid, NEW h \in Handles, NEW r,
         handle' = [handle EXCEPT ![h] = r],
         r.pc = "opening" /\ r.file.oid # NoOid => r.data = r.file.oid,
         r.pc = "asking" => r.file.oid = NoOid
  PROVE  OpeningOid'
<1>1. \A o \in Handles : handle'[o] = IF o = h THEN r ELSE handle[o]
  BY DEF IInv, TypeOK
<1> QED
  BY <1>1 DEF OpeningOid

LEMMA OriginsStep ==
  IInv /\ CachedOrigin /\ OpeningOid /\ [Next]_vars => CachedOrigin' /\ OpeningOid'
<1> SUFFICES ASSUME IInv, CachedOrigin, OpeningOid, [Next]_vars
             PROVE  CachedOrigin' /\ OpeningOid'
  OBVIOUS
<1>t. TypeOK
  BY DEF IInv
<1>c. /\ \A f, b : OpenHandle(f, b).pc \notin {"opening", "asking"}
      /\ Closed.pc \notin {"opening", "asking"}
  BY DEF OpenHandle, Closed
<1>1. ASSUME UNCHANGED <<cache, slice>>
      PROVE  CachedOrigin'
  BY <1>1 DEF CachedOrigin
<1>2. ASSUME UNCHANGED handle
      PROVE  OpeningOid'
  BY <1>2 DEF OpeningOid
<1>3. ASSUME NEW p \in Paths, Lookup(p) \/ CreateFails(p)
      PROVE  CachedOrigin' /\ OpeningOid'
  BY <1>1, <1>2, <1>3 DEF Lookup, CreateFails
<1>4. ASSUME NEW h \in Handles, NEW p \in Paths, Create(h, p)
      PROVE  CachedOrigin' /\ OpeningOid'
  <2>1. PICK b \in Buffers :
          /\ slice[b] = Unused
          /\ handle' = [handle EXCEPT ![h] = OpenHandle([path |-> p, oid |-> NoOid], b)]
          /\ Collect([slice EXCEPT ![b] = Made(<<>>, h)])
    BY <1>4 DEF Create, IsNext
  <2>2. \A k \in Keys : cache'[k] \in {cache[k], Nil}
    BY <1>4 DEF Create, Drop
  <2> DEFINE s == [slice EXCEPT ![b] = Made(<<>>, h)]
  <2>3. \A d \in Buffers : slice[d] # Unused => s[d].origin = slice[d].origin
    BY <2>1, <1>t DEF TypeOK
  <2>4. Collect(s)
    BY <2>1
  <2> HIDE DEF s
  <2>5. CachedOrigin'
    BY <2>2, <2>3, <2>4, OriginsKept
  <2>6. OpeningOid'
    BY <2>1, <1>c, OpeningKept
  <2> QED BY <2>5, <2>6
<1>5. ASSUME NEW h \in Handles, NEW f \in nodes, OpenHit(h, f)
      PROVE  CachedOrigin' /\ OpeningOid'
  <2>1. /\ handle' = [handle EXCEPT ![h] = OpenHandle(f, cache[KeyOf(f)])]
        /\ UNCHANGED <<cache, slice>>
    BY <1>5 DEF OpenHit
  <2> QED BY <2>1, <1>1, <1>c, OpeningKept
<1>6. ASSUME NEW h \in Handles, NEW f \in nodes, OpenMiss(h, f)
      PROVE  CachedOrigin' /\ OpeningOid'
  <2> DEFINE r == IF f.oid = NoOid THEN [pc |-> "asking", file |-> f]
                  ELSE [pc |-> "opening", file |-> f, data |-> f.oid]
  <2>1. handle' = [handle EXCEPT ![h] = r] /\ UNCHANGED <<cache, slice>>
    BY <1>6 DEF OpenMiss
  <2>2. CASE f.oid = NoOid
    <3>1. r = [pc |-> "asking", file |-> f]
      BY <2>2
    <3>2. r.pc = "asking" /\ r.file.oid = NoOid
      BY <3>1, <2>2
    <3> HIDE DEF r
    <3> QED BY <1>1, <2>1, <3>2, OpeningKept
  <2>3. CASE f.oid # NoOid
    <3>1. r = [pc |-> "opening", file |-> f, data |-> f.oid]
      BY <2>3
    <3>2. r.pc = "opening" /\ r.data = r.file.oid
      BY <3>1
    <3> HIDE DEF r
    <3> QED BY <1>1, <2>1, <3>2, OpeningKept
  <2> QED BY <2>2, <2>3
<1>7. ASSUME NEW h \in Handles, Answer(h)
      PROVE  CachedOrigin' /\ OpeningOid'
  <2>1. UNCHANGED <<cache, slice>> /\ handle[h].pc = "asking"
    BY <1>7 DEF Answer
  <2> DEFINE f == handle[h].file
             r == [pc |-> "opening", file |-> f, data |-> repo[f.path]]
  <2>2. handle' = [handle EXCEPT ![h] = r]
    BY <1>7, <1>t DEF Answer, TypeOK
  <2>3. f.oid = NoOid
    BY <2>1 DEF OpeningOid
  <2>4. r.pc = "opening" /\ r.file.oid = NoOid
    BY <2>3
  <2> HIDE DEF r
  <2> QED BY <1>1, <2>1, <2>2, <2>4, OpeningKept
<1>8. ASSUME NEW h \in Handles, OpenDone(h)
      PROVE  CachedOrigin' /\ OpeningOid'
  <2> DEFINE f == handle[h].file
             k == KeyOf(f)
             data == handle[h].data
  <2>1. PICK b \in Buffers :
          /\ slice[b] = Unused
          /\ handle' = [handle EXCEPT ![h] = OpenHandle(f, b)]
          /\ cache' \in {cache, [cache EXCEPT ![k] = b]}
          /\ Collect([slice EXCEPT ![b] = Made(data, Nil)])
    BY <1>8 DEF OpenDone, IsNext
  <2>2. handle[h].pc = "opening" /\ f \in Files
    BY <1>8, <1>t, HandleTypes DEF OpenDone
  <2>3. OpeningOid'
    BY <2>1, <1>c, OpeningKept
  <2>4. ASSUME NEW c \in Contents, cache'[[oid |-> c]] # Nil
        PROVE  slice'[cache'[[oid |-> c]]].origin = c
    <3> DEFINE j == [oid |-> c]
    <3>1. j \in Keys /\ cache \in [Keys -> Buffers \cup {Nil}]
          /\ slice \in [Buffers -> {Unused} \cup Slices]
      BY KeyTypes, <1>t DEF TypeOK
    <3>2. CASE cache'[j] = cache[j]
      <4>1. /\ cache[j] \in Buffers /\ slice[cache[j]] # Unused
            /\ slice[cache[j]].origin = c
        BY <3>1, <3>2, <2>4, Lives, <1>t DEF IInv, Shared, CachedOrigin
      <4>2. PICK d \in Buffers : d = cache[j] /\ d # b
        BY <2>1, <4>1
      <4>3. Live(d)'
        BY <3>1, <3>2, <4>2 DEF Live
      <4>4. slice'[d] = slice[d]
        BY <2>1, <3>1, <4>2, <4>3 DEF Collect
      <4> QED BY <3>2, <4>1, <4>2, <4>4
    <3>3. CASE cache'[j] # cache[j]
      <4>1. j = k /\ cache'[j] = b
        BY <2>1, <3>1, <3>3
      <4>2. f.oid = c
        <5>1. f.oid # NoOid
          <6> SUFFICES ASSUME f.oid = NoOid
                       PROVE  FALSE
            OBVIOUS
          <6>1. [oid |-> c] = [path |-> f.path]
            BY <4>1 DEF KeyOf
          <6>2. DOMAIN [oid |-> c] = {"oid"} /\ DOMAIN [path |-> f.path] = {"path"}
            OBVIOUS
          <6> QED BY <6>1, <6>2
        <5>2. [oid |-> c] = [oid |-> f.oid]
          BY <4>1, <5>1 DEF KeyOf
        <5>3. [oid |-> c].oid = c /\ [oid |-> f.oid].oid = f.oid
          OBVIOUS
        <5> QED BY <5>2, <5>3
      <4>3. data = c
        BY <2>2, <4>2, HandleAssumption DEF OpeningOid
      <4>4. Live(b)'
        BY <3>1, <4>1 DEF Live
      <4>5. slice'[b] = Made(data, Nil)
        BY <2>1, <3>1, <4>4 DEF Collect
      <4> QED BY <4>1, <4>3, <4>5 DEF Made
    <3> QED BY <3>2, <3>3
  <2> QED BY <2>3, <2>4 DEF CachedOrigin
<1>9. ASSUME NEW h \in Handles, OpenFails(h)
      PROVE  CachedOrigin' /\ OpeningOid'
  <2>1. handle' = [handle EXCEPT ![h] = Closed] /\ UNCHANGED <<cache, slice>>
    BY <1>9 DEF OpenFails
  <2> QED BY <2>1, <1>1, <1>c, OpeningKept
<1>10. ASSUME NEW h \in Handles, OpenEmpty(h)
       PROVE  CachedOrigin' /\ OpeningOid'
  <2>1. PICK b \in Buffers :
          /\ slice[b] = Unused
          /\ handle' = [handle EXCEPT ![h] = OpenHandle(handle[h].file, b)]
          /\ Collect([slice EXCEPT ![b] = Made(<<>>, Nil)])
    BY <1>10, <1>t DEF OpenEmpty, IsNext, TypeOK
  <2>2. cache' = cache
    BY <1>10 DEF OpenEmpty
  <2> DEFINE s == [slice EXCEPT ![b] = Made(<<>>, Nil)]
  <2>3. \A d \in Buffers : slice[d] # Unused => s[d].origin = slice[d].origin
    BY <2>1, <1>t DEF TypeOK
  <2>4. Collect(s)
    BY <2>1
  <2> HIDE DEF s
  <2>5. CachedOrigin'
    BY <2>2, <2>3, <2>4, OriginsKept
  <2>6. OpeningOid'
    BY <2>1, <1>c, OpeningKept
  <2> QED BY <2>5, <2>6
<1>11. ASSUME NEW h \in Handles, NEW offset \in 0..(MaxLen - 1), NEW byte \in Byte,
              Write(h, offset, <<byte>>)
       PROVE  CachedOrigin' /\ OpeningOid'
  <2>1. handle[h].pc = "open" /\ cache' = cache
    BY <1>11 DEF Write
  <2>2. OpeningOid'
    <3>1. PICK r : handle' = [handle EXCEPT ![h] = r] /\ r.pc = "open"
      <4>1. handle[h] \in OpenHandles
        BY <1>t, <2>1, HandleTypes DEF IsOpen
      <4>2. \A new : /\ [handle[h] EXCEPT !.buf = new, !.dirty = TRUE].pc = "open"
                    /\ [handle[h] EXCEPT !.dirty = TRUE].pc = "open"
        BY <4>1 DEF OpenHandles
      <4>3. \/ \E new : handle' = [handle EXCEPT ![h] =
                           [handle[h] EXCEPT !.buf = new, !.dirty = TRUE]]
            \/ handle' = [handle EXCEPT ![h] = [handle[h] EXCEPT !.dirty = TRUE]]
        <5>1. \/ \E new : handle' = [handle EXCEPT ![h].buf = new, ![h].dirty = TRUE]
              \/ handle' = [handle EXCEPT ![h].dirty = TRUE]
          BY <1>11 DEF Write
        <5>2. ASSUME NEW new, handle' = [handle EXCEPT ![h].buf = new, ![h].dirty = TRUE]
              PROVE  handle' = [handle EXCEPT ![h] =
                                  [handle[h] EXCEPT !.buf = new, !.dirty = TRUE]]
          BY <5>2, <1>t DEF TypeOK
        <5>3. ASSUME handle' = [handle EXCEPT ![h].dirty = TRUE]
              PROVE  handle' = [handle EXCEPT ![h] = [handle[h] EXCEPT !.dirty = TRUE]]
          BY <5>3, <1>t DEF TypeOK
        <5> QED BY <5>1, <5>2, <5>3
      <4> QED BY <4>2, <4>3
    <3> QED BY <3>1, OpeningKept
  <2> DEFINE b == handle[h].buf
             data == WriteAt(slice[b].data, offset, <<byte>>)
  <2>3. CASE Grows(slice[b].data, offset, <<byte>>)
    <3>1. PICK new \in Buffers :
            slice[new] = Unused /\ Collect([slice EXCEPT ![new] = Made(data, h)])
      BY <1>11, <2>3 DEF Write, IsNext
    <3> DEFINE s == [slice EXCEPT ![new] = Made(data, h)]
    <3>2. \A d \in Buffers : slice[d] # Unused => s[d].origin = slice[d].origin
      BY <3>1, <1>t DEF TypeOK
    <3>3. Collect(s)
      BY <3>1
    <3> HIDE DEF s
    <3>4. CachedOrigin'
      BY <2>1, <3>2, <3>3, OriginsKept
    <3> QED BY <2>2, <3>4
  <2>4. CASE ~Grows(slice[b].data, offset, <<byte>>)
    <3>1. slice' = [slice EXCEPT ![b].data = data, ![b].author = h]
      BY <1>11, <2>4 DEF Write
    <3> HIDE DEF data
    <3>2. \A c \in Contents : cache[[oid |-> c]] # Nil =>
            /\ cache[[oid |-> c]] \in Buffers
            /\ slice[cache[[oid |-> c]]] \in Slices
      <4>1. \A d \in Buffers : Live(d) => slice[d] \in Slices
        BY <1>t DEF IInv, Shared, TypeOK
      <4> QED BY <4>1, <1>t, Lives, KeyTypes
    <3>3. \A d \in Buffers : slice[d] \in Slices => slice'[d].origin = slice[d].origin
      BY <3>1, <1>t DEF TypeOK, Slices
    <3> QED BY <2>1, <2>2, <3>2, <3>3 DEF CachedOrigin
  <2> QED BY <2>3, <2>4
<1>12. ASSUME NEW h \in Handles, Flush(h)
       PROVE  CachedOrigin' /\ OpeningOid'
  <2>1. handle[h].pc = "open" /\ UNCHANGED <<cache, slice>>
    BY <1>12 DEF Flush, Snapshot
  <2>2. \A o \in Handles : handle'[o] = handle[o] \/ handle'[o].pc = "open"
    BY <1>12, <1>t, <2>1, HandleTypes DEF Flush, IsOpen, OpenHandles, TypeOK
  <2> QED BY <1>1, <2>1, <2>2 DEF OpeningOid
<1>13. ASSUME NEW h \in Handles, Release(h)
       PROVE  CachedOrigin' /\ OpeningOid'
  <2> DEFINE s == [b \in Buffers |->
                     IF slice[b] # Unused /\ slice[b].author = h
                       THEN [slice[b] EXCEPT !.author = Nil] ELSE slice[b]]
  <2>1. /\ handle' = [handle EXCEPT ![h] = Closed] /\ Collect(s) /\ cache' = cache
    BY <1>13 DEF Release, Snapshot
  <2>2. ASSUME NEW b \in Buffers, slice[b] # Unused
        PROVE  s[b].origin = slice[b].origin
    <3>1. slice[b] \in Slices
      BY <2>2, <1>t DEF TypeOK
    <3> QED BY <3>1 DEF Slices
  <2> HIDE DEF s
  <2>3. CachedOrigin'
    BY <2>1, <2>2, OriginsKept
  <2>4. OpeningOid'
    BY <2>1, <1>c, OpeningKept
  <2> QED BY <2>3, <2>4
<1>14. ASSUME NEW t \in flights, Land(t) \/ Fail(t)
       PROVE  CachedOrigin' /\ OpeningOid'
  BY <1>1, <1>2, <1>14 DEF Land, Fail
<1>15. ASSUME NEW ks, Drop(ks), Collect(slice), UNCHANGED handle
       PROVE  CachedOrigin' /\ OpeningOid'
  <2>1. \A k \in Keys : cache'[k] \in {cache[k], Nil}
    BY <1>15 DEF Drop
  <2> QED BY <2>1, <1>2, <1>15, OriginsKept
<1>16. ASSUME NEW t \in flights, InvalidatePaths(t) \/ InvalidateBlob(t)
       PROVE  CachedOrigin' /\ OpeningOid'
  BY <1>15, <1>16 DEF InvalidatePaths, InvalidateBlob
<1>17. ASSUME NEW k \in Keys, Expire(k)
       PROVE  CachedOrigin' /\ OpeningOid'
  BY <1>15, <1>17 DEF Expire
<1>18. CASE UNCHANGED vars
  BY <1>1, <1>2, <1>18 DEF vars
<1> QED
  BY <1>3, <1>4, <1>5, <1>6, <1>7, <1>8, <1>9, <1>10, <1>11, <1>12, <1>13, <1>14,
     <1>16, <1>17, <1>18 DEF Next

\* A File is opened on the blob of its oid whenever nobody who will invalidate
\* that blob, or failed to, has written it (node.go:283-295, handle.go:93).
THEOREM BlobIsOfItsOid == Spec => []OidIsContent
<1>1. Init => CachedOrigin /\ OpeningOid
  <2>1. \A c \in Contents : [oid |-> c] \in Keys
    BY KeyTypes
  <2> QED BY <2>1 DEF Init, CachedOrigin, OpeningOid, Closed
<1>2. IInv /\ CachedOrigin => OidIsContent
  <2> SUFFICES ASSUME IInv, CachedOrigin, NEW c \in Contents,
                      cache[[oid |-> c]] # Nil, slice[cache[[oid |-> c]]].data # c
               PROVE  HasOwner([oid |-> c])
    BY DEF OidIsContent
  <2>1. [oid |-> c] \in Keys /\ Spoilt([oid |-> c])
    BY KeyTypes DEF Spoilt, CachedOrigin
  <2>2. Owned([oid |-> c])
    BY <2>1 DEF IInv, Owners
  <2> QED BY <2>2 DEF Owned, Dirty, IsOpen, WillDrop, HasOwner
<1> QED
  BY <1>1, <1>2, OriginsStep, Invariant, PTL DEF Spec
=============================================================================
