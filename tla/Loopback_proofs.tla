-------------------------- MODULE Loopback_proofs --------------------------
(***************************************************************************)
(* What a file of a clone holds, for contents of any length, any number of *)
(* handles, write-backs, resets and faults.                                *)
(***************************************************************************)
EXTENDS Loopback, SequenceTheorems, TLAPS

Saves == [handle : Handles \cup {Git}, number : Nat, data : Contents,
          file : {"unopened", "open", "unlinked"}, alone : BOOLEAN]

\* Write-backs are numbered from 1, up to the latest of their handle.
Numbered ==
  /\ \A t \in saves : t.handle \in Handles =>
       1 <= t.number /\ t.number <= latest[t.handle]
  /\ \A h \in Handles, n \in Nat : <<h, n>> \in landed => 1 <= n /\ n <= latest[h]

\* A handle without later edits has what its last write-back took.
SavedData ==
  \A t \in saves :
    /\ t.handle \in Handles /\ handle[t.handle] # Closed /\ ~handle[t.handle].dirty
    /\ handle[t.handle].saved = t.number
    => handle[t.handle].data = t.data

\* A write-back that meets no other writes into an empty file.
AloneEmpty == \A t \in Writing : t.alone => Writing = {t} /\ disk = <<>>

FileThere == Writing # {} => disk \in Contents

IInv ==
  TypeOK /\ Numbered /\ SavedData /\ AloneEmpty /\ FileThere /\ EditOnDisk /\ RestsWhole

-----------------------------------------------------------------------------
LEMMA ContentsAre ==
  /\ \A d \in Contents : d \in Seq(Byte) /\ Len(d) \in 0..MaxLen
  /\ \A d \in Seq(Byte) : Len(d) <= MaxLen => d \in Contents
<1> USE LoopbackAssumption
<1>1. ASSUME NEW d \in Contents
      PROVE  d \in Seq(Byte) /\ Len(d) \in 0..MaxLen
  <2>1. PICK n \in 0..MaxLen : d \in [1..n -> Byte]
    BY DEF Contents
  <2> QED
    BY <2>1
<1>2. ASSUME NEW d \in Seq(Byte), Len(d) <= MaxLen
      PROVE  d \in Contents
  <2>1. Len(d) \in 0..MaxLen /\ d \in [1..Len(d) -> Byte]
    BY <1>2
  <2> QED
    BY <2>1 DEF Contents
<1> QED
  BY <1>1, <1>2

\* A write within the bound makes a content of a content (loopback.go:177-190).
LEMMA WriteIsContent ==
  ASSUME NEW data \in Contents, NEW offset \in Nat, NEW bytes \in Seq(Byte),
         offset + Len(bytes) <= MaxLen
  PROVE  WriteAt(data, offset, bytes) \in Contents
<1> USE LoopbackAssumption
<1>0. data \in Seq(Byte) /\ Len(data) \in Nat /\ Len(data) <= MaxLen /\ Len(bytes) \in Nat
  BY ContentsAre
<1> DEFINE n == LengthAfter(data, offset, bytes)
           w == WriteAt(data, offset, bytes)
<1>1. n \in 0..MaxLen /\ n >= Len(data)
  BY <1>0 DEF LengthAfter, Grows
<1>2. ASSUME NEW i \in 1..n
      PROVE  (IF i \in (offset + 1)..(offset + Len(bytes)) THEN bytes[i - offset]
              ELSE IF i <= Len(data) THEN data[i] ELSE Zero) \in Byte
  <2>1. CASE i \in (offset + 1)..(offset + Len(bytes))
    <3>1. i - offset \in 1..Len(bytes)
      BY <2>1, <1>0
    <3> QED
      BY <3>1, <2>1
  <2>2. CASE i \notin (offset + 1)..(offset + Len(bytes)) /\ i <= Len(data)
    <3>1. i \in 1..Len(data)
      BY <2>2, <1>0, <1>1
    <3> QED
      BY <3>1, <2>2, <1>0
  <2>3. CASE i \notin (offset + 1)..(offset + Len(bytes)) /\ ~(i <= Len(data))
    BY <2>3
  <2> QED
    BY <2>1, <2>2, <2>3
<1>3. w \in [1..n -> Byte]
  BY <1>2 DEF WriteAt
<1> QED
  BY <1>1, <1>3 DEF Contents

\* What is written into an empty file is all that it has (loopback.go:211).
LEMMA WriteEmpty ==
  ASSUME NEW data \in Contents
  PROVE  WriteAt(<<>>, 0, data) = data
<1>0. data \in Seq(Byte) /\ Len(data) \in Nat
  BY ContentsAre
<1>1. LengthAfter(<<>>, 0, data) = Len(data)
  BY <1>0 DEF LengthAfter, Grows
<1>2. WriteAt(<<>>, 0, data) = [i \in 1..Len(data) |-> data[i]]
  BY <1>0, <1>1 DEF WriteAt
<1> QED
  BY <1>0, <1>2

LEMMA EmptyIsContent == <<>> \in Contents
<1>1. <<>> \in Seq(Byte) /\ Len(<<>>) <= MaxLen
  BY LoopbackAssumption
<1>2. \A d \in Seq(Byte) : Len(d) <= MaxLen => d \in Contents
  BY ContentsAre
<1> QED
  BY <1>1, <1>2, Zenon

\* The file after a write-back of some of its bytes.
LEMMA WritesContent ==
  ASSUME TypeOK, FileThere, NEW t \in Writing
  PROVE  /\ WriteAt(disk, 0, t.data) \in Contents
         /\ \A n \in 0..Len(t.data) : WriteAt(disk, 0, SubSeq(t.data, 1, n)) \in Contents
<1>1. disk \in Contents /\ t.data \in Contents
  BY DEF TypeOK, FileThere, Writing
<1>2. t.data \in Seq(Byte) /\ Len(t.data) \in 0..MaxLen
  BY <1>1, ContentsAre
<1>3. MaxLen \in Nat
  BY LoopbackAssumption
<1>4. WriteAt(disk, 0, t.data) \in Contents
  BY <1>1, <1>2, <1>3, WriteIsContent
<1>5. ASSUME NEW n \in 0..Len(t.data)
      PROVE  WriteAt(disk, 0, SubSeq(t.data, 1, n)) \in Contents
  <2>1. SubSeq(t.data, 1, n) \in Seq(Byte) /\ Len(SubSeq(t.data, 1, n)) = n
    BY <1>2, <1>3, SubSeqProperties
  <2> DEFINE bytes == SubSeq(t.data, 1, n)
  <2>2. 0 + Len(bytes) <= MaxLen
    BY <1>2, <1>3, <2>1
  <2> HIDE DEF bytes
  <2>3. bytes \in Seq(Byte)
    BY <2>1 DEF bytes
  <2>4. WriteAt(disk, 0, bytes) \in Contents
    BY <1>1, <2>2, <2>3, WriteIsContent
  <2> QED
    BY <2>4 DEF bytes
<1> QED
  BY <1>4, <1>5

-----------------------------------------------------------------------------
LEMMA InitIInv == Init => IInv
<1> SUFFICES ASSUME Init PROVE IInv
  OBVIOUS
<1>1. disk \in Contents
  BY LoopbackAssumption DEF Init
<1>2. TypeOK
  BY <1>1, LoopbackAssumption DEF Init, TypeOK
<1>3. Numbered /\ SavedData
  BY DEF Init, Numbered, SavedData
<1>4. AloneEmpty /\ FileThere /\ RestsWhole
  BY DEF Init, AloneEmpty, FileThere, RestsWhole, Writing
<1>5. EditOnDisk
  BY DEF Init, EditOnDisk
<1> QED
  BY <1>2, <1>3, <1>4, <1>5 DEF IInv

\* The steps of a handle that write nothing back.
LEMMA HandleStep ==
  ASSUME IInv, NEW h \in Handles,
         UNCHANGED <<disk, saves, latest, landed, whole, resets, faults>>,
         NEW r, handle' = [handle EXCEPT ![h] = r],
         r = Closed \/ r \in [data : Contents, dirty : BOOLEAN, saved : Nat],
         r # Closed => r.dirty \/ r.saved = 0
  PROVE  IInv'
<1>0. TypeOK /\ \A o \in Handles : handle'[o] = IF o = h THEN r ELSE handle[o]
  BY DEF IInv, TypeOK
<1>1. TypeOK'
  BY <1>0 DEF TypeOK
<1>2. Numbered' /\ AloneEmpty' /\ FileThere' /\ RestsWhole'
  BY DEF IInv, Numbered, AloneEmpty, FileThere, RestsWhole, Writing
<1>3. SavedData'
  <2>1. \A t \in saves : t.handle \in Handles => t.number >= 1 /\ t.number \in Nat
    BY DEF IInv, Numbered, TypeOK
  <2>2. \A t \in saves : t.handle \in Handles => t.number # 0
    BY <2>1
  <2> QED
    BY <1>0, <2>2 DEF IInv, SavedData
<1>4. EditOnDisk'
  <2>1. <<h, 0>> \notin landed
    BY DEF IInv, Numbered
  <2> QED
    BY <1>0, <2>1 DEF IInv, EditOnDisk
<1> QED
  BY <1>1, <1>2, <1>3, <1>4 DEF IInv

LEMMA OpenStep == ASSUME IInv, NEW h \in Handles, Open(h) PROVE IInv'
<1> DEFINE r == [data |-> disk, dirty |-> FALSE, saved |-> 0]
<1>1. disk \in Contents
  BY DEF IInv, TypeOK, Open
<1>2. r \in [data : Contents, dirty : BOOLEAN, saved : Nat] /\ r.saved = 0
  BY <1>1
<1>3. handle' = [handle EXCEPT ![h] = r]
  BY DEF Open
<1> HIDE DEF r
<1> QED
  BY <1>2, <1>3, HandleStep DEF Open

LEMMA WriteStep ==
  ASSUME IInv, NEW h \in Handles, NEW offset \in 0..(MaxLen - 1), NEW byte \in Byte,
         Write(h, offset, <<byte>>)
  PROVE  IInv'
<1> DEFINE r == [handle[h] EXCEPT !.data = WriteAt(handle[h].data, offset, <<byte>>),
                                  !.dirty = TRUE]
<1>1. handle[h] \in [data : Contents, dirty : BOOLEAN, saved : Nat]
  BY DEF IInv, TypeOK, Write
<1>2. WriteAt(handle[h].data, offset, <<byte>>) \in Contents
  <2>1. <<byte>> \in Seq(Byte) /\ Len(<<byte>>) = 1 /\ offset \in Nat /\ offset + 1 <= MaxLen
    BY LoopbackAssumption
  <2> QED
    BY <1>1, <2>1, WriteIsContent
<1>3. r \in [data : Contents, dirty : BOOLEAN, saved : Nat] /\ r.dirty
  BY <1>1, <1>2
<1>4. handle' = [handle EXCEPT ![h] = r]
  BY <1>1 DEF Write, IInv, TypeOK
<1> HIDE DEF r
<1> QED
  BY <1>3, <1>4, HandleStep DEF Write

-----------------------------------------------------------------------------
\* A step that takes the bytes of a handle to be written back (loopback.go:
\* 194-208), and leaves the handle clean or closed.
LEMMA SnapshotStep ==
  ASSUME IInv, NEW h \in Handles, Flush(h) \/ Release(h) PROVE IInv'
<1> DEFINE n == latest[h] + 1
           t == [handle |-> h, number |-> n, data |-> handle[h].data,
                 file |-> "unopened", alone |-> TRUE]
           R == [data : Contents, dirty : BOOLEAN, saved : Nat]
<1>0. /\ TypeOK /\ Numbered /\ SavedData /\ EditOnDisk /\ Snapshot(h) /\ handle[h] \in R
      /\ \A o \in Handles : latest[o] \in Nat
      /\ n \in Nat /\ n > latest[h] /\ n >= 1
  BY DEF IInv, Flush, Release, Snapshot, TypeOK
<1>1. CASE ~handle[h].dirty
  <2>1. UNCHANGED <<disk, saves, latest, landed, whole, resets, faults>>
    BY <1>1 DEF Flush, Release, Snapshot
  <2>2. CASE Release(h)
    <3>1. handle' = [handle EXCEPT ![h] = Closed]
      BY <2>2 DEF Release
    <3> QED
      BY <2>1, <3>1, HandleStep
  <2>3. CASE Flush(h)
    <3>1. handle' = [handle EXCEPT ![h] = [handle[h] EXCEPT !.dirty = FALSE,
                                                            !.saved = handle[h].saved]]
      BY <1>0, <1>1, <2>3 DEF Flush, TypeOK
    <3>2. \A o \in Handles : handle'[o] = IF o = h
            THEN [handle[h] EXCEPT !.dirty = FALSE, !.saved = handle[h].saved]
            ELSE handle[o]
      BY <1>0, <3>1 DEF TypeOK
    <3>3. handle'[h] \in R /\ handle'[h].data = handle[h].data
            /\ handle'[h].saved = handle[h].saved /\ handle'[h].dirty = FALSE
      BY <1>0, <3>2
    <3>4. TypeOK'
      BY <1>0, <2>1, <3>1, <3>2, <3>3 DEF TypeOK
    <3>5. Numbered' /\ AloneEmpty' /\ FileThere' /\ RestsWhole'
      BY <2>1 DEF IInv, Numbered, AloneEmpty, FileThere, RestsWhole, Writing
    <3>6. SavedData'
      BY <1>0, <1>1, <2>1, <3>2, <3>3 DEF SavedData, Snapshot, TypeOK
    <3>7. EditOnDisk'
      BY <1>0, <1>1, <2>1, <3>2, <3>3 DEF EditOnDisk, Snapshot
    <3> QED
      BY <3>4, <3>5, <3>6, <3>7 DEF IInv
  <2> QED
    BY <2>2, <2>3
<1>2. CASE handle[h].dirty
  <2>1. /\ UNCHANGED <<disk, landed, whole, resets, faults>>
        /\ latest' = [latest EXCEPT ![h] = @ + 1]
        /\ saves' = saves \cup {[handle |-> h, number |-> latest'[h],
                                 data |-> handle[h].data,
                                 file |-> "unopened", alone |-> TRUE]}
    BY <1>0, <1>2 DEF Snapshot
  <2>2. /\ latest'[h] = n /\ saves' = saves \cup {t}
        /\ \A o \in Handles : latest'[o] = IF o = h THEN n ELSE latest[o]
    BY <1>0, <2>1 DEF TypeOK
  <2>3. t \in Saves /\ t.handle = h /\ t.number = n /\ t.file # "open"
          /\ t.data = handle[h].data
    BY <1>0 DEF Saves
  <2>4. /\ \A o \in Handles \ {h} : handle'[o] = handle[o]
        /\ handle' \in [Handles -> {Closed} \cup R]
        /\ handle'[h] # Closed => /\ handle'[h].data = handle[h].data
                                 /\ handle'[h].saved = n
    <3>1. CASE Release(h)
      BY <1>0, <3>1 DEF Release, TypeOK
    <3>2. CASE Flush(h)
      <4>1. handle' = [handle EXCEPT ![h] = [handle[h] EXCEPT !.dirty = FALSE, !.saved = n]]
        BY <1>0, <1>2, <2>2, <3>2 DEF Flush, TypeOK
      <4> QED
        BY <1>0, <4>1 DEF TypeOK
    <3> QED
      BY <3>1, <3>2
  <2>5. Writing' = Writing
    BY <2>2, <2>3 DEF Writing
  <2>6. latest' \in [Handles -> Nat]
    BY <1>0, <2>1 DEF TypeOK
  <2> HIDE DEF t, n
  <2>7. TypeOK'
    BY <1>0, <2>1, <2>2, <2>3, <2>4, <2>6 DEF TypeOK, Saves
  <2>8. Numbered'
    <3>1. \A o \in Handles : latest'[o] >= latest[o]
      BY <1>0, <2>2
    <3>2. ASSUME NEW u \in saves', u.handle \in Handles
          PROVE  1 <= u.number /\ u.number <= latest'[u.handle]
      <4>1. CASE u = t
        BY <1>0, <2>2, <2>3, <4>1
      <4>2. CASE u \in saves
        <5>1. u.handle \in Handles /\ u.number \in Nat
          BY <1>0, <3>2, <4>2 DEF TypeOK
        <5>2. latest'[u.handle] \in Nat
          BY <2>6, <5>1
        <5> QED
          BY <1>0, <3>1, <4>2, <5>1, <5>2 DEF Numbered
      <4> QED
        BY <2>2, <4>1, <4>2
    <3>3. ASSUME NEW o \in Handles, NEW k \in Nat, <<o, k>> \in landed'
          PROVE  1 <= k /\ k <= latest'[o]
      <4>1. latest'[o] \in Nat /\ 1 <= k /\ k <= latest[o]
        BY <1>0, <2>1, <2>6, <3>3 DEF Numbered
      <4> QED
        BY <1>0, <3>1, <4>1
    <3> QED
      BY <3>2, <3>3 DEF Numbered
  <2>9. SavedData'
    <3> SUFFICES ASSUME NEW u \in saves', u.handle \in Handles,
                        handle'[u.handle] # Closed, ~handle'[u.handle].dirty, handle'[u.handle].saved = u.number
                 PROVE  handle'[u.handle].data = u.data
      BY DEF SavedData
    <3>1. CASE u = t
      BY <2>3, <2>4, <3>1
    <3>2. CASE u \in saves /\ u.handle # h
      BY <1>0, <2>4, <3>2 DEF SavedData, TypeOK
    <3>3. CASE u \in saves /\ u.handle = h
      <4>1. u.number \in Nat /\ u.number <= latest[h]
        BY <1>0, <3>3 DEF Numbered, TypeOK
      <4>2. u.number # n
        BY <1>0, <4>1
      <4> QED
        BY <2>4, <3>3, <4>2
    <3> QED
      BY <2>2, <3>1, <3>2, <3>3
  <2>10. EditOnDisk'
    <3>1. <<h, n>> \notin landed
      BY <1>0 DEF Numbered
    <3> QED
      BY <1>0, <2>1, <2>4, <3>1 DEF EditOnDisk
  <2>11. AloneEmpty' /\ FileThere' /\ RestsWhole'
    BY <2>1, <2>5 DEF IInv, AloneEmpty, FileThere, RestsWhole
  <2> QED
    BY <2>7, <2>8, <2>9, <2>10, <2>11 DEF IInv
<1> QED
  BY <1>1, <1>2

-----------------------------------------------------------------------------
\* What the steps of os.WriteFile and of git have in common: the handles stay,
\* and the write-backs keep what they write.
LEMMA FileStep ==
  ASSUME IInv, UNCHANGED <<handle, latest>>,
         saves' \subseteq Saves,
         \A u \in saves' : u.handle # Git => \E v \in saves :
           u.handle = v.handle /\ u.number = v.number /\ u.data = v.data,
         disk' \in Contents \cup {NoFile}, whole' \in Contents \cup {NoFile, Torn},
         resets' \in 0..MaxResets, faults' \in 0..MaxFaults,
         landed' \subseteq landed \cup {<<v.handle, v.number>> : v \in saves},
         AloneEmpty', FileThere', EditOnDisk', RestsWhole'
  PROVE  IInv'
<1>0. TypeOK /\ Numbered /\ SavedData
  BY DEF IInv
<1> USE LoopbackAssumption
<1>1. \A v \in saves : v.handle \in Handles \cup {Git} /\ v.number \in Nat
  BY <1>0 DEF TypeOK
<1>2. landed' \subseteq (Handles \cup {Git}) \X Nat
  BY <1>0, <1>1 DEF TypeOK
<1>3. TypeOK'
  BY <1>0, <1>2 DEF TypeOK, Saves
<1>4. Numbered'
  <2>1. ASSUME NEW h \in Handles, NEW n \in Nat, <<h, n>> \in landed'
        PROVE  1 <= n /\ n <= latest[h]
    <3>1. CASE <<h, n>> \in landed
      BY <1>0, <3>1 DEF Numbered
    <3>2. CASE \E v \in saves : h = v.handle /\ n = v.number
      BY <1>0, <3>2 DEF Numbered
    <3> QED
      BY <2>1, <3>1, <3>2
  <2>2. \A u \in saves' : u.handle \in Handles => 1 <= u.number /\ u.number <= latest[u.handle]
    BY <1>0 DEF Numbered
  <2> QED
    BY <2>1, <2>2 DEF Numbered
<1>5. SavedData'
  BY <1>0 DEF SavedData
<1> QED
  BY <1>3, <1>4, <1>5 DEF IInv

LEMMA OpenFileStep == ASSUME IInv, NEW t \in saves, OpenTruncate(t) PROVE IInv'
<1> DEFINE others == {u \in saves : u # t /\ u.file # "open"}
           met == {[u EXCEPT !.alone = FALSE] : u \in Writing}
           new == [t EXCEPT !.file = "open", !.alone = Writing = {}]
<1>0. TypeOK /\ t \in Saves /\ saves \subseteq Saves
  BY DEF IInv, TypeOK, Saves
<1>1. saves' = others \cup met \cup {new} /\ disk' = <<>> /\ landed' = {}
  BY DEF OpenTruncate, Opened
<1>2. ASSUME NEW u \in Saves
      PROVE  /\ [u EXCEPT !.alone = FALSE] \in Saves
             /\ [u EXCEPT !.alone = FALSE].file = u.file
             /\ ~[u EXCEPT !.alone = FALSE].alone
             /\ [u EXCEPT !.alone = FALSE].handle = u.handle
             /\ [u EXCEPT !.alone = FALSE].number = u.number
             /\ [u EXCEPT !.alone = FALSE].data = u.data
  BY DEF Saves
<1>3. /\ new \in Saves /\ new.file = "open" /\ (new.alone <=> Writing = {})
      /\ new.handle = t.handle /\ new.number = t.number /\ new.data = t.data
  <2>1. (Writing = {}) \in BOOLEAN
    OBVIOUS
  <2> QED
    BY <1>0, <2>1 DEF Saves
<1>4. \A v \in met : \E u \in Writing :
        /\ v \in Saves /\ v.file = "open" /\ ~v.alone
        /\ v.handle = u.handle /\ v.number = u.number /\ v.data = u.data
  <2> TAKE v \in met
  <2>1. PICK u \in Writing : v = [u EXCEPT !.alone = FALSE]
    OBVIOUS
  <2>2. u \in Saves /\ u.file = "open"
    BY <1>0 DEF Writing
  <2> QED
    BY <1>2, <2>1, <2>2
<1>5. Writing \subseteq saves
  BY DEF Writing
<1> HIDE DEF met, new
<1>6. saves' \subseteq Saves
  BY <1>0, <1>1, <1>3, <1>4
<1>7. \A u \in saves' : \E v \in saves :
         u.handle = v.handle /\ u.number = v.number /\ u.data = v.data
  BY <1>1, <1>3, <1>4, <1>5
<1>8. new \in Writing'
  BY <1>1, <1>3 DEF Writing
<1>9. AloneEmpty'
  <2>1. ASSUME NEW u \in Writing', u.alone
        PROVE  Writing' = {u}
    <3>1. u = new
      BY <1>1, <1>4, <2>1 DEF Writing
    <3>2. Writing = {}
      BY <1>3, <2>1, <3>1
    <3>3. met = {}
      BY <3>2 DEF met
    <3>4. Writing' = {new}
      BY <1>1, <1>3, <3>3 DEF Writing
    <3> QED
      BY <3>1, <3>4
  <2> QED
    BY <1>1, <2>1 DEF AloneEmpty
<1>10. RestsWhole'
  BY <1>8 DEF RestsWhole
<1>11. EditOnDisk'
  BY <1>1 DEF EditOnDisk
<1>12. disk' \in Contents
  BY <1>1, EmptyIsContent
<1>13. FileThere'
  BY <1>12 DEF FileThere
<1> QED
  BY <1>0, <1>1, <1>6, <1>7, <1>9, <1>10, <1>11, <1>12, <1>13, FileStep
     DEF OpenTruncate, TypeOK

\* What the ends of a write-back have in common: t is gone, and if it had the
\* file open by itself then nobody has it open any more.
LEMMA EndStep ==
  ASSUME IInv, NEW t \in saves, saves' = saves \ {t}, UNCHANGED <<handle, latest, resets>>,
         faults' \in 0..MaxFaults, disk' \in Contents, whole' \in Contents \cup {Torn},
         landed' \subseteq IF t.alone THEN {<<t.handle, t.number>>} ELSE {},
         t.file = "open", whole' = Torn \/ t.alone,
         t.alone /\ whole' # Torn => disk' = t.data /\ whole' = t.data,
         landed' # {} => disk' = t.data
  PROVE  IInv'
<1>0. TypeOK /\ SavedData /\ AloneEmpty /\ t \in Saves /\ saves \subseteq Saves
  BY DEF IInv, TypeOK, Saves
<1>1. Writing' = Writing \ {t} /\ t \in Writing
  BY DEF Writing
<1>2. AloneEmpty'
  BY <1>0, <1>1 DEF AloneEmpty
<1>3. FileThere'
  BY DEF FileThere
<1>4. RestsWhole'
  BY DEF RestsWhole
<1>5. EditOnDisk'
  <2>1. ASSUME NEW h \in Handles, handle[h] # Closed, ~handle[h].dirty,
               <<h, handle[h].saved>> \in landed'
        PROVE  disk' = handle[h].data
    <3>1. h = t.handle /\ handle[h].saved = t.number
      BY <2>1
    <3>2. handle[h].data = t.data
      BY <1>0, <2>1, <3>1 DEF SavedData
    <3> QED
      BY <2>1, <3>2
  <2> QED
    BY <2>1 DEF EditOnDisk
<1>6. landed' \subseteq landed \cup {<<v.handle, v.number>> : v \in saves}
  OBVIOUS
<1>7. resets' \in 0..MaxResets
  BY <1>0 DEF TypeOK
<1> QED
  BY <1>0, <1>2, <1>3, <1>4, <1>5, <1>6, <1>7, FileStep

LEMMA PutStep == ASSUME IInv, NEW t \in saves, Put(t) PROVE IInv'
<1>0. TypeOK /\ AloneEmpty /\ FileThere
  BY DEF IInv
<1>1. t \in Writing /\ t.data \in Contents
  BY <1>0 DEF Put, Writing, TypeOK
<1>2. disk' = WriteAt(disk, 0, t.data) /\ disk' \in Contents
  BY <1>0, <1>1, WritesContent DEF Put
<1>3. t.alone => disk' = t.data
  BY <1>0, <1>1, <1>2, WriteEmpty DEF AloneEmpty
<1>4. /\ saves' = saves \ {t} /\ t.file = "open" /\ UNCHANGED <<handle, latest, resets, faults>>
      /\ landed' = IF t.alone THEN {<<t.handle, t.number>>} ELSE {}
      /\ whole' = IF t.alone THEN t.data ELSE Torn
  BY DEF Put
<1>5. faults' \in 0..MaxFaults /\ whole' \in Contents \cup {Torn}
  BY <1>0, <1>1, <1>4 DEF TypeOK
<1>6. /\ whole' = Torn \/ t.alone
      /\ t.alone /\ whole' # Torn => disk' = t.data /\ whole' = t.data
      /\ landed' # {} => disk' = t.data
  BY <1>3, <1>4
<1> QED
  BY <1>2, <1>4, <1>5, <1>6, EndStep

LEMMA EndWithoutFile ==
  ASSUME IInv, NEW t \in saves, saves' = saves \ {t}, t.file # "open",
         UNCHANGED <<disk, handle, latest, landed, whole, resets>>,
         faults' \in 0..MaxFaults
  PROVE  IInv'
<1>0. TypeOK
  BY DEF IInv
<1>1. Writing' = Writing
  BY DEF Writing
<1>2. AloneEmpty' /\ FileThere' /\ EditOnDisk' /\ RestsWhole'
  BY <1>1 DEF IInv, AloneEmpty, FileThere, EditOnDisk, RestsWhole
<1>3. saves' \subseteq Saves
  BY <1>0 DEF TypeOK, Saves
<1>4. \A u \in saves' : \E v \in saves :
        u.handle = v.handle /\ u.number = v.number /\ u.data = v.data
  OBVIOUS
<1> QED
  BY <1>0, <1>2, <1>3, <1>4, FileStep DEF TypeOK

LEMMA FailStep == ASSUME IInv, NEW t \in saves, Fail(t) PROVE IInv'
<1>0. TypeOK /\ FileThere
  BY DEF IInv
<1>1. faults' \in 0..MaxFaults
  BY <1>0, LoopbackAssumption DEF Fail, TypeOK
<1>2. CASE t.file = "open"
  <2>1. t \in Writing
    BY <1>2 DEF Writing
  <2>2. /\ saves' = saves \ {t} /\ landed' = {} /\ whole' = Torn
        /\ UNCHANGED <<handle, latest, resets>>
        /\ \E n \in 0..Len(t.data) : disk' = WriteAt(disk, 0, SubSeq(t.data, 1, n))
    BY <1>2 DEF Fail
  <2>3. disk' \in Contents
    BY <1>0, <2>1, <2>2, WritesContent
  <2> QED
    BY <1>1, <1>2, <2>2, <2>3, EndStep
<1>3. CASE t.file # "open"
  BY <1>1, <1>3, EndWithoutFile DEF Fail
<1> QED
  BY <1>2, <1>3

LEMMA PutUnlinkedStep == ASSUME IInv, NEW t \in saves, PutUnlinked(t) PROVE IInv'
<1>1. faults' \in 0..MaxFaults
  BY DEF PutUnlinked, IInv, TypeOK
<1>2. t.file # "open"
  BY DEF PutUnlinked
<1> QED
  BY <1>1, <1>2, EndWithoutFile DEF PutUnlinked

LEMMA ResetStep == ASSUME IInv, Reset PROVE IInv'
<1> USE LoopbackAssumption
<1>0. TypeOK /\ saves \subseteq Saves
  BY DEF IInv, TypeOK, Saves
<1> DEFINE new(t) == IF t.file = "open" THEN [t EXCEPT !.file = "unlinked"] ELSE t
<1>1. \A t \in saves :
        /\ new(t) \in Saves /\ new(t).file # "open" /\ new(t).handle = t.handle
        /\ new(t).number = t.number /\ new(t).data = t.data
  BY <1>0 DEF Saves
<1>2. Unlinked = {new(t) : t \in saves}
  BY DEF Unlinked
<1> HIDE DEF new
<1>3. /\ Unlinked \subseteq Saves
      /\ \A u \in Unlinked : u.file # "open"
      /\ \A u \in Unlinked : \E v \in saves :
           u.handle = v.handle /\ u.number = v.number /\ u.data = v.data
  BY <1>1, <1>2
<1>4. landed' = {} /\ UNCHANGED <<handle, faults, latest>>
  BY DEF Reset, Remove, Replace
<1>5. EditOnDisk'
  BY <1>4 DEF EditOnDisk
<1>6. resets' \in 0..MaxResets /\ faults' \in 0..MaxFaults
  BY <1>0, <1>4 DEF Reset, TypeOK
<1>7. CASE Remove
  <2>1. disk' = NoFile /\ whole' = NoFile /\ saves' = Unlinked
    BY <1>7 DEF Remove
  <2>2. Writing' = {}
    BY <1>3, <2>1 DEF Writing
  <2>3. AloneEmpty' /\ FileThere' /\ RestsWhole'
    BY <2>1, <2>2 DEF AloneEmpty, FileThere, RestsWhole
  <2> QED
    BY <1>3, <1>4, <1>5, <1>6, <2>1, <2>3, FileStep
<1>8. CASE \E content \in Commits : Replace(content)
  <2>1. PICK content \in Commits : Replace(content)
    BY <1>8
  <2> DEFINE g == [handle |-> Git, number |-> 0, data |-> content, file |-> "open",
                   alone |-> TRUE]
  <2>2. content \in Contents /\ disk' = <<>> /\ whole' = whole /\ saves' = Unlinked \cup {g}
    BY <2>1 DEF Replace
  <2>3. g \in Saves /\ g.handle = Git /\ g.file = "open"
    BY <2>2 DEF Saves
  <2> HIDE DEF g
  <2>4. Writing' = {g}
    BY <1>3, <2>2, <2>3 DEF Writing
  <2>5. AloneEmpty' /\ FileThere' /\ RestsWhole'
    BY <2>2, <2>4, EmptyIsContent DEF AloneEmpty, FileThere, RestsWhole
  <2>6. saves' \subseteq Saves
    BY <1>3, <2>2, <2>3
  <2>7. \A u \in saves' : u.handle # Git => \E v \in saves :
          u.handle = v.handle /\ u.number = v.number /\ u.data = v.data
    BY <1>3, <2>2, <2>3
  <2>8. disk' \in Contents /\ whole' \in Contents \cup {NoFile, Torn}
    BY <1>0, <2>2, EmptyIsContent DEF TypeOK
  <2> QED
    BY <1>4, <1>5, <1>6, <2>5, <2>6, <2>7, <2>8, FileStep
<1> QED
  BY <1>7, <1>8 DEF Reset

-----------------------------------------------------------------------------
LEMMA Inductive == Spec => []IInv
<1>1. Init => IInv
  BY InitIInv
<1>2. IInv /\ [Next]_vars => IInv'
  <2> SUFFICES ASSUME IInv, [Next]_vars PROVE IInv'
    OBVIOUS
  <2>1. CASE \E h \in Handles : Open(h)
    BY <2>1, OpenStep
  <2>2. CASE \E h \in Handles : Flush(h) \/ Release(h)
    BY <2>2, SnapshotStep
  <2>3. CASE \E h \in Handles, offset \in 0..(MaxLen - 1), byte \in Byte :
               Write(h, offset, <<byte>>)
    BY <2>3, WriteStep
  <2>4. CASE \E t \in saves : OpenTruncate(t)
    BY <2>4, OpenFileStep
  <2>5. CASE \E t \in saves : Put(t)
    BY <2>5, PutStep
  <2>6. CASE \E t \in saves : PutUnlinked(t)
    BY <2>6, PutUnlinkedStep
  <2>7. CASE \E t \in saves : Fail(t)
    BY <2>7, FailStep
  <2>8. CASE Reset
    BY <2>8, ResetStep
  <2>9. CASE UNCHANGED vars
    BY <2>9 DEF vars, IInv, TypeOK, Numbered, SavedData, AloneEmpty, FileThere,
                EditOnDisk, RestsWhole, Writing
  <2> QED
    BY <2>1, <2>2, <2>3, <2>4, <2>5, <2>6, <2>7, <2>8, <2>9 DEF Next
<1> QED
  BY <1>1, <1>2, PTL DEF Spec

\* A file of a clone and its handles keep their type: with WriteIsContent, no
\* write or write-back makes something that is not a content.
THEOREM TypeCorrect == Spec => []TypeOK
<1>1. IInv => TypeOK
  BY DEF IInv
<1> QED
  BY Inductive, <1>1, PTL

\* loopback.go:203-207: what a clean handle holds is what its last write-back
\* has put on disk, for any writes, flushes and resets around it.
THEOREM EditIsOnDisk == Spec => []EditOnDisk
<1>1. IInv => EditOnDisk
  BY DEF IInv
<1> QED
  BY Inductive, <1>1, PTL

\* loopback.go:211: nothing of an earlier content stays behind a write-back
\* that neither failed nor met another one.
THEOREM FileRestsWhole == Spec => []RestsWhole
<1>1. IInv => RestsWhole
  BY DEF IInv
<1> QED
  BY Inductive, <1>1, PTL
=============================================================================
