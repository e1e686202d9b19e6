------------------------ MODULE HandleBuffer_proofs ------------------------
(***************************************************************************)
(* What Read and Write of a FileHandle do to the bytes, for contents of    *)
(* any length.                                                             *)
(***************************************************************************)
EXTENDS HandleBuffer, SequenceTheorems, TLAPS

\* The slice after a Write (handle.go:47-60) is a sequence of bytes again, it
\* is never shorter than before, and reaches the end of what was written.
LEMMA WriteLength ==
  ASSUME NEW S, Zero \in S, NEW data \in Seq(S), NEW bytes \in Seq(S),
         NEW offset \in Nat
  PROVE  /\ WriteAt(data, offset, bytes) \in Seq(S)
         /\ Len(WriteAt(data, offset, bytes)) = LengthAfter(data, offset, bytes)
         /\ LengthAfter(data, offset, bytes) \in Nat
         /\ LengthAfter(data, offset, bytes) >= Len(data)
         /\ LengthAfter(data, offset, bytes) >= offset + Len(bytes)
<1>0. Len(data) \in Nat /\ Len(bytes) \in Nat
  OBVIOUS
<1> DEFINE n == LengthAfter(data, offset, bytes)
           w == WriteAt(data, offset, bytes)
<1>1. n \in Nat /\ n >= Len(data) /\ n >= offset + Len(bytes)
  BY <1>0 DEF LengthAfter, Grows
<1>2. ASSUME NEW i \in 1..n
      PROVE  w[i] \in S
  <2>1. CASE i \in (offset + 1)..(offset + Len(bytes))
    <3>1. i - offset \in 1..Len(bytes)
      BY <2>1, <1>0
    <3>2. bytes[i - offset] \in S
      BY <3>1
    <3> QED
      BY <3>2, <2>1 DEF WriteAt
  <2>2. CASE i \notin (offset + 1)..(offset + Len(bytes)) /\ i <= Len(data)
    <3>1. i \in 1..Len(data)
      BY <2>2, <1>0, <1>1
    <3>2. data[i] \in S
      BY <3>1
    <3> QED
      BY <3>2, <2>2 DEF WriteAt
  <2>3. CASE i \notin (offset + 1)..(offset + Len(bytes)) /\ ~(i <= Len(data))
    BY <2>3 DEF WriteAt
  <2> QED
    BY <2>1, <2>2, <2>3
<1>3. w = [i \in 1..n |-> w[i]]
  BY DEF WriteAt
<1> HIDE DEF w, n
<1>4. w \in Seq(S) /\ Len(w) = n
  BY <1>1, <1>2, <1>3
<1> QED
  BY <1>1, <1>4 DEF w, n

\* A Write leaves every byte outside its range as it was (handle.go:53, 56:
\* the old bytes are copied before the new ones), and the bytes between the
\* old end and its range are zeros (handle.go:52).
LEMMA WriteElsewhere ==
  ASSUME NEW S, Zero \in S, NEW data \in Seq(S), NEW bytes \in Seq(S),
         NEW offset \in Nat,
         NEW i \in 1..LengthAfter(data, offset, bytes),
         i \notin (offset + 1)..(offset + Len(bytes))
  PROVE  WriteAt(data, offset, bytes)[i] = IF i <= Len(data) THEN data[i] ELSE Zero
BY DEF WriteAt

\* A Read (handle.go:32-45) of the range of a Write that came just before it
\* returns the bytes that were written, wherever the range lies in the file,
\* across its end or beyond.
THEOREM ReadsItsWrite ==
  ASSUME NEW S, Zero \in S, NEW data \in Seq(S), NEW bytes \in Seq(S),
         NEW offset \in Nat, bytes # <<>>
  PROVE  ReadAt(WriteAt(data, offset, bytes), offset, Len(bytes)) = bytes
<1> DEFINE w == WriteAt(data, offset, bytes)
           m == Len(bytes)
<1>0. m \in Nat /\ m > 0 /\ Len(data) \in Nat
  BY EmptySeq
<1>1. w \in Seq(S) /\ Len(w) \in Nat /\ Len(w) >= offset + m
  BY WriteLength
<1>2. ReadEnd(w, offset, m) = offset + m /\ ~(offset >= Len(w))
  BY <1>0, <1>1 DEF ReadEnd
<1> DEFINE r == SubSeq(w, offset + 1, offset + m)
<1>3. ReadAt(w, offset, m) = r
  BY <1>2 DEF ReadAt
<1>4. ASSUME NEW i \in 1..m
      PROVE  w[offset + i] = bytes[i]
  <2>1. offset + i \in (offset + 1)..(offset + m) /\ (offset + i) - offset = i
    BY <1>0
  <2>2. LengthAfter(data, offset, bytes) = Len(w)
    BY WriteLength
  <2>3. offset + i \in 1..LengthAfter(data, offset, bytes)
    BY <2>1, <2>2, <1>0, <1>1
  <2> QED
    BY <2>1, <2>3 DEF WriteAt
<1> HIDE DEF w
<1>5. r \in Seq(S) /\ Len(r) = m /\ \A i \in 1..m : r[i] = w[offset + i]
  BY <1>0, <1>1, SubSeqProperties
<1>6. \A i \in 1..m : r[i] = bytes[i]
  BY <1>4, <1>5
<1>7. r = bytes
  BY <1>5, <1>6, SeqEqual
<1> QED
  BY <1>3, <1>7 DEF w

\* A Read never returns more than was asked for, nor bytes past the end.
THEOREM ReadBounded ==
  ASSUME NEW S, NEW data \in Seq(S), NEW offset \in Nat, NEW size \in Nat
  PROVE  /\ ReadAt(data, offset, size) \in Seq(S)
         /\ Len(ReadAt(data, offset, size)) <= size
         /\ offset < Len(data) =>
              offset + Len(ReadAt(data, offset, size)) <= Len(data)
<1>0. Len(data) \in Nat
  OBVIOUS
<1>1. CASE offset >= Len(data)
  BY <1>0, <1>1, EmptySeq DEF ReadAt
<1>2. CASE ~(offset >= Len(data))
  <2> DEFINE e == ReadEnd(data, offset, size)
             r == SubSeq(data, offset + 1, e)
  <2>1. e \in Nat /\ offset <= e /\ e <= Len(data) /\ e <= offset + size
    BY <1>0, <1>2 DEF ReadEnd
  <2>2. ReadAt(data, offset, size) = r
    BY <1>2 DEF ReadAt
  <2> HIDE DEF e
  <2>3. r \in Seq(S) /\ Len(r) = e - offset
    BY <1>0, <2>1, SubSeqProperties
  <2> QED
    BY <2>1, <2>2, <2>3
<1> QED
  BY <1>1, <1>2
=============================================================================
