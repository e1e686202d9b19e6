---------------------------- MODULE HandleBuffer ----------------------------
(***************************************************************************)
(* The arithmetic of an open file's bytes: FileHandle.Read and .Write of   *)
(* internal/fuse/handle.go on the slice h.data.  Offsets count from 0, as  *)
(* in the requests; sequences count from 1.                                *)
(***************************************************************************)
EXTENDS Integers, Sequences

CONSTANT Zero  \* the byte make fills a new slice with

\* The end of what a Read copies.
ReadEnd(data, offset, size) ==
  IF offset + size > Len(data) THEN Len(data) ELSE offset + size

ReadAt(data, offset, size) ==
  IF offset >= Len(data)
    THEN <<>>
    ELSE SubSeq(data, offset + 1, ReadEnd(data, offset, size))

\* A Write that ends past the data gets a new slice; one that does not
\* overwrites the old slice, whoever else holds it.
Grows(data, offset, bytes) == offset + Len(bytes) > Len(data)

LengthAfter(data, offset, bytes) ==
  IF Grows(data, offset, bytes) THEN offset + Len(bytes) ELSE Len(data)

WriteAt(data, offset, bytes) ==
  [i \in 1..LengthAfter(data, offset, bytes) |->
     IF i \in (offset + 1)..(offset + Len(bytes)) THEN bytes[i - offset]
     ELSE IF i <= Len(data) THEN data[i] ELSE Zero]
=============================================================================
