--------------------------- MODULE MCFileHandles ---------------------------
(***************************************************************************)
(* FileHandles on a file of at most one byte.                              *)
(***************************************************************************)
EXTENDS FileHandles, TLC

\* The file is there at the start, or is created through the mount.
OneByte == {[p \in Paths |-> <<1>>]}
NoneYet == {[p \in Paths |-> NoFile]}
Either == OneByte \cup NoneYet

\* The handles are alike.
AnyHandle == Permutations(Handles)
=============================================================================
