----------------------------- MODULE MCLoopback -----------------------------
(***************************************************************************)
(* Loopback on a file of at most two bytes.                                *)
(***************************************************************************)
EXTENDS Loopback, TLC

\* A commit has the file, another one has changed or removed it.
MCCommits == {<<1, 1>>, NoFile}

\* The handles are alike.
AnyHandle == Permutations(Handles)
=============================================================================
