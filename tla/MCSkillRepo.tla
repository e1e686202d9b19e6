---------------------------- MODULE MCSkillRepo ----------------------------
(***************************************************************************)
(* SkillRepo with a history of who has been left alone, for TLC.           *)
(***************************************************************************)
EXTENDS SkillRepo, TLC

VARIABLE alone  \* callers under way with all others idle since they began

mcvars == <<vars, alone>>

MCInit == Init /\ alone = {}

MCNext ==
  /\ Next
  /\ alone' = {p \in Callers :
                 /\ call'[p] # Idle
                 /\ call[p] = Idle \/ p \in alone
                 /\ \A o \in Callers \ {p} : call'[o] = Idle}

MCSpec == MCInit /\ [][MCNext]_mcvars

\* skills_fs.go:139, client.go:143-177: whatever clones, removals and resets
\* raced, failed or were killed before, a CloneOrPull that nobody disturbs and
\* that succeeds leaves a directory with all the files of its commit.
ServesClone ==
  [][\A p \in alone :
       Returns(p) => HeadKnown /\ dir.files = dir.head]_mcvars

\* The lookups are alike, and no property of this module is one of liveness.
Symmetry == Permutations(Lookups)
=============================================================================
