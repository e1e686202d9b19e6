------------------------------ MODULE Follower ------------------------------
(***************************************************************************)
(* What CloneOrPull of internal/skillsclient promises those who call it at *)
(* the same time: the commit that is served follows the remote branch.     *)
(* Nothing is said here of a directory, of git's commands or of its locks; *)
(* SkillRepo is shown to implement this module when Ref is the branch that *)
(* git clone chooses.                                                      *)
(***************************************************************************)
EXTENDS Integers

CONSTANTS Callers,
          Nothing     \* what is served when there is no commit

VARIABLES remote,     \* the last commit of the branch
          served,     \* the commit that is served, or Nothing
          asked       \* what each caller waits for

followVars == <<remote, served, asked>>

Idle == [phase |-> "idle", since |-> Nothing]

Init ==
  /\ remote = 1
  /\ served \in {Nothing, remote}
  /\ asked = [p \in Callers |-> Idle]

Push ==
  /\ remote' = remote + 1
  /\ UNCHANGED <<served, asked>>

Ask(p) ==
  /\ asked[p] = Idle
  /\ asked' = [asked EXCEPT ![p] = [phase |-> "asked", since |-> remote]]
  /\ UNCHANGED <<remote, served>>

\* A caller under way brings a commit that is no older than its start, and that
\* the remote has, to where nothing was served.
Bring(p) ==
  /\ asked[p].phase = "asked"
  /\ served = Nothing
  /\ served' \in asked[p].since..remote
  /\ UNCHANGED <<remote, asked>>

\* A caller clears the place, to fill it anew or because it found nothing.
Lose ==
  /\ served' = Nothing
  /\ UNCHANGED <<remote, asked>>

\* Success is told only where no commit older than the call is served.
Succeed(p) ==
  /\ asked[p].phase = "asked"
  /\ served # Nothing => served >= asked[p].since
  /\ asked' = [asked EXCEPT ![p].phase = "told"]
  /\ UNCHANGED <<remote, served>>

\* A caller goes, told or failed; one that fails may leave what it brought, or
\* take what is served with it.
Leave(p) ==
  /\ asked[p] # Idle
  /\ asked' = [asked EXCEPT ![p] = Idle]
  /\ \/ served' \in {served, Nothing}
     \/ /\ asked[p].phase = "asked" /\ served = Nothing
        /\ served' \in asked[p].since..remote
  /\ UNCHANGED remote

Next ==
  \/ Push \/ Lose
  \/ \E p \in Callers : Ask(p) \/ Bring(p) \/ Succeed(p) \/ Leave(p)

Spec == Init /\ [][Next]_followVars
=============================================================================
