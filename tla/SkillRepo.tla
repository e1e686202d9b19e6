----------------------------- MODULE SkillRepo -----------------------------
(***************************************************************************)
(* The local clone of one skill: Client.CloneOrPull of                     *)
(* internal/skillsclient/client.go, run by FUSE lookups of the skill       *)
(* (skills_fs.go) and by the commit poller (poller.go).  Nothing in the    *)
(* program keeps two of them apart; git's lock of the index does, for the  *)
(* commands that take it.                                                  *)
(*                                                                         *)
(* Commits of the remote branch Ref are numbered.  The git commands are    *)
(* external: they are modelled by what they leave in the directory, when   *)
(* they succeed, fail, or are killed with their context.  git clone makes  *)
(* a .git, asks for the refs, downloads, writes its refs and checks out;   *)
(* others may find and use the directory all the while.  The end of git    *)
(* reset, which puts the index in place and then moves HEAD, is one step   *)
(* unless it is killed there.  A lookup stands for any caller but the      *)
(* poller: two of one name meet when the kernel revalidates an entry, when *)
(* two mounts or a mount and skills-sync share a workspace, or when SyncAll *)
(* finds one name twice in the list.                                       *)
(***************************************************************************)
EXTENDS Integers

CONSTANTS Lookups,     \* the callers of CloneOrPull but the poller
          Pollers,     \* the commit poller, none if its interval is 0
          MaxCommits,  \* bound of the commits of the remote, for TLC only
          MaxFaults,   \* bound of the commands that fail, for TLC only
          MaxKills,    \* bound of the callers interrupted, for TLC only
          Cloned,      \* whether the directory is a clone at the start
          DefaultRef,  \* whether Ref is the branch that git clone chooses
          Absent, Nobody, Orphan

Callers == Lookups \cup Pollers

None == 0         \* no commit, no files
Foreign == -1     \* a commit of another branch than Ref
Partial == -2     \* the files are not all of one commit

\* A directory with a .git: who is cloning into it, who holds index.lock,
\* whether fetch updates the branch that was cloned, origin/Ref, HEAD, the
\* commit all files are of, and which refs a killed command left locked.
Clone == [by : Callers \cup {Nobody}, lock : Callers \cup {Nobody, Orphan},
          mapped : BOOLEAN, tracking : None..MaxCommits,
          head : Foreign..MaxCommits, files : Partial..MaxCommits,
          stale : SUBSET {"tracking", "head"}]

ASSUME RepoAssumption ==
  /\ MaxCommits \in Nat \ {0} /\ MaxFaults \in Nat /\ MaxKills \in Nat
  /\ Cloned \in BOOLEAN /\ DefaultRef \in BOOLEAN
  /\ Lookups \cap Pollers = {}
  /\ {Nobody, Orphan} \cap Callers = {} /\ Nobody # Orphan
  /\ Absent \notin Clone

VARIABLES remote,  \* the last commit of Ref
          dir,     \* the directory of the skill; Absent: it has no .git
          call,    \* what each caller is doing
          faults, kills

vars == <<remote, dir, call, faults, kills>>

\* origin/Ref after a fetch, and HEAD after a clone, when Ref is at c: a clone
\* of a single branch without tags knows only the default branch.
TrackingOf(c) == IF DefaultRef THEN c ELSE None
HeadOf(c) == IF DefaultRef THEN c ELSE Foreign

Idle == [pc |-> "idle"]

Init ==
  /\ remote = 1
  /\ dir = IF Cloned
             THEN [by |-> Nobody, lock |-> Nobody, mapped |-> TRUE,
                   tracking |-> TrackingOf(1), head |-> HeadOf(1),
                   files |-> HeadOf(1), stale |-> {}]
             ELSE Absent
  /\ call = [p \in Callers |-> Idle]
  /\ faults = 0
  /\ kills = 0

At(p, pc) == call[p].pc = pc
Goto(p, pc) == call' = [call EXCEPT ![p] = [pc |-> pc, since |-> @.since]]
Aim(p, pc, c) ==
  call' = [call EXCEPT ![p] = [pc |-> pc, since |-> @.since, target |-> c]]
GiveUp(p) == call' = [call EXCEPT ![p] = Idle]

\* Somebody pushes to Ref.
Push ==
  /\ remote < MaxCommits
  /\ remote' = remote + 1
  /\ UNCHANGED <<dir, call, faults, kills>>

-----------------------------------------------------------------------------
\* Lookup has found the skill in the list and calls CloneOrPull.
Begin(p) ==
  /\ call[p] = Idle
  /\ call' = [call EXCEPT ![p] = [pc |-> "check", since |-> remote]]
  /\ UNCHANGED <<remote, dir, faults, kills>>

\* Mutant: an error of LastCommit is logged and its empty commit compared.
PollAskIgnoresError(p) ==
  /\ call[p] = Idle
  /\ dir # Absent
  /\ \E c \in {None, remote} :
       call' = [call EXCEPT ![p] = [pc |-> "compare", since |-> c]]
  /\ UNCHANGED <<remote, dir, faults, kills>>

\* The poller finds a .git and asks for the last commit.
PollAsk(p) ==
  /\ call[p] = Idle
  /\ dir # Absent
  /\ call' = [call EXCEPT ![p] = [pc |-> "compare", since |-> remote]]
  /\ UNCHANGED <<remote, dir, faults, kills>>

HeadKnown == dir # Absent /\ dir.head # None

\* Mutant: what was last fetched is compared.
PollCompareTracking(p) ==
  /\ At(p, "compare")
  /\ IF HeadKnown /\ dir.tracking # call[p].since
       THEN Goto(p, "check") ELSE GiveUp(p)
  /\ UNCHANGED <<remote, dir, faults, kills>>

\* It asks git for HEAD, and calls CloneOrPull if that is another commit.
PollCompare(p) ==
  /\ At(p, "compare")
  /\ IF HeadKnown /\ dir.head # call[p].since
       THEN Goto(p, "check") ELSE GiveUp(p)
  /\ UNCHANGED <<remote, dir, faults, kills>>

\* Mutant: a clone is reset to what was fetched before.
CheckWithoutFetch(p) ==
  /\ At(p, "check")
  /\ Goto(p, IF dir = Absent THEN "remove" ELSE "reset")
  /\ UNCHANGED <<remote, dir, faults, kills>>

\* isGitDir.
Check(p) ==
  /\ At(p, "check")
  /\ Goto(p, IF dir = Absent THEN "remove" ELSE "fetch")
  /\ UNCHANGED <<remote, dir, faults, kills>>

-----------------------------------------------------------------------------
(* No .git was there: RemoveAll, then git clone.                           *)

Remove(p) ==
  /\ At(p, "remove")
  /\ dir' = Absent
  /\ Goto(p, "clone")
  /\ UNCHANGED <<remote, faults, kills>>

CloneInit(p) ==
  /\ At(p, "clone")
  /\ dir = Absent
  /\ dir' = [by |-> p, lock |-> Nobody, mapped |-> FALSE, tracking |-> None,
             head |-> None, files |-> None, stale |-> {}]
  /\ Goto(p, "listing")
  /\ UNCHANGED <<remote, faults, kills>>

\* git clone refuses a directory that has something in it.
CloneRefused(p) ==
  /\ At(p, "clone")
  /\ dir # Absent
  /\ GiveUp(p)
  /\ UNCHANGED <<remote, dir, faults, kills>>

\* The directory is still the one this git clone has made.
Mine(p) == dir # Absent /\ dir.by = p

\* The remote has told its refs: the commit to clone is chosen, and
\* remote.origin.fetch is written, before anything is downloaded.
CloneList(p) ==
  /\ At(p, "listing") /\ Mine(p)
  /\ dir' = [dir EXCEPT !.mapped = TRUE]
  /\ Aim(p, "cloning", remote)
  /\ UNCHANGED <<remote, faults, kills>>

\* The commit has been downloaded: HEAD is set to it, whatever others have
\* made of it since, while a ref that they have fetched stays.  Then the index
\* is locked; if somebody holds it, git clone fails and leaves the repository.
CloneFetch(p) ==
  /\ At(p, "cloning") /\ Mine(p) /\ "head" \notin dir.stale
  /\ LET c == call[p].target
         cloned == [dir EXCEPT !.head = HeadOf(c),
                               !.tracking = IF @ = None THEN TrackingOf(c) ELSE @]
     IN  \/ /\ dir.lock = Nobody
            /\ dir' = [cloned EXCEPT !.lock = p]
            /\ Goto(p, "checkout")
         \/ /\ dir.lock # Nobody
            /\ dir' = [cloned EXCEPT !.by = Nobody]
            /\ GiveUp(p)
  /\ UNCHANGED <<remote, faults, kills>>

\* Mutant: git clone is asked for no files.
CloneNoCheckout(p) ==
  /\ At(p, "checkout") /\ Mine(p) /\ dir.files = None
  /\ dir' = [dir EXCEPT !.by = Nobody, !.lock = Nobody]
  /\ Goto(p, "describe")
  /\ UNCHANGED <<remote, faults, kills>>

CloneDone(p) ==
  /\ At(p, "checkout") /\ Mine(p) /\ dir.files = None
  /\ dir' = [dir EXCEPT !.files = dir.head, !.by = Nobody, !.lock = Nobody]
  /\ Goto(p, "describe")
  /\ UNCHANGED <<remote, faults, kills>>

\* Another caller's reset has put files there, which the checkout does not
\* overwrite: git clone fails, and leaves the repository with its HEAD.
CloneSpoilt(p) ==
  /\ At(p, "checkout") /\ Mine(p) /\ dir.files # None
  /\ dir' = [dir EXCEPT !.by = Nobody, !.lock = Nobody]
  /\ GiveUp(p)
  /\ UNCHANGED <<remote, faults, kills>>

\* RemoveAll of another caller has taken the directory away, or a killed one
\* has left HEAD locked.  git clone fails; before its checkout it removes what
\* it made, by its path.
CloneLost(p) ==
  /\ \/ At(p, "checkout") /\ ~Mine(p) /\ UNCHANGED dir
     \/ call[p].pc \in {"listing", "cloning"} /\ ~Mine(p) /\ dir' \in {dir, Absent}
     \/ At(p, "cloning") /\ Mine(p) /\ "head" \in dir.stale /\ dir' = Absent
  /\ GiveUp(p)
  /\ UNCHANGED <<remote, faults, kills>>

-----------------------------------------------------------------------------
(* A .git was there: git fetch, then git reset --hard origin/Ref.          *)

\* A ref that is locked can be fetched as long as it need not move.
CanFetch ==
  /\ dir # Absent
  /\ dir.mapped /\ "tracking" \in dir.stale => dir.tracking = TrackingOf(remote)

Fetch(p) ==
  /\ At(p, "fetch")
  /\ CanFetch
  /\ dir' = IF dir.mapped THEN [dir EXCEPT !.tracking = TrackingOf(remote)] ELSE dir
  /\ Goto(p, "reset")
  /\ UNCHANGED <<remote, faults, kills>>

Holds(p) == dir # Absent /\ dir.lock = p

CanReset == dir # Absent /\ dir.lock = Nobody /\ dir.tracking # None

\* Mutant: the commit the caller was told of is the target.
ResetStartSince(p) ==
  /\ At(p, "reset")
  /\ CanReset
  /\ dir' = [dir EXCEPT !.lock = p, !.files = Partial]
  /\ Aim(p, "resetting", call[p].since)
  /\ UNCHANGED <<remote, faults, kills>>

\* git takes the lock and begins to replace the files that differ.
ResetStart(p) ==
  /\ At(p, "reset")
  /\ CanReset
  /\ dir' = [dir EXCEPT !.lock = p,
                        !.files = IF @ = dir.tracking THEN @ ELSE Partial]
  /\ Aim(p, "resetting", dir.tracking)
  /\ UNCHANGED <<remote, faults, kills>>

ResetDone(p) ==
  /\ At(p, "resetting")
  /\ Holds(p) /\ "head" \notin dir.stale
  /\ dir' = [dir EXCEPT !.head = call[p].target, !.files = call[p].target,
                        !.lock = Nobody]
  /\ Goto(p, "describe")
  /\ UNCHANGED <<remote, faults, kills>>

\* The files and the index are replaced, but HEAD is locked and git fails.
ResetBlocked(p) ==
  /\ At(p, "resetting")
  /\ Holds(p) /\ "head" \in dir.stale
  /\ dir' = [dir EXCEPT !.files = call[p].target, !.lock = Nobody]
  /\ GiveUp(p)
  /\ UNCHANGED <<remote, faults, kills>>

\* Mutant: the error of git fetch or git reset is logged and not returned.
UpdateFailsUnnoticed(p) ==
  /\ \/ At(p, "fetch") /\ ~CanFetch
     \/ At(p, "reset") /\ ~CanReset
     \/ At(p, "resetting") /\ ~Holds(p)
  /\ Goto(p, "describe")
  /\ UNCHANGED <<remote, dir, faults, kills>>

\* The directory is gone, its index or origin/Ref is locked, there is no
\* origin/Ref.
UpdateFails(p) ==
  /\ \/ At(p, "fetch") /\ ~CanFetch
     \/ At(p, "reset") /\ ~CanReset
     \/ At(p, "resetting") /\ ~Holds(p)
  /\ GiveUp(p)
  /\ UNCHANGED <<remote, dir, faults, kills>>

-----------------------------------------------------------------------------
\* .description is written, which fails if the directory has gone; a skill
\* without a description succeeds all the same.
Describe(p) ==
  /\ At(p, "describe")
  /\ \/ Goto(p, "ok")
     \/ dir = Absent /\ GiveUp(p)
  /\ UNCHANGED <<remote, dir, faults, kills>>

\* The lookup answers with a node of the directory; the poller goes on.
Finish(p) ==
  /\ At(p, "ok")
  /\ GiveUp(p)
  /\ UNCHANGED <<remote, dir, faults, kills>>

\* A command fails.  Before its checkout git clone takes away what it has made,
\* in its checkout it leaves a repository whose files are partly there; git
\* reset leaves the files as far as it came.
Fault(p) ==
  /\ faults < MaxFaults
  /\ call[p].pc \notin {"idle", "killed", "ok"}
  /\ \/ At(p, "checkout") /\ Mine(p)
        /\ dir' = [dir EXCEPT !.by = Nobody, !.lock = Nobody, !.files = Partial]
     \/ call[p].pc \in {"listing", "cloning"} /\ Mine(p) /\ dir' = Absent
     \/ ~Mine(p) /\ Holds(p) /\ dir' = [dir EXCEPT !.lock = Nobody]
     \/ ~Mine(p) /\ ~Holds(p) /\ UNCHANGED dir
  /\ GiveUp(p)
  /\ faults' = faults + 1
  /\ UNCHANGED <<remote, kills>>

\* What a command that is killed leaves of the directory: git clone a .git
\* without commits or with partial files and a locked index; git fetch perhaps
\* a locked origin/Ref; git reset a locked index, or, killed when it has put
\* the index in place, the old HEAD, perhaps locked.
Killed(p) ==
  IF Mine(p) /\ At(p, "checkout")
    THEN {[dir EXCEPT !.by = Nobody, !.lock = Orphan, !.files = Partial]}
  ELSE IF Mine(p)
    THEN {[dir EXCEPT !.by = Nobody, !.stale = @ \cup s] :
            s \in {{}} \cup (IF At(p, "cloning") THEN {{"head"}} ELSE {})}
  ELSE IF At(p, "resetting") /\ Holds(p)
    THEN {[dir EXCEPT !.lock = Orphan]} \cup
         {[dir EXCEPT !.lock = Nobody, !.files = call[p].target, !.stale = @ \cup s] :
            s \in {{}, {"head"}}}
  ELSE IF At(p, "fetch") /\ dir # Absent
    THEN {dir, [dir EXCEPT !.stale = @ \cup {"tracking"}]}
  ELSE {dir}

\* The request is interrupted, or pollerCancel ends the poller when the mount
\* does (main.go:229) and that of the next mount goes on in its place: the
\* context ends and exec kills the command, which cleans nothing up.
Kill(p) ==
  /\ kills < MaxKills
  /\ call[p].pc \notin {"idle", "killed", "ok"}
  /\ dir' \in Killed(p)
  /\ Goto(p, "killed")
  /\ kills' = kills + 1
  /\ UNCHANGED <<remote, faults>>

\* CombinedOutput returns when the killed git's children have closed its
\* output too.
KilledReturns(p) ==
  /\ At(p, "killed")
  /\ GiveUp(p)
  /\ UNCHANGED <<remote, dir, faults, kills>>

-----------------------------------------------------------------------------
Proceed(p) ==
  \/ PollCompare(p) \/ Check(p)
  \/ Remove(p) \/ CloneInit(p) \/ CloneRefused(p) \/ CloneList(p)
  \/ CloneFetch(p) \/ CloneDone(p) \/ CloneSpoilt(p) \/ CloneLost(p)
  \/ Fetch(p) \/ ResetStart(p) \/ ResetDone(p) \/ ResetBlocked(p)
  \/ UpdateFails(p)
  \/ Describe(p) \/ Finish(p) \/ KilledReturns(p)

Next ==
  \/ Push
  \/ \E p \in Lookups : Begin(p)
  \/ \E p \in Pollers : PollAsk(p)
  \/ \E p \in Callers : Proceed(p) \/ Fault(p) \/ Kill(p)

Spec == Init /\ [][Next]_vars

\* Where a caller waits for a git that talks to the remote, or for the children
\* of one that was killed: no deadline bounds these.
Remote == {"listing", "cloning", "fetch", "killed"}

\* The ticker fires again and again, LastCommit ends by the client's timeout,
\* and what needs no network ends by itself.
FairSpec ==
  /\ Spec
  /\ \A p \in Pollers : WF_vars(PollAsk(p))
  /\ \A p \in Callers : WF_vars(call[p].pc \notin Remote /\ Proceed(p))

\* The best case, for what fails even then: every command ends.
PromptSpec == FairSpec /\ \A p \in Callers : WF_vars(Proceed(p))

-----------------------------------------------------------------------------
Busy == {"compare", "check", "remove", "clone", "listing", "checkout",
         "fetch", "reset", "describe", "ok", "killed"}

Call ==
  [pc : {"idle"}]
    \cup [pc : Busy, since : 1..MaxCommits]
    \cup [pc : {"cloning", "resetting"}, since : 1..MaxCommits, target : 1..MaxCommits]

TypeOK ==
  /\ remote \in 1..MaxCommits
  /\ dir \in {Absent} \cup Clone
  /\ call \in [Callers -> Call]
  /\ faults \in 0..MaxFaults
  /\ kills \in 0..MaxKills

\* A caller of CloneOrPull is told that all is well.
Returns(p) == At(p, "describe") /\ call'[p].pc = "ok"

\* The directory has all files of one commit, and of no other.
Whole == dir # Absent /\ dir.files \notin {None, Partial}

\* client.go:149: a CloneOrPull that succeeds leaves the files of no older
\* commit than the remote had when it was called, if Ref is the default
\* branch, though others clone, remove, fetch and reset at the same time, fail,
\* or are killed; others may be replacing or cloning the files just then.
ReturnsFresh ==
  [][\A p \in Callers : Returns(p) /\ Whole => dir.files >= call[p].since]_vars

\* git clone writes HEAD when its download is complete.
ClonesHead ==
  \E p \in Callers : At(p, "cloning") /\ call'[p].pc \in {"checkout", "idle"}

\* However clones, removals, fetches and resets of several callers interleave,
\* HEAD of a directory that stays never goes back to an older commit, but by a
\* git clone that others have overtaken while it downloaded.
HeadNeverBack ==
  [][HeadKnown /\ dir' # Absent /\ ~ClonesHead => dir'.head >= dir.head]_vars

Fresh == dir # Absent /\ dir.head = remote /\ dir.files = remote

\* poller.go:83: a local HEAD that differs from the last commit is updated, so
\* the clone reaches the remote's last commit with all its files.
Converges == <>[]Fresh

\* What killed commands leave in the way of an update: a lock, or a clone that
\* has no HEAD the poller could compare.
Wreck ==
  dir # Absent /\ \/ dir.lock = Orphan \/ dir.stale # {}
                  \/ dir.by = Nobody /\ dir.head = None

\* poller.go:146, client.go:143-177: HEAD of a clone reaches the remote's last
\* commit, whatever races and fails and wherever callers are killed, unless the
\* directory is taken away again and again, a wreck is left, or some git never
\* comes back from the network.
HeadConverges ==
  \/ []<>(dir = Absent)
  \/ <>[]Wreck
  \/ \E p \in Callers : <>[](call[p].pc \in Remote)
  \/ <>[](dir # Absent /\ dir.head = remote)

\* SkillRepo implements Follower: a directory with all files of one commit is
\* what is served, and a caller waits from the moment it asks for a commit
\* until it is told.
Served == IF Whole THEN dir.files ELSE None

AskedOf(c) ==
  CASE c.pc = "idle" -> [phase |-> "idle", since |-> None]
    [] c.pc = "ok"   -> [phase |-> "told", since |-> c.since]
    [] OTHER         -> [phase |-> "asked", since |-> c.since]

Asked == [p \in Callers |-> AskedOf(call[p])]

Follow == INSTANCE Follower WITH Nothing <- None, served <- Served, asked <- Asked

\* client.go:126: whatever clones, removals, fetches and resets of several
\* callers do to one directory, all its files are of one commit only when a
\* caller under way has brought it, no older than that caller's start and one
\* the remote has, and no successful caller was too early for it.
ImplementsFollower == Follow!Spec
=============================================================================
