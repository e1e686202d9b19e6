-------------------------- MODULE SkillRepo_proofs --------------------------
(***************************************************************************)
(* HEAD of a clone goes back only where a git clone has been overtaken, a  *)
(* CloneOrPull that succeeds leaves the files of no older commit than it   *)
(* was called for, and one that nobody disturbs leaves all files of its    *)
(* commit, with any number of callers, commits, faults and kills.          *)
(*                                                                         *)
(* The invariants are not proved action by action: StepEffect says once    *)
(* what a step of a caller does to the directory and to the caller, as one *)
(* of eight effects, and every invariant is then kept effect by effect.    *)
(***************************************************************************)
EXTENDS MCSkillRepo, TLAPS

\* origin/Ref is no newer than a fetch would make it, HEAD no newer than that.
HeadsInOrder ==
  dir # Absent => /\ dir.tracking <= TrackingOf(remote) /\ dir.head <= dir.tracking
                  /\ ~dir.mapped => dir.tracking = None

\* Until git clone has listed the refs nobody can have fetched or reset; from
\* there on others fetch nothing older than what it is to write.
CloneInOrder(p) ==
  Mine(p) =>
    /\ At(p, "listing") => dir.lock = Nobody /\ ~dir.mapped
    /\ At(p, "cloning") => /\ dir.mapped /\ call[p].target <= remote
                           /\ dir.tracking = None \/ dir.tracking >= call[p].target
    /\ At(p, "checkout") => dir.lock = p

\* Who holds the lock resets to a commit between HEAD and origin/Ref, no older
\* than the one a git clone under way is to write.
ResetInOrder(p) ==
  At(p, "resetting") /\ Holds(p) =>
    /\ dir.head <= call[p].target /\ call[p].target <= dir.tracking
    /\ dir.files \in {Partial, call[p].target}
    /\ \A q \in Callers : At(q, "cloning") /\ Mine(q) => call[q].target <= call[p].target

IInv ==
  /\ TypeOK /\ HeadsInOrder
  /\ \A p \in Callers : CloneInOrder(p) /\ ResetInOrder(p)

-----------------------------------------------------------------------------
(* What a step of a caller does.                                           *)

Step(p) == Begin(p) \/ PollAsk(p) \/ Proceed(p) \/ Fault(p) \/ Kill(p)

\* Nothing but the files and the owners changes, and those only where the
\* caller is the owner.
Releases(p) ==
  /\ dir # Absent /\ dir' # Absent
  /\ dir'.mapped = dir.mapped /\ dir'.tracking = dir.tracking /\ dir'.head = dir.head
  /\ dir'.by \in {dir.by, Nobody}
  /\ dir'.lock = dir.lock \/ (dir.lock = p /\ dir'.lock \in {Nobody, Orphan})
  /\ \/ dir'.files = dir.files
     \/ dir.lock = p /\ dir'.lock # p /\ dir'.files = Partial
     \/ At(p, "resetting") /\ Holds(p) /\ dir'.lock = Nobody /\ dir'.files = call[p].target

\* The caller is then at none of the places the invariants speak of.
Stays(p) ==
  /\ dir' \in {dir, Absent} \/ Releases(p)
  /\ call'[p].pc \notin {"listing", "cloning", "checkout", "reset", "resetting", "describe"}

Makes(p) ==
  /\ dir = Absent /\ dir' # Absent
  /\ dir'.by = p /\ dir'.lock = Nobody /\ ~dir'.mapped
  /\ dir'.tracking = None /\ dir'.head = None /\ dir'.files = None
  /\ call'[p].pc = "listing"

Lists(p) ==
  /\ dir # Absent /\ dir' # Absent
  /\ dir.by = p /\ At(p, "listing")
  /\ dir'.by = p /\ dir'.lock = dir.lock /\ dir'.mapped
  /\ dir'.tracking = dir.tracking /\ dir'.head = dir.head /\ dir'.files = dir.files
  /\ call'[p].pc = "cloning" /\ call'[p].target = remote

Writes(p) ==
  /\ dir # Absent /\ dir' # Absent
  /\ dir.by = p /\ At(p, "cloning")
  /\ dir'.mapped = dir.mapped /\ dir'.files = dir.files
  /\ dir'.head = HeadOf(call[p].target)
  /\ dir'.tracking = IF dir.tracking = None THEN TrackingOf(call[p].target)
                     ELSE dir.tracking
  /\ \/ /\ dir.lock = Nobody /\ dir'.lock = p /\ dir'.by = p
        /\ call'[p].pc = "checkout"
     \/ /\ dir'.lock = dir.lock /\ dir'.by = Nobody
        /\ call'[p].pc = "idle"

Completes(p) ==
  /\ dir # Absent /\ dir' # Absent
  /\ dir.by = p /\ At(p, "checkout") /\ dir.files = None
  /\ dir'.mapped = dir.mapped /\ dir'.tracking = dir.tracking /\ dir'.head = dir.head
  /\ dir'.by = Nobody /\ dir'.lock = Nobody /\ dir'.files = dir.head
  /\ call'[p].pc = "describe"

Fetches(p) ==
  /\ dir # Absent /\ dir' # Absent
  /\ dir'.by = dir.by /\ dir'.lock = dir.lock /\ dir'.mapped = dir.mapped
  /\ dir'.tracking = IF dir.mapped THEN TrackingOf(remote) ELSE dir.tracking
  /\ dir'.head = dir.head /\ dir'.files = dir.files
  /\ call'[p].pc = "reset"

Locks(p) ==
  /\ dir # Absent /\ dir' # Absent
  /\ At(p, "reset") /\ dir.lock = Nobody /\ dir.tracking # None
  /\ dir'.by = dir.by /\ dir'.lock = p /\ dir'.mapped = dir.mapped
  /\ dir'.tracking = dir.tracking /\ dir'.head = dir.head
  /\ dir'.files = IF dir.files = dir.tracking THEN dir.files ELSE Partial
  /\ call'[p].pc = "resetting" /\ call'[p].target = dir.tracking

Moves(p) ==
  /\ dir # Absent /\ dir' # Absent
  /\ At(p, "resetting") /\ dir.lock = p
  /\ dir'.by = dir.by /\ dir'.lock = Nobody /\ dir'.mapped = dir.mapped
  /\ dir'.tracking = dir.tracking
  /\ dir'.head = call[p].target /\ dir'.files = call[p].target
  /\ call'[p].pc = "describe"

\* What becomes of the caller itself, whatever it does.
Turns(p) ==
  /\ call' \in [Callers -> Call]
  /\ \A q \in Callers \ {p} : call'[q] = call[q]
  /\ \/ call[p].pc = "idle" /\ call'[p].pc \in {"check", "compare"} /\ call'[p].since = remote
     \/ call[p].pc # "idle" /\ call'[p] = Idle
     \/ call[p].pc # "idle" /\ call'[p].pc # "idle" /\ call'[p].since = call[p].since

Effect(p) ==
  \/ Stays(p) \/ Makes(p) \/ Lists(p) \/ Writes(p) \/ Completes(p)
  \/ Fetches(p) \/ Locks(p) \/ Moves(p)

LEMMA CallShape ==
  ASSUME TypeOK, NEW p \in Callers
  PROVE  /\ call[p].pc = "idle" <=> call[p] = Idle
         /\ call[p].pc \in Busy \cup {"idle", "cloning", "resetting"}
         /\ call[p].pc # "idle" => call[p].since \in 1..MaxCommits
         /\ call[p].pc \in {"cloning", "resetting"} => call[p].target \in 1..MaxCommits
<1>1. call[p] \in Call
  BY DEF TypeOK
<1>2. CASE call[p] \in [pc : {"idle"}]
  BY <1>2 DEF Idle, Busy
<1>3. CASE call[p] \in [pc : Busy, since : 1..MaxCommits]
  BY <1>3 DEF Idle, Busy
<1>4. CASE call[p] \in [pc : {"cloning", "resetting"}, since : 1..MaxCommits,
                        target : 1..MaxCommits]
  BY <1>4 DEF Idle, Busy
<1> QED
  BY <1>1, <1>2, <1>3, <1>4 DEF Call

LEMMA IdleIsCall == Idle \in Call /\ Idle.pc = "idle"
BY DEF Idle, Call

LEMMA GoesTo ==
  ASSUME TypeOK, NEW p \in Callers, call[p].pc # "idle", NEW s \in Busy, Goto(p, s)
  PROVE  Turns(p) /\ call'[p].pc = s
<1> DEFINE c == [pc |-> s, since |-> call[p].since]
<1>1. c \in Call /\ c.pc = s /\ c.since = call[p].since /\ s # "idle"
  BY CallShape DEF Call, Busy
<1>2. call' = [call EXCEPT ![p] = c] /\ call \in [Callers -> Call]
  BY DEF Goto, TypeOK
<1> HIDE DEF c
<1> QED
  BY <1>1, <1>2 DEF Turns

LEMMA AimsAt ==
  ASSUME TypeOK, NEW p \in Callers, call[p].pc # "idle",
         NEW s \in {"cloning", "resetting"}, NEW t \in 1..MaxCommits, Aim(p, s, t)
  PROVE  Turns(p) /\ call'[p].pc = s /\ call'[p].target = t
<1> DEFINE c == [pc |-> s, since |-> call[p].since, target |-> t]
<1>1. c \in Call /\ c.pc = s /\ c.since = call[p].since /\ c.target = t /\ s # "idle"
  BY CallShape DEF Call, Busy
<1>2. call' = [call EXCEPT ![p] = c] /\ call \in [Callers -> Call]
  BY DEF Aim, TypeOK
<1> HIDE DEF c
<1> QED
  BY <1>1, <1>2 DEF Turns

LEMMA GivesUp ==
  ASSUME TypeOK, NEW p \in Callers, call[p].pc # "idle", GiveUp(p)
  PROVE  Turns(p) /\ call'[p].pc = "idle"
BY IdleIsCall DEF GiveUp, Turns, TypeOK

-----------------------------------------------------------------------------
LEMMA CallerSteps ==
  ASSUME IInv, NEW p \in Callers,
         \/ Begin(p) \/ PollAsk(p) \/ PollCompare(p) \/ Check(p)
         \/ CloneRefused(p) \/ UpdateFails(p) \/ Finish(p) \/ KilledReturns(p)
         \/ Remove(p) \/ CloneLost(p) \/ Describe(p)
  PROVE  /\ Turns(p) /\ Stays(p) /\ dir' \in {Absent} \cup Clone
         /\ UNCHANGED <<remote, faults, kills>>
<1>0. /\ TypeOK /\ dir \in {Absent} \cup Clone /\ call \in [Callers -> Call]
      /\ remote \in 1..MaxCommits
  BY DEF IInv, TypeOK
<1>1. CASE Begin(p) \/ PollAsk(p)
  <2>1. PICK s \in {"check", "compare"} :
          call[p] = Idle /\ call' = [call EXCEPT ![p] = [pc |-> s, since |-> remote]]
    BY <1>1 DEF Begin, PollAsk
  <2> DEFINE c == [pc |-> s, since |-> remote]
  <2>2. c \in Call /\ c.pc = s /\ c.since = remote
    BY <1>0 DEF Call, Busy
  <2> HIDE DEF c
  <2>3. Turns(p) /\ call'[p].pc = s
    BY <1>0, <2>1, <2>2, IdleIsCall DEF Turns, c
  <2> QED
    BY <1>0, <1>1, <2>3 DEF Begin, PollAsk, Stays
<1>2. CASE GiveUp(p) /\ ~(Begin(p) \/ PollAsk(p))
  <2>1. /\ call[p].pc # "idle" /\ dir' \in {dir, Absent}
        /\ UNCHANGED <<remote, faults, kills>>
    BY <1>2 DEF PollCompare, Check, CloneRefused, UpdateFails, Finish, KilledReturns,
                Remove, CloneLost, Describe, At
  <2> QED
    BY <1>0, <1>2, <2>1, GivesUp DEF Stays
<1>3. CASE ~GiveUp(p) /\ ~(Begin(p) \/ PollAsk(p))
  <2>1. /\ call[p].pc # "idle" /\ dir' \in {dir, Absent}
        /\ UNCHANGED <<remote, faults, kills>>
        /\ \E s \in {"check", "remove", "fetch", "clone", "ok"} : Goto(p, s)
    BY <1>3 DEF PollCompare, Check, CloneRefused, UpdateFails, Finish, KilledReturns,
                Remove, CloneLost, Describe, At
  <2>2. Turns(p) /\ call'[p].pc \in {"check", "remove", "fetch", "clone", "ok"}
    BY <1>0, <2>1, GoesTo DEF Busy
  <2> QED
    BY <1>0, <2>1, <2>2 DEF Stays
<1> QED
  BY <1>1, <1>2, <1>3

LEMMA CloneSteps ==
  ASSUME IInv, NEW p \in Callers,
         CloneInit(p) \/ CloneList(p) \/ CloneFetch(p) \/ CloneDone(p) \/ CloneSpoilt(p)
  PROVE  /\ Turns(p) /\ Effect(p) /\ dir' \in {Absent} \cup Clone
         /\ UNCHANGED <<remote, faults, kills>>
<1> USE RepoAssumption
<1>0. /\ TypeOK /\ dir \in {Absent} \cup Clone /\ remote \in 1..MaxCommits
  BY DEF IInv, TypeOK
<1>r. UNCHANGED <<remote, faults, kills>>
  BY DEF CloneInit, CloneList, CloneFetch, CloneDone, CloneSpoilt
<1>1. CASE CloneInit(p)
  <2>1. Turns(p) /\ call'[p].pc = "listing"
    BY <1>0, <1>1, GoesTo DEF CloneInit, At, Busy
  <2>2. /\ dir = Absent
        /\ dir' = [by |-> p, lock |-> Nobody, mapped |-> FALSE, tracking |-> None,
                   head |-> None, files |-> None, stale |-> {}]
    BY <1>1 DEF CloneInit
  <2>3. dir' \in Clone
    BY <2>2 DEF Clone, None, Foreign, Partial
  <2> QED
    BY <1>r, <2>1, <2>2, <2>3 DEF Makes, Effect
<1>2. CASE CloneList(p)
  <2>1. Turns(p) /\ call'[p].pc = "cloning" /\ call'[p].target = remote
    BY <1>0, <1>2, AimsAt DEF CloneList, At
  <2>2. dir \in Clone /\ dir.by = p /\ dir' = [dir EXCEPT !.mapped = TRUE]
    BY <1>0, <1>2 DEF CloneList, Mine
  <2>3. dir' \in Clone
    BY <2>2 DEF Clone
  <2> QED
    BY <1>r, <1>2, <2>1, <2>2, <2>3 DEF CloneList, Lists, Effect, Clone
<1>3. CASE CloneFetch(p)
  <2> DEFINE c == call[p].target
             k == IF dir.tracking = None THEN TrackingOf(c) ELSE dir.tracking
             h == HeadOf(c)
  <2>1. dir \in Clone /\ dir.by = p /\ At(p, "cloning") /\ c \in 1..MaxCommits
    BY <1>0, <1>3, CallShape DEF CloneFetch, Mine, At
  <2>2. k \in None..MaxCommits /\ h \in Foreign..MaxCommits
    BY <2>1 DEF TrackingOf, HeadOf, None, Foreign, Clone
  <2>3. \/ /\ dir.lock = Nobody /\ Goto(p, "checkout")
           /\ dir' = [[dir EXCEPT !.head = h, !.tracking = k] EXCEPT !.lock = p]
        \/ /\ GiveUp(p)
           /\ dir' = [[dir EXCEPT !.head = h, !.tracking = k] EXCEPT !.by = Nobody]
    BY <1>3 DEF CloneFetch
  <2> HIDE DEF h, k, c
  <2>4. CASE /\ dir.lock = Nobody /\ Goto(p, "checkout")
             /\ dir' = [[dir EXCEPT !.head = h, !.tracking = k] EXCEPT !.lock = p]
    <3>1. Turns(p) /\ call'[p].pc = "checkout"
      BY <1>0, <2>1, <2>4, GoesTo DEF At, Busy
    <3>2. /\ dir' \in Clone /\ dir'.by = p /\ dir'.lock = p /\ dir'.mapped = dir.mapped
          /\ dir'.files = dir.files /\ dir'.head = h /\ dir'.tracking = k
      BY <2>1, <2>2, <2>4 DEF Clone
    <3> QED
      BY <1>r, <2>1, <2>4, <3>1, <3>2 DEF Writes, Effect, h, k, c
  <2>5. CASE /\ GiveUp(p)
             /\ dir' = [[dir EXCEPT !.head = h, !.tracking = k] EXCEPT !.by = Nobody]
    <3>1. Turns(p) /\ call'[p].pc = "idle"
      BY <1>0, <2>1, <2>5, GivesUp DEF At
    <3>2. /\ dir' \in Clone /\ dir'.by = Nobody /\ dir'.lock = dir.lock
          /\ dir'.mapped = dir.mapped
          /\ dir'.files = dir.files /\ dir'.head = h /\ dir'.tracking = k
      BY <2>1, <2>2, <2>5 DEF Clone
    <3> QED
      BY <1>r, <2>1, <3>1, <3>2 DEF Writes, Effect, h, k, c
  <2> QED
    BY <2>3, <2>4, <2>5
<1>4. CASE CloneDone(p)
  <2>1. Turns(p) /\ call'[p].pc = "describe"
    BY <1>0, <1>4, GoesTo DEF CloneDone, At, Busy
  <2>2. /\ dir \in Clone /\ dir.by = p /\ At(p, "checkout") /\ dir.files = None
        /\ dir' = [dir EXCEPT !.files = dir.head, !.by = Nobody, !.lock = Nobody]
    BY <1>0, <1>4 DEF CloneDone, Mine
  <2>3. dir' \in Clone
    <3>1. dir.head \in Partial..MaxCommits
      BY <2>2 DEF Clone, Foreign, Partial
    <3> QED
      BY <2>2, <3>1 DEF Clone
  <2> QED
    BY <1>r, <2>1, <2>2, <2>3 DEF Completes, Effect, Clone
<1>5. CASE CloneSpoilt(p)
  <2>1. Turns(p) /\ call'[p].pc = "idle"
    BY <1>0, <1>5, GivesUp DEF CloneSpoilt, At
  <2>2. /\ dir \in Clone /\ dir.by = p
        /\ dir' = [dir EXCEPT !.by = Nobody, !.lock = Nobody]
    BY <1>0, <1>5 DEF CloneSpoilt, Mine
  <2>3. dir.lock = p
    BY <1>5 DEF IInv, CloneInOrder, CloneSpoilt
  <2>4. dir' \in Clone
    BY <2>2 DEF Clone
  <2>5. Releases(p)
    BY <2>2, <2>3, <2>4 DEF Releases, Clone
  <2> QED
    BY <1>r, <2>1, <2>4, <2>5 DEF Stays, Effect
<1> QED
  BY <1>1, <1>2, <1>3, <1>4, <1>5

LEMMA UpdateSteps ==
  ASSUME IInv, NEW p \in Callers,
         Fetch(p) \/ ResetStart(p) \/ ResetDone(p) \/ ResetBlocked(p)
  PROVE  /\ Turns(p) /\ Effect(p) /\ dir' \in {Absent} \cup Clone
         /\ UNCHANGED <<remote, faults, kills>>
<1> USE RepoAssumption
<1>0. /\ TypeOK /\ dir \in {Absent} \cup Clone /\ remote \in 1..MaxCommits
  BY DEF IInv, TypeOK
<1>r. UNCHANGED <<remote, faults, kills>>
  BY DEF Fetch, ResetStart, ResetDone, ResetBlocked
<1>d. dir # Absent /\ dir \in Clone
  BY <1>0 DEF Fetch, CanFetch, ResetStart, CanReset, ResetDone, ResetBlocked, Holds
<1>1. CASE Fetch(p)
  <2>1. Turns(p) /\ call'[p].pc = "reset"
    BY <1>0, <1>1, GoesTo DEF Fetch, At, Busy
  <2>2. CASE dir.mapped
    <3>1. dir' = [dir EXCEPT !.tracking = TrackingOf(remote)]
      BY <1>1, <2>2 DEF Fetch
    <3>2. TrackingOf(remote) \in None..MaxCommits
      BY <1>0 DEF TrackingOf, None
    <3>3. /\ dir' \in Clone /\ dir'.by = dir.by /\ dir'.lock = dir.lock
          /\ dir'.mapped = dir.mapped /\ dir'.tracking = TrackingOf(remote)
          /\ dir'.head = dir.head /\ dir'.files = dir.files
      BY <1>d, <3>1, <3>2 DEF Clone
    <3> QED
      BY <1>r, <1>d, <2>1, <2>2, <3>3 DEF Fetches, Effect
  <2>3. CASE ~dir.mapped
    BY <1>r, <1>d, <1>1, <2>1, <2>3 DEF Fetch, Fetches, Effect
  <2> QED
    BY <2>2, <2>3
<1>2. CASE ResetStart(p)
  <2> DEFINE f == IF dir.files = dir.tracking THEN dir.files ELSE Partial
  <2>1. /\ dir.lock = Nobody /\ dir.tracking # None /\ At(p, "reset")
        /\ dir' = [dir EXCEPT !.lock = p, !.files = f]
    BY <1>2 DEF ResetStart, CanReset
  <2>2. dir.tracking \in 1..MaxCommits
    BY <1>d, <2>1 DEF Clone, None
  <2>3. Turns(p) /\ call'[p].pc = "resetting" /\ call'[p].target = dir.tracking
    BY <1>0, <1>2, <2>2, AimsAt DEF ResetStart, At
  <2>4. f \in Partial..MaxCommits
    BY <1>d DEF Clone, Partial
  <2> HIDE DEF f
  <2>5. /\ dir' \in Clone /\ dir'.by = dir.by /\ dir'.lock = p
        /\ dir'.mapped = dir.mapped /\ dir'.tracking = dir.tracking
        /\ dir'.head = dir.head /\ dir'.files = f
    BY <1>d, <2>1, <2>4 DEF Clone
  <2> QED
    BY <1>r, <1>d, <2>1, <2>3, <2>5 DEF Locks, Effect, f
<1>3. CASE ResetDone(p)
  <2> DEFINE t == call[p].target
  <2>1. /\ dir.lock = p /\ At(p, "resetting")
        /\ dir' = [dir EXCEPT !.head = t, !.files = t, !.lock = Nobody]
    BY <1>3 DEF ResetDone, Holds
  <2>2. t \in 1..MaxCommits
    BY <1>0, <2>1, CallShape DEF At
  <2>3. Turns(p) /\ call'[p].pc = "describe"
    BY <1>0, <1>3, GoesTo DEF ResetDone, At, Busy
  <2> HIDE DEF t
  <2>4. t \in Partial..MaxCommits /\ t \in Foreign..MaxCommits
    BY <2>2 DEF Partial, Foreign
  <2>5. /\ dir' \in Clone /\ dir'.by = dir.by /\ dir'.lock = Nobody
        /\ dir'.mapped = dir.mapped /\ dir'.tracking = dir.tracking
        /\ dir'.head = t /\ dir'.files = t
    BY <1>d, <2>1, <2>4 DEF Clone
  <2> QED
    BY <1>r, <1>d, <2>1, <2>3, <2>5 DEF Moves, Effect, t
<1>4. CASE ResetBlocked(p)
  <2> DEFINE t == call[p].target
  <2>1. /\ dir.lock = p /\ At(p, "resetting")
        /\ dir' = [dir EXCEPT !.files = t, !.lock = Nobody]
    BY <1>4 DEF ResetBlocked, Holds
  <2>2. t \in 1..MaxCommits
    BY <1>0, <2>1, CallShape DEF At
  <2>3. Turns(p) /\ call'[p].pc = "idle"
    BY <1>0, <1>4, GivesUp DEF ResetBlocked, At
  <2> HIDE DEF t
  <2>4. t \in Partial..MaxCommits
    BY <2>2 DEF Partial
  <2>5. /\ dir' \in Clone /\ dir'.by = dir.by /\ dir'.lock = Nobody
        /\ dir'.mapped = dir.mapped /\ dir'.tracking = dir.tracking
        /\ dir'.head = dir.head /\ dir'.files = t
    BY <1>d, <2>1, <2>4 DEF Clone
  <2>6. Releases(p)
    BY <1>d, <2>1, <2>5 DEF Releases, Holds, t
  <2> QED
    BY <1>r, <2>3, <2>5, <2>6 DEF Stays, Effect
<1> QED
  BY <1>1, <1>2, <1>3, <1>4

\* A command that fails or is killed leaves the refs as they are.
LEMMA FailureSteps ==
  ASSUME IInv, NEW p \in Callers, Fault(p) \/ Kill(p)
  PROVE  /\ Turns(p) /\ Stays(p) /\ dir' \in {Absent} \cup Clone
         /\ UNCHANGED remote
         /\ faults' \in 0..MaxFaults /\ kills' \in 0..MaxKills
         /\ call'[p].pc \in {"idle", "killed"}
<1> USE RepoAssumption
<1>0. /\ TypeOK /\ dir \in {Absent} \cup Clone /\ remote \in 1..MaxCommits
  BY DEF IInv, TypeOK
<1>1. /\ UNCHANGED remote /\ faults' \in 0..MaxFaults /\ kills' \in 0..MaxKills
      /\ call[p].pc # "idle"
      /\ GiveUp(p) \/ Goto(p, "killed")
  BY <1>0 DEF Fault, Kill, TypeOK
<1>2. Turns(p) /\ call'[p].pc \in {"idle", "killed"}
  <2>1. "killed" \in Busy
    BY DEF Busy
  <2>2. CASE GiveUp(p)
    BY <1>0, <1>1, <2>2, GivesUp
  <2>3. CASE Goto(p, "killed")
    BY <1>0, <1>1, <2>1, <2>3, GoesTo
  <2> QED
    BY <1>1, <2>2, <2>3
<1>3. Mine(p) /\ At(p, "checkout") => dir.lock = p
  BY DEF IInv, CloneInOrder
<1>4. dir' \in {Absent} \cup Clone /\ (dir' \in {dir, Absent} \/ Releases(p))
  <2>1. CASE dir' \in {dir, Absent}
    BY <1>0, <2>1
  <2>2. CASE dir # Absent /\ \E k \in {Nobody, Orphan} :
               /\ At(p, "checkout") /\ Mine(p)
               /\ dir' = [dir EXCEPT !.by = Nobody, !.lock = k, !.files = Partial]
    <3>1. PICK k \in {Nobody, Orphan} :
               /\ dir \in Clone /\ dir.lock = p
               /\ dir' = [dir EXCEPT !.by = Nobody, !.lock = k, !.files = Partial]
      BY <1>0, <1>3, <2>2
    <3>2. /\ dir' \in Clone /\ dir'.by = Nobody /\ dir'.lock = k
          /\ dir'.mapped = dir.mapped /\ dir'.tracking = dir.tracking
          /\ dir'.head = dir.head /\ dir'.files = Partial
      <4>1. Partial \in Partial..MaxCommits
        BY DEF Partial
      <4> QED
        BY <3>1, <4>1 DEF Clone
    <3> QED
      BY <2>2, <3>1, <3>2 DEF Releases
  <2>3. CASE /\ dir # Absent /\ Holds(p)
             /\ \E k \in {Nobody, Orphan} : dir' = [dir EXCEPT !.lock = k]
    <3>1. PICK k \in {Nobody, Orphan} :
               dir \in Clone /\ dir.lock = p /\ dir' = [dir EXCEPT !.lock = k]
      BY <1>0, <2>3 DEF Holds
    <3>2. /\ dir' \in Clone /\ dir'.by = dir.by /\ dir'.lock = k
          /\ dir'.mapped = dir.mapped /\ dir'.tracking = dir.tracking
          /\ dir'.head = dir.head /\ dir'.files = dir.files
      BY <3>1 DEF Clone
    <3> QED
      BY <2>3, <3>1, <3>2 DEF Releases
  <2>4. CASE /\ dir # Absent
             /\ \E b \in {dir.by, Nobody}, s \in SUBSET {"tracking", "head"} :
                  dir' = [dir EXCEPT !.by = b, !.stale = s]
    <3>1. PICK b \in {dir.by, Nobody}, s \in SUBSET {"tracking", "head"} :
               dir \in Clone /\ dir' = [dir EXCEPT !.by = b, !.stale = s]
      BY <1>0, <2>4
    <3>2. /\ dir' \in Clone /\ dir'.by = b /\ dir'.lock = dir.lock
          /\ dir'.mapped = dir.mapped /\ dir'.tracking = dir.tracking
          /\ dir'.head = dir.head /\ dir'.files = dir.files
      BY <3>1 DEF Clone
    <3> QED
      BY <2>4, <3>1, <3>2 DEF Releases
  <2>5. CASE /\ At(p, "resetting") /\ Holds(p)
             /\ \E s \in SUBSET {"tracking", "head"} :
                  dir' = [dir EXCEPT !.lock = Nobody, !.files = call[p].target, !.stale = s]
    <3> DEFINE t == call[p].target
    <3>1. PICK s \in SUBSET {"tracking", "head"} :
               dir' = [dir EXCEPT !.lock = Nobody, !.files = t, !.stale = s]
      BY <2>5
    <3>2. dir # Absent /\ dir \in Clone /\ dir.lock = p /\ t \in 1..MaxCommits
      BY <1>0, <2>5, CallShape DEF At, Holds
    <3> HIDE DEF t
    <3>3. /\ dir' \in Clone /\ dir'.by = dir.by /\ dir'.lock = Nobody
          /\ dir'.mapped = dir.mapped /\ dir'.tracking = dir.tracking
          /\ dir'.head = dir.head /\ dir'.files = t
      <4>1. t \in Partial..MaxCommits
        BY <3>2 DEF Partial
      <4> QED
        BY <3>1, <3>2, <4>1 DEF Clone
    <3> QED
      BY <2>5, <3>2, <3>3 DEF Releases, t
  <2>6. CASE Fault(p)
    BY <2>1, <2>2, <2>3, <2>6 DEF Fault, Mine, Holds
  <2>7. CASE Kill(p)
    <3>1. dir' \in Killed(p)
      BY <2>7 DEF Kill
    <3>2. dir \in Clone => dir.stale \in SUBSET {"tracking", "head"}
      BY DEF Clone
    <3>3. CASE Mine(p) /\ At(p, "checkout")
      BY <2>2, <3>1, <3>3 DEF Killed, Mine
    <3>4. CASE Mine(p) /\ ~At(p, "checkout")
      <4>1. PICK s \in SUBSET {"head"} :
              dir' = [dir EXCEPT !.by = Nobody, !.stale = @ \cup s]
        BY <3>1, <3>4 DEF Killed
      <4>2. dir # Absent /\ dir.stale \cup s \in SUBSET {"tracking", "head"}
        BY <1>0, <3>2, <3>4 DEF Mine
      <4> QED
        BY <2>4, <4>1, <4>2
    <3>5. CASE ~Mine(p) /\ At(p, "resetting") /\ Holds(p)
      <4>1. \/ dir' = [dir EXCEPT !.lock = Orphan]
            \/ \E s \in SUBSET {"head"} :
                 dir' = [dir EXCEPT !.lock = Nobody, !.files = call[p].target,
                                    !.stale = @ \cup s]
        BY <3>1, <3>5 DEF Killed
      <4>2. dir # Absent
              /\ \A s \in SUBSET {"head"} : dir.stale \cup s \in SUBSET {"tracking", "head"}
        BY <1>0, <3>2, <3>5 DEF Holds
      <4> QED
        BY <2>3, <2>5, <3>5, <4>1, <4>2
    <3>6. CASE ~Mine(p) /\ ~(At(p, "resetting") /\ Holds(p)) /\ At(p, "fetch") /\ dir # Absent
      <4>1. dir' = dir \/ dir' = [dir EXCEPT !.stale = @ \cup {"tracking"}]
        BY <3>1, <3>6 DEF Killed
      <4>2. dir \in Clone /\ dir.stale \cup {"tracking"} \in SUBSET {"tracking", "head"}
        BY <1>0, <3>2, <3>6
      <4>3. dir' = dir \/ dir' = [dir EXCEPT !.by = dir.by,
                                             !.stale = dir.stale \cup {"tracking"}]
        BY <4>1, <4>2 DEF Clone
      <4> QED
        BY <2>1, <2>4, <3>6, <4>2, <4>3
    <3>7. CASE /\ ~Mine(p) /\ ~(At(p, "resetting") /\ Holds(p))
               /\ ~(At(p, "fetch") /\ dir # Absent)
      BY <2>1, <3>1, <3>7 DEF Killed
    <3> QED
      BY <3>3, <3>4, <3>5, <3>6, <3>7
  <2> QED
    BY <2>6, <2>7
<1> QED
  BY <1>1, <1>2, <1>4 DEF Stays

LEMMA StepEffect ==
  ASSUME IInv, NEW p \in Callers, Step(p)
  PROVE  /\ Turns(p) /\ Effect(p) /\ dir' \in {Absent} \cup Clone
         /\ UNCHANGED remote
         /\ faults' \in 0..MaxFaults /\ kills' \in 0..MaxKills
<1>1. faults \in 0..MaxFaults /\ kills \in 0..MaxKills
  BY DEF IInv, TypeOK
<1> QED
  BY <1>1, CallerSteps, CloneSteps, UpdateSteps, FailureSteps DEF Step, Proceed, Effect

-----------------------------------------------------------------------------
(* The invariant that the effects keep.                                     *)

LEMMA InitIInv == Init => IInv
<1> SUFFICES ASSUME Init PROVE IInv
  OBVIOUS
<1> USE RepoAssumption
<1>1. dir # Absent =>
        /\ dir \in Clone /\ dir.by = Nobody /\ dir.mapped
        /\ dir.tracking <= TrackingOf(remote) /\ dir.head <= dir.tracking
  BY DEF Init, Clone, TrackingOf, HeadOf, None, Foreign, Partial
<1>2. \A p \in Callers : call[p] = Idle
  BY DEF Init
<1>3. TypeOK
  BY <1>1 DEF Init, TypeOK, Call, Idle
<1>4. HeadsInOrder
  BY <1>1 DEF HeadsInOrder
<1>5. \A p \in Callers : CloneInOrder(p) /\ ResetInOrder(p)
  BY <1>2 DEF CloneInOrder, ResetInOrder, At, Idle
<1> QED
  BY <1>3, <1>4, <1>5 DEF IInv

\* The numbers in a directory.
LEMMA DirShape ==
  ASSUME NEW d \in Clone
  PROVE  /\ d.tracking \in Int /\ d.tracking >= 0 /\ d.head \in Int /\ d.files \in Int
         /\ d.mapped \in BOOLEAN
BY RepoAssumption DEF Clone, None, Foreign, Partial

LEMMA StepIInv ==
  ASSUME IInv, NEW p \in Callers, Step(p)
  PROVE  IInv'
<1> USE RepoAssumption
<1>0. /\ TypeOK /\ HeadsInOrder /\ remote \in 1..MaxCommits
      /\ dir \in {Absent} \cup Clone /\ call \in [Callers -> Call]
      /\ \A q \in Callers : CloneInOrder(q) /\ ResetInOrder(q)
  BY DEF IInv, TypeOK
<1>1. /\ Turns(p) /\ Effect(p) /\ dir' \in {Absent} \cup Clone
      /\ remote' = remote
      /\ faults' \in 0..MaxFaults /\ kills' \in 0..MaxKills
      /\ call' \in [Callers -> Call]
      /\ \A q \in Callers \ {p} : call'[q] = call[q]
  BY StepEffect DEF Turns
<1>2. TypeOK'
  BY <1>0, <1>1 DEF TypeOK
<1>3. call[p].pc \in {"cloning", "resetting"} => call[p].target \in 1..MaxCommits
  BY <1>0, CallShape
<1>4. CASE dir' = Absent
  BY <1>2, <1>4 DEF IInv, HeadsInOrder, CloneInOrder, ResetInOrder, Mine, Holds
<1>5. CASE Makes(p)
  <2>1. HeadsInOrder'
    BY <1>0, <1>1, <1>5 DEF Makes, HeadsInOrder, TrackingOf, None
  <2>2. ASSUME NEW q \in Callers
        PROVE  CloneInOrder(q)' /\ ResetInOrder(q)'
    BY <1>5, <2>2 DEF Makes, CloneInOrder, ResetInOrder, Mine, Holds, At
  <2> QED
    BY <1>2, <2>1, <2>2 DEF IInv
<1>6. CASE dir # Absent /\ dir' # Absent
  <2>0. /\ dir \in Clone /\ dir' \in Clone
        /\ dir.tracking \in Int /\ dir.tracking >= 0 /\ dir.head \in Int
        /\ dir'.tracking \in Int /\ dir'.tracking >= 0 /\ dir'.head \in Int
    BY <1>0, <1>1, <1>6, DirShape
  <2>1. /\ dir.tracking <= TrackingOf(remote) /\ dir.head <= dir.tracking
        /\ ~dir.mapped => dir.tracking = None
        /\ TrackingOf(remote) \in {remote, None}
    BY <1>0, <1>6 DEF HeadsInOrder, TrackingOf
  <2>2. CASE Stays(p)
    <3>1. /\ dir'.mapped = dir.mapped /\ dir'.tracking = dir.tracking
          /\ dir'.head = dir.head /\ dir'.by \in {dir.by, Nobody}
          /\ dir'.lock = dir.lock \/ (dir.lock = p /\ dir'.lock \in {Nobody, Orphan})
          /\ dir'.files = dir.files \/ (dir.lock = p /\ dir'.lock # p)
          /\ call'[p].pc \notin {"listing", "cloning", "checkout", "resetting"}
      BY <1>6, <2>2 DEF Stays, Releases, Holds
    <3>2. HeadsInOrder'
      BY <1>1, <2>1, <3>1 DEF HeadsInOrder, TrackingOf
    <3>3. ASSUME NEW q \in Callers
          PROVE  CloneInOrder(q)'
      <4>1. CASE q = p
        BY <3>1, <4>1 DEF CloneInOrder, At
      <4>2. CASE q # p
        BY <1>0, <1>1, <1>6, <3>1, <4>2 DEF CloneInOrder, At, Mine
      <4> QED
        BY <4>1, <4>2
    <3>4. ASSUME NEW q \in Callers
          PROVE  ResetInOrder(q)'
      <4>1. CASE q = p
        BY <3>1, <4>1 DEF ResetInOrder, At
      <4>2. CASE q # p /\ At(q, "resetting")' /\ Holds(q)'
        <5>1. /\ call'[q] = call[q] /\ dir.lock = q /\ dir'.files = dir.files
              /\ At(q, "resetting") /\ Holds(q)
          BY <1>1, <1>6, <3>1, <4>2 DEF At, Holds
        <5>2. /\ dir.head <= call[q].target /\ call[q].target <= dir.tracking
              /\ dir.files \in {Partial, call[q].target}
              /\ \A r \in Callers : At(r, "cloning") /\ Mine(r) => call[r].target <= call[q].target
          BY <1>0, <5>1 DEF ResetInOrder
        <5>3. \A r \in Callers : At(r, "cloning")' /\ Mine(r)' =>
                r # p /\ call'[r] = call[r] /\ At(r, "cloning") /\ Mine(r)
          BY <1>1, <1>6, <3>1 DEF At, Mine
        <5> QED
          BY <3>1, <5>1, <5>2, <5>3 DEF ResetInOrder
      <4> QED
        BY <4>1, <4>2 DEF ResetInOrder
    <3> QED
      BY <1>2, <3>2, <3>3, <3>4 DEF IInv
  <2>3. CASE Lists(p)
    <3>1. /\ dir.by = p /\ At(p, "listing") /\ dir.lock = Nobody /\ dir.tracking = None
      BY <1>0, <1>6, <2>1, <2>3 DEF Lists, CloneInOrder, Mine
    <3>2. HeadsInOrder'
      BY <1>1, <2>1, <2>3 DEF Lists, HeadsInOrder, TrackingOf
    <3>3. ASSUME NEW q \in Callers
          PROVE  CloneInOrder(q)' /\ ResetInOrder(q)'
      BY <1>0, <1>1, <2>3, <3>1 DEF Lists, CloneInOrder, ResetInOrder, At, Mine, Holds
    <3> QED
      BY <1>2, <3>2, <3>3 DEF IInv
  <2>4. CASE Writes(p)
    <3> DEFINE t == call[p].target
    <3>1. /\ dir.by = p /\ At(p, "cloning") /\ dir.mapped /\ t <= remote
          /\ dir.tracking = None \/ dir.tracking >= t
          /\ t \in 1..MaxCommits
      BY <1>0, <1>3, <1>6, <2>4 DEF Writes, CloneInOrder, Mine, At
    <3>2. /\ dir'.head = HeadOf(t) /\ dir'.mapped = dir.mapped /\ dir'.files = dir.files
          /\ dir'.tracking = IF dir.tracking = None THEN TrackingOf(t) ELSE dir.tracking
          /\ \/ /\ dir.lock = Nobody /\ dir'.lock = p /\ dir'.by = p
                /\ call'[p].pc = "checkout"
             \/ dir'.lock = dir.lock /\ dir'.by = Nobody /\ call'[p].pc = "idle"
      BY <2>4 DEF Writes
    <3> HIDE DEF t
    <3>3. dir.tracking <= dir'.tracking /\ dir'.tracking <= TrackingOf(remote)
      BY <1>0, <2>0, <2>1, <3>1, <3>2 DEF TrackingOf, None
    <3>4. dir'.head <= dir'.tracking
      BY <1>0, <2>0, <2>1, <3>1, <3>2 DEF TrackingOf, HeadOf, None, Foreign
    <3>5. HeadsInOrder'
      BY <1>1, <3>1, <3>2, <3>3, <3>4 DEF HeadsInOrder, TrackingOf
    <3>6. ASSUME NEW q \in Callers
          PROVE  CloneInOrder(q)'
      <4>1. CASE q = p
        BY <3>2, <4>1 DEF CloneInOrder, At, Mine
      <4>2. CASE q # p
        BY <3>1, <3>2, <4>2 DEF CloneInOrder, Mine
      <4> QED
        BY <4>1, <4>2
    <3>7. ASSUME NEW q \in Callers, At(q, "resetting")', Holds(q)'
          PROVE  ResetInOrder(q)'
      <4>1. q # p /\ call'[q] = call[q] /\ dir.lock = q
        BY <1>1, <3>2, <3>7 DEF At, Holds
      <4>2. At(q, "resetting") /\ Holds(q) /\ At(p, "cloning") /\ Mine(p)
        BY <1>6, <3>1, <3>7, <4>1 DEF At, Holds, Mine
      <4>3. /\ call[q].target <= dir.tracking /\ dir.files \in {Partial, call[q].target}
            /\ t <= call[q].target /\ call[q].target \in 1..MaxCommits
        BY <1>0, <4>2, CallShape DEF ResetInOrder, At, t
      <4>4. dir'.head <= call[q].target /\ call[q].target <= dir'.tracking
        BY <1>0, <2>0, <3>1, <3>2, <3>3, <4>3 DEF HeadOf, Foreign
      <4>5. ~\E r \in Callers : At(r, "cloning")' /\ Mine(r)'
        BY <3>1, <3>2 DEF At, Mine
      <4> QED
        BY <3>2, <4>1, <4>3, <4>4, <4>5 DEF ResetInOrder
    <3> QED
      BY <1>2, <3>5, <3>6, <3>7 DEF IInv, ResetInOrder
  <2>5. CASE Completes(p)
    <3>1. HeadsInOrder'
      BY <1>1, <2>1, <2>5 DEF Completes, HeadsInOrder, TrackingOf
    <3>2. \A q \in Callers : CloneInOrder(q)' /\ ResetInOrder(q)'
      BY <2>5 DEF Completes, CloneInOrder, ResetInOrder, Mine, Holds
    <3> QED
      BY <1>2, <3>1, <3>2 DEF IInv
  <2>6. CASE Fetches(p)
    <3>1. /\ dir'.by = dir.by /\ dir'.lock = dir.lock /\ dir'.mapped = dir.mapped
          /\ dir'.head = dir.head /\ dir'.files = dir.files
          /\ dir'.tracking = IF dir.mapped THEN TrackingOf(remote) ELSE dir.tracking
          /\ call'[p].pc = "reset"
      BY <2>6 DEF Fetches
    <3>2. dir.tracking <= dir'.tracking /\ dir'.tracking <= TrackingOf(remote)
      BY <1>0, <2>0, <2>1, <3>1 DEF None
    <3>3. dir'.tracking \in {None, remote, dir.tracking}
      BY <2>1, <3>1
    <3>4. HeadsInOrder'
      BY <1>1, <2>0, <2>1, <3>1, <3>2 DEF HeadsInOrder, TrackingOf
    <3>5. ASSUME NEW q \in Callers
          PROVE  CloneInOrder(q)'
      <4>1. CASE q = p
        BY <3>1, <4>1 DEF CloneInOrder, At
      <4>2. CASE q # p
        BY <1>0, <1>1, <1>6, <3>1, <3>3, <4>2 DEF CloneInOrder, At, Mine
      <4> QED
        BY <4>1, <4>2
    <3>6. ASSUME NEW q \in Callers, At(q, "resetting")', Holds(q)'
          PROVE  ResetInOrder(q)'
      <4>1. q # p /\ call'[q] = call[q] /\ At(q, "resetting") /\ Holds(q)
        BY <1>1, <1>6, <3>1, <3>6 DEF At, Holds
      <4>2. \A r \in Callers : At(r, "cloning")' /\ Mine(r)' =>
              call'[r] = call[r] /\ At(r, "cloning") /\ Mine(r)
        BY <1>1, <1>6, <3>1 DEF At, Mine
      <4>3. call[q].target \in 1..MaxCommits
        BY <1>0, <4>1, CallShape DEF At
      <4>4. /\ dir.head <= call[q].target /\ call[q].target <= dir.tracking
            /\ dir.files \in {Partial, call[q].target}
            /\ \A r \in Callers : At(r, "cloning") /\ Mine(r) => call[r].target <= call[q].target
        BY <1>0, <4>1 DEF ResetInOrder
      <4>5. call[q].target <= dir'.tracking
        BY <2>0, <3>2, <4>3, <4>4
      <4> QED
        BY <3>1, <4>1, <4>2, <4>4, <4>5 DEF ResetInOrder
    <3> QED
      BY <1>2, <3>4, <3>5, <3>6 DEF IInv, ResetInOrder
  <2>7. CASE Locks(p)
    <3>1. HeadsInOrder'
      BY <1>1, <2>1, <2>7 DEF Locks, HeadsInOrder, TrackingOf
    <3>2. ASSUME NEW q \in Callers, Mine(q)'
          PROVE  CloneInOrder(q)'
      <4>1. CASE q = p
        BY <2>7, <4>1 DEF Locks, CloneInOrder, At
      <4>2. CASE q # p
        <5>1. Mine(q) /\ call'[q] = call[q]
          BY <1>1, <2>7, <3>2, <4>2 DEF Mine, Locks
        <5> QED
          BY <1>0, <1>1, <2>1, <2>7, <5>1 DEF CloneInOrder, At, Locks
      <4> QED
        BY <4>1, <4>2
    <3>3. ASSUME NEW q \in Callers, At(q, "resetting")', Holds(q)'
          PROVE  ResetInOrder(q)'
      <4>1. q = p /\ call'[p].target = dir.tracking
        BY <2>7, <3>3 DEF Holds, Locks
      <4>2. \A r \in Callers : At(r, "cloning")' /\ Mine(r)' =>
              call'[r] = call[r] /\ At(r, "cloning") /\ Mine(r)
        BY <1>1, <2>7 DEF At, Mine, Locks
      <4>3. \A r \in Callers : At(r, "cloning") /\ Mine(r) => call[r].target <= dir.tracking
        BY <1>0, <2>7 DEF CloneInOrder, Locks
      <4>4. dir'.head <= dir.tracking /\ dir.tracking <= dir'.tracking
              /\ dir'.files \in {Partial, dir.tracking}
        BY <2>0, <2>1, <2>7 DEF Locks
      <4> QED
        BY <4>1, <4>2, <4>3, <4>4 DEF ResetInOrder
    <3> QED
      BY <1>2, <3>1, <3>2, <3>3 DEF IInv, CloneInOrder, ResetInOrder
  <2>8. CASE Moves(p)
    <3>1. /\ At(p, "resetting") /\ Holds(p) /\ dir.lock = p /\ dir'.lock = Nobody
          /\ dir'.by = dir.by /\ dir'.mapped = dir.mapped /\ dir'.tracking = dir.tracking
          /\ dir'.head = call[p].target /\ call'[p].pc = "describe"
      BY <2>8 DEF Moves, Holds
    <3>2. call[p].target <= dir.tracking
      BY <1>0, <3>1 DEF ResetInOrder
    <3>3. HeadsInOrder'
      BY <1>1, <2>1, <3>1, <3>2 DEF HeadsInOrder, TrackingOf
    <3>4. ASSUME NEW q \in Callers
          PROVE  CloneInOrder(q)'
      <4>1. CASE q = p
        BY <3>1, <4>1 DEF CloneInOrder, At
      <4>2. CASE q # p
        BY <1>0, <1>1, <1>6, <3>1, <4>2 DEF CloneInOrder, At, Mine
      <4> QED
        BY <4>1, <4>2
    <3>5. \A q \in Callers : ResetInOrder(q)'
      BY <3>1 DEF ResetInOrder, Holds
    <3> QED
      BY <1>2, <3>3, <3>4, <3>5 DEF IInv
  <2> QED
    BY <1>1, <1>6, <2>2, <2>3, <2>4, <2>5, <2>6, <2>7, <2>8 DEF Effect, Makes
<1>7. CASE dir = Absent /\ dir' # Absent
  BY <1>1, <1>5, <1>7 DEF Effect, Stays, Releases, Lists, Writes, Completes, Fetches,
                          Locks, Moves
<1> QED
  BY <1>4, <1>6, <1>7

LEMMA NextIInv == IInv /\ [Next]_vars => IInv'
<1> SUFFICES ASSUME IInv, [Next]_vars PROVE IInv'
  OBVIOUS
<1> USE RepoAssumption
<1>1. CASE UNCHANGED vars
  BY <1>1 DEF vars, IInv, TypeOK, HeadsInOrder, TrackingOf, CloneInOrder, ResetInOrder,
              At, Mine, Holds
<1>2. CASE Push
  <2>1. /\ remote' \in 1..MaxCommits /\ remote' = remote + 1 /\ remote \in 1..MaxCommits
        /\ UNCHANGED <<dir, call, faults, kills>>
    BY <1>2 DEF Push, IInv, TypeOK
  <2>2. dir # Absent => dir.tracking \in Int
    BY DirShape DEF IInv, TypeOK
  <2>3. HeadsInOrder'
    BY <2>1, <2>2 DEF IInv, HeadsInOrder, TrackingOf
  <2>4. ASSUME NEW p \in Callers
        PROVE  CloneInOrder(p)'
    <3>1. At(p, "cloning") => call[p].target \in 1..MaxCommits
      BY CallShape DEF IInv, At
    <3> QED
      BY <2>1, <3>1 DEF IInv, CloneInOrder, At, Mine
  <2>5. \A p \in Callers : ResetInOrder(p)'
    BY <2>1 DEF IInv, ResetInOrder, At, Holds, Mine
  <2> QED
    BY <2>1, <2>3, <2>4, <2>5 DEF IInv, TypeOK
<1>3. CASE \E p \in Callers : Step(p)
  BY <1>3, StepIInv
<1> QED
  BY <1>1, <1>2, <1>3 DEF Next, Step, Callers

\* client.go:125-187, poller.go:105-159: type correctness, for any number of
\* callers, commits, faults and kills.
THEOREM TypeCorrect == Spec => []TypeOK
<1>1. IInv => TypeOK
  BY DEF IInv
<1> QED
  BY <1>1, InitIInv, NextIInv, PTL DEF Spec

\* client.go:143-177: HEAD of a clone never goes back to an older commit, however
\* many callers clone, remove, fetch and reset it at once, fail or are killed,
\* but by a git clone that was overtaken while it downloaded, whether or not Ref
\* is the default branch.
THEOREM NeverBack == Spec => HeadNeverBack
<1>1. ASSUME IInv, [Next]_vars, HeadKnown, dir' # Absent, ~ClonesHead
      PROVE  dir'.head >= dir.head
  <2>0. dir # Absent /\ dir \in Clone /\ dir.head \in Int
    BY <1>1, DirShape DEF IInv, TypeOK, HeadKnown
  <2>1. CASE dir' = dir
    BY <2>0, <2>1
  <2>2. CASE dir' # dir
    <3>1. PICK p \in Callers : Step(p)
      BY <1>1, <2>2 DEF Next, Step, Push, vars, Callers
    <3>2. Effect(p)
      BY <1>1, <3>1, StepEffect
    <3>3. ~Writes(p)
      BY <1>1 DEF Writes, ClonesHead
    <3>4. CASE Moves(p)
      BY <1>1, <3>4 DEF Moves, IInv, ResetInOrder, Holds
    <3>5. CASE ~Moves(p)
      <4>1. dir'.head = dir.head
        BY <1>1, <2>0, <2>2, <3>2, <3>3, <3>5 DEF Effect, Stays, Releases, Makes, Lists,
             Completes, Fetches, Locks
      <4> QED
        BY <2>0, <4>1
    <3> QED
      BY <3>4, <3>5
  <2> QED
    BY <2>1, <2>2
<1>2. IInv /\ [Next]_vars =>
        [HeadKnown /\ dir' # Absent /\ ~ClonesHead => dir'.head >= dir.head]_vars
  BY <1>1
<1> QED
  BY InitIInv, NextIInv, <1>2, PTL DEF Spec, HeadNeverBack

-----------------------------------------------------------------------------
(* What a CloneOrPull that succeeds leaves, when Ref is the default branch. *)

\* No caller clones or resets to an older commit than it was called for, and
\* the files it goes by are of none.
FreshCall(p) ==
  /\ call[p].pc # "idle" => call[p].since <= remote
  /\ call[p].pc \in {"cloning", "resetting"} => call[p].target >= call[p].since
  /\ At(p, "checkout") /\ Mine(p) =>
       dir.head >= call[p].since /\ dir.tracking >= call[p].since
  /\ At(p, "describe") /\ Whole => dir.files >= call[p].since

\* Once it has fetched, origin/Ref is no older, nor is what a git clone under
\* way will make of it.
FreshRefs(p) ==
  call[p].pc \in {"reset", "resetting", "describe"} /\ dir # Absent =>
    IF dir.tracking # None THEN dir.tracking >= call[p].since
    ELSE \A r \in Callers : At(r, "cloning") /\ Mine(r) => call[r].target >= call[p].since

\* Once it has its files, no reset or git clone under way will put older ones
\* there.
FreshFiles(p) ==
  At(p, "describe") /\ dir # Absent => \A r \in Callers :
    /\ At(r, "resetting") /\ Holds(r) => call[r].target >= call[p].since
    /\ dir.files = None /\ At(r, "cloning") /\ Mine(r) => call[r].target >= call[p].since
    /\ dir.files = None /\ At(r, "checkout") /\ Mine(r) => dir.head >= call[p].since

Fresh1(p) == FreshCall(p) /\ FreshRefs(p) /\ FreshFiles(p)

FreshInv == IInv /\ \A p \in Callers : Fresh1(p)

\* The caller that moves.
LEMMA MoverFresh ==
  ASSUME DefaultRef, FreshInv, NEW p \in Callers, Step(p)
  PROVE  Fresh1(p)'
<1> USE RepoAssumption
<1>0. /\ IInv /\ TypeOK /\ remote \in 1..MaxCommits /\ dir \in {Absent} \cup Clone
      /\ CloneInOrder(p) /\ ResetInOrder(p) /\ Fresh1(p)
  BY DEF FreshInv, IInv, TypeOK
<1>1. /\ Turns(p) /\ Effect(p) /\ remote' = remote /\ dir' \in {Absent} \cup Clone
  BY StepEffect, <1>0
<1>2. call'[p].pc # "idle" => /\ call'[p].since <= remote' /\ call'[p].since \in 1..MaxCommits
                              /\ call[p].pc # "idle" => call'[p].since = call[p].since
                              /\ call[p].pc # "idle" => call[p].since <= remote
  BY <1>0, <1>1, CallShape, IdleIsCall DEF Turns, Fresh1, FreshCall
<1>3. call[p].pc \in {"cloning", "resetting"} => call[p].target \in 1..MaxCommits
  BY <1>0, CallShape
<1>4. CASE Stays(p) \/ Makes(p)
  BY <1>2, <1>4 DEF Stays, Makes, Fresh1, FreshCall, FreshRefs, FreshFiles, At
<1>5. CASE Lists(p)
  <2>1. call'[p].target >= call'[p].since
    BY <1>0, <1>1, <1>2, <1>5 DEF Lists, At
  <2> QED
    BY <1>2, <1>5, <2>1 DEF Lists, Fresh1, FreshCall, FreshRefs, FreshFiles, At
<1>6. CASE Writes(p)
  <2> DEFINE t == call[p].target
  <2>1. /\ t >= call[p].since
        /\ dir.tracking = None \/ dir.tracking >= t
        /\ t \in 1..MaxCommits /\ dir \in Clone
    BY <1>0, <1>3, <1>6 DEF Writes, CloneInOrder, Mine, Fresh1, FreshCall, At
  <2>2. dir'.head = t /\ dir'.tracking >= t /\ dir'.tracking \in Int
    BY <1>6, <2>1, DirShape DEF Writes, HeadOf, TrackingOf
  <2>3. /\ call'[p].pc \in {"checkout", "idle"}
        /\ call'[p].pc = "checkout" => call'[p].since = call[p].since /\ call[p].since \in Int
    BY <1>2, <1>6 DEF Writes, At
  <2> HIDE DEF t
  <2>4. call'[p].pc = "checkout" =>
          dir'.head >= call'[p].since /\ dir'.tracking >= call'[p].since
    BY <2>1, <2>2, <2>3
  <2> QED
    BY <1>2, <2>3, <2>4 DEF Fresh1, FreshCall, FreshRefs, FreshFiles, At
<1>7. CASE Completes(p)
  <2>1. /\ call'[p].pc = "describe" /\ call'[p].since = call[p].since
        /\ call[p].since \in 1..MaxCommits
        /\ dir.head >= call[p].since /\ dir.tracking >= call[p].since
        /\ dir'.files = dir.head /\ dir'.tracking = dir.tracking
        /\ dir'.lock = Nobody /\ dir'.by = Nobody
    BY <1>0, <1>2, <1>7 DEF Completes, At, Fresh1, FreshCall, Mine
  <2>2. dir'.tracking # None
    BY <2>1 DEF None
  <2> QED
    BY <1>2, <2>1, <2>2 DEF Fresh1, FreshCall, FreshRefs, FreshFiles, At, Mine, Holds
<1>8. CASE Fetches(p)
  <2>1. call'[p].pc = "reset" /\ dir # Absent /\ dir' # Absent
    BY <1>8 DEF Fetches
  <2>2. call'[p].since = call[p].since
    <3>1. call[p].pc # "idle" \/ call'[p].pc \in {"check", "compare"}
      BY <1>1, <2>1 DEF Turns
    <3> QED
      BY <1>2, <2>1, <3>1
  <2>3. CASE dir.mapped
    BY <1>0, <1>1, <1>2, <1>8, <2>1, <2>3
    DEF Fetches, TrackingOf, None, Fresh1, FreshCall, FreshRefs, FreshFiles, At
  <2>4. CASE ~dir.mapped
    <3>1. dir'.by = dir.by /\ dir'.tracking = dir.tracking /\ dir.tracking = None
      BY <1>0, <1>8, <2>1, <2>4 DEF Fetches, IInv, HeadsInOrder
    <3>2. ASSUME NEW r \in Callers, At(r, "cloning")', Mine(r)'
          PROVE  FALSE
      <4>1. r # p /\ At(r, "cloning") /\ Mine(r)
        BY <1>1, <2>1, <3>1, <3>2 DEF Turns, At, Mine
      <4> QED
        BY <2>4, <4>1 DEF FreshInv, IInv, CloneInOrder
    <3> QED
      BY <1>2, <2>1, <3>1, <3>2 DEF Fresh1, FreshCall, FreshRefs, FreshFiles, At
  <2> QED
    BY <2>3, <2>4
<1>9. CASE Locks(p)
  <2>1. /\ call'[p].pc = "resetting" /\ call'[p].since = call[p].since
        /\ call'[p].target = dir.tracking /\ dir'.tracking = dir.tracking
        /\ dir.tracking # None
    BY <1>2, <1>9 DEF Locks, At
  <2>2. dir.tracking >= call[p].since
    BY <1>0, <1>9 DEF Locks, Fresh1, FreshRefs, At
  <2> QED
    BY <1>2, <2>1, <2>2 DEF Fresh1, FreshCall, FreshRefs, FreshFiles, At
<1>10. CASE Moves(p)
  <2>1. /\ call'[p].pc = "describe" /\ call'[p].since = call[p].since
        /\ dir'.files = call[p].target /\ dir'.tracking = dir.tracking
        /\ dir'.lock = Nobody /\ call[p].target \in 1..MaxCommits
        /\ At(p, "resetting") /\ Holds(p) /\ dir \in Clone
    BY <1>0, <1>2, <1>3, <1>10 DEF Moves, At, Holds
  <2>2. /\ call[p].target >= call[p].since /\ call[p].target <= dir.tracking
        /\ dir'.files # None
    BY <1>0, <2>1 DEF Fresh1, FreshCall, ResetInOrder, At, None
  <2>3. dir.tracking # None
    BY <2>1, <2>2, DirShape DEF None
  <2>4. dir.tracking >= call[p].since
    BY <1>0, <2>1, <2>3 DEF Fresh1, FreshRefs, At, Holds
  <2> QED
    BY <1>2, <2>1, <2>2, <2>3, <2>4
    DEF Fresh1, FreshCall, FreshRefs, FreshFiles, At, Holds
<1> QED
  BY <1>1, <1>4, <1>5, <1>6, <1>7, <1>8, <1>9, <1>10 DEF Effect

\* The callers that wait meanwhile.
LEMMA WaiterFresh ==
  ASSUME DefaultRef, FreshInv, NEW p \in Callers, Step(p), NEW q \in Callers, q # p
  PROVE  Fresh1(q)'
<1> USE RepoAssumption
<1>0. /\ IInv /\ TypeOK /\ remote \in 1..MaxCommits /\ dir \in {Absent} \cup Clone
      /\ FreshCall(q) /\ FreshRefs(q) /\ FreshFiles(q)
  BY DEF FreshInv, IInv, TypeOK, Fresh1
<1>1. /\ Turns(p) /\ Effect(p) /\ remote' = remote /\ dir' \in {Absent} \cup Clone
      /\ call'[q] = call[q] /\ \A r \in Callers \ {p} : call'[r] = call[r]
  BY StepEffect, <1>0 DEF Turns
<1>2. /\ call[q].pc # "idle" => call[q].since <= remote /\ call[q].since \in 1..MaxCommits
      /\ call[p].pc \in {"cloning", "resetting"} => call[p].target \in 1..MaxCommits
      /\ call[q].pc \in {"cloning", "resetting"} => call[q].target >= call[q].since
  BY <1>0, CallShape DEF FreshCall
<1>3. CASE dir' = Absent
  BY <1>1, <1>2, <1>3 DEF Fresh1, FreshCall, FreshRefs, FreshFiles, At, Mine, Whole
<1>4. CASE dir' # Absent /\ Stays(p)
  <2>1. /\ dir # Absent /\ dir'.tracking = dir.tracking /\ dir'.head = dir.head
        /\ dir'.by \in {dir.by, Nobody} /\ dir'.lock \in {dir.lock, Nobody, Orphan}
        /\ \/ dir'.files = dir.files
           \/ dir'.files = Partial
           \/ At(p, "resetting") /\ Holds(p) /\ dir'.files = call[p].target
        /\ call'[p].pc \notin {"cloning", "resetting", "checkout"}
    BY <1>4 DEF Stays, Releases
  <2>2. ASSUME NEW r \in Callers
        PROVE  /\ At(r, "cloning")' /\ Mine(r)' =>
                    call'[r] = call[r] /\ At(r, "cloning") /\ Mine(r)
               /\ At(r, "checkout")' /\ Mine(r)' => At(r, "checkout") /\ Mine(r)
               /\ At(r, "resetting")' /\ Holds(r)' =>
                    call'[r] = call[r] /\ At(r, "resetting") /\ Holds(r)
    BY <1>1, <1>4, <2>1 DEF At, Mine, Holds
  <2>3. dir'.files = None => dir.files = None
    BY <1>2, <2>1 DEF None, Partial, At
  <2>4. FreshCall(q)'
    <3>1. At(q, "describe") /\ Whole' => dir'.files >= call[q].since
      BY <1>0, <2>1 DEF FreshCall, FreshFiles, Whole
    <3> QED
      BY <1>0, <1>1, <1>2, <2>1, <2>2, <3>1 DEF FreshCall, At
  <2>5. FreshRefs(q)'
    BY <1>0, <1>1, <2>1, <2>2 DEF FreshRefs
  <2>6. FreshFiles(q)'
    BY <1>0, <1>1, <2>1, <2>2, <2>3 DEF FreshFiles, At
  <2> QED
    BY <2>4, <2>5, <2>6 DEF Fresh1
<1>5. CASE Makes(p)
  <2>1. \A r \in Callers : ~(At(r, "cloning")' /\ Mine(r)')
                             /\ ~(At(r, "checkout")' /\ Mine(r)') /\ ~Holds(r)'
    BY <1>1, <1>5 DEF Makes, At, Mine, Holds
  <2> QED
    BY <1>1, <1>2, <1>5, <2>1 DEF Makes, Fresh1, FreshCall, FreshRefs, FreshFiles, At, Whole
<1>6. CASE Lists(p)
  <2>1. /\ dir # Absent /\ dir' # Absent /\ dir'.tracking = dir.tracking
        /\ dir'.head = dir.head /\ dir'.files = dir.files /\ dir'.by = dir.by
        /\ dir'.lock = dir.lock /\ call'[p].pc = "cloning" /\ call'[p].target = remote
    BY <1>6 DEF Lists
  <2>2. ASSUME NEW r \in Callers
        PROVE  /\ At(r, "cloning")' /\ Mine(r)' =>
                    \/ call'[r] = call[r] /\ At(r, "cloning") /\ Mine(r)
                    \/ call'[r].target = remote
               /\ At(r, "checkout")' /\ Mine(r)' => At(r, "checkout") /\ Mine(r)
               /\ At(r, "resetting")' /\ Holds(r)' =>
                    call'[r] = call[r] /\ At(r, "resetting") /\ Holds(r)
    BY <1>1, <2>1 DEF At, Mine, Holds
  <2>3. FreshCall(q)'
    BY <1>0, <1>1, <1>2, <2>1, <2>2 DEF FreshCall, At, Whole
  <2>4. FreshRefs(q)'
    BY <1>0, <1>1, <1>2, <2>1, <2>2 DEF FreshRefs
  <2>5. FreshFiles(q)'
    BY <1>0, <1>1, <1>2, <2>1, <2>2 DEF FreshFiles, At
  <2> QED
    BY <2>3, <2>4, <2>5 DEF Fresh1
<1>7. CASE Writes(p)
  <2> DEFINE t == call[p].target
  <2>1. /\ dir # Absent /\ dir' # Absent /\ dir'.files = dir.files
        /\ At(p, "cloning") /\ Mine(p) /\ t \in 1..MaxCommits
        /\ dir'.head = t
        /\ dir'.tracking = IF dir.tracking = None THEN t ELSE dir.tracking
        /\ call'[p].pc \in {"checkout", "idle"}
        /\ dir'.by \in {p, Nobody} /\ dir'.lock \in {dir.lock, p}
    BY <1>2, <1>7 DEF Writes, Mine, At, HeadOf, TrackingOf
  <2>2. ASSUME NEW r \in Callers
        PROVE  /\ ~(At(r, "cloning")' /\ Mine(r)')
               /\ Mine(r)' => r = p
               /\ At(r, "resetting")' /\ Holds(r)' =>
                    call'[r] = call[r] /\ At(r, "resetting") /\ Holds(r)
    BY <1>1, <2>1 DEF At, Mine, Holds
  <2> HIDE DEF t
  <2>3. FreshCall(q)'
    BY <1>0, <1>1, <1>2, <2>1, <2>2 DEF FreshCall, At, Whole
  <2>4. FreshRefs(q)'
    <3>1. dir'.tracking # None
      BY <2>1 DEF None
    <3>2. call[q].pc \in {"reset", "resetting", "describe"} /\ dir.tracking = None =>
            t >= call[q].since
      BY <1>0, <2>1 DEF FreshRefs, t
    <3> QED
      BY <1>0, <1>1, <2>1, <3>1, <3>2 DEF FreshRefs
  <2>5. FreshFiles(q)'
    <3>1. At(q, "describe") /\ dir.files = None => t >= call[q].since
      BY <1>0, <2>1 DEF FreshFiles, t
    <3> QED
      BY <1>0, <1>1, <2>1, <2>2, <3>1 DEF FreshFiles, At
  <2> QED
    BY <2>3, <2>4, <2>5 DEF Fresh1
<1>8. CASE Completes(p)
  <2>1. /\ dir # Absent /\ dir' # Absent /\ dir'.files = dir.head /\ dir.files = None
        /\ At(p, "checkout") /\ Mine(p) /\ dir'.tracking = dir.tracking
        /\ dir'.by = Nobody /\ dir'.lock = Nobody
    BY <1>8 DEF Completes, Mine
  <2>2. \A r \in Callers : ~Mine(r)' /\ ~Holds(r)'
    BY <2>1 DEF Mine, Holds
  <2>3. At(q, "describe") => dir'.files >= call[q].since
    BY <1>0, <2>1 DEF FreshFiles
  <2> QED
    BY <1>0, <1>1, <1>2, <2>1, <2>2, <2>3 DEF Fresh1, FreshCall, FreshRefs, FreshFiles, At
<1>9. CASE Fetches(p)
  <2>1. /\ dir # Absent /\ dir' # Absent
        /\ dir'.head = dir.head /\ dir'.files = dir.files /\ dir'.by = dir.by
        /\ dir'.lock = dir.lock /\ call'[p].pc = "reset"
        /\ dir'.tracking \in {dir.tracking, remote}
    BY <1>9 DEF Fetches, TrackingOf
  <2>2. ASSUME NEW r \in Callers
        PROVE  /\ At(r, "cloning")' /\ Mine(r)' =>
                    call'[r] = call[r] /\ At(r, "cloning") /\ Mine(r)
               /\ At(r, "checkout")' /\ Mine(r)' => At(r, "checkout") /\ Mine(r)
               /\ At(r, "resetting")' /\ Holds(r)' =>
                    call'[r] = call[r] /\ At(r, "resetting") /\ Holds(r)
    BY <1>1, <2>1 DEF At, Mine, Holds
  <2>3. FreshCall(q)'
    BY <1>0, <1>1, <1>2, <2>1, <2>2 DEF FreshCall, At, Whole
  <2>4. FreshRefs(q)'
    <3>1. remote # None
      BY <1>0 DEF None
    <3>2. CASE dir'.tracking = remote
      BY <1>1, <1>2, <3>1, <3>2 DEF FreshRefs
    <3>3. CASE dir'.tracking = dir.tracking
      BY <1>0, <1>1, <2>1, <2>2, <3>3 DEF FreshRefs
    <3> QED
      BY <2>1, <3>2, <3>3
  <2>5. FreshFiles(q)'
    BY <1>0, <1>1, <2>1, <2>2 DEF FreshFiles, At
  <2> QED
    BY <2>3, <2>4, <2>5 DEF Fresh1
<1>10. CASE Locks(p)
  <2>1. /\ dir # Absent /\ dir' # Absent
        /\ dir'.head = dir.head /\ dir'.by = dir.by /\ dir'.lock = p
        /\ call'[p].pc = "resetting" /\ call'[p].target = dir.tracking
        /\ dir'.tracking = dir.tracking /\ dir.tracking # None
        /\ dir'.files = IF dir.files = dir.tracking THEN dir.files ELSE Partial
    BY <1>10 DEF Locks
  <2>2. ASSUME NEW r \in Callers
        PROVE  /\ At(r, "checkout")' /\ Mine(r)' => At(r, "checkout") /\ Mine(r)
               /\ At(r, "resetting")' /\ Holds(r)' => call'[r].target = dir.tracking
    BY <1>1, <2>1 DEF At, Mine, Holds
  <2>3. dir'.files # None
    BY <2>1 DEF None, Partial
  <2>4. FreshCall(q)'
    BY <1>0, <1>1, <1>2, <2>1, <2>2 DEF FreshCall, At, Whole
  <2>5. FreshRefs(q)'
    BY <1>0, <1>1, <2>1 DEF FreshRefs
  <2>6. FreshFiles(q)'
    BY <1>0, <1>1, <2>1, <2>2, <2>3 DEF FreshFiles, FreshRefs, At
  <2> QED
    BY <2>4, <2>5, <2>6 DEF Fresh1
<1>11. CASE Moves(p)
  <2>1. /\ dir # Absent /\ dir' # Absent /\ At(p, "resetting") /\ Holds(p)
        /\ dir'.by = dir.by /\ dir'.lock = Nobody /\ dir'.tracking = dir.tracking
        /\ dir'.files = call[p].target /\ call'[p].pc = "describe"
        /\ call[p].target \in 1..MaxCommits
    BY <1>2, <1>11 DEF Moves, Holds, At
  <2>2. ASSUME NEW r \in Callers
        PROVE  /\ At(r, "cloning")' /\ Mine(r)' =>
                    call'[r] = call[r] /\ At(r, "cloning") /\ Mine(r)
               /\ ~(At(r, "checkout")' /\ Mine(r)')
               /\ ~Holds(r)'
    <3>1. At(r, "checkout") /\ Mine(r) => dir.lock = r
      BY <1>0 DEF IInv, CloneInOrder
    <3> QED
      BY <1>1, <2>1, <3>1 DEF At, Mine, Holds
  <2>3. dir'.files # None
    BY <2>1 DEF None
  <2>4. At(q, "describe") => dir'.files >= call[q].since
    BY <1>0, <2>1 DEF FreshFiles
  <2>5. FreshCall(q)'
    BY <1>0, <1>1, <1>2, <2>1, <2>2, <2>4 DEF FreshCall, At
  <2>6. FreshRefs(q)'
    BY <1>0, <1>1, <2>1, <2>2 DEF FreshRefs
  <2>7. FreshFiles(q)'
    BY <2>2, <2>3 DEF FreshFiles
  <2> QED
    BY <2>5, <2>6, <2>7 DEF Fresh1
<1> QED
  BY <1>1, <1>3, <1>4, <1>5, <1>6, <1>7, <1>8, <1>9, <1>10, <1>11 DEF Effect

LEMMA FreshStep ==
  ASSUME DefaultRef, FreshInv, [Next]_vars
  PROVE  FreshInv'
<1>1. IInv'
  BY NextIInv DEF FreshInv
<1>2. CASE UNCHANGED vars
  BY <1>1, <1>2 DEF vars, FreshInv, Fresh1, FreshCall, FreshRefs, FreshFiles, At, Mine,
                    Holds, Whole
<1>3. CASE Push
  <2>1. /\ UNCHANGED <<dir, call>> /\ remote' = remote + 1 /\ remote \in 1..MaxCommits
        /\ TypeOK
    BY <1>3 DEF Push, FreshInv, IInv, TypeOK
  <2>2. ASSUME NEW p \in Callers
        PROVE  Fresh1(p)'
    <3>1. call[p].pc # "idle" => call[p].since <= remote /\ call[p].since \in 1..MaxCommits
      BY <2>1, CallShape DEF FreshInv, Fresh1, FreshCall
    <3>2. call[p].pc # "idle" => call[p].since <= remote'
      BY <2>1, <3>1
    <3> QED
      BY <2>1, <3>2 DEF FreshInv, Fresh1, FreshCall, FreshRefs, FreshFiles, At, Mine,
                        Holds, Whole
  <2> QED
    BY <1>1, <2>2 DEF FreshInv
<1>4. ASSUME NEW p \in Callers, Step(p)
      PROVE  FreshInv'
  BY <1>1, <1>4, MoverFresh, WaiterFresh DEF FreshInv
<1> QED
  BY <1>2, <1>3, <1>4 DEF Next, Step, Callers

LEMMA InitFresh == Init => FreshInv
<1> SUFFICES ASSUME Init PROVE FreshInv
  OBVIOUS
<1>1. \A p \in Callers : call[p].pc = "idle"
  BY DEF Init, Idle
<1> QED
  BY <1>1, InitIInv DEF FreshInv, Fresh1, FreshCall, FreshRefs, FreshFiles, At

\* client.go:146-162: whoever fetches, resets, clones or removes the directory
\* meanwhile, fails or is killed, a CloneOrPull that succeeds leaves the files of
\* no older commit than the remote had when it was called, for any number of
\* callers.
THEOREM FreshReturn ==
  ASSUME DefaultRef
  PROVE  Spec => ReturnsFresh
<1>1. Init => FreshInv
  BY InitFresh
<1>2. FreshInv /\ [Next]_vars => FreshInv'
  BY FreshStep
<1>3. FreshInv => \A p \in Callers : At(p, "describe") /\ Whole => dir.files >= call[p].since
  BY DEF FreshInv, Fresh1, FreshCall
<1>4. FreshInv /\ [Next]_vars =>
        [\A p \in Callers : Returns(p) /\ Whole => dir.files >= call[p].since]_vars
  BY <1>3 DEF Returns
<1> QED
  BY <1>1, <1>2, <1>4, PTL DEF Spec, ReturnsFresh

-----------------------------------------------------------------------------
(* SkillRepo implements Follower, when Ref is the default branch.           *)

\* A step that moves one caller changes what that caller waits for, no other.
LEMMA AskedAfter ==
  ASSUME TypeOK, NEW p \in Callers, Turns(p)
  PROVE  /\ Asked' = [Asked EXCEPT ![p] = AskedOf(call'[p])]
         /\ Asked[p] = AskedOf(call[p])
         /\ AskedOf(call'[p]) = AskedOf(call[p]) => Asked' = Asked
<1>1. Asked' = [q \in Callers |-> AskedOf(call'[q])]
  BY DEF Asked, AskedOf
<1>2. ASSUME NEW q \in Callers
      PROVE  AskedOf(call'[q]) = IF q = p THEN AskedOf(call'[p]) ELSE Asked[q]
  <2>1. CASE q = p
    BY <2>1
  <2>2. CASE q # p
    <3>1. call'[q] = call[q]
      BY <2>2 DEF Turns
    <3> QED
      BY <2>2, <3>1 DEF Asked
  <2> QED
    BY <2>1, <2>2
<1>3. Asked' = [Asked EXCEPT ![p] = AskedOf(call'[p])]
  BY <1>1, <1>2 DEF Asked
<1>4. Asked[p] = AskedOf(call[p])
  BY DEF Asked
<1>5. ASSUME AskedOf(call'[p]) = AskedOf(call[p])
      PROVE  Asked' = Asked
  <2>1. \A q \in Callers : AskedOf(call'[q]) = Asked[q]
    BY <1>2, <1>4, <1>5
  <2>2. Asked = [q \in Callers |-> Asked[q]]
    BY DEF Asked
  <2> QED
    BY <1>1, <2>1, <2>2
<1> QED
  BY <1>3, <1>4, <1>5

\* Success is told by Describe alone, and a caller that was told it goes.
LEMMA TellingSteps ==
  ASSUME TypeOK, NEW p \in Callers, Step(p)
  PROVE  /\ call'[p].pc = "ok" => At(p, "describe") /\ dir' = dir
         /\ At(p, "ok") => call'[p] = Idle /\ dir' = dir
         /\ At(p, "idle") => dir' = dir
<1>0. call \in [Callers -> Call]
  BY DEF TypeOK
<1>1. \/ Begin(p) \/ PollAsk(p) \/ GiveUp(p)
      \/ At(p, "describe") /\ dir' = dir /\ Goto(p, "ok")
      \/ \E s \in Busy \ {"ok"} : call[p].pc # "idle" /\ Goto(p, s)
      \/ \E s \in {"cloning", "resetting"}, t \in Int : Aim(p, s, t)
  <2>1. CASE CloneList(p) \/ ResetStart(p)
    <3>1. dir # Absent => dir.tracking \in Int
      BY DirShape DEF TypeOK
    <3> QED
      BY <2>1, <3>1 DEF CloneList, ResetStart, CanReset, TypeOK
  <2>2. CASE ~(CloneList(p) \/ ResetStart(p))
    BY <2>2 DEF Step, Proceed, PollCompare, Check, Remove, CloneInit, CloneRefused,
       CloneFetch, CloneDone, CloneSpoilt, CloneLost, Fetch, ResetDone, ResetBlocked,
       UpdateFails, Describe, Finish, Fault, Kill, KilledReturns, At, Busy
  <2> QED
    BY <2>1, <2>2
<1>2. call'[p].pc = "ok" => At(p, "describe") /\ dir' = dir
  <2>1. CASE Begin(p) \/ PollAsk(p) \/ GiveUp(p)
    BY <1>0, <2>1 DEF Begin, PollAsk, GiveUp, Idle
  <2>2. CASE \E s \in Busy \ {"ok"} : call[p].pc # "idle" /\ Goto(p, s)
    BY <2>2, GoesTo
  <2>3. CASE \E s \in {"cloning", "resetting"}, t \in Int : Aim(p, s, t)
    BY <1>0, <2>3 DEF Aim
  <2> QED
    BY <1>1, <2>1, <2>2, <2>3
<1>3. At(p, "ok") => Finish(p)
  BY DEF Step, Begin, PollAsk, Proceed, PollCompare, Check, Remove, CloneInit, CloneRefused,
     CloneList, CloneFetch, CloneDone, CloneSpoilt, CloneLost, Fetch, ResetStart, ResetDone,
     ResetBlocked, UpdateFails, Describe, Fault, Kill, KilledReturns, At, Idle
<1>4. At(p, "idle") => Begin(p) \/ PollAsk(p)
  BY DEF Step, Proceed, PollCompare, Check, Remove, CloneInit, CloneRefused,
     CloneList, CloneFetch, CloneDone, CloneSpoilt, CloneLost, Fetch, ResetStart, ResetDone,
     ResetBlocked, UpdateFails, Describe, Finish, Fault, Kill, KilledReturns, At
<1> QED
  BY <1>0, <1>2, <1>3, <1>4 DEF Finish, GiveUp, Begin, PollAsk

\* What is served stays, goes, or is brought where nothing was.
LEMMA ServedAfter ==
  ASSUME DefaultRef, FreshInv, NEW p \in Callers, Step(p)
  PROVE  \/ Served' \in {Served, None}
         \/ Served = None /\ Served' \in call[p].since..remote
<1> USE RepoAssumption
<1>0. /\ IInv /\ TypeOK /\ HeadsInOrder /\ dir \in {Absent} \cup Clone
      /\ remote \in 1..MaxCommits /\ Fresh1(p) /\ ResetInOrder(p)
  BY DEF FreshInv, IInv, TypeOK
<1>1. Effect(p)
  BY <1>0, StepEffect
<1>2. ASSUME At(p, "resetting"), Holds(p), dir' # Absent, dir'.files = call[p].target
      PROVE  Served' = Served \/ (Served = None /\ Served' \in call[p].since..remote)
  <2>1. /\ call[p].target \in 1..MaxCommits /\ call[p].since \in 1..MaxCommits
        /\ dir # Absent /\ dir \in Clone
    BY <1>0, <1>2, CallShape DEF At, Holds
  <2>2. /\ dir.files \in {Partial, call[p].target} /\ call[p].target <= dir.tracking
        /\ call[p].target >= call[p].since
    BY <1>0, <1>2 DEF ResetInOrder, Fresh1, FreshCall, At
  <2>3. dir.tracking <= remote /\ dir.tracking \in Int
    BY <1>0, <2>1, DirShape DEF HeadsInOrder, TrackingOf, None
  <2>4. call[p].target \in call[p].since..remote
    BY <1>0, <2>1, <2>2, <2>3
  <2>5. Served' = call[p].target
    BY <1>2, <2>1 DEF Served, Whole, None, Partial
  <2>6. Served \in {None, call[p].target}
    BY <2>2 DEF Served, Whole
  <2> QED
    BY <2>4, <2>5, <2>6
<1>3. CASE Stays(p)
  <2>1. CASE dir' \in {dir, Absent}
    BY <2>1 DEF Served, Whole
  <2>2. CASE Releases(p)
    BY <1>2, <2>2 DEF Releases, Served, Whole, Holds
  <2> QED
    BY <1>3, <2>1, <2>2 DEF Stays
<1>4. CASE Makes(p)
  BY <1>4 DEF Makes, Served, Whole
<1>5. CASE Lists(p) \/ Writes(p) \/ Fetches(p)
  BY <1>5 DEF Lists, Writes, Fetches, Served, Whole
<1>6. CASE Completes(p)
  <2>1. /\ dir # Absent /\ dir \in Clone /\ dir.files = None /\ dir' # Absent
        /\ dir'.files = dir.head /\ dir.head >= call[p].since
        /\ dir.head <= dir.tracking /\ dir.tracking <= remote
    BY <1>0, <1>6 DEF Completes, Fresh1, FreshCall, Mine, HeadsInOrder, TrackingOf
  <2>2. call[p].since \in 1..MaxCommits /\ dir.head \in Int /\ dir.tracking \in Int
    BY <1>0, <1>6, <2>1, CallShape, DirShape DEF Completes, At
  <2>3. dir.head \in call[p].since..remote /\ dir.head # None /\ dir.head # Partial
    BY <1>0, <2>1, <2>2 DEF None, Partial
  <2> QED
    BY <2>1, <2>3 DEF Served, Whole
<1>7. CASE Locks(p)
  BY <1>7 DEF Locks, Served, Whole
<1>8. CASE Moves(p)
  BY <1>2, <1>8 DEF Moves, Holds
<1> QED
  BY <1>1, <1>3, <1>4, <1>5, <1>6, <1>7, <1>8 DEF Effect

LEMMA StepFollows ==
  ASSUME DefaultRef, FreshInv, NEW p \in Callers, Step(p)
  PROVE  [Follow!Next]_Follow!followVars
<1>0. /\ IInv /\ TypeOK /\ FreshCall(p) /\ remote' = remote /\ Turns(p)
      /\ call'[p] \in Call
  BY StepEffect DEF FreshInv, IInv, Fresh1, Turns
<1>1. /\ Asked' = [Asked EXCEPT ![p] = AskedOf(call'[p])] /\ Asked[p] = AskedOf(call[p])
      /\ AskedOf(call'[p]) = AskedOf(call[p]) => Asked' = Asked
  BY <1>0, AskedAfter
<1>2. /\ call'[p].pc = "ok" => At(p, "describe") /\ dir' = dir
      /\ At(p, "ok") => call'[p] = Idle /\ dir' = dir
      /\ At(p, "idle") => dir' = dir
      /\ dir' = dir => Served' = Served
  BY <1>0, TellingSteps DEF Served, Whole
<1>3. \/ Served' \in {Served, None}
      \/ Served = None /\ Served' \in call[p].since..remote
  BY ServedAfter
<1>4. CASE call[p].pc = "idle" /\ call'[p].pc \in {"check", "compare"} /\ call'[p].since = remote
  <2>1. /\ AskedOf(call'[p]) = [phase |-> "asked", since |-> remote]
        /\ Asked[p] = Follow!Idle
    BY <1>1, <1>4 DEF AskedOf, Follow!Idle
  <2>2. Served' = Served
    BY <1>2, <1>4 DEF At
  <2> QED
    BY <1>0, <1>1, <2>1, <2>2 DEF Follow!Ask, Follow!Next
<1>5. CASE call[p].pc # "idle" /\ call'[p] = Idle
  <2>1. AskedOf(call'[p]) = Follow!Idle
    BY <1>5 DEF AskedOf, Idle, Follow!Idle
  <2>2. /\ Asked[p] # Follow!Idle /\ Asked[p].since = call[p].since
        /\ call[p].pc # "ok" => Asked[p].phase = "asked"
    BY <1>1, <1>5 DEF AskedOf, Follow!Idle
  <2>3. CASE call[p].pc = "ok"
    BY <1>0, <1>1, <1>2, <2>1, <2>2, <2>3 DEF Follow!Leave, Follow!Next, At
  <2>4. CASE call[p].pc # "ok"
    BY <1>0, <1>1, <1>3, <2>1, <2>2, <2>4 DEF Follow!Leave, Follow!Next
  <2> QED
    BY <2>3, <2>4
<1>6. CASE /\ call[p].pc # "idle" /\ call'[p].pc # "idle"
           /\ call'[p].since = call[p].since /\ call'[p] # Idle
  <2>1. call[p].pc # "ok"
    BY <1>2, <1>6 DEF At
  <2>2. Asked[p] = [phase |-> "asked", since |-> call[p].since]
    BY <1>1, <1>6, <2>1 DEF AskedOf
  <2>3. CASE call'[p].pc = "ok"
    <3>1. AskedOf(call'[p]) = [phase |-> "told", since |-> call[p].since]
      BY <1>6, <2>3 DEF AskedOf
    <3>2. Asked' = [Asked EXCEPT ![p].phase = "told"]
      <4>1. [Asked[p] EXCEPT !.phase = "told"] = [phase |-> "told", since |-> call[p].since]
        BY <2>2
      <4> QED
        BY <1>1, <3>1, <4>1
    <3>3. Served' = Served /\ (Served # None => Served >= call[p].since)
      BY <1>0, <1>2, <2>3 DEF FreshCall, Served
    <3>4. Follow!Succeed(p)
      BY <1>0, <2>2, <3>2, <3>3 DEF Follow!Succeed
    <3> QED
      BY <3>4 DEF Follow!Next
  <2>4. CASE call'[p].pc # "ok"
    <3>1. AskedOf(call'[p]) = [phase |-> "asked", since |-> call[p].since]
      BY <1>6, <2>4 DEF AskedOf
    <3>2. Asked' = Asked
      BY <1>1, <2>2, <3>1
    <3>3. CASE Served' = Served
      BY <1>0, <3>2, <3>3 DEF Follow!followVars
    <3>4. CASE Served' = None
      BY <1>0, <3>2, <3>4 DEF Follow!Lose, Follow!Next
    <3>5. CASE Served = None /\ Served' \in call[p].since..remote
      <4>1. Follow!Bring(p)
        BY <1>0, <2>2, <3>2, <3>5 DEF Follow!Bring
      <4> QED
        BY <4>1 DEF Follow!Next
    <3> QED
      BY <1>3, <3>3, <3>4, <3>5
  <2> QED
    BY <2>3, <2>4
<1> QED
  BY <1>0, <1>4, <1>5, <1>6, IdleIsCall DEF Turns

\* client.go:126: for any number of callers, commits, faults and kills one
\* directory that CloneOrPull works on serves what Follower promises.
THEOREM FollowsRemote ==
  ASSUME DefaultRef
  PROVE  Spec => ImplementsFollower
<1>1. Init => FreshInv
  BY InitFresh
<1>2. FreshInv /\ [Next]_vars => FreshInv'
  BY FreshStep
<1>3. ASSUME Init
      PROVE  Follow!Init
  <2>1. Served \in {None, remote} /\ remote = 1
    BY <1>3, RepoAssumption DEF Init, Served, Whole, HeadOf, None, Partial, Clone
  <2>2. Asked = [p \in Callers |-> Follow!Idle]
    BY <1>3 DEF Init, Asked, AskedOf, Idle, Follow!Idle
  <2> QED
    BY <2>1, <2>2 DEF Follow!Init
<1>4. ASSUME FreshInv, [Next]_vars
      PROVE  [Follow!Next]_Follow!followVars
  <2>1. CASE Push
    <3>1. remote' = remote + 1 /\ Served' = Served /\ Asked' = Asked
      BY <2>1 DEF Push, Served, Whole, Asked, AskedOf
    <3> QED
      BY <3>1 DEF Follow!Push, Follow!Next
  <2>2. CASE \E p \in Callers : Step(p)
    BY <1>4, <2>2, StepFollows
  <2>3. CASE UNCHANGED vars
    BY <2>3 DEF vars, Follow!followVars, Served, Whole, Asked, AskedOf
  <2> QED
    BY <1>4, <2>1, <2>2, <2>3 DEF Next, Step, Callers
<1> QED
  BY <1>1, <1>2, <1>3, <1>4, PTL DEF Spec, ImplementsFollower, Follow!Spec

-----------------------------------------------------------------------------
(* A caller that nobody disturbs.                                           *)

\* While a caller is left alone the directory is as its last step left it.
AloneInv ==
  \A p \in alone :
    /\ p \in Callers /\ call[p] # Idle
    /\ \A o \in Callers \ {p} : call[o] = Idle
    /\ At(p, "checkout") /\ Mine(p) => dir.head # None
    /\ At(p, "describe") => HeadKnown /\ dir.files = dir.head

LEMMA AloneStep ==
  ASSUME IInv, AloneInv, [MCNext]_mcvars
  PROVE  AloneInv'
<1> USE RepoAssumption
<1>1. CASE UNCHANGED mcvars
  BY <1>1 DEF mcvars, vars, AloneInv, At, Mine, HeadKnown
<1>2. ASSUME MCNext, NEW p \in alone'
      PROVE  /\ p \in Callers /\ call'[p] # Idle
             /\ \A o \in Callers \ {p} : call'[o] = Idle
             /\ At(p, "checkout")' /\ Mine(p)' => dir'.head # None
             /\ At(p, "describe")' => HeadKnown' /\ dir'.files = dir'.head
  <2>0. TypeOK
    BY DEF IInv
  <2>1. /\ p \in Callers /\ call'[p] # Idle
        /\ call[p] = Idle \/ p \in alone
        /\ \A o \in Callers \ {p} : call'[o] = Idle
    BY <1>2 DEF MCNext
  <2>2. call[p] # Idle =>
          /\ \A o \in Callers \ {p} : call[o] = Idle
          /\ At(p, "checkout") /\ Mine(p) => dir.head # None
          /\ At(p, "describe") => HeadKnown /\ dir.files = dir.head
    BY <2>1 DEF AloneInv
  <2>3. CASE Push
    BY <2>1, <2>2, <2>3 DEF Push, At, Mine, HeadKnown
  <2>4. ASSUME NEW q \in Callers, Step(q), q # p
        PROVE  FALSE
    <3>1. Turns(q)
      BY <2>4, StepEffect
    <3>2. call[p] # Idle
      BY <2>1, <2>4, <3>1 DEF Turns
    <3>3. call[q].pc = "idle" /\ call'[q].pc = "idle"
      BY <2>1, <2>2, <2>4, <3>2, IdleIsCall
    <3> QED
      BY <3>1, <3>3 DEF Turns
  <2>5. CASE Step(p)
    <3>0. Effect(p)
      BY <2>1, <2>5, StepEffect
    <3>1. CASE Stays(p) \/ Makes(p) \/ Lists(p) \/ Fetches(p) \/ Locks(p)
      BY <2>1, <3>1 DEF Stays, Makes, Lists, Fetches, Locks, At
    <3>2. CASE Writes(p)
      <4>1. call[p].target \in 1..MaxCommits
        BY <2>0, <2>1, <3>2, CallShape DEF Writes, At
      <4>2. dir'.head # None
        BY <3>2, <4>1 DEF Writes, HeadOf, None, Foreign
      <4> QED
        BY <2>1, <3>2, <4>2 DEF Writes, At
    <3>3. CASE Completes(p)
      <4>1. call[p] # Idle /\ dir.head # None
        BY <2>2, <3>3, IdleIsCall DEF Completes, At, Mine
      <4> QED
        BY <2>1, <3>3, <4>1 DEF Completes, At, HeadKnown
    <3>4. CASE Moves(p)
      <4>1. call[p].target \in 1..MaxCommits
        BY <2>0, <2>1, <3>4, CallShape DEF Moves, At
      <4> QED
        BY <2>1, <3>4, <4>1 DEF Moves, At, HeadKnown, None
    <3> QED
      BY <3>0, <3>1, <3>2, <3>3, <3>4 DEF Effect
  <2> QED
    BY <1>2, <2>3, <2>4, <2>5 DEF MCNext, Next, Step, Callers
<1>3. CASE MCNext
  BY <1>2, <1>3 DEF AloneInv
<1> QED
  BY <1>1, <1>3

\* client.go:143-177: whatever raced, failed or was killed before, a
\* CloneOrPull that succeeds without another beside it leaves a HEAD and all
\* the files of its commit, for any number of callers, commits and failures,
\* whether or not Ref is the default branch.
THEOREM ServesWhole == MCSpec => ServesClone
<1>1. MCInit => IInv /\ AloneInv
  BY InitIInv DEF MCInit, AloneInv
<1>2. IInv /\ AloneInv /\ [MCNext]_mcvars => IInv' /\ AloneInv'
  <2>1. [MCNext]_mcvars => [Next]_vars
    BY DEF MCNext, mcvars
  <2> QED
    BY <2>1, NextIInv, AloneStep
<1>3. AloneInv /\ [MCNext]_mcvars =>
        [\A p \in alone : Returns(p) => HeadKnown /\ dir.files = dir.head]_mcvars
  BY DEF AloneInv, Returns
<1> QED
  BY <1>1, <1>2, <1>3, PTL DEF MCSpec, ServesClone

-----------------------------------------------------------------------------
(* A Ref that is not the branch git clone chooses.                          *)

\* No origin/Ref is ever fetched, HEAD and the files are of the other branch,
\* and no reset gets under way.
NeverOfRef ==
  /\ dir # Absent => /\ dir.tracking = None /\ dir.head \in {None, Foreign}
                     /\ dir.files \in {None, Foreign, Partial}
  /\ \A p \in Callers : call[p].pc # "resetting"

\* client.go:156, 169: git clone --single-branch knows the default branch only,
\* and the reset is to origin/Ref.  With another Ref the clone never serves a
\* commit of it and no update ever gets as far as its reset, whatever the
\* interleaving: the failure the run skill_other_ref finds is not one of timing.
THEOREM OtherRefNeverServed ==
  ASSUME ~DefaultRef
  PROVE  Spec => []NeverOfRef
<1> USE RepoAssumption
<1>1. Init => NeverOfRef
  BY DEF Init, NeverOfRef, TrackingOf, HeadOf, Idle
<1>2. ASSUME IInv, NeverOfRef, NEW p \in Callers, Step(p)
      PROVE  NeverOfRef'
  <2>1. Effect(p) /\ Turns(p)
    BY <1>2, StepEffect
  <2>2. call[p].pc # "resetting" /\ (dir # Absent => dir.tracking = None)
    BY <1>2 DEF NeverOfRef
  <2>3. ~Locks(p) /\ ~Moves(p)
    BY <2>2 DEF Locks, Moves, At
  <2>4. call'[p].pc # "resetting"
    BY <2>1, <2>3, IdleIsCall DEF Effect, Stays, Makes, Lists, Writes, Completes, Fetches
  <2>5. \A q \in Callers : call'[q].pc # "resetting"
    BY <1>2, <2>1, <2>4 DEF Turns, NeverOfRef
  <2>6. dir' # Absent => /\ dir'.tracking = None /\ dir'.head \in {None, Foreign}
                         /\ dir'.files \in {None, Foreign, Partial}
    BY <1>2, <2>1, <2>2, <2>3 DEF NeverOfRef, Effect, Stays, Releases, Makes, Lists, Writes,
       Completes, Fetches, TrackingOf, HeadOf, At
  <2> QED
    BY <2>5, <2>6 DEF NeverOfRef
<1>3. IInv /\ NeverOfRef /\ [Next]_vars => NeverOfRef'
  BY <1>2 DEF Next, Step, Callers, Push, vars, NeverOfRef
<1> QED
  BY <1>1, <1>3, InitIInv, NextIInv, PTL DEF Spec
=============================================================================
