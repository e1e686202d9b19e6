----------------------------- MODULE SkillsSync -----------------------------
(***************************************************************************)
(* The command skills-sync (cmd/skills-sync/main.go) and Client.SyncAll of *)
(* internal/skillsclient/client.go: one workspace, its two marker files,   *)
(* and the runs of the command on it, one after another.  A run may be     *)
(* killed at any point; the next begins from the files it left.            *)
(*                                                                         *)
(* What CloneOrPull does to one directory is the matter of SkillRepo; here *)
(* a directory is absent, a complete clone, begun, which a later fetch and *)
(* reset may complete, or broken: a killed git has left the index or HEAD  *)
(* locked, or no refs, and every later CloneOrPull fails.                  *)
(***************************************************************************)
EXTENDS Integers, FiniteSets

CONSTANTS Skills,         \* entries the list may have, with a name and a path
          Blank,          \* entries without a name or a path
          MaxConcurrent,  \* the argument of SyncAll
          MaxRuns,        \* bound of the runs, for TLC only
          MaxWriteFaults, \* bound of the marker files not written, for TLC only
          Absent

Entries == Skills \cup Blank

ASSUME SyncAssumption ==
  /\ IsFiniteSet(Skills)
  /\ MaxConcurrent \in Int
  /\ MaxRuns \in Nat /\ MaxWriteFaults \in Nat

\* client.go:284.
Slots == IF MaxConcurrent <= 0 THEN 20 ELSE MaxConcurrent

\* What .skills_initialized may say.
Messages == [what : {"skipped", "errors", "no skills", "completed", "torn"}]
              \cup [what : {"failures"}, n : Nat \ {0}]

Says(w) == [what |-> w]

ASSUME AbsentAssumption == Absent \notin Messages

VARIABLES marker,   \* .skills_initialized
          failure,  \* whether .skills_initialization_failed is there
          disk,     \* the directory of each skill, as in Dirs
          pc,       \* where the run is
          message,  \* what it is about to write
          work,     \* the goroutine of each skill
          ok, fail, \* okCount, failCount
          over,     \* whether the deadline of ten minutes has passed
          runs, writeFaults

files == <<marker, failure, disk>>
counters == <<runs, writeFaults>>
vars == <<files, pc, message, work, ok, fail, over, counters>>

Dirs == {"absent", "begun", "clone", "broken"}

NoWork == [s \in Skills |-> [at |-> "none", good |-> FALSE]]

Init ==
  /\ marker = Absent
  /\ failure = FALSE
  /\ disk \in [Skills -> {"absent", "clone"}]
  /\ pc = "off"
  /\ message = Absent
  /\ work = NoWork
  /\ ok = 0 /\ fail = 0
  /\ over = FALSE
  /\ runs = 0 /\ writeFaults = 0

-----------------------------------------------------------------------------
\* A run finds a marker and does nothing.
Skip ==
  /\ pc = "off" /\ marker # Absent
  /\ runs < MaxRuns /\ runs' = runs + 1
  /\ UNCHANGED <<files, pc, message, work, ok, fail, over, writeFaults>>

\* Mutant: the failure marker of an earlier run stays.
StartKeepsFailure ==
  /\ pc = "off" /\ marker = Absent
  /\ runs < MaxRuns /\ runs' = runs + 1
  /\ work' = NoWork /\ ok' = 0 /\ fail' = 0 /\ over' = FALSE
  /\ \/ pc' = "mark" /\ message' = Says("skipped")
     \/ pc' = "fetch" /\ message' = Absent
  /\ UNCHANGED <<files, writeFaults>>

\* None is there: the failure marker goes, and the run begins if it has its
\* environment.
Start ==
  /\ pc = "off" /\ marker = Absent
  /\ runs < MaxRuns /\ runs' = runs + 1
  /\ failure' = FALSE
  /\ work' = NoWork /\ ok' = 0 /\ fail' = 0 /\ over' = FALSE
  /\ \/ pc' = "mark" /\ message' = Says("skipped")
     \/ pc' = "fetch" /\ message' = Absent
  /\ UNCHANGED <<marker, disk, writeFaults>>

\* FetchSkills fails, in run or in SyncAll, at the latest after its timeout.
FetchFails ==
  /\ pc \in {"fetch", "sync"}
  /\ pc' = "failed" /\ message' = Says("errors")
  /\ UNCHANGED <<files, work, ok, fail, over, counters>>

\* The list that run asks for.
Fetch(list) ==
  /\ pc = "fetch" /\ ~over
  /\ IF list = {} THEN pc' = "mark" /\ message' = Says("no skills")
                  ELSE pc' = "sync" /\ UNCHANGED message
  /\ UNCHANGED <<files, work, ok, fail, over, counters>>

\* The list that SyncAll asks for again, which may be another one: a goroutine
\* for every skill of it that has a name and a path, if there is any.
SyncAll(list) ==
  /\ pc = "sync" /\ ~over
  /\ pc' = "wait"
  /\ work' = [s \in Skills |->
                [at |-> IF s \in list THEN "waiting" ELSE "none", good |-> FALSE]]
  /\ UNCHANGED <<files, message, ok, fail, over, counters>>

-----------------------------------------------------------------------------
(* The goroutine of a skill.                                               *)

Goes(s, at, good) == work' = [work EXCEPT ![s] = [at |-> at, good |-> good]]

\* Who has a slot of the semaphore.
Holders == {s \in Skills : work[s].at \in {"running", "ended", "counted"}}

Acquire(s) ==
  /\ work[s].at = "waiting"
  /\ Cardinality(Holders) < Slots
  /\ Goes(s, "running", FALSE)
  /\ UNCHANGED <<files, pc, message, ok, fail, over, counters>>

\* CloneOrPull succeeds; it does not mend what is broken.
Cloned(s) ==
  /\ work[s].at = "running"
  /\ ~over /\ disk[s] # "broken"
  /\ disk' = [disk EXCEPT ![s] = "clone"]
  /\ Goes(s, "ended", TRUE)
  /\ UNCHANGED <<marker, failure, pc, message, ok, fail, over, counters>>

\* What git leaves if it does not succeed: the directory as it was, some of a
\* clone or of a reset, or, if it is killed, perhaps a broken directory.
LeftBy(s, killed) ==
  IF disk[s] = "broken" THEN {"broken"}
  ELSE {disk[s], "begun"} \cup IF killed THEN {"broken"} ELSE {}

\* It fails; after the deadline git has been killed wherever it was.
CloneFails(s) ==
  /\ work[s].at = "running"
  /\ \E left \in LeftBy(s, over) : disk' = [disk EXCEPT ![s] = left]
  /\ Goes(s, "ended", FALSE)
  /\ UNCHANGED <<marker, failure, pc, message, ok, fail, over, counters>>

\* okCount or failCount, under mu.
CountResult(s) ==
  /\ work[s].at = "ended"
  /\ IF work[s].good THEN ok' = ok + 1 /\ UNCHANGED fail
                     ELSE fail' = fail + 1 /\ UNCHANGED ok
  /\ Goes(s, "counted", work[s].good)
  /\ UNCHANGED <<files, pc, message, over, counters>>

\* Mutant: a goroutine whose clone has failed keeps its slot.
LeaveIfGood(s) ==
  /\ work[s].at = "counted" /\ work[s].good
  /\ Goes(s, "done", work[s].good)
  /\ UNCHANGED <<files, pc, message, ok, fail, over, counters>>

\* The deferred calls: the slot is free again, and wg.Done.
Leave(s) ==
  /\ work[s].at = "counted"
  /\ Goes(s, "done", work[s].good)
  /\ UNCHANGED <<files, pc, message, ok, fail, over, counters>>

Deadline ==
  /\ pc # "off" /\ ~over
  /\ over' = TRUE
  /\ UNCHANGED <<files, pc, message, work, ok, fail, counters>>

\* Mutant: wg.Add is left to the goroutines.
AllDoneOnceStarted == \A s \in Skills : work[s].at \in {"none", "waiting", "done"}

\* wg.Wait returns.
AllDone == \A s \in Skills : work[s].at \in {"none", "done"}

\* Mutant: the number of failures is told even if it is zero.
FinishTellsFailures ==
  /\ pc = "wait" /\ AllDone
  /\ pc' = "mark"
  /\ message' = [what |-> "failures", n |-> fail]
  /\ UNCHANGED <<files, work, ok, fail, over, counters>>

Finish ==
  /\ pc = "wait" /\ AllDone
  /\ pc' = "mark"
  /\ message' = IF fail > 0 THEN [what |-> "failures", n |-> fail]
                            ELSE Says("completed")
  /\ UNCHANGED <<files, work, ok, fail, over, counters>>

-----------------------------------------------------------------------------
(* writeMarker, whose errors are dropped.                                  *)

WriteFailure ==
  /\ pc = "failed"
  /\ \/ failure' = TRUE /\ UNCHANGED writeFaults
     \/ /\ writeFaults < MaxWriteFaults /\ writeFaults' = writeFaults + 1
        /\ UNCHANGED failure
  /\ pc' = "mark"
  /\ UNCHANGED <<marker, disk, message, work, ok, fail, over, runs>>

\* The run ends with it.
WriteMarker ==
  /\ pc = "mark"
  /\ \/ marker' = message /\ UNCHANGED writeFaults
     \/ /\ writeFaults < MaxWriteFaults /\ writeFaults' = writeFaults + 1
        /\ marker' \in {marker, Says("torn")}
  /\ pc' = "off" /\ message' = Absent
  /\ UNCHANGED <<failure, disk, work, ok, fail, over, runs>>

\* The process is killed, and its gits with it.
Crash ==
  /\ pc # "off"
  /\ pc' = "off" /\ message' = Absent
  /\ work' = NoWork /\ ok' = 0 /\ fail' = 0 /\ over' = FALSE
  /\ disk' \in {d \in [Skills -> Dirs] :
                  \A s \in Skills :
                    \/ d[s] = disk[s]
                    \/ work[s].at = "running" /\ d[s] \in LeftBy(s, TRUE)}
  /\ marker' \in {marker} \cup IF pc = "mark" THEN {Says("torn")} ELSE {}
  /\ failure' \in {failure, failure \/ pc = "failed"}
  /\ UNCHANGED counters

-----------------------------------------------------------------------------
\* What happens without the help of git or the API.
Proceed ==
  \/ FetchFails \/ Deadline \/ Finish \/ WriteFailure \/ WriteMarker
  \/ \E s \in Skills : Acquire(s) \/ CountResult(s) \/ Leave(s)

Next ==
  \/ Skip \/ Start \/ Crash \/ Proceed
  \/ \E list \in SUBSET Entries : Fetch(list) \/ SyncAll(list)
  \/ \E s \in Skills : Cloned(s) \/ CloneFails(s)

Spec == Init /\ [][Next]_vars

\* Each step of the program ends, FetchSkills by its timeout.  A CloneOrPull
\* need not: at the deadline git is killed, but CombinedOutput waits until the
\* last of git's children has closed its output.
FairSpec ==
  /\ Spec
  /\ WF_vars(FetchFails) /\ WF_vars(Deadline) /\ WF_vars(Finish)
  /\ WF_vars(WriteFailure) /\ WF_vars(WriteMarker)
  /\ \A s \in Skills :
       WF_vars(Acquire(s)) /\ WF_vars(CountResult(s)) /\ WF_vars(Leave(s))

-----------------------------------------------------------------------------
\* The skills of SyncAll's list.
Listed == {s \in Skills : work[s].at # "none"}

TypeOK ==
  /\ marker \in {Absent} \cup Messages
  /\ failure \in BOOLEAN
  /\ disk \in [Skills -> Dirs]
  /\ pc \in {"off", "fetch", "sync", "wait", "failed", "mark"}
  /\ message \in {Absent} \cup Messages
  /\ work \in [Skills ->
       [at : {"none", "waiting", "running", "ended", "counted", "done"},
        good : BOOLEAN]]
  /\ ok \in Nat /\ fail \in Nat
  /\ over \in BOOLEAN
  /\ runs \in 0..MaxRuns /\ writeFaults \in 0..MaxWriteFaults

\* client.go:293-315, main.go:103-108: what a run tells is true.  If it says
\* that all went well, each skill of SyncAll's list has a complete clone and
\* was counted once, and the failures it tells are as many as the goroutines
\* that failed, whichever way they waited, failed, or were killed at the
\* deadline or in earlier runs.
SummaryTrue ==
  \A m \in {marker, message} \ {Absent} :
    /\ m.what = "completed" =>
         /\ \A s \in Listed : work[s].good /\ disk[s] = "clone"
         /\ ok = Cardinality(Listed)
    /\ m.what = "failures" =>
         m.n = Cardinality({s \in Skills : work[s] = [at |-> "done", good |-> FALSE]})

\* main.go:43, 67-68: the failure marker beside the success marker means that
\* the run which wrote that one had failed to fetch the list; one that an
\* earlier run left before it was killed has gone.
FailureIsOfThisRun ==
  failure /\ marker # Absent => marker.what \in {"errors", "torn"}

\* main.go:60, client.go:300-313: every run ends, whoever fails and though all
\* slots may be taken, unless some CloneOrPull never returns: the deadline kills
\* its git, and bounds the run only if that lets go of its output.
RunEnds ==
  \/ \E s \in Skills : <>[](work[s].at = "running")
  \/ pc # "off" ~> pc = "off"
=============================================================================
