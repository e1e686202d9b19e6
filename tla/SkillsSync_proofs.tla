------------------------- MODULE SkillsSync_proofs -------------------------
(***************************************************************************)
(* What a run of skills-sync tells is true, for any number of skills,      *)
(* slots, runs and faults.                                                 *)
(***************************************************************************)
EXTENDS SkillsSync, FiniteSetTheorems, TLAPS

\* The skills that were counted, with either result.
Counted(s) == work[s].at \in {"counted", "done"}
Good == {s \in Skills : Counted(s) /\ work[s].good}
Bad == {s \in Skills : Counted(s) /\ ~work[s].good}

Counts == ok = Cardinality(Good) /\ fail = Cardinality(Bad)

GoodIsCloned == \A s \in Skills : work[s].good => disk[s] = "clone"

\* No goroutine has a result before it has ended.
ResultAtEnd ==
  \A s \in Skills : work[s].good => work[s].at \in {"ended", "counted", "done"}

\* Goroutines run only while run waits for them, what is written is known only
\* at the end, and the success marker ends all runs.
Stages ==
  /\ pc # "wait" => AllDone
  /\ pc \in {"fetch", "sync"} => ok = 0 /\ fail = 0
  /\ pc \in {"fetch", "sync", "wait"} => ~failure
  /\ pc \notin {"failed", "mark"} => message = Absent
  /\ pc = "failed" => message = Says("errors")
  /\ marker # Absent => pc = "off"

FailureTold == failure /\ pc = "mark" => message.what = "errors"

IInv ==
  /\ TypeOK /\ Counts /\ GoodIsCloned /\ ResultAtEnd /\ Stages
  /\ SummaryTrue /\ FailureTold /\ FailureIsOfThisRun

LEMMA SaysIsMessage ==
  /\ \A w \in {"skipped", "errors", "no skills", "completed", "torn"} :
       /\ Says(w) \in Messages /\ Says(w) # Absent
       /\ Says(w).what = w
  /\ \A n \in Nat \ {0} :
       /\ [what |-> "failures", n |-> n] \in Messages
       /\ [what |-> "failures", n |-> n] # Absent
<1>1. ASSUME NEW w \in {"skipped", "errors", "no skills", "completed", "torn"}
      PROVE  Says(w) \in Messages /\ Says(w).what = w
  <2>1. Says(w) \in [what : {"skipped", "errors", "no skills", "completed", "torn"}]
    BY DEF Says
  <2> QED
    BY <2>1 DEF Says, Messages
<1>2. ASSUME NEW n \in Nat \ {0}
      PROVE  [what |-> "failures", n |-> n] \in Messages
  <2>1. [what |-> "failures", n |-> n] \in [what : {"failures"}, n : Nat \ {0}]
    OBVIOUS
  <2> QED
    BY <2>1 DEF Messages
<1> QED
  BY <1>1, <1>2, AbsentAssumption

LEMMA NobodyCounted ==
  ASSUME \A s \in Skills : ~Counted(s)
  PROVE  Cardinality(Good) = 0 /\ Cardinality(Bad) = 0
<1>1. Good = {} /\ Bad = {}
  BY DEF Good, Bad
<1> QED
  BY <1>1, FS_EmptySet

LEMMA CountedFinite ==
  /\ IsFiniteSet(Good) /\ Cardinality(Good) \in Nat
  /\ IsFiniteSet(Bad) /\ Cardinality(Bad) \in Nat
<1>1. Good \subseteq Skills /\ Bad \subseteq Skills
  BY DEF Good, Bad
<1> QED
  BY <1>1, FS_Subset, FS_CardinalityType, SyncAssumption

LEMMA InitIInv == Init => IInv
<1> SUFFICES ASSUME Init PROVE IInv
  OBVIOUS
<1>1. \A s \in Skills : work[s].at = "none" /\ work[s].good = FALSE
  BY DEF Init, NoWork
<1>2. TypeOK
  <2>1. work \in [Skills -> [at : {"none", "waiting", "running", "ended", "counted", "done"},
                             good : BOOLEAN]]
    BY DEF Init, NoWork
  <2>2. disk \in [Skills -> Dirs]
    BY DEF Init, Dirs
  <2>3. runs \in 0..MaxRuns /\ writeFaults \in 0..MaxWriteFaults
    BY SyncAssumption DEF Init
  <2> QED
    BY <2>1, <2>2, <2>3 DEF Init, TypeOK
<1>3. Counts
  BY <1>1, NobodyCounted DEF Init, Counts, Counted
<1>4. GoodIsCloned /\ ResultAtEnd
  BY <1>1 DEF GoodIsCloned, ResultAtEnd
<1>5. Stages
  BY <1>1 DEF Init, Stages, AllDone
<1>6. SummaryTrue /\ FailureTold /\ FailureIsOfThisRun
  BY DEF Init, SummaryTrue, FailureTold, FailureIsOfThisRun
<1> QED
  BY <1>2, <1>3, <1>4, <1>5, <1>6 DEF IInv

-----------------------------------------------------------------------------
\* What the steps of a goroutine have in common: they come while run waits, when
\* nothing is told and no marker is there, and s goes on from a to b.
LEMMA GoroutineStep ==
  ASSUME IInv, NEW s \in Skills, ~AllDone,
         NEW b \in {"running", "ended", "counted", "done"}, NEW g \in BOOLEAN,
         Goes(s, b, g),
         UNCHANGED <<marker, failure, pc, message, over, counters>>,
         disk' \in [Skills -> Dirs],
         \A r \in Skills : disk'[r] = disk[r] \/ (r = s /\ ~work[s].good),
         g => b # "running" /\ disk'[s] = "clone",
         ok' \in Nat, fail' \in Nat, Counts'
  PROVE  IInv'
<1>0. /\ TypeOK /\ pc = "wait" /\ marker = Absent /\ message = Absent /\ ~failure
  BY DEF IInv, Stages
<1>1. \A r \in Skills : work'[r] = IF r = s THEN [at |-> b, good |-> g] ELSE work[r]
  BY <1>0 DEF Goes, TypeOK
<1>2. TypeOK'
  BY <1>0 DEF TypeOK, Goes, counters
<1>3. GoodIsCloned'
  BY <1>1 DEF IInv, GoodIsCloned
<1>4. ResultAtEnd'
  BY <1>1 DEF IInv, ResultAtEnd
<1>5. Stages'
  BY <1>0 DEF Stages
<1>6. SummaryTrue' /\ FailureTold' /\ FailureIsOfThisRun'
  BY <1>0 DEF SummaryTrue, FailureTold, FailureIsOfThisRun
<1> QED
  BY <1>2, <1>3, <1>4, <1>5, <1>6 DEF IInv

\* A step of a goroutine that does not count leaves the counts right.
LEMMA SameTold ==
  ASSUME TypeOK, Counts, NEW s \in Skills, NEW b, NEW g, Goes(s, b, g),
         UNCHANGED <<ok, fail>>,
         \/ work[s].at \notin {"counted", "done"} /\ b \notin {"counted", "done"}
         \/ work[s].at = "counted" /\ b = "done" /\ g = work[s].good
  PROVE  Counts'
<1>1. \A r \in Skills : work'[r] = IF r = s THEN [at |-> b, good |-> g] ELSE work[r]
  BY DEF Goes, TypeOK
<1>2. \A r \in Skills : r # s => work'[r] = work[r]
  BY <1>1
<1>3. work'[s].at = b /\ work'[s].good = g
  BY <1>1
<1>4. ASSUME NEW r \in Skills
      PROVE  /\ Counted(r)' <=> Counted(r)
             /\ Counted(r) => (work'[r].good <=> work[r].good)
  BY <1>2, <1>3 DEF Counted
<1>5. Good' = Good /\ Bad' = Bad
  BY <1>4 DEF Good, Bad
<1> QED
  BY <1>5 DEF Counts

LEMMA AcquireStep == ASSUME IInv, NEW s \in Skills, Acquire(s) PROVE IInv'
<1>1. ~AllDone /\ work[s].at = "waiting" /\ ~work[s].good
  BY DEF Acquire, AllDone, IInv, ResultAtEnd
<1>2. Goes(s, "running", FALSE) /\ UNCHANGED <<ok, fail, disk>>
  BY DEF Acquire, files
<1>3. Counts'
  BY <1>1, <1>2, SameTold DEF IInv
<1> QED
  BY <1>1, <1>2, <1>3, GoroutineStep DEF Acquire, files, IInv, TypeOK

LEMMA ClonedStep ==
  ASSUME IInv, NEW s \in Skills, Cloned(s) \/ CloneFails(s) PROVE IInv'
<1>1. ~AllDone /\ work[s].at = "running" /\ ~work[s].good
  BY DEF Cloned, CloneFails, AllDone, IInv, ResultAtEnd
<1>2. disk \in [Skills -> Dirs] /\ ok \in Nat /\ fail \in Nat
  BY DEF IInv, TypeOK
<1>3. CASE Cloned(s)
  <2>1. Goes(s, "ended", TRUE) /\ UNCHANGED <<ok, fail>>
    BY <1>3 DEF Cloned
  <2>2. Counts'
    BY <1>1, <2>1, SameTold DEF IInv
  <2> QED
    BY <1>1, <1>2, <1>3, <2>1, <2>2, GoroutineStep DEF Cloned, Dirs
<1>4. CASE CloneFails(s)
  <2>1. Goes(s, "ended", FALSE) /\ UNCHANGED <<ok, fail>>
    BY <1>4 DEF CloneFails
  <2>2. Counts'
    BY <1>1, <2>1, SameTold DEF IInv
  <2>3. PICK left \in Dirs : disk' = [disk EXCEPT ![s] = left]
    BY <1>2, <1>4 DEF CloneFails, LeftBy, Dirs
  <2> QED
    BY <1>1, <1>2, <1>4, <2>1, <2>2, <2>3, GoroutineStep DEF CloneFails
<1> QED
  BY <1>3, <1>4

LEMMA CountStep == ASSUME IInv, NEW s \in Skills, CountResult(s) PROVE IInv'
<1> DEFINE g == work[s].good
<1>1. ~AllDone /\ work[s].at = "ended"
  BY DEF CountResult, AllDone
<1>2. TypeOK /\ g \in BOOLEAN /\ Goes(s, "counted", g) /\ disk' = disk
  BY DEF IInv, TypeOK, CountResult, files
<1>3. \A r \in Skills : work'[r] = IF r = s THEN [at |-> "counted", good |-> g] ELSE work[r]
  BY <1>2 DEF Goes, TypeOK
<1>4. \A r \in Skills : r # s =>
        (Counted(r)' <=> Counted(r)) /\ (work'[r].good <=> work[r].good)
  BY <1>3 DEF Counted
<1>5. ~Counted(s) /\ Counted(s)' /\ (work'[s].good <=> g)
  BY <1>1, <1>3 DEF Counted
<1>6. ok \in Nat /\ fail \in Nat /\ ok = Cardinality(Good) /\ fail = Cardinality(Bad)
  BY DEF IInv, TypeOK, Counts
<1>7. Counts' /\ ok' \in Nat /\ fail' \in Nat
  <2>1. CASE g
    <3>1. Good' = Good \cup {s} /\ s \notin Good /\ Bad' = Bad
      BY <2>1, <1>4, <1>5 DEF Good, Bad
    <3>2. Cardinality(Good') = Cardinality(Good) + 1
      BY <3>1, CountedFinite, FS_AddElement
    <3>3. ok' = ok + 1 /\ fail' = fail
      BY <2>1 DEF CountResult
    <3> QED
      BY <3>1, <3>2, <3>3, <1>6 DEF Counts
  <2>2. CASE ~g
    <3>1. Bad' = Bad \cup {s} /\ s \notin Bad /\ Good' = Good
      BY <2>2, <1>4, <1>5 DEF Good, Bad
    <3>2. Cardinality(Bad') = Cardinality(Bad) + 1
      BY <3>1, CountedFinite, FS_AddElement
    <3>3. fail' = fail + 1 /\ ok' = ok
      BY <2>2 DEF CountResult
    <3> QED
      BY <3>1, <3>2, <3>3, <1>6 DEF Counts
  <2> QED
    BY <2>1, <2>2
<1> QED
  BY <1>1, <1>2, <1>7, GoroutineStep DEF CountResult, files, IInv, TypeOK, GoodIsCloned

LEMMA LeaveStep == ASSUME IInv, NEW s \in Skills, Leave(s) PROVE IInv'
<1>1. ~AllDone /\ work[s].at = "counted" /\ work[s].good \in BOOLEAN
  BY DEF Leave, AllDone, IInv, TypeOK
<1>2. Goes(s, "done", work[s].good) /\ UNCHANGED <<ok, fail, disk>>
  BY DEF Leave, files
<1>3. Counts'
  BY <1>1, <1>2, SameTold DEF IInv
<1> QED
  BY <1>1, <1>2, <1>3, GoroutineStep DEF Leave, files, IInv, TypeOK, GoodIsCloned

-----------------------------------------------------------------------------
\* The steps of run that leave the goroutines alone, and at whose end the
\* stages and what is told are in order.
LEMMA RunStep ==
  ASSUME IInv, TypeOK', UNCHANGED <<disk, work, ok, fail>>,
         Stages', SummaryTrue', FailureTold', FailureIsOfThisRun'
  PROVE  IInv'
<1>1. Counts'
  BY DEF IInv, Counts, Good, Bad, Counted
<1>2. GoodIsCloned' /\ ResultAtEnd'
  BY DEF IInv, GoodIsCloned, ResultAtEnd
<1> QED
  BY <1>1, <1>2 DEF IInv

\* The steps that set the goroutines back, with nothing told.
LEMMA ResetStep ==
  ASSUME IInv, TypeOK', ok' = 0, fail' = 0,
         \A s \in Skills : work'[s].at \in {"none", "waiting"} /\ ~work'[s].good,
         Stages', SummaryTrue', FailureTold', FailureIsOfThisRun'
  PROVE  IInv'
<1>1. Good' = {} /\ Bad' = {}
  BY DEF Good, Bad, Counted
<1>2. Counts'
  BY <1>1, FS_EmptySet DEF Counts
<1>3. GoodIsCloned' /\ ResultAtEnd'
  BY DEF GoodIsCloned, ResultAtEnd
<1> QED
  BY <1>2, <1>3 DEF IInv

LEMMA NoWorkIs ==
  /\ NoWork \in [Skills -> [at : {"none", "waiting", "running", "ended", "counted", "done"},
                            good : BOOLEAN]]
  /\ \A s \in Skills : NoWork[s].at = "none" /\ ~NoWork[s].good
BY DEF NoWork

LEMMA StartStep == ASSUME IInv, Skip \/ Start PROVE IInv'
<1>0. TypeOK /\ Stages /\ SummaryTrue /\ FailureTold /\ FailureIsOfThisRun
  BY DEF IInv
<1>1. CASE Skip
  <2>1. TypeOK'
    BY <1>0, <1>1, SyncAssumption DEF Skip, TypeOK, files
  <2>2. Stages'
    BY <1>0, <1>1 DEF Skip, Stages, AllDone, files
  <2>3. SummaryTrue' /\ FailureTold' /\ FailureIsOfThisRun'
    BY <1>0, <1>1 DEF Skip, SummaryTrue, Listed, FailureTold, FailureIsOfThisRun, files
  <2> QED
    BY <1>1, <2>1, <2>2, <2>3, RunStep DEF Skip, files
<1>2. CASE Start
  <2>0. /\ work' = NoWork /\ marker = Absent /\ marker' = Absent /\ failure' = FALSE
        /\ \/ pc' = "mark" /\ message' = Says("skipped")
           \/ pc' = "fetch" /\ message' = Absent
    BY <1>2 DEF Start
  <2>1. TypeOK'
    <3>1. runs' \in 0..MaxRuns /\ writeFaults' \in 0..MaxWriteFaults
      BY <1>0, <1>2, SyncAssumption DEF Start, TypeOK
    <3>2. message' \in {Absent} \cup Messages
      BY <2>0, SaysIsMessage
    <3>3. ok' \in Nat /\ fail' \in Nat /\ over' \in BOOLEAN /\ disk' = disk
      BY <1>2 DEF Start
    <3> QED
      BY <1>0, <2>0, <3>1, <3>2, <3>3, NoWorkIs DEF TypeOK
  <2>2. Stages'
    BY <1>2, <2>0, NoWorkIs DEF Start, Stages, AllDone
  <2>3. SummaryTrue'
    BY <2>0, SaysIsMessage DEF SummaryTrue
  <2>4. FailureTold' /\ FailureIsOfThisRun'
    BY <2>0 DEF FailureTold, FailureIsOfThisRun
  <2> QED
    BY <1>2, <2>0, <2>1, <2>2, <2>3, <2>4, NoWorkIs, ResetStep DEF Start
<1> QED
  BY <1>1, <1>2

LEMMA FetchStep ==
  ASSUME IInv, FetchFails \/ \E list \in SUBSET Entries : Fetch(list)
  PROVE  IInv'
<1>0. TypeOK /\ Stages
  BY DEF IInv
<1>1. /\ pc \in {"fetch", "sync"} /\ marker = Absent /\ ~failure /\ message = Absent
      /\ AllDone
  BY <1>0 DEF Stages, FetchFails, Fetch
<1>2. UNCHANGED <<files, work, ok, fail, over, counters>>
  BY DEF FetchFails, Fetch
<1>3. \/ pc' = "failed" /\ message' = Says("errors")
      \/ pc' = "mark" /\ message' = Says("no skills")
      \/ pc = "fetch" /\ pc' = "sync" /\ message' = Absent
  BY <1>1 DEF FetchFails, Fetch
<1>4. TypeOK'
  BY <1>0, <1>2, <1>3, SaysIsMessage DEF TypeOK, files, counters
<1>5. Stages'
  BY <1>0, <1>1, <1>2, <1>3 DEF Stages, AllDone, files
<1>6. SummaryTrue'
  BY <1>1, <1>2, <1>3, SaysIsMessage DEF SummaryTrue, files
<1>7. FailureTold' /\ FailureIsOfThisRun'
  BY <1>1, <1>2 DEF FailureTold, FailureIsOfThisRun, files
<1> QED
  BY <1>2, <1>4, <1>5, <1>6, <1>7, RunStep DEF files

LEMMA SyncAllStep ==
  ASSUME IInv, \E list \in SUBSET Entries : SyncAll(list) PROVE IInv'
<1>0. TypeOK /\ Stages
  BY DEF IInv
<1>1. PICK list \in SUBSET Entries : SyncAll(list)
  OBVIOUS
<1>2. \A s \in Skills : work'[s].at \in {"none", "waiting"} /\ ~work'[s].good
  BY <1>1 DEF SyncAll
<1>3. /\ pc' = "wait" /\ marker = Absent /\ message = Absent /\ ~failure
      /\ ok = 0 /\ fail = 0
      /\ UNCHANGED <<marker, failure, disk, message, ok, fail, over, runs, writeFaults>>
  BY <1>0, <1>1 DEF SyncAll, Stages, files, counters
<1>4. work' \in [Skills -> [at : {"none", "waiting", "running", "ended", "counted", "done"},
                            good : BOOLEAN]]
  BY <1>1 DEF SyncAll
<1>5. TypeOK'
  BY <1>0, <1>3, <1>4 DEF TypeOK
<1>6. Stages'
  BY <1>3 DEF Stages
<1>7. SummaryTrue' /\ FailureTold' /\ FailureIsOfThisRun'
  BY <1>3 DEF SummaryTrue, FailureTold, FailureIsOfThisRun
<1> QED
  BY <1>2, <1>3, <1>5, <1>6, <1>7, ResetStep

LEMMA FinishStep == ASSUME IInv, Finish PROVE IInv'
<1>0. TypeOK /\ Stages /\ Counts /\ GoodIsCloned
  BY DEF IInv
<1>1. /\ pc = "wait" /\ marker = Absent /\ ~failure /\ AllDone /\ pc' = "mark"
      /\ UNCHANGED <<files, work, ok, fail, over, counters>>
      /\ message' = IF fail > 0 THEN [what |-> "failures", n |-> fail] ELSE Says("completed")
  BY <1>0 DEF Finish, Stages
<1>2. message' \in Messages
  <2>1. CASE fail > 0
    <3>1. fail \in Nat \ {0}
      BY <1>0, <2>1 DEF TypeOK
    <3> QED
      BY <1>1, <2>1, <3>1, SaysIsMessage
  <2>2. CASE ~(fail > 0)
    BY <1>1, <2>2, SaysIsMessage
  <2> QED
    BY <2>1, <2>2
<1>3. TypeOK'
  BY <1>0, <1>1, <1>2 DEF TypeOK, files, counters
<1>4. Stages'
  BY <1>1 DEF Stages, AllDone, files
<1>5. SummaryTrue'
  <2>1. CASE fail > 0
    <3>1. Bad = {s \in Skills : work[s] = [at |-> "done", good |-> FALSE]}
      <4>1. \A s \in Skills :
              /\ work[s] = [at |-> work[s].at, good |-> work[s].good]
              /\ work[s].good \in BOOLEAN /\ work[s].at \in {"none", "done"}
        BY <1>0, <1>1 DEF TypeOK, AllDone
      <4>2. \A s \in Skills :
              (Counted(s) /\ ~work[s].good) <=> work[s] = [at |-> "done", good |-> FALSE]
        <5> TAKE s \in Skills
        <5>1. CASE Counted(s) /\ ~work[s].good
          <6>1. work[s].at = "done" /\ work[s].good = FALSE
            BY <4>1, <5>1 DEF Counted
          <6> QED
            BY <4>1, <5>1, <6>1
        <5>2. CASE work[s] = [at |-> "done", good |-> FALSE]
          BY <5>2 DEF Counted
        <5> QED
          BY <5>1, <5>2
      <4> QED
        BY <4>2 DEF Bad
    <3>2. message' = [what |-> "failures", n |-> fail] /\ message'.what # "completed"
      BY <1>1, <2>1
    <3>3. fail = Cardinality({s \in Skills : work[s] = [at |-> "done", good |-> FALSE]})
      BY <1>0, <3>1 DEF Counts
    <3> QED
      BY <1>1, <3>2, <3>3 DEF SummaryTrue, files
  <2>2. CASE ~(fail > 0)
    <3>1. Cardinality(Bad) = 0
      BY <1>0, <2>2 DEF Counts, TypeOK
    <3>2. Bad = {}
      BY <3>1, CountedFinite, FS_EmptySet
    <3>3. \A s \in Skills : Counted(s) => work[s].good
      BY <3>2 DEF Bad
    <3>4. Listed = Good
      <4>1. \A s \in Skills : work[s].at # "none" <=> Counted(s)
        BY <1>1 DEF AllDone, Counted
      <4> QED
        BY <4>1, <3>3 DEF Listed, Good
    <3>5. \A s \in Listed : work[s].good /\ disk[s] = "clone"
      BY <1>0, <3>4 DEF Good, GoodIsCloned
    <3>6. ok = Cardinality(Listed)
      BY <1>0, <3>4 DEF Counts
    <3>7. message'.what = "completed"
      BY <1>1, <2>2, SaysIsMessage
    <3>8. Listed' = Listed /\ work' = work /\ disk' = disk /\ ok' = ok /\ marker' = Absent
      BY <1>1 DEF Listed, files
    <3> QED
      BY <3>5, <3>6, <3>7, <3>8 DEF SummaryTrue
  <2> QED
    BY <2>1, <2>2
<1>6. FailureTold' /\ FailureIsOfThisRun'
  BY <1>1 DEF FailureTold, FailureIsOfThisRun, files
<1> QED
  BY <1>1, <1>3, <1>4, <1>5, <1>6, RunStep DEF files

LEMMA WriteStep == ASSUME IInv, WriteFailure \/ WriteMarker PROVE IInv'
<1>0. TypeOK /\ Stages /\ SummaryTrue /\ FailureTold /\ FailureIsOfThisRun
  BY DEF IInv
<1>1. marker = Absent /\ AllDone
  BY <1>0 DEF Stages, WriteFailure, WriteMarker
<1>2. UNCHANGED <<disk, work, ok, fail, over, runs>>
  BY DEF WriteFailure, WriteMarker
<1>3. writeFaults' \in 0..MaxWriteFaults
  BY <1>0, SyncAssumption DEF WriteFailure, WriteMarker, TypeOK
<1>4. CASE WriteFailure
  <2>1. /\ pc = "failed" /\ pc' = "mark" /\ message = Says("errors")
        /\ marker' = Absent /\ message' = message /\ failure' \in BOOLEAN
    BY <1>0, <1>1, <1>4 DEF WriteFailure, Stages, TypeOK
  <2>2. TypeOK'
    BY <1>0, <1>2, <1>3, <2>1 DEF TypeOK
  <2>3. Stages'
    BY <1>0, <1>1, <1>2, <2>1 DEF Stages, AllDone
  <2>4. SummaryTrue' /\ FailureTold' /\ FailureIsOfThisRun'
    BY <2>1, SaysIsMessage DEF SummaryTrue, FailureTold, FailureIsOfThisRun
  <2> QED
    BY <1>2, <2>2, <2>3, <2>4, RunStep
<1>5. CASE WriteMarker
  <2>1. /\ pc = "mark" /\ pc' = "off" /\ message' = Absent /\ failure' = failure
        /\ marker' \in {Absent, message, Says("torn")}
    BY <1>1, <1>5 DEF WriteMarker
  <2>2. TypeOK'
    BY <1>0, <1>2, <1>3, <2>1, SaysIsMessage DEF TypeOK
  <2>3. Stages'
    BY <1>1, <1>2, <2>1 DEF Stages, AllDone
  <2>4. SummaryTrue'
    <3>1. Listed' = Listed
      BY <1>2 DEF Listed
    <3> QED
      BY <1>0, <1>2, <2>1, <3>1, SaysIsMessage DEF SummaryTrue
  <2>5. FailureTold' /\ FailureIsOfThisRun'
    BY <1>0, <2>1, SaysIsMessage DEF FailureTold, FailureIsOfThisRun
  <2> QED
    BY <1>2, <2>2, <2>3, <2>4, <2>5, RunStep
<1> QED
  BY <1>4, <1>5

LEMMA CrashStep == ASSUME IInv, Crash PROVE IInv'
<1>0. TypeOK /\ Stages
  BY DEF IInv
<1>1. /\ marker = Absent /\ marker' \in {Absent, Says("torn")} /\ message' = Absent
      /\ pc' = "off" /\ work' = NoWork /\ ok' = 0 /\ fail' = 0 /\ over' = FALSE
      /\ disk' \in [Skills -> Dirs]
      /\ failure' \in BOOLEAN /\ UNCHANGED <<runs, writeFaults>>
  BY <1>0 DEF Crash, Stages, TypeOK, counters
<1>2. TypeOK'
  BY <1>0, <1>1, NoWorkIs, SaysIsMessage DEF TypeOK
<1>3. Stages'
  BY <1>1, NoWorkIs DEF Stages, AllDone
<1>4. SummaryTrue' /\ FailureTold' /\ FailureIsOfThisRun'
  BY <1>1, SaysIsMessage DEF SummaryTrue, FailureTold, FailureIsOfThisRun
<1> QED
  BY <1>1, <1>2, <1>3, <1>4, NoWorkIs, ResetStep

\* Steps that change neither the goroutines nor what is told.
LEMMA QuietStep == ASSUME IInv, Deadline \/ UNCHANGED vars PROVE IInv'
<1>0. TypeOK /\ Stages /\ SummaryTrue /\ FailureTold /\ FailureIsOfThisRun
  BY DEF IInv
<1>1. over' \in BOOLEAN /\ UNCHANGED <<files, pc, message, work, ok, fail, counters>>
  BY <1>0 DEF Deadline, vars, TypeOK
<1>2. TypeOK'
  BY <1>0, <1>1 DEF TypeOK, files, counters
<1>3. Stages'
  BY <1>0, <1>1 DEF Stages, AllDone, files
<1>4. SummaryTrue' /\ FailureTold' /\ FailureIsOfThisRun'
  BY <1>0, <1>1 DEF SummaryTrue, Listed, FailureTold, FailureIsOfThisRun, files
<1> QED
  BY <1>1, <1>2, <1>3, <1>4, RunStep DEF files

-----------------------------------------------------------------------------
LEMMA Inductive == Spec => []IInv
<1>1. Init => IInv
  BY InitIInv
<1>2. IInv /\ [Next]_vars => IInv'
  <2> SUFFICES ASSUME IInv, [Next]_vars PROVE IInv'
    OBVIOUS
  <2>1. CASE Skip \/ Start
    BY <2>1, StartStep
  <2>2. CASE Crash
    BY <2>2, CrashStep
  <2>3. CASE FetchFails \/ \E list \in SUBSET Entries : Fetch(list)
    BY <2>3, FetchStep
  <2>4. CASE \E list \in SUBSET Entries : SyncAll(list)
    BY <2>4, SyncAllStep
  <2>5. CASE Finish
    BY <2>5, FinishStep
  <2>6. CASE WriteFailure \/ WriteMarker
    BY <2>6, WriteStep
  <2>7. CASE \E s \in Skills : Acquire(s)
    BY <2>7, AcquireStep
  <2>8. CASE \E s \in Skills : Cloned(s) \/ CloneFails(s)
    BY <2>8, ClonedStep
  <2>9. CASE \E s \in Skills : CountResult(s)
    BY <2>9, CountStep
  <2>10. CASE \E s \in Skills : Leave(s)
    BY <2>10, LeaveStep
  <2>11. CASE Deadline \/ UNCHANGED vars
    BY <2>11, QuietStep
  <2> QED
    BY <2>1, <2>2, <2>3, <2>4, <2>5, <2>6, <2>7, <2>8, <2>9, <2>10, <2>11
       DEF Next, Proceed
<1> QED
  BY <1>1, <1>2, PTL DEF Spec

\* The state of main.go's run and of SyncAll keeps its type.
THEOREM TypeCorrect == Spec => []TypeOK
<1>1. IInv => TypeOK
  BY DEF IInv
<1> QED
  BY Inductive, <1>1, PTL

\* client.go:293-315: okCount and failCount, and what main.go:103-108 writes of
\* them, are true of the clones, with any number of skills and slots.
THEOREM SummaryIsTrue == Spec => []SummaryTrue
<1>1. IInv => SummaryTrue
  BY DEF IInv
<1> QED
  BY Inductive, <1>1, PTL

\* main.go:67-68: the failure marker of one run does not outlive the start of
\* the next that writes a success marker.
THEOREM FailureIsTrue == Spec => []FailureIsOfThisRun
<1>1. IInv => FailureIsOfThisRun
  BY DEF IInv
<1> QED
  BY Inductive, <1>1, PTL
=============================================================================
