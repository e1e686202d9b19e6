------------------------- MODULE SkillsMount_proofs -------------------------
(***************************************************************************)
(* What the end of a mount in skills mode says, for any number of users,   *)
(* changes of the list and failures.                                       *)
(***************************************************************************)
EXTENDS SkillsMount, TLAPS

\* What run has brought about when it has come to a line, and the server when
\* it has ended.
Reached ==
  /\ main = "start" => ~mounted
  /\ main \in {"unmount", "wait", "exit 0"} => signal
  /\ main \in {"wait", "exit 0"} => ~mounted
  /\ serve = "nil" => ~mounted /\ ~Busy
  /\ main = "exit 0" => serve = "nil"
  /\ main = "exit 1" /\ mounted => Busy

IInv == TypeOK /\ Reached

Uses ==
  [pc : {"idle", "using"}]
    \cup [pc : {"asking"}, category : Categories]
    \cup [pc : {"told"}, category : Categories, list : 1..MaxVersions]

LEMMA InitIInv == Init => IInv
<1> SUFFICES ASSUME Init PROVE IInv
  OBVIOUS
<1> USE MountAssumption
<1>1. TypeOK
  <2>1. cache \in [Categories -> None..MaxVersions] /\ api \in 1..MaxVersions /\ faults \in 0..MaxFaults
    BY DEF Init, None
  <2>2. use \in [Users -> Uses]
    BY DEF Init, Uses, Idle
  <2>3. poller \in [pc : {"idle", "asking", "stopped"}]
                    \cup [pc : {"official", "user"}, list : 1..MaxVersions]
    BY DEF Init, Idle
  <2> QED
    BY <2>1, <2>2, <2>3 DEF Init, TypeOK, Uses
<1>2. Reached
  BY DEF Init, Reached
<1> QED
  BY <1>1, <1>2 DEF IInv

LEMMA PutTypes ==
  ASSUME TypeOK, NEW c, NEW v \in None..MaxVersions, Put(c, v)
  PROVE  cache' \in [Categories -> None..MaxVersions]
<1>1. cache \in [Categories -> None..MaxVersions]
  BY DEF TypeOK
<1>2. None \in None..MaxVersions
  BY MountAssumption DEF None
<1> QED
  BY <1>1, <1>2 DEF Put

\* The steps of users: a request begins only when the server runs.
LEMMA UserStep ==
  ASSUME IInv, NEW u \in Users,
         \/ \E c \in Categories : Hit(u, c) \/ Miss(u, c)
         \/ Requests(u) \/ Close(u)
  PROVE  IInv'
<1> USE MountAssumption
<1>0. /\ TypeOK /\ Reached /\ Serving
      /\ UNCHANGED <<conf, api, poller, process>>
  BY DEF IInv, Hit, Miss, Requests, Answer, AnswerFails, Store, Close, lists
<1>1. faults' \in 0..MaxFaults
  <2>1. faults \in 0..MaxFaults
    BY <1>0 DEF TypeOK
  <2>2. faults' = faults \/ Fault
    BY DEF Hit, Miss, Requests, Answer, AnswerFails, Store, Close
  <2> QED
    BY <2>1, <2>2 DEF Fault
<1>2. PICK s : use' = [use EXCEPT ![u] = s] /\ s \in Uses
  <2>1. use[u] \in Uses
    BY <1>0 DEF TypeOK, Uses
  <2>2. use[u].pc = "told" => use[u].list \in 1..MaxVersions /\ use[u].category \in Categories
    BY <2>1 DEF Uses
  <2>3. use[u].pc = "asking" => use[u].category \in Categories
    BY <2>1 DEF Uses
  <2>4. Idle \in Uses /\ [pc |-> "using"] \in Uses
    BY DEF Uses, Idle
  <2>5. \A c \in Categories : [pc |-> "asking", category |-> c] \in Uses
    BY DEF Uses
  <2>6. \A c \in Categories : [pc |-> "told", category |-> c, list |-> api] \in Uses
    BY <1>0 DEF Uses, TypeOK
  <2>7. CASE \E c \in Categories : Hit(u, c) \/ Miss(u, c)
    BY <2>4, <2>5, <2>7 DEF Hit, Miss, Becomes
  <2>8. CASE Answer(u)
    BY <2>3, <2>6, <2>8 DEF Answer, Becomes
  <2>9. CASE AnswerFails(u) \/ Store(u) \/ Close(u)
    BY <2>4, <2>9 DEF AnswerFails, Store, Close, Becomes
  <2> QED
    BY <2>7, <2>8, <2>9 DEF Requests
<1>3. cache' \in [Categories -> None..MaxVersions]
  <2>1. CASE Store(u)
    <3>1. use[u] \in Uses
      BY <1>0 DEF TypeOK, Uses
    <3>2. use[u].list \in None..MaxVersions
      BY <2>1, <3>1 DEF Store, Uses, None
    <3> QED
      BY <1>0, <2>1, <3>2, PutTypes DEF Store
  <2>2. CASE ~Store(u)
    BY <1>0, <2>2 DEF TypeOK, Hit, Miss, Requests, Answer, AnswerFails, Close, lists
  <2> QED
    BY <2>1, <2>2
<1>4. TypeOK'
  BY <1>0, <1>1, <1>2, <1>3 DEF TypeOK, Uses, process
<1>5. Reached'
  BY <1>0 DEF Reached, Serving, Ended, process
<1> QED
  BY <1>4, <1>5 DEF IInv

\* The steps of the list and its poller.
LEMMA PollerStep ==
  ASSUME IInv, Change \/ PollSteps PROVE IInv'
<1> USE MountAssumption
<1>0. TypeOK /\ Reached /\ UNCHANGED <<conf, use, process>>
  BY DEF IInv, Change, PollSteps, Poll, PollAnswer, PollFails, SetOfficial, SetUser, PollerStops
<1>1. api' \in 1..MaxVersions /\ faults' \in 0..MaxFaults
  <2>1. api \in 1..MaxVersions /\ faults \in 0..MaxFaults
    BY <1>0 DEF TypeOK
  <2>2. faults' = faults \/ Fault
    BY DEF Change, PollSteps, Poll, PollAnswer, PollFails, SetOfficial, SetUser, PollerStops
  <2>3. api' = api \/ (api < MaxVersions /\ api' = api + 1)
    BY DEF Change, PollSteps, Poll, PollAnswer, PollFails, SetOfficial, SetUser, PollerStops, lists
  <2> QED
    BY <2>1, <2>2, <2>3 DEF Fault
<1>2. poller.pc \in {"official", "user"} => poller.list \in 1..MaxVersions
  BY <1>0 DEF TypeOK
<1>3. poller' \in [pc : {"idle", "asking", "stopped"}]
                   \cup [pc : {"official", "user"}, list : 1..MaxVersions]
  <2>1. CASE Change
    BY <1>0, <2>1 DEF TypeOK, Change
  <2>2. CASE Poll \/ PollFails \/ PollerStops \/ SetUser
    BY <2>2 DEF Poll, PollFails, PollerStops, SetUser, Idle
  <2>3. CASE PollAnswer
    <3>1. api \in 1..MaxVersions
      BY <1>0 DEF TypeOK
    <3> QED
      BY <2>3, <3>1 DEF PollAnswer
  <2>4. CASE SetOfficial
    BY <1>2, <2>4 DEF SetOfficial
  <2> QED
    BY <2>1, <2>2, <2>3, <2>4 DEF PollSteps
<1>4. cache' \in [Categories -> None..MaxVersions]
  <2>1. CASE SetOfficial \/ SetUser
    <3>1. poller.list \in None..MaxVersions
      BY <1>2, <2>1 DEF SetOfficial, SetUser, None
    <3> QED
      BY <1>0, <2>1, <3>1, PutTypes DEF SetOfficial, SetUser
  <2>2. CASE ~(SetOfficial \/ SetUser)
    BY <1>0, <2>2 DEF TypeOK, Change, PollSteps, Poll, PollAnswer, PollFails, PollerStops, lists
  <2> QED
    BY <2>1, <2>2
<1>5. TypeOK'
  BY <1>0, <1>1, <1>3, <1>4 DEF TypeOK, process
<1>6. Reached'
  BY <1>0 DEF Reached, Busy, process
<1> QED
  BY <1>5, <1>6 DEF IInv

\* The steps of run, the server and the kernel.
LEMMA ProcessStep ==
  ASSUME IInv,
         \/ Mount \/ Notify \/ Signal \/ Cancel \/ Unmount \/ UnmountedOutside
         \/ ServeEnds \/ ServeFails \/ Return
  PROVE  IInv'
<1> USE MountAssumption
<1>0. TypeOK /\ Reached /\ UNCHANGED <<conf, lists, use, poller>>
  BY DEF IInv, Mount, Notify, Signal, Cancel, Unmount, UnmountedOutside, ServeEnds, ServeFails,
     Return
<1>1. TypeOK'
  <2>1. faults' \in 0..MaxFaults
    <3>1. faults \in 0..MaxFaults
      BY <1>0 DEF TypeOK
    <3>2. faults' = faults \/ Fault
      BY DEF Mount, Notify, Signal, Cancel, Unmount, UnmountedOutside, ServeEnds, ServeFails, Return
    <3> QED
      BY <3>1, <3>2 DEF Fault
  <2>2. /\ main' \in {"start", "starting", "serving", "unmount", "wait",
                     "exit 0", "exit 1", "killed"}
        /\ signal' \in BOOLEAN /\ mounted' \in BOOLEAN
        /\ serve' \in {"off", "on", "nil", "error"}
    BY <1>0 DEF TypeOK, Mount, Notify, Signal, Cancel, Unmount, UnmountedOutside, ServeEnds,
       ServeFails, Return
  <2> QED
    BY <1>0, <2>1, <2>2 DEF TypeOK, lists
<1>2. Busy' <=> Busy
  BY <1>0 DEF Busy
<1>3. Reached'
  <2>1. CASE Mount \/ Notify \/ Cancel
    <3>1. CASE Mount
      <4>1. main = "start" /\ signal' = signal
        BY <3>1 DEF Mount
      <4>2. CASE main' = "starting" /\ mounted' = TRUE /\ serve' = "on"
        BY <1>0, <1>2, <4>1, <4>2 DEF Reached
      <4>3. CASE main' = "exit 1" /\ mounted' = mounted /\ serve' = serve
        <5>1. ~mounted
          BY <1>0, <4>1 DEF Reached
        <5> QED
          BY <1>0, <1>2, <4>1, <4>3, <5>1 DEF Reached
      <4> QED
        BY <3>1, <4>2, <4>3 DEF Mount
    <3>2. CASE Notify
      BY <1>0, <1>2, <3>2 DEF Reached, Notify
    <3>3. CASE Cancel
      BY <1>0, <1>2, <3>3 DEF Reached, Cancel
    <3> QED
      BY <2>1, <3>1, <3>2, <3>3
  <2>6. CASE Signal
    BY <1>0, <1>2, <2>6 DEF Reached, Signal, Ended
  <2>2. CASE Unmount
    BY <1>0, <1>2, <2>2 DEF Reached, TypeOK, Unmount
  <2>3. CASE UnmountedOutside
    BY <1>0, <1>2, <2>3 DEF Reached, TypeOK, UnmountedOutside
  <2>4. CASE ServeEnds \/ ServeFails
    <3>1. CASE ServeEnds
      BY <1>0, <1>2, <3>1 DEF Reached, ServeEnds, Serving, Ended
    <3>2. CASE ServeFails
      BY <1>0, <1>2, <3>2 DEF Reached, ServeFails, Serving, Ended
    <3> QED
      BY <2>4, <3>1, <3>2
  <2>5. CASE Return
    BY <1>0, <1>2, <2>5 DEF Reached, TypeOK, Return
  <2> QED
    BY <2>1, <2>2, <2>3, <2>4, <2>5, <2>6
<1> QED
  BY <1>1, <1>3 DEF IInv

LEMMA Inductive == IInv /\ [Next]_vars => IInv'
<1> SUFFICES ASSUME IInv, [Next]_vars PROVE IInv'
  OBVIOUS
<1>1. CASE UNCHANGED vars
  BY <1>1 DEF vars, lists, process, IInv, TypeOK, Reached, Busy
<1> QED
  BY <1>1, UserStep, PollerStep, ProcessStep DEF Next

LEMMA Invariant == Spec => []IInv
BY InitIInv, Inductive, PTL DEF Spec

\* A list that is told, polled or set is an answer of the API and never what
\* a call that failed returns, in whatever order requests and poller go on
\* (skills_fs.go:93-112, poller.go:41-65, main.go:209-213).
THEOREM TypeCorrect == Spec => []TypeOK
<1>1. IInv => TypeOK
  BY DEF IInv
<1> QED
  BY <1>1, Invariant, PTL

\* The process tells success only of a mount that went well, and failure with
\* a mount left behind only if somebody used it (main.go:225-239).
THEOREM ExitIsTrue == Spec => []ExitTold
<1>1. IInv => ExitTold
  BY DEF IInv, Reached, ExitTold
<1> QED
  BY <1>1, Invariant, PTL
=============================================================================
