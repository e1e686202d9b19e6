---------------------------- MODULE SkillsMount ----------------------------
(***************************************************************************)
(* A mount in skills mode: run of cmd/gitaly-fuse/main.go with the         *)
(* goroutines it starts, the list poller of internal/skillsclient/         *)
(* poller.go, and the requests that internal/fuse/skills_fs.go answers     *)
(* from the cached lists of skills.                                        *)
(*                                                                         *)
(* The API's list is a number that grows with every change; what a         *)
(* category has of it is the list of that number.  The kernel's part and   *)
(* fs.Serve are external: a mount that somebody uses is not unmounted, and *)
(* Serve returns when the mount has gone and its requests are answered.    *)
(***************************************************************************)
EXTENDS Naturals

CONSTANTS Users,       \* those who use the mount, each with one request
                       \* under way or one file open
          Rooms,       \* how many of the two lists the cache has room for:
                       \* 0 without a cache, 1 with -cache-max-entries 1
          MaxVersions, \* bound of the changes of the list, for TLC only
          MaxFaults    \* bound of the calls that fail, for TLC only

Categories == {"official", "user"}
None == 0

ASSUME MountAssumption ==
  /\ Rooms \subseteq 0..2
  /\ MaxVersions \in Nat \ {0} /\ MaxFaults \in Nat

VARIABLES conf,     \* the options: room for lists, and whether they are polled
          api,      \* the list that the API would answer
          cache,    \* the list cached for each category
          use,      \* what each user is doing
          poller,   \* the list poller
          main,     \* run
          signal,   \* whether SIGINT or SIGTERM has come
          mounted,  \* whether the kernel has the mount
          serve,    \* the goroutine of fs.Serve, and what is in serveDone
          faults

lists == <<api, cache>>
process == <<main, signal, mounted, serve>>
vars == <<conf, lists, use, poller, process, faults>>

Idle == [pc |-> "idle"]

Init ==
  /\ conf \in [room : Rooms, polls : BOOLEAN]
  /\ api = 1
  /\ cache = [c \in Categories |-> None]
  /\ use = [u \in Users |-> Idle]
  /\ poller = Idle
  /\ main = "start" /\ signal = FALSE
  /\ mounted = FALSE /\ serve = "off"
  /\ faults = 0

Ended == main \in {"exit 0", "exit 1", "killed"}
Serving == serve = "on" /\ ~Ended
Busy == \E u \in Users : use[u] # Idle

\* c.Set; the cache drops the other list if it has room for one only.
Put(c, v) ==
  cache' = [k \in Categories |->
              IF conf.room = 0 THEN None
              ELSE IF k = c THEN v
              ELSE IF conf.room = 1 THEN None ELSE cache[k]]

Fault == faults < MaxFaults /\ faults' = faults + 1

\* Skills are added, changed or removed.
Change ==
  /\ api < MaxVersions
  /\ api' = api + 1
  /\ UNCHANGED <<conf, cache, use, poller, process, faults>>

-----------------------------------------------------------------------------
(* getSkills, for ReadDirAll and Lookup, which then clones the skill and   *)
(* gives the user its directory.                                           *)

Becomes(u, s) == use' = [use EXCEPT ![u] = s]

Hit(u, c) ==
  /\ Serving /\ mounted /\ use[u] = Idle
  /\ cache[c] # None
  /\ Becomes(u, [pc |-> "using"])
  /\ UNCHANGED <<conf, lists, poller, process, faults>>

Miss(u, c) ==
  /\ Serving /\ mounted /\ use[u] = Idle
  /\ cache[c] = None
  /\ Becomes(u, [pc |-> "asking", category |-> c])
  /\ UNCHANGED <<conf, lists, poller, process, faults>>

Answer(u) ==
  /\ Serving /\ use[u].pc = "asking"
  /\ Becomes(u, [pc |-> "told", category |-> use[u].category, list |-> api])
  /\ UNCHANGED <<conf, lists, poller, process, faults>>

\* The request fails.
AnswerFails(u) ==
  /\ Serving /\ use[u].pc = "asking"
  /\ Fault
  /\ Becomes(u, Idle)
  /\ UNCHANGED <<conf, lists, poller, process>>

\* However old the list has become.
Store(u) ==
  /\ Serving /\ use[u].pc = "told"
  /\ Put(use[u].category, use[u].list)
  /\ Becomes(u, [pc |-> "using"])
  /\ UNCHANGED <<conf, api, poller, process, faults>>

\* The last file is closed, which writes it back.
Close(u) ==
  /\ Serving /\ use[u].pc = "using"
  /\ Becomes(u, Idle)
  /\ UNCHANGED <<conf, lists, poller, process, faults>>

-----------------------------------------------------------------------------
(* The list poller, until its context ends.                                *)

Polling == conf.polls /\ serve # "off" /\ ~Ended
Cancelled == main \in {"unmount", "wait"}

Poll ==
  /\ Polling /\ poller = Idle
  /\ poller' = [pc |-> "asking"]
  /\ UNCHANGED <<conf, lists, use, process, faults>>

PollAnswer ==
  /\ Polling /\ poller.pc = "asking" /\ ~Cancelled
  /\ poller' = [pc |-> "official", list |-> api]
  /\ UNCHANGED <<conf, lists, use, process, faults>>

\* Mutant: the error is not looked at, and the list is empty.
PollFailsUnchecked ==
  /\ Polling /\ poller.pc = "asking"
  /\ poller' = [pc |-> "official", list |-> None]
  /\ Fault \/ (Cancelled /\ UNCHANGED faults)
  /\ UNCHANGED <<conf, lists, use, process>>

PollFails ==
  /\ Polling /\ poller.pc = "asking"
  /\ poller' = Idle
  /\ Fault \/ (Cancelled /\ UNCHANGED faults)
  /\ UNCHANGED <<conf, lists, use, process>>

\* OnRefresh sets the one list and then the other.
SetOfficial ==
  /\ Polling /\ poller.pc = "official"
  /\ Put("official", poller.list)
  /\ poller' = [pc |-> "user", list |-> poller.list]
  /\ UNCHANGED <<conf, api, use, process, faults>>

\* Mutant: both lists go to one key.
SetUserAsOfficial ==
  /\ Polling /\ poller.pc = "user"
  /\ Put("official", poller.list)
  /\ poller' = Idle
  /\ UNCHANGED <<conf, api, use, process, faults>>

SetUser ==
  /\ Polling /\ poller.pc = "user"
  /\ Put("user", poller.list)
  /\ poller' = Idle
  /\ UNCHANGED <<conf, api, use, process, faults>>

PollerStops ==
  /\ Polling /\ poller = Idle /\ Cancelled
  /\ poller' = [pc |-> "stopped"]
  /\ UNCHANGED <<conf, lists, use, process, faults>>

-----------------------------------------------------------------------------
(* run, fs.Serve and the kernel.                                           *)

\* With the mount come the server and the pollers.
Mount ==
  /\ main = "start"
  /\ \/ main' = "starting" /\ mounted' = TRUE /\ serve' = "on"
     \/ main' = "exit 1" /\ UNCHANGED <<mounted, serve>>
  /\ UNCHANGED <<conf, lists, use, poller, signal, faults>>

Notify ==
  /\ main = "starting"
  /\ main' = "serving"
  /\ UNCHANGED <<conf, lists, use, poller, signal, mounted, serve, faults>>

\* Before signal.Notify a signal kills the process where it is.
Signal ==
  /\ ~signal /\ ~Ended
  /\ signal' = TRUE
  /\ main' = IF main \in {"start", "starting"} THEN "killed" ELSE main
  /\ UNCHANGED <<conf, lists, use, poller, mounted, serve, faults>>

\* <-sigCh, and the pollers are told to stop.
Cancel ==
  /\ main = "serving" /\ signal
  /\ main' = "unmount"
  /\ UNCHANGED <<conf, lists, use, poller, signal, mounted, serve, faults>>

\* Mutant: the error of Unmount is not looked at.
UnmountUnchecked ==
  /\ main = "unmount"
  /\ main' = "wait"
  /\ mounted' = (mounted /\ Busy)
  /\ UNCHANGED <<conf, lists, use, poller, signal, serve, faults>>

\* Mutant: an Unmount that fails is taken for a mount that has gone.
UnmountAnyway ==
  /\ main = "unmount"
  /\ IF mounted /\ ~Busy
       THEN main' = "wait" /\ mounted' = FALSE
       ELSE main' = "exit 0" /\ UNCHANGED mounted
  /\ UNCHANGED <<conf, lists, use, poller, signal, serve, faults>>

\* bazilfuse.Unmount, which fails if somebody uses the mount or it has gone.
Unmount ==
  /\ main = "unmount"
  /\ IF mounted /\ ~Busy
       THEN main' = "wait" /\ mounted' = FALSE
       ELSE main' = "exit 1" /\ UNCHANGED mounted
  /\ UNCHANGED <<conf, lists, use, poller, signal, serve, faults>>

\* fusermount -u by somebody else; with -z while the mount is in use.
UnmountedOutside ==
  /\ mounted /\ ~Ended
  /\ mounted' = FALSE
  /\ UNCHANGED <<conf, lists, use, poller, main, signal, serve, faults>>

ServeEnds ==
  /\ Serving /\ ~mounted /\ ~Busy
  /\ serve' = "nil"
  /\ UNCHANGED <<conf, lists, use, poller, main, signal, mounted, faults>>

ServeFails ==
  /\ Serving /\ Fault
  /\ serve' = "error"
  /\ UNCHANGED <<conf, lists, use, poller, main, signal, mounted>>

\* <-serveDone.
Return ==
  /\ main = "wait" /\ serve \in {"nil", "error"}
  /\ main' = IF serve = "nil" THEN "exit 0" ELSE "exit 1"
  /\ UNCHANGED <<conf, lists, use, poller, signal, mounted, serve, faults>>

-----------------------------------------------------------------------------
Requests(u) == Answer(u) \/ AnswerFails(u) \/ Store(u)

PollSteps == Poll \/ PollAnswer \/ PollFails \/ SetOfficial \/ SetUser \/ PollerStops

Next ==
  \/ Change
  \/ \E u \in Users : \/ \E c \in Categories : Hit(u, c) \/ Miss(u, c)
                      \/ Requests(u) \/ Close(u)
  \/ PollSteps
  \/ Mount \/ Notify \/ Signal \/ Cancel \/ Unmount \/ UnmountedOutside
  \/ ServeEnds \/ ServeFails \/ Return

Spec == Init /\ [][Next]_vars

\* The ticker fires again and again, calls of the API end with their timeout,
\* and goroutines run; nobody has to use the mount, close a file or end it.
FairSpec ==
  /\ Spec
  /\ WF_vars(PollSteps) /\ \A u \in Users : WF_vars(Requests(u))
  /\ WF_vars(Notify) /\ WF_vars(Cancel) /\ WF_vars(Unmount) /\ WF_vars(ServeEnds) /\ WF_vars(Return)

-----------------------------------------------------------------------------
TypeOK ==
  /\ conf \in [room : Rooms, polls : BOOLEAN]
  /\ api \in 1..MaxVersions
  /\ cache \in [Categories -> None..MaxVersions]
  /\ use \in [Users ->
       [pc : {"idle", "using"}]
         \cup [pc : {"asking"}, category : Categories]
         \cup [pc : {"told"}, category : Categories, list : 1..MaxVersions]]
  /\ poller \in [pc : {"idle", "asking", "stopped"}]
                  \cup [pc : {"official", "user"}, list : 1..MaxVersions]
  /\ main \in {"start", "starting", "serving", "unmount", "wait",
              "exit 0", "exit 1", "killed"}
  /\ signal \in BOOLEAN /\ mounted \in BOOLEAN
  /\ serve \in {"off", "on", "nil", "error"}
  /\ faults \in 0..MaxFaults

\* poller.go:20, main.go:150: the lists have no TTL, but if they are polled the
\* cache ends with the API's list in both categories or none, though getSkills
\* and the poller store what they were told in any order, one list pushes the
\* other out, and the poller sets them one by one; or the process ends.
ListsConverge ==
  <>[](Ended \/ ~conf.polls \/ \A c \in Categories : cache[c] \in {None, api})

\* main.go:225-239: the process reports success only when the mount has gone,
\* its server has ended well and nobody's request or open file was cut off; it
\* reports failure and leaves a mount behind only if somebody still used it.
ExitTold ==
  /\ main = "exit 0" => signal /\ ~mounted /\ serve = "nil" /\ ~Busy
  /\ main = "exit 1" /\ mounted => Busy

\* main.go:227: the process ends after a signal, whether the mount is in use,
\* was unmounted from outside before, or the server has failed.
ExitsOnSignal == signal ~> Ended
=============================================================================
