------------------------------ MODULE Loopback ------------------------------
(***************************************************************************)
(* A file of a cloned skill, opened through the mount: loopbackFile and    *)
(* loopbackFileHandle of internal/fuse/loopback.go, while CloneOrPull      *)
(* resets the clone under them.                                            *)
(*                                                                         *)
(* A handle has the bytes that Open read and writes them back whole.       *)
(* os.WriteFile opens the file, which empties it, and then writes; nothing *)
(* keeps two write-backs of a file apart, nor a write-back and git, which  *)
(* unlinks a file and writes another one in its place.                     *)
(***************************************************************************)
EXTENDS Integers, Sequences, FiniteSets

LOCAL INSTANCE FiniteSetsExt

CONSTANTS Byte,      \* values of a byte, Zero among them
          Zero,
          MaxLen,    \* bound of the length of a file, for TLC only
          Handles,
          Commits,   \* what the commits of the skill have in the file
          MaxSaves,  \* bound of the write-backs, for TLC only
          MaxResets, \* bound of the resets that change the file, for TLC only
          MaxFaults, \* bound of the system calls that fail, for TLC only
          Git,       \* who writes a file but has no handle
          NoFile, Torn, Closed

INSTANCE HandleBuffer

Contents == UNION {[1..n -> Byte] : n \in 0..MaxLen}

ASSUME LoopbackAssumption ==
  /\ Zero \in Byte /\ MaxLen \in Nat
  /\ Commits \subseteq Contents \cup {NoFile}
  /\ Git \notin Handles
  /\ MaxSaves \in Nat /\ MaxResets \in Nat /\ MaxFaults \in Nat

VARIABLES disk,    \* what the path holds
          handle,  \* the open handles; saved: the number of its last write-back
          saves,   \* the write-backs between their snapshot and their end,
                   \* and git's writing of the file
          latest,  \* the number of write-backs of each handle, closed ones too
          landed,  \* whose writing, and its number, the file is of
          whole,   \* what was last put there whole, Torn if by a writer
                   \* who failed or met another one (history)
          resets, faults

vars == <<disk, handle, saves, latest, landed, whole, resets, faults>>

Init ==
  /\ disk \in Commits \ {NoFile}
  /\ handle = [h \in Handles |-> Closed]
  /\ saves = {}
  /\ latest = [h \in Handles |-> 0]
  /\ landed = {}
  /\ whole = disk
  /\ resets = 0 /\ faults = 0

\* Mutant: a file that is not there is opened.
OpenAny(h) ==
  /\ handle[h] = Closed
  /\ handle' = [handle EXCEPT ![h] = [data |-> disk, dirty |-> FALSE, saved |-> 0]]
  /\ UNCHANGED <<disk, saves, latest, landed, whole, resets, faults>>

\* os.ReadFile, which may come between a write-back's two calls.
Open(h) ==
  /\ handle[h] = Closed
  /\ disk # NoFile
  /\ handle' = [handle EXCEPT ![h] = [data |-> disk, dirty |-> FALSE, saved |-> 0]]
  /\ UNCHANGED <<disk, saves, latest, landed, whole, resets, faults>>

Write(h, offset, bytes) ==
  /\ handle[h] # Closed
  /\ handle' = [handle EXCEPT ![h].data = WriteAt(@, offset, bytes),
                              ![h].dirty = TRUE]
  /\ UNCHANGED <<disk, saves, latest, landed, whole, resets, faults>>

\* writeBack up to the unlock.  alone: no other write-back has had the file
\* open at the same time.
Snapshot(h) ==
  /\ handle[h] # Closed
  /\ IF handle[h].dirty
       THEN /\ MapThenSumSet(LAMBDA o : latest[o], Handles) < MaxSaves
            /\ latest' = [latest EXCEPT ![h] = @ + 1]
            /\ saves' = saves \cup {[handle |-> h, number |-> latest'[h],
                                     data |-> handle[h].data,
                                     file |-> "unopened", alone |-> TRUE]}
       ELSE UNCHANGED <<latest, saves>>
  /\ UNCHANGED <<disk, landed, whole, resets, faults>>

Flush(h) ==
  /\ Snapshot(h)
  /\ handle' = [handle EXCEPT ![h].dirty = FALSE,
                              ![h].saved = IF handle[h].dirty THEN latest'[h] ELSE @]

Release(h) ==
  /\ Snapshot(h)
  /\ handle' = [handle EXCEPT ![h] = Closed]

-----------------------------------------------------------------------------
(* os.WriteFile.                                                           *)

Writing == {t \in saves : t.file = "open"}

\* The saves when t opens the file.
Opened(t) ==
  {u \in saves : u # t /\ u.file # "open"}
    \cup {[u EXCEPT !.alone = FALSE] : u \in Writing}
    \cup {[t EXCEPT !.file = "open", !.alone = Writing = {}]}

\* Mutant: the file keeps what it has.
OpenWithoutTruncate(t) ==
  /\ t.file = "unopened"
  /\ disk' = IF disk = NoFile THEN <<>> ELSE disk
  /\ saves' = Opened(t)
  /\ landed' = {}
  /\ UNCHANGED <<handle, latest, whole, resets, faults>>

\* The file is emptied, or made if it has gone.
OpenTruncate(t) ==
  /\ t.file = "unopened"
  /\ disk' = <<>>
  /\ saves' = Opened(t)
  /\ landed' = {}
  /\ UNCHANGED <<handle, latest, whole, resets, faults>>

\* Mutant: dirty is cleared when the file has been written.
PutClearsDirty(t) ==
  /\ t.file = "open"
  /\ disk' = WriteAt(disk, 0, t.data)
  /\ landed' = IF t.alone THEN {<<t.handle, t.number>>} ELSE {}
  /\ whole' = IF t.alone THEN t.data ELSE Torn
  /\ saves' = saves \ {t}
  /\ handle' = [h \in Handles |->
                  IF h # t.handle \/ handle[h] = Closed THEN handle[h]
                  ELSE [handle[h] EXCEPT !.dirty = FALSE]]
  /\ UNCHANGED <<latest, resets, faults>>

\* The bytes are written, over those of a write-back that came in between.
Put(t) ==
  /\ t.file = "open"
  /\ disk' = WriteAt(disk, 0, t.data)
  /\ landed' = IF t.alone THEN {<<t.handle, t.number>>} ELSE {}
  /\ whole' = IF t.alone THEN t.data ELSE Torn
  /\ saves' = saves \ {t}
  /\ UNCHANGED <<handle, latest, resets, faults>>

\* They go to a file that git has unlinked.
PutUnlinked(t) ==
  /\ t.file = "unlinked"
  /\ saves' = saves \ {t}
  /\ UNCHANGED <<disk, handle, latest, landed, whole, resets, faults>>

\* The file cannot be opened, or some of the bytes not written (or git is
\* killed); the handle is clean all the same.
Fail(t) ==
  /\ faults < MaxFaults /\ faults' = faults + 1
  /\ saves' = saves \ {t}
  /\ IF t.file = "open"
       THEN /\ \E n \in 0..Len(t.data) : disk' = WriteAt(disk, 0, SubSeq(t.data, 1, n))
            /\ landed' = {} /\ whole' = Torn
       ELSE UNCHANGED <<disk, landed, whole>>
  /\ UNCHANGED <<handle, latest, resets>>

Unlinked == {IF t.file = "open" THEN [t EXCEPT !.file = "unlinked"] ELSE t : t \in saves}

\* git reset --hard to a commit without the file, or RemoveAll of a directory
\* without a .git.
Remove ==
  /\ NoFile \in Commits
  /\ disk' = NoFile /\ whole' = NoFile
  /\ saves' = Unlinked
  /\ UNCHANGED latest

\* git reset --hard to one with another content.
Replace(content) ==
  /\ content # NoFile
  /\ disk' = <<>>
  /\ saves' = Unlinked \cup {[handle |-> Git, number |-> 0, data |-> content,
                              file |-> "open", alone |-> TRUE]}
  /\ UNCHANGED <<latest, whole>>

\* One git at a time.
Reset ==
  /\ resets < MaxResets /\ resets' = resets + 1
  /\ \A t \in saves : t.handle # Git
  /\ Remove \/ \E content \in Commits : Replace(content)
  /\ landed' = {}
  /\ UNCHANGED <<handle, faults>>

-----------------------------------------------------------------------------
Next ==
  \/ \E h \in Handles : Open(h) \/ Flush(h) \/ Release(h)
  \/ \E h \in Handles, offset \in 0..(MaxLen - 1), byte \in Byte :
       Write(h, offset, <<byte>>)
  \/ \E t \in saves : OpenTruncate(t) \/ Put(t) \/ PutUnlinked(t) \/ Fail(t)
  \/ Reset

Spec == Init /\ [][Next]_vars

-----------------------------------------------------------------------------
TypeOK ==
  /\ disk \in Contents \cup {NoFile}
  /\ handle \in [Handles -> {Closed} \cup [data : Contents, dirty : BOOLEAN,
                                           saved : Nat]]
  /\ saves \subseteq [handle : Handles \cup {Git}, number : Nat, data : Contents,
                      file : {"unopened", "open", "unlinked"}, alone : BOOLEAN]
  /\ latest \in [Handles -> Nat]
  /\ landed \subseteq (Handles \cup {Git}) \X Nat
  /\ whole \in Contents \cup {NoFile, Torn}
  /\ resets \in 0..MaxResets /\ faults \in 0..MaxFaults

\* loopback.go:203-207 takes the bytes and clears dirty in one critical section:
\* when the file is of the latest write-back of a clean handle it holds what
\* the handle holds, however writes fell around the flush.
EditOnDisk ==
  \A h \in Handles :
    handle[h] # Closed /\ ~handle[h].dirty /\ <<h, handle[h].saved>> \in landed
      => disk = handle[h].data

\* loopback.go:211: while nobody has the file open to write, it holds what was
\* last put there, whole: bytes of an earlier content are left only by a
\* write that failed or met another one, be it git's, never by a longer content
\* that was there or a write-back that git has overtaken.
RestsWhole == Writing = {} /\ whole # Torn => disk = whole
=============================================================================
