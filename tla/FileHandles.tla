---------------------------- MODULE FileHandles ----------------------------
(***************************************************************************)
(* Open files of a mounted repository: File.Open, Dir.Create and the       *)
(* FileHandle of internal/fuse (node.go, handle.go) with the part of the   *)
(* cache that holds blobs.                                                 *)
(*                                                                         *)
(* A []byte is a reference.  Open stores the slice it fetched in the cache *)
(* and hands the same slice to the handle, and to every later handle that  *)
(* finds it there; slice says what each one holds, and a slice that        *)
(* nothing refers to any more is collected.  An oid stands for the content *)
(* it is the hash of, so it is that content here.                          *)
(***************************************************************************)
EXTENDS Integers, Sequences, FiniteSets

LOCAL INSTANCE FiniteSetsExt

CONSTANTS Paths,       \* files of the repository
          Byte,        \* values of a byte, Zero among them
          Zero,
          MaxLen,      \* bound of the length of a file, for TLC only
          MaxBlobSize, \* Config.MaxBlobSize, 0 or less: no limit
          Buffers,     \* slices that can be live at once, for TLC only
          Handles,
          InitialRepos,
          MaxFiles,    \* bound of the number of File objects, for TLC only,
          MaxNewFiles, \* and that bound where files are created
          MaxFlushes,  \* bound of the commits of all handles, for TLC only
          Faults,      \* whether calls to Gitaly fail
          NoFile, NoOid, Nil, Unused

INSTANCE HandleBuffer

Contents == UNION {[1..n -> Byte] : n \in 0..MaxLen}

\* File objects: their path and oid never change once Lookup or Create has
\* made them.
Files == [path : Paths, oid : Contents \cup {NoOid}]

\* KeyBlob of an oid and KeyBlobPath of a path.
Keys == [oid : Contents] \cup [path : Paths]

\* A slice: what it holds, and as history what it held when it was made and
\* which open handle wrote it last.
Slices == [data : Contents, origin : Contents, author : Handles \cup {Nil}]

ASSUME HandleAssumption ==
  /\ Zero \in Byte /\ MaxLen \in Nat /\ MaxBlobSize \in Int
  /\ Buffers \subseteq Nat /\ IsFiniteSet(Buffers)
  /\ InitialRepos \subseteq [Paths -> Contents \cup {NoFile}]
  /\ MaxFiles \in Nat /\ MaxNewFiles \in Nat /\ MaxFlushes \in Nat /\ Faults \in BOOLEAN
  /\ NoFile \notin Contents /\ NoOid \notin Contents
  /\ Nil \notin Buffers \cup Handles /\ Unused \notin Slices

VARIABLES repo,    \* what each file holds in Gitaly
          nodes,   \* the File objects the kernel may open
          cache,   \* the slice cached at each key, or Nil
          slice,   \* the slices in use
          handle,  \* the handles
          flights, \* commits of handles between their snapshot and their end
          latest,  \* how often each handle has committed
          landed,  \* the handle and number of the last commit of each path
          lost     \* keys cached when a commit that would have invalidated
                   \* them failed (history)

vars == <<repo, nodes, cache, slice, handle, flights, latest, landed, lost>>

Closed == [pc |-> "closed"]
NoOne == <<Nil, 0>>

-----------------------------------------------------------------------------
KeyOf(f) == IF f.oid = NoOid THEN [path |-> f.path] ELSE [oid |-> f.oid]

Live(b) ==
  \/ \E k \in Keys : cache[k] = b
  \/ \E h \in Handles : handle[h].pc = "open" /\ handle[h].buf = b

\* The next slices are those of s that the next cache and handles refer to.
Collect(s) ==
  slice' = [b \in Buffers |-> IF Live(b)' THEN s[b] ELSE Unused]

\* The slice that an allocation takes.
IsNext(b) == slice[b] = Unused /\ \A c \in Buffers : slice[c] = Unused => b <= c

Made(content, writer) == [data |-> content, origin |-> content, author |-> writer]

OpenHandle(f, b) == [pc |-> "open", file |-> f, buf |-> b, dirty |-> FALSE]

\* The keys leave the cache.
Drop(ks) ==
  /\ cache' = [k \in Keys |-> IF k \in ks THEN Nil ELSE cache[k]]
  /\ lost' = lost \ ks

Init ==
  /\ repo \in InitialRepos
  /\ nodes = {}
  /\ cache = [k \in Keys |-> Nil]
  /\ slice = [b \in Buffers |-> Unused]
  /\ handle = [h \in Handles |-> Closed]
  /\ flights = {}
  /\ latest = [h \in Handles |-> 0]
  /\ landed = [p \in Paths |-> NoOne]
  /\ lost = {}

\* A File that Create made, or failed to make, is of no bytes.
FileBound(fs) ==
  IF \E f \in fs : f.oid \in {NoOid, <<>>} THEN MaxNewFiles ELSE MaxFiles

\* Lookup makes a File of the oid that the tree shows.  A tree that is cached
\* shows an older oid; nodes keeps every File made, so those are there too.
Lookup(p) ==
  /\ repo[p] # NoFile
  /\ nodes' = nodes \cup {[path |-> p, oid |-> repo[p]]}
  /\ Cardinality(nodes') <= FileBound(nodes')
  /\ UNCHANGED <<repo, cache, slice, handle, flights, latest, landed, lost>>

\* Create commits an empty file and opens it; its File has no oid.  Nothing
\* can be cached at the path of a file that does not exist yet, so the commit
\* and the invalidation are one step.
Create(h, p) ==
  /\ handle[h] = Closed
  /\ repo[p] = NoFile
  /\ repo' = [repo EXCEPT ![p] = <<>>]
  /\ Drop({[path |-> p]})
  /\ UNCHANGED <<flights, latest, landed>>
  /\ \E b \in Buffers :
       /\ IsNext(b)
       /\ handle' = [handle EXCEPT ![h] =
                       OpenHandle([path |-> p, oid |-> NoOid], b)]
       /\ Collect([slice EXCEPT ![b] = Made(<<>>, h)])
  /\ nodes' = nodes \cup {[path |-> p, oid |-> NoOid]}

\* Gitaly creates the file and the answer is lost: there is no File.
CreateFails(p) ==
  /\ Faults
  /\ repo[p] = NoFile
  /\ repo' = [repo EXCEPT ![p] = <<>>]
  /\ UNCHANGED <<nodes, cache, slice, handle, flights, latest, landed, lost>>

\* A slice of no bytes is nil, which Open takes for a miss.
Usable(k) == cache[k] # Nil /\ slice[cache[k]].data # <<>>

\* Mutant: whatever the cache answers is opened.
OpenHitUnchecked(h, f) ==
  /\ handle[h] = Closed
  /\ handle' = [handle EXCEPT ![h] = OpenHandle(f, cache[KeyOf(f)])]
  /\ UNCHANGED <<repo, nodes, cache, slice, flights, latest, landed, lost>>

OpenHit(h, f) ==
  /\ handle[h] = Closed
  /\ Usable(KeyOf(f))
  /\ handle' = [handle EXCEPT ![h] = OpenHandle(f, cache[KeyOf(f)])]
  /\ UNCHANGED <<repo, nodes, cache, slice, flights, latest, landed, lost>>

\* Mutant: a File with an oid is fetched by its path as well.
OpenMissOfPath(h, f) ==
  /\ handle[h] = Closed
  /\ ~Usable(KeyOf(f))
  /\ handle' = [handle EXCEPT ![h] =
                  IF f.oid = NoOid THEN [pc |-> "asking", file |-> f]
                  ELSE [pc |-> "opening", file |-> f, data |-> repo[f.path]]]
  /\ UNCHANGED <<repo, nodes, cache, slice, flights, latest, landed, lost>>

\* Nothing cached: GetBlob, whose answer the oid settles, or GetTreeEntry of
\* the path.
OpenMiss(h, f) ==
  /\ handle[h] = Closed
  /\ ~Usable(KeyOf(f))
  /\ handle' = [handle EXCEPT ![h] =
                  IF f.oid = NoOid THEN [pc |-> "asking", file |-> f]
                  ELSE [pc |-> "opening", file |-> f, data |-> f.oid]]
  /\ UNCHANGED <<repo, nodes, cache, slice, flights, latest, landed, lost>>

\* Gitaly answers GetTreeEntry with what the path holds now.
Answer(h) ==
  /\ handle[h].pc = "asking"
  /\ handle' = [handle EXCEPT ![h] =
                  [pc |-> "opening", file |-> @.file, data |-> repo[@.file.path]]]
  /\ UNCHANGED <<repo, nodes, cache, slice, flights, latest, landed, lost>>

Cacheable(c) == MaxBlobSize <= 0 \/ Len(c) <= MaxBlobSize

\* The data arrives: cache and handle share the slice.
OpenDone(h) ==
  /\ handle[h].pc = "opening"
  /\ UNCHANGED <<repo, nodes, flights, latest, landed>>
  /\ LET f == handle[h].file
         k == KeyOf(f)
     IN  \E b \in Buffers :
           /\ IsNext(b)
           /\ handle' = [handle EXCEPT ![h] = OpenHandle(f, b)]
           /\ IF Cacheable(handle[h].data)
                THEN cache' = [cache EXCEPT ![k] = b] /\ lost' = lost \ {k}
                ELSE UNCHANGED <<cache, lost>>
           /\ Collect([slice EXCEPT ![b] = Made(handle[h].data, Nil)])

\* GetBlob fails and Open says so.
OpenFails(h) ==
  /\ Faults
  /\ handle[h].pc = "opening" /\ handle[h].file.oid # NoOid
  /\ handle' = [handle EXCEPT ![h] = Closed]
  /\ UNCHANGED <<repo, nodes, cache, slice, flights, latest, landed, lost>>

\* GetTreeEntry fails; the error is dropped (node.go:305) and the handle opens
\* empty.
OpenEmpty(h) ==
  /\ Faults
  /\ handle[h].pc = "asking"
  /\ UNCHANGED <<repo, nodes, cache, flights, latest, landed, lost>>
  /\ \E b \in Buffers :
       /\ IsNext(b)
       /\ handle' = [handle EXCEPT ![h] = OpenHandle(@.file, b)]
       /\ Collect([slice EXCEPT ![b] = Made(<<>>, Nil)])

-----------------------------------------------------------------------------
\* Write under h.mu: into a new slice if the data gets longer, else into
\* the slice the handle has, which is also the cache's.
Write(h, offset, bytes) ==
  /\ handle[h].pc = "open"
  /\ UNCHANGED <<repo, nodes, cache, flights, latest, landed, lost>>
  /\ LET b == handle[h].buf
         old == slice[b].data
         data == WriteAt(old, offset, bytes)
     IN  IF Grows(old, offset, bytes)
           THEN \E new \in Buffers :
                  /\ IsNext(new)
                  /\ handle' = [handle EXCEPT ![h].buf = new, ![h].dirty = TRUE]
                  /\ Collect([slice EXCEPT ![new] = Made(data, h)])
           ELSE /\ handle' = [handle EXCEPT ![h].dirty = TRUE]
                /\ slice' = [slice EXCEPT ![b].data = data, ![b].author = h]

\* The commit that commitIfDirty starts: a copy of the data, the path and
\* the oid of the File.
NewFlight(h) ==
  [handle |-> h, number |-> latest[h] + 1, file |-> handle[h].file,
   data |-> slice[handle[h].buf].data, stage |-> "sent"]

\* commitIfDirty up to the unlock: the copy, and the handle is clean.
Snapshot(h) ==
  /\ handle[h].pc = "open"
  /\ IF handle[h].dirty
       THEN /\ MapThenSumSet(LAMBDA o : latest[o], Handles) < MaxFlushes
            /\ flights' = flights \cup {NewFlight(h)}
            /\ latest' = [latest EXCEPT ![h] = @ + 1]
       ELSE UNCHANGED <<flights, latest>>
  /\ UNCHANGED <<repo, nodes, cache, landed, lost>>

Flush(h) ==
  /\ Snapshot(h)
  /\ handle' = [handle EXCEPT ![h].dirty = FALSE]
  /\ UNCHANGED slice

\* The handle is gone, and with it what it wrote under its name.
Release(h) ==
  /\ Snapshot(h)
  /\ handle' = [handle EXCEPT ![h] = Closed]
  /\ Collect([b \in Buffers |->
                IF slice[b] # Unused /\ slice[b].author = h
                  THEN [slice[b] EXCEPT !.author = Nil] ELSE slice[b]])

Landed(t) ==
  /\ repo' = [repo EXCEPT ![t.file.path] = t.data]
  /\ landed' = [landed EXCEPT ![t.file.path] = <<t.handle, t.number>>]

Goes(t, stage) == flights' = (flights \ {t}) \cup {[t EXCEPT !.stage = stage]}

\* Mutant: dirty is cleared when the commit has succeeded.
LandClearsDirty(t) ==
  /\ t.stage = "sent"
  /\ Landed(t) /\ Goes(t, "paths")
  /\ handle' = [handle EXCEPT ![t.handle] =
                  IF @.pc = "open" THEN [@ EXCEPT !.dirty = FALSE] ELSE @]
  /\ UNCHANGED <<nodes, cache, slice, latest, lost>>

\* UserCommitFiles succeeds.
Land(t) ==
  /\ t.stage = "sent"
  /\ Landed(t) /\ Goes(t, "paths")
  /\ UNCHANGED <<nodes, cache, slice, handle, latest, lost>>

\* It returns an error, whether Gitaly committed or not: the handle stays
\* clean and the cache as it is.
Fail(t) ==
  /\ Faults
  /\ t.stage = "sent"
  /\ Landed(t) \/ UNCHANGED <<repo, landed>>
  /\ flights' = flights \ {t}
  /\ lost' = lost \cup {KeyOf(t.file)}
  /\ UNCHANGED <<nodes, cache, slice, handle, latest>>

\* Mutant: a file without an oid has nothing to invalidate.
InvalidatePathsOfOid(t) ==
  /\ t.stage = "paths"
  /\ Drop(IF t.file.oid = NoOid THEN {} ELSE {[path |-> t.file.path]})
  /\ Goes(t, "blob")
  /\ UNCHANGED <<repo, nodes, handle, latest, landed>>
  /\ Collect(slice)

\* InvalidatePaths of the path of the File.
InvalidatePaths(t) ==
  /\ t.stage = "paths"
  /\ Drop({[path |-> t.file.path]})
  /\ Goes(t, "blob")
  /\ UNCHANGED <<repo, nodes, handle, latest, landed>>
  /\ Collect(slice)

\* Mutant: the blob of the new content is invalidated.
InvalidateNewBlob(t) ==
  /\ t.stage = "blob"
  /\ Drop({[oid |-> t.data]})
  /\ flights' = flights \ {t}
  /\ UNCHANGED <<repo, nodes, handle, latest, landed>>
  /\ Collect(slice)

\* InvalidateBlob of the oid the File had when it was opened.
InvalidateBlob(t) ==
  /\ t.stage = "blob"
  /\ Drop(IF t.file.oid = NoOid THEN {} ELSE {[oid |-> t.file.oid]})
  /\ flights' = flights \ {t}
  /\ UNCHANGED <<repo, nodes, handle, latest, landed>>
  /\ Collect(slice)

\* An entry leaves the cache, by its age or to make room.
Expire(k) ==
  /\ cache[k] # Nil
  /\ Drop({k})
  /\ UNCHANGED <<repo, nodes, handle, flights, latest, landed>>
  /\ Collect(slice)

-----------------------------------------------------------------------------
Next ==
  \/ \E p \in Paths : Lookup(p) \/ CreateFails(p)
  \/ \E h \in Handles, p \in Paths : Create(h, p)
  \/ \E h \in Handles, f \in nodes : OpenHit(h, f) \/ OpenMiss(h, f)
  \/ \E h \in Handles : \/ Answer(h) \/ OpenDone(h) \/ OpenFails(h) \/ OpenEmpty(h)
                        \/ Flush(h) \/ Release(h)
  \/ \E h \in Handles, offset \in 0..(MaxLen - 1), byte \in Byte :
       Write(h, offset, <<byte>>)
  \/ \E t \in flights : Land(t) \/ Fail(t) \/ InvalidatePaths(t) \/ InvalidateBlob(t)
  \/ \E k \in Keys : Expire(k)

Spec == Init /\ [][Next]_vars

-----------------------------------------------------------------------------
OpenHandles ==
  [pc : {"open"}, file : Files, buf : Buffers, dirty : BOOLEAN]

Flights ==
  [handle : Handles, number : Nat, file : Files, data : Contents,
   stage : {"sent", "paths", "blob"}]

TypeOK ==
  /\ repo \in [Paths -> Contents \cup {NoFile}]
  /\ nodes \subseteq Files
  /\ cache \in [Keys -> Buffers \cup {Nil}]
  /\ slice \in [Buffers -> {Unused} \cup Slices]
  /\ handle \in [Handles -> {Closed} \cup OpenHandles
                   \cup [pc : {"asking"}, file : Files]
                   \cup [pc : {"opening"}, file : Files, data : Contents]]
  /\ flights \subseteq Flights
  /\ latest \in [Handles -> Nat]
  /\ landed \in [Paths -> (Handles \cup {Nil}) \X Nat]
  /\ lost \subseteq Keys

\* The slice cached at k no longer holds what was fetched.
Spoilt(k) ==
  cache[k] # Nil /\ slice[cache[k]].data # slice[cache[k]].origin

\* A handle of the key k is dirty, or a commit under way will invalidate k,
\* or the commit that should have failed.
HasOwner(k) ==
  \/ \E h \in Handles : /\ handle[h].pc = "open" /\ handle[h].dirty
                        /\ KeyOf(handle[h].file) = k
  \/ \E t \in flights : KeyOf(t.file) = k
  \/ k \in lost

\* handle.go:56 writes into the cache's own slice.  An entry so spoilt has an
\* owner: a commit that succeeds leaves no spoilt entry behind, whatever was
\* written meanwhile and whoever shares the slice.
SpoiltHasOwner == \A k \in Keys : Spoilt(k) => HasOwner(k)

\* node.go:283-295, handle.go:93: what Open finds in the cache at an oid
\* is the blob of that oid, however old the File is and whatever was
\* committed to its path since, unless the key has an owner.
OidIsContent ==
  \A c \in Contents :
    LET k == [oid |-> c]
    IN  cache[k] # Nil /\ slice[cache[k]].data # c => HasOwner(k)

\* handle.go:71-76 takes the copy and clears dirty in one critical section:
\* when the last commit of a file is the latest one of a clean handle, the
\* file holds what the handle holds, however writes fell around the flush.
EditKept ==
  \A h \in Handles :
    LET p == handle[h].file.path
        s == slice[handle[h].buf]
    IN  /\ handle[h].pc = "open" /\ ~handle[h].dirty
        /\ landed[p] = <<h, latest[h]>>
        /\ s.author = h
        => repo[p] = s.data

\* README.md:152, fs.go:59: a file that was edited and saved shows the edit
\* when it is opened again with nothing under way.
ReopenSeesEdit ==
  [][\A h \in Handles :
       /\ handle[h].pc # "open" /\ handle'[h].pc = "open"
       /\ flights = {} /\ \A o \in Handles : handle[o].pc = "open" => ~handle[o].dirty
       => slice'[handle'[h].buf].data = repo'[handle'[h].file.path]]_vars
=============================================================================
