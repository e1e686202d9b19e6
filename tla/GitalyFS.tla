------------------------------ MODULE GitalyFS ------------------------------
(***************************************************************************)
(* The mounted repository of internal/fuse (node.go, fs.go) and its cache: *)
(* FUSE requests, each on a goroutine of its own, fill the cache from      *)
(* Gitaly's answers, and after a commit invalidate the keys of the paths   *)
(* they touched.  No lock spans the calls to Gitaly and to the cache, so   *)
(* the steps of different requests interleave freely.                      *)
(*                                                                         *)
(* The cache is here the map LRUCache is shown to implement: an entry may  *)
(* leave it at any time, by age or to make room.  The cache of blobs by    *)
(* oid, whose entries no commit makes wrong, is the matter of FileHandles. *)
(***************************************************************************)
EXTENDS Naturals, Sequences, SequencesExt

CONSTANTS Names,     \* names of files and directories
          Dirs,      \* paths of directories: sequences of names, <<>> the root
          Files,     \* paths of files
          Keep,      \* name of the file Gitaly puts into a new directory
          Contents,  \* what a file holds; stands for its oid and size too
          Empty,     \* the content of no bytes
          Large,     \* contents longer than MaxBlobSize
          None,      \* no file, no answer, nothing cached
          Procs,     \* request goroutines
          ReadKeys,  \* the keys that requests read
          Ops,       \* the operations that requests submit
          InitialRepos,
          MaxWrites, \* bound of the number of commits, for TLC only
          Faults     \* whether replies are lost and others commit too

Paths == Dirs \cup Files

\* KeyTree, KeyMeta and KeyBlobPath of a path on the mounted branch.
Keys == [kind : {"tree", "meta", "blob"}, path : Paths]
Key(kind, p) == [kind |-> kind, path |-> p]

\* d.path, of the directory a new path is in.
Parent(p) == SubSeq(p, 1, Len(p) - 1)

\* FUSE mkdir, create, mv and edit.  Every path but the root has its
\* ancestors among the directories.
Operations ==
  [kind : {"create"}, path : Files \ {<<>>}]
    \cup {op \in [kind : {"mkdir"}, path : Dirs \ {<<>>}] :
            Append(op.path, Keep) \in Files}
    \cup [kind : {"move"}, from : Paths \ {<<>>}, path : Paths \ {<<>>}]
    \cup [kind : {"update"}, path : Files, content : Contents]

Listing == SUBSET [path : Paths, what : Contents \cup {"subtree"}]

ASSUME FSAssumption ==
  /\ Dirs \subseteq Seq(Names) /\ Files \subseteq Seq(Names)
  /\ Keep \in Names
  /\ <<>> \in Dirs /\ Dirs \cap Files = {}
  /\ \A p \in Paths : \A n \in 0..(Len(p) - 1) : SubSeq(p, 1, n) \in Dirs
  /\ Empty \in Contents
  /\ None \notin Contents
  /\ ReadKeys \subseteq Keys
  /\ Ops \subseteq Operations
  /\ InitialRepos \subseteq [Files -> Contents \cup {None}]
  /\ MaxWrites \in Nat
  /\ Faults \in BOOLEAN

VARIABLES repo,    \* the branch in Gitaly: what each file holds
          cache,   \* the value cached at each key
          req,     \* what each goroutine is doing
          writes,  \* commits so far
          excused  \* keys that a fill or a commit left stale beyond the
                   \* reach of invalidation (history, read by no action)

vars == <<repo, cache, req, writes, excused>>

-----------------------------------------------------------------------------
(* What Gitaly answers.                                                    *)

IsDir(d, r) ==
  d = <<>> \/ \E f \in Files : r[f] # None /\ IsStrictPrefix(d, f)

\* The entries of one level: path, type, and the oid of a file.
List(d, r) ==
  {[path |-> SubSeq(f, 1, Len(d) + 1),
    what |-> IF Len(f) = Len(d) + 1 THEN r[f] ELSE "subtree"] :
     f \in {g \in Files : r[g] # None /\ IsStrictPrefix(d, g)}}

\* GetTreeEntries for a tree, GetTreeEntry for the size or the data of a
\* file.  There is no answer about what does not exist.
Answer(k, r) ==
  IF k.kind = "tree"
    THEN IF k.path \in Dirs /\ IsDir(k.path, r) THEN List(k.path, r) ELSE None
    ELSE IF k.path \in Files THEN r[k.path] ELSE None

\* Which commits Gitaly accepts.
Exists(p, r) == IF p \in Files THEN r[p] # None ELSE IsDir(p, r)

Legal(op, r) ==
  CASE op.kind \in {"create", "mkdir"} -> ~Exists(op.path, r)
    [] op.kind = "update" -> Exists(op.path, r)
    [] op.kind = "move" -> /\ Exists(op.from, r) /\ ~Exists(op.path, r)
                           /\ op.from \in Files <=> op.path \in Files
                           /\ ~IsPrefix(op.from, op.path)

\* Whether a file lies at or below a path, and where it is after that path
\* has moved.
AtOrBelow(f, p) == IsPrefix(p, f)
Moved(f, from, to) == to \o SubSeq(f, Len(from) + 1, Len(f))

Effect(op, r) ==
  CASE op.kind = "create" -> [r EXCEPT ![op.path] = Empty]
    [] op.kind = "mkdir"  -> [r EXCEPT ![Append(op.path, Keep)] = Empty]
    [] op.kind = "update" -> [r EXCEPT ![op.path] = op.content]
    [] op.kind = "move"   ->
         [f \in Files |->
            IF AtOrBelow(f, op.from) THEN None
            ELSE IF AtOrBelow(f, op.path)
              THEN LET source == Moved(f, op.path, op.from)
                   IN  IF source \in Files THEN r[source] ELSE None
              ELSE r[f]]

-----------------------------------------------------------------------------
(* InvalidatePaths.                                                        *)

\* Mutant: the ancestors of the path keep their trees.
PathKeysOnly(p) == <<Key("tree", p), Key("meta", p), Key("blob", p)>>

\* One affected path: its own keys, then the trees of its ancestors below
\* the root, nearest first.
PathKeys(p) ==
  <<Key("tree", p), Key("meta", p), Key("blob", p)>>
    \o [i \in 1..(Len(p) - 1) |-> Key("tree", SubSeq(p, 1, Len(p) - i))]

\* Mutant: a move forgets the path it moved from.
ToInvalidateTarget(op) ==
  (CASE op.kind = "move"   -> PathKeys(op.path)
     [] op.kind = "update" -> PathKeys(op.path)
     [] OTHER              -> PathKeys(op.path) \o PathKeys(Parent(op.path)))
    \o <<Key("tree", <<>>)>>

\* The keys a handler invalidates, in their order, the root's tree last.
ToInvalidate(op) ==
  (CASE op.kind = "move"   -> PathKeys(op.from) \o PathKeys(op.path)
     [] op.kind = "update" -> PathKeys(op.path)
     [] OTHER              -> PathKeys(op.path) \o PathKeys(Parent(op.path)))
    \o <<Key("tree", <<>>)>>

-----------------------------------------------------------------------------
Idle == [pc |-> "idle"]

Init ==
  /\ repo \in InitialRepos
  /\ cache = [k \in Keys |-> None]
  /\ req = [p \in Procs |-> Idle]
  /\ writes = 0
  /\ excused = {}

\* A cached blob of no bytes is a nil slice, which Open takes for a miss.
Usable(k) == cache[k] # None /\ ~(k.kind = "blob" /\ cache[k] = Empty)

\* getTreeEntries, Attr and Open find nothing usable and call Gitaly.  A
\* hit changes neither the cache nor the request.
Miss(p, k) ==
  /\ req[p] = Idle
  /\ ~Usable(k)
  /\ req' = [req EXCEPT ![p] = [pc |-> "fetch", key |-> k]]
  /\ UNCHANGED <<repo, cache, writes, excused>>

\* Gitaly's answer comes back.
Fetch(p) ==
  /\ req[p].pc = "fetch"
  /\ Answer(req[p].key, repo) # None
  /\ req' = [req EXCEPT ![p] = [pc |-> "store", key |-> req[p].key,
                                value |-> Answer(req[p].key, repo)]]
  /\ UNCHANGED <<repo, cache, writes, excused>>

\* The call fails or its deadline passes: nothing is cached.
FetchFails(p) ==
  /\ req[p].pc = "fetch"
  /\ Answer(req[p].key, repo) = None \/ Faults
  /\ req' = [req EXCEPT ![p] = Idle]
  /\ UNCHANGED <<repo, cache, writes, excused>>

TooLarge(k, v) == k.kind = "blob" /\ v \in Large

\* The answer is cached, however old it has become since it was fetched.
Store(p) ==
  /\ req[p].pc = "store"
  /\ LET k == req[p].key
         v == req[p].value
     IN  IF TooLarge(k, v)
           THEN UNCHANGED <<cache, excused>>
           ELSE /\ cache' = [cache EXCEPT ![k] = v]
                /\ excused' = IF v = Answer(k, repo) THEN excused \ {k}
                                                     ELSE excused \cup {k}
  /\ req' = [req EXCEPT ![p] = Idle]
  /\ UNCHANGED <<repo, writes>>

-----------------------------------------------------------------------------
\* Mkdir, Create, Rename or the flush of a handle calls UserCommitFiles.
Submit(p, op) ==
  /\ req[p] = Idle
  /\ writes < MaxWrites
  /\ req' = [req EXCEPT ![p] = [pc |-> "sent", op |-> op]]
  /\ writes' = writes + 1
  /\ UNCHANGED <<repo, cache, excused>>

\* The keys below a moved directory: no affected path reaches them.
Below(op) ==
  IF op.kind = "move"
    THEN {k \in Keys : \/ IsStrictPrefix(op.from, k.path)
                       \/ IsStrictPrefix(op.path, k.path)}
    ELSE {}

\* Gitaly has committed and says so: the invalidation begins.
Commit(p) ==
  /\ req[p].pc = "sent"
  /\ Legal(req[p].op, repo)
  /\ repo' = Effect(req[p].op, repo)
  /\ req' = [req EXCEPT ![p] = [pc |-> "inval", todo |-> ToInvalidate(req[p].op)]]
  /\ excused' = excused \cup Below(req[p].op)
  /\ UNCHANGED <<cache, writes>>

\* Gitaly refuses, or the call fails before it reaches Gitaly.
Reject(p) ==
  /\ req[p].pc = "sent"
  /\ ~Legal(req[p].op, repo) \/ Faults
  /\ req' = [req EXCEPT ![p] = Idle]
  /\ UNCHANGED <<repo, cache, writes, excused>>

Changed(r1, r2) == {k \in Keys : Answer(k, r1) # Answer(k, r2)}

\* Gitaly commits and the handler sees an error or its deadline: it
\* returns without invalidating anything.
CommitLost(p) ==
  /\ Faults
  /\ req[p].pc = "sent"
  /\ Legal(req[p].op, repo)
  /\ repo' = Effect(req[p].op, repo)
  /\ req' = [req EXCEPT ![p] = Idle]
  /\ excused' = excused \cup Changed(repo, repo')
  /\ UNCHANGED <<cache, writes>>

\* Somebody else commits to the branch, or a commit whose handler gave up
\* on it arrives late.
OtherCommit(op) ==
  /\ Faults
  /\ writes < MaxWrites
  /\ Legal(op, repo)
  /\ repo' = Effect(op, repo)
  /\ excused' = excused \cup Changed(repo, repo')
  /\ writes' = writes + 1
  /\ UNCHANGED <<cache, req>>

\* Mutant: the loop over the keys ends one round late.
InvalidateOneMore(p) ==
  /\ req[p].pc = "inval"
  /\ LET todo == req[p].todo
     IN  /\ cache' = [cache EXCEPT ![Head(todo)] = None]
         /\ excused' = excused \ {Head(todo)}
         /\ req' = [req EXCEPT ![p] = [pc |-> "inval", todo |-> Tail(todo)]]
  /\ UNCHANGED <<repo, writes>>

\* One Cache.Invalidate of InvalidatePaths.
Invalidate(p) ==
  /\ req[p].pc = "inval"
  /\ LET todo == req[p].todo
     IN  /\ cache' = [cache EXCEPT ![Head(todo)] = None]
         /\ excused' = excused \ {Head(todo)}
         /\ req' = [req EXCEPT ![p] =
                      IF Tail(todo) = <<>> THEN Idle
                      ELSE [pc |-> "inval", todo |-> Tail(todo)]]
  /\ UNCHANGED <<repo, writes>>

\* Mutant: sizes do not age.
ExpireButMeta(k) ==
  /\ cache[k] # None /\ k.kind # "meta"
  /\ cache' = [cache EXCEPT ![k] = None]
  /\ excused' = excused \ {k}
  /\ UNCHANGED <<repo, req, writes>>

\* An entry leaves the cache, by its age or to make room.
Expire(k) ==
  /\ cache[k] # None
  /\ cache' = [cache EXCEPT ![k] = None]
  /\ excused' = excused \ {k}
  /\ UNCHANGED <<repo, req, writes>>

-----------------------------------------------------------------------------
\* The steps of a request that is under way.
Proceed(p) ==
  \/ Fetch(p) \/ FetchFails(p) \/ Store(p)
  \/ Commit(p) \/ Reject(p) \/ CommitLost(p) \/ Invalidate(p)

Next ==
  \/ \E p \in Procs : \E k \in ReadKeys : Miss(p, k)
  \/ \E p \in Procs : \E op \in Ops : Submit(p, op)
  \/ \E p \in Procs : Proceed(p)
  \/ \E op \in Ops : OtherCommit(op)
  \/ \E k \in Keys : Expire(k)

Spec == Init /\ [][Next]_vars

\* GRPCTimeout ends every call, and a TTL every entry; nothing makes a
\* request come or Gitaly commit.
FairSpec ==
  /\ Spec
  /\ \A p \in Procs : WF_vars(Proceed(p))
  /\ \A k \in Keys : WF_vars(Expire(k))

-----------------------------------------------------------------------------
Request ==
  [pc : {"idle"}]
    \cup [pc : {"fetch"}, key : Keys]
    \cup [pc : {"store"}, key : Keys, value : Contents \cup Listing]
    \cup [pc : {"sent"}, op : Operations]
    \cup [pc : {"inval"}, todo : Seq(Keys) \ {<<>>}]

TypeOK ==
  /\ repo \in [Files -> Contents \cup {None}]
  /\ cache \in [Keys -> {None} \cup Contents \cup Listing]
  /\ req \in [Procs -> Request]
  /\ writes \in Nat
  /\ excused \subseteq Keys

Stale(k) == cache[k] # None /\ cache[k] # Answer(k, repo)

\* The keys some handler has still to invalidate.
Pending(k) ==
  \E p \in Procs : req[p].pc = "inval" /\ k \in ToSet(req[p].todo)

\* fs.go:39: a commit leaves nothing wrong in the cache but what its handler
\* is about to invalidate, unless a fill brought an old answer after that
\* (node.go:66-72), the reply was lost, somebody else committed, or the key
\* lies below a moved directory.  No other interleaving goes wrong.
StaleExplained == \A k \in Keys : Stale(k) => Pending(k) \/ k \in excused

\* fs.go:39: when no request is under way every cached answer is Gitaly's.
QuietMeansFresh ==
  (\A p \in Procs : req[p] = Idle) => \A k \in Keys : ~Stale(k)

\* Once commits stop the cache converges to the repository, whatever fills,
\* lost replies and foreign commits left in it: its entries age.
Converges == <>[](\A k \in Keys : ~Stale(k))
=============================================================================
