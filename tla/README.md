# Verification of fuse-gitaly

TLA+ specifications, TLC runs and TLAPS proofs for the program in `src/`: a
FUSE file system over a repository that Gitaly serves (`-mode=gitaly`), a FUSE
file system over a list of skills cloned to local disk (`-mode=skills`), and
the one-shot command `skills-sync`. Paths below are relative to `src/`.

## 1. The system

| Component | State | Operations | Interacts with |
|---|---|---|---|
| cache (`internal/cache/cache.go`) | a map from keys to list elements, the list in order of use, a mutex | Get, Set, Invalidate, InvalidatePrefix | called by every FUSE handler and by the list poller |
| cache keys (`internal/cache/keys.go`) | none | KeyTree, KeyMeta, KeyBlob, KeyBlobPath, KeySkillsList | |
| repository nodes (`internal/fuse/node.go`, `fs.go`) | Dir (path), File (path, oid), held by the kernel | Attr, Lookup, ReadDirAll, Mkdir, Create, Rename, Open; InvalidatePaths, InvalidateBlob | cache, Gitaly client |
| open files (`internal/fuse/handle.go`) | file, data (a slice), dirty, a mutex | Read, Write, Flush, Release | the slices in the cache, Gitaly client |
| Gitaly client (`internal/gitalyclient/client.go`) | a connection | GetTreeEntries, GetTreeEntry, GetBlob, UserCommitFiles, DefaultBranch | Gitaly (external) |
| configuration (`internal/config/config.go`) | GRPCTimeout, the cache's Config | WithTimeout | every call to Gitaly |
| skills client (`internal/skillsclient/client.go`) | directories on disk | FetchSkills, CloneOrPull, LastCommit, GetLocalHEAD, SyncAll | the skills API, git (external) |
| pollers (`internal/skillsclient/poller.go`) | a ticker | list poll, commit poll | skills client, cache |
| skills file system (`internal/fuse/skills_fs.go`) | the list of each category, in the cache | getSkills, Lookup, ReadDirAll | skills client, cache, loopback |
| loopback nodes (`internal/fuse/loopback.go`) | path, data, dirty | Open, Read, Write, Flush, Release | the clones on disk |
| mount command (`cmd/gitaly-fuse/main.go`) | the mount, the serving goroutine, the pollers | run | all of the above |
| skills-sync (`cmd/skills-sync/main.go`) | marker files | run | skills client |

The FUSE library serves every request on a goroutine of its own. The only
locks are the cache's mutex, one mutex for each handle, and the counter's mutex
of SyncAll. None of them is held across a call to Gitaly, to the skills API or
to git. That is where the hard behaviour is:

* a handler asks the cache, then Gitaly, then stores the answer: a commit and its
  invalidation fit in between;
* an invalidation is a sequence of separate calls to the cache;
* a commit may have happened although its call failed or timed out;
* a handle and the cache share one byte slice, and a File keeps the oid of the
  moment it was looked up;
* `dirty` is cleared before the commit it announces;
* several callers run CloneOrPull on one directory with nothing between them;
* requests and the list poller set the cached lists of skills from answers of
  different age;
* a file of a clone is written back by os.WriteFile, which empties it first, while
  git may put another file in its place;
* the mount ends by a signal, from outside, or because its server fails, and
  skills-sync leaves marker files by which the next run goes, wherever it was
  killed.

What makes each component correct:

* cache: it is a map whose entries age, it stays within its limit, its two data
  structures agree, and it evicts the least recently used entry;
* repository nodes: what the cache holds is what Gitaly would answer, or somebody
  is about to remove it; where that fails, it heals;
* open files: bytes are read as they were written, an edit reaches the
  repository once it has been flushed, and the cache is not left with bytes no
  repository ever held;
* skills: a directory that a user can see is a complete clone; it follows the
  remote; the list follows the API;
* loopback files: what was saved last, and by whom nobody disturbed, is what the
  file holds; no file keeps parts of two contents;
* mount command: a mount that is stopped stops, and its exit status is true;
* skills-sync: every run ends as long as git does, and the marker files tell what
  happened.

## 2. Modules

| Module | What it is |
|---|---|
| `TTLMap` | abstract: a bounded map whose entries die of age |
| `LRUCache` | `cache.go`, one action per outcome of a method; implements `TTLMap` |
| `MCLRUCache` | TLC instance, with a history variable for the order of use |
| `LRUCache_proofs` | type correctness, consistency, refinement, the order of eviction |
| `GitalyFS` | fills, commits and invalidations of `node.go` and `fs.go`, interleaved |
| `MCGitalyFS` | TLC instances: a small tree with a directory that moves, and one of two levels |
| `GitalyFS_proofs` | type correctness, what invalidation covers, the cause of every stale entry, when a quiet cache is right |
| `HandleBuffer` | the arithmetic of Read and Write |
| `HandleBuffer_proofs` | what they do to bytes of any length |
| `FileHandles` | handles, Files and the slices they share with the cache, over `HandleBuffer` |
| `MCFileHandles` | TLC instances: a file of one byte, or one that does not exist yet |
| `FileHandles_proofs` | type correctness, spoilt entries have an owner, oids are cached with their blobs, edits are kept |
| `Follower` | abstract: the commit that is served to callers at one time follows a branch |
| `SkillRepo` | the clone of one skill under lookups and the commit poller; implements `Follower` |
| `MCSkillRepo` | TLC instance, with a history variable for callers left alone |
| `SkillRepo_proofs` | type correctness, refinement, where alone HEAD goes back, who returns is up to date, who is alone leaves a whole checkout |
| `SkillsSync` | `SyncAll` and the command skills-sync with its marker files, run after run; checked directly |
| `SkillsSync_proofs` | type correctness, the truth of both markers |
| `SkillsMount` | `run` of gitaly-fuse in skills mode: cached lists, list poller, server, signals, exit; checked directly |
| `SkillsMount_proofs` | type correctness, the truth of the exit status |
| `Loopback` | open files of a clone and their write-backs under git's resets, over `HandleBuffer` |
| `MCLoopback` | TLC instance: a file of at most two bytes |
| `Loopback_proofs` | type correctness, saved edits are on disk, files rest whole |

What composes what: `FileHandles` and `Loopback` take Read's and Write's
arithmetic from `HandleBuffer`; `GitalyFS` and `SkillsMount` use the cache as the
map that `LRUCache` is proved to implement; `SkillRepo` leaves behind what
`SkillsSync` takes as the outcomes of CloneOrPull, and its resets are those of
`Loopback`.

### LRUCache and TTLMap

`entries` is the key set of `c.entries`, `lru` the list with the least recently
used element first (`Front`), `now` the clock in ticks. Each method holds
`c.mu` from its first read to its return, so each outcome of a method is one
action: `GetMiss`, `GetExpired` (which removes), `GetHit` (which moves to the
back), `SetExisting`, `SetNew` (with the eviction), `Invalidate`.
`InvalidatePrefix` collects elements and then removes them one at a time:
`sweep` is what is left, and no other method starts before it is empty. `reply`
is what the last method returned; it is there so that the refinement speaks of
what callers see.

`TTLMap` has no list. A hit returns the value last set and never after its
time; a miss is honest; a Put may lose one other entry, only if the map is full
and the key new. `LRUCache` implements it with `StoreOf`: a key that a sweep has
still to remove is already out of the map.

### GitalyFS

`repo` is the branch in Gitaly, a map from file paths to contents; a directory
exists while a file lies below it, and Mkdir makes one with a `.gitkeep`, as
Gitaly does. A content stands for its oid and its size too. `cache` is the map
that `LRUCache` implements, with `Expire` for both age and eviction. `req` says
what each goroutine does:

* `Miss`, `Fetch`/`FetchFails`, `Store`: getTreeEntries (node.go:54-74), Attr
  (244-272) and Open by path (298-312), which share their shape. A hit changes
  nothing in the model and is not a step.
* `Submit`, `Commit`/`Reject`/`CommitLost`, then one `Invalidate` for each call
  of Cache.Invalidate: Mkdir, Create, Rename and commitIfDirty. `ToInvalidate`
  is the order of keys in InvalidatePaths (fs.go:41-57), with the arguments of
  each caller.
* `OtherCommit`: another user of the branch, and a commit that arrives after its
  handler gave up.

`excused` is a history variable: the keys that something other than a
successful handler left stale. No action reads it. A `Store` of an answer that
Gitaly would no longer give excuses its key; so do a lost reply, a foreign
commit, and, for the keys below it, a directory that moves. Removing or
refreshing the entry takes the excuse away.

The blob cache by oid is not here: no commit makes an oid mean another content.
How its entries go wrong all the same is the matter of `FileHandles`.

### HandleBuffer and FileHandles

`HandleBuffer` has `ReadAt` and `WriteAt` on sequences, with the three cases of
a write: inside the data, across its end, and beyond it with a gap of zeros.

`FileHandles` models slices as references: `slice` says what each one holds,
`cache` and `handle` refer to them. A write that does not grow the data changes
the slice in place, for the cache and for every handle that shares it
(handle.go:56); a write that grows it moves the handle to a new slice (52-54). A
slice that nothing refers to becomes `Unused`; its number is reused, smallest
first, so that the names of slices do not multiply states. An oid is the content
it is the hash of.

`nodes` keeps every File that Lookup or Create made: the kernel may use an old
one, and a cached tree may show an old oid. `flights` are commits between the
unlock of commitIfDirty and its end, in the stages `sent`, `paths`, `blob`; two
flushes of one handle may be in flight together, and the handle may be written
or released meanwhile. `Fail` is an error with or without a commit in Gitaly.

Accesses to a slice are atomic in the model. Two handles that share a slice lock
different mutexes, so in the program a copy of several bytes may tear; in the
runs with two handles a file has one byte.

### SkillRepo and Follower

One skill's directory under any number of callers of CloneOrPull: FUSE lookups,
for `Lookups`, and the commit poller. A caller goes through the lines of
client.go:127-187, each git command being several steps that others can come
between: `Check` (isGitDir), then `Remove` and git clone, or `Fetch`,
`ResetStart`, `ResetDone`, then `Describe`. The poller comes to it by `PollAsk`
and `PollCompare` (poller.go:128-150).

`dir` is what matters of the directory: `Absent` is a directory without `.git`;
otherwise `by` is the git clone that is at work in it, `lock` who holds
`.git/index.lock` (`Orphan`: a command that was killed), `mapped` whether fetch
has a branch to update (remote.origin.fetch), `tracking` is origin/ref, `head` is
HEAD, `files` the commit of which all files are (`None`: there are none,
`Partial`: of a mixture), and `stale` which of the refs a killed command left
locked. Commits of the ref are numbered; `Foreign` is HEAD on another branch,
which is what the clone has when the ref is not the default branch
(`DefaultRef`). git itself is external: only what it leaves behind is modelled.

git clone is four steps. `CloneInit` makes the `.git`. `CloneList` has the answer
of the remote: the commit is chosen and remote.origin.fetch is written, before
anything is downloaded, so that from here on others can fetch and reset in the
directory, and a clone that is killed in its download can be completed by the
next lookup. `CloneFetch` is the end of the download: refs and HEAD are written,
over what others have made of HEAD meanwhile, and the index is locked.
`CloneDone` is the end of the checkout, unless the files are there already
(`CloneSpoilt`) or the directory has gone (`CloneLost`).

`Fault` is a command that fails: git clone takes away what it made if it fails
before its checkout, and keeps the repository, with HEAD and a part of the files,
if it fails in it ("Clone succeeded, but checkout failed"). `Kill` is the end of
the request's context, on which `exec.CommandContext` kills the command and
nothing is cleaned up: `Killed` lists what each command may leave, locks of the
index, of HEAD and of origin/ref among it. The caller then waits (`killed`) until
CombinedOutput returns.

A lookup stands for any caller but the poller. Two of one name meet when the
kernel revalidates an entry, when two mounts or a mount and skills-sync share a
workspace, and when SyncAll finds a name twice in the list. RemoveAll is one
step, and a git clone whose directory another caller removes fails; neither
writes into what the other makes. The commit poller's own end is a `Kill` too:
pollerCancel ends its context wherever it is (main.go:229), and the poller of
the next mount goes on from there. The end of git reset, which puts the index in
place and then moves HEAD, is one step unless a kill comes between.

`Follower` has no directory, no git and no locks: a branch that grows (`remote`),
the commit that is served, and the callers that wait. A caller under way brings
a commit that is no older than its own start to where nothing is served
(`Bring`), or clears the place (`Lose`); success is told only where no commit
older than the call is served. `SkillRepo` implements it with the commit of which
all files are as what is served (`Served`) and a caller waiting from the moment
it asks for a commit until it is told (`AskedOf`), if Ref is the default branch.
On any other, nothing is ever served of it.

### SkillsSync

One workspace and the runs of skills-sync on it. `marker` is what
`.skills_initialized` says, `failure` whether `.skills_initialization_failed` is
there, `disk` the directory of each skill. `pc` follows main.go:39-110: `Skip` or
`Start`, `Fetch`, `SyncAll` (which fetches the list again; it may be another one),
`wait` for the goroutines, `failed` and `mark` before writeMarker. A goroutine
(`work`) goes through `Acquire` of a slot, `Cloned` or `CloneFails`, `CountResult`
under the mutex, and `Leave`, which is both deferred calls: the two are not told
apart by anything, since no goroutine comes after wg.Wait. `Deadline` is the end
of the ten minutes. `Crash` kills the process anywhere, a marker that is being
written is then perhaps `torn`; the next run begins from the files only. A
directory whose clone or reset broke off is `begun`, and a later fetch and reset
may complete it, or `broken`, by a lock or a lack of refs, which only a kill
leaves and which no later CloneOrPull mends (`LeftBy`). A marker whose writing
fails is dropped without a word, as in the code.

### SkillsMount

The API's list is a number that grows; `cache` has of each category the number of
the list that was stored. `Hit`, `Miss`, `Answer`, `Store` are getSkills of a
request, which may store an answer of any age; `Poll`, `PollAnswer`,
`SetOfficial`, `SetUser` are the list poller with OnRefresh, whose two Sets
others come between. `conf.room` is how many of the two lists the cache has room
for: none (`-cache=false`), one (`-cache-max-entries 1`), or both.

`main` follows run: `Mount` or its error, `Notify`, the wait for a signal,
`Cancel`, `Unmount`, and `Return` of what fs.Serve left in serveDone. The kernel
and fs.Serve are external: a mount in use is not unmounted, and Serve returns
when the mount has gone and requests are answered, or with an error at any time.
`UnmountedOutside` is fusermount by somebody else, which with `-z` succeeds while
the mount is in use.

### Loopback

`disk` is what the path holds, `handle` the open handles, `saves` the write-backs
between the unlock of writeBack and their end. os.WriteFile is two steps:
`OpenTruncate` empties the file, `Put` writes from its beginning over what is
there; `Open` may read between them. `Fail` is an error of either call, with any
part written. git replaces a file by unlinking it and writing a new one, which
is a save of its own (`Git`); a write-back that had the old one open goes on into
a file without a name (`PutUnlinked`). `landed` and `whole` are history: of whose
writing the file is, and what was put there without another writer coming
between.

## 3. Runs

All runs are complete explorations of their instance.

| Run | Question | Bounds, and why they are enough |
|---|---|---|
| `lru_ttl` | do map and list agree, is the cache the TTL map, is the victim the least recently used? | 3 keys in 2 places: eviction with a choice; TTL 2 in 4 ticks: entries of different ages, expiry at and after the boundary; prefixes of 2 keys |
| `fs_concurrent` | is every stale entry of the kinds we know, and does the cache become right again? | 2 goroutines, 2 commits of each of the four kinds, lost replies and foreign commits, a directory that moves, a file too large to cache; one level of directories, since `InvalidationCovers` is proved for trees of any depth; fairness below |
| `fs_fill_race` (violation) | with no fault at all, is a quiet cache right? | 2 goroutines, 1 commit, two levels of directories |
| `fh_shared` | two handles on one slice: is a spoilt entry always somebody's to remove, is what is cached at an oid that blob, is an edit kept? | 2 handles (alike: symmetry), one byte of two values, a file that is there or is created, 2 commits, of one handle or of both: the second writes into what the first committed and the cache holds; 2 Files of a file that is there, 1 of one that was created, which is then cached by its path |
| `fh_reopen` (violation) | does a file show its edit when opened again? | no faults |
| `skill_race` | does what is served follow the remote, is whoever succeeds as new as it was at its start, when does HEAD go back, does a caller left alone leave a complete checkout? | 2 lookups (alike: symmetry) and the poller, from nothing, so that clones and removals take part; 2 commits, the second of which may come anywhere in the others' calls; a fault and a kill, so that one caller breaks off under the others or before them; the theorems have any number of each; Ref is the default branch |
| `skill_converges` | what can keep HEAD from reaching the remote? | the same, over the steps of `SkillRepo` alone, without symmetry; fairness below |
| `skill_killed` (violation) | does it converge when lookups are interrupted, if every command ends? | 1 kill |
| `skill_other_ref` (violation) | does it converge on a ref that is not the default branch, if every command ends? | no fault |
| `skills_mount` | do cached lists become the API's, does the process end on a signal, is its status true? | 2 users, 2 lists, a failure, room for 0, 1 or 2 lists, polled or not: a request's old answer, the poller's and a new one can meet in any order |
| `skills_sync` | is what the markers tell true, and does every run end if git does? | 3 skills and a nameless one for 2 slots, so that one waits; 3 runs: one killed, one that fails, one that tells; one marker not written |
| `loopback` | is a saved edit on disk, can a file rest as a mixture? | 2 handles (alike: symmetry), 2 bytes of two values, so that the shorter content may meet the longer; 2 write-backs, 1 reset that changes or removes the file, 1 failure: every pair of writers overlaps |

What they show:

* The cache is right. Its mutex covers everything; the one surprise is that a
  MaxEntries of 0 is 1000 (`Limit`), where cache.go:15 says it is no limit.
* InvalidatePaths names the right keys for every single commit of a file. A
  stale entry has one of four causes: an old answer stored late, a lost reply,
  a foreign commit, a directory that moved. There is no other, in particular
  none from the calls of one invalidation interleaving with another.
  Staleness lasts until the TTL; with `-cache-ttl 0` nothing ends it.
* No edit is lost between the copy and `dirty = false`, since both are under the
  handle's mutex (`EditKept`). The property says nothing after a failed commit:
  the handle is then clean and Release commits nothing.
* A spoilt cache entry lives as long as somebody has uncommitted data in it; a
  commit that succeeds removes it (`SpoiltHasOwner`). Until then others who open
  a file with that blob read bytes that were never committed: `Write` in place
  changes the slice of the cache, so that KeyBlob is not always that blob. There
  is no other way for it not to be (`OidIsContent`): what Open fetches and caches
  at an oid is settled by the oid, whatever was committed to the path since.
* A File that was edited shows the old blob when it is opened again, until the
  kernel looks it up anew (`fh_reopen`); saving from there undoes the edit.
* A caller that is alone with a clone from its first step to its last is only ever
  answered with a complete one: whatever others did before, every way in which a
  clone, fetch or reset can break off leaves a directory on which CloneOrPull
  fails or which it repairs (`ServesClone`). With others at work on it no such thing
  holds, since a reset begins to replace files under those who have just been
  answered.
* Resets of several callers may overlap fetches in any order and HEAD does not go
  back (`HeadNeverBack`): git's lock of the index and the fetch before every
  reset are enough. What does move it back is a git clone: others find its `.git`
  while it downloads, fetch a newer commit and reset to it, and the clone then
  writes the HEAD it set out with. It does not replace their files, and fails, so
  that all files are still of a commit no older than any success that was told
  (`ReturnsFresh`), and to its callers CloneOrPull is a `Follower`
  (`ImplementsFollower`).
* `HeadConverges` names all that keeps HEAD from the remote's last commit: a
  directory that is removed for ever, since two lookups that keep finding no
  `.git` can each remove what the other is cloning; what a kill left in the way
  (`Wreck`: a lock, or a clone killed before it had a HEAD, which the poller
  skips); and a git that never comes back from the network. Without any one of
  the three TLC finds a counterexample. A clone killed later in its download is
  mended by the next lookup, and a lock is not: isGitDir takes the directory for
  a clone and every update fails (`skill_killed` shows it, where the lock is that
  of origin/ref, left by a git fetch). On a ref that is not the default branch
  nothing converges (`skill_other_ref`).
* It is HEAD that converges, not the files. A git clone that fails in its checkout
  keeps its HEAD, which the poller finds equal to the remote's last commit
  (poller.go:146), so that it leaves the files as they are; so does a reset that
  was killed after HEAD had been right. The next lookup resets and repairs them,
  or the next commit does.
* Nothing protects a clone from a caller that looked before it was there: `Remove`
  takes away what another caller has cloned since `Check`. This step is part of
  both runs; no property forbids it.
* Skills mode sets the TTL of the lists to 0 (main.go:150), where README.md:77 calls
  `-cache-ttl` the TTL of the skills list: a list that is cached stays until it
  is polled, and `-skills-list-poll-interval 0` leaves it for ever. With the
  poller, an old answer that a request stores late lives until the next poll at
  most, and both lists become right whatever the order (`ListsConverge`), even
  when the cache has room for one of them and they push each other out.
* A signal ends the process in every case: the mount may have gone already, or its
  server failed (`ExitsOnSignal`). Status 0 is never told of a mount that is
  still there (`ExitTold`); a mount whose file is open when the signal comes stays
  behind, with status 1. A signal before signal.Notify kills the process and may
  leave the mount.
* The markers tell the truth of the list that SyncAll fetched (`SummaryTrue`), which
  need not be the one run counted and printed before; an empty second list is
  told as completed. A run that ended with failures, or a marker that was torn,
  is not tried again: its marker is there. Every run ends unless some CloneOrPull
  never returns (`RunEnds`): a git that hangs is killed at the deadline, but
  exec.CommandContext has no WaitDelay here, and CombinedOutput waits on for a
  child of git, such as git-remote-https, that keeps the output open. So the ten
  minutes of main.go:60 do not bound a run.
* A file of a clone that is saved while another handle saves it, or while git
  replaces it, may rest as a mixture, or git's content may win silently; without
  such a meeting, or a write that failed, it never does (`RestsWhole`). An edit
  is never dropped between write and flush (`EditOnDisk`).

`CHECK_DEADLOCK` is off where the program ends by itself: `skills_mount` (the
process has exited), `skills_sync` (after the bound of runs), `loopback` (the
file has gone and nobody has it open). Elsewhere requests can always come.

### Fairness

`FairSpec` of `GitalyFS`: a request under way goes on, and a cached entry
expires. The first is justified by config.WithTimeout, which ends every call
unless `-grpc-timeout` is 0 (and by the FUSE library running every goroutine);
the second by the TTL, unless `-cache-ttl` is 0: an entry past its time is
removed by the Get that meets it, so that no Get returns it. Nothing is
assumed about requests, commits or replies; Gitaly may refuse everything.

`FairSpec` of `SkillRepo`: the poller polls again and again, by its ticker
(poller.go:105-119), and a call under way takes its next step wherever that does
not depend on the network: LastCommit and FetchSkills end by the client's
timeout, and a checkout, a reset and os.RemoveAll end by themselves. Nothing is
assumed of a git that talks to the remote, nor of a caller that waits for the
children of a git that was killed (`Remote`): the poller's context has no
deadline (main.go:195), a FUSE request none but the kernel's interrupt. Nothing
is assumed of lookups or of pushes either; the number of failing commands is
bounded by `MaxFaults`, so that failures end. `PromptSpec` adds that every command
ends. Only the two violation runs use it: what they show fails even then.

`FairSpec` of `SkillsMount`: the poller's ticker fires, its calls and those of
requests end by the client's timeout of 60 s, and the goroutines of run and Serve
go on. Nobody has to use the mount, close a file, send a signal or unmount.

`FairSpec` of `SkillsSync`: every step of the program itself ends; FetchSkills
does by its timeout (`FetchFails` is always possible while it is asked), and the
deadline comes. Nothing is assumed of CloneOrPull, before the deadline or after
it: `RunEnds` has it as its exception. A semaphore that is free is taken: each
goroutine is fair, since Go's channels serve those who wait in order.

## 4. Proofs

Proved by TLAPS for every value of the constants, from the assumptions named in
the modules (`CacheAssumption`, `FSAssumption`, `HandleAssumption`,
`RepoAssumption`, `SyncAssumption` and `AbsentAssumption`, `MountAssumption`,
`LoopbackAssumption`):

* `LRUCache_proofs`. `IInv` is TypeOK, that the positions of the list and the
  keys of the map correspond one to one, and that the number of keys is within
  the limit. The correspondence is what makes `PosOf`, which the code has as a
  pointer, well defined; without it no step on the list can be shown to
  preserve anything. From it follow `TypeCorrect`, `Consistent` and
  `Refinement` (`Spec => ImplementsMap`), step by step: each action is a step of
  `TTLMap` or leaves its variables alone. `EvictionOrder` is of `HSpec`, the cache
  with the history of uses that `MCLRUCache` keeps: the list is sorted by that
  history (`ListOrderIsUseOrder`), so that the front, which goes, is the key whose
  use is the oldest.
* `GitalyFS_proofs`. `InvalidationCovers`: for a legal operation, a key whose
  answer the commit changes is in the list that the handler then works off, or
  lies below a directory that moves. It rests on lemmas about prefixes of paths.
  `StaleHasCause` makes it an invariant: `StaleExplained` needs in addition that
  requests carry what their state says (TypeOK). The step of Commit is the
  lemma; of Store and the faults, the definition of `excused`; of Invalidate,
  that only the head of a list is removed while the entry itself goes.
  `OnlyLateFills` says what is left when nobody else commits, no reply is lost and
  only files are renamed (`FilesMove`; then nothing lies below a moved path,
  `FileMoveCovered`): `QuietMeansFresh` holds for any number of goroutines as long
  as no answer on its way has been overtaken by a commit (`Current`), for then
  nothing is ever excused. One goroutine commits nothing while it fills, so
  `SequentialFresh` has no such premise. The run `fs_fill_race` shows, under the
  same assumptions, that two goroutines do need it.
* `HandleBuffer_proofs`. A write returns a sequence of bytes that is never
  shorter (`WriteLength`), leaves what is outside its range (`WriteElsewhere`),
  a read of the range just written returns it (`ReadsItsWrite`), and a read is
  bounded by its size and by the end of the data (`ReadBounded`).
* `SkillRepo_proofs`. The invariants are not proved action by action. `StepEffect`
  says once what a step of a caller does to the directory, as one of eight
  effects (`Stays`, `Makes`, `Lists`, `Writes`, `Completes`, `Fetches`, `Locks`,
  `Moves`), and every invariant is kept effect by effect. HEAD changes in
  `CloneFetch` and in `ResetDone` only, and neither's guard speaks of what HEAD is.
  So `IInv` adds three facts: HEAD is no newer than origin/ref and that no newer
  than what a fetch would bring, and without remote.origin.fetch there is no
  origin/ref (`HeadsInOrder`); the target of whoever holds the lock lies between
  HEAD and origin/ref, because nobody but a git clone moves HEAD without the
  lock, and is no older than the target of that clone (`ResetInOrder`); and
  before git clone has listed the refs nobody can have fetched or reset, while
  from then on others fetch nothing older than what it is to write
  (`CloneInOrder`). From it come `TypeCorrect` and `NeverBack`: HEAD of a clone
  goes back only where a git clone writes it, for any number of callers, commits,
  faults and kills.
  `FreshReturn` is `ReturnsFresh` under the assumption that Ref is the default
  branch, on another it is false: after its fetch, its clone or its reset a caller
  has a directory that is as new as its start (`FreshCall`, `FreshRefs`,
  `FreshFiles`), and what others do to it afterwards keeps that: `MoverFresh` is
  for the caller that steps, `WaiterFresh` for those that do not.
  `FollowsRemote` (`Spec => ImplementsFollower`, with the same assumption) maps
  each step on the directory to one of `Follower`, from the same invariant.
  `ServesWhole` is of `MCSpec`, with the history of who was left alone: as long as
  a caller is, all others are idle and the directory is as its own last step left
  it (`AloneInv`).
  `OtherRefNeverServed` is the other side of the assumption: if Ref is not the
  default branch, no origin/Ref is ever there, no reset gets under way and no
  files of Ref are ever there, in any interleaving, so that what `skill_other_ref`
  finds is not a matter of timing.
* `FileHandles_proofs`. `SpoiltIsOwned`, `BlobIsOfItsOid` and `EditIsKept`, for
  any number of files, handles and commits and contents of any length.
  `SpoiltHasOwner` says nothing of which handles share the spoilt slice, so `IInv`
  has `Shared`: a slice is in use as long as something refers to it, it is cached
  at one key at most, and a handle that has a cached slice has that key. Its owner
  is kept through a commit's stages only as long as the key has still to be
  dropped (`WillDrop`): an InvalidateBlob without an oid drops nothing. `EditKept`
  needs that the commits under way carry what their handle holds (`FlightData`),
  that numbers only grow (`Numbered`), and that nobody has a handle on a file that
  does not exist (`Exists`), so that Create cannot change a file under a handle.
  The lemma `NewSlice` is for every step that gives a handle a slice,
  `SnapshotStep` for Flush and Release, `DropStep` for every step that takes keys
  from the cache. `BlobIsOfItsOid` adds that a slice cached at an oid was made of
  that content (`CachedOrigin`), which needs that an Open under way has the data
  of its File's oid and that only a File without one asks for its path
  (`OpeningOid`).
* `SkillsSync_proofs`. `SummaryIsTrue`: the counters are the numbers of goroutines
  that have counted (by the cardinality of sets that gain one member at a step),
  and a goroutine that ended well left a clone that nobody breaks any more, since
  only a running one does. `FailureIsTrue`: a failure marker is there only at
  points of the run that come after its own failure, or without a success marker.
* `SkillsMount_proofs`. `ExitIsTrue`, from what run has brought about when it has
  come to a line (`Reached`): without it nothing says that a mount that was
  unmounted stays so, or that a server that ended well answers nobody.
* `Loopback_proofs`. `EditIsOnDisk` and `FileRestsWhole`: what is on disk while
  writers have the file open is their own business, so `IInv` says what each
  writer that was alone will leave, and that the file is empty while one alone
  has it open; `WriteEmpty` is the lemma that a write into an empty file leaves
  exactly its bytes.

Every invariant, action property and refinement that a passing run checks is
stated by one of these theorems. Only model-checked are the liveness properties,
`Converges` of `GitalyFS`, `HeadConverges`, `ListsConverge`, `ExitsOnSignal` and
`RunEnds`, which are out of the prover's reach, as is what a recursive definition
computes for every input. The symmetry of handles in the runs of `FileHandles` and
`Loopback` and of lookups in `skill_race`, and every bound named `Max...`, is
TLC's alone: the theorems hold for every value.

## 5. What is abstracted or left out

* The cache switched off (a nil `*Cache`): every handler then calls Gitaly.
* A path that is at one time a file and at another a directory. `Files` and
  `Dirs` are disjoint in the instances.
* Whether Gitaly accepts a MOVE of a directory depends on its version; the model
  lets it, which is what makes the keys below it stale. `Effect` and `Legal` are
  external: they say what the operations mean in git.
* Inode numbers, modes and times, logging, flags, the environment variables,
  the messages within one gRPC stream.
* Reads that change nothing: Attr, Lookup and ReadDirAll of loopback directories,
  the constant root of the skills file system, GetTreeEntry of a hit.
* In skills-sync, a workspace directory that cannot be made: the command ends with
  status 1 before it has any state. A failure marker that cannot be removed is not
  modelled either; the error of os.Remove is dropped (main.go:43).
* Two skills-sync processes on one workspace at a time. Their clones of a directory
  are callers of `SkillRepo`; their markers are not modelled.
* A child of a killed git that still writes into the directory after its parent has
  gone. The models have what the killed git leaves (`Killed`, `LeftBy`) and that
  the caller may wait for such a child for ever (`Remote`, `RunEnds`).
* Locks that a killed command leaves on other files of `.git` (`shallow.lock`,
  `packed-refs.lock`, `config.lock`). What they can do is make a later git fetch
  fail, as a lock of origin/ref does.
* OpenKeepCache (node.go:314, loopback.go:146): whether the kernel shows pages from
  before a change is the kernel's affair; nothing in the code tells it of one.
* Torn copies: two handles that share a slice lock different mutexes
  (handle.go:56), and a copy of several bytes may mix two writes. A byte is
  written in one step here.

### Not modelled

* The kernel's table of nodes. Dir.Rename (node.go:209-231) moves the file in Gitaly
  and drops cached keys, but the node that the kernel renames keeps the path it
  was made with: a handle that is open across the Rename, or a node the kernel
  uses again before it asks anew, commits to and reads the old path. The code
  does this whenever the kernel asks it to; when the kernel does is not in it.
* gitaly mode before Mount: flags, the dial, the default branch. It either reaches
  Mount or ends the process, and keeps no state.
* The failed flush (handle.go:89, loopback.go:206): that the handle stays clean and
  the edit is lost when Release finds nothing to commit is a step of the models
  (`Fail`), and no text of the repository promises a retry, so no property
  claims one.

## 6. Plan

1. A node table for `GitalyFS` with an assumption on the kernel, for Rename.
2. `Loopback` composed with `SkillRepo`: which commit's file a handle has open.
3. The safety kernels of the liveness properties: that whoever waits for a slot of
   SyncAll waits for a goroutine that can go on, and that a poll without a change
   behind it leaves no older list.
