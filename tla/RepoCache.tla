------------------------------ MODULE RepoCache ------------------------------
(***************************************************************************)
(* The cache of open repositories and the context of a thread (GitAccess   *)
(* and selectRepository in gd/src/gd.cpp, db in gd/inc/gd/gd.h).           *)
(*                                                                         *)
(* selectRepository() searches the cache, looks at the file system, opens  *)
(* or creates the repository and caches it, in steps with nothing held     *)
(* between them.  Search and insertion are guarded by a shared_mutex;      *)
(* cleanRepo() erases under a shared lock.  Every thread has a repository  *)
(* and a reference of its own, which db uses and which the library sets    *)
(* behind the back of the contexts the thread holds.                       *)
(*                                                                         *)
(* A repository that was opened is a place in `opened', like an address    *)
(* that is never used again; a pointer is such a place, 0 is nullptr.  A   *)
(* freed one that is still used is undefined behaviour: the call may       *)
(* appear to work, fail, or end the process (Crash).                       *)
(***************************************************************************)
EXTENDS Naturals, Sequences, FiniteSets

CONSTANTS
  Threads,   (* the threads of the process                               *)
  Cleaners,  (* those of them that call cleanRepo()                      *)
  Paths,     (* where repositories can be                                *)
  Branches,  (* branch names                                             *)
  Main,      (* the branch HEAD names                                    *)
  Gone,      (* there is no directory                                    *)
  NoPath,    (* no path                                                  *)
  MaxOpened  (* bound on the repositories opened by one process          *)

ASSUME CleanerAssumption == Cleaners \subseteq Threads
ASSUME BranchAssumption  == Main \in Branches
ASSUME NoneAssumption   == (\A S \in SUBSET Branches : S # Gone) /\ NoPath \notin Paths
ASSUME BoundAssumption   == MaxOpened \in Nat

VARIABLES
  disk,     (* the branches in the directory of every path, or Gone      *)
  opened,   (* the path of every repository opened so far                *)
  open,     (* those that were not freed                                 *)
  cleaned,  (* history: those that cleanRepo() freed                     *)
  cache,    (* repoCache_: the repository of every path, or 0            *)
  sharing,  (* the threads that hold cacheAccess_ shared                 *)
  db,       (* ctx_, thread_local: repository and reference              *)
  held,     (* the contexts every thread holds                           *)
  job       (* how far every thread is in selectRepository, cleanRepo     *)

memory == <<opened, open, cleaned, cache, sharing, db, held, job>>
vars == <<disk, memory>>

Handles == 0 .. Len(opened)

Context(r, b) == [repo |-> r, ref |-> b]
NoContext == Context(0, Main)

Idle == [pc |-> "idle", path |-> NoPath, repo |-> 0]

Init ==
  /\ disk = [p \in Paths |-> Gone]
  /\ opened = << >>
  /\ open = {}
  /\ cleaned = {}
  /\ cache = [p \in Paths |-> 0]
  /\ sharing = {}
  /\ db = [t \in Threads |-> NoContext]
  /\ held = [t \in Threads |-> {}]
  /\ job = [t \in Threads |-> Idle]

At(t, pc) == job[t].pc = pc

Path(t) == job[t].path

(* The call goes on, with repository r. *)
Goto(t, pc, r) == job' = [job EXCEPT ![t] = [pc |-> pc, path |-> Path(t), repo |-> r]]

(* The branches in the directory a repository was opened in. *)
BranchesOf(r) ==
  IF disk[opened[r]] = Gone THEN {} ELSE disk[opened[r]]

-------------------------------------------------------------------------------
(* selectRepository() *)

(* Bound: what is opened, and what those that are on the way may open.    *)
Room ==
  Len(opened) + Cardinality({t \in Threads : At(t, "search") \/ At(t, "probe")
                                              \/ At(t, "open") \/ At(t, "create")})
    < MaxOpened

(* The caller waits for no one: cacheAccess_ is held alone only within     *)
(* CacheRepo, which is one step.                                           *)
SelectRepository(t, p) ==
  /\ At(t, "idle")
  /\ Room
  /\ job' = [job EXCEPT ![t] = [pc |-> "search", path |-> p, repo |-> 0]]
  /\ sharing' = sharing \union {t}
  /\ UNCHANGED <<disk, opened, open, cleaned, cache, db, held>>

(* Mutant: the lock is kept until the repository is cached.                *)
GetRepoKeepsLock(t) ==
  /\ At(t, "search")
  /\ IF cache[Path(t)] # 0
     THEN /\ db' = [db EXCEPT ![t] = Context(cache[Path(t)], Main)]
          /\ Goto(t, "found", cache[Path(t)])
          /\ sharing' = sharing \ {t}
     ELSE Goto(t, "probe", 0) /\ UNCHANGED <<db, sharing>>
  /\ UNCHANGED <<disk, opened, open, cleaned, cache, held>>

(* A repository that is found becomes the one of the thread; the lock is   *)
(* released before anything is done with it.                               *)
GetRepo(t) ==
  /\ At(t, "search")
  /\ IF cache[Path(t)] # 0
     THEN /\ db' = [db EXCEPT ![t] = Context(cache[Path(t)], Main)]
          /\ Goto(t, "found", cache[Path(t)])
     ELSE Goto(t, "probe", 0) /\ UNCHANGED db
  /\ sharing' = sharing \ {t}
  /\ UNCHANGED <<disk, opened, open, cleaned, cache, held>>

RepoExists(t) ==
  /\ At(t, "probe")
  /\ Goto(t, IF disk[Path(t)] = Gone THEN "create" ELSE "open", 0)
  /\ UNCHANGED <<disk, opened, open, cleaned, cache, sharing, db, held>>

(* A repository is opened; only the thread knows of it as yet. *)
Open(t) ==
  /\ opened' = Append(opened, Path(t))
  /\ open' = open \union {Len(opened')}
  /\ Goto(t, "opened", Len(opened'))

OpenRepository(t) ==
  /\ At(t, "open")
  /\ disk[Path(t)] # Gone
  /\ Open(t)
  /\ UNCHANGED <<disk, cleaned, cache, sharing, db, held>>

(* Mutant: whatever is in the directory is created anew.                   *)
CreateRepositoryAnew(t) ==
  /\ At(t, "create")
  /\ Open(t)
  /\ disk' = [disk EXCEPT ![Path(t)] = {}]
  /\ UNCHANGED <<cleaned, cache, sharing, db, held>>

(* Without GIT_REPOSITORY_INIT_NO_REINIT a repository that has come to     *)
(* exist in the meantime is opened as it is.                               *)
CreateRepository(t) ==
  /\ At(t, "create")
  /\ Open(t)
  /\ disk' = [disk EXCEPT ![Path(t)] = IF @ = Gone THEN {} ELSE @]
  /\ UNCHANGED <<cleaned, cache, sharing, db, held>>

(* libgit2 refuses; the thread keeps the repository it had. *)
SelectFails(t) ==
  /\ At(t, "open") \/ At(t, "create")
  /\ job' = [job EXCEPT ![t] = Idle]
  /\ UNCHANGED <<disk, opened, open, cleaned, cache, sharing, db, held>>

(* Mutant: the newcomer takes the place of the one that is cached.         *)
CacheRepoReplaces(t) ==
  /\ At(t, "opened")
  /\ sharing = {}
  /\ cache' = [cache EXCEPT ![Path(t)] = job[t].repo]
  /\ open' = open \ {cache[Path(t)]}
  /\ db' = [db EXCEPT ![t] = Context(cache'[Path(t)], Main)]
  /\ Goto(t, "found", cache'[Path(t)])
  /\ UNCHANGED <<disk, opened, cleaned, sharing, held>>

(* Mutant: the one that came too late is not freed.                        *)
CacheRepoLeaks(t) ==
  /\ At(t, "opened")
  /\ sharing = {}
  /\ IF cache[Path(t)] = 0
     THEN cache' = [cache EXCEPT ![Path(t)] = job[t].repo]
     ELSE UNCHANGED cache
  /\ db' = [db EXCEPT ![t] = Context(cache'[Path(t)], Main)]
  /\ Goto(t, "found", cache'[Path(t)])
  /\ UNCHANGED <<disk, opened, open, cleaned, sharing, held>>

(* Mutant: the thread works on the one it has opened, not the one cached.  *)
CacheRepoKeepsOwn(t) ==
  /\ At(t, "opened")
  /\ sharing = {}
  /\ IF cache[Path(t)] = 0
     THEN cache' = [cache EXCEPT ![Path(t)] = job[t].repo] /\ UNCHANGED open
     ELSE open' = open \ {job[t].repo} /\ UNCHANGED cache
  /\ db' = [db EXCEPT ![t] = Context(job[t].repo, Main)]
  /\ Goto(t, "found", cache'[Path(t)])
  /\ UNCHANGED <<disk, opened, cleaned, sharing, held>>

(* Mutant: nothing comes back from an insertion that came too late.        *)
CacheRepoYieldsNull(t) ==
  /\ At(t, "opened")
  /\ sharing = {}
  /\ IF cache[Path(t)] = 0
     THEN /\ cache' = [cache EXCEPT ![Path(t)] = job[t].repo]
          /\ Goto(t, "found", job[t].repo)
          /\ UNCHANGED open
     ELSE /\ open' = open \ {job[t].repo}
          /\ Goto(t, "found", 0)
          /\ UNCHANGED cache
  /\ db' = [db EXCEPT ![t] = Context(cache'[Path(t)], Main)]
  /\ UNCHANGED <<disk, opened, cleaned, sharing, held>>

(* emplace() inserts nothing if there is a repository already: that one is *)
(* used, and the one just opened is freed.                                 *)
CacheRepo(t) ==
  /\ At(t, "opened")
  /\ sharing = {}
  /\ IF cache[Path(t)] = 0
     THEN cache' = [cache EXCEPT ![Path(t)] = job[t].repo] /\ UNCHANGED open
     ELSE open' = open \ {job[t].repo} /\ UNCHANGED cache
  /\ db' = [db EXCEPT ![t] = Context(cache'[Path(t)], Main)]
  /\ Goto(t, "found", cache'[Path(t)])
  /\ UNCHANGED <<disk, opened, cleaned, sharing, held>>

(* The context of the caller; that HEAD may have no commit is ignored. *)
NewContext(t) ==
  /\ At(t, "found")
  /\ held' = [held EXCEPT ![t] = @ \union {Context(job[t].repo, Main)}]
  /\ job' = [job EXCEPT ![t] = Idle]
  /\ UNCHANGED <<disk, opened, open, cleaned, cache, sharing, db>>

-------------------------------------------------------------------------------
(* cleanRepo(), under one shared lock from the first step to the last.  A  *)
(* thread that searches while another erases finds the repository or not;  *)
(* that it may also crash is left to Crash.                                *)

CleanRepo(t, p) ==
  /\ At(t, "idle")
  /\ t \in Cleaners
  /\ job' = [job EXCEPT ![t] = [pc |-> "clean", path |-> p, repo |-> 0]]
  /\ sharing' = sharing \union {t}
  /\ UNCHANGED <<disk, opened, open, cleaned, cache, db, held>>

(* Frees the repository, whoever points to it. *)
Erase(t) ==
  /\ At(t, "clean")
  /\ cache' = [cache EXCEPT ![Path(t)] = 0]
  /\ open' = open \ {cache[Path(t)]}
  /\ cleaned' = cleaned \union ({cache[Path(t)]} \ {0})
  /\ Goto(t, "remove", 0)
  /\ UNCHANGED <<disk, opened, sharing, db, held>>

(* The directory goes, whether the repository was cached or not. *)
RemoveAll(t) ==
  /\ At(t, "remove")
  /\ disk' = [disk EXCEPT ![Path(t)] = Gone]
  /\ sharing' = sharing \ {t}
  /\ job' = [job EXCEPT ![t] = Idle]
  /\ UNCHANGED <<opened, open, cleaned, cache, db, held>>

-------------------------------------------------------------------------------
(* Calls with a context of the thread, or with db. *)

Calls(t, c) == At(t, "idle") /\ c \in held[t]

(* Any call may fail; it takes the context with it. *)
CallFails(t, c) ==
  /\ Calls(t, c)
  /\ held' = [held EXCEPT ![t] = @ \ {c}]
  /\ UNCHANGED <<disk, opened, open, cleaned, cache, sharing, db, job>>

(* setThreadBranch() comes before the branch is looked for, and changes    *)
(* the reference of the thread whatever repository the context is of.      *)
SelectBranch(t, c, b) ==
  /\ Calls(t, c)
  /\ db' = [db EXCEPT ![t] = Context(@.repo, b)]
  /\ held' = [held EXCEPT ![t] =
       (@ \ {c}) \union (IF b \in BranchesOf(c.repo) THEN {Context(c.repo, b)} ELSE {})]
  /\ UNCHANGED <<disk, opened, open, cleaned, cache, sharing, job>>

(* A commit, which makes the branch of HEAD if it is the first one. *)
Commit(t, c) ==
  /\ Calls(t, c)
  /\ disk[opened[c.repo]] # Gone
  /\ disk' = [disk EXCEPT ![opened[c.repo]] = @ \union {c.ref}]
  /\ UNCHANGED memory

CreateBranch(t, c, b) ==
  /\ Calls(t, c)
  /\ c.ref \in BranchesOf(c.repo)
  /\ disk' = [disk EXCEPT ![opened[c.repo]] = @ \union {b}]
  /\ UNCHANGED memory

(* getThreadContext(): a context on what the thread works on.  Unlike the  *)
(* constructor, Node::init() fails if the reference has no commit.         *)
ThreadContext(t) ==
  /\ At(t, "idle")
  /\ db[t].repo # 0
  /\ db[t].ref \in BranchesOf(db[t].repo)
  /\ held' = [held EXCEPT ![t] = @ \union {db[t]}]
  /\ UNCHANGED <<disk, opened, open, cleaned, cache, sharing, db, job>>

(* The process ends and another one begins. *)
Crash ==
  /\ opened' = << >>
  /\ open' = {}
  /\ cleaned' = {}
  /\ cache' = [p \in Paths |-> 0]
  /\ sharing' = {}
  /\ db' = [t \in Threads |-> NoContext]
  /\ held' = [t \in Threads |-> {}]
  /\ job' = [t \in Threads |-> Idle]
  /\ UNCHANGED disk

(* What a thread does on its own once selectRepository() or cleanRepo() is *)
(* called.                                                                 *)
Step(t) ==
  \/ GetRepo(t) \/ RepoExists(t) \/ OpenRepository(t) \/ CreateRepository(t)
  \/ SelectFails(t) \/ CacheRepo(t) \/ NewContext(t) \/ Erase(t) \/ RemoveAll(t)

Next ==
  \/ \E t \in Threads :
       \/ Step(t)
       \/ \E p \in Paths : SelectRepository(t, p) \/ CleanRepo(t, p)
       \/ ThreadContext(t)
       \/ \E c \in held[t] :
            \/ CallFails(t, c)
            \/ Commit(t, c)
            \/ \E b \in Branches : SelectBranch(t, c, b) \/ CreateBranch(t, c, b)
  \/ Crash

Spec == Init /\ [][Next]_vars

(* A thread that was called goes on when it can.                           *)
FairSpec == Spec /\ \A t \in Threads : WF_vars(Step(t))

-------------------------------------------------------------------------------
Jobs == [pc: {"idle", "search", "probe", "open", "create", "opened", "found",
              "clean", "remove"},
         path: Paths \union {NoPath}, repo: Nat]

(* Every pointer is null or to a repository opened by this process; a      *)
(* thread has a path exactly while it is called.                           *)
TypeOK ==
  /\ disk \in [Paths -> (SUBSET Branches) \union {Gone}]
  /\ opened \in Seq(Paths)
  /\ open \subseteq Handles \ {0}
  /\ cleaned \subseteq Handles \ {0}
  /\ cache \in [Paths -> Handles]
  /\ sharing \subseteq Threads
  /\ db \in [Threads -> [repo: Handles, ref: Branches]]
  /\ held \in [Threads -> SUBSET [repo: Handles \ {0}, ref: Branches]]
  /\ job \in [Threads -> Jobs]
  /\ \A t \in Threads : job[t].repo \in Handles /\ (At(t, "idle") <=> Path(t) = NoPath)

(* A repository that can be used: open, and the one everybody finds.       *)
Safe(r) == r \in open /\ cache[opened[r]] = r

(* gd.cpp:62-63: "the pointer is guaranteed to be safe to use as           *)
(* repositories are open for the entire life time of the application".     *)
(* cleanRepo() is the one exception: what a context, db, or a selection    *)
(* that is about to return points to is open and the one that is cached    *)
(* for its path, unless cleanRepo() freed it.  Threads that opened the     *)
(* same path at the same time must agree on one of the repositories.       *)
PointersStayOpen ==
  \A t \in Threads :
    /\ \A c \in held[t] : Safe(c.repo) \/ c.repo \in cleaned
    /\ db[t].repo # 0 => Safe(db[t].repo) \/ db[t].repo \in cleaned
    /\ At(t, "found") => Safe(job[t].repo) \/ job[t].repo \in cleaned

(* Only the repositories of the cache are open, and those on their way to  *)
(* it: of several opened for one path at the same time all but one are     *)
(* freed, also when cleanRepo() comes in between.                          *)
NothingLeaks ==
  \A r \in open :
    \/ \E p \in Paths : cache[p] = r
    \/ \E t \in Threads : At(t, "opened") /\ job[t].repo = r

(* A repository is cached under the path it was opened from, and is open.  *)
(* A thread that selected it works on it through db when it returns,       *)
(* whether it was cached before, opened, or opened in vain.                *)
SelectSetsDb ==
  /\ \A p \in Paths : cache[p] # 0 => cache[p] \in open /\ opened[cache[p]] = p
  /\ \A t \in Threads : At(t, "found") =>
       db[t] = Context(job[t].repo, Main) /\ opened[db[t].repo] = Path(t)

(* Threads that find no repository create it each; the later one must not  *)
(* undo what was committed after the earlier one.  Only cleanRepo() takes  *)
(* a repository or a branch away, and only at its own path.                *)
CreationKeepsBranches ==
  [][\A p \in Paths :
       \/ disk[p] = Gone
       \/ disk'[p] # Gone /\ disk[p] \subseteq disk'[p]
       \/ \E t \in Cleaners : At(t, "remove") /\ Path(t) = p /\ job'[t] = Idle]_vars

(* selectRepository() and cleanRepo() return, unless others take the lock  *)
(* again and again: shared_mutex does not promise a turn to a thread that  *)
(* wants it alone.                                                         *)
SelectReturns ==
  \A t \in Threads :
    \/ ~At(t, "idle") ~> At(t, "idle")
    \/ []<><<\E u \in Threads \ {t} : u \notin sharing /\ u \in sharing'>>_vars

(* A repository in hand is nobody else's, and not in the cache.            *)
Private ==
  \A t \in Threads : At(t, "opened") =>
    /\ job[t].repo \in open
    /\ opened[job[t].repo] = Path(t)
    /\ \A p \in Paths : cache[p] # job[t].repo
    /\ \A u \in Threads \ {t} : At(u, "opened") => job[u].repo # job[t].repo

(* Only what a call of this kind reaches. *)
OnlyCleanersClean ==
  \A t \in Threads :
    /\ At(t, "clean") \/ At(t, "remove") => t \in Cleaners
    /\ At(t, "found") => job[t].repo # 0

(* The inductive invariant of RepoCacheProofs.                             *)
CacheInv == TypeOK /\ OnlyCleanersClean /\ Private /\ SelectSetsDb /\ NothingLeaks

-------------------------------------------------------------------------------
(* What is said of this code, and is not so. *)

(* gd.cpp:28: "Cache entries are serialized, multiple threads can use the  *)
(* same cached repositories simultaneously".  But cleanRepo() erases under *)
(* a lock it shares (gd.cpp:90) with those who search, or erase.           *)
EntriesAreSerialized ==
  \A t, u \in Threads :
    t # u /\ At(t, "clean") /\ cache[Path(t)] # 0 => ~At(u, "search") /\ ~At(u, "clean")
===============================================================================
