--------------------------- MODULE RepoCacheProofs ---------------------------
(***************************************************************************)
(* What holds of the cache of repositories for any number of threads,      *)
(* paths and branches.  CacheInv is inductive: what keeps the cache and    *)
(* the threads in agreement is that a repository which was opened and not  *)
(* yet cached is known to one thread only (Private), so that this thread   *)
(* alone may cache or free it.                                             *)
(***************************************************************************)
EXTENDS RepoCache, TLAPS

(* A process that has done nothing is in a good state. *)
LEMMA InitCacheInv == Init => CacheInv
<1> SUFFICES ASSUME Init PROVE CacheInv
  OBVIOUS
<1> USE DEF Init, At, Path, Idle
<1>1. Len(opened) = 0
  OBVIOUS
<1>2. TypeOK
  BY <1>1, BranchAssumption, NoneAssumption, SMT
  DEF TypeOK, Handles, Jobs, NoContext, Context
<1>3. OnlyCleanersClean /\ Private
  BY DEF OnlyCleanersClean, Private
<1>4. SelectSetsDb /\ NothingLeaks
  BY DEF SelectSetsDb, NothingLeaks
<1> QED BY <1>2, <1>3, <1>4 DEF CacheInv

(* To call is to take the lock and nothing else.                           *)
LEMMA CallKeepsInv ==
  ASSUME CacheInv, NEW t \in Threads, NEW p \in Paths,
         SelectRepository(t, p) \/ CleanRepo(t, p)
  PROVE  CacheInv'
<1> USE NoneAssumption, CleanerAssumption DEF At, Path
<1>0. /\ job[t].pc = "idle"
      /\ \E pc \in {"search", "clean"} :
           /\ job' = [job EXCEPT ![t] = [pc |-> pc, path |-> p, repo |-> 0]]
           /\ pc = "clean" => t \in Cleaners
           /\ sharing' = sharing \union {t}
           /\ UNCHANGED <<disk, opened, open, cleaned, cache, db, held>>
  BY DEF SelectRepository, CleanRepo
<1>1. TypeOK'
  BY <1>0, SMT DEF CacheInv, TypeOK, Jobs, Handles
<1>2. OnlyCleanersClean'
  BY <1>0, SMT DEF CacheInv, TypeOK, OnlyCleanersClean, Jobs
<1>3. Private'
  BY <1>0, SMT DEF CacheInv, TypeOK, Private, Jobs
<1>4. SelectSetsDb'
  BY <1>0, SMT DEF CacheInv, TypeOK, SelectSetsDb, Jobs, Context
<1>5. NothingLeaks'
  <2>1. ASSUME NEW u \in Threads, job[u].pc = "opened" PROVE job'[u] = job[u]
    BY <1>0, <2>1 DEF CacheInv, TypeOK
  <2> QED BY <1>0, <2>1 DEF CacheInv, NothingLeaks
<1> QED BY <1>1, <1>2, <1>3, <1>4, <1>5 DEF CacheInv

(* A repository is opened, which nobody has yet.                           *)
LEMMA OpenKeepsInv ==
  ASSUME CacheInv, NEW t \in Threads, OpenRepository(t) \/ CreateRepository(t)
  PROVE  CacheInv'
<1> USE NoneAssumption DEF At, Path
<1>1. /\ opened' = Append(opened, job[t].path)
      /\ open' = open \union {Len(opened) + 1}
      /\ job' = [job EXCEPT ![t] = [pc |-> "opened", path |-> job[t].path,
                                 repo |-> Len(opened) + 1]]
      /\ UNCHANGED <<cleaned, cache, sharing, db, held>>
      /\ job[t].path \in Paths
      /\ job[t].pc \in {"open", "create"}
  <2>1. job[t].pc \in {"open", "create"} /\ job[t].path \in Paths
    BY DEF CacheInv, TypeOK, OpenRepository, CreateRepository, Jobs
  <2>2. Len(Append(opened, job[t].path)) = Len(opened) + 1
    BY <2>1 DEF CacheInv, TypeOK
  <2> QED BY <2>1, <2>2 DEF OpenRepository, CreateRepository, Open, Goto
<1>2. /\ opened' \in Seq(Paths)
      /\ Len(opened') = Len(opened) + 1
      /\ \A r \in 1 .. Len(opened) : opened'[r] = opened[r]
      /\ opened'[Len(opened) + 1] = job[t].path
  BY <1>1 DEF CacheInv, TypeOK
<1>3. Len(opened) \in Nat
  BY DEF CacheInv, TypeOK
<1>4. disk' \in [Paths -> (SUBSET Branches) \union {Gone}]
  <2>1. CASE OpenRepository(t)
    BY <2>1 DEF OpenRepository, CacheInv, TypeOK
  <2>2. CASE CreateRepository(t)
    <3>1. disk' = [disk EXCEPT ![job[t].path] =
                     IF disk[job[t].path] = Gone THEN {} ELSE disk[job[t].path]]
      BY <2>2 DEF CreateRepository
    <3>2. {} \in (SUBSET Branches) \union {Gone}
      OBVIOUS
    <3> QED BY <1>1, <3>1, <3>2 DEF CacheInv, TypeOK
  <2> QED BY <2>1, <2>2
<1>5. TypeOK'
  <2>1. Handles' = Handles \union {Len(opened) + 1}
    BY <1>2, <1>3 DEF Handles
  <2>2. job' \in [Threads -> Jobs]
    BY <1>1, <1>3 DEF CacheInv, TypeOK, Jobs
  <2>3. \A u \in Threads :
          job'[u].repo \in Handles' /\ (job'[u].pc = "idle" <=> job'[u].path = NoPath)
    BY <1>1, <1>3, <2>1 DEF CacheInv, TypeOK, Jobs
  <2>4. open' \subseteq Handles' \ {0} /\ cleaned' \subseteq Handles' \ {0}
    BY <1>1, <1>3, <2>1 DEF CacheInv, TypeOK
  <2>5. /\ cache' \in [Paths -> Handles']
        /\ db' \in [Threads -> [repo: Handles', ref: Branches]]
    BY <1>1, <2>1, SMT DEF CacheInv, TypeOK
  <2>6. held' \in [Threads -> SUBSET [repo: Handles' \ {0}, ref: Branches]]
    <3>1. [repo: Handles \ {0}, ref: Branches]
            \subseteq [repo: Handles' \ {0}, ref: Branches]
      BY <2>1
    <3> QED BY <1>1, <3>1 DEF CacheInv, TypeOK
  <2> QED
    BY <1>1, <1>2, <1>4, <2>2, <2>3, <2>4, <2>5, <2>6 DEF CacheInv, TypeOK
<1>6. OnlyCleanersClean'
  BY <1>1, SMT DEF CacheInv, TypeOK, OnlyCleanersClean, Jobs
<1>7. Private'
  <2>1. ASSUME NEW u \in Threads, u # t PROVE job'[u] = job[u]
    BY <1>1, <2>1 DEF CacheInv, TypeOK
  <2>2. /\ job'[t].pc = "opened"
        /\ job'[t].repo = Len(opened) + 1
        /\ job'[t].path = job[t].path
    BY <1>1 DEF CacheInv, TypeOK, Jobs
  <2>3. \A r \in open : r \in 1 .. Len(opened)
    BY <1>3 DEF CacheInv, TypeOK, Handles
  <2>4. \A p \in Paths : cache'[p] \in 0 .. Len(opened)
    BY <1>1 DEF CacheInv, TypeOK, Handles
  <2>5. Len(opened) + 1 \notin 0 .. Len(opened)
    BY <1>3
  <2> QED
    BY <1>1, <1>2, <1>3, <2>1, <2>2, <2>3, <2>4, <2>5, SMTT(30) DEF CacheInv, Private
<1>8. SelectSetsDb'
  BY <1>1, <1>2, <1>3, SMT
  DEF CacheInv, TypeOK, OnlyCleanersClean, SelectSetsDb, Jobs, Handles, Context
<1>9. NothingLeaks'
  <2>1. ASSUME NEW u \in Threads, job[u].pc = "opened" PROVE job'[u] = job[u]
    BY <1>1, <2>1 DEF CacheInv, TypeOK
  <2>2. job'[t].pc = "opened" /\ job'[t].repo = Len(opened) + 1
    BY <1>1 DEF CacheInv, TypeOK, Jobs
  <2> QED BY <1>1, <2>1, <2>2 DEF CacheInv, NothingLeaks
<1> QED BY <1>5, <1>6, <1>7, <1>8, <1>9 DEF CacheInv

(* What was found is open and becomes the repository of the thread.        *)
LEMMA GetRepoKeepsInv ==
  ASSUME CacheInv, NEW t \in Threads, GetRepo(t)
  PROVE  CacheInv'
<1> USE NoneAssumption DEF At, Path, Goto
<1>1. /\ job[t].pc = "search" /\ job[t].path \in Paths
      /\ sharing' = sharing \ {t}
      /\ UNCHANGED <<disk, opened, open, cleaned, cache, held>>
  BY DEF CacheInv, TypeOK, GetRepo, Jobs
<1>2. CASE cache[job[t].path] # 0
  <2> DEFINE r == cache[job[t].path]
  <2>1. /\ db' = [db EXCEPT ![t] = Context(r, Main)]
        /\ job' = [job EXCEPT ![t] = [pc |-> "found", path |-> job[t].path, repo |-> r]]
    BY <1>2 DEF GetRepo
  <2>2. r \in Handles /\ r \in Nat /\ r # 0 /\ opened[r] = job[t].path
    BY <1>1, <1>2 DEF CacheInv, TypeOK, SelectSetsDb, Handles
  <2> HIDE DEF r
  <2>3. TypeOK'
    BY <1>1, <2>1, <2>2, BranchAssumption, SMT DEF CacheInv, TypeOK, Jobs, Handles, Context
  <2>4. OnlyCleanersClean'
    BY <1>1, <2>1, <2>2, SMT DEF CacheInv, TypeOK, OnlyCleanersClean, Jobs
  <2>5. Private'
    BY <1>1, <2>1, SMT DEF CacheInv, TypeOK, Private, Jobs
  <2>6. SelectSetsDb'
    BY <1>1, <2>1, <2>2, SMT DEF CacheInv, TypeOK, SelectSetsDb, Jobs, Context
  <2>7. NothingLeaks'
    <3>1. ASSUME NEW u \in Threads, job[u].pc = "opened" PROVE job'[u] = job[u]
      BY <1>1, <2>1, <3>1 DEF CacheInv, TypeOK
    <3> QED BY <1>1, <3>1 DEF CacheInv, NothingLeaks
  <2> QED BY <2>3, <2>4, <2>5, <2>6, <2>7 DEF CacheInv
<1>3. CASE cache[job[t].path] = 0
  <2>1. job' = [job EXCEPT ![t] = [pc |-> "probe", path |-> job[t].path, repo |-> 0]]
        /\ UNCHANGED db
    BY <1>3 DEF GetRepo
  <2>2. TypeOK'
    BY <1>1, <2>1, SMT DEF CacheInv, TypeOK, Jobs, Handles
  <2>3. OnlyCleanersClean' /\ Private' /\ SelectSetsDb'
    BY <1>1, <2>1, SMT
    DEF CacheInv, TypeOK, OnlyCleanersClean, Private, SelectSetsDb, Jobs, Context
  <2>4. NothingLeaks'
    <3>1. ASSUME NEW u \in Threads, job[u].pc = "opened" PROVE job'[u] = job[u]
      BY <1>1, <2>1, <3>1 DEF CacheInv, TypeOK
    <3> QED BY <1>1, <3>1 DEF CacheInv, NothingLeaks
  <2> QED BY <2>2, <2>3, <2>4 DEF CacheInv
<1> QED BY <1>2, <1>3

(* Looking at the file system, and giving up, change only the thread.      *)
LEMMA ProbeKeepsInv ==
  ASSUME CacheInv, NEW t \in Threads, RepoExists(t) \/ SelectFails(t)
  PROVE  CacheInv'
<1> USE NoneAssumption DEF At, Path, Goto
<1>1. /\ job[t].pc \in {"probe", "open", "create"}
      /\ UNCHANGED <<disk, opened, open, cleaned, cache, sharing, db, held>>
      /\ \E j \in Jobs :
           /\ job' = [job EXCEPT ![t] = j]
           /\ j.pc \in {"idle", "open", "create"}
           /\ j.pc = "idle" <=> j.path = NoPath
           /\ j.repo = 0
  BY DEF CacheInv, TypeOK, RepoExists, SelectFails, Jobs, Idle
<1>2. TypeOK'
  BY <1>1, SMT DEF CacheInv, TypeOK, Handles
<1>3. OnlyCleanersClean' /\ Private' /\ SelectSetsDb'
  BY <1>1, SMT DEF CacheInv, TypeOK, OnlyCleanersClean, Private, SelectSetsDb, Context
<1>4. NothingLeaks'
  <2>1. ASSUME NEW u \in Threads, job[u].pc = "opened" PROVE job'[u] = job[u]
    BY <1>1, <2>1 DEF CacheInv, TypeOK
  <2> QED BY <1>1, <2>1 DEF CacheInv, NothingLeaks
<1> QED BY <1>2, <1>3, <1>4 DEF CacheInv

(* The repository in hand is cached, or freed if another one was cached in *)
(* the meantime; either way nothing else is touched.                       *)
LEMMA CacheRepoKeepsInv ==
  ASSUME CacheInv, NEW t \in Threads, CacheRepo(t)
  PROVE  CacheInv'
<1> USE NoneAssumption DEF At, Path, Goto
<1> DEFINE p == job[t].path
           r == job[t].repo
           c == cache'[job[t].path]
<1>1. /\ job[t].pc = "opened" /\ p \in Paths
      /\ r \in open /\ r \in Handles /\ r # 0 /\ opened[r] = p
      /\ \A q \in Paths : cache[q] # r
      /\ \A u \in Threads \ {t} : job[u].pc = "opened" => job[u].repo # r
      /\ job' = [job EXCEPT ![t] = [pc |-> "found", path |-> p, repo |-> c]]
      /\ db' = [db EXCEPT ![t] = Context(c, Main)]
      /\ UNCHANGED <<disk, opened, cleaned, sharing, held>>
  BY DEF CacheInv, TypeOK, Private, CacheRepo, Jobs
<1>2. \/ cache[p] = 0 /\ cache' = [cache EXCEPT ![p] = r] /\ open' = open
      \/ cache[p] # 0 /\ cache' = cache /\ open' = open \ {r}
  BY DEF CacheRepo
<1>3. /\ c \in Handles /\ c \in Nat /\ c # 0 /\ c \in open' /\ opened[c] = p
      /\ cache' \in [Paths -> Handles]
      /\ open' \subseteq open
  <2>0. \A h \in Handles : h \in Nat
    BY DEF CacheInv, TypeOK, Handles
  <2>1. CASE cache[p] = 0 /\ cache' = [cache EXCEPT ![p] = r] /\ open' = open
    <3>1. c = r
      BY <1>1, <2>1 DEF CacheInv, TypeOK
    <3>2. cache' \in [Paths -> Handles]
      BY <1>1, <2>1 DEF CacheInv, TypeOK
    <3> QED BY <1>1, <2>0, <2>1, <3>1, <3>2
  <2>2. CASE cache[p] # 0 /\ cache' = cache /\ open' = open \ {r}
    <3>1. c = cache[p] /\ c \in Handles /\ c # r
      BY <1>1, <2>2 DEF CacheInv, TypeOK
    <3>2. c \in open /\ opened[c] = p
      BY <1>1, <2>2, <3>1 DEF CacheInv, SelectSetsDb
    <3> QED BY <2>0, <2>2, <3>1, <3>2 DEF CacheInv, TypeOK
  <2> QED BY <1>2, <2>1, <2>2
<1>4. \A q \in Paths : cache'[q] # 0 => cache'[q] \in open' /\ opened[cache'[q]] = q
  BY <1>1, <1>2 DEF CacheInv, TypeOK, SelectSetsDb
<1>5. \A q \in Paths : cache'[q] \in {cache[q], r}
  BY <1>1, <1>2 DEF CacheInv, TypeOK
<1> HIDE DEF p, r, c
<1>6. TypeOK'
  <2>1. Handles' = Handles
    BY <1>1 DEF Handles
  <2>2. job' \in [Threads -> Jobs]
    BY <1>1, <1>3 DEF CacheInv, TypeOK, Jobs
  <2>3. \A u \in Threads :
          job'[u].repo \in Handles /\ (job'[u].pc = "idle" <=> job'[u].path = NoPath)
    BY <1>1, <1>3 DEF CacheInv, TypeOK
  <2>4. db' \in [Threads -> [repo: Handles, ref: Branches]]
    BY <1>1, <1>3, BranchAssumption DEF CacheInv, TypeOK, Context
  <2> QED BY <1>1, <1>3, <2>1, <2>2, <2>3, <2>4 DEF CacheInv, TypeOK
<1>7. OnlyCleanersClean'
  BY <1>1, <1>3, SMT DEF CacheInv, TypeOK, OnlyCleanersClean, Jobs
<1>8. \A u \in Threads : job'[u].pc = "opened" => u # t /\ job'[u] = job[u]
  BY <1>1 DEF CacheInv, TypeOK
<1>9. Private'
  <2> SUFFICES ASSUME NEW u \in Threads, job'[u].pc = "opened"
      PROVE /\ job[u].repo \in open'
            /\ opened[job[u].repo] = job[u].path
            /\ \A q \in Paths : cache'[q] # job[u].repo
            /\ \A v \in Threads \ {u} : job'[v].pc = "opened" => job[v].repo # job[u].repo
    BY <1>1, <1>8 DEF Private
  <2>1. u # t /\ job[u].pc = "opened" /\ job[u].repo # r
    BY <1>1, <1>8
  <2>2. job[u].repo \in open'
    BY <1>2, <2>1 DEF CacheInv, Private
  <2>3. \A q \in Paths : cache'[q] # job[u].repo
    BY <1>5, <2>1 DEF CacheInv, Private
  <2> QED BY <1>8, <2>1, <2>2, <2>3 DEF CacheInv, Private
<1>10. SelectSetsDb'
  <2>1. ASSUME NEW u \in Threads, u # t, job'[u].pc = "found"
        PROVE  job'[u] = job[u] /\ db'[u] = db[u]
    BY <1>1, <2>1 DEF CacheInv, TypeOK
  <2>2. db'[t] = Context(c, Main) /\ job'[t].repo = c /\ job'[t].path = p
    BY <1>1 DEF CacheInv, TypeOK
  <2> QED BY <1>1, <1>3, <1>4, <2>1, <2>2 DEF CacheInv, SelectSetsDb, Context
<1>11. NothingLeaks'
  <2> SUFFICES ASSUME NEW o \in open'
      PROVE \/ \E q \in Paths : cache'[q] = o
            \/ \E u \in Threads : job'[u].pc = "opened" /\ job'[u].repo = o
    BY DEF NothingLeaks
  <2>1. CASE o = r
    BY <1>1, <1>2, <2>1 DEF CacheInv, TypeOK
  <2>2. CASE o # r /\ \E q \in Paths : cache[q] = o
    BY <1>1, <1>2, <2>2 DEF CacheInv, TypeOK
  <2>3. CASE o # r /\ \E u \in Threads : job[u].pc = "opened" /\ job[u].repo = o
    <3>1. PICK u \in Threads : job[u].pc = "opened" /\ job[u].repo = o
      BY <2>3
    <3>2. u # t
      BY <2>3, <3>1 DEF r
    <3> QED BY <1>1, <3>1, <3>2 DEF CacheInv, TypeOK
  <2> QED BY <1>3, <2>1, <2>2, <2>3 DEF CacheInv, NothingLeaks
<1> QED BY <1>6, <1>7, <1>9, <1>10, <1>11 DEF CacheInv

(* The caller gets a context on what was found.                            *)
LEMMA NewContextKeepsInv ==
  ASSUME CacheInv, NEW t \in Threads, NewContext(t)
  PROVE  CacheInv'
<1> USE NoneAssumption DEF At, Path
<1> DEFINE c == Context(job[t].repo, Main)
<1>1. /\ job[t].pc = "found"
      /\ c \in [repo: Handles \ {0}, ref: Branches]
      /\ held' = [held EXCEPT ![t] = held[t] \union {c}]
      /\ job' = [job EXCEPT ![t] = Idle]
      /\ UNCHANGED <<disk, opened, open, cleaned, cache, sharing, db>>
  BY BranchAssumption DEF CacheInv, TypeOK, OnlyCleanersClean, NewContext, Context
<1> HIDE DEF c
<1>2. TypeOK'
  <2>1. Handles' = Handles /\ 0 \in Handles
    BY <1>1 DEF CacheInv, TypeOK, Handles
  <2>2. job' \in [Threads -> Jobs]
    BY <1>1 DEF CacheInv, TypeOK, Jobs, Idle
  <2>3. \A u \in Threads :
          job'[u].repo \in Handles /\ (job'[u].pc = "idle" <=> job'[u].path = NoPath)
    BY <1>1, <2>1 DEF CacheInv, TypeOK, Idle
  <2>4. held' \in [Threads -> SUBSET [repo: Handles \ {0}, ref: Branches]]
    BY <1>1 DEF CacheInv, TypeOK
  <2> QED BY <1>1, <2>1, <2>2, <2>3, <2>4 DEF CacheInv, TypeOK
<1>3. \A u \in Threads : job'[u].pc # "idle" => job'[u] = job[u]
  BY <1>1 DEF CacheInv, TypeOK, Idle
<1>4. OnlyCleanersClean' /\ Private' /\ SelectSetsDb'
  BY <1>1, <1>3 DEF CacheInv, OnlyCleanersClean, Private, SelectSetsDb, Context
<1>5. NothingLeaks'
  <2>1. ASSUME NEW u \in Threads, job[u].pc = "opened" PROVE job'[u] = job[u]
    BY <1>1, <2>1 DEF CacheInv, TypeOK
  <2> QED BY <1>1, <2>1 DEF CacheInv, NothingLeaks
<1> QED BY <1>2, <1>4, <1>5 DEF CacheInv

(* What is erased is freed, and nothing else is.                           *)
LEMMA EraseKeepsInv ==
  ASSUME CacheInv, NEW t \in Threads, Erase(t)
  PROVE  CacheInv'
<1> USE NoneAssumption DEF At, Path, Goto
<1> DEFINE p == job[t].path
<1>1. /\ job[t].pc = "clean" /\ p \in Paths
      /\ job' = [job EXCEPT ![t] = [pc |-> "remove", path |-> p, repo |-> 0]]
      /\ cache' = [cache EXCEPT ![p] = 0]
      /\ open' = open \ {cache[p]}
      /\ cleaned' = cleaned \union ({cache[p]} \ {0})
      /\ UNCHANGED <<disk, opened, sharing, db, held>>
  BY DEF CacheInv, TypeOK, Erase, Jobs
<1> HIDE DEF p
<1>2. TypeOK'
  <2>1. Handles' = Handles /\ 0 \in Handles
    BY <1>1 DEF CacheInv, TypeOK, Handles
  <2>2. job' \in [Threads -> Jobs]
    BY <1>1 DEF CacheInv, TypeOK, Jobs
  <2>3. \A u \in Threads :
          job'[u].repo \in Handles /\ (job'[u].pc = "idle" <=> job'[u].path = NoPath)
    BY <1>1, <2>1 DEF CacheInv, TypeOK
  <2>4. cache' \in [Paths -> Handles]
    BY <1>1, <2>1 DEF CacheInv, TypeOK
  <2>5. cleaned' \subseteq Handles \ {0}
    BY <1>1 DEF CacheInv, TypeOK
  <2> QED BY <1>1, <2>1, <2>2, <2>3, <2>4, <2>5 DEF CacheInv, TypeOK
<1>3. \A u \in Threads : job'[u].pc \in {"opened", "found"} => job'[u] = job[u]
  BY <1>1 DEF CacheInv, TypeOK
<1>4. OnlyCleanersClean'
  BY <1>1 DEF CacheInv, TypeOK, OnlyCleanersClean
<1>5. Private'
  BY <1>1, <1>3 DEF CacheInv, TypeOK, Private
<1>6. SelectSetsDb'
  <2>1. \A q \in Paths : cache'[q] # 0 => cache'[q] = cache[q] /\ q # p
    BY <1>1 DEF CacheInv, TypeOK
  <2> QED BY <1>1, <1>3, <2>1 DEF CacheInv, SelectSetsDb, Context
<1>7. NothingLeaks'
  <2>1. ASSUME NEW u \in Threads, job[u].pc = "opened" PROVE job'[u] = job[u]
    BY <1>1, <2>1 DEF CacheInv, TypeOK
  <2>2. ASSUME NEW q \in Paths, cache[q] # cache[p] PROVE cache'[q] = cache[q]
    BY <1>1, <2>2 DEF CacheInv, TypeOK
  <2> QED BY <1>1, <2>1, <2>2 DEF CacheInv, NothingLeaks
<1> QED BY <1>2, <1>4, <1>5, <1>6, <1>7 DEF CacheInv

(* The end of cleanRepo().                                                 *)
LEMMA RemoveAllKeepsInv ==
  ASSUME CacheInv, NEW t \in Threads, RemoveAll(t)
  PROVE  CacheInv'
<1> USE NoneAssumption DEF At, Path
<1>1. /\ job[t].pc = "remove"
      /\ disk' = [disk EXCEPT ![job[t].path] = Gone]
      /\ sharing' = sharing \ {t}
      /\ job' = [job EXCEPT ![t] = Idle]
      /\ UNCHANGED <<opened, open, cleaned, cache, db, held>>
  BY DEF RemoveAll
<1>2. TypeOK'
  BY <1>1, SMT DEF CacheInv, TypeOK, Jobs, Idle, Handles
<1>3. \A u \in Threads : job'[u].pc # "idle" => job'[u] = job[u]
  BY <1>1 DEF CacheInv, TypeOK, Idle
<1>4. OnlyCleanersClean' /\ Private' /\ SelectSetsDb'
  BY <1>1, <1>3 DEF CacheInv, OnlyCleanersClean, Private, SelectSetsDb, Context
<1>5. NothingLeaks'
  <2>1. ASSUME NEW u \in Threads, job[u].pc = "opened" PROVE job'[u] = job[u]
    BY <1>1, <2>1 DEF CacheInv, TypeOK
  <2> QED BY <1>1, <2>1 DEF CacheInv, NothingLeaks
<1> QED BY <1>2, <1>4, <1>5 DEF CacheInv

(* Calls with a context, or with db: they change branches on disk, the     *)
(* contexts of the thread and the branch of db, never a repository.        *)
LEMMA UseKeepsInv ==
  ASSUME CacheInv, NEW t \in Threads,
         \/ ThreadContext(t)
         \/ \E c \in held[t] :
              \/ CallFails(t, c)
              \/ Commit(t, c)
              \/ \E b \in Branches : SelectBranch(t, c, b) \/ CreateBranch(t, c, b)
  PROVE  CacheInv'
<1> USE DEF At, Path
<1> DEFINE C == [repo: Handles \ {0}, ref: Branches]
<1>1. held[t] \subseteq C /\ db[t] \in [repo: Handles, ref: Branches] /\ opened \in Seq(Paths)
  BY DEF CacheInv, TypeOK
<1>2. /\ UNCHANGED <<opened, open, cleaned, cache, sharing, job>>
      /\ job[t].pc = "idle"
      /\ \E h \in SUBSET C : held' = [held EXCEPT ![t] = h]
      /\ \E b \in Branches : db' = [db EXCEPT ![t] = Context(db[t].repo, b)]
      /\ disk' \in [Paths -> (SUBSET Branches) \union {Gone}]
  <2>1. /\ held = [held EXCEPT ![t] = held[t]]
        /\ db = [db EXCEPT ![t] = Context(db[t].repo, db[t].ref)]
        /\ db[t].ref \in Branches
    BY DEF CacheInv, TypeOK, Context
  <2>2. CASE ThreadContext(t)
    <3>1. db[t] \in C
      BY <1>1, <2>2 DEF ThreadContext
    <3>2. held' = [held EXCEPT ![t] = held[t] \union {db[t]}]
      BY <2>2 DEF ThreadContext
    <3>3. held[t] \union {db[t]} \in SUBSET C
      BY <1>1, <3>1
    <3>4. UNCHANGED <<disk, opened, open, cleaned, cache, sharing, job, db>>
          /\ job[t].pc = "idle"
      BY <2>2 DEF ThreadContext
    <3>5. \E h \in SUBSET C : held' = [held EXCEPT ![t] = h]
      BY <3>2, <3>3
    <3>6. disk' \in [Paths -> (SUBSET Branches) \union {Gone}]
      BY <3>4 DEF CacheInv, TypeOK
    <3> HIDE DEF C
    <3> QED BY <2>1, <3>4, <3>5, <3>6
  <2>3. ASSUME NEW c \in held[t], CallFails(t, c) PROVE <1>2!:
    BY <1>1, <2>1, <2>3 DEF CallFails, Calls, CacheInv, TypeOK
  <2>4. ASSUME NEW c \in held[t], NEW b \in Branches, Commit(t, c) \/ CreateBranch(t, c, b)
        PROVE  <1>2!:
    <3>1. c.repo \in 1 .. Len(opened) /\ c.ref \in Branches /\ opened[c.repo] \in Paths
      BY <1>1 DEF Handles
    <3>2. /\ disk[opened[c.repo]] # Gone
          /\ \E d \in Branches :
               disk' = [disk EXCEPT ![opened[c.repo]] = disk[opened[c.repo]] \union {d}]
      BY <2>4, <3>1 DEF Commit, CreateBranch, BranchesOf
    <3>3. disk' \in [Paths -> (SUBSET Branches) \union {Gone}]
      BY <3>1, <3>2 DEF CacheInv, TypeOK
    <3> QED BY <1>1, <2>1, <2>4, <3>3 DEF Commit, CreateBranch, Calls, memory
  <2>5. ASSUME NEW c \in held[t], NEW b \in Branches, SelectBranch(t, c, b) PROVE <1>2!:
    <3>1. Context(c.repo, b) \in C
      BY <1>1 DEF Context
    <3>2. db' = [db EXCEPT ![t] = Context(db[t].repo, b)]
      BY <2>5 DEF SelectBranch
    <3>3. /\ \/ held' = [held EXCEPT ![t] = (held[t] \ {c}) \union {Context(c.repo, b)}]
             \/ held' = [held EXCEPT ![t] = held[t] \ {c}]
          /\ UNCHANGED <<disk, opened, open, cleaned, cache, sharing, job>>
          /\ job[t].pc = "idle"
      BY <2>5 DEF SelectBranch, Calls
    <3>4. \E h \in SUBSET C : held' = [held EXCEPT ![t] = h]
      <4>1. /\ (held[t] \ {c}) \union {Context(c.repo, b)} \in SUBSET C
            /\ held[t] \ {c} \in SUBSET C
        BY <1>1, <3>1
      <4> QED BY <3>3, <4>1
    <3>5. disk' \in [Paths -> (SUBSET Branches) \union {Gone}]
      BY <3>3 DEF CacheInv, TypeOK
    <3> HIDE DEF C
    <3> QED BY <2>1, <3>2, <3>3, <3>4, <3>5
  <2>6. Branches # {}
    BY BranchAssumption
  <2> QED BY <2>2, <2>3, <2>4, <2>5, <2>6
<1>3. TypeOK'
  <2>1. Handles' = Handles
    BY <1>2 DEF Handles
  <2>2. db' \in [Threads -> [repo: Handles, ref: Branches]]
    BY <1>1, <1>2 DEF CacheInv, TypeOK, Context
  <2>3. held' \in [Threads -> SUBSET C]
    BY <1>2 DEF CacheInv, TypeOK
  <2> QED BY <1>2, <2>1, <2>2, <2>3 DEF CacheInv, TypeOK
<1>4. OnlyCleanersClean' /\ Private' /\ NothingLeaks'
  BY <1>2 DEF CacheInv, OnlyCleanersClean, Private, NothingLeaks
<1>5. SelectSetsDb'
  BY <1>2 DEF CacheInv, TypeOK, SelectSetsDb
<1> QED BY <1>3, <1>4, <1>5 DEF CacheInv

(* A new process.                                                          *)
LEMMA CrashKeepsInv == CacheInv /\ Crash => CacheInv'
<1> SUFFICES ASSUME CacheInv, Crash PROVE CacheInv'
  OBVIOUS
<1> USE DEF Crash, At, Path, Idle
<1>1. Len(opened') = 0
  OBVIOUS
<1>2. TypeOK'
  BY <1>1, BranchAssumption, NoneAssumption, SMT
  DEF CacheInv, TypeOK, Handles, Jobs, NoContext, Context
<1>3. OnlyCleanersClean' /\ Private'
  BY DEF OnlyCleanersClean, Private
<1>4. SelectSetsDb' /\ NothingLeaks'
  BY DEF SelectSetsDb, NothingLeaks
<1> QED BY <1>2, <1>3, <1>4 DEF CacheInv

-------------------------------------------------------------------------------
LEMMA NextKeepsInv == CacheInv /\ [Next]_vars => CacheInv'
<1> SUFFICES ASSUME CacheInv, [Next]_vars PROVE CacheInv'
  OBVIOUS
<1>1. CASE UNCHANGED vars
  BY <1>1 DEF vars, memory, CacheInv, TypeOK, OnlyCleanersClean, Private,
     SelectSetsDb, NothingLeaks, Handles, At, Path
<1>2. ASSUME NEW t \in Threads, Step(t) PROVE CacheInv'
  BY <1>2, GetRepoKeepsInv, ProbeKeepsInv, OpenKeepsInv, CacheRepoKeepsInv,
     NewContextKeepsInv, EraseKeepsInv, RemoveAllKeepsInv
  DEF Step
<1>3. ASSUME NEW t \in Threads, NEW p \in Paths, SelectRepository(t, p) \/ CleanRepo(t, p)
      PROVE  CacheInv'
  BY <1>3, CallKeepsInv
<1> QED BY <1>1, <1>2, <1>3, UseKeepsInv, CrashKeepsInv DEF Next

(* CacheInv holds always: a repository is cached under the path it was     *)
(* opened from, belongs to one thread until then, and is freed when it     *)
(* comes too late, whatever the threads do between the steps of            *)
(* selectRepository() and cleanRepo().                                     *)
THEOREM CacheInvariance == Spec => []CacheInv
<1> QED BY InitCacheInv, NextKeepsInv, PTL DEF Spec

(* The type invariant: no call works on a null pointer.                    *)
THEOREM CacheTyped == Spec => []TypeOK
<1>1. CacheInv => TypeOK
  BY DEF CacheInv
<1> QED BY <1>1, CacheInvariance, PTL

(* Repositories that lose the race to be cached are freed.                 *)
THEOREM NoRepositoryLeaks == Spec => []NothingLeaks
<1>1. CacheInv => NothingLeaks
  BY DEF CacheInv
<1> QED BY <1>1, CacheInvariance, PTL

(* What selectRepository() is about to return is what db works on.         *)
THEOREM DbFollowsSelection == Spec => []SelectSetsDb
<1>1. CacheInv => SelectSetsDb
  BY DEF CacheInv
<1> QED BY <1>1, CacheInvariance, PTL

(* A step that is not the end of a process leaves a safe repository safe,  *)
(* unless it cleans it, and what was cleaned stays so.                     *)
LEMMA SafeStaysSafe ==
  ASSUME CacheInv, CacheInv', Next, ~Crash
  PROVE  /\ \A r \in Handles \ {0} : Safe(r) => Safe(r)' \/ r \in cleaned'
         /\ cleaned \subseteq cleaned'
<1> DEFINE Change ==
      /\ \A p \in Paths : cache[p] # 0 => cache'[p] = cache[p] \/ cache[p] \in cleaned'
      /\ cleaned \subseteq cleaned'
      /\ opened' = opened \/ \E p \in Paths : opened' = Append(opened, p)
<1>1. Change
  <2>1. ASSUME NEW t \in Threads, CacheRepo(t) PROVE Change
    BY <2>1 DEF CacheRepo, CacheInv, TypeOK
  <2>2. ASSUME NEW t \in Threads, Erase(t) PROVE Change
    <3>1. ASSUME NEW p \in Paths, cache[p] # 0
          PROVE  cache'[p] = cache[p] \/ cache[p] \in cleaned'
      BY <2>2, <3>1 DEF Erase, CacheInv, TypeOK
    <3> QED BY <2>2, <3>1 DEF Erase
  <2>3. ASSUME NEW t \in Threads, OpenRepository(t) \/ CreateRepository(t) PROVE Change
    BY <2>3 DEF OpenRepository, CreateRepository, Open, At, Path, CacheInv, TypeOK, Jobs
  <2>4. ASSUME NEW t \in Threads,
               \/ GetRepo(t) \/ RepoExists(t) \/ SelectFails(t) \/ NewContext(t)
               \/ RemoveAll(t)
        PROVE  Change
    BY <2>4 DEF GetRepo, RepoExists, SelectFails, NewContext, RemoveAll
  <2>5. ASSUME NEW t \in Threads, NEW p \in Paths, SelectRepository(t, p) \/ CleanRepo(t, p)
        PROVE  Change
    BY <2>5 DEF SelectRepository, CleanRepo
  <2>6. ASSUME NEW t \in Threads, NEW c \in held[t], NEW b \in Branches,
               \/ CallFails(t, c) \/ Commit(t, c)
               \/ SelectBranch(t, c, b) \/ CreateBranch(t, c, b)
        PROVE  Change
    BY <2>6 DEF CallFails, Commit, SelectBranch, CreateBranch, memory
  <2>7. ASSUME NEW t \in Threads, ThreadContext(t) PROVE Change
    BY <2>7 DEF ThreadContext
  <2> HIDE DEF Change
  <2> QED BY <2>1, <2>2, <2>3, <2>4, <2>5, <2>6, <2>7, BranchAssumption DEF Next, Step
<1>2. ASSUME NEW r \in Handles \ {0}, Safe(r) PROVE Safe(r)' \/ r \in cleaned'
  <2>1. r \in 1 .. Len(opened) /\ opened[r] \in Paths /\ r \in Nat
    BY DEF CacheInv, TypeOK, Handles
  <2>2. opened'[r] = opened[r]
    <3>1. ASSUME NEW p \in Paths, opened' = Append(opened, p) PROVE opened'[r] = opened[r]
      <4>1. opened \in Seq(Paths)
        BY DEF CacheInv, TypeOK
      <4> QED BY <2>1, <3>1, <4>1
    <3> QED BY <1>1, <3>1
  <2>3. cache'[opened[r]] = r \/ r \in cleaned'
    BY <1>1, <1>2, <2>1 DEF Safe
  <2> QED BY <2>1, <2>2, <2>3 DEF Safe, CacheInv, SelectSetsDb
<1> QED BY <1>1, <1>2

(* Every repository a thread holds on to is open and the one cached for    *)
(* its path, unless cleanRepo() freed it.  CacheInv is what it takes: a    *)
(* pointer comes out of the cache, and only cleanRepo() takes out of it.   *)
THEOREM PointersSafe == Spec => []PointersStayOpen
<1>1. Init => PointersStayOpen
  BY DEF Init, PointersStayOpen, At, Idle, NoContext, Context
<1>2. ASSUME CacheInv, CacheInv', PointersStayOpen, [Next]_vars
      PROVE  PointersStayOpen'
  <2> USE DEF At, Path
  <2>1. CASE UNCHANGED vars
    BY <1>2, <2>1 DEF vars, memory, PointersStayOpen, Safe
  <2>2. CASE Crash
    BY <2>2 DEF Crash, PointersStayOpen, Idle, NoContext, Context
  <2>3. CASE Next /\ ~Crash
    <3> DEFINE Still(r) == (r \in open' /\ cache'[opened'[r]] = r) \/ r \in cleaned'
    <3>1. \A r \in Handles \ {0} : Safe(r) \/ r \in cleaned => Still(r)
      <4>1. /\ \A r \in Handles \ {0} : Safe(r) => Safe(r)' \/ r \in cleaned'
            /\ cleaned \subseteq cleaned'
        BY <1>2, <2>3, SafeStaysSafe
      <4> QED BY <4>1 DEF Safe
    <3>2. \A u \in Threads :
            /\ \A c \in held[u] : Still(c.repo)
            /\ db[u].repo # 0 => Still(db[u].repo)
            /\ job[u].pc = "found" => Still(job[u].repo)
      <4> SUFFICES ASSUME NEW u \in Threads
          PROVE /\ \A c \in held[u] : Still(c.repo)
                /\ db[u].repo # 0 => Still(db[u].repo)
                /\ job[u].pc = "found" => Still(job[u].repo)
        OBVIOUS
      <4>1. /\ \A c \in held[u] : c.repo \in Handles \ {0}
            /\ db[u].repo \in Handles
            /\ job[u].pc = "found" => job[u].repo \in Handles \ {0}
        BY <1>2 DEF CacheInv, TypeOK, OnlyCleanersClean
      <4> HIDE DEF Still
      <4> QED BY <1>2, <3>1, <4>1 DEF PointersStayOpen
    <3>. SUFFICES \A u \in Threads :
            /\ \A c \in held'[u] : Still(c.repo)
            /\ db'[u].repo # 0 => Still(db'[u].repo)
            /\ job'[u].pc = "found" => Still(job'[u].repo)
      BY DEF PointersStayOpen, Safe
    <3> DEFINE Goal == \A u \in Threads :
            /\ \A c \in held'[u] : Still(c.repo)
            /\ db'[u].repo # 0 => Still(db'[u].repo)
            /\ job'[u].pc = "found" => Still(job'[u].repo)
    <3>3. ASSUME NEW t \in Threads, GetRepo(t) \/ CacheRepo(t) PROVE Goal
      <4>1. /\ \A u \in Threads \ {t} : job'[u] = job[u] /\ db'[u] = db[u]
            /\ held' = held
            /\ job'[t].pc = "found" \/ (job'[t].pc = "probe" /\ db' = db)
        BY <1>2, <3>3 DEF GetRepo, CacheRepo, Goto, CacheInv, TypeOK
      <4>2. ASSUME job'[t].pc = "found" PROVE Still(job'[t].repo) /\ Still(db'[t].repo)
        <5>1. /\ db'[t].repo = job'[t].repo
              /\ opened'[job'[t].repo] = job'[t].path
          <6>1. SelectSetsDb'
            BY <1>2 DEF CacheInv
          <6>2. db'[t] = Context(job'[t].repo, Main) /\ opened'[db'[t].repo] = job'[t].path
            BY <4>2, <6>1 DEF SelectSetsDb
          <6> QED BY <6>2 DEF Context
        <5>2. /\ job'[t].repo = cache'[job'[t].path]
              /\ job'[t].repo # 0 /\ job'[t].path \in Paths
          BY <1>2, <3>3, <4>2
          DEF GetRepo, CacheRepo, Goto, CacheInv, TypeOK, OnlyCleanersClean, Jobs
        <5> QED BY <1>2, <5>1, <5>2 DEF CacheInv, SelectSetsDb
      <4> HIDE DEF Still
      <4> QED BY <3>2, <4>1, <4>2
    <3>4. ASSUME NEW t \in Threads, NewContext(t) PROVE Goal
      <4>1. /\ \A u \in Threads : \A c \in held'[u] :
                 c \in held[u] \/ (u = t /\ c.repo = job[t].repo)
            /\ db' = db
            /\ \A u \in Threads : job'[u].pc = "found" => job'[u] = job[u]
            /\ job[t].pc = "found"
        BY <1>2, <3>4 DEF NewContext, Context, Idle, CacheInv, TypeOK
      <4> HIDE DEF Still
      <4> QED BY <3>2, <4>1
    <3>5. ASSUME NEW t \in Threads, NEW p \in Paths,
                 \/ SelectRepository(t, p) \/ CleanRepo(t, p)
                 \/ RepoExists(t) \/ SelectFails(t)
                 \/ OpenRepository(t) \/ CreateRepository(t)
                 \/ Erase(t) \/ RemoveAll(t)
          PROVE  Goal
      <4>1. /\ held' = held /\ db' = db
            /\ \A u \in Threads : job'[u].pc = "found" => job'[u] = job[u]
        BY <1>2, <3>5
        DEF SelectRepository, CleanRepo, RepoExists, SelectFails, OpenRepository, Open,
            CreateRepository, Erase, RemoveAll, Goto, Idle, CacheInv, TypeOK
      <4> HIDE DEF Still
      <4> QED BY <3>2, <4>1
    <3>6. ASSUME NEW t \in Threads, ThreadContext(t) PROVE Goal
      <4>1. /\ \A u \in Threads : \A c \in held'[u] : c \in held[u] \/ c = db[u]
            /\ db[t].repo # 0
            /\ \A u \in Threads : u # t => held'[u] = held[u]
            /\ job' = job /\ db' = db
        BY <1>2, <3>6 DEF ThreadContext, CacheInv, TypeOK
      <4> HIDE DEF Still
      <4> QED BY <3>2, <4>1
    <3>7. ASSUME NEW t \in Threads, NEW c \in held[t], NEW b \in Branches,
                 \/ CallFails(t, c) \/ Commit(t, c)
                 \/ SelectBranch(t, c, b) \/ CreateBranch(t, c, b)
          PROVE  Goal
      <4>1. /\ \A u \in Threads : \A d \in held'[u] :
                 \E e \in held[u] : d.repo = e.repo
            /\ \A u \in Threads : db'[u].repo = db[u].repo
            /\ job' = job
        <5>1. CASE CallFails(t, c)
          BY <1>2, <5>1 DEF CallFails, CacheInv, TypeOK
        <5>2. CASE Commit(t, c) \/ CreateBranch(t, c, b)
          BY <5>2 DEF Commit, CreateBranch, memory
        <5>3. CASE SelectBranch(t, c, b)
          <6>1. /\ \A u \in Threads \ {t} : held'[u] = held[u] /\ db'[u] = db[u]
                /\ db'[t] = Context(db[t].repo, b)
                /\ held'[t] \subseteq held[t] \union {Context(c.repo, b)}
                /\ job' = job
            BY <1>2, <5>3 DEF SelectBranch, CacheInv, TypeOK
          <6>2. Context(c.repo, b).repo = c.repo /\ Context(db[t].repo, b).repo = db[t].repo
            BY DEF Context
          <6> QED BY <6>1, <6>2
        <5> QED BY <3>7, <5>1, <5>2, <5>3
      <4> HIDE DEF Still
      <4>2. \A u \in Threads : \A d \in held'[u] : Still(d.repo)
        BY <3>2, <4>1
      <4> QED BY <3>2, <4>1, <4>2
    <3>8. Goal
      <4> HIDE DEF Goal
      <4>1. ASSUME NEW t \in Threads, Step(t) PROVE Goal
        <5>1. \E p : p \in Paths
          BY <1>2, <4>1
          DEF Step, GetRepo, RepoExists, OpenRepository, CreateRepository, SelectFails,
              CacheRepo, NewContext, Erase, RemoveAll, CacheInv, TypeOK, Jobs
        <5> QED BY <3>3, <3>4, <3>5, <4>1, <5>1 DEF Step
      <4>2. ASSUME NEW t \in Threads, NEW c \in held[t], CallFails(t, c) \/ Commit(t, c)
            PROVE  Goal
        BY <3>7, <4>2, BranchAssumption
      <4> QED BY <2>3, <3>5, <3>6, <3>7, <4>1, <4>2 DEF Next
    <3> QED BY <3>8
  <2> QED BY <1>2, <2>1, <2>2, <2>3
<1> QED BY <1>1, <1>2, CacheInvariance, PTL DEF Spec

(* No step but the last of cleanRepo() undoes a repository or a branch: a  *)
(* thread that finds no repository and creates one later than another      *)
(* thread leaves alone what has been committed since.                      *)
THEOREM CreationIsHarmless == Spec => CreationKeepsBranches
<1> DEFINE Kept == \A p \in Paths :
      \/ disk[p] = Gone
      \/ disk'[p] # Gone /\ disk[p] \subseteq disk'[p]
      \/ \E t \in Cleaners : At(t, "remove") /\ Path(t) = p /\ job'[t] = Idle
<1>1. ASSUME CacheInv, [Next]_vars PROVE Kept
  <2>1. CASE disk' = disk
    BY <2>1
  <2>2. ASSUME NEW t \in Threads, CreateRepository(t) PROVE Kept
    BY <1>1, <2>2 DEF CreateRepository, CacheInv, TypeOK
  <2>3. ASSUME NEW t \in Threads, RemoveAll(t) PROVE Kept
    <3>1. /\ t \in Cleaners /\ At(t, "remove") /\ job'[t] = Idle
          /\ \A p \in Paths : p # Path(t) => disk'[p] = disk[p]
      BY <1>1, <2>3 DEF RemoveAll, CacheInv, TypeOK, OnlyCleanersClean
    <3> QED BY <3>1
  <2>4. ASSUME NEW t \in Threads, NEW c \in held[t], NEW b \in Branches,
               Commit(t, c) \/ CreateBranch(t, c, b)
        PROVE  Kept
    <3>1. \E d \in Branches, q \in Paths :
            disk[q] # Gone /\ disk' = [disk EXCEPT ![q] = disk[q] \union {d}]
      <4>1. c.ref \in Branches /\ opened[c.repo] \in Paths
        BY <1>1 DEF CacheInv, TypeOK, Handles
      <4>2. disk[opened[c.repo]] # Gone
        BY <2>4 DEF Commit, CreateBranch, BranchesOf
      <4> QED BY <2>4, <4>1, <4>2 DEF Commit, CreateBranch
    <3>2. PICK d \in Branches, q \in Paths :
            disk[q] # Gone /\ disk' = [disk EXCEPT ![q] = disk[q] \union {d}]
      BY <3>1
    <3>3. disk[q] \in SUBSET Branches
      BY <1>1, <3>2 DEF CacheInv, TypeOK
    <3>4. disk[q] \union {d} # Gone
      BY <3>3, NoneAssumption
    <3> QED BY <1>1, <3>2, <3>4 DEF CacheInv, TypeOK
  <2>5. ASSUME NEW t \in Threads,
               \/ GetRepo(t) \/ RepoExists(t) \/ OpenRepository(t) \/ SelectFails(t)
               \/ CacheRepo(t) \/ NewContext(t) \/ Erase(t) \/ ThreadContext(t)
        PROVE  disk' = disk
    BY <2>5 DEF GetRepo, RepoExists, OpenRepository, SelectFails, CacheRepo,
       NewContext, Erase, ThreadContext
  <2>6. ASSUME NEW t \in Threads, NEW p \in Paths, SelectRepository(t, p) \/ CleanRepo(t, p)
        PROVE  disk' = disk
    BY <2>6 DEF SelectRepository, CleanRepo
  <2>7. ASSUME NEW t \in Threads, NEW c \in held[t], NEW b \in Branches,
               CallFails(t, c) \/ SelectBranch(t, c, b)
        PROVE  disk' = disk
    BY <2>7 DEF CallFails, SelectBranch
  <2>8. Crash \/ UNCHANGED vars => disk' = disk
    BY DEF Crash, vars
  <2> HIDE DEF Kept
  <2> QED
    BY <1>1, <2>1, <2>2, <2>3, <2>4, <2>5, <2>6, <2>7, <2>8, BranchAssumption
    DEF Next, Step
<1>2. CacheInv /\ [Next]_vars => [Kept]_vars
  BY <1>1
<1> QED BY <1>2, CacheInvariance, PTL DEF Spec, CreationKeepsBranches
===============================================================================
