# A verification of C⊕rdoba

C⊕rdoba (library `gd`) is a versioned store on top of a git repository. A
caller chains operations on a *context*; a context collects updates and commits
them to a branch. This directory models the library in TLA+, checks the models
with TLC and proves theorems about them with TLAPS.

## The system

| Component | Where | State | Operations | Hard about it |
|---|---|---|---|---|
| Contexts, branches, commits | `gd.cpp` 375–730, `gd.h` 44–131, `guard.cpp` | the commit graph and branches of the repository; per context: branch, commit, root tree, updates | `selectRepository`, `selectBranch`, `rebase`, `add`, `del`, `mv`, `commit`, `rollback`, `createBranch` | several threads and the git command line commit at the same time; `commit` has several steps and can fail after any |
| Update collector | `collector.h`, `gd.cpp` 188–372 | updates per directory, in order | collecting, `apply`, reading | order within and between directories, removal of what is not there, files and directories in each other's way |
| Repository cache, thread context | `gd.cpp` 50–188 | open repositories by path, one implicit context per thread | `selectRepository`, `cleanRepo`, `db >> ...` | erasing under a shared lock, freed repositories, check-then-create |
| Call chaining | `gd.h` 181–478, `expected.h`, `err.h` | a context or an Error, in a variable or a temporary | `>>`, `\|\|`, the lambdas | moved-from contexts, what a failed call leaves behind, references captured by lambdas |
| Object lifetime | `guard.h`, `gd.h` 40–94, `gd.cpp` 395–468 | which `Guard` owns which libgit2 object, where the id of a `Node` points | construct, move, assign, destruct; `init`, `update` | moves in several statements, lookups that fail half way, ids that point into objects |
| Greens | `gd/test/greens.cpp`, `gd/test/inc/git.h`, `crudite.h` | agents that commit at random, a record of what they did behind the shared mutex `gitData_` | agent loop, operations, `randomizeBranch`, recording | is-tip-then-commit and name-then-create under mutexes of the agents; retries; a record beside the store; a mutex that is locked twice |
| Path traversal | `pathTraverse.h` | – | prefixes of a path | not used by anything |

A call takes a context by move and returns it, or an Error in its place. The
repository is shared by contexts through libgit2; contexts share nothing else
but the static mutex `commitAccess` of `commit()`. The thread-local context
remembers a repository and a branch, never updates.

What makes each component correct:

* *Contexts, branches, commits.* No commit is lost or overtaken; a commit is
  its parent plus exactly the updates of the context; of several contexts on
  one commit the first to commit wins; a commit is atomic whatever fails
  or dies; `commit()` returns.
* *Collector.* `apply` does the updates in the order they were asked for,
  fails as a whole or not at all, and touches nothing else; a read sees what a
  commit would make.
* *Cache.* A repository that a context uses is open; there is one per path.
* *Chaining.* After an Error nothing is executed; an update is committed at most
  once and is not lost behind the caller's back; what can be reused is whole.
* *Object lifetime.* An object has one owner; an id does not outlive its commit.
* *Greens.* No agent is late inside the critical section; a branch that was
  named is there; what was recorded is what the repository holds; all return.

## Modules

| Module | What it is |
|---|---|
| `Snapshots` | Trees as functions from files to contents, batches of updates, and what a batch makes of a tree. Definitions only. |
| `VersionedStore` | The promise: optimistic transactions on branches of versions; a commit is one step. |
| `Cordoba` | Threads, contexts and `commit()` in steps; its properties; its refinement of `VersionedStore`. |
| `MCCordoba` | Symmetry for TLC. |
| `CordobaProofs` | The inductive invariant and the safety properties, proved. |
| `CordobaRefinementProofs` | `Spec => Refines`, proved. |
| `Collector` | `dirObjs_`, `apply` and reading, over nested trees. |
| `MCCollector` | Sets of paths for TLC. |
| `TreesProofs` | Lemmas about paths, entries, tree builders and rebuilt directories, by induction; what `apply` makes of any updates, proved. |
| `CollectorProofs` | The inductive invariant of `Collector` and its safety properties, proved. |
| `RepoCache` | The cache of open repositories, `selectRepository` and `cleanRepo` in steps, the context of a thread. |
| `MCRepoCache` | Model values for TLC. |
| `RepoCacheProofs` | The inductive invariant of the cache and its safety properties, proved. |
| `Nodes` | Guards and nodes: who owns a commit and a tree, what every move does to them. Definitions only. |
| `Chain` | One variable, one temporary and the calls of the API, on objects of `Nodes`. |
| `MCChain` | The objects, for TLC. |
| `ChainProofs` | The inductive invariant of `Chain`, ownership and ids, proved. |
| `ChainUpdatesProofs` | What becomes of updates in `Chain`, proved. |
| `Greens` | The agents and their record, composed with `VersionedStore`. |
| `MCGreens` | The module TLC runs. |
| `GreensProofs` | The inductive invariant of `Greens` and its safety properties, proved. |

`Cordoba` and `VersionedStore` share `Snapshots`; `Cordoba` is proved to
implement `VersionedStore`, and `Greens` uses `VersionedStore` in its place: each
step of an agent is one operation of its transaction, or none. `Chain` is built
on `Nodes`. `Collector` refers to `Snapshots` for what `apply` should do.

### Cordoba and the code

| Model | Code |
|---|---|
| `dag`, `refs` | commit objects and `refs/heads/*` of the repository, as libgit2 keeps them; a commit is the number of its place, 0 is "none" |
| `ctx[t]` | the `Context` a thread works with: `ref_`, `tip_.commit_`, `tip_.root_`, `updates_`; `NoCtx` when it holds an Error; of a `Keeper`, also what a failed call has left in a variable of another type. Several contexts of one thread are several threads of the model |
| `job[t]` | how far `commit()` has come, with its locals: the tree that was built, the tip libgit2 has seen, `commitId` |
| `commitAccess` | the mutex at `gd.cpp:616` |
| `ledger` | history: branch and updates of every commit, and whether its caller got a context or an Error |
| `SelectRepository` | a context on `HEAD`; that its commit could not be read is ignored (`gd.h:113`), so it may have none although there is one |
| `SelectBranch` | `gd.cpp:524–528` with `init` (`420–426`): reference, commit, tree, in this order; either lookup may fail |
| `Fail` | the end of a call that fails: the context is gone, or left as it is by then |
| `CommitApply` | `gd.cpp:604–612`: build the tree, clear the updates |
| `CommitLock` | `gd.cpp:620` |
| `CommitCheck`, `CommitWrite` | the two halves of `git_commit_create`: the tip of the branch, if there is one, must be the first parent; then the reference is moved if it still has that tip, or unconditionally if there was none |
| `CommitUpdate`, `CommitUpdateFails` | `gd.cpp:635`, after the mutex was released |
| `GitFailure` | any other call of libgit2 fails, inside or outside of `commit()` |
| `GitCli` | the command line commits on an existing branch, without the mutex |
| `Crash` | the process dies; also what a `mv` on a context without a commit does, which hands libgit2 a null tree |

An Error takes the place of the context where that is a temporary, or a variable
of the type of the Result. A variable of another type, as `auto ctx = sel >>
read(..)` makes one, is not assigned to (`gd.h:430–441`) and can be used again:
`Keepers` are the threads that have such variables. Contexts of theirs may name a
branch and hold a commit that is not on it, or a commit and the tree of another.
`NoLostCommit`, `FirstWins`, `CommitIsParentPlusDelta`, `BaseOnBranch`, `FastForward` and
`Refines` are about programs in which nobody does this (`Keepers = {}`), and the
theorems say so. With keepers `IInv` says less, and of `FastForward` remains
`OnlyUnseenDiverge`: libgit2 still refuses a commit that is no child of the tip of
its branch, unless it saw no such branch.

`HEAD` is `Main`: repositories are created with `initial_head = "main"` and
nothing in `gd` moves HEAD. The whole tree is one directory here, which
`Collector` justifies: `ApplyIsSnapshot` says that nested directories do not
matter as long as calls name files.

### Collector and the code

A tree is a record that holds a function from names to entries, as in git.
`updates` is `dirObjs_`; `Insert` appends to the list of one directory, `Build`
gives a builder the list of one directory, `Built` does so for all of them.
`log` is history: what was asked for, over all directories. It notes the content
of a file, and of a directory that is moved only that it is one (`Directory`).
`Apply` walks the directories bottom up by a recursive
function instead of by the order of the map: a directory can only insert into
its parent, so the order among directories of one depth makes no difference, and
the inserted subdirectories come after the collected updates. `Rebase` is any
commit by others to which the context then moves. `Read` keeps the context.
An Error loses the context, and the next one starts with the same commit.

### RepoCache and the code

| Model | Code |
|---|---|
| `cache`, `sharing` | `repoCache_`, the shared owners of `cacheAccess_` (`gd.cpp:119–120`); `cacheRepo` owns it alone, within one step |
| `opened`, `open` | the `git_repository` objects of the process and which of them are not freed; a pointer is a number, 0 is `nullptr` |
| `db[t]` | the `thread_local` `ctx_`: its repository and reference, which is all of it that is ever set |
| `held[t]` | the contexts the thread holds, as sets; of a context only repository and reference matter here |
| `disk` | the directory of each path: the branches in it, or none |
| `job[t]` | how far `selectRepository` or `cleanRepo` has come: search, look at the disk, open or create, cache, make the context; erase, remove |
| `Calls` ... `ThreadContext` | later calls with a context or `db`; a commit is one step, as `Cordoba` is proved to allow |
| `Crash` | the process ends, and another finds what is on disk |

A freed repository that is used, and a map that is erased from while it is
searched, are undefined behaviour. The model lets such a call go on, fail
(`CallFails`) or end the process (`Crash`); the properties are about getting
there. Addresses are not used again, so a dangling pointer never happens to
point to a repository opened later.

### Chain, Nodes and the code

| Model | Code |
|---|---|
| `reg` | a variable `auto ctx = ...`: a `Result` of a `Context` or a `ReadContext`, with `ref_`, the commit and the tree of `tip_`, and `updates_`. `ok` is whether it holds a value. An Error is a `Result` without one |
| `tmp` | the temporary a chain goes on with; `NoResult` between statements |
| `heap` | the `Guard`s of the nodes of both, of the `Result` a call makes (`"res"`) and of the locals of a lookup (`"new"`): what each holds, where `commitId_` points, which objects are not freed |
| `db` | the branch of the thread-local `ctx_` |
| `dag`, `refs` | the repository; a commit has its parent and its updates |
| `Return` | a call moves the context into its `Result` (`MoveNode`), which is assigned to the variable if it has its type (`gd.h:423`, `AssignNode`), and is the temporary otherwise (`gd.h:440`) |
| `Refuse`, `Skip`, `Fail` | the call answers with an Error, an Error is passed on, libgit2 fails before anything has changed |
| `SelectBranch` ... `Commit`, `Rebase` | the calls, each with every way out it has and what it has done to its operand by then |
| `SelectRepository`, `GetThreadContext`, `MoveOut`, `Keep`, `Drop` | where a chain begins and ends: `selectRepository`, `db`, `std::move(ctx)`, `ctx = ...`, the semicolon |
| `OrElse` | `\|\|` with a handler that answers an Error by another, or selects the repository again |

An operand that fails is destroyed with the temporary it is in, or with the
assignment; only a variable of another type keeps what the call has left of it,
and that is where half-done calls can be seen. `Crash` also stands for undefined
behaviour: reading the Error of a `Result` that holds none
(`createBranch(commitId)`), or `mv` without a root tree. The two lookups a call
makes need two objects at a time; `HasRoom` is the bound.

### Greens and the code

| Model | Code |
|---|---|
| `versions`, `head`, `txn` | the store, as `VersionedStore` has it |
| `agent[a]` | where the agent is, `currentCommitNum`, operations left, `props.elems_` and the branch it has drawn |
| `astray` | history: updates of a round without a commit are in the context, or in the commit |
| `criticalsection`, `branchCreation` | the static mutexes `greens.cpp:107`, `44` |
| `commits`, `branches`, `ok` | `GlycemicIt`: `commits_`, `branches_`, `ok_` |
| `CanRead`, `CanWrite`, `waiting`, `Wait` | its `gitData_`: locked shared or alone, within one step, by whoever looks at the record or changes it; who waits for it in front of new readers |
| `names` | `random_unique_filename()`: no name is given out twice |
| `Round`, `Props`, `Elems`, `NoElems` | the head of the loop and `CommitProps` (`git.h:249–263`), which shares `gitData_` while `elemsOf` shares it again, and while `nok` wants it alone |
| `Create` ... `ReadFails` | the operations of `crudite.h` |
| `Enter` ... `Refused`, `Nok` | `greens.cpp:120–146` |
| `Randomize` ... `Rebase` | `randomizeBranch`: naming (`Name`, in `getBranch`) and creating are two steps |

An agent whose commit was refused calls `nok()` and goes on to `randomizeBranch`
with its Error: it may find the record empty and return, draw a new branch, which
then has a name and is never created, or draw a named one. There (`SelectFails`),
and after a read that fails (`ReadFails`), the code uses the Error as if it were a
context, which is undefined behaviour; the model ends the agent.

To lock a `shared_mutex` that the thread already shares is undefined behaviour,
too. Locked shared again, it goes well, or waits behind one who waits to have it
alone; `Wait` is a step that may be taken or not, so that both kinds of
implementation are covered. Locked alone, as by `nok()` within `CommitProps`, it
waits for itself (`"spoilt"`).

## Runs

| Run | Question | Instance |
|---|---|---|
| `cordoba_branches` | Is any commit lost, overtaken, or put on the wrong branch? Is every commit its parent plus its updates? Is the invariant of the proofs an invariant? | 2 threads, 2 branches, 2 files, 3 commits, single updates |
| `cordoba_refinement` | Is `commit()` atomic to its users? | 2 threads, 2 branches, 1 file, 2 commits, batches of 2 |
| `cordoba_kept` | What still holds when contexts that failed calls have left behind are used again? Does `commit()` return? | 2 threads, one of them a keeper, 2 branches, 1 file, 2 commits |
| `collector` | Are updates in the right list, in order? Does `apply` do them in order, does a read agree with it, does the last update of a path decide, and is anything else touched when directories are deleted, moved, replaced? | files at depths 1 to 3, some of which can also be directories, 2 contents, 3 updates |
| `cache_races` | Do threads that select at the same time agree on one open repository per path, is a late creation harmless, what still holds when `cleanRepo` runs at the same time, and do all calls return? | 2 threads of which 1 also cleans, 2 paths, 2 branches, 2 repositories opened |
| `chain` | Is any object freed twice, leaked, or read through an id that is not its owner's? Is any update lost or committed twice? | 1 variable, 1 temporary, 2 branches, 6 objects, 2 commits, 2 updates |
| `greens` | Do the two mutexes do what they are for, does the record agree with the store, and do all agents return that are not locked up at `gitData_`? | 2 agents, 2 branches, 2 files, 1 content, 2 rounds of 1 operation |

Three commits are what a race needs: a common base, the one that wins and the
one that should be refused. Two threads suffice for the check-then-move race. Two
branches let a context be on the wrong one. Batches of two
tell the order of updates of one file; the branches run has two files, so that a
commit on a stale root loses something. The two updates of a `mv` fit into the
batches of `cordoba_refinement` only; elsewhere they rest on the proofs. One keeper
and one thread that creates the branch the keeper is on make the race of
`cordoba_kept`. The collector
needs a file twice in one directory, and directories up to two levels deep so
that one is rebuilt only because of what is below it. `MaxCommits`,
`MaxUpdates`, `MaxCollected` and `MaxDepth` are the only bounds there; `Room` and
`Shallow` are where they act. In the cache two threads race to create, and one of
them cleans before, between and after: two openings are the two of the race, or one
before and one after a cleaning; `MaxOpened` bounds them in `Room`.
Six objects in `chain` are those of two nodes and of one lookup; two
commits let a context be late and two updates make a set, or an order. In
`greens` the first round of two agents races for the first commit of the
repository; the second is the one where one of them may be late, on another
branch, or astray. Threads are symmetric in `cordoba_branches`
and `cordoba_refinement`.

Only the runs of `Greens` switch deadlock checking off, because agents can lock one
another up at `gitData_`; `AllReturn` says that this is the only way to stop,
other than by `main` waiting for all agents (`Joined`). In all other modules the
program can always be called again.

Five runs look for a disagreement between code and documentation and find it:

| Run | Said | Done |
|---|---|---|
| `cordoba_no_harm` | README.md:375–377: "if an error happens in any of the calls, no harm is done" | `commit()` can fail after the branch was moved |
| `collector_del_directory` | gd.h:199: del "Removes a file or a directory by fullpath" | a directory deleted and added to in one commit comes back with all its files |
| `cache_serialized` | gd.cpp:28–29: "Cache entries are serialized" | `cleanRepo` erases under a shared lock |
| `chain_reuse` | README.md:433: "The context can be reused as long as it is not containing an Error." | after `ctx >> read(...)` the variable holds a context without branch, commit and updates |
| `greens_locked_up` | git.h:25: "A Thread safe structure to capture the expected git state" | an agent that shares `gitData_` and locks it again waits behind one that waits for it alone; neither goes on |

Seen while modelling, without a run of their own. In the library:

* A pointer out of the cache is not "guaranteed to be safe" (gd.cpp:62–63) when
  somebody calls `cleanRepo`, which frees it: `PointersStayOpen` excepts just
  that.
* `cleanRepo` between the creation of a directory and its being cached
  (gd.cpp:149–153) leaves a cached repository without a directory: every later
  `selectRepository` returns it.
* `mv` of a file onto itself removes it: it is inserted under its new name and
  removed under its old one (gd.cpp:583).
* `selectBranch` sets the branch of the thread before it looks for it
  (gd.cpp:524): after a failure `db` is on a branch that does not exist and
  stays there. It does not set the repository: with contexts on two repositories
  `db` gets the later repository and the branch of the earlier one. A
  `ReadContext` variable that survives the failure creates the branch with its
  next commit, or is refused for being somewhere else (`Keepers`, above).
* When another thread creates that missing branch between the check and the move of
  such a commit, the branch is moved to a commit that is no child of its tip, which
  is lost. `OnlyUnseenDiverge` says that nothing else can do this; gd.cpp:618–619
  has commits as "the only contention point".
* `createBranch(commitId)` ("Branch from a `commitId`", gd.h:286) tests the commit
  the wrong way round (gd.cpp:661) and fails whether it exists or not.
* In a repository without a commit the context of `selectRepository` can be used
  and `db` cannot: `Node::init` fails where the constructor goes on.
* `db >> add(..); db >> commit(..)`, as in gd.h:348–352 and 372–376, loses the
  update: `db` is a new context each time.
* "ctx will hold that error" (README.md:376) is not so for a variable of another
  type than the call returns.
* `|| [](auto&) { rollback(); }` (README.md:386, example.cpp:93) builds the lambda
  of `rollback` and does not call it.
* `read` looks at the updates of one directory: of a file and a directory of the
  same name, both collected, it finds the file, and the commit has the
  directory. `add("/x")` is accepted, `read("/x")` fails.
* `Node::operator=` leaves the id of the node it was moved from, which points
  into a commit that node does not own any more; every caller destroys or
  replaces that node next, so `IdOfOwnCommit` holds.
* guard.cpp:58 leaks the tree entry when a path names a blob; `insertEntry`
  ignores the error of `fromEntry` (gd.cpp:289); the overload gd.h:463–474 can
  never be chosen.

In the test agents, each a false alarm of the test and none of the library:

* The updates of a round without elements are not rolled back (greens.cpp:120): they
  go into the next commit, which is recorded without them. `RecordAgrees` excepts
  such commits (`astray`).
* An agent that selects a branch between a commit and its being recorded
  (greens.cpp:131–139) does not find its parent: "(test bug)" (git.h:213). It calls
  `nok()`, which is to "shortcut test" (git.h:261), and waits for itself.
* A round of reads only commits nothing and is refused: the test fails.
* `createBranch` by an agent without a commit, or one whose commit was refused,
  fails after the branch was named: whoever draws that branch fails, too
  (greens.cpp:51–58).
* `getBranch` reads `branches_` without the lock; `branchCreation` makes up for it.
* Errors are dereferenced after a failed operation (greens.cpp:60, 123;
  crudite.h:111).
* The record is keyed by pointers into commit objects (git.h:15–23, 45), which
  libgit2's object cache may let go of.

### Fairness

`cordoba_kept` assumes weak fairness of the steps of `commit()` of each
thread: a thread that is inside goes on when it can. This is what the operating
system gives. Nothing is assumed of threads outside `commit()`, of failures, or
of the mutex: `std::mutex` does not promise that a waiting thread ever gets it
when others keep taking it, so `CommitReturns` allows for exactly that.
`cache_races` assumes the same of the steps of `selectRepository` and
`cleanRepo`, and `SelectReturns` allows for others that take the shared lock
again and again while one waits to have it alone. `greens` assumes weak fairness
of each agent, a thread of the operating system; who gets a mutex that several
wait for, `gitData_` among them, is left open. Agents return all the same, unless one is
locked up at `gitData_` (`Stuck`), as each makes a bounded
number of commits, and to be late takes a commit of another. `Chain` is about one
thread between its own calls: it has no liveness of its own.

### Mutants

Definitions whose comment begins with *Mutant* are plausible mistakes: the
mutex left out, the parent not checked, a branch moved by force, a context of
which only one part is updated, updates not cleared, a tree builder that starts
empty, an object that is forgotten instead of freed, an id asked of a commit that
was moved away, a round taken back twice or without its updates. They are not part of any specification. Each property is checked to fail
when its mutant takes the place of the definition.

## Proofs

All theorems hold for any sets of threads, branches, files and contents and any
bounds. They assume only what the modules assume of constants: `Absent` is no
content, `Main` is a branch, `NoThread` and `NoAgent` no thread, `NoCtx` and
`NoTxn` neither a context nor a transaction, `NoRef` no branch, `Null` no object,
`Directory` no content, paths are not empty, and the bounds are natural numbers.

`CordobaProofs`:

* `Invariance`: `IInv` is inductive. Type correctness alone is not enough, nor
  are the safety properties: that a new commit is a child of the tip of its
  branch depends on what a thread between check and move knows. `IInv` adds that
  numbers of commits are bounded and parents are older (`NoDangling`), that
  nothing exists before `Main` does (`MainFirst`) if there are no `Keepers`, that a
  context that was not kept holds the tree of its commit (`Coherent`), and that a thread inside `commit()` has the mutex
  exactly between check and move, has seen either its own parent or no branch, and carries a tree made from its own root (`Committing`).
  The second case is the first commit of a repository, where libgit2 checks
  nothing and the mutex does all the work.
* `RepositoryNext`, a lemma: seen from the repository, every step adds one
  commit to a branch, or a branch, or nothing. The other theorems
  argue from these three cases instead of from sixteen actions.
* `TypeCorrect`, and `OnlyUnseenBranchesDiverge` (`OnlyUnseenDiverge`), for any
  `Keepers`: the holder of the mutex alone is between check and move, and has seen
  either its own parent at the tip or no branch.
* `BranchesFastForward`, `FirstCommitterWins`, `CommitsAreExact`, `NoCommitIsLost`,
  `ContextsStayOnBranch`: the properties of `cordoba_branches`, each from the
  hypothesis `Keepers = {}`.
  Reachability in the commit graph is stated by closed sets of commits rather
  than by recursion, which lets it be proved about.

`CordobaRefinementProofs`: `Implements`, where `Keepers = {}`, from `IInv` and one lemma per action.
The transaction of a thread keeps its updates while `commit()` runs and moves to
the new commit with `CommitWrite`, which is the only step of `commit()` that is
a step of the store.

`RepoCacheProofs`, from the assumptions on its constants alone (`Cleaners` are
threads, `Main` is a branch, `Gone` and `NoPath` are nothing else):

* `CacheInvariance`: `CacheInv` is inductive, with any threads cleaning. Beside
  types and the properties it says that a repository which was opened and not
  yet cached is known to one thread only (`Private`): otherwise the thread that
  comes too late might free what another one is about to cache.
* `CacheTyped`, `NoRepositoryLeaks`, `DbFollowsSelection`: its parts.
* `PointersSafe` and `CreationIsHarmless`, also with any threads cleaning. The
  first goes by the lemma that says what a step may take away from a pointer
  that was safe: only an erasure of its path, which puts it into `cleaned`, a
  history variable.

`ChainProofs`:

* `Inductive`: `ChainInv` is inductive as it stands; its conjuncts are needed
  together, because an object may be freed only if nobody else owns it, and an
  id is right only if its commit was not. Lemmas about `Nodes` (what a move, an
  assignment, a destruction, a lookup does to a well-formed heap) come first;
  then `Return` and `Refuse` once and for all, over any operand; then one lemma per action.
* `OwnershipIsUnique`, `IdIsOfOwnCommit`: its parts.

`ChainUpdatesProofs`, on top of it:

* `StepUpdates` says what a step makes of the updates of its operand, in five
  cases: it hands them on or drops them, adds one, adds two, puts them into a
  commit, or leaves them while somebody else commits. The theorems argue from
  these, not from the calls.
* `NothingIsLost`: in none of the five is an update lost behind the back of the
  caller.
* `CommittedAtMostOnce`: `OnceInv` adds to `CommittedOnce` that all updates held
  or committed are among those asked for, so that a new one is larger than all
  there are. It is inductive together with `ChainInv`.

`GreensProofs`:

* `Inductive`: `GreensInv`. To the record (`RecordAgrees`) it adds what an agent
  holds where it is (`AgentInv`): the mutexes, a transaction at most as new as the
  store, and that its elements are the tree of its base with its updates
  applied, unless astray; and what ties the record to the store (`RecordInv`):
  that a store with commits and an empty record has an agent about to record, and
  that a named branch exists or has an agent that is creating it or has lost its
  context, which is then the agent that drew it. For this an agent outside of
  `randomizeBranch` that has a context has drawn nothing (`branch` is `Main`).
* `NeverTooLate`, `NamesAreCreated`, `RecordIsRight`: the properties the run checks.

`TreesProofs`. Paths, lists of updates and directories in one another have any
length here, and `EntryAt`, `Build` and `Built` are recursive functions, so that
nearly everything is induction. Two facts make it possible. The least element of
a set of numbers exists (`WFMin` for `<`), which gives induction over sets of
numbers (`Induction`) and of paths (`PathInduction`), where a theorem about
operators could not be used. And a recursive function is the function that
solves its equation if there is one, which is shown of each: along a path, along
a list, and for `Built` from the deepest directories up (`BuiltRecursion`), which
needs that directories with updates are not ever deeper.

* `BuildIs`, a lemma: a builder fails exactly at an update that takes out what the
  newest update before it, or else the tree it started from, does not have;
  otherwise it has what the newest update of each name says.
* `ApplyIs`: `apply` fails exactly if the builder of one rebuilt directory does;
  otherwise every rebuilt directory is a tree, and what is in it and not rebuilt is
  what its own list makes of what was there.

`CollectorProofs`, for any paths and contents, any number of updates, trees of
any depth; the bounds `MaxCollected` and `MaxDepth` play no part in it:

* `Invariant`: `IInv` is inductive. It says that the root is of files and trees all
  the way down (`Proper`: there is a set of such entries that it is in and that has
  what is in the trees of it), that directories with updates have a common bound
  on their depth, and that their lists are what was asked for (`KeepsOrder`): an
  order-preserving map takes the list of a directory onto the places in history
  that are about it. Its last part is also a property the run checks.
* `TypeCorrect`, `OrderIsKept`: its parts.
* `OthersAreKept` (`NothingElseChanges`): on the way to a path that is not above, at or below what
  was asked for there is a last rebuilt directory; from there on the commit is
  what it was before.
* `ReadsAreOfTheCommit` (`ReadsWhatCommits`): the newest update of a name is both what
  is read and what the builder ends with.
* `ApplyingIsSnapshot` (`ApplyIsSnapshot`): the map into history takes the newest
  update in a list before some place to the one that decides in history
  (`DecidingIs`), so that builders and the flat snapshot hold the same before
  every update, and fail together (`FailsAsSnapshot`). Afterwards they hold the
  same (`CommitsAsSnapshot`): at what was asked for; above it, where there is a directory;
  below it, where there is nothing; and elsewhere by `OthersAreKept`. This is what
  lets `Cordoba` and `Greens` treat the tree as one directory.
* `LastDecides` (`LastUpdateDecides`): the same, with directories: of each path the last
  update decides, unless something below it was named, which makes it a directory.

Model-checked only: liveness (`CommitReturns`, `SelectReturns`, `AllReturn`), which
TLAPS cannot prove. All safety properties of the passing runs are proved.

## Not modelled, and assumptions

* One process. Two processes do not share `commitAccess`; what the git command
  line does is modelled for existing branches only, and it never removes or
  rewinds a branch.
* Commits have identities of their own. Two commits equal to the second in tree,
  parent, author, message and time would be the same object in git.
* libgit2 is used by several threads on one `git_repository`; that it can be is
  assumed. Its object cache is assumed to hold on to a commit that was just
  looked up: `referenceCommit` (guard.cpp:186–194) returns an id out of a commit
  object it has freed, and `rebase` and `isTip` read it at once.
* `Nodes` follows the guards of commits and trees, which move from call to call.
  Guards that live and die in one function do not meet another one.
* `Greens` has the store to itself, and libgit2 does not fail in it; failures are
  the subject of `Cordoba` and `Chain`.
* Strings that a lambda of the API has captured by reference and that are gone
  when it is called (gd.h:194 ff.).
* A variable of type `ReadContext` whose commit fails inside `apply` keeps
  rebuilt subdirectories among its updates (gd.cpp:338): `Collector` ends a context
  with an Error, and `Chain` does not look inside updates.
* `pathTraverse.h`: an iterator that nothing uses.
* Paths are sequences of proper names: no `.`, `..`, empty or invalid names.
* Formatting, logging, generators of random words, examples, unit tests and
  build files: no state the properties depend on.

## Plan

Done: 1 `Snapshots`, 2 `VersionedStore`, 3 `Cordoba` with runs, 4 its proofs,
5 its refinement proof, 6 `Collector` with runs and proofs, 7 `RepoCache` with runs and
proofs, 8 `Nodes` and `Chain` with runs and proofs, 9 `Greens` with runs and
proofs.

What would come next: updates with their contents in `Chain`, for what a failed
`apply` leaves in a `ReadContext`; what is in a directory that was moved, when
updates below its old or its new name are in the same commit.
