------------------------------- MODULE Cordoba -------------------------------
(***************************************************************************)
(* Contexts, branches and commits (gd/src/gd.cpp, gd/src/guard.cpp).       *)
(*                                                                         *)
(* Several threads share one repository through their own Context each: a  *)
(* branch, the commit and root tree read from it at some time (Node), and  *)
(* the updates collected since (TreeCollector).  commit() is modelled      *)
(* step by step: it applies the updates to the root of the context, waits  *)
(* for the mutex commitAccess, lets libgit2 compare the branch with the    *)
(* parent and then move it, and looks the new commit up again after the    *)
(* mutex is released.  Anything may happen between two of these steps:     *)
(* other threads, the git command line, a failing call, the death of the   *)
(* process.                                                                *)
(*                                                                         *)
(* A call that fails yields an Error.  It takes the place of the context   *)
(* where that is a temporary, or a variable of the type of the Result; a   *)
(* variable of another type (after a read, a ReadContext) is not assigned  *)
(* to, and goes on with whatever the call has left in it.  Keepers are the *)
(* threads that have such variables.  That a call which SUCCEEDS leaves    *)
(* them moved from is the subject of Chain: here the thread goes on with   *)
(* the Result.  "HEAD" names Main: the repository is created so, and       *)
(* nothing in gd moves it.                                                 *)
(***************************************************************************)
EXTENDS Snapshots, FiniteSets

CONSTANTS
  Threads,     (* the threads of the process                             *)
  Keepers,     (* those that may keep a context when a call has failed   *)
  Branches,    (* branch names                                           *)
  Main,        (* the branch HEAD names                                  *)
  NoCtx,       (* the thread holds no context, or an Error               *)
  NoThread,    (* the mutex is free                                      *)
  MaxCommits,  (* bound on the commits in the repository                 *)
  MaxUpdates   (* bound on the updates collected by a context            *)

ASSUME BranchAssumption == Main \in Branches
ASSUME ThreadAssumption == NoThread \notin Threads /\ Keepers \subseteq Threads
ASSUME BoundAssumption  == MaxCommits \in Nat /\ MaxUpdates \in Nat

(* What a Context holds: the branch, the commit it is based on (0: none),  *)
(* the root tree of that commit, and the updates collected.                *)
Contexts == [ref: Branches, commit: Nat, root: Trees, updates: Seq(Updates)]

(* What it stands for in VersionedStore.                                   *)
Transactions == [branch: Branches, base: Nat, delta: Seq(Updates)]

ASSUME ContextAssumption == NoCtx \notin Contexts /\ NoCtx \notin Transactions

VARIABLES
  dag,          (* the commits, each with its parent (0: none) and tree  *)
  refs,         (* the tip of every branch, 0 while it does not exist    *)
  ctx,          (* the Context of every thread                           *)
  job,          (* how far every thread is inside commit()               *)
  commitAccess, (* the thread that holds the mutex of commit()           *)
  ledger        (* history: what every commit was asked to be, and what  *)
                (* its caller was told                                   *)

vars == <<dag, refs, ctx, job, commitAccess, ledger>>

Commits == DOMAIN dag

TreeOf(c) == IF c = 0 THEN EmptyTree ELSE dag[c].tree

Context(b, c, us) == [ref |-> b, commit |-> c, root |-> TreeOf(c), updates |-> us]

Idle == [pc |-> "idle", delta |-> << >>, tree |-> EmptyTree, seen |-> 0, id |-> 0]

Init ==
  /\ dag = << >>
  /\ refs = [b \in Branches |-> 0]
  /\ ctx = [t \in Threads |-> NoCtx]
  /\ job = [t \in Threads |-> Idle]
  /\ commitAccess = NoThread
  /\ ledger = << >>

-------------------------------------------------------------------------------
(* Calls that only touch the context of the caller. *)

(* Thread t is about to make a call with its context. *)
Ready(t) == job[t].pc = "idle" /\ ctx[t] # NoCtx

(* A call fails: the context is lost, or it is what the call has left.     *)
Fail(t, left) ==
  \/ ctx' = [ctx EXCEPT ![t] = NoCtx]
  \/ t \in Keepers /\ ctx' = [ctx EXCEPT ![t] = left]

repository == <<dag, refs, ledger>>
committing == <<job, commitAccess>>

(* A new context on HEAD; any failure to read it, because it is unborn or  *)
(* otherwise, is ignored: the context then has no commit.                  *)
SelectRepository(t) ==
  /\ job[t].pc = "idle"
  /\ \E c \in {0, refs[Main]} : ctx' = [ctx EXCEPT ![t] = Context(Main, c, << >>)]
  /\ UNCHANGED <<repository, committing>>

(* Mutant: the tip moves to the other branch, the reference does not.      *)
SelectBranchKeepsRef(t, b) ==
  /\ Ready(t)
  /\ refs[b] # 0
  /\ ctx' = [ctx EXCEPT ![t] = Context(@.ref, refs[b], @.updates)]
  /\ UNCHANGED <<repository, committing>>

(* The updates collected so far move along to the other branch.  First the *)
(* reference changes, then the commit is looked for, then its tree.        *)
SelectBranch(t, b) ==
  /\ Ready(t)
  /\ LET switched == [ctx[t] EXCEPT !.ref = b] IN
     \/ refs[b] # 0 /\ ctx' = [ctx EXCEPT ![t] = Context(b, refs[b], @.updates)]
     \/ refs[b] # 0 /\ Fail(t, [switched EXCEPT !.commit = refs[b]])
     \/ Fail(t, switched)
  /\ UNCHANGED <<repository, committing>>

(* Mutant: the commit moves on, the root tree of the old one stays.        *)
RebaseKeepsRoot(t) ==
  /\ Ready(t)
  /\ refs[ctx[t].ref] # 0
  /\ ctx' = [ctx EXCEPT ![t].commit = refs[ctx[t].ref]]
  /\ UNCHANGED <<repository, committing>>

(* Nothing changes if the reference cannot be resolved. *)
Rebase(t) ==
  /\ Ready(t)
  /\ refs[ctx[t].ref] # 0
  /\ ctx' = [ctx EXCEPT ![t] = Context(@.ref, refs[@.ref], @.updates)]
  /\ UNCHANGED <<repository, committing>>

Collect(t, us) ==
  /\ Len(ctx[t].updates) + Len(us) =< MaxUpdates
  /\ ctx' = [ctx EXCEPT ![t].updates = @ \o us]

(* add() inserts, del() removes; whether there is anything to remove is    *)
(* not looked at before the commit.                                        *)
AddOrDel(t, f, v) ==
  /\ Ready(t)
  /\ Collect(t, << [file |-> f, val |-> v] >>)
  /\ UNCHANGED <<repository, committing>>

(* mv() takes what the COMMITTED tree holds, not what was just collected.  *)
Mv(t, f, g) ==
  /\ Ready(t)
  /\ ctx[t].commit # 0
  /\ LET v == ctx[t].root[f] IN
     IF v = Absent
     THEN Fail(t, ctx[t])
     ELSE Collect(t, << [file |-> g, val |-> v], [file |-> f, val |-> Absent] >>)
  /\ UNCHANGED <<repository, committing>>

Rollback(t) ==
  /\ Ready(t)
  /\ ctx' = [ctx EXCEPT ![t].updates = << >>]
  /\ UNCHANGED <<repository, committing>>

(* Mutant: a branch that exists is moved (the force flag of libgit2).      *)
CreateBranchForced(t, b) ==
  /\ Ready(t)
  /\ ctx[t].commit # 0
  /\ refs' = [refs EXCEPT ![b] = ctx[t].commit]
  /\ UNCHANGED <<dag, ctx, ledger, committing>>

(* A branch that exists is not moved, and the context stays where it is.   *)
CreateBranch(t, b) ==
  /\ Ready(t)
  /\ IF ctx[t].commit = 0 \/ refs[b] # 0
     THEN Fail(t, ctx[t]) /\ UNCHANGED refs
     ELSE refs' = [refs EXCEPT ![b] = ctx[t].commit] /\ UNCHANGED ctx
  /\ UNCHANGED <<dag, ledger, committing>>

-------------------------------------------------------------------------------
(* commit(), step by step. *)

(* Bound: no commit is begun that the repository would have no room for.   *)
Room ==
  Len(dag) + Cardinality({ t \in Threads : job[t].pc \in {"applied", "locked", "checked"} })
    < MaxCommits

(* Nothing collected, or an update that does not apply, is an error.       *)
CommitRejected(t) ==
  /\ Ready(t)
  /\ ctx[t].updates = << >> \/ ~Applies(ctx[t].root, ctx[t].updates)
  /\ Fail(t, ctx[t])
  /\ UNCHANGED <<repository, committing>>

(* Mutant: the updates are not forgotten, and are part of the next commit. *)
CommitApplyKeepsUpdates(t) ==
  /\ Room
  /\ Ready(t)
  /\ ctx[t].updates # << >>
  /\ Applies(ctx[t].root, ctx[t].updates)
  /\ job' = [job EXCEPT ![t] = [Idle EXCEPT
                !.pc = "applied",
                !.delta = ctx[t].updates,
                !.tree = ApplyTo(ctx[t].root, ctx[t].updates)]]
  /\ UNCHANGED <<repository, ctx, commitAccess>>

(* apply() builds the new tree from the root of the context and forgets    *)
(* the updates; the commit may still fail after that.                      *)
CommitApply(t) ==
  /\ Room
  /\ Ready(t)
  /\ ctx[t].updates # << >>
  /\ Applies(ctx[t].root, ctx[t].updates)
  /\ job' = [job EXCEPT ![t] = [Idle EXCEPT
                !.pc = "applied",
                !.delta = ctx[t].updates,
                !.tree = ApplyTo(ctx[t].root, ctx[t].updates)]]
  /\ ctx' = [ctx EXCEPT ![t].updates = << >>]
  /\ UNCHANGED <<repository, commitAccess>>

(* Mutant: there is no mutex.                                              *)
CommitUnserialized(t) ==
  /\ job[t].pc = "applied"
  /\ job' = [job EXCEPT ![t].pc = "locked"]
  /\ UNCHANGED <<repository, ctx, commitAccess>>

CommitLock(t) ==
  /\ job[t].pc = "applied"
  /\ commitAccess = NoThread
  /\ commitAccess' = t
  /\ job' = [job EXCEPT ![t].pc = "locked"]
  /\ UNCHANGED <<repository, ctx>>

(* Mutant: the mutex stays locked.                                         *)
CommitFailsLocked(t) ==
  /\ Fail(t, ctx[t])
  /\ job' = [job EXCEPT ![t] = Idle]
  /\ UNCHANGED <<repository, commitAccess>>

(* git_commit_create failed: the mutex is released.  The updates are gone. *)
CommitFails(t) ==
  /\ Fail(t, ctx[t])
  /\ job' = [job EXCEPT ![t] = Idle]
  /\ commitAccess' = NoThread
  /\ UNCHANGED repository

(* Mutant: nobody asks whether the tip is the first parent.                *)
CommitUnchecked(t) ==
  /\ job[t].pc = "locked"
  /\ job' = [job EXCEPT ![t].pc = "checked", ![t].seen = refs[ctx[t].ref]]
  /\ UNCHANGED <<repository, ctx, commitAccess>>

(* libgit2 reads the branch; its tip must be the first parent.  A branch   *)
(* that does not exist is let pass.                                        *)
CommitCheck(t) ==
  /\ job[t].pc = "locked"
  /\ LET tip == refs[ctx[t].ref] IN
     IF tip # 0 /\ tip # ctx[t].commit
     THEN CommitFails(t)
     ELSE /\ job' = [job EXCEPT ![t].pc = "checked", ![t].seen = tip]
          /\ UNCHANGED <<repository, ctx, commitAccess>>

(* libgit2 moves the branch to the new commit: from the tip it has seen    *)
(* only, but unconditionally if it has seen none.                          *)
CommitWrite(t) ==
  /\ job[t].pc = "checked"
  /\ LET b == ctx[t].ref
         n == Len(dag) + 1 IN
     IF job[t].seen # 0 /\ refs[b] # job[t].seen
     THEN CommitFails(t)
     ELSE /\ dag' = Append(dag, [parent |-> ctx[t].commit, tree |-> job[t].tree])
          /\ ledger' = Append(ledger, [branch |-> b, delta |-> job[t].delta,
                                       reply |-> "none"])
          /\ refs' = [refs EXCEPT ![b] = n]
          /\ job' = [job EXCEPT ![t].pc = "created", ![t].id = n]
          /\ commitAccess' = NoThread
          /\ UNCHANGED ctx

(* Mutant: the context remembers the new commit with the old tree.         *)
CommitUpdateKeepsRoot(t) ==
  /\ job[t].pc = "created"
  /\ ctx' = [ctx EXCEPT ![t].commit = job[t].id]
  /\ ledger' = [ledger EXCEPT ![job[t].id].reply = "ok"]
  /\ job' = [job EXCEPT ![t] = Idle]
  /\ UNCHANGED <<dag, refs, commitAccess>>

(* The context moves on to the new commit, and the caller gets it back ... *)
CommitUpdate(t) ==
  /\ job[t].pc = "created"
  /\ ctx' = [ctx EXCEPT ![t] = Context(@.ref, job[t].id, @.updates)]
  /\ ledger' = [ledger EXCEPT ![job[t].id].reply = "ok"]
  /\ job' = [job EXCEPT ![t] = Idle]
  /\ UNCHANGED <<dag, refs, commitAccess>>

(* ... or the look-up of the commit fails, and the caller gets an Error    *)
(* for a commit that was made.  A context that is kept stays at the parent.*)
CommitUpdateFails(t) ==
  /\ job[t].pc = "created"
  /\ Fail(t, ctx[t])
  /\ ledger' = [ledger EXCEPT ![job[t].id].reply = "error"]
  /\ job' = [job EXCEPT ![t] = Idle]
  /\ UNCHANGED <<dag, refs, commitAccess>>

-------------------------------------------------------------------------------
(* What else can happen. *)

(* A call of libgit2 (I/O, memory) fails anywhere before the branch moves. *)
GitFailure(t) ==
  /\ ctx[t] # NoCtx
  /\ job[t].pc # "created"
  /\ Fail(t, ctx[t])
  /\ job' = [job EXCEPT ![t] = Idle]
  /\ commitAccess' = IF commitAccess = t THEN NoThread ELSE commitAccess
  /\ UNCHANGED repository

(* The git command line commits on an existing branch.                     *)
GitCli(b, f, v) ==
  /\ Room
  /\ refs[b] # 0
  /\ LET delta == << [file |-> f, val |-> v] >> IN
     /\ dag' = Append(dag, [parent |-> refs[b],
                            tree |-> ApplyTo(TreeOf(refs[b]), delta)])
     /\ ledger' = Append(ledger, [branch |-> b, delta |-> delta, reply |-> "none"])
  /\ refs' = [refs EXCEPT ![b] = Len(dag) + 1]
  /\ UNCHANGED <<ctx, committing>>

(* The process dies: contexts and the mutex go with it, the repository     *)
(* stays.  It does so by itself when mv() is called on a context without   *)
(* a commit, whose root tree is a null pointer.                            *)
Crash ==
  /\ ctx' = [t \in Threads |-> NoCtx]
  /\ job' = [t \in Threads |-> Idle]
  /\ commitAccess' = NoThread
  /\ UNCHANGED repository

-------------------------------------------------------------------------------
Next ==
  \/ \E t \in Threads :
       \/ SelectRepository(t) \/ Rebase(t) \/ Rollback(t)
       \/ \E b \in Branches : SelectBranch(t, b) \/ CreateBranch(t, b)
       \/ \E f \in Files, v \in Values : AddOrDel(t, f, v)
       \/ \E f, g \in Files : Mv(t, f, g)
       \/ CommitRejected(t) \/ CommitApply(t) \/ CommitLock(t) \/ CommitCheck(t)
       \/ CommitWrite(t) \/ CommitUpdate(t) \/ CommitUpdateFails(t)
       \/ GitFailure(t)
  \/ \E b \in Branches, f \in Files, v \in Values : GitCli(b, f, v)
  \/ Crash

Spec == Init /\ [][Next]_vars

(* A thread inside commit() keeps running.  Nothing is assumed of threads  *)
(* outside it, of failures, or of who gets the mutex when several wait.    *)
Fairness ==
  \A t \in Threads :
    WF_vars(CommitLock(t) \/ CommitCheck(t) \/ CommitWrite(t) \/ CommitUpdate(t))

FairSpec == Spec /\ Fairness

-------------------------------------------------------------------------------
CommitRecords == [parent: Nat, tree: Trees]
Entries == [branch: Branches, delta: Seq(Updates), reply: {"none", "ok", "error"}]
Jobs == [pc: {"idle", "applied", "locked", "checked", "created"},
         delta: Seq(Updates), tree: Trees, seen: Nat, id: Nat]

(* Every commit has a whole tree, every thread a context or none and a     *)
(* place in commit(), and the mutex at most one holder.                    *)
TypeOK ==
  /\ dag \in Seq(CommitRecords)
  /\ refs \in [Branches -> Nat]
  /\ ctx \in [Threads -> Contexts \union {NoCtx}]
  /\ job \in [Threads -> Jobs]
  /\ commitAccess \in Threads \union {NoThread}
  /\ ledger \in Seq(Entries)
  /\ Len(ledger) = Len(dag)

(* Every commit is its parent plus exactly the updates that were           *)
(* collected for it: however the context was rebased, switched or          *)
(* overtaken in the meantime, nothing of another commit is undone by it    *)
(* and nothing is left out (apply at gd.cpp:604 against the root read      *)
(* earlier, the parent named at gd.cpp:612).                               *)
CommitIsParentPlusDelta ==
  \A c \in Commits : dag[c].tree = ApplyTo(TreeOf(dag[c].parent), ledger[c].delta)

(* Commit a is c or one of its ancestors: it is in every set of commits    *)
(* that holds c and, with a commit, its parent.                            *)
Reaches(c, a) ==
  \A S \in SUBSET Commits :
    c \in S /\ (\A d \in S : dag[d].parent # 0 => dag[d].parent \in S) => a \in S

(* Durability: once a commit was written to a branch it stays in the       *)
(* history of that branch, whoever commits there later.  The first commits *)
(* of an empty repository are kept apart by the mutex alone (gd.cpp:620).  *)
NoLostCommit ==
  \A c \in Commits : Reaches(refs[ledger[c].branch], c)

(* Of several contexts based on one commit only the first to commit on a   *)
(* branch wins: no two commits made on a branch share their parent         *)
(* (README.md:601-603).                                                    *)
FirstWins ==
  \A c, d \in Commits :
    ledger[c].branch = ledger[d].branch /\ dag[c].parent = dag[d].parent => c = d

(* A context works on the branch it names: the commit it is based on is in *)
(* the history of that branch, so that its commit can only be refused for  *)
(* being late, never for being somewhere else (selectBranch, rebase and    *)
(* commit update reference and tip apart from each other).  So it is where *)
(* nobody keeps a context that a failed call has left behind: gd.cpp:525   *)
(* leaves one on a branch where its commit is not.                         *)
BaseOnBranch ==
  \A t \in Threads :
    ctx[t] # NoCtx /\ ctx[t].commit # 0 => Reaches(refs[ctx[t].ref], ctx[t].commit)

(* Parents come before children, a branch does not fall behind the commits *)
(* made on it, and names none that does not exist.                         *)
NoDangling ==
  /\ \A c \in Commits : dag[c].parent < c /\ c =< refs[ledger[c].branch]
  /\ \A b \in Branches : refs[b] =< Len(dag)

(* Nothing is committed or branched before Main has its first commit.      *)
MainFirst == refs[Main] = 0 => dag = << >>

(* A context is based on a commit that exists; unless a failed call may    *)
(* have left it behind it holds the tree of that commit, and only Main can *)
(* be worked on before it exists.                                          *)
Coherent(t) ==
  ctx[t] # NoCtx =>
    /\ ctx[t].commit =< Len(dag)
    /\ t \notin Keepers => /\ ctx[t].root = TreeOf(ctx[t].commit)
                           /\ refs[ctx[t].ref] # 0 \/ ctx[t].ref = Main

(* What a thread relies on from one step of commit() to the next.          *)
Committing(t) ==
  /\ job[t].pc # "idle" => ctx[t] # NoCtx /\ ctx[t].updates = << >>
  /\ job[t].pc \in {"locked", "checked"} <=> commitAccess = t
  /\ job[t].pc \in {"applied", "locked", "checked"}
       => /\ job[t].delta # << >> /\ Applies(ctx[t].root, job[t].delta)
          /\ job[t].tree = ApplyTo(ctx[t].root, job[t].delta)
  /\ job[t].pc = "checked" =>
       IF job[t].seen = 0 THEN Keepers = {} => refs[ctx[t].ref] = 0
                          ELSE job[t].seen = ctx[t].commit
  /\ job[t].pc = "created" =>
       job[t].id \in Commits /\ ledger[job[t].id].branch = ctx[t].ref

(* The inductive invariant behind the safety properties: numbers, trees    *)
(* and branches of commits, contexts and half-made commits agree, and the  *)
(* holder of the mutex alone is between the check and the move of a        *)
(* branch (gd.cpp:616-633).  Where contexts are kept that failed calls     *)
(* have left behind, less of it is true.                                   *)
IInv ==
  /\ TypeOK /\ NoDangling /\ (Keepers = {} => MainFirst)
  /\ \A t \in Threads : Coherent(t) /\ Committing(t)

(* gd.cpp:618-619: "The only contention point in need of serialization is  *)
(* updates to the DAG. i.e. commits".  A branch that exists moves only to  *)
(* a child of its tip, and commits are never changed (git_commit_create    *)
(* checks it, and the mutex protects it).  Where contexts are kept another *)
(* call is in need of it: createBranch(), between the check and the move   *)
(* of a commit on the branch that is missing.                              *)
FastForward ==
  [][/\ \A b \in Branches : refs[b] # 0 /\ refs'[b] # refs[b]
                              => dag'[refs'[b]].parent = refs[b]
     /\ \A c \in Commits : dag'[c] = dag[c]]_vars

(* However contexts are kept and reused: a new commit is a child of the    *)
(* tip of its branch, unless libgit2 did not see the branch when it made   *)
(* the check (gd.cpp:621).  Where no context is kept, there is none to see *)
(* for the first commit only, and nobody can create one meanwhile.         *)
OnlyUnseenDiverge ==
  [][\A n \in DOMAIN dag' \ Commits :
       \/ dag'[n].parent = refs[ledger'[n].branch]
       \/ Keepers # {} /\ \E t \in Threads :
            job[t].pc = "checked" /\ job[t].seen = 0 /\ ctx[t].ref = ledger'[n].branch]_vars

(* A commit() that was begun returns, unless other threads take the mutex  *)
(* again and again: std::mutex promises no order among those who wait.     *)
CommitReturns ==
  \A t \in Threads :
    \/ job[t].pc # "idle" ~> job[t].pc = "idle"
    \/ []<><<\E u \in Threads \ {t} : CommitLock(u)>>_vars

(* README.md:375-377: "if an error happens in any of the calls, no harm is *)
(* done".  A commit whose caller got an Error should not be in the         *)
(* repository; but commit() can fail after the branch was moved            *)
(* (gd.cpp:635), and a caller who retries commits the same again.          *)
ErrorMeansNoCommit == \A c \in Commits : ledger[c].reply # "error"

-------------------------------------------------------------------------------
(* Refinement: a context is a transaction of VersionedStore.  Its updates  *)
(* are those being committed while commit() runs, and it is based on the   *)
(* new commit from the moment the branch has moved.                        *)
TxnOf(t) ==
  IF ctx[t] = NoCtx THEN NoCtx ELSE
    [branch |-> ctx[t].ref,
     base   |-> IF job[t].pc = "created" THEN job[t].id ELSE ctx[t].commit,
     delta  |-> IF job[t].pc \in {"applied", "locked", "checked"}
                THEN job[t].delta ELSE ctx[t].updates]

Store == INSTANCE VersionedStore WITH
           Clients <- Threads, NoTxn <- NoCtx,
           versions <- dag, head <- refs, txn <- [t \in Threads |-> TxnOf(t)]

(* The steps of commit() together are one atomic, optimistic commit of     *)
(* VersionedStore, and every other step is one of its operations or none.  *)
Refines == Store!Spec
===============================================================================
