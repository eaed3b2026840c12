----------------------- MODULE CordobaRefinementProofs -----------------------
(***************************************************************************)
(* Cordoba implements VersionedStore: whatever threads, failures and the   *)
(* git command line do between the steps of commit(), the store behaves as *)
(* if every commit were one atomic step of an optimistic transaction.      *)
(* This is said of programs which end a context with the Error: Keepers is *)
(* empty.                                                                  *)
(***************************************************************************)
EXTENDS CordobaProofs

(* The transactions of VersionedStore, as the refinement maps them.        *)
Txns == [t \in Threads |-> TxnOf(t)]

USE DEF Txns

-------------------------------------------------------------------------------
(* The data of the two specifications is the same. *)

(* Trees, batches and what they make of a tree mean the same in both.      *)
LEMMA SameData ==
  /\ Store!EmptyTree = EmptyTree
  /\ \A tree, us : /\ Store!ApplyTo(tree, us) = ApplyTo(tree, us)
                   /\ Store!Applies(tree, us) <=> Applies(tree, us)
  /\ \A c : Store!TreeOf(c) = TreeOf(c)
  /\ Store!Updates = Updates
  BY DEF Store!EmptyTree, EmptyTree, Store!ApplyTo, ApplyTo, Store!Applies, Applies,
         Store!ValueBefore, ValueBefore, Store!Deciding, Deciding, Store!TreeOf, TreeOf,
         Store!Updates, Updates, Store!Values, Values

(* A thread with a context has a transaction, one without has none.        *)
LEMMA HasTxn ==
  ASSUME IInv, NEW t \in Threads, ctx[t] # NoCtx
  PROVE  TxnOf(t) # NoCtx /\ Store!Active(t)
<1>1. /\ ctx[t].ref \in Branches /\ ctx[t].commit \in Nat /\ ctx[t].updates \in Seq(Updates)
      /\ job[t].id \in Nat /\ job[t].delta \in Seq(Updates)
  BY ContextFields DEF IInv, TypeOK, Jobs
<1>2. TxnOf(t) \in Transactions
  BY <1>1 DEF TxnOf, Transactions
<1> QED
  BY <1>2, ContextAssumption DEF Store!Active

(* A step that leaves the other threads alone changes one transaction.     *)
LEMMA OneTxn ==
  ASSUME NEW t \in Threads,
         \A u \in Threads \ {t} : ctx'[u] = ctx[u] /\ job'[u] = job[u]
  PROVE  Txns' = [Txns EXCEPT ![t] = TxnOf(t)']
  BY DEF TxnOf

(* A call that fails is an Abort.                                          *)
LEMMA FailAborts ==
  ASSUME Keepers = {}, IInv, NEW t \in Threads, ctx[t] # NoCtx, NEW left, Fail(t, left),
         \A u \in Threads \ {t} : job'[u] = job[u], UNCHANGED <<dag, refs>>
  PROVE  Store!Abort(t)
<1>1. ctx'[t] = NoCtx /\ \A u \in Threads \ {t} : ctx'[u] = ctx[u]
  BY DEF Fail, IInv, TypeOK
<1>2. Txns' = [Txns EXCEPT ![t] = TxnOf(t)'] /\ TxnOf(t)' = NoCtx
  BY <1>1, OneTxn DEF TxnOf
<1> QED
  BY <1>2, HasTxn DEF Store!Abort

-------------------------------------------------------------------------------
(* Calls outside commit(), one by one. *)

(* The context of thread t is replaced, and becomes transaction x.         *)
LEMMA Becomes ==
  ASSUME IInv, NEW t \in Threads, job[t].pc = "idle", job' = job,
         NEW k, k # NoCtx, ctx' = [ctx EXCEPT ![t] = k]
  PROVE  Txns' = [Txns EXCEPT ![t] = [branch |-> k.ref, base |-> k.commit,
                                      delta |-> k.updates]]
<1>1. ctx'[t] = k /\ \A u \in Threads \ {t} : ctx'[u] = ctx[u]
  BY DEF IInv, TypeOK
<1>2. TxnOf(t)' = [branch |-> k.ref, base |-> k.commit, delta |-> k.updates]
  BY <1>1 DEF TxnOf
<1> QED
  BY <1>1, <1>2, OneTxn

(* What the transaction of an idle thread is.                              *)
LEMMA IdleTxn ==
  ASSUME NEW t \in Threads, Ready(t)
  PROVE  Txns[t] = [branch |-> ctx[t].ref, base |-> ctx[t].commit, delta |-> ctx[t].updates]
  BY DEF Ready, TxnOf

(* selectRepository is a Begin; a BeginBlind if rebase() fails.            *)
LEMMA SelectRepositoryBegins ==
  ASSUME IInv, NEW t \in Threads, SelectRepository(t)
  PROVE  Store!Begin(t) \/ Store!BeginBlind(t)
<1>1. PICK c \in {0, refs[Main]} : ctx' = [ctx EXCEPT ![t] = Context(Main, c, << >>)]
  BY DEF SelectRepository
<1> DEFINE k == Context(Main, c, << >>)
<1>2. k # NoCtx
  <2>1. << >> \in Seq(Updates) /\ c \in Nat /\ (c = 0 \/ c \in Commits)
    BY RefsAreCommits, BranchAssumption
  <2> QED
    BY <2>1, ContextType, BranchAssumption DEF IInv
<1>3. Txns' = [Txns EXCEPT ![t] = [branch |-> k.ref, base |-> k.commit, delta |-> k.updates]]
  BY <1>1, <1>2, Becomes DEF SelectRepository, committing
<1>4. k.ref = Main /\ k.commit = c /\ k.updates = << >>
  BY DEF Context
<1> HIDE DEF k
<1> QED
  BY <1>3, <1>4 DEF SelectRepository, repository, Store!Begin, Store!BeginBlind, Store!Txn

(* Moving a context to the tip of an existing branch.                      *)
LEMMA MovesSwitch ==
  ASSUME IInv, NEW t \in Threads, Ready(t), NEW b \in Branches, refs[b] # 0,
         ctx' = [ctx EXCEPT ![t] = Context(b, refs[b], ctx[t].updates)],
         UNCHANGED <<dag, refs, job>>
  PROVE  Store!Switch(t, b)
<1> DEFINE k == Context(b, refs[b], ctx[t].updates)
<1>1. ctx[t] # NoCtx /\ job[t].pc = "idle" /\ ctx[t].updates \in Seq(Updates)
  BY ContextFields DEF Ready, IInv
<1>2. k # NoCtx
  BY <1>1, ContextType, RefsAreCommits DEF IInv
<1>3. Txns' = [Txns EXCEPT ![t] = [branch |-> k.ref, base |-> k.commit, delta |-> k.updates]]
  BY <1>1, <1>2, Becomes
<1>4. k.ref = b /\ k.commit = refs[b] /\ k.updates = Txns[t].delta
  BY IdleTxn DEF Context
<1> HIDE DEF k
<1>5. Txns' = [Txns EXCEPT ![t] = Store!Txn(b, refs[b], @.delta)]
  BY <1>3, <1>4 DEF Store!Txn
<1> QED
  BY <1>1, <1>5, HasTxn DEF Store!Switch

(* selectBranch is a Switch, or an Abort.                                  *)
LEMMA SelectBranchSwitches ==
  ASSUME Keepers = {}, IInv, NEW t \in Threads, NEW b \in Branches, SelectBranch(t, b)
  PROVE  Store!Switch(t, b) \/ Store!Abort(t)
<1> DEFINE switched == [ctx[t] EXCEPT !.ref = b]
           looked == [switched EXCEPT !.commit = refs[b]]
<1>1. /\ Ready(t) /\ ctx[t] # NoCtx /\ UNCHANGED <<dag, refs, job>>
      /\ \/ refs[b] # 0 /\ ctx' = [ctx EXCEPT ![t] = Context(b, refs[b], @.updates)]
         \/ Fail(t, looked)
         \/ Fail(t, switched)
  BY DEF SelectBranch, Ready, repository, committing
<1> HIDE DEF switched, looked
<1>2. CASE Fail(t, looked) \/ Fail(t, switched)
  BY <1>1, <1>2, FailAborts
<1>3. CASE refs[b] # 0 /\ ctx' = [ctx EXCEPT ![t] = Context(b, refs[b], @.updates)]
  BY <1>1, <1>3, MovesSwitch
<1> QED
  BY <1>1, <1>2, <1>3

(* rebase is a Refresh.                                                    *)
LEMMA RebaseRefreshes ==
  ASSUME IInv, NEW t \in Threads, Rebase(t)
  PROVE  Store!Refresh(t)
<1>1. ctx[t] # NoCtx /\ ctx[t].ref \in Branches
  BY ContextFields DEF Rebase, Ready, IInv
<1>2. Store!Switch(t, ctx[t].ref)
  BY <1>1, MovesSwitch DEF Rebase, repository, committing
<1>3. Txns[t].branch = ctx[t].ref
  BY IdleTxn DEF Rebase
<1> QED
  BY <1>1, <1>2, <1>3, HasTxn DEF Store!Refresh

(* Replacing the updates of a context replaces those of the transaction.   *)
LEMMA UpdatesOnly ==
  ASSUME IInv, NEW t \in Threads, Ready(t), NEW us \in Seq(Updates),
         ctx' = [ctx EXCEPT ![t].updates = us], job' = job
  PROVE  Txns' = [Txns EXCEPT ![t].delta = us]
<1> DEFINE k == [ctx[t] EXCEPT !.updates = us]
<1>1. ctx[t] \in Contexts /\ job[t].pc = "idle"
  BY ContextFields DEF Ready, IInv
<1>2. k \in Contexts /\ k.ref = ctx[t].ref /\ k.commit = ctx[t].commit /\ k.updates = us
  BY <1>1 DEF Contexts
<1>3. ctx' = [ctx EXCEPT ![t] = k]
  OBVIOUS
<1> HIDE DEF k
<1>4. Txns' = [Txns EXCEPT ![t] = [branch |-> k.ref, base |-> k.commit, delta |-> k.updates]]
  BY <1>1, <1>2, <1>3, Becomes, ContextAssumption
<1>5. [branch |-> k.ref, base |-> k.commit, delta |-> k.updates]
        = [Txns[t] EXCEPT !.delta = us]
  BY <1>2, IdleTxn
<1> QED
  BY <1>4, <1>5

(* rollback is a Rollback.                                                 *)
LEMMA RollbackIsRollback ==
  ASSUME IInv, NEW t \in Threads, Rollback(t)
  PROVE  Store!Rollback(t)
<1>1. << >> \in Seq(Updates) /\ ctx[t] # NoCtx
  BY DEF Rollback, Ready
<1>2. Txns' = [Txns EXCEPT ![t].delta = << >>]
  BY <1>1, UpdatesOnly DEF Rollback, committing
<1> QED
  BY <1>1, <1>2, HasTxn DEF Store!Rollback, Rollback, repository

(* add and del are an Edit.                                                *)
LEMMA AddOrDelEdits ==
  ASSUME IInv, NEW t \in Threads, NEW f \in Files, NEW v \in Values, AddOrDel(t, f, v)
  PROVE  \E u \in Updates : Store!Edit(t, u)
<1> DEFINE u == [file |-> f, val |-> v]
           us == ctx[t].updates \o << u >>
<1>1. Ready(t) /\ ctx[t] # NoCtx /\ ctx' = [ctx EXCEPT ![t].updates = us]
      /\ UNCHANGED <<dag, refs, job>>
  BY DEF AddOrDel, Ready, Collect, repository, committing
<1>2. ctx[t].updates \in Seq(Updates) /\ u \in Updates
  BY <1>1, ContextFields DEF IInv, Updates
<1> HIDE DEF u
<1>3. us \in Seq(Updates) /\ us = Append(ctx[t].updates, u)
  BY <1>2
<1>4. Txns' = [Txns EXCEPT ![t].delta = us]
  BY <1>1, <1>3, UpdatesOnly
<1>5. Txns[t].delta = ctx[t].updates
  BY <1>1, IdleTxn
<1> HIDE DEF us
<1>6. Txns' = [Txns EXCEPT ![t].delta = Append(@, u)]
  BY <1>3, <1>4, <1>5
<1> QED
  BY <1>1, <1>2, <1>6, HasTxn DEF Store!Edit

(* mv is a Move, or an Abort.                                              *)
LEMMA MvMoves ==
  ASSUME Keepers = {}, IInv, NEW t \in Threads, NEW f \in Files, NEW g \in Files, Mv(t, f, g)
  PROVE  Store!Move(t, f, g) \/ Store!Abort(t)
<1> DEFINE v == ctx[t].root[f]
           us == << [file |-> g, val |-> v], [file |-> f, val |-> Absent] >>
<1>1. /\ Ready(t) /\ ctx[t] # NoCtx /\ Coherent(t) /\ v \in Values
      /\ ctx[t].updates \in Seq(Updates) /\ UNCHANGED <<dag, refs, job>>
  BY ContextFields DEF Mv, Ready, repository, committing, IInv, Trees
<1>2. CASE v = Absent
  BY <1>1, <1>2, FailAborts DEF Mv
<1>3. CASE v # Absent
  <2>1. [file |-> g, val |-> v] \in Updates /\ [file |-> f, val |-> Absent] \in Updates
    BY <1>1 DEF Updates, Values
  <2>2. us \in Seq(Updates)
    BY <2>1
  <2>3. ctx' = [ctx EXCEPT ![t].updates = ctx[t].updates \o us]
    BY <1>3 DEF Mv, Collect
  <2>4. TreeOf(Txns[t].base)[f] = v /\ Txns[t].delta = ctx[t].updates
    BY <1>1, IdleTxn DEF Coherent
  <2> HIDE DEF v
  <2>5. ctx[t].updates \o us \in Seq(Updates)
    BY <1>1, <2>2
  <2>6. Txns' = [Txns EXCEPT ![t].delta = ctx[t].updates \o us]
    BY <1>1, <2>3, <2>5, UpdatesOnly
  <2>7. Store!TreeOf(Txns[t].base)[f] = v
    BY <2>4, SameData
  <2> QED
    BY <1>1, <1>3, <2>4, <2>6, <2>7, HasTxn DEF Store!Move
<1> QED
  BY <1>2, <1>3

(* createBranch is a Fork, or an Abort.                                    *)
LEMMA CreateBranchForks ==
  ASSUME Keepers = {}, IInv, NEW t \in Threads, NEW b \in Branches, CreateBranch(t, b)
  PROVE  Store!Fork(t, b) \/ Store!Abort(t)
<1>1. CASE ctx[t].commit = 0 \/ refs[b] # 0
  BY <1>1, FailAborts DEF CreateBranch, Ready, committing
<1>2. CASE ~(ctx[t].commit = 0 \/ refs[b] # 0)
  <2>1. /\ ctx[t] # NoCtx /\ Txns[t].base = ctx[t].commit
        /\ refs' = [refs EXCEPT ![b] = ctx[t].commit] /\ UNCHANGED <<dag, ctx, job>>
    BY <1>2, IdleTxn DEF CreateBranch, Ready, committing
  <2>2. Txns' = Txns
    BY <2>1 DEF TxnOf
  <2> QED
    BY <1>2, <2>1, <2>2, HasTxn DEF Store!Fork
<1> QED
  BY <1>1, <1>2

-------------------------------------------------------------------------------
(* The steps of commit(): one of them is the Commit, the others are none,  *)
(* or the end of the transaction.                                          *)

(* A step of thread t that keeps its transaction is no step of the store.  *)
LEMMA Stutters ==
  ASSUME NEW t \in Threads, TxnOf(t)' = TxnOf(t), UNCHANGED <<dag, refs>>,
         \A u \in Threads \ {t} : ctx'[u] = ctx[u] /\ job'[u] = job[u]
  PROVE  UNCHANGED Store!vars
<1>1. Txns' = Txns
  BY DEF TxnOf
<1> QED
  BY <1>1 DEF Store!vars

(* Applying the updates keeps them in the transaction.                     *)
LEMMA ApplyStutters ==
  ASSUME IInv, NEW t \in Threads, CommitApply(t)
  PROVE  UNCHANGED Store!vars
<1> DEFINE k == [ctx[t] EXCEPT !.updates = << >>]
           j == [Idle EXCEPT !.pc = "applied", !.delta = ctx[t].updates,
                             !.tree = ApplyTo(ctx[t].root, ctx[t].updates)]
<1>1. /\ ctx' = [ctx EXCEPT ![t] = k] /\ job' = [job EXCEPT ![t] = j]
      /\ job[t].pc = "idle" /\ ctx[t] # NoCtx /\ UNCHANGED <<dag, refs>>
  BY DEF CommitApply, Ready, repository
<1>2. ctx[t] \in Contexts /\ ctx[t].ref \in Branches /\ << >> \in Seq(Updates)
  BY <1>1, ContextFields DEF IInv
<1>3. /\ k \in Contexts /\ k.ref = ctx[t].ref /\ k.commit = ctx[t].commit
      /\ j.pc = "applied" /\ j.delta = ctx[t].updates
  BY <1>2 DEF Contexts, Idle
<1> HIDE DEF k, j
<1>4. ctx'[t] = k /\ job'[t] = j /\ k # NoCtx
      /\ \A u \in Threads \ {t} : ctx'[u] = ctx[u] /\ job'[u] = job[u]
  BY <1>1, <1>3, ContextAssumption DEF IInv, TypeOK
<1>5. TxnOf(t)' = TxnOf(t)
  BY <1>1, <1>3, <1>4 DEF TxnOf
<1> QED
  BY <1>1, <1>4, <1>5, Stutters

(* Waiting for the mutex is no step of the store.                          *)
LEMMA LockStutters ==
  ASSUME IInv, NEW t \in Threads, CommitLock(t)
  PROVE  UNCHANGED Store!vars
<1> DEFINE j == [job[t] EXCEPT !.pc = "locked"]
<1>1. /\ job' = [job EXCEPT ![t] = j] /\ job[t].pc = "applied" /\ job[t] \in Jobs
      /\ UNCHANGED <<dag, refs, ctx>>
  BY DEF CommitLock, repository, IInv, TypeOK
<1>2. j.pc = "locked" /\ j.delta = job[t].delta
  BY <1>1 DEF Jobs
<1> HIDE DEF j
<1>3. job'[t] = j /\ \A u \in Threads \ {t} : job'[u] = job[u]
  BY <1>1 DEF IInv, TypeOK
<1>4. TxnOf(t)' = TxnOf(t)
  BY <1>1, <1>2, <1>3 DEF TxnOf
<1> QED
  BY <1>1, <1>3, <1>4, Stutters

(* A failing git_commit_create ends the transaction.                       *)
LEMMA CommitFailsAborts ==
  ASSUME Keepers = {}, IInv, NEW t \in Threads, ctx[t] # NoCtx, CommitFails(t)
  PROVE  Store!Abort(t)
  BY FailAborts DEF CommitFails, repository, IInv, TypeOK

(* Checking the parent passes silently or ends the transaction.            *)
LEMMA CheckStutters ==
  ASSUME Keepers = {}, IInv, NEW t \in Threads, CommitCheck(t)
  PROVE  Store!Abort(t) \/ UNCHANGED Store!vars
<1> DEFINE tip == refs[ctx[t].ref]
           j == [job[t] EXCEPT !.pc = "checked", !.seen = tip]
<1>1. job[t].pc = "locked" /\ ctx[t] # NoCtx /\ job[t] \in Jobs
  BY MutexHolder DEF CommitCheck, IInv, TypeOK
<1>2. CASE tip # 0 /\ tip # ctx[t].commit
  BY <1>1, <1>2, CommitFailsAborts DEF CommitCheck
<1>3. CASE ~(tip # 0 /\ tip # ctx[t].commit)
  <2>1. /\ job' = [job EXCEPT ![t] = j] /\ UNCHANGED <<dag, refs, ctx>>
    BY <1>3 DEF CommitCheck, repository
  <2>2. j.pc = "checked" /\ j.delta = job[t].delta
    BY <1>1 DEF Jobs
  <2> HIDE DEF j
  <2>3. job'[t] = j /\ \A u \in Threads \ {t} : job'[u] = job[u]
    BY <2>1 DEF IInv, TypeOK
  <2>4. TxnOf(t)' = TxnOf(t)
    BY <1>1, <2>1, <2>2, <2>3 DEF TxnOf
  <2> QED
    BY <2>1, <2>3, <2>4, Stutters
<1> QED
  BY <1>2, <1>3

(* Moving the branch is the Commit of the store: the branch still is at    *)
(* the base, though nothing but the mutex and the check before ensure it.  *)
LEMMA WriteCommits ==
  ASSUME Keepers = {}, IInv, NEW t \in Threads, CommitWrite(t)
  PROVE  Store!Commit(t) \/ Store!Abort(t)
<1> DEFINE b == ctx[t].ref
           n == Len(dag) + 1
           j == [job[t] EXCEPT !.pc = "created", !.id = n]
<1>1. /\ job[t].pc = "checked" /\ ctx[t] # NoCtx /\ job[t] \in Jobs
      /\ ctx[t] \in Contexts /\ b \in Branches /\ Coherent(t) /\ Committing(t)
  BY MutexHolder, ContextFields DEF CommitWrite, IInv, TypeOK
<1>2. CASE job[t].seen # 0 /\ refs[b] # job[t].seen
  BY <1>1, <1>2, CommitFailsAborts DEF CommitWrite
<1>3. CASE ~(job[t].seen # 0 /\ refs[b] # job[t].seen)
  <2>1. /\ dag' = Append(dag, [parent |-> ctx[t].commit, tree |-> job[t].tree])
        /\ refs' = [refs EXCEPT ![b] = n] /\ job' = [job EXCEPT ![t] = j]
        /\ ctx' = ctx
    BY <1>3 DEF CommitWrite
  <2>2. j.pc = "created" /\ j.id = n
    BY <1>1 DEF Jobs
  <2> HIDE DEF j
  <2>3. job'[t] = j /\ \A u \in Threads \ {t} : job'[u] = job[u]
    BY <2>1 DEF IInv, TypeOK
  <2>4. Txns[t] = [branch |-> b, base |-> ctx[t].commit, delta |-> job[t].delta]
    BY <1>1 DEF TxnOf
  <2>5. /\ ctx[t].root = TreeOf(ctx[t].commit) /\ ctx[t].updates = << >>
        /\ job[t].delta # << >> /\ Applies(ctx[t].root, job[t].delta)
        /\ job[t].tree = ApplyTo(ctx[t].root, job[t].delta)
    BY <1>1 DEF Coherent, Committing
  <2>6. refs[b] = ctx[t].commit
    <3>1. CASE job[t].seen # 0
      BY <1>1, <1>3, <3>1 DEF Committing
    <3>2. CASE job[t].seen = 0
      <4>1. refs[b] = 0 /\ b = Main
        BY <1>1, <3>2 DEF Committing, Coherent
      <4>2. Len(dag) = 0
        BY <4>1 DEF IInv, MainFirst
      <4> QED
        BY <1>1, <4>1, <4>2, RefsAreCommits DEF Coherent
    <3> QED
      BY <3>1, <3>2
  <2>7. Len(dag') = n
    BY <2>1, RefsAreCommits
  <2>8. Txns' = [Txns EXCEPT ![t] = Store!Txn(b, n, << >>)]
    <3>1. TxnOf(t)' = [branch |-> b, base |-> n, delta |-> << >>]
      BY <1>1, <2>1, <2>2, <2>3, <2>5 DEF TxnOf
    <3> QED
      BY <2>1, <2>3, <3>1, OneTxn DEF Store!Txn
  <2>9. /\ Store!TreeOf(ctx[t].commit) = ctx[t].root
        /\ Store!Applies(ctx[t].root, job[t].delta)
        /\ job[t].tree = Store!ApplyTo(ctx[t].root, job[t].delta)
    BY <2>5, SameData
  <2> HIDE DEF b, n
  <2>10. dag' = Append(dag, [parent |-> ctx[t].commit,
                  tree |-> Store!ApplyTo(Store!TreeOf(ctx[t].commit), job[t].delta)])
    BY <2>1, <2>9
  <2>11. /\ Txns[t].branch = b /\ Txns[t].base = ctx[t].commit
         /\ Txns[t].delta = job[t].delta
    BY <2>4
  <2>12. Store!Active(t) /\ Txns[t].delta # << >> /\ refs[Txns[t].branch] = Txns[t].base
         /\ Store!Applies(Store!TreeOf(Txns[t].base), Txns[t].delta)
    BY <1>1, <2>5, <2>6, <2>9, <2>11, HasTxn
  <2>13. /\ refs' = [refs EXCEPT ![Txns[t].branch] = Len(dag')]
         /\ Txns' = [Txns EXCEPT ![t] = Store!Txn(Txns[t].branch, Len(dag'), << >>)]
    BY <2>1, <2>7, <2>8, <2>11
  <2>14. dag' = Append(dag, [parent |-> Txns[t].base,
                  tree |-> Store!ApplyTo(Store!TreeOf(Txns[t].base), Txns[t].delta)])
    BY <2>10, <2>11
  <2> QED
    BY <2>12, <2>13, <2>14 DEF Store!Commit
<1> QED
  BY <1>2, <1>3

(* The transaction was moved to its commit when the commit was made.       *)
LEMMA UpdateStutters ==
  ASSUME IInv, NEW t \in Threads, CommitUpdate(t)
  PROVE  UNCHANGED Store!vars
<1> DEFINE k == Context(ctx[t].ref, job[t].id, ctx[t].updates)
<1>1. /\ ctx' = [ctx EXCEPT ![t] = k] /\ job' = [job EXCEPT ![t] = Idle]
      /\ job[t].pc = "created" /\ UNCHANGED <<dag, refs>>
  BY DEF CommitUpdate
<1>2. ctx[t] # NoCtx /\ job[t].id \in Commits
  BY <1>1 DEF IInv, Committing
<1>3. /\ ctx[t].ref \in Branches /\ ctx[t].updates \in Seq(Updates)
      /\ job[t].id \in Nat
  BY <1>2, ContextFields DEF IInv, TypeOK, Jobs
<1>4. k # NoCtx
  BY <1>2, <1>3, ContextType DEF IInv
<1>5. k.ref = ctx[t].ref /\ k.commit = job[t].id /\ k.updates = ctx[t].updates
  BY DEF Context
<1> HIDE DEF k
<1>6. ctx'[t] = k /\ job'[t] = Idle
      /\ \A u \in Threads \ {t} : ctx'[u] = ctx[u] /\ job'[u] = job[u]
  BY <1>1 DEF IInv, TypeOK
<1>7. TxnOf(t)' = TxnOf(t)
  BY <1>1, <1>2, <1>4, <1>5, <1>6 DEF TxnOf, Idle
<1> QED
  BY <1>1, <1>6, <1>7, Stutters

(* A commit by someone else is one update from outside.                    *)
LEMMA GitCliIsOutside ==
  ASSUME IInv, NEW b \in Branches, NEW f \in Files, NEW v \in Values, GitCli(b, f, v)
  PROVE  \E u \in Updates : Store!Outside(b, u)
<1> DEFINE u == [file |-> f, val |-> v]
<1>1. u \in Updates
  BY DEF Updates
<1> HIDE DEF u
<1>2. /\ refs[b] # 0 /\ refs' = [refs EXCEPT ![b] = Len(dag) + 1]
      /\ dag' = Append(dag, [parent |-> refs[b], tree |-> ApplyTo(TreeOf(refs[b]), <<u>>)])
      /\ UNCHANGED <<ctx, job>>
  BY DEF GitCli, committing, u
<1>3. Len(dag') = Len(dag) + 1
  BY <1>2, RefsAreCommits
<1>4. ApplyTo(TreeOf(refs[b]), <<u>>) = Store!ApplyTo(Store!TreeOf(refs[b]), <<u>>)
  BY SameData
<1>5. UNCHANGED Txns
  BY <1>2 DEF TxnOf
<1> QED
  BY <1>1, <1>2, <1>3, <1>4, <1>5 DEF Store!Outside

(* The death of the process ends all transactions.                         *)
LEMMA CrashRestarts ==
  ASSUME Crash
  PROVE  Store!Restart
  BY DEF Crash, repository, TxnOf, Store!Restart

-------------------------------------------------------------------------------
(* Init and Next. *)

(* Initially there is nothing, on both sides.                              *)
LEMMA RefinesInit == Init => Store!Init
  BY DEF Init, Store!Init, TxnOf

(* Every step is one of the store or none.                                 *)
LEMMA RefinesNext ==
  ASSUME Keepers = {}, IInv, [Next]_vars
  PROVE  [Store!Next]_(Store!vars)
<1>1. ASSUME NEW t \in Threads, SelectRepository(t)
      PROVE  [Store!Next]_(Store!vars)
  BY <1>1, SelectRepositoryBegins DEF Store!Next
<1>2. ASSUME NEW t \in Threads, Rebase(t)
      PROVE  [Store!Next]_(Store!vars)
  BY <1>2, RebaseRefreshes DEF Store!Next
<1>3. ASSUME NEW t \in Threads, Rollback(t)
      PROVE  [Store!Next]_(Store!vars)
  BY <1>3, RollbackIsRollback DEF Store!Next
<1>4. ASSUME NEW t \in Threads, NEW b \in Branches, SelectBranch(t, b)
      PROVE  [Store!Next]_(Store!vars)
  BY <1>4, SelectBranchSwitches DEF Store!Next
<1>5. ASSUME NEW t \in Threads, NEW b \in Branches, CreateBranch(t, b)
      PROVE  [Store!Next]_(Store!vars)
  BY <1>5, CreateBranchForks DEF Store!Next
<1>6. ASSUME NEW t \in Threads, NEW f \in Files, NEW v \in Values, AddOrDel(t, f, v)
      PROVE  [Store!Next]_(Store!vars)
  BY <1>6, AddOrDelEdits, SameData DEF Store!Next
<1>7. ASSUME NEW t \in Threads, NEW f \in Files, NEW g \in Files, Mv(t, f, g)
      PROVE  [Store!Next]_(Store!vars)
  BY <1>7, MvMoves DEF Store!Next
<1>8. ASSUME NEW t \in Threads, CommitRejected(t)
      PROVE  [Store!Next]_(Store!vars)
  BY <1>8, FailAborts DEF CommitRejected, Ready, repository, committing, Store!Next
<1>9. ASSUME NEW t \in Threads, CommitApply(t) \/ CommitLock(t) \/ CommitUpdate(t)
      PROVE  [Store!Next]_(Store!vars)
  BY <1>9, ApplyStutters, LockStutters, UpdateStutters
<1>10. ASSUME NEW t \in Threads, CommitCheck(t)
       PROVE  [Store!Next]_(Store!vars)
  BY <1>10, CheckStutters DEF Store!Next
<1>11. ASSUME NEW t \in Threads, CommitWrite(t)
       PROVE  [Store!Next]_(Store!vars)
  BY <1>11, WriteCommits DEF Store!Next
<1>12. ASSUME NEW t \in Threads, CommitUpdateFails(t) \/ GitFailure(t)
       PROVE  [Store!Next]_(Store!vars)
  <2>1. /\ ctx[t] # NoCtx /\ Fail(t, ctx[t]) /\ job' = [job EXCEPT ![t] = Idle]
        /\ UNCHANGED <<dag, refs>>
    BY <1>12 DEF CommitUpdateFails, GitFailure, repository, IInv, Committing
  <2>2. \A u \in Threads \ {t} : job'[u] = job[u]
    BY <2>1 DEF IInv, TypeOK
  <2> QED
    BY <2>1, <2>2, FailAborts DEF Store!Next
<1>13. ASSUME NEW b \in Branches, NEW f \in Files, NEW v \in Values, GitCli(b, f, v)
       PROVE  [Store!Next]_(Store!vars)
  BY <1>13, GitCliIsOutside, SameData DEF Store!Next
<1>14. CASE Crash
  BY <1>14, CrashRestarts DEF Store!Next
<1>15. CASE UNCHANGED vars
  BY <1>15 DEF vars, Store!vars, TxnOf
<1> QED
  BY <1>1, <1>2, <1>3, <1>4, <1>5, <1>6, <1>7, <1>8, <1>9, <1>10, <1>11, <1>12,
     <1>13, <1>14, <1>15 DEF Next

(* Cordoba implements VersionedStore: what threads see of commit(), taken  *)
(* apart by the mutex, the check, the move of the branch and the look-up,  *)
(* is one atomic commit on a base that still is the tip of its branch, for *)
(* any number of threads, branches, files and commits (gd.cpp:598-641), of *)
(* which none keeps a context that a failed call has left behind.          *)
THEOREM Implements ==
  ASSUME Keepers = {}
  PROVE  Spec => Refines
<1>1. Init => Store!Init
  BY RefinesInit
<1>2. IInv /\ [Next]_vars => [Store!Next]_(Store!vars)
  BY RefinesNext
<1> QED
  BY <1>1, <1>2, Invariance, PTL DEF Spec, Refines, Store!Spec
===============================================================================
