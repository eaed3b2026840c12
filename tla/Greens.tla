-------------------------------- MODULE Greens --------------------------------
(***************************************************************************)
(* Greens, the concurrent agents of the test (gd/test/greens.cpp) and what *)
(* they expect of the repository (GlycemicIt in gd/test/inc/git.h).        *)
(*                                                                         *)
(* An agent is a user of the store as the README wants him: in rounds it   *)
(* collects updates, looks whether its context still is at the tip, and    *)
(* commits, or else rolls back, rebases and tries again; then it goes on   *)
(* with some other branch.  A mutex, criticalsection, pairs the look with  *)
(* the commit; another, branchCreation, pairs naming a branch with its     *)
(* creation.  Next to the store the agents keep a record of what every     *)
(* commit should hold, behind the shared mutex gitData_.                   *)
(*                                                                         *)
(* The store is VersionedStore, which Cordoba implements: every step of an *)
(* agent is one operation of its transaction there, or none.  Nobody else  *)
(* uses the store, and libgit2 does not fail.                              *)
(***************************************************************************)
EXTENDS Snapshots

CONSTANTS
  Agents,      (* the agents, a thread each                              *)
  Branches,    (* branch names                                           *)
  Main,        (* the branch HEAD names                                  *)
  NoTxn,       (* the agent has no context, or an Error                  *)
  NoAgent,     (* a mutex is free                                        *)
  NumCommits,  (* rounds of an agent                                     *)
  NumOps       (* operations of a round                                  *)

Txns == [branch: Branches, base: Nat, delta: Seq(Updates)]

ASSUME AgentAssumption == NoAgent \notin Agents /\ Main \in Branches
ASSUME NumAssumption == NumCommits \in Nat /\ NumOps \in Nat
ASSUME TxnAssumption == NoTxn \notin Txns

VARIABLES
  versions, head, txn,  (* the store                                     *)
  agent,                (* where every agent is, what it expects of its  *)
                        (* next commit, and if updates it forgot are in  *)
                        (* its way (astray, a history variable)          *)
  criticalsection,      (* who holds this mutex                          *)
  branchCreation,       (* who holds this one                            *)
  waiting,              (* who waits to lock gitData_ alone, in front of *)
                        (* those who would share it                      *)
  commits,              (* what the agents recorded of the commits       *)
  branches,             (* the branches they have named                  *)
  ok,                   (* no agent met with anything unexpected         *)
  names                 (* the file names given out                      *)

store == <<versions, head, txn>>
mutexes == <<criticalsection, branchCreation, waiting>>
record == <<commits, branches, ok>>
vars == <<store, agent, mutexes, record, names>>

Store == INSTANCE VersionedStore WITH Clients <- Agents

isEmpty == DOMAIN commits = {}

Init ==
  /\ Store!Init
  /\ agent = [a \in Agents |->
       [pc |-> "start", round |-> 0, ops |-> 0, elems |-> EmptyTree,
        astray |-> FALSE, branch |-> Main]]
  /\ criticalsection = NoAgent
  /\ branchCreation = NoAgent
  /\ waiting = {}
  /\ commits = << >>
  /\ branches = {Main}
  /\ ok = TRUE
  /\ names = {}

At(a, pc) == agent[a].pc = pc

Goto(a, pc) == agent' = [agent EXCEPT ![a] = [@ EXCEPT !.pc = pc]]

-------------------------------------------------------------------------------
(* gitData_, a std::shared_mutex.  Who looks into the record shares it, who *)
(* changes the record has it alone, each within one step: but for the      *)
(* agent that takes over the elements of a parent, which shares it over    *)
(* several steps.                                                          *)

Readers == {a \in Agents : agent[a].pc \in {"reading", "spoilt"}}

CanRead == waiting = {}
CanWrite == Readers = {}

(* Whether one who waits to have the mutex alone goes before those who     *)
(* would share it is not for the code to say.  So this step may be taken.  *)
Wait(a) ==
  /\ agent[a].pc \in {"committed", "refused", "name", "spoilt"}
  /\ ~CanWrite /\ a \notin waiting
  /\ waiting' = waiting \union {a}
  /\ UNCHANGED <<store, agent, criticalsection, branchCreation, record, names>>

-------------------------------------------------------------------------------
(* agent(): the rounds. *)

Start(a) ==
  /\ At(a, "start")
  /\ criticalsection = NoAgent
  /\ Store!Begin(a)
  /\ Goto(a, "round")
  /\ UNCHANGED <<mutexes, record, names>>

Round(a) ==
  /\ At(a, "round")
  /\ CanRead
  /\ ok /\ txn[a] # NoTxn /\ agent[a].round < NumCommits
  /\ agent' = [agent EXCEPT ![a] = [@ EXCEPT
       !.pc = "props", !.round = agent[a].round + 1, !.ops = NumOps, !.elems = EmptyTree]]
  /\ UNCHANGED <<store, mutexes, record, names>>

(* CommitProps(): without a parent there are no elements.                  *)
Props(a) ==
  /\ At(a, "props")
  /\ txn[a].base # 0 => CanRead
  /\ Goto(a, IF txn[a].base = 0 THEN "ops" ELSE "reading")
  /\ UNCHANGED <<store, mutexes, record, names>>

(* The elements of the parent are taken over from the record.  elemsOf()   *)
(* locks gitData_ again, which is undefined behaviour: it goes well, or    *)
(* this lock, too, waits behind whoever waits for the end of the first.    *)
Elems(a) ==
  /\ At(a, "reading")
  /\ CanRead
  /\ LET base == txn[a].base IN
     /\ base \in DOMAIN commits
     /\ agent' = [agent EXCEPT ![a] = [@ EXCEPT
          !.pc = "ops", !.elems = commits[base].elems,
          !.astray = agent[a].astray \/ commits[base].astray]]
  /\ UNCHANGED <<store, mutexes, record, names>>

(* The parent is not in the record.  nok() locks alone what the agent      *)
(* still shares, which is undefined behaviour, too: it goes no further.    *)
NoElems(a) ==
  /\ At(a, "reading")
  /\ CanRead
  /\ txn[a].base \notin DOMAIN commits
  /\ Goto(a, "spoilt")
  /\ UNCHANGED <<store, mutexes, record, names>>

Return(a) ==
  /\ At(a, "round")
  /\ CanRead
  /\ ~(ok /\ txn[a] # NoTxn /\ agent[a].round < NumCommits)
  /\ Goto(a, "done")
  /\ UNCHANGED <<store, mutexes, record, names>>

(* opGenerator() asks isEmpty() before there are any operations.           *)
Operates(a) ==
  /\ At(a, "ops") /\ agent[a].ops > 0
  /\ agent[a].ops = NumOps => CanRead

(* The operations of crudite.h; all but the first apply to an element.     *)
Operate(a, u) ==
  /\ Store!Edit(a, u)
  /\ agent' = [agent EXCEPT ![a] = [@ EXCEPT
       !.ops = agent[a].ops - 1, !.elems = [agent[a].elems EXCEPT ![u.file] = u.val]]]
  /\ UNCHANGED <<mutexes, record>>

Create(a, f, v) ==
  /\ Operates(a)
  /\ f \notin names
  /\ names' = names \union {f}
  /\ Operate(a, [file |-> f, val |-> v])

Update(a, f, v) ==
  /\ Operates(a)
  /\ agent[a].elems[f] # Absent
  /\ Operate(a, [file |-> f, val |-> v])
  /\ UNCHANGED names

Delete(a, f) ==
  /\ Operates(a)
  /\ agent[a].elems[f] # Absent
  /\ Operate(a, [file |-> f, val |-> Absent])
  /\ UNCHANGED names

(* What a read in the context of the agent finds. *)
Seen(a, f) ==
  ValueBefore(Store!TreeOf(txn[a].base), txn[a].delta, Len(txn[a].delta) + 1, f)

(* A read that finds its element, and any operation that has none to apply *)
(* to.  The first operation of an empty repository must be a Create.       *)
(* (Bound: unless there are no file names left.)                           *)
Nothing(a) ==
  /\ Operates(a)
  /\ isEmpty /\ agent[a].ops = NumOps => names = Files
  /\ agent[a].elems # EmptyTree =>
       \E f \in Files : agent[a].elems[f] # Absent /\ Seen(a, f) # Absent
  /\ agent' = [agent EXCEPT ![a] = [@ EXCEPT !.ops = agent[a].ops - 1]]
  /\ UNCHANGED <<store, mutexes, record, names>>

(* A read that does not.  The Error is used like a context, which is       *)
(* undefined behaviour: the agent goes no further.                         *)
ReadFails(a, f) ==
  /\ Operates(a)
  /\ agent[a].elems[f] # Absent /\ Seen(a, f) = Absent
  /\ Store!Abort(a)
  /\ Goto(a, "done")
  /\ UNCHANGED <<mutexes, record, names>>

(* No elements are left: no commit, but the updates stay in the context    *)
(* (greens.cpp:120), also on another branch, if there are branches yet.    *)
Skip(a) ==
  /\ At(a, "ops") /\ agent[a].ops = 0
  /\ agent[a].elems = EmptyTree
  /\ agent' = [agent EXCEPT ![a] = [@ EXCEPT !.pc = "switch", !.astray = txn[a].delta # << >>]]
  /\ UNCHANGED <<store, mutexes, record, names>>

-------------------------------------------------------------------------------
(* The critical section. *)

(* Mutant: there is no mutex.                                              *)
EnterUnserialized(a) ==
  /\ At(a, "ops") /\ agent[a].ops = 0
  /\ agent[a].elems # EmptyTree
  /\ criticalsection' = a
  /\ Goto(a, "entered")
  /\ UNCHANGED <<store, branchCreation, waiting, record, names>>

Enter(a) ==
  /\ At(a, "ops") /\ agent[a].ops = 0
  /\ agent[a].elems # EmptyTree
  /\ criticalsection = NoAgent
  /\ criticalsection' = a
  /\ Goto(a, "entered")
  /\ UNCHANGED <<store, branchCreation, waiting, record, names>>

(* Mutant: the newest commit of all branches is taken for the tip.         *)
isTipOfAll(a) == txn[a].base # 0 /\ \A b \in Branches : head[b] =< txn[a].base

(* A context without a commit is at no tip. *)
isTip(a) == txn[a].base # 0 /\ txn[a].base = head[txn[a].branch]

(* Mutant: what was collected is not rolled back.                          *)
TakeBackKeepsUpdates(a) ==
  /\ At(a, "entered")
  /\ CanRead
  /\ ~isEmpty /\ ~isTip(a)
  /\ agent' = [agent EXCEPT ![a] = [@ EXCEPT
       !.pc = "late", !.elems = EmptyTree, !.astray = FALSE]]
  /\ UNCHANGED <<store, mutexes, record, names>>

TakeBack(a) ==
  /\ At(a, "entered")
  /\ CanRead
  /\ ~isEmpty /\ ~isTip(a)
  /\ Store!Rollback(a)
  /\ agent' = [agent EXCEPT ![a] = [@ EXCEPT
       !.pc = "late", !.elems = EmptyTree, !.astray = FALSE]]
  /\ UNCHANGED <<mutexes, record, names>>

(* Mutant: the round, a size_t, is taken back where it was counted, too.   *)
RetryTwice(a) ==
  /\ At(a, "late")
  /\ IF head[txn[a].branch] # 0 THEN Store!Refresh(a) ELSE UNCHANGED store
  /\ agent' = [agent EXCEPT ![a] = [@ EXCEPT !.pc = "switch", !.round = agent[a].round - 2]]
  /\ criticalsection' = NoAgent
  /\ UNCHANGED <<branchCreation, waiting, record, names>>

(* The round does not count.  That the rebase may fail is ignored. *)
Retry(a) ==
  /\ At(a, "late")
  /\ IF head[txn[a].branch] # 0 THEN Store!Refresh(a) ELSE UNCHANGED store
  /\ agent' = [agent EXCEPT ![a] = [@ EXCEPT !.pc = "switch", !.round = agent[a].round - 1]]
  /\ criticalsection' = NoAgent
  /\ UNCHANGED <<branchCreation, waiting, record, names>>

AtTip(a) ==
  /\ At(a, "entered")
  /\ CanRead
  /\ isEmpty \/ isTip(a)
  /\ Goto(a, "tip")
  /\ UNCHANGED <<store, mutexes, record, names>>

Commit(a) ==
  /\ At(a, "tip")
  /\ Store!Commit(a)
  /\ Goto(a, "committed")
  /\ UNCHANGED <<mutexes, record, names>>

Record(a) ==
  /\ At(a, "committed")
  /\ CanWrite
  /\ LET new == txn[a].base IN
     commits' = [c \in DOMAIN commits \union {new} |->
       IF c \in DOMAIN commits THEN commits[c]
       ELSE [elems |-> agent[a].elems, astray |-> agent[a].astray]]
  /\ agent' = [agent EXCEPT ![a] = [@ EXCEPT
       !.pc = "switch", !.elems = EmptyTree, !.astray = FALSE]]
  /\ criticalsection' = NoAgent
  /\ waiting' = waiting \ {a}
  /\ UNCHANGED <<store, branchCreation, branches, ok, names>>

CanCommit(a) ==
  /\ txn[a].delta # << >>
  /\ txn[a].base = head[txn[a].branch]
  /\ Applies(Store!TreeOf(txn[a].base), txn[a].delta)

(* Nothing was collected, or it does not apply.                            *)
Refused(a) ==
  /\ At(a, "tip")
  /\ ~CanCommit(a)
  /\ Store!Abort(a)
  /\ agent' = [agent EXCEPT ![a] = [@ EXCEPT !.pc = "refused", !.elems = EmptyTree]]
  /\ criticalsection' = NoAgent
  /\ UNCHANGED <<branchCreation, waiting, record, names>>

(* nok(), and the agent goes on with its Error.                            *)
Nok(a) ==
  /\ At(a, "refused")
  /\ CanWrite
  /\ ok' = FALSE
  /\ Goto(a, "switch")
  /\ waiting' = waiting \ {a}
  /\ UNCHANGED <<store, criticalsection, branchCreation, commits, branches, names>>

-------------------------------------------------------------------------------
(* randomizeBranch(), for a context or an Error. *)

Randomize(a) ==
  /\ At(a, "switch")
  /\ CanRead
  /\ Goto(a, IF isEmpty THEN "round" ELSE "pick")
  /\ UNCHANGED <<store, mutexes, record, names>>

ToNamed(a, b) ==
  /\ At(a, "pick")
  /\ branchCreation = NoAgent
  /\ b \in branches
  /\ branchCreation' = a
  /\ agent' = [agent EXCEPT ![a] = [@ EXCEPT !.pc = "select", !.branch = b]]
  /\ UNCHANGED <<store, criticalsection, waiting, record, names>>

(* Mutant: the creation is not paired with the naming.                     *)
ToNewUnpaired(a, b) ==
  /\ At(a, "pick")
  /\ b \notin branches
  /\ agent' = [agent EXCEPT ![a] = [@ EXCEPT !.pc = "name", !.branch = b]]
  /\ UNCHANGED <<store, mutexes, record, names>>

ToNew(a, b) ==
  /\ At(a, "pick")
  /\ branchCreation = NoAgent
  /\ b \notin branches
  /\ branchCreation' = a
  /\ agent' = [agent EXCEPT ![a] = [@ EXCEPT !.pc = "name", !.branch = b]]
  /\ UNCHANGED <<store, criticalsection, waiting, record, names>>

(* The branch is named before it is created. *)
Name(a) ==
  /\ At(a, "name")
  /\ CanWrite
  /\ branches' = branches \union {agent[a].branch}
  /\ Goto(a, "create")
  /\ waiting' = waiting \ {a}
  /\ UNCHANGED <<store, criticalsection, branchCreation, commits, ok, names>>

CreateBranch(a) ==
  /\ At(a, "create")
  /\ Store!Fork(a, agent[a].branch)
  /\ Goto(a, "select")
  /\ UNCHANGED <<mutexes, record, names>>

(* The agent has an Error, or a context without a commit that becomes one: *)
(* the branch has a name, but will never be.                               *)
CreateFails(a) ==
  /\ At(a, "create")
  /\ IF txn[a] = NoTxn THEN UNCHANGED store ELSE txn[a].base = 0 /\ Store!Abort(a)
  /\ Goto(a, "round")
  /\ branchCreation' = NoAgent
  /\ UNCHANGED <<criticalsection, waiting, record, names>>

Select(a) ==
  /\ At(a, "select")
  /\ Store!Switch(a, agent[a].branch)
  /\ Goto(a, "rebase")
  /\ UNCHANGED <<mutexes, record, names>>

(* The agent has an Error, or the branch was named but not created.  The   *)
(* Error is used like a context, as above.                                 *)
SelectFails(a) ==
  /\ At(a, "select")
  /\ IF txn[a] = NoTxn THEN UNCHANGED store ELSE head[agent[a].branch] = 0 /\ Store!Abort(a)
  /\ Goto(a, "done")
  /\ branchCreation' = NoAgent
  /\ UNCHANGED <<criticalsection, waiting, record, names>>

Rebase(a) ==
  /\ At(a, "rebase")
  /\ Store!Refresh(a)
  /\ agent' = [agent EXCEPT ![a] = [@ EXCEPT !.pc = "round", !.branch = Main]]
  /\ branchCreation' = NoAgent
  /\ UNCHANGED <<criticalsection, waiting, record, names>>

-------------------------------------------------------------------------------
Step(a) ==
  \/ Start(a) \/ Round(a) \/ Props(a) \/ Elems(a) \/ NoElems(a) \/ Return(a)
  \/ \E f \in Files : Delete(a, f) \/ ReadFails(a, f) \/ \E v \in Contents : Create(a, f, v) \/ Update(a, f, v)
  \/ Nothing(a) \/ Skip(a)
  \/ Enter(a) \/ TakeBack(a) \/ Retry(a) \/ AtTip(a) \/ Commit(a) \/ Record(a)
  \/ Refused(a) \/ Nok(a) \/ Wait(a)
  \/ Randomize(a)
  \/ \E b \in Branches : ToNamed(a, b) \/ ToNew(a, b)
  \/ Name(a) \/ CreateBranch(a) \/ CreateFails(a) \/ Select(a) \/ SelectFails(a) \/ Rebase(a)

(* main() waits for all agents. *)
Joined == (\A a \in Agents : At(a, "done")) /\ UNCHANGED vars

Next == (\E a \in Agents : Step(a)) \/ Joined

(* A thread that can run runs; who gets a mutex is left open.              *)
Spec == Init /\ [][Next]_vars /\ \A a \in Agents : WF_vars(Step(a))

-------------------------------------------------------------------------------
(* Properties. *)

Places ==
  {"start", "round", "props", "reading", "spoilt", "ops", "entered", "late", "tip",
   "committed", "refused", "switch", "pick", "name", "create", "select", "rebase", "done"}

AgentRecords ==
  [pc: Places, round: 0..NumCommits, ops: 0..NumOps, elems: Trees, astray: BOOLEAN,
   branch: Branches]

(* Every variable has its type, and only what was committed is recorded.   *)
TypeOK ==
  /\ versions \in Seq([parent: Nat, tree: Trees])
  /\ head \in [Branches -> 0..Len(versions)]
  /\ txn \in [Agents -> Txns \union {NoTxn}]
  /\ agent \in [Agents -> AgentRecords]
  /\ criticalsection \in Agents \union {NoAgent}
  /\ branchCreation \in Agents \union {NoAgent}
  /\ waiting \subseteq Agents
  /\ DOMAIN commits \subseteq DOMAIN versions
  /\ \A c \in DOMAIN commits : commits[c] \in [elems: Trees, astray: BOOLEAN]
  /\ branches \subseteq Branches
  /\ ok \in BOOLEAN
  /\ names \subseteq Files

(* The critical section does what it is for (greens.cpp:103-106): between  *)
(* the look at the tip and the commit nobody moves the branch, also when   *)
(* there is no branch yet, so that no commit is refused for being late.    *)
NeverLate ==
  \A a \in Agents : At(a, "tip") => txn[a].base = head[txn[a].branch]

(* The second mutex does what it is for: whoever selects a branch that     *)
(* another agent has named finds it, unless its creation failed.           *)
NamedIsCreated ==
  \A a \in Agents : At(a, "select") =>
    \/ head[agent[a].branch] # 0
    \/ \E u \in Agents : txn[u] = NoTxn /\ agent[u].branch = agent[a].branch

(* What is recorded of a commit is what it holds, as valid_content() and   *)
(* valid_removals() will ask, through all retries and changes of branch:   *)
(* unless updates of a round without a commit went into it or into one     *)
(* before it, or the test is spoilt anyway.                                *)
RecordAgrees ==
  ok => \A c \in DOMAIN commits :
          commits[c].astray \/ commits[c].elems = versions[c].tree

(* What an agent holds where it is: mutexes, a transaction, and what it    *)
(* expects of its next commit.                                             *)
AgentInv(a) ==
  /\ agent[a].pc \in {"entered", "late", "tip", "committed"} => criticalsection = a
  /\ agent[a].pc \in {"name", "create", "select", "rebase"} => branchCreation = a
  /\ agent[a].pc \in {"props", "reading", "ops", "entered", "late"} => agent[a].round > 0
  /\ agent[a].pc \in {"props", "reading", "spoilt", "ops", "entered", "late", "tip",
                      "committed", "rebase"} => txn[a] # NoTxn
  /\ \/ agent[a].pc \in {"name", "create", "select", "rebase", "done"}
     \/ At(a, "round") /\ txn[a] = NoTxn
     \/ agent[a].branch = Main
  /\ agent[a].pc \in {"late", "pick", "name", "create", "select", "rebase"} => versions # << >>
  /\ At(a, "props") => agent[a].elems = EmptyTree
  /\ txn[a] # NoTxn => /\ txn[a].base =< Len(versions)
                       /\ versions = << >> => txn[a].branch = Main
  /\ At(a, "tip") => /\ txn[a].base = head[txn[a].branch]
                     /\ txn[a].base = 0 => versions = << >>
  /\ At(a, "committed") => txn[a].base # 0 /\ txn[a].delta = << >>
  /\ At(a, "select") =>
       \/ head[agent[a].branch] # 0
       \/ \E u \in Agents : txn[u] = NoTxn /\ agent[u].branch = agent[a].branch
  /\ ok /\ ~agent[a].astray =>
       /\ agent[a].pc \in {"ops", "entered", "tip"} =>
            agent[a].elems = ApplyTo(Store!TreeOf(txn[a].base), txn[a].delta)
       /\ At(a, "committed") => agent[a].elems = Store!TreeOf(txn[a].base)
       /\ agent[a].pc \in {"round", "props", "reading", "late", "switch", "pick", "name",
                           "create", "select", "rebase"} =>
            txn[a] = NoTxn \/ txn[a].delta = << >>

(* What ties the record to the store. *)
RecordInv ==
  /\ versions # << >> => head[Main] # 0
  /\ isEmpty /\ versions # << >> => \E u \in Agents : At(u, "committed")
  /\ \A b \in branches \ {Main} :
       \/ head[b] # 0
       \/ \E u \in Agents : agent[u].branch = b /\ (At(u, "create") \/ txn[u] = NoTxn)

(* The inductive invariant of GreensProofs.                                *)
GreensInv == TypeOK /\ (\A a \in Agents : AgentInv(a)) /\ RecordInv /\ RecordAgrees

(* An agent is locked up at gitData_, and holds it for good: by itself, or *)
(* with one who waits for it.                                              *)
Stuck ==
  \E a \in Agents : At(a, "spoilt") \/ (At(a, "reading") /\ ~CanRead)

(* Every agent returns, unless one is locked up at gitData_: a retry does  *)
(* not count as a round, but each is owed to a commit of another agent,    *)
(* and the two mutexes and gitData_ are never waited for in a circle.      *)
AllReturn == <>(Stuck \/ \A a \in Agents : At(a, "done"))

(* git.h:25: "A Thread safe structure to capture the expected git state".  *)
(* Nobody is locked up at gitData_.  But CommitProps() holds it shared     *)
(* while elemsOf() locks it shared again, which may wait behind one who    *)
(* wants it alone (git.h:254, 209); and while nok() wants it alone, when   *)
(* the parent is a commit that another agent has made and not yet recorded *)
(* (git.h:261, 77; greens.cpp:131-139).                                    *)
NobodyIsLockedUp == ~Stuck
===============================================================================
