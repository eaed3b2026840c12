-------------------------------- MODULE Chain --------------------------------
(***************************************************************************)
(* Chains of calls and what they hand on (gd/inc/gd/gd.h, gd/src/gd.cpp).  *)
(*                                                                         *)
(* A call takes a Context by reference and returns a Result: a Context or  *)
(* a ReadContext moved out of it, or an Error.  Operators >> and || make   *)
(* the Result of one call the operand of the next.  A chain starts at a    *)
(* variable or at a temporary; at a variable the Result is assigned back   *)
(* if it has the type of the variable, else it is a temporary, and the     *)
(* variable is left with whatever the call has left in it.                 *)
(*                                                                         *)
(* The module follows one thread with one variable.  An update is a number *)
(* by which it is followed from the call that collected it to the commit   *)
(* it becomes part of; what it does to files is the subject of Cordoba and *)
(* Collector.  Objects of libgit2 are followed through every move by       *)
(* module Nodes.                                                           *)
(***************************************************************************)
EXTENDS Naturals, Sequences, SequencesExt

CONSTANTS
  Branches,    (* branch names                                           *)
  Main,        (* the branch HEAD names                                  *)
  NoRef,       (* the empty reference of a Context that was moved from   *)
  Objects,     (* memory for objects of libgit2                          *)
  Null,        (* the null pointer                                       *)
  MaxCommits,  (* bound on the commits in the repository                 *)
  MaxUpdates   (* bound on the updates that are asked for                *)

ASSUME BranchAssumption == Main \in Branches /\ NoRef \notin Branches
ASSUME NullAssumption == Null \notin Objects
ASSUME BoundAssumption == MaxCommits \in Nat /\ MaxUpdates \in Nat

VARIABLES
  reg,         (* the variable ctx, a Result                             *)
  tmp,         (* the temporary the chain goes on with                   *)
  heap,        (* what their nodes own                                   *)
  db,          (* the branch of the thread, NoRef before there is one    *)
  dag,         (* the commits, each with its parent and its updates      *)
  refs,        (* the tip of every branch, 0 while it does not exist     *)
  asked        (* history: how many updates were asked for               *)

repository == <<dag, refs>>
vars == <<reg, tmp, heap, db, repository, asked>>

N == INSTANCE Nodes WITH Places <- {"reg", "tmp", "res", "new"}, Locals <- "new"

Types == {"Context", "ReadContext"}

(* A Result that holds no value; "none" if there is no such Result at all. *)
Error(type) ==
  [type |-> type, ok |-> FALSE, ref |-> NoRef, at |-> 0, root |-> 0, updates |-> << >>]

NoResult == Error("none")

(* A new Context on a branch: its commit, and the commit whose tree it has.*)
Fresh(b) ==
  [type |-> "Context", ok |-> TRUE, ref |-> b,
   at |-> refs[b], root |-> refs[b], updates |-> << >>]

(* One whose commit was not found, because there is none or otherwise.     *)
Bare(b) == [Fresh(b) EXCEPT !.at = 0, !.root = 0]

(* What a move leaves behind: as empty as an Error, but the Result does not*)
(* know of it.                                                             *)
MovedFrom(r) == [Error(r.type) EXCEPT !.ok = r.ok]

Init ==
  /\ reg = NoResult
  /\ tmp = NoResult
  /\ heap = N!NoHeap
  /\ db = NoRef
  /\ dag = << >>
  /\ refs = [b \in Branches |-> 0]
  /\ asked = 0

-------------------------------------------------------------------------------
(* The operators. *)

(* What the next call is made on, and where that is. *)
Here == IF tmp = NoResult THEN "reg" ELSE "tmp"
Operand == IF tmp = NoResult THEN reg ELSE tmp

Callable == Operand.ok /\ N!HasRoom(heap)

(* The Result is assigned back to the variable.                            *)
AssignsBack(type) == Here = "reg" /\ reg.type = type

(* A call succeeds: r is what it has made of its operand, h of the heap.   *)
(* It is moved into the Result, which is assigned, or lives on.            *)
Return(type, r, h) ==
  LET res == N!MoveNode(h, "res", Here) IN
  IF AssignsBack(type)
  THEN /\ reg' = [r EXCEPT !.type = type]
       /\ heap' = N!DestroyNode(N!AssignNode(res, "reg", "res"), "res")
       /\ UNCHANGED tmp
  ELSE /\ reg' = IF Here = "reg" THEN MovedFrom(reg) ELSE reg
       /\ tmp' = [r EXCEPT !.type = type]
       /\ heap' = N!MoveNode(N!DestroyNode(res, "tmp"), "tmp", "res")

(* Mutant: the Error still holds what is left of the operand.              *)
RefuseKeepsContext(type, r, h) ==
  IF AssignsBack(type)
  THEN /\ reg' = [r EXCEPT !.type = type, !.ok = FALSE]
       /\ heap' = N!DestroyNode(h, "reg")
       /\ UNCHANGED tmp
  ELSE /\ reg' = IF Here = "reg" THEN r ELSE reg
       /\ tmp' = [r EXCEPT !.type = type, !.ok = FALSE]
       /\ heap' = IF Here = "reg" THEN h ELSE N!DestroyNode(h, "tmp")

(* A call fails, or is not made at all: r is what it has left of its       *)
(* operand, which only a variable of another type keeps.                   *)
Refuse(type, r, h) ==
  IF AssignsBack(type)
  THEN /\ reg' = Error(type)
       /\ heap' = N!DestroyNode(h, "reg")
       /\ UNCHANGED tmp
  ELSE /\ reg' = IF Here = "reg" THEN r ELSE reg
       /\ tmp' = Error(type)
       /\ heap' = IF Here = "reg" THEN h ELSE N!DestroyNode(h, "tmp")

(* and_then() passes an Error on without making the call.                  *)
Skip(type) ==
  /\ Operand # NoResult /\ ~Operand.ok
  /\ Refuse(type, Operand, heap)
  /\ UNCHANGED <<db, repository, asked>>

(* Any call may fail, and leave its operand as it was.                     *)
Fail(type) ==
  /\ Callable
  /\ Refuse(type, Operand, heap)
  /\ UNCHANGED <<db, repository, asked>>

-------------------------------------------------------------------------------
(* Where chains begin and end. *)

NoChain == tmp = NoResult /\ N!HasRoom(heap)

(* That the commit of HEAD cannot be looked up is ignored. *)
SelectRepository ==
  /\ NoChain
  /\ \/ refs[Main] # 0 /\ tmp' = Fresh(Main) /\ heap' = N!Update(heap, "tmp")
     \/ tmp' = Bare(Main) /\ UNCHANGED heap
  /\ db' = Main
  /\ UNCHANGED <<reg, repository, asked>>

(* db: a new context on the branch of the thread, which must have a commit.*)
GetThreadContext ==
  /\ NoChain
  /\ IF db # NoRef /\ refs[db] # 0
     THEN LET rebased == N!Update(heap, "tmp") IN
          N!HasRoom(rebased) /\ tmp' = Fresh(db) /\ heap' = N!Init(rebased, "tmp")
     ELSE tmp' = Error("Context") /\ UNCHANGED heap
  /\ UNCHANGED <<reg, db, repository, asked>>

(* std::move(ctx) >> ...: the variable is not used before it is assigned.  *)
MoveOut ==
  /\ NoChain
  /\ reg.ok
  /\ tmp' = reg
  /\ reg' = NoResult
  /\ heap' = N!MoveNode(heap, "tmp", "reg")
  /\ UNCHANGED <<db, repository, asked>>

(* auto ctx = ..., or an assignment to it. *)
Keep ==
  /\ tmp # NoResult
  /\ reg' = tmp
  /\ tmp' = NoResult
  /\ heap' = LET old == IF reg.ok /\ tmp.ok /\ reg.type = tmp.type
                        THEN heap ELSE N!DestroyNode(heap, "reg") IN
             N!DestroyNode(N!AssignNode(old, "reg", "tmp"), "tmp")
  /\ UNCHANGED <<db, repository, asked>>

(* The statement ends, and its temporary with it. *)
Drop ==
  /\ tmp # NoResult
  /\ tmp' = NoResult
  /\ heap' = N!DestroyNode(heap, "tmp")
  /\ UNCHANGED <<reg, db, repository, asked>>

-------------------------------------------------------------------------------
(* The calls. *)

(* The reference changes before the branch is looked for; then the commit  *)
(* is replaced, then the tree.                                             *)
SelectBranch(b) ==
  /\ Callable
  /\ db' = b
  /\ LET switched == [Operand EXCEPT !.ref = b] IN
     \/ /\ refs[b] # 0
        /\ Return("Context", [switched EXCEPT !.at = refs[b], !.root = refs[b]],
                  N!Init(heap, Here))
     \/ /\ refs[b] # 0
        /\ Refuse("Context", [switched EXCEPT !.at = refs[b]], N!InitCommit(heap, Here))
     \/ Refuse("Context", switched, heap)
  /\ UNCHANGED <<repository, asked>>

(* add(), del() or mv(); a mv() without a root tree ends the process.      *)
Collect ==
  /\ Callable
  /\ asked < MaxUpdates
  /\ asked' = asked + 1
  /\ Return("Context", [Operand EXCEPT !.updates = Append(@, asked')], heap)
  /\ UNCHANGED <<db, repository>>

(* Mutant: the set is collected into a context that is not returned.       *)
CollectSetLosesLast ==
  /\ Callable
  /\ asked + 2 =< MaxUpdates
  /\ asked' = asked + 2
  /\ \/ Return("Context", [Operand EXCEPT !.updates = Append(@, asked + 1)], heap)
     \/ Refuse("Context", MovedFrom(Operand), N!DestroyNode(heap, Here))
  /\ UNCHANGED <<db, repository>>

(* add() of a set, here of two: the first Error ends it.  The context was  *)
(* moved into a local by then.                                             *)
CollectSet ==
  /\ Callable
  /\ asked + 2 =< MaxUpdates
  /\ asked' = asked + 2
  /\ \/ Return("Context", [Operand EXCEPT !.updates = @ \o <<asked + 1, asked + 2>>], heap)
     \/ Refuse("Context", MovedFrom(Operand), N!DestroyNode(heap, Here))
  /\ UNCHANGED <<db, repository>>

Rollback ==
  /\ Callable
  /\ Return("Context", [Operand EXCEPT !.updates = << >>], heap)
  /\ UNCHANGED <<db, repository, asked>>

(* process(), processContent(): a look at the context; the one is for any  *)
(* context and returns a Context, the other for a ReadContext.             *)
Process(type) ==
  /\ Callable
  /\ type = "ReadContext" => Operand.type = "ReadContext"
  /\ Return(type, Operand, heap)
  /\ UNCHANGED <<db, repository, asked>>

(* The content is there, or this is Fail: the context is moved from in the *)
(* last step of it.                                                        *)
Read ==
  /\ Callable
  /\ Operand.updates # << >> \/ Operand.root # 0
  /\ Return("ReadContext", Operand, heap)
  /\ UNCHANGED <<db, repository, asked>>

(* Also of a context without a commit, which libgit2 refuses.              *)
CreateBranch(b) ==
  /\ Callable
  /\ IF Operand.at # 0 /\ refs[b] = 0
     THEN refs' = [refs EXCEPT ![b] = Operand.at] /\ Return("Context", Operand, heap)
     ELSE UNCHANGED refs /\ Refuse("Context", Operand, heap)
  /\ UNCHANGED <<db, dag, asked>>

(* A commit that is found is taken for an Error, and one that is not found *)
(* for a commit; what is returned of either is an Error.  That reading it  *)
(* is undefined behaviour in both cases is left to Crash.                  *)
CreateBranchFrom(c, b) ==
  /\ Callable
  /\ Refuse("Context", Operand, heap)
  /\ UNCHANGED <<db, repository, asked>>

(* Mutant: the updates are not forgotten.                                  *)
CommitRepeats ==
  /\ Callable
  /\ Len(dag) < MaxCommits
  /\ Operand.updates # << >>
  /\ Operand.ref # NoRef
  /\ refs[Operand.ref] \in {0, Operand.at}
  /\ dag' = Append(dag, [parent |-> Operand.at, updates |-> Operand.updates])
  /\ refs' = [refs EXCEPT ![Operand.ref] = Len(dag')]
  /\ Return("Context", [Operand EXCEPT !.at = Len(dag'), !.root = Len(dag')],
            N!Update(heap, Here))
  /\ UNCHANGED <<db, asked>>

(* The tip of the branch, if there is one, must be the commit of the       *)
(* context.  Looking the new commit up may fail.                           *)
Commit ==
  /\ Callable
  /\ Len(dag) < MaxCommits
  /\ Operand.updates # << >>
  /\ Operand.ref # NoRef
  /\ refs[Operand.ref] \in {0, Operand.at}
  /\ dag' = Append(dag, [parent |-> Operand.at, updates |-> Operand.updates])
  /\ refs' = [refs EXCEPT ![Operand.ref] = Len(dag')]
  /\ \/ Return("Context",
               [Operand EXCEPT !.at = Len(dag'), !.root = Len(dag'), !.updates = << >>],
               N!Update(heap, Here))
     \/ Refuse("Context", [Operand EXCEPT !.updates = << >>], heap)
  /\ UNCHANGED <<db, asked>>

(* Once the tree is written the updates are gone, also if libgit2 refuses. *)
CommitRefused ==
  /\ Callable
  /\ Operand.updates # << >>
  /\ Refuse("Context", [Operand EXCEPT !.updates = << >>], heap)
  /\ UNCHANGED <<db, repository, asked>>

(* or_else() hands a value on; a handler answers an Error with an Error,   *)
(* or with a context it selects itself.                                    *)
OrElse ==
  /\ Operand # NoResult
  /\ N!HasRoom(heap)
  /\ IF Operand.ok
     THEN Return(Operand.type, Operand, heap) /\ UNCHANGED db
     ELSE \/ Refuse(Operand.type, Operand, heap) /\ UNCHANGED db
          \/ /\ Operand.type = "Context" /\ refs[Main] # 0
             /\ db' = Main
             /\ IF Here = "reg"
                THEN reg' = Fresh(Main) /\ UNCHANGED tmp
                ELSE tmp' = Fresh(Main) /\ UNCHANGED reg
             /\ heap' = N!Update(heap, Here)
  /\ UNCHANGED <<repository, asked>>

(* ctx->rebase(): commit and tree are found, or nothing changes.           *)
Rebase ==
  /\ NoChain
  /\ reg.ok
  /\ reg.ref # NoRef
  /\ refs[reg.ref] # 0
  /\ reg' = [reg EXCEPT !.at = refs[reg.ref], !.root = refs[reg.ref]]
  /\ heap' = N!Update(heap, "reg")
  /\ UNCHANGED <<tmp, db, repository, asked>>

-------------------------------------------------------------------------------
(* Somebody else commits. *)
Others(b) ==
  /\ refs[b] # 0
  /\ Len(dag) < MaxCommits
  /\ dag' = Append(dag, [parent |-> refs[b], updates |-> << >>])
  /\ refs' = [refs EXCEPT ![b] = Len(dag')]
  /\ UNCHANGED <<reg, tmp, heap, db, asked>>

Crash ==
  /\ reg' = NoResult
  /\ tmp' = NoResult
  /\ heap' = N!NoHeap
  /\ db' = NoRef
  /\ UNCHANGED <<repository, asked>>

Next ==
  \/ SelectRepository \/ GetThreadContext \/ MoveOut \/ Keep \/ Drop
  \/ Collect \/ CollectSet \/ Rollback \/ Read
  \/ Commit \/ CommitRefused \/ OrElse \/ Rebase
  \/ \E type \in Types : Process(type) \/ Skip(type) \/ Fail(type)
  \/ \E b \in Branches :
       \/ SelectBranch(b) \/ CreateBranch(b) \/ Others(b)
       \/ \E c \in DOMAIN dag : CreateBranchFrom(c, b)
  \/ Crash

Spec == Init /\ [][Next]_vars

-------------------------------------------------------------------------------
(* Properties. *)

Commits == DOMAIN dag
Updates == 1..MaxUpdates

Results ==
  [type: Types \union {"none"}, ok: BOOLEAN, ref: Branches \union {NoRef},
   at: Commits \union {0}, root: Commits \union {0}, updates: Seq(Updates)]

(* Every variable has its type, a Result without a value is an Error, and  *)
(* a temporary is there only while a chain goes on.                        *)
TypeOK ==
  /\ reg \in Results /\ (~reg.ok => reg = Error(reg.type))
  /\ tmp \in Results /\ (~tmp.ok => tmp = Error(tmp.type))
  /\ heap \in N!Heaps
  /\ db \in Branches \union {NoRef}
  /\ dag \in Seq([parent: 0..MaxCommits, updates: Seq(Updates)])
  /\ refs \in [Branches -> Commits \union {0}]
  /\ asked \in 0..MaxUpdates

(* Through every move, failed lookup, assignment and end of a temporary,   *)
(* an object of libgit2 has one owner and is freed with it; nothing is     *)
(* left behind in the Results and locals of a call that is over.           *)
OneOwner ==
  /\ N!Owned(heap)
  /\ \A part \in {"commit", "root"}, p \in {"res", "new"} : heap.holds[<<p, part>>] = Null

(* getCommitId() and isTip() of a context, moved from or not, never read   *)
(* a commit that is freed or that of another context, and read one if and  *)
(* only if the context has a commit.                                       *)
IdOfOwnCommit ==
  \A p \in {"reg", "tmp"} :
    /\ N!OwnId(heap, p)
    /\ heap.holds[N!CommitOf(p)] # Null <=> (IF p = "reg" THEN reg ELSE tmp).at # 0

(* The inductive invariant of ChainProofs: where there is no Result there  *)
(* is no node.                                                             *)
ChainInv ==
  /\ TypeOK /\ OneOwner /\ IdOfOwnCommit
  /\ \A p \in {"res", "new"} : heap.id[p] = Null
  /\ tmp = NoResult => heap.holds[N!RootOf("tmp")] = Null

Held == ToSet(reg.updates) \union ToSet(tmp.updates)
Committed == UNION { ToSet(dag[c].updates) : c \in Commits }

(* No update gets lost behind the back of the caller, be it moved from an  *)
(* operand to a Result or one of a set: it stays with the variable or the  *)
(* chain until it is committed, rolled back, or the caller is told by an   *)
(* Error or throws the Result away.                                        *)
UpdatesStay ==
  [][\A u \in Held \union asked + 1..asked' :
       \/ u \in Held' \union Committed'
       \/ Rollback \/ Keep \/ Drop \/ Crash
       \/ reg' # reg /\ ~reg'.ok
       \/ tmp' # tmp /\ tmp' # NoResult /\ ~tmp'.ok]_vars

(* However a chain fails and is taken up again, an update is committed at  *)
(* most once, in one place at a time, and in the order it was asked for.   *)
CommittedOnce ==
  LET Increasing(us) == \A i, j \in DOMAIN us : i < j => us[i] < us[j] IN
  /\ Increasing(reg.updates) /\ Increasing(tmp.updates)
  /\ ToSet(reg.updates) \intersect ToSet(tmp.updates) = {}
  /\ Held \intersect Committed = {}
  /\ \A c \in Commits : Increasing(dag[c].updates)
  /\ \A c, d \in Commits : c # d => ToSet(dag[c].updates) \intersect ToSet(dag[d].updates) = {}

(* README.md:433: "The context can be reused as long as it is not          *)
(* containing an Error".  A context can be used if it is on a branch that  *)
(* exists, or on HEAD, and has the tree of its commit.                     *)
ReusableUnlessError ==
  reg.ok => /\ reg.ref # NoRef
            /\ refs[reg.ref] # 0 \/ reg.ref = Main
            /\ reg.root = reg.at
===============================================================================
