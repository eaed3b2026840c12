-------------------------- MODULE ChainUpdatesProofs --------------------------
(***************************************************************************)
(* Theorems about what becomes of updates in Chain: none is committed      *)
(* twice, and none gets lost behind the back of the caller.                *)
(*                                                                         *)
(* StepUpdates says what a step can make of the updates of its operand;    *)
(* the theorems argue from its five cases instead of from all the calls.   *)
(***************************************************************************)
EXTENDS ChainProofs

(* Whatever the number of commits, a Result is one of these.               *)
Rows ==
  [type: Types \union {"none"}, ok: BOOLEAN, ref: Branches \union {NoRef},
   at: Nat, root: Nat, updates: Seq(Updates)]

(* The updates that are held beside those of the operand.                  *)
Beside == IF Here = "reg" THEN << >> ELSE reg.updates

(* The updates us have come of those of the operand, and are with the      *)
(* variable or with the chain, if anywhere.                                *)
Kept(us) ==
  \/ reg'.updates \in {us, << >>} /\ tmp'.updates = << >>
  \/ reg'.updates \in {Beside, << >>} /\ tmp'.updates \in {us, << >>}

(* They are all there, and so are those beside them.                       *)
Full(us) == ToSet(us) \union ToSet(Beside) \subseteq Held'

(* The caller is told by an Error.                                         *)
Told ==
  \/ reg' # reg /\ ~reg'.ok
  \/ tmp' # tmp /\ tmp' # NoResult /\ ~tmp'.ok

(* Or knows himself.                                                       *)
Given == Rollback \/ Keep \/ Drop \/ Crash

-------------------------------------------------------------------------------
(* Sequences. *)

Increasing(us) == \A i, j \in DOMAIN us : i < j => us[i] < us[j]

(* What is in a sequence that gets another element.                        *)
LEMMA ElementsOfAppend ==
  ASSUME NEW us \in Seq(Nat), NEW x \in Nat
  PROVE  /\ ToSet(Append(us, x)) = ToSet(us) \union {x}
         /\ Append(us, x) \in Seq(Nat)
<1>1. /\ Append(us, x) \in Seq(Nat) /\ Len(Append(us, x)) = Len(us) + 1
      /\ \A i \in 1..Len(us) : Append(us, x)[i] = us[i]
      /\ Append(us, x)[Len(us) + 1] = x
  OBVIOUS
<1>2. DOMAIN us = 1..Len(us) /\ DOMAIN Append(us, x) = 1..Len(us) + 1 /\ Len(us) \in Nat
  BY <1>1
<1>3. ToSet(us) = { us[i] : i \in 1..Len(us) }
  BY <1>2 DEF ToSet
<1>4. ToSet(Append(us, x)) = { Append(us, x)[i] : i \in 1..Len(us) + 1 }
  BY <1>2 DEF ToSet
<1>5. \A i : i \in 1..Len(us) + 1 <=> i \in 1..Len(us) \/ i = Len(us) + 1
  BY <1>2
<1> HIDE <1>2
<1>6. ASSUME NEW u \in ToSet(Append(us, x)) PROVE u \in ToSet(us) \union {x}
  BY <1>1, <1>3, <1>4, <1>5
<1>7. ASSUME NEW u \in ToSet(us) \union {x} PROVE u \in ToSet(Append(us, x))
  BY <1>1, <1>3, <1>4, <1>5
<1> QED
  BY <1>1, <1>6, <1>7

(* It stays in order, if the element is the largest.                       *)
LEMMA AppendInOrder ==
  ASSUME NEW us \in Seq(Nat), NEW x \in Nat, Increasing(us), \A u \in ToSet(us) : u < x
  PROVE  Increasing(Append(us, x))
<1>1. /\ Len(Append(us, x)) = Len(us) + 1 /\ Len(us) \in Nat
      /\ \A i \in 1..Len(us) : Append(us, x)[i] = us[i]
      /\ Append(us, x)[Len(us) + 1] = x
      /\ DOMAIN us = 1..Len(us) /\ DOMAIN Append(us, x) = 1..Len(us) + 1
  OBVIOUS
<1>2. \A i \in 1..Len(us) : us[i] < x
  BY <1>1 DEF ToSet
<1> SUFFICES ASSUME NEW i \in 1..Len(us) + 1, NEW j \in 1..Len(us) + 1, i < j
             PROVE  Append(us, x)[i] < Append(us, x)[j]
  BY <1>1 DEF Increasing
<1>3. i \in 1..Len(us)
  BY <1>1
<1>4. CASE j \in 1..Len(us)
  BY <1>1, <1>3, <1>4 DEF Increasing
<1>5. CASE j = Len(us) + 1
  BY <1>1, <1>2, <1>3, <1>5
<1> QED
  BY <1>1, <1>4, <1>5

(* There is nothing in the empty sequence.                                 *)
LEMMA NoElements == ToSet(<< >>) = {} /\ Increasing(<< >>)
  BY DEF ToSet, Increasing

-------------------------------------------------------------------------------
(* Results. *)

(* As there is always a finite number of commits.                          *)
LEMMA ResultsAreRows ==
  ASSUME dag \in Seq([parent: 0..MaxCommits, updates: Seq(Updates)])
  PROVE  Results \subseteq Rows
<1>1. Commits \union {0} \subseteq Nat
  BY DEF Commits
<1> SUFFICES ASSUME NEW r \in Results PROVE r \in Rows
  OBVIOUS
<1>2. /\ r.type \in Types \union {"none"} /\ r.ok \in BOOLEAN /\ r.ref \in Branches \union {NoRef}
      /\ r.at \in Commits \union {0} /\ r.root \in Commits \union {0} /\ r.updates \in Seq(Updates)
      /\ r = [type |-> r.type, ok |-> r.ok, ref |-> r.ref,
              at |-> r.at, root |-> r.root, updates |-> r.updates]
  BY DEF Results
<1>3. r.at \in Nat /\ r.root \in Nat
  BY <1>1, <1>2
<1> QED
  BY <1>2, <1>3 DEF Rows

(* What is held is with the operand or beside it.                          *)
LEMMA HeldFacts ==
  ASSUME ChainInv
  PROVE  /\ reg \in Rows /\ tmp \in Rows /\ Operand \in Rows
         /\ Here = "reg" => Operand = reg /\ tmp = NoResult /\ Beside = << >>
         /\ Here = "tmp" => Operand = tmp /\ tmp # NoResult /\ Beside = reg.updates
         /\ Here \in {"reg", "tmp"} /\ NoResult.updates = << >>
         /\ Held = ToSet(Operand.updates) \union ToSet(Beside)
         /\ ~Operand.ok => Operand.updates = << >>
<1>1. reg \in Results /\ tmp \in Results /\ Proper(Operand) /\ RestInv
  BY OperandFacts, Parted DEF Proper
<1>2. Results \subseteq Rows
  BY <1>1, ResultsAreRows DEF RestInv
<1>3. /\ Here = "reg" => Operand = reg /\ tmp = NoResult
      /\ Here = "tmp" => Operand = tmp /\ tmp # NoResult
      /\ Here \in {"reg", "tmp"}
  BY OperandFacts
<1>4. NoResult.updates = << >> /\ \A type : Error(type).updates = << >>
  BY DEF NoResult, Error
<1>5. Held = ToSet(Operand.updates) \union ToSet(Beside)
  <2>1. CASE Here = "reg"
    BY <1>3, <1>4, <2>1, NoElements DEF Held, Beside
  <2>2. CASE Here = "tmp"
    BY <1>3, <2>2 DEF Held, Beside
  <2> QED
    BY <1>3, <2>1, <2>2
<1>6. ~Operand.ok => Operand.updates = << >>
  BY <1>1, <1>4 DEF Proper
<1> QED
  BY <1>1, <1>2, <1>3, <1>4, <1>5, <1>6 DEF Beside, Proper

(* A call that succeeds keeps what it has made of the updates.             *)
LEMMA ReturnUpdates ==
  ASSUME ChainInv, NEW type, NEW r \in Rows, NEW h, Return(type, r, h)
  PROVE  Kept(r.updates) /\ Full(r.updates)
<1> DEFINE q == [r EXCEPT !.type = type]
<1>1. q.updates = r.updates
  BY DEF Rows
<1> HIDE DEF q
<1>2. CASE AssignsBack(type)
  <2>1. reg' = q /\ tmp' = tmp /\ Here = "reg"
    BY <1>2 DEF Return, AssignsBack, q
  <2> QED
    BY <1>1, <2>1, HeldFacts, NoElements DEF Kept, Full, Held
<1>3. CASE ~AssignsBack(type)
  <2>1. reg' = (IF Here = "reg" THEN MovedFrom(reg) ELSE reg) /\ tmp' = q
    BY <1>3 DEF Return, q
  <2>2. MovedFrom(reg).updates = << >>
    BY DEF MovedFrom, Error
  <2> QED
    BY <1>1, <2>1, <2>2, HeldFacts, NoElements DEF Kept, Full, Held
<1> QED
  BY <1>2, <1>3

(* One that fails tells, if there was anything to fail.                    *)
LEMMA RefuseUpdates ==
  ASSUME ChainInv, NEW type \in Types \union {"none"}, NEW r \in Rows, NEW h,
         Refuse(type, r, h)
  PROVE  /\ Kept(r.updates)
         /\ Operand.ok /\ type \in Types => Told
         /\ ~Operand.ok /\ r = Operand => Full(r.updates)
<1>1. Error(type).updates = << >> /\ Error(type).ok = FALSE /\ Error(type).type = type
      /\ NoResult.type = "none"
  BY DEF Error, NoResult
<1>2. CASE AssignsBack(type)
  <2>1. reg' = Error(type) /\ tmp' = tmp /\ Here = "reg"
    BY <1>2 DEF Refuse, AssignsBack
  <2> QED
    BY <1>1, <2>1, HeldFacts, NoElements DEF Kept, Told, Full, Held
<1>3. CASE ~AssignsBack(type)
  <2>1. reg' = (IF Here = "reg" THEN r ELSE reg) /\ tmp' = Error(type)
    BY <1>3 DEF Refuse
  <2>2. Kept(r.updates)
    BY <1>1, <2>1, HeldFacts DEF Kept
  <2>3. ASSUME Operand.ok, type \in Types PROVE Told
    <3>1. tmp' # NoResult /\ ~tmp'.ok
      BY <1>1, <2>1, <2>3 DEF Types
    <3>2. tmp' # tmp
      BY <2>3, <3>1, HeldFacts
    <3> QED
      BY <3>1, <3>2 DEF Told
  <2>4. ASSUME ~Operand.ok, r = Operand PROVE Full(r.updates)
    BY <1>1, <2>1, <2>4, HeldFacts, NoElements DEF Full, Held
  <2> QED
    BY <2>2, <2>3, <2>4
<1> QED
  BY <1>2, <1>3

-------------------------------------------------------------------------------
(* What a step makes of the updates of its operand: *)

(* it hands them on, or drops them, and then it tells;                     *)
Passes ==
  /\ UNCHANGED <<dag, asked>>
  /\ Kept(Operand.updates) \/ Kept(<< >>)
  /\ Full(Operand.updates) \/ Told \/ Given

(* it adds one;                                                            *)
AddsOne ==
  LET us == Append(Operand.updates, asked + 1) IN
  asked' = asked + 1 /\ UNCHANGED dag /\ Kept(us) /\ Full(us)

(* it adds two, or loses all, and then it tells;                           *)
AddsTwo ==
  LET us == Operand.updates \o <<asked + 1, asked + 2>> IN
  /\ asked' = asked + 2 /\ UNCHANGED dag
  /\ \/ Kept(us) /\ Full(us)
     \/ Kept(<< >>) /\ Told

(* it puts them into a commit;                                             *)
IntoCommit(p) ==
  /\ dag' = Append(dag, [parent |-> p, updates |-> Operand.updates])
  /\ UNCHANGED asked /\ Kept(<< >>)
  /\ Full(<< >>) \/ Told

(* or it does not touch them, and somebody commits updates of his own.     *)
IsOthers(p) ==
  /\ dag' = Append(dag, [parent |-> p, updates |-> << >>])
  /\ UNCHANGED <<reg, tmp, asked>>

(* Calls on an operand that has a value.                                   *)
LEMMA CallUpdates ==
  ASSUME ChainInv, Callable
  PROVE  /\ Operand \in Rows /\ Operand.ok /\ Operand.updates \in Seq(Updates)
         /\ \A type, r, h : r \in Rows /\ Return(type, r, h) => Kept(r.updates) /\ Full(r.updates)
         /\ \A type \in Types : \A r, h : r \in Rows /\ Refuse(type, r, h) => Kept(r.updates) /\ Told
         /\ "Context" \in Types
<1>1. Operand \in Rows /\ Operand.ok /\ "Context" \in Types
  BY HeldFacts DEF Callable, Types
<1>2. ASSUME NEW type, NEW r, NEW h, r \in Rows, Return(type, r, h)
      PROVE  Kept(r.updates) /\ Full(r.updates)
  BY <1>2, ReturnUpdates
<1>3. ASSUME NEW type \in Types, NEW r, NEW h, r \in Rows, Refuse(type, r, h)
      PROVE  Kept(r.updates) /\ Told
  BY <1>1, <1>3, RefuseUpdates
<1> QED
  BY <1>1, <1>2, <1>3 DEF Rows

(* Where chains begin and end.                                             *)
LEMMA EndsUpdates ==
  ASSUME ChainInv, SelectRepository \/ GetThreadContext \/ MoveOut \/ Keep \/ Drop \/ Crash
  PROVE  Passes
<1>1. UNCHANGED <<dag, asked>>
  BY DEF SelectRepository, GetThreadContext, MoveOut, Keep, Drop, Crash, repository
<1>2. /\ \A b : Fresh(b).updates = << >> /\ Bare(b).updates = << >>
      /\ Error("Context").updates = << >> /\ NoResult.updates = << >>
  BY DEF Fresh, Bare, Error, NoResult
<1>3. CASE SelectRepository \/ GetThreadContext
  <2>1. tmp = NoResult /\ reg' = reg
    BY <1>3 DEF SelectRepository, GetThreadContext, NoChain
  <2>2. tmp'.updates = << >>
    <3>1. CASE SelectRepository
      BY <1>2, <3>1 DEF SelectRepository
    <3>2. CASE GetThreadContext
      BY <1>2, <3>2 DEF GetThreadContext
    <3> QED
      BY <1>3, <3>1, <3>2
  <2>3. Operand = reg /\ Beside = << >>
    BY <2>1, HeldFacts
  <2> QED
    BY <1>1, <2>1, <2>2, <2>3, NoElements DEF Passes, Kept, Full, Held
<1>4. CASE MoveOut
  <2>1. tmp = NoResult /\ tmp' = reg /\ reg' = NoResult
    BY <1>4 DEF MoveOut, NoChain
  <2>2. Operand = reg /\ Beside = << >>
    BY <2>1, HeldFacts
  <2> QED
    BY <1>1, <1>2, <2>1, <2>2, NoElements DEF Passes, Kept, Full, Held
<1>5. CASE Keep
  <2>1. tmp # NoResult /\ reg' = tmp /\ tmp' = NoResult /\ Operand = tmp
    BY <1>5, HeldFacts DEF Keep
  <2> QED
    BY <1>1, <1>2, <1>5, <2>1 DEF Passes, Kept, Given
<1>6. CASE Drop
  <2>1. tmp # NoResult /\ reg' = reg /\ tmp' = NoResult /\ Beside = reg.updates
    BY <1>6, HeldFacts DEF Drop
  <2> QED
    BY <1>1, <1>2, <1>6, <2>1 DEF Passes, Kept, Given
<1>7. CASE Crash
  BY <1>1, <1>2, <1>7 DEF Passes, Kept, Given, Crash
<1> QED
  BY <1>3, <1>4, <1>5, <1>6, <1>7

(* Calls that leave the commits alone, and Errors that are handed on.      *)
LEMMA LookUpdates ==
  ASSUME ChainInv,
         \/ Rollback \/ Read \/ CommitRefused
         \/ \E type \in Types : Process(type) \/ Fail(type)
         \/ \E b \in Branches : \/ SelectBranch(b) \/ CreateBranch(b)
                                \/ \E c \in DOMAIN dag : CreateBranchFrom(c, b)
  PROVE  Passes
<1>1. Callable /\ UNCHANGED <<dag, asked>>
  BY DEF Rollback, Read, CommitRefused, Process, Fail, SelectBranch, CreateBranch,
         CreateBranchFrom, repository
<1>2. /\ Operand \in Rows /\ Operand.ok /\ Operand.updates \in Seq(Updates)
      /\ \A type, r, h : r \in Rows /\ Return(type, r, h) => Kept(r.updates) /\ Full(r.updates)
      /\ \A type \in Types : \A r, h : r \in Rows /\ Refuse(type, r, h) => Kept(r.updates) /\ Told
      /\ "Context" \in Types
  BY <1>1, CallUpdates
<1>3. /\ [Operand EXCEPT !.updates = << >>] \in Rows
      /\ [Operand EXCEPT !.updates = << >>].updates = << >>
  <2>1. << >> \in Seq(Updates)
    OBVIOUS
  <2> QED
    BY <1>2, <2>1 DEF Rows
<1>4. CASE Rollback
  BY <1>1, <1>2, <1>3, <1>4 DEF Rollback, Passes, Given
<1>5. CASE CommitRefused
  BY <1>1, <1>2, <1>3, <1>5 DEF CommitRefused, Passes
<1>6. CASE Read \/ \E type \in Types : Process(type) \/ Fail(type)
  BY <1>1, <1>2, <1>6 DEF Read, Process, Fail, Passes
<1>7. CASE \E b \in Branches : CreateBranch(b) \/ \E c \in DOMAIN dag : CreateBranchFrom(c, b)
  BY <1>1, <1>2, <1>7 DEF CreateBranch, CreateBranchFrom, Passes
<1>8. ASSUME NEW b \in Branches, SelectBranch(b) PROVE Passes
  <2> DEFINE switched == [Operand EXCEPT !.ref = b]
             found == [switched EXCEPT !.at = refs[b], !.root = refs[b]]
             half == [switched EXCEPT !.at = refs[b]]
  <2>1. refs[b] \in Nat
    <3>1. refs[b] \in Commits \union {0} /\ dag \in Seq([parent: 0..MaxCommits, updates: Seq(Updates)])
      BY Parted DEF RestInv
    <3>2. Commits \union {0} \subseteq Nat
      BY <3>1 DEF Commits
    <3> QED
      BY <3>1, <3>2
  <2>2. /\ switched \in Rows /\ switched.updates = Operand.updates
        /\ found \in Rows /\ found.updates = Operand.updates
        /\ half \in Rows /\ half.updates = Operand.updates
    BY <1>2, <2>1 DEF Rows
  <2>3. \/ Return("Context", found, N!Init(heap, Here))
        \/ Refuse("Context", half, N!InitCommit(heap, Here))
        \/ Refuse("Context", switched, heap)
    BY <1>8 DEF SelectBranch
  <2> HIDE DEF switched, found, half
  <2> QED
    BY <1>1, <1>2, <2>2, <2>3 DEF Passes
<1> QED
  BY <1>4, <1>5, <1>6, <1>7, <1>8

(* An Error that is handed on, or answered, and a rebase.                  *)
LEMMA AnswerUpdates ==
  ASSUME ChainInv, (\E type \in Types : Skip(type)) \/ OrElse \/ Rebase
  PROVE  Passes
<1>1. UNCHANGED <<dag, asked>>
  BY DEF Skip, OrElse, Rebase, repository
<1>2. /\ Operand \in Rows /\ reg \in Rows /\ Operand.type \in Types \union {"none"}
      /\ ~Operand.ok => Operand.updates = << >>
  BY HeldFacts DEF Rows
<1>3. ASSUME NEW type, Return(type, Operand, heap)
      PROVE  Passes
  BY <1>1, <1>2, <1>3, ReturnUpdates DEF Passes
<1>4. ASSUME NEW type \in Types \union {"none"}, ~Operand.ok, Refuse(type, Operand, heap)
      PROVE  Passes
  BY <1>1, <1>2, <1>4, RefuseUpdates DEF Passes
<1>5. ASSUME NEW type \in Types, Skip(type) PROVE Passes
  BY <1>4, <1>5 DEF Skip
<1>6. CASE OrElse
  <2>1. CASE Operand.ok
    BY <1>3, <1>6, <2>1 DEF OrElse
  <2>2. CASE ~Operand.ok /\ Refuse(Operand.type, Operand, heap)
    BY <1>2, <1>4, <2>2
  <2>3. CASE ~Operand.ok /\ (IF Here = "reg" THEN reg' = Fresh(Main) /\ UNCHANGED tmp
                             ELSE tmp' = Fresh(Main) /\ UNCHANGED reg)
    <3>1. Fresh(Main).updates = << >> /\ Operand.updates = << >>
      BY <1>2, <2>3 DEF Fresh
    <3> QED
      BY <1>1, <2>3, <3>1, HeldFacts, NoElements DEF Passes, Kept, Full, Held
  <2> QED
    BY <1>6, <2>1, <2>2, <2>3 DEF OrElse
<1>7. CASE Rebase
  <2>1. tmp = NoResult /\ UNCHANGED tmp
        /\ reg' = [reg EXCEPT !.at = refs[reg.ref], !.root = refs[reg.ref]]
    BY <1>7 DEF Rebase, NoChain
  <2>2. reg'.updates = reg.updates
    BY <1>2, <2>1 DEF Rows
  <2> QED
    BY <1>1, <2>1, <2>2, HeldFacts, NoElements DEF Passes, Kept, Full, Held
<1> QED
  BY <1>5, <1>6, <1>7

(* Updates that are collected.                                             *)
LEMMA CollectUpdates ==
  ASSUME ChainInv, Collect \/ CollectSet
  PROVE  AddsOne \/ AddsTwo
<1>1. /\ Callable /\ UNCHANGED dag /\ asked \in 0..MaxUpdates
  BY Parted DEF Collect, CollectSet, repository, RestInv
<1>2. /\ Operand \in Rows /\ Operand.updates \in Seq(Updates)
      /\ \A type, r, h : r \in Rows /\ Return(type, r, h) => Kept(r.updates) /\ Full(r.updates)
      /\ \A type \in Types : \A r, h : r \in Rows /\ Refuse(type, r, h) => Kept(r.updates) /\ Told
      /\ "Context" \in Types
  BY <1>1, CallUpdates
<1>3. ASSUME NEW us \in Seq(Updates), Return("Context", [Operand EXCEPT !.updates = us], heap)
      PROVE  Kept(us) /\ Full(us)
  <2>1. /\ [Operand EXCEPT !.updates = us] \in Rows
        /\ [Operand EXCEPT !.updates = us].updates = us
    BY <1>2 DEF Rows
  <2> QED
    BY <1>2, <1>3, <2>1
<1>4. CASE Collect
  <2>1. /\ asked' = asked + 1 /\ asked + 1 \in Updates
        /\ Return("Context", [Operand EXCEPT !.updates = Append(Operand.updates, asked')], heap)
    BY <1>1, <1>4, BoundAssumption DEF Collect, Updates
  <2>2. Append(Operand.updates, asked + 1) \in Seq(Updates)
    BY <1>2, <2>1
  <2> QED
    BY <1>1, <1>3, <2>1, <2>2 DEF AddsOne
<1>5. CASE CollectSet
  <2>1. /\ asked' = asked + 2 /\ asked + 1 \in Updates /\ asked + 2 \in Updates
        /\ \/ Return("Context",
                     [Operand EXCEPT !.updates = Operand.updates \o <<asked + 1, asked + 2>>], heap)
           \/ Refuse("Context", MovedFrom(Operand), N!DestroyNode(heap, Here))
    BY <1>1, <1>5, BoundAssumption DEF CollectSet, Updates
  <2>2. Operand.updates \o <<asked + 1, asked + 2>> \in Seq(Updates)
    BY <1>2, <2>1
  <2>3. MovedFrom(Operand) \in Rows /\ MovedFrom(Operand).updates = << >>
    <3>1. << >> \in Seq(Updates)
      OBVIOUS
    <3>2. MovedFrom(Operand) = [type |-> Operand.type, ok |-> Operand.ok, ref |-> NoRef,
                                at |-> 0, root |-> 0, updates |-> << >>]
      BY DEF MovedFrom, Error
    <3> QED
      BY <1>2, <3>1, <3>2 DEF Rows
  <2>4. CASE Return("Context",
                    [Operand EXCEPT !.updates = Operand.updates \o <<asked + 1, asked + 2>>], heap)
    BY <1>1, <1>3, <2>1, <2>2, <2>4 DEF AddsTwo
  <2>5. CASE Refuse("Context", MovedFrom(Operand), N!DestroyNode(heap, Here))
    BY <1>1, <1>2, <2>1, <2>3, <2>5 DEF AddsTwo
  <2> QED
    BY <2>1, <2>4, <2>5
<1> QED
  BY <1>4, <1>5

(* Updates that are committed.                                             *)
LEMMA CommitUpdates ==
  ASSUME ChainInv, Commit
  PROVE  \E p : IntoCommit(p)
<1> DEFINE done == [Operand EXCEPT !.at = Len(dag'), !.root = Len(dag'), !.updates = << >>]
           lost == [Operand EXCEPT !.updates = << >>]
<1>1. /\ Callable /\ UNCHANGED asked
      /\ dag' = Append(dag, [parent |-> Operand.at, updates |-> Operand.updates])
      /\ \/ Return("Context", done, N!Update(heap, Here))
         \/ Refuse("Context", lost, heap)
  BY DEF Commit
<1>2. /\ Operand \in Rows
      /\ \A type, r, h : r \in Rows /\ Return(type, r, h) => Kept(r.updates) /\ Full(r.updates)
      /\ \A type \in Types : \A r, h : r \in Rows /\ Refuse(type, r, h) => Kept(r.updates) /\ Told
      /\ "Context" \in Types
  BY <1>1, CallUpdates
<1>3. Len(dag') \in Nat /\ << >> \in Seq(Updates)
  <2>1. /\ dag \in Seq([parent: 0..MaxCommits, updates: Seq(Updates)])
        /\ Operand.updates \in Seq(Updates)
    BY <1>2, Parted DEF RestInv, Rows
  <2>2. Len(dag') = Len(dag) + 1 /\ Len(dag) \in Nat
    BY <1>1, <2>1
  <2> QED
    BY <2>2
<1>4. done \in Rows /\ done.updates = << >> /\ lost \in Rows /\ lost.updates = << >>
  BY <1>2, <1>3 DEF Rows
<1> HIDE DEF done, lost
<1>5. Kept(<< >>) /\ (Full(<< >>) \/ Told)
  BY <1>1, <1>2, <1>4
<1> QED
  BY <1>1, <1>5 DEF IntoCommit

(* Every step is one of the five.                                          *)
LEMMA StepUpdates ==
  ASSUME ChainInv, [Next]_vars
  PROVE  Passes \/ AddsOne \/ AddsTwo \/ (\E p : IntoCommit(p)) \/ (\E p : IsOthers(p))
<1>1. CASE SelectRepository \/ GetThreadContext \/ MoveOut \/ Keep \/ Drop \/ Crash
  BY <1>1, EndsUpdates
<1>2. CASE Rollback \/ Read \/ CommitRefused
  BY <1>2, LookUpdates
<1>3. CASE Collect \/ CollectSet
  BY <1>3, CollectUpdates
<1>4. CASE Commit
  BY <1>4, CommitUpdates
<1>5. CASE OrElse \/ Rebase
  BY <1>5, AnswerUpdates
<1>6. CASE \E type \in Types : Process(type) \/ Skip(type) \/ Fail(type)
  BY <1>6, LookUpdates, AnswerUpdates
<1>7. ASSUME NEW b \in Branches,
             SelectBranch(b) \/ CreateBranch(b) \/ \E c \in DOMAIN dag : CreateBranchFrom(c, b)
      PROVE  Passes
  BY <1>7, LookUpdates
<1>8. ASSUME NEW b \in Branches, Others(b) PROVE \E p : IsOthers(p)
  BY <1>8 DEF Others, IsOthers
<1>9. CASE UNCHANGED vars
  <2>1. UNCHANGED <<reg, tmp, dag, asked>>
    BY <1>9 DEF vars, repository
  <2> QED
    BY <2>1, HeldFacts, NoElements DEF Passes, Kept, Full, Held
<1> QED
  BY <1>1, <1>2, <1>3, <1>4, <1>5, <1>6, <1>7, <1>8, <1>9 DEF Next

-------------------------------------------------------------------------------
(* Nothing is lost. *)

(* What is in a sequence that gets two elements.                           *)
LEMMA AppendTwo ==
  ASSUME NEW us \in Seq(Nat), NEW x \in Nat, NEW y \in Nat
  PROVE  us \o <<x, y>> = Append(Append(us, x), y)
  OBVIOUS

(* The updates of the operand, before and after it gets more.              *)
LEMMA UpdatesOfOperand ==
  ASSUME ChainInv
  PROVE  /\ Operand.updates \in Seq(Nat) /\ Beside \in Seq(Nat) /\ asked \in Nat
         /\ LET us == Append(Operand.updates, asked + 1) IN
            ToSet(us) = ToSet(Operand.updates) \union {asked + 1}
         /\ LET us == Operand.updates \o <<asked + 1, asked + 2>> IN
            ToSet(us) = ToSet(Operand.updates) \union {asked + 1, asked + 2}
<1>1. /\ Operand.updates \in Seq(Updates) /\ reg.updates \in Seq(Updates)
      /\ asked \in 0..MaxUpdates
  BY HeldFacts, Parted DEF RestInv, Rows
<1>2. Operand.updates \in Seq(Nat) /\ reg.updates \in Seq(Nat)
  <2>1. Updates \subseteq Nat
    BY DEF Updates
  <2> QED
    BY <1>1, <2>1, SeqMonotonic
<1>3. << >> \in Seq(Nat) /\ asked \in Nat /\ asked + 1 \in Nat /\ asked + 2 \in Nat
  BY <1>1
<1>4. Beside \in Seq(Nat)
  BY <1>2, <1>3 DEF Beside
<1> DEFINE one == Append(Operand.updates, asked + 1)
           two == Append(one, asked + 2)
<1>5. ToSet(one) = ToSet(Operand.updates) \union {asked + 1} /\ one \in Seq(Nat)
  BY <1>2, <1>3, ElementsOfAppend
<1>6. two = Operand.updates \o <<asked + 1, asked + 2>>
  BY <1>2, <1>3, AppendTwo
<1> HIDE DEF one
<1>7. ToSet(two) = ToSet(one) \union {asked + 2}
  BY <1>3, <1>5, ElementsOfAppend
<1> HIDE DEF two
<1>8. ToSet(two) = ToSet(Operand.updates) \union {asked + 1, asked + 2}
  BY <1>5, <1>7
<1> QED
  BY <1>2, <1>3, <1>4, <1>5, <1>6, <1>8 DEF one

(* What there is in the repository after another commit.                   *)
LEMMA CommittedFacts ==
  ASSUME ChainInv, NEW r, dag' = Append(dag, r)
  PROVE  /\ Len(dag) + 1 \notin Commits /\ Commits' = Commits \union {Len(dag) + 1}
         /\ dag'[Len(dag) + 1] = r /\ \A c \in Commits : dag'[c] = dag[c]
         /\ Committed' = Committed \union ToSet(r.updates)
<1>1. dag \in Seq([parent: 0..MaxCommits, updates: Seq(Updates)])
  BY Parted DEF RestInv
<1>2. /\ Len(dag) + 1 \notin Commits /\ Commits' = Commits \union {Len(dag) + 1}
      /\ dag'[Len(dag) + 1] = r /\ \A c \in Commits : dag'[c] = dag[c]
  <2>1. /\ Len(dag) \in Nat /\ DOMAIN dag = 1..Len(dag)
        /\ Len(dag') = Len(dag) + 1 /\ DOMAIN dag' = 1..Len(dag) + 1
        /\ dag'[Len(dag) + 1] = r /\ \A c \in 1..Len(dag) : dag'[c] = dag[c]
    BY <1>1
  <2>2. 1..Len(dag) + 1 = 1..Len(dag) \union {Len(dag) + 1} /\ Len(dag) + 1 \notin 1..Len(dag)
    BY <2>1
  <2> QED
    BY <2>1, <2>2 DEF Commits
<1>3. Committed' = UNION { ToSet(dag'[c].updates) : c \in Commits' }
  BY DEF Committed
<1>4. ASSUME NEW u PROVE u \in Committed' <=> u \in Committed \union ToSet(r.updates)
  <2>1. u \in Committed' <=> \E c \in Commits' : u \in ToSet(dag'[c].updates)
    BY <1>3
  <2>2. u \in Committed <=> \E c \in Commits : u \in ToSet(dag[c].updates)
    BY DEF Committed
  <2> QED
    BY <1>2, <2>1, <2>2
<1> QED
  BY <1>2, <1>4

(* The update is held or committed, or the caller knows better.            *)
Stays(u) ==
  \/ u \in Held' \union Committed'
  \/ Rollback \/ Keep \/ Drop \/ Crash
  \/ reg' # reg /\ ~reg'.ok
  \/ tmp' # tmp /\ tmp' # NoResult /\ ~tmp'.ok

(* No step loses an update.                                                *)
LEMMA StepsLoseNothing ==
  ASSUME ChainInv, [Next]_vars
  PROVE  \A u \in Held \union asked + 1..asked' : Stays(u)
<1> SUFFICES ASSUME NEW u \in Held \union asked + 1..asked', ~Told, ~Given
             PROVE  u \in Held' \union Committed'
  BY DEF Stays, Told, Given
<1>1. Held = ToSet(Operand.updates) \union ToSet(Beside) /\ asked \in Nat
  BY HeldFacts, UpdatesOfOperand
<1>2. CASE Passes
  <2>1. u \in Held /\ Full(Operand.updates)
    BY <1>1, <1>2 DEF Passes
  <2> QED
    BY <1>1, <2>1 DEF Full
<1>3. CASE AddsOne
  <2>1. u \in Held \union {asked + 1}
    BY <1>1, <1>3 DEF AddsOne
  <2> QED
    BY <1>1, <1>3, <2>1, UpdatesOfOperand DEF AddsOne, Full
<1>4. CASE AddsTwo
  <2>1. u \in Held \union {asked + 1, asked + 2}
    BY <1>1, <1>4 DEF AddsTwo
  <2> QED
    BY <1>1, <1>4, <2>1, UpdatesOfOperand DEF AddsTwo, Full
<1>5. ASSUME NEW p, IntoCommit(p) PROVE u \in Held' \union Committed'
  <2> DEFINE r == [parent |-> p, updates |-> Operand.updates]
  <2>1. u \in Held /\ Full(<< >>) /\ dag' = Append(dag, r) /\ r.updates = Operand.updates
    BY <1>1, <1>5 DEF IntoCommit
  <2> HIDE DEF r
  <2>2. ToSet(Operand.updates) \subseteq Committed'
    BY <2>1, CommittedFacts
  <2> QED
    BY <1>1, <2>1, <2>2 DEF Full
<1>6. ASSUME NEW p, IsOthers(p) PROVE u \in Held'
  BY <1>1, <1>6 DEF IsOthers, Held
<1> QED
  BY <1>2, <1>3, <1>4, <1>5, <1>6, StepUpdates

(* Whatever chain is built from the calls of gd.h:181-476, and wherever it *)
(* fails: an update stays with the variable or the chain until it is in a  *)
(* commit, or is given up, or the caller gets an Error.                    *)
THEOREM NothingIsLost == Spec => UpdatesStay
<1>1. ChainInv /\ [Next]_vars => [\A u \in Held \union asked + 1..asked' : Stays(u)]_vars
  BY StepsLoseNothing
<1> QED
  BY <1>1, Inductive, PTL DEF Spec, UpdatesStay, Stays

-------------------------------------------------------------------------------
(* Nothing is committed twice. *)

(* CommittedOnce, strengthened: an update there is was asked for, so that  *)
(* the next one is larger than all of them.                                *)
OnceInv ==
  /\ Increasing(reg.updates) /\ Increasing(tmp.updates)
  /\ ToSet(reg.updates) \intersect ToSet(tmp.updates) = {}
  /\ Held \intersect Committed = {}
  /\ \A c \in Commits : Increasing(dag[c].updates)
  /\ \A c, d \in Commits : c # d => ToSet(dag[c].updates) \intersect ToSet(dag[d].updates) = {}
  /\ Held \union Committed \subseteq 1..asked

(* The updates us may become those of the operand.                         *)
Orderly(us) ==
  /\ Increasing(us)
  /\ ToSet(us) \intersect ToSet(Beside) = {}
  /\ ToSet(us) \intersect Committed = {}

(* Those it has are so.                                                    *)
LEMMA OperandOrderly ==
  ASSUME ChainInv, OnceInv
  PROVE  /\ Orderly(Operand.updates) /\ Orderly(<< >>)
         /\ Increasing(Beside) /\ ToSet(Beside) \intersect Committed = {}
<1>1. Held \intersect Committed = {} /\ Held = ToSet(Operand.updates) \union ToSet(Beside)
  BY HeldFacts DEF OnceInv
<1>2. Increasing(Operand.updates) /\ Increasing(Beside)
      /\ ToSet(Operand.updates) \intersect ToSet(Beside) = {}
  <2>1. CASE Here = "reg"
    BY <2>1, HeldFacts, NoElements DEF OnceInv
  <2>2. CASE Here = "tmp"
    BY <2>2, HeldFacts DEF OnceInv
  <2> QED
    BY <2>1, <2>2, HeldFacts
<1> QED
  BY <1>1, <1>2, NoElements DEF Orderly

(* Orderly updates are kept without any harm.                              *)
LEMMA KeptOrderly ==
  ASSUME ChainInv, OnceInv, NEW us, Orderly(us), Kept(us)
  PROVE  /\ Increasing(reg'.updates) /\ Increasing(tmp'.updates)
         /\ ToSet(reg'.updates) \intersect ToSet(tmp'.updates) = {}
         /\ Held' \subseteq ToSet(us) \union ToSet(Beside)
<1>1. Held' = ToSet(reg'.updates) \union ToSet(tmp'.updates)
  BY DEF Held
<1>2. CASE reg'.updates \in {us, << >>} /\ tmp'.updates = << >>
  BY <1>1, <1>2, NoElements DEF Orderly
<1>3. CASE reg'.updates \in {Beside, << >>} /\ tmp'.updates \in {us, << >>}
  BY <1>1, <1>3, NoElements, OperandOrderly DEF Orderly
<1> QED
  BY <1>2, <1>3 DEF Kept

(* So they are while there is no new commit.                               *)
LEMMA KeptOnce ==
  ASSUME ChainInv, OnceInv, NEW us, Orderly(us), Kept(us), UNCHANGED dag,
         asked' \in Nat, asked =< asked', ToSet(us) \subseteq 1..asked'
  PROVE  OnceInv'
<1>1. /\ Increasing(reg'.updates) /\ Increasing(tmp'.updates)
      /\ ToSet(reg'.updates) \intersect ToSet(tmp'.updates) = {}
      /\ Held' \subseteq ToSet(us) \union ToSet(Beside)
  BY KeptOrderly
<1>2. Commits' = Commits /\ Committed' = Committed
  BY DEF Commits, Committed
<1>3. Held' \intersect Committed' = {}
  BY <1>1, <1>2, OperandOrderly DEF Orderly
<1>4. ToSet(Beside) \union Committed \subseteq 1..asked
  BY HeldFacts DEF OnceInv
<1>5. 1..asked \subseteq 1..asked'
  BY UpdatesOfOperand
<1>6. Held' \union Committed' \subseteq 1..asked'
  BY <1>1, <1>2, <1>4, <1>5
<1>7. /\ \A c \in Commits' : Increasing(dag'[c].updates)
      /\ \A c, d \in Commits' :
           c # d => ToSet(dag'[c].updates) \intersect ToSet(dag'[d].updates) = {}
  BY <1>2 DEF OnceInv
<1> QED
  BY <1>1, <1>3, <1>6, <1>7 DEF OnceInv

(* Another update, larger than all there are.                              *)
LEMMA OneMore ==
  ASSUME ChainInv, NEW us \in Seq(Nat), Orderly(us), NEW n \in Nat, ToSet(us) \subseteq 1..n,
         ToSet(Beside) \union Committed \subseteq 1..n
  PROVE  /\ Append(us, n + 1) \in Seq(Nat) /\ Orderly(Append(us, n + 1))
         /\ ToSet(Append(us, n + 1)) \subseteq 1..n + 1
         /\ ToSet(Beside) \union Committed \subseteq 1..n + 1
<1> DEFINE more == Append(us, n + 1)
<1>1. ToSet(more) = ToSet(us) \union {n + 1} /\ more \in Seq(Nat)
  BY ElementsOfAppend
<1>2. 1..n \subseteq 1..n + 1 /\ n + 1 \in 1..n + 1 /\ n + 1 \notin 1..n
      /\ \A u \in 1..n : u < n + 1
  OBVIOUS
<1>3. Increasing(more)
  <2>1. n + 1 \in Nat /\ Increasing(us) /\ \A u \in ToSet(us) : u < n + 1
    BY <1>2 DEF Orderly
  <2> QED
    BY <2>1, AppendInOrder
<1> HIDE DEF more
<1>4. Orderly(more) /\ ToSet(more) \subseteq 1..n + 1
      /\ ToSet(Beside) \union Committed \subseteq 1..n + 1
  BY <1>1, <1>2, <1>3 DEF Orderly
<1> QED
  BY <1>1, <1>4 DEF more

(* The steps that collect, and those that do not.                          *)
LEMMA OperandOnce ==
  ASSUME ChainInv, OnceInv, Passes \/ AddsOne \/ AddsTwo
  PROVE  OnceInv'
<1> DEFINE us == Operand.updates
           one == Append(us, asked + 1)
           two == Append(one, asked + 2)
<1>1. /\ us \in Seq(Nat) /\ asked \in Nat /\ asked + 1 \in Nat /\ asked + 2 \in Nat
      /\ asked =< asked + 1 /\ asked =< asked + 2 /\ (asked + 1) + 1 = asked + 2
  BY UpdatesOfOperand
<1>2. ToSet(us) \subseteq 1..asked /\ ToSet(Beside) \union Committed \subseteq 1..asked
  BY HeldFacts DEF OnceInv
<1>3. Orderly(us) /\ Orderly(<< >>) /\ ToSet(<< >>) = {}
  BY OperandOrderly, NoElements
<1>4. two = Operand.updates \o <<asked + 1, asked + 2>>
  BY <1>1, AppendTwo
<1>5. CASE Passes
  BY <1>1, <1>2, <1>3, <1>5, KeptOnce DEF Passes
<1> HIDE DEF us
<1>6. one \in Seq(Nat) /\ Orderly(one) /\ ToSet(one) \subseteq 1..asked + 1
      /\ ToSet(Beside) \union Committed \subseteq 1..asked + 1
  BY <1>1, <1>2, <1>3, OneMore
<1>7. CASE AddsOne
  <2>1. asked' = asked + 1 /\ UNCHANGED dag /\ Kept(one)
    BY <1>7 DEF AddsOne, us
  <2> HIDE DEF one
  <2> QED
    BY <1>1, <1>6, <2>1, KeptOnce
<1> HIDE DEF one
<1>8. Orderly(two) /\ ToSet(two) \subseteq 1..asked + 2
  BY <1>1, <1>6, OneMore
<1> HIDE DEF two
<1>9. CASE AddsTwo
  <2>1. asked' = asked + 2 /\ UNCHANGED dag /\ (Kept(two) \/ Kept(<< >>))
    BY <1>4, <1>9 DEF AddsTwo
  <2> QED
    BY <1>1, <1>3, <1>8, <1>9, <2>1, KeptOnce DEF AddsTwo
<1> QED
  BY <1>5, <1>7, <1>9

(* The updates of the operand go where none of them was before.            *)
LEMMA IntoCommitOnce ==
  ASSUME ChainInv, OnceInv, NEW p, IntoCommit(p)
  PROVE  OnceInv'
<1> DEFINE r == [parent |-> p, updates |-> Operand.updates]
           new == Len(dag) + 1
<1>1. dag' = Append(dag, r) /\ r.updates = Operand.updates /\ asked' = asked /\ Kept(<< >>)
  BY DEF IntoCommit
<1> HIDE DEF r
<1>2. /\ new \notin Commits /\ Commits' = Commits \union {new}
      /\ dag'[new].updates = Operand.updates
      /\ \A c \in Commits : dag'[c].updates = dag[c].updates
      /\ Committed' = Committed \union ToSet(Operand.updates)
  BY <1>1, CommittedFacts
<1> HIDE DEF new
<1>3. /\ Orderly(Operand.updates) /\ Orderly(<< >>)
      /\ ToSet(Beside) \intersect Committed = {}
      /\ Held = ToSet(Operand.updates) \union ToSet(Beside)
  BY OperandOrderly, HeldFacts
<1>4. /\ Increasing(reg'.updates) /\ Increasing(tmp'.updates)
      /\ ToSet(reg'.updates) \intersect ToSet(tmp'.updates) = {}
      /\ Held' \subseteq ToSet(Beside)
  BY <1>1, <1>3, KeptOrderly, NoElements
<1>5. Held' \intersect Committed' = {}
  BY <1>2, <1>3, <1>4 DEF Orderly
<1>6. \A c \in Commits' : Increasing(dag'[c].updates)
  BY <1>2, <1>3 DEF Orderly, OnceInv
<1>7. \A c \in Commits : ToSet(dag[c].updates) \subseteq Committed
  BY DEF Committed
<1>8. ASSUME NEW c \in Commits', NEW d \in Commits', c # d
      PROVE  ToSet(dag'[c].updates) \intersect ToSet(dag'[d].updates) = {}
  <2>1. CASE c \in Commits /\ d \in Commits
    BY <1>2, <1>8, <2>1 DEF OnceInv
  <2>2. CASE c = new
    BY <1>2, <1>3, <1>7, <1>8, <2>2 DEF Orderly
  <2>3. CASE d = new
    BY <1>2, <1>3, <1>7, <1>8, <2>3 DEF Orderly
  <2> QED
    BY <1>2, <2>1, <2>2, <2>3
<1>9. Held' \union Committed' \subseteq 1..asked'
  BY <1>1, <1>2, <1>3, <1>4 DEF OnceInv
<1> QED
  BY <1>4, <1>5, <1>6, <1>8, <1>9 DEF OnceInv

(* The commit of somebody else has none of the updates of this thread.     *)
LEMMA OthersOnce ==
  ASSUME ChainInv, OnceInv, NEW p, IsOthers(p)
  PROVE  OnceInv'
<1> DEFINE r == [parent |-> p, updates |-> << >>]
           new == Len(dag) + 1
<1>1. dag' = Append(dag, r) /\ r.updates = << >> /\ UNCHANGED <<reg, tmp, asked>>
  BY DEF IsOthers
<1> HIDE DEF r
<1>2. /\ new \notin Commits /\ Commits' = Commits \union {new}
      /\ dag'[new].updates = << >>
      /\ \A c \in Commits : dag'[c].updates = dag[c].updates
      /\ Committed' = Committed /\ Held' = Held
  BY <1>1, CommittedFacts, NoElements DEF Held
<1> HIDE DEF new
<1>3. /\ \A c \in Commits' : Increasing(dag'[c].updates)
      /\ \A c, d \in Commits' :
           c # d => ToSet(dag'[c].updates) \intersect ToSet(dag'[d].updates) = {}
  BY <1>2, NoElements DEF OnceInv
<1> QED
  BY <1>1, <1>2, <1>3 DEF OnceInv

(* At first there are no updates.                                          *)
LEMMA InitOnce == Init => OnceInv
<1> SUFFICES ASSUME Init PROVE OnceInv
  OBVIOUS
<1>1. reg.updates = << >> /\ tmp.updates = << >> /\ dag = << >> /\ asked = 0
  BY DEF Init, NoResult, Error
<1>2. Commits = {}
  BY <1>1 DEF Commits
<1>3. Held = {} /\ Committed = {}
  BY <1>1, <1>2, NoElements DEF Held, Committed
<1> QED
  BY <1>1, <1>2, <1>3, NoElements DEF OnceInv

(* However the calls of gd.h:181-476 are chained, fail and are taken up    *)
(* again, by || or with the variable: an update is in one commit at most,  *)
(* where it comes after those asked for before it.                         *)
THEOREM CommittedAtMostOnce == Spec => []CommittedOnce
<1>1. ChainInv /\ OnceInv /\ [Next]_vars => OnceInv'
  BY StepUpdates, OperandOnce, IntoCommitOnce, OthersOnce
<1>2. OnceInv => CommittedOnce
  BY DEF OnceInv, CommittedOnce, Increasing
<1> QED
  BY InitOnce, <1>1, <1>2, Inductive, PTL DEF Spec
===============================================================================
