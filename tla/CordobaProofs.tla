---------------------------- MODULE CordobaProofs ----------------------------
(***************************************************************************)
(* Theorems about Cordoba: its safety properties hold for every number of  *)
(* threads, branches, files and commits.  Those that are said of programs  *)
(* which end a context with the Error assume that Keepers is empty.        *)
(***************************************************************************)
EXTENDS Cordoba, SequenceTheorems, TLAPS

USE DEF Commits

-------------------------------------------------------------------------------
(* Data. *)

(* Appending leaves a list as it was and adds one element at its end.      *)
LEMMA Appending ==
  ASSUME NEW S, NEW s \in Seq(S), NEW e \in S
  PROVE  /\ Append(s, e) \in Seq(S)
         /\ Len(Append(s, e)) = Len(s) + 1
         /\ DOMAIN Append(s, e) = DOMAIN s \union {Len(s) + 1}
         /\ \A i \in DOMAIN s : Append(s, e)[i] = s[i] /\ i \in 1 .. Len(s)
         /\ Append(s, e)[Len(s) + 1] = e
         /\ Len(s) \in Nat /\ DOMAIN s = 1 .. Len(s)
  OBVIOUS

(* What a builder holds after a batch is something a file can hold.        *)
LEMMA ValueBeforeType ==
  ASSUME NEW tree \in Trees, NEW us \in Seq(Updates), NEW i \in 1 .. Len(us) + 1,
         NEW f \in Files
  PROVE  ValueBefore(tree, us, i, f) \in Values
<1> DEFINE J == Deciding(us, i, f)
<1>1. CASE J = {}
  BY <1>1 DEF ValueBefore, Trees
<1>2. CASE J # {}
  <2>1. (CHOOSE j \in J : TRUE) \in J
    BY <1>2
  <2>2. J \subseteq 1 .. Len(us)
    BY DEF Deciding
  <2>3. \A j \in 1 .. Len(us) : us[j] \in Updates
    OBVIOUS
  <2> QED
    BY <1>2, <2>1, <2>2, <2>3 DEF ValueBefore, Updates
<1> QED
  BY <1>1, <1>2

(* Applying a batch to a tree makes a tree.                                *)
LEMMA ApplyToType ==
  ASSUME NEW tree \in Trees, NEW us \in Seq(Updates)
  PROVE  ApplyTo(tree, us) \in Trees
<1>1. Len(us) + 1 \in 1 .. Len(us) + 1
  OBVIOUS
<1> QED
  BY <1>1, ValueBeforeType DEF ApplyTo, Trees

(* The tree before the first commit is a whole tree.                       *)
LEMMA EmptyTreeType == EmptyTree \in Trees
  BY DEF EmptyTree, Trees, Values

-------------------------------------------------------------------------------
(* Types. *)

(* A thread outside commit() has a well-formed job.                        *)
LEMMA IdleType == Idle \in Jobs
  BY EmptyTreeType DEF Idle, Jobs

(* Every commit has a tree, and so has the state before the first commit.  *)
LEMMA TreeOfType ==
  ASSUME TypeOK, NEW c \in Nat, c = 0 \/ c \in Commits
  PROVE  TreeOf(c) \in Trees
<1>1. CASE c = 0
  BY <1>1, EmptyTreeType DEF TreeOf
<1>2. CASE c # 0
  <2>1. dag[c] \in CommitRecords
    BY <1>2 DEF TypeOK
  <2> QED
    BY <1>2, <2>1 DEF TreeOf, CommitRecords
<1> QED
  BY <1>1, <1>2

(* A context set on an existing commit is a context, and not NoCtx.        *)
LEMMA ContextType ==
  ASSUME TypeOK, NEW b \in Branches, NEW c \in Nat, c = 0 \/ c \in Commits,
         NEW us \in Seq(Updates)
  PROVE  Context(b, c, us) \in Contexts /\ Context(b, c, us) # NoCtx
  BY TreeOfType, ContextAssumption DEF Context, Contexts

(* A context, when there is one, has a context's fields.                   *)
LEMMA ContextFields ==
  ASSUME TypeOK, NEW t \in Threads, ctx[t] # NoCtx
  PROVE  /\ ctx[t] \in Contexts
         /\ ctx[t].ref \in Branches /\ ctx[t].commit \in Nat
         /\ ctx[t].root \in Trees /\ ctx[t].updates \in Seq(Updates)
<1>1. ctx[t] \in Contexts
  BY DEF TypeOK
<1> QED
  BY <1>1 DEF Contexts

-------------------------------------------------------------------------------
(* What a step can do to the repository. *)

(* At most the reply to a caller is noted.                                 *)
Quiet ==
  /\ dag' = dag /\ refs' = refs
  /\ ledger' \in Seq(Entries) /\ Len(ledger') = Len(ledger)
  /\ \A c \in Commits : /\ ledger'[c].branch = ledger[c].branch
                        /\ ledger'[c].delta = ledger[c].delta

(* Branch b comes into being at commit c.                                  *)
Forks(b, c) ==
  /\ UNCHANGED <<dag, ledger>>
  /\ refs[b] = 0 /\ c \in Commits
  /\ refs' = [refs EXCEPT ![b] = c]

(* Commit c and the tree, with updates delta, are a step on from the tip   *)
(* of branch b.                                                            *)
OnTip(b, delta, c, tree) ==
  /\ c = refs[b]
  /\ tree = ApplyTo(TreeOf(refs[b]), delta)
  /\ refs[b] # 0 \/ (b = Main /\ dag = << >>)

(* Branch b moves to a new commit with updates delta: from its tip, unless *)
(* contexts that failed calls have left behind are committed.              *)
Extends(b, delta) ==
  /\ \E c \in Nat, tree \in Trees :
       /\ c =< Len(dag)
       /\ Keepers = {} => OnTip(b, delta, c, tree)
       /\ dag' = Append(dag, [parent |-> c, tree |-> tree])
  /\ ledger' = Append(ledger, [branch |-> b, delta |-> delta, reply |-> "none"])
  /\ refs' = [refs EXCEPT ![b] = Len(dag) + 1]

RepositoryStep ==
  \/ Quiet
  \/ \E b \in Branches, c \in Commits : Forks(b, c)
  \/ \E b \in Branches, delta \in Seq(Updates) : Extends(b, delta)

(* Whoever forks a branch, or moves it, names an existing commit.          *)
LEMMA RefsAreCommits ==
  ASSUME IInv
  PROVE  /\ \A b \in Branches : refs[b] \in Nat /\ (refs[b] = 0 \/ refs[b] \in Commits)
         /\ \A t \in Threads : ctx[t] # NoCtx =>
              ctx[t].commit \in Nat /\ (ctx[t].commit = 0 \/ ctx[t].commit \in Commits)
         /\ Len(dag) \in Nat /\ Commits = 1 .. Len(dag) /\ Len(ledger) = Len(dag)
         /\ dag \in Seq(CommitRecords) /\ ledger \in Seq(Entries)
<1>1. /\ Len(dag) \in Nat /\ Commits = 1 .. Len(dag) /\ Len(ledger) = Len(dag)
      /\ dag \in Seq(CommitRecords) /\ ledger \in Seq(Entries)
  BY DEF IInv, TypeOK
<1>2. ASSUME NEW b \in Branches
      PROVE  refs[b] \in Nat /\ (refs[b] = 0 \/ refs[b] \in Commits)
  <2>1. refs[b] \in Nat /\ refs[b] =< Len(dag)
    BY DEF IInv, TypeOK, NoDangling
  <2> QED
    BY <1>1, <2>1
<1>3. ASSUME NEW t \in Threads, ctx[t] # NoCtx
      PROVE  ctx[t].commit \in Nat /\ (ctx[t].commit = 0 \/ ctx[t].commit \in Commits)
  <2>1. ctx[t].commit \in Nat
    BY <1>3, ContextFields DEF IInv
  <2>2. ctx[t].commit =< Len(dag)
    BY <1>3 DEF IInv, Coherent
  <2> QED
    BY <1>1, <2>1, <2>2
<1> QED
  BY <1>1, <1>2, <1>3

(* A step that leaves the repository alone is a quiet one.                 *)
LEMMA Unchanged ==
  ASSUME IInv, UNCHANGED <<dag, refs, ledger>>
  PROVE  Quiet
  BY RefsAreCommits DEF Quiet

(* Noting the reply changes nothing else in the ledger.                    *)
LEMMA Noted ==
  ASSUME IInv, NEW t \in Threads, job[t].pc = "created",
         NEW reply \in {"none", "ok", "error"},
         UNCHANGED <<dag, refs>>, ledger' = [ledger EXCEPT ![job[t].id].reply = reply]
  PROVE  Quiet
<1> DEFINE id == job[t].id
           new == [ledger[id] EXCEPT !.reply = reply]
<1>1. id \in 1 .. Len(ledger)
  BY RefsAreCommits DEF IInv, Committing
<1>2. ledger \in Seq(Entries) /\ ledger[id] \in Entries
  BY <1>1, RefsAreCommits
<1>3. new \in Entries /\ new.branch = ledger[id].branch /\ new.delta = ledger[id].delta
  BY <1>2 DEF Entries
<1>4. ledger' = [ledger EXCEPT ![id] = new]
  OBVIOUS
<1> HIDE DEF new, id
<1>5. ledger' \in Seq(Entries) /\ Len(ledger') = Len(ledger)
  <2>1. ledger \in Seq(Entries) /\ new \in Entries
    BY <1>2, <1>3
  <2>2. /\ [ledger EXCEPT ![id] = new] \in Seq(Entries)
        /\ Len([ledger EXCEPT ![id] = new]) = Len(ledger)
    BY <1>1, <2>1, ExceptSeq
  <2> QED
    BY <1>4, <2>2
<1>6. \A c \in 1 .. Len(ledger) : ledger'[c] = IF c = id THEN new ELSE ledger[c]
  BY <1>1, <1>2, <1>4
<1> QED
  BY <1>3, <1>5, <1>6, RefsAreCommits DEF Quiet

(* The check under the mutex makes the move of a branch a fast forward.    *)
LEMMA WriteExtends ==
  ASSUME IInv, NEW t \in Threads, CommitWrite(t)
  PROVE  \/ Quiet
         \/ Extends(ctx[t].ref, job[t].delta) /\ job[t].delta \in Seq(Updates)
<1> DEFINE b == ctx[t].ref
<1>1. /\ job[t].pc = "checked" /\ job[t] \in Jobs
      /\ ctx[t] # NoCtx /\ b \in Branches /\ ctx[t].commit \in Nat
      /\ Coherent(t) /\ Committing(t)
  BY ContextFields DEF IInv, TypeOK, CommitWrite, Committing
<1>2. CASE job[t].seen # 0 /\ refs[b] # job[t].seen
  BY <1>1, <1>2, Unchanged DEF CommitWrite, CommitFails, repository
<1>3. CASE ~(job[t].seen # 0 /\ refs[b] # job[t].seen)
  <2>1. ASSUME Keepers = {}
        PROVE  OnTip(b, job[t].delta, ctx[t].commit, job[t].tree)
    <3>1. CASE job[t].seen = 0
      <4>1. refs[b] = 0 /\ b = Main
        BY <1>1, <2>1, <3>1 DEF Committing, Coherent
      <4>2. dag = << >>
        BY <2>1, <4>1 DEF IInv, MainFirst
      <4>3. ctx[t].commit = 0
        BY <1>1, <4>2 DEF Coherent
      <4> QED
        BY <1>1, <2>1, <4>1, <4>2, <4>3 DEF OnTip, Committing, Coherent
    <3>2. CASE job[t].seen # 0
      BY <1>1, <1>3, <2>1, <3>2 DEF OnTip, Committing, Coherent
    <3> QED
      BY <3>1, <3>2
  <2>2. ctx[t].commit =< Len(dag) /\ job[t].tree \in Trees
    BY <1>1 DEF Coherent, Jobs
  <2>3. Extends(b, job[t].delta)
    <3>1. /\ dag' = Append(dag, [parent |-> ctx[t].commit, tree |-> job[t].tree])
          /\ ledger' = Append(ledger, [branch |-> b, delta |-> job[t].delta,
                                       reply |-> "none"])
          /\ refs' = [refs EXCEPT ![b] = Len(dag) + 1]
      BY <1>3 DEF CommitWrite
    <3> QED
      BY <1>1, <2>1, <2>2, <3>1 DEF Extends
  <2> QED
    BY <1>1, <2>3 DEF Jobs
<1> QED
  BY <1>2, <1>3

(* To the repository every step is quiet, a new branch, or one commit.     *)
LEMMA RepositoryNext ==
  ASSUME IInv, [Next]_vars
  PROVE  RepositoryStep
<1> USE DEF RepositoryStep
<1>1. ASSUME NEW t \in Threads, NEW b \in Branches, CreateBranch(t, b)
      PROVE  RepositoryStep
  <2>1. CASE ctx[t].commit = 0 \/ refs[b] # 0
    BY <1>1, <2>1, Unchanged DEF CreateBranch
  <2>2. CASE ~(ctx[t].commit = 0 \/ refs[b] # 0)
    <3>1. ctx[t].commit \in Commits
      BY <1>1, <2>2, RefsAreCommits DEF CreateBranch, Ready
    <3>2. Forks(b, ctx[t].commit)
      BY <1>1, <2>2, <3>1 DEF CreateBranch, Forks
    <3> QED
      BY <3>1, <3>2
  <2> QED
    BY <2>1, <2>2
<1>2. ASSUME NEW t \in Threads, CommitWrite(t)
      PROVE  RepositoryStep
  <2>1. ctx[t].ref \in Branches
    BY <1>2, ContextFields DEF IInv, Committing, CommitWrite
  <2> QED
    BY <1>2, <2>1, WriteExtends
<1>3. ASSUME NEW b \in Branches, NEW f \in Files, NEW v \in Values, GitCli(b, f, v)
      PROVE  RepositoryStep
  <2> DEFINE delta == << [file |-> f, val |-> v] >>
  <2>1. delta \in Seq(Updates)
    BY DEF Updates
  <2>2. /\ refs[b] \in Nat /\ refs[b] =< Len(dag)
        /\ ApplyTo(TreeOf(refs[b]), delta) \in Trees
    BY <2>1, RefsAreCommits, TreeOfType, ApplyToType DEF IInv, NoDangling
  <2>3. Extends(b, delta)
    BY <1>3, <2>2 DEF GitCli, Extends, OnTip
  <2> QED
    BY <2>1, <2>3
<1>4. ASSUME NEW t \in Threads, CommitUpdate(t) \/ CommitUpdateFails(t)
      PROVE  RepositoryStep
  BY <1>4, Noted DEF CommitUpdate, CommitUpdateFails
<1>5. CASE UNCHANGED <<dag, refs, ledger>>
  BY <1>5, Unchanged
<1>6. ASSUME NEW t \in Threads, CommitCheck(t)
      PROVE  UNCHANGED <<dag, refs, ledger>>
  BY <1>6 DEF CommitCheck, CommitFails, repository
<1> QED
  BY <1>1, <1>2, <1>3, <1>4, <1>5, <1>6
     DEF Next, vars, repository, SelectRepository, Rebase, Rollback, SelectBranch,
         AddOrDel, Mv, CommitRejected, CommitApply, CommitLock, GitFailure, Crash

(* What there is after a branch has moved: everything that was there, and  *)
(* the new commit.                                                         *)
LEMMA Extended ==
  ASSUME IInv, NEW b \in Branches, NEW delta \in Seq(Updates), Extends(b, delta)
  PROVE  LET n == Len(dag) + 1 IN
         /\ dag' \in Seq(CommitRecords) /\ ledger' \in Seq(Entries)
         /\ Len(dag') = n /\ Len(ledger') = n /\ Commits' = Commits \union {n}
         /\ \A c \in Commits : dag'[c] = dag[c] /\ ledger'[c] = ledger[c]
         /\ dag'[n].parent \in Nat /\ dag'[n].parent < n
         /\ Keepers = {} => OnTip(b, delta, dag'[n].parent, dag'[n].tree)
         /\ ledger'[n].branch = b /\ ledger'[n].delta = delta
         /\ refs' \in [Branches -> Nat] /\ refs'[b] = n
         /\ \A d \in Branches \ {b} : refs'[d] = refs[d]
<1>0. PICK p \in Nat, tree \in Trees :
        /\ p =< Len(dag)
        /\ Keepers = {} => OnTip(b, delta, p, tree)
        /\ dag' = Append(dag, [parent |-> p, tree |-> tree])
  BY DEF Extends
<1> DEFINE n == Len(dag) + 1
           new == [parent |-> p, tree |-> tree]
           entry == [branch |-> b, delta |-> delta, reply |-> "none"]
<1>1. refs[b] \in Nat /\ TypeOK /\ Len(dag) \in Nat
  BY RefsAreCommits DEF IInv
<1>2. new \in CommitRecords /\ entry \in Entries
  BY DEF CommitRecords, Entries
<1>3. dag' = Append(dag, new) /\ ledger' = Append(ledger, entry)
  BY <1>0 DEF Extends
<1>4. /\ new.parent \in Nat /\ new.parent < n
      /\ Keepers = {} => OnTip(b, delta, new.parent, new.tree)
      /\ entry.branch = b /\ entry.delta = delta
  BY <1>0, <1>1
<1> HIDE DEF new, entry
<1>5. /\ dag' \in Seq(CommitRecords) /\ Len(dag') = n /\ Commits' = Commits \union {n}
      /\ \A c \in Commits : dag'[c] = dag[c]
      /\ dag'[n] = new
  BY <1>2, <1>3, RefsAreCommits, Appending
<1>6. /\ ledger' \in Seq(Entries) /\ Len(ledger') = n
      /\ \A c \in Commits : ledger'[c] = ledger[c]
      /\ ledger'[n] = entry
  BY <1>2, <1>3, RefsAreCommits, Appending
<1>7. refs' \in [Branches -> Nat] /\ refs'[b] = n
      /\ \A d \in Branches \ {b} : refs'[d] = refs[d]
  BY <1>1, RefsAreCommits DEF Extends, TypeOK
<1> QED
  BY <1>4, <1>5, <1>6, <1>7

(* A step keeps commits, and branches stay in existence.                   *)
LEMMA Kept ==
  ASSUME IInv, RepositoryStep
  PROVE  /\ Len(dag') \in Nat /\ Len(dag) =< Len(dag') /\ Commits \subseteq Commits'
         /\ \A c \in Commits : /\ dag'[c] = dag[c]
                               /\ ledger'[c].branch = ledger[c].branch
                               /\ ledger'[c].delta = ledger[c].delta
         /\ \A c \in Nat : c =< Len(dag) => TreeOf(c)' = TreeOf(c)
         /\ \A b \in Branches : refs[b] =< refs'[b]
<1>1. CASE Quiet
  BY <1>1, RefsAreCommits DEF Quiet, TreeOf
<1>2. ASSUME NEW b \in Branches, NEW c \in Commits, Forks(b, c)
      PROVE  /\ UNCHANGED <<dag, ledger>>
             /\ \A d \in Branches : refs[d] =< refs'[d]
  BY <1>2, RefsAreCommits DEF Forks, IInv, TypeOK
<1>3. CASE UNCHANGED <<dag, ledger>> /\ \A d \in Branches : refs[d] =< refs'[d]
  BY <1>3, RefsAreCommits DEF TreeOf
<1>4. ASSUME NEW b \in Branches, NEW delta \in Seq(Updates), Extends(b, delta)
      PROVE  /\ Len(dag') \in Nat /\ Len(dag) =< Len(dag') /\ Commits \subseteq Commits'
             /\ \A c \in Commits : dag'[c] = dag[c] /\ ledger'[c] = ledger[c]
             /\ \A d \in Branches : refs[d] =< refs'[d]
  <2> DEFINE n == Len(dag) + 1
  <2>1. \A d \in Branches : refs[d] \in Nat /\ refs[d] =< Len(dag)
    BY DEF IInv, TypeOK, NoDangling
  <2>2. /\ Len(dag') = n /\ Commits' = Commits \union {n}
        /\ \A c \in Commits : dag'[c] = dag[c] /\ ledger'[c] = ledger[c]
        /\ refs'[b] = n /\ \A d \in Branches \ {b} : refs'[d] = refs[d]
    BY <1>4, Extended
  <2>3. Len(dag) \in Nat
    BY RefsAreCommits
  <2>4. \A d \in Branches : refs[d] =< refs'[d]
    BY <2>1, <2>2, <2>3
  <2> QED
    BY <2>2, <2>3, <2>4
<1>5. ASSUME Commits \subseteq Commits', \A c \in Commits : dag'[c] = dag[c]
      PROVE  \A c \in Nat : c =< Len(dag) => TreeOf(c)' = TreeOf(c)
  BY <1>5, RefsAreCommits DEF TreeOf
<1> QED
  BY <1>1, <1>2, <1>3, <1>4, <1>5 DEF RepositoryStep

(* The part of the invariant that is about the repository is kept.         *)
LEMMA RepositoryInvariant ==
  ASSUME IInv, RepositoryStep
  PROVE  /\ dag' \in Seq(CommitRecords) /\ ledger' \in Seq(Entries)
         /\ Len(ledger') = Len(dag') /\ refs' \in [Branches -> Nat]
         /\ NoDangling' /\ (Keepers = {} => MainFirst')
<1> USE DEF NoDangling, MainFirst
<1>1. /\ TypeOK /\ NoDangling /\ (Keepers = {} => MainFirst)
      /\ refs \in [Branches -> Nat] /\ Main \in Branches
      /\ \A c \in Commits : ledger[c].branch \in Branches /\ dag[c].parent \in Nat
  <2>1. \A c \in Commits : ledger[c] \in Entries /\ dag[c] \in CommitRecords
    BY RefsAreCommits
  <2> QED
    BY <2>1, BranchAssumption DEF IInv, TypeOK, Entries, CommitRecords
<1>2. CASE Quiet
  BY <1>1, <1>2, RefsAreCommits DEF Quiet
<1>3. ASSUME NEW b \in Branches, NEW k \in Commits, Forks(b, k)
      PROVE  /\ dag' \in Seq(CommitRecords) /\ ledger' \in Seq(Entries)
             /\ Len(ledger') = Len(dag') /\ refs' \in [Branches -> Nat]
             /\ NoDangling' /\ (Keepers = {} => MainFirst')
  <2>1. /\ UNCHANGED <<dag, ledger>> /\ refs' \in [Branches -> Nat]
        /\ refs'[b] = k /\ \A d \in Branches \ {b} : refs'[d] = refs[d]
    BY <1>1, <1>3, RefsAreCommits DEF Forks
  <2>2. ASSUME NEW c \in Commits
        PROVE  c =< refs'[ledger[c].branch]
    BY <1>1, <1>3, <2>1, RefsAreCommits DEF Forks
  <2>3. k \in Nat /\ k # 0 /\ k =< Len(dag)
    BY RefsAreCommits
  <2> QED
    BY <1>1, <2>1, <2>2, <2>3, RefsAreCommits
<1>4. ASSUME NEW b \in Branches, NEW delta \in Seq(Updates), Extends(b, delta)
      PROVE  /\ dag' \in Seq(CommitRecords) /\ ledger' \in Seq(Entries)
             /\ Len(ledger') = Len(dag') /\ refs' \in [Branches -> Nat]
             /\ NoDangling' /\ (Keepers = {} => MainFirst')
  <2> DEFINE n == Len(dag) + 1
  <2>1. /\ dag' \in Seq(CommitRecords) /\ ledger' \in Seq(Entries)
        /\ Len(dag') = n /\ Len(ledger') = n /\ Commits' = Commits \union {n}
        /\ \A c \in Commits : dag'[c] = dag[c] /\ ledger'[c] = ledger[c]
        /\ dag'[n].parent < n /\ ledger'[n].branch = b
        /\ Keepers = {} => refs[b] # 0 \/ b = Main
        /\ refs' \in [Branches -> Nat] /\ refs'[b] = n
        /\ \A d \in Branches \ {b} : refs'[d] = refs[d]
    BY <1>4, Extended DEF OnTip
  <2>2. refs[b] \in Nat /\ refs[b] < n /\ Len(dag) \in Nat /\ Commits = 1 .. Len(dag)
    BY <1>1, RefsAreCommits
  <2>3. ASSUME NEW c \in Commits'
        PROVE  dag'[c].parent < c /\ c =< refs'[ledger'[c].branch]
    <3>1. CASE c = n
      BY <2>1, <2>2, <3>1
    <3>2. CASE c # n
      <4>1. c \in Commits /\ dag'[c] = dag[c] /\ ledger'[c] = ledger[c]
        BY <2>1, <3>2
      <4>2. /\ dag[c].parent < c /\ c =< refs[ledger[c].branch] /\ c =< Len(dag)
            /\ ledger[c].branch \in Branches
        BY <1>1, <2>2, <4>1
      <4>3. c =< refs'[ledger[c].branch]
        <5>1. CASE ledger[c].branch = b
          BY <2>1, <2>2, <4>1, <4>2, <5>1
        <5>2. CASE ledger[c].branch # b
          BY <2>1, <4>2, <5>2
        <5> QED
          BY <5>1, <5>2
      <4> QED
        BY <4>1, <4>2, <4>3
    <3> QED
      BY <3>1, <3>2
  <2>4. ASSUME NEW d \in Branches
        PROVE  refs'[d] =< Len(dag')
    <3>1. refs[d] \in Nat /\ refs[d] =< Len(dag)
      BY <1>1
    <3>2. CASE d = b
      BY <2>1, <2>2, <3>2
    <3>3. CASE d # b
      BY <2>1, <2>2, <3>1, <3>3
    <3> QED
      BY <3>2, <3>3
  <2>5. ASSUME Keepers = {}
        PROVE  MainFirst'
    <3>1. refs'[Main] # 0
      <4>1. CASE b = Main
        BY <2>1, <2>2, <4>1
      <4>2. CASE b # Main
        <5>1. refs[b] # 0
          BY <2>1, <2>5, <4>2
        <5>2. dag # << >>
          BY <1>1, <2>2, <5>1
        <5> QED
          BY <1>1, <2>1, <2>5, <4>2, <5>2
      <4> QED
        BY <4>1, <4>2
    <3> QED
      BY <3>1
  <2> QED
    BY <2>1, <2>3, <2>4, <2>5
<1> QED
  BY <1>2, <1>3, <1>4 DEF RepositoryStep

-------------------------------------------------------------------------------
(* What a step can do to a thread. *)

(* A thread that takes no part in a step keeps its invariant, if a branch  *)
(* that it has checked not to exist still does not (where that is part of  *)
(* it).                                                                    *)
LEMMA Bystander ==
  ASSUME IInv, RepositoryStep, NEW u \in Threads,
         ctx'[u] = ctx[u], job'[u] = job[u], commitAccess' = u <=> commitAccess = u,
         Keepers = {} /\ job[u].pc = "checked" /\ job[u].seen = 0
           => refs'[ctx[u].ref] = 0
  PROVE  Coherent(u)' /\ Committing(u)'
<1>1. /\ Coherent(u) /\ Committing(u) /\ job[u] \in Jobs
      /\ Len(dag) \in Nat /\ Commits = 1 .. Len(dag)
      /\ Len(dag') \in Nat /\ Len(dag) =< Len(dag') /\ Commits \subseteq Commits'
      /\ \A c \in Commits : ledger'[c].branch = ledger[c].branch
  BY Kept, RefsAreCommits DEF IInv, TypeOK
<1>2. Coherent(u)'
  <2>1. CASE ctx[u] = NoCtx
    BY <2>1 DEF Coherent
  <2>2. CASE ctx[u] # NoCtx
    <3>1. /\ ctx[u].commit \in Nat /\ ctx[u].ref \in Branches /\ ctx[u].commit =< Len(dag)
          /\ u \notin Keepers => ctx[u].root = TreeOf(ctx[u].commit)
          /\ u \notin Keepers => (refs[ctx[u].ref] # 0 \/ ctx[u].ref = Main)
      BY <1>1, <2>2, ContextFields DEF IInv, Coherent
    <3>2. \A c \in Nat : c =< Len(dag) => TreeOf(c)' = TreeOf(c)
      BY Kept
    <3>3. (TreeOf(ctx[u].commit))' = TreeOf(ctx[u].commit)
      BY <3>1, <3>2 DEF TreeOf
    <3>4. u \notin Keepers => (refs'[ctx[u].ref] # 0 \/ ctx[u].ref = Main)
      BY <3>1, Kept, RefsAreCommits, RepositoryInvariant
    <3> QED
      BY <1>1, <3>1, <3>3, <3>4 DEF Coherent
  <2> QED
    BY <2>1, <2>2
<1>3. Committing(u)'
  BY <1>1 DEF Committing
<1> QED
  BY <1>2, <1>3

(* What a call may leave in thread t when that is not committing.          *)
Sound(t, k) ==
  k # NoCtx =>
    /\ k.commit =< Len(dag)
    /\ t \notin Keepers => /\ k.root = TreeOf(k.commit)
                           /\ refs[k.ref] # 0 \/ k.ref = Main

(* A call that only replaces the context of its caller.                    *)
LEMMA ContextStep ==
  ASSUME IInv, NEW t \in Threads, job[t].pc = "idle",
         NEW k \in Contexts \union {NoCtx}, Sound(t, k),
         ctx' = [ctx EXCEPT ![t] = k],
         UNCHANGED <<dag, refs, ledger, job, commitAccess>>
  PROVE  IInv'
<1>1. RepositoryStep /\ TypeOK /\ Committing(t)
  BY Unchanged DEF RepositoryStep, IInv
<1>2. /\ ctx' \in [Threads -> Contexts \union {NoCtx}] /\ ctx'[t] = k
      /\ \A u \in Threads \ {t} : ctx'[u] = ctx[u]
  BY <1>1 DEF TypeOK
<1>3. TypeOK'
  BY <1>1, <1>2 DEF TypeOK
<1>4. Coherent(t)' /\ Committing(t)'
  BY <1>1, <1>2 DEF Sound, Coherent, Committing, TreeOf
<1>5. ASSUME NEW u \in Threads, u # t
      PROVE  Coherent(u)' /\ Committing(u)'
  BY <1>1, <1>2, <1>5, Bystander DEF IInv, Committing
<1> QED
  BY <1>1, <1>3, <1>4, <1>5, RepositoryInvariant DEF IInv

(* The contexts calls make: none, one on an existing commit, or the old    *)
(* one with other updates.                                                 *)
LEMMA SoundContext ==
  ASSUME IInv, NEW t \in Threads,
         NEW b \in Branches, NEW c \in Nat, c = 0 \/ c \in Commits,
         refs[b] # 0 \/ b = Main, NEW us \in Seq(Updates)
  PROVE  Context(b, c, us) \in Contexts /\ Sound(t, Context(b, c, us))
<1>1. Context(b, c, us) \in Contexts
  BY ContextType DEF IInv
<1>2. c =< Len(dag)
  BY RefsAreCommits
<1> QED
  BY <1>1, <1>2 DEF Sound, Context

(* A sound context stays sound when only its updates change.               *)
LEMMA SoundUpdates ==
  ASSUME IInv, NEW t \in Threads, ctx[t] # NoCtx, NEW us \in Seq(Updates)
  PROVE  LET k == [ctx[t] EXCEPT !.updates = us] IN k \in Contexts /\ Sound(t, k)
<1>1. ctx[t] \in Contexts /\ Coherent(t)
  BY ContextFields DEF IInv
<1> DEFINE k == [ctx[t] EXCEPT !.updates = us]
<1>2. k \in Contexts /\ k.ref = ctx[t].ref /\ k.commit = ctx[t].commit /\ k.root = ctx[t].root
  BY <1>1 DEF Contexts
<1> HIDE DEF k
<1>3. Sound(t, k)
  BY <1>1, <1>2 DEF Sound, Coherent
<1> QED
  BY <1>2, <1>3 DEF k

(* Losing a context keeps the invariant, and so does keeping one that      *)
(* names a commit.                                                         *)
LEMMA FailStep ==
  ASSUME IInv, NEW t \in Threads, job[t].pc = "idle",
         NEW left \in Contexts, left.commit =< Len(dag), Fail(t, left),
         UNCHANGED <<dag, refs, ledger, job, commitAccess>>
  PROVE  IInv'
<1>1. Sound(t, NoCtx) /\ (t \in Keepers => Sound(t, left))
  BY DEF Sound
<1>2. CASE ctx' = [ctx EXCEPT ![t] = NoCtx]
  BY <1>1, <1>2, ContextStep
<1>3. CASE t \in Keepers /\ ctx' = [ctx EXCEPT ![t] = left]
  BY <1>1, <1>3, ContextStep
<1> QED
  BY <1>2, <1>3 DEF Fail

(* A call that fails and leaves the context as it was keeps the invariant. *)
LEMMA FailsAsItWas ==
  ASSUME IInv, NEW t \in Threads, Ready(t), Fail(t, ctx[t]),
         UNCHANGED <<dag, refs, ledger, job, commitAccess>>
  PROVE  IInv'
<1>1. /\ job[t].pc = "idle" /\ ctx[t] # NoCtx /\ ctx[t] \in Contexts
      /\ ctx[t].commit =< Len(dag)
  BY ContextFields DEF Ready, IInv, Coherent
<1> QED
  BY <1>1, FailStep

(* Collecting updates keeps the invariant.                                 *)
LEMMA CollectStep ==
  ASSUME IInv, NEW t \in Threads, Ready(t), NEW us \in Seq(Updates), Collect(t, us),
         UNCHANGED <<dag, refs, ledger, job, commitAccess>>
  PROVE  IInv'
<1> DEFINE all == ctx[t].updates \o us
           k == [ctx[t] EXCEPT !.updates = all]
<1>1. ctx[t] # NoCtx /\ job[t].pc = "idle"
  BY DEF Ready
<1>2. all \in Seq(Updates)
  BY <1>1, ContextFields DEF IInv
<1>3. ctx' = [ctx EXCEPT ![t] = k]
  BY DEF Collect
<1>4. k \in Contexts /\ Sound(t, k)
  BY <1>1, <1>2, SoundUpdates
<1> QED
  BY <1>1, <1>3, <1>4, ContextStep

(* A step of commit(): it replaces the context and the job of its thread.  *)
LEMMA CommitStep ==
  ASSUME IInv, RepositoryStep, NEW t \in Threads,
         NEW k \in Contexts \union {NoCtx}, ctx' = [ctx EXCEPT ![t] = k],
         NEW j \in Jobs, job' = [job EXCEPT ![t] = j],
         commitAccess' \in Threads \union {NoThread},
         \A u \in Threads \ {t} : /\ commitAccess' = u <=> commitAccess = u
                                  /\ refs' = refs \/ commitAccess # u,
         Coherent(t)', Committing(t)'
  PROVE  IInv'
<1>1. TypeOK /\ \A u \in Threads : Coherent(u) /\ Committing(u)
  BY DEF IInv
<1>2. /\ ctx' \in [Threads -> Contexts \union {NoCtx}] /\ job' \in [Threads -> Jobs]
      /\ \A u \in Threads \ {t} : ctx'[u] = ctx[u] /\ job'[u] = job[u]
  BY <1>1 DEF TypeOK
<1>3. TypeOK'
  BY <1>2, RepositoryInvariant DEF TypeOK
<1>4. ASSUME NEW u \in Threads, u # t
      PROVE  Coherent(u)' /\ Committing(u)'
  <2>1. Keepers = {} /\ job[u].pc = "checked" /\ job[u].seen = 0
          => refs'[ctx[u].ref] = 0
    BY <1>1, <1>4 DEF Committing
  <2> QED
    BY <1>2, <1>4, <2>1, Bystander
<1> QED
  BY <1>3, <1>4, RepositoryInvariant DEF IInv

(* A thread that is thrown out of commit() is as if it had never begun, or *)
(* has its context back.                                                   *)
LEMMA Dropped ==
  ASSUME IInv, NEW t \in Threads, Fail(t, ctx[t]), job' = [job EXCEPT ![t] = Idle],
         RepositoryStep, refs' = refs, commitAccess' \in Threads \union {NoThread},
         commitAccess' # t,
         \A u \in Threads \ {t} : commitAccess' = u <=> commitAccess = u
  PROVE  IInv'
<1>1. TypeOK /\ Coherent(t) /\ Len(dag) \in Nat /\ Len(dag') \in Nat /\ Len(dag) =< Len(dag')
  BY Kept, RefsAreCommits DEF IInv
<1>2. PICK k \in Contexts \union {NoCtx} :
        /\ ctx' = [ctx EXCEPT ![t] = k]
        /\ k = NoCtx \/ (t \in Keepers /\ k = ctx[t])
  BY <1>1 DEF Fail, TypeOK
<1>3. ctx'[t] = k /\ job'[t] = Idle
  BY <1>1, <1>2 DEF TypeOK
<1>4. Coherent(t)'
  <2>1. CASE k = NoCtx
    BY <1>3, <2>1 DEF Coherent
  <2>2. CASE t \in Keepers /\ k = ctx[t] /\ ctx[t] # NoCtx
    <3>1. ctx[t].commit \in Nat /\ ctx[t].commit =< Len(dag)
      BY <1>1, <2>2, ContextFields DEF Coherent
    <3> QED
      BY <1>1, <1>3, <2>2, <3>1 DEF Coherent
  <2> QED
    BY <1>2, <2>1, <2>2
<1>5. Committing(t)'
  BY <1>3 DEF Committing, Idle
<1> QED
  BY <1>2, <1>4, <1>5, CommitStep, IdleType

(* Nobody but the thread inside the mutex is between check and move.       *)
LEMMA MutexHolder ==
  ASSUME IInv, NEW t \in Threads, job[t].pc \in {"locked", "checked"}
  PROVE  commitAccess = t /\ ctx[t] # NoCtx /\ t # NoThread
  BY ThreadAssumption DEF IInv, Committing

(* Applying the updates keeps the invariant.                               *)
LEMMA ApplyStep ==
  ASSUME IInv, NEW t \in Threads, CommitApply(t)
  PROVE  IInv'
<1> DEFINE k == [ctx[t] EXCEPT !.updates = << >>]
           tree == ApplyTo(ctx[t].root, ctx[t].updates)
           j == [Idle EXCEPT !.pc = "applied", !.delta = ctx[t].updates, !.tree = tree]
<1>1. /\ TypeOK /\ Ready(t) /\ Coherent(t) /\ Committing(t)
      /\ ctx' = [ctx EXCEPT ![t] = k] /\ job' = [job EXCEPT ![t] = j]
      /\ ctx[t].updates # << >> /\ Applies(ctx[t].root, ctx[t].updates)
      /\ UNCHANGED <<dag, refs, ledger, commitAccess>>
  BY DEF CommitApply, IInv, repository
<1>2. ctx[t] \in Contexts /\ ctx[t].root \in Trees /\ ctx[t].updates \in Seq(Updates)
  BY <1>1, ContextFields DEF Ready
<1>3. /\ k \in Contexts /\ k.ref = ctx[t].ref /\ k.commit = ctx[t].commit
      /\ k.root = ctx[t].root /\ k.updates = << >>
  <2>1. << >> \in Seq(Updates)
    OBVIOUS
  <2> HIDE DEF tree, j
  <2> QED
    BY <1>2, <2>1 DEF Contexts
<1>4. tree \in Trees
  BY <1>2, ApplyToType
<1>5. j \in Jobs /\ j.pc = "applied" /\ j.delta = ctx[t].updates /\ j.tree = tree
  BY <1>2, <1>4, EmptyTreeType DEF Idle, Jobs
<1> HIDE DEF k, j
<1>6. ctx'[t] = k /\ job'[t] = j /\ k # NoCtx
  BY <1>1, <1>3, ContextAssumption DEF TypeOK
<1>7. Coherent(t)'
  BY <1>1, <1>3, <1>6 DEF Coherent, Ready, TreeOf
<1>8. Committing(t)'
  BY <1>1, <1>3, <1>5, <1>6 DEF Committing, Ready
<1>9. commitAccess' \in Threads \union {NoThread} /\ RepositoryStep
  BY <1>1, Unchanged DEF TypeOK, RepositoryStep
<1> QED
  BY <1>1, <1>3, <1>5, <1>7, <1>8, <1>9, CommitStep

(* Taking the mutex keeps the invariant: it was free.                      *)
LEMMA LockStep ==
  ASSUME IInv, NEW t \in Threads, CommitLock(t)
  PROVE  IInv'
<1> DEFINE j == [job[t] EXCEPT !.pc = "locked"]
<1>1. /\ TypeOK /\ Coherent(t) /\ Committing(t) /\ job[t] \in Jobs
      /\ job[t].pc = "applied" /\ commitAccess = NoThread /\ commitAccess' = t
      /\ job' = [job EXCEPT ![t] = j] /\ UNCHANGED <<dag, refs, ledger, ctx>>
  BY DEF CommitLock, IInv, TypeOK, repository
<1>2. j \in Jobs /\ j.pc = "locked" /\ j.delta = job[t].delta /\ j.tree = job[t].tree
  BY <1>1 DEF Jobs
<1> HIDE DEF j
<1>3. job'[t] = j /\ ctx[t] \in Contexts \union {NoCtx} /\ ctx' = [ctx EXCEPT ![t] = ctx[t]]
  BY <1>1 DEF TypeOK
<1>4. Coherent(t)' /\ Committing(t)'
  BY <1>1, <1>2, <1>3 DEF Coherent, Committing, TreeOf
<1>5. RepositoryStep
  BY <1>1, Unchanged DEF RepositoryStep
<1>6. \A u \in Threads \ {t} : commitAccess' = u <=> commitAccess = u
  BY <1>1, ThreadAssumption
<1> QED
  BY <1>1, <1>2, <1>3, <1>4, <1>5, <1>6, CommitStep

(* The check of the parent by libgit2 keeps the invariant.                 *)
LEMMA CheckStep ==
  ASSUME IInv, NEW t \in Threads, CommitCheck(t)
  PROVE  IInv'
<1> DEFINE tip == refs[ctx[t].ref]
           j == [job[t] EXCEPT !.pc = "checked", !.seen = tip]
<1>1. /\ TypeOK /\ Coherent(t) /\ Committing(t) /\ job[t] \in Jobs
      /\ job[t].pc = "locked" /\ commitAccess = t /\ ctx[t] # NoCtx /\ t # NoThread
  BY MutexHolder DEF CommitCheck, IInv, TypeOK
<1>2. tip \in Nat
  BY <1>1, ContextFields, RefsAreCommits
<1>3. CASE tip # 0 /\ tip # ctx[t].commit
  <2>1. /\ Fail(t, ctx[t]) /\ job' = [job EXCEPT ![t] = Idle] /\ commitAccess' = NoThread
        /\ UNCHANGED <<dag, refs, ledger>>
    BY <1>3 DEF CommitCheck, CommitFails, repository
  <2>2. \A u \in Threads \ {t} : commitAccess' = u <=> commitAccess = u
    BY <1>1, <2>1, ThreadAssumption
  <2> QED
    BY <1>1, <2>1, <2>2, Dropped, Unchanged DEF RepositoryStep
<1>4. CASE ~(tip # 0 /\ tip # ctx[t].commit)
  <2>1. /\ job' = [job EXCEPT ![t] = j]
        /\ UNCHANGED <<dag, refs, ledger, ctx, commitAccess>>
    BY <1>4 DEF CommitCheck, repository
  <2>2. /\ j \in Jobs /\ j.pc = "checked" /\ j.seen = tip
        /\ j.delta = job[t].delta /\ j.tree = job[t].tree
    BY <1>1, <1>2 DEF Jobs
  <2> HIDE DEF j
  <2>3. job'[t] = j /\ ctx[t] \in Contexts \union {NoCtx} /\ ctx' = [ctx EXCEPT ![t] = ctx[t]]
    BY <1>1, <2>1 DEF TypeOK
  <2>4. Coherent(t)' /\ Committing(t)'
    BY <1>1, <1>4, <2>1, <2>2, <2>3 DEF Coherent, Committing, TreeOf
  <2>5. RepositoryStep /\ commitAccess' \in Threads \union {NoThread}
    BY <1>1, <2>1, Unchanged DEF RepositoryStep, TypeOK
  <2> QED
    BY <2>1, <2>2, <2>3, <2>4, <2>5, CommitStep
<1> QED
  BY <1>3, <1>4

(* Moving the branch keeps the invariant: no other thread is between       *)
(* its check and its move.                                                 *)
LEMMA WriteStep ==
  ASSUME IInv, NEW t \in Threads, CommitWrite(t)
  PROVE  IInv'
<1> DEFINE b == ctx[t].ref
           n == Len(dag) + 1
           j == [job[t] EXCEPT !.pc = "created", !.id = n]
<1>1. /\ TypeOK /\ Coherent(t) /\ Committing(t) /\ job[t] \in Jobs
      /\ job[t].pc = "checked" /\ commitAccess = t /\ ctx[t] # NoCtx /\ t # NoThread
      /\ b \in Branches /\ Len(dag) \in Nat
  BY MutexHolder, ContextFields, RefsAreCommits DEF CommitWrite, IInv, TypeOK
<1>2. RepositoryStep
  BY <1>1, WriteExtends DEF RepositoryStep
<1>3. CASE job[t].seen # 0 /\ refs[b] # job[t].seen
  <2>1. /\ Fail(t, ctx[t]) /\ job' = [job EXCEPT ![t] = Idle] /\ commitAccess' = NoThread
        /\ UNCHANGED <<dag, refs, ledger>>
    BY <1>3 DEF CommitWrite, CommitFails, repository
  <2>2. \A u \in Threads \ {t} : commitAccess' = u <=> commitAccess = u
    BY <1>1, <2>1, ThreadAssumption
  <2> QED
    BY <1>1, <1>2, <2>1, <2>2, Dropped
<1>4. CASE ~(job[t].seen # 0 /\ refs[b] # job[t].seen)
  <2>1. /\ job' = [job EXCEPT ![t] = j] /\ ctx' = ctx /\ commitAccess' = NoThread
        /\ dag' = Append(dag, [parent |-> ctx[t].commit, tree |-> job[t].tree])
    BY <1>4 DEF CommitWrite
  <2>2. Len(dag') = n /\ n \in Nat
    BY <1>1, <2>1, RefsAreCommits
  <2> HIDE DEF n
  <2>3. j \in Jobs /\ j.pc = "created" /\ j.id = n
    BY <1>1, <2>2 DEF Jobs
  <2> HIDE DEF j
  <2>4. n \in Commits' /\ ledger'[n].branch = b
    <3>1. n = Len(ledger) + 1 /\ Commits' = 1 .. n
      BY <1>2, <2>2, RefsAreCommits, RepositoryInvariant DEF n
    <3>2. ledger' = Append(ledger, [branch |-> b, delta |-> job[t].delta, reply |-> "none"])
      BY <1>4 DEF CommitWrite
    <3> QED
      BY <1>1, <3>1, <3>2, RefsAreCommits
  <2>5. job'[t] = j /\ ctx[t] \in Contexts \union {NoCtx} /\ ctx' = [ctx EXCEPT ![t] = ctx[t]]
    BY <1>1, <2>1 DEF TypeOK
  <2>6. Coherent(t)'
    <3>1. ctx[t].commit \in Nat /\ ctx[t].commit =< Len(dag)
      BY <1>1, ContextFields DEF Coherent
    <3>2. (TreeOf(ctx[t].commit))' = TreeOf(ctx[t].commit)
      BY <1>2, <2>1, <3>1, Kept DEF TreeOf
    <3>3. t \notin Keepers => (refs'[b] # 0 \/ b = Main)
      BY <1>1, <1>2, Kept, RefsAreCommits, RepositoryInvariant DEF Coherent
    <3> QED
      BY <1>1, <2>1, <2>2, <3>1, <3>2, <3>3 DEF Coherent, n
  <2>7. Committing(t)'
    BY <1>1, <2>1, <2>3, <2>4, <2>5 DEF Committing
  <2>8. \A u \in Threads \ {t} : /\ commitAccess' = u <=> commitAccess = u
                                 /\ refs' = refs \/ commitAccess # u
    BY <1>1, <2>1, ThreadAssumption
  <2> QED
    BY <1>2, <2>1, <2>3, <2>5, <2>6, <2>7, <2>8, CommitStep
<1> QED
  BY <1>3, <1>4

(* Moving the context to its new commit keeps the invariant.               *)
LEMMA UpdateStep ==
  ASSUME IInv, NEW t \in Threads, CommitUpdate(t)
  PROVE  IInv'
<1> DEFINE id == job[t].id
           k == Context(ctx[t].ref, id, ctx[t].updates)
<1>1. /\ TypeOK /\ Coherent(t) /\ Committing(t) /\ ctx[t] # NoCtx
      /\ job[t].pc = "created" /\ commitAccess # t /\ id \in Commits
      /\ ctx' = [ctx EXCEPT ![t] = k] /\ job' = [job EXCEPT ![t] = Idle]
      /\ UNCHANGED <<dag, refs, commitAccess>>
  BY DEF CommitUpdate, IInv, Committing
<1>2. RepositoryStep
  BY <1>1, Noted DEF CommitUpdate, RepositoryStep
<1>3. /\ ctx[t].ref \in Branches /\ ctx[t].updates \in Seq(Updates) /\ id \in Nat
      /\ refs[ctx[t].ref] # 0
  <2>1. /\ ctx[t].ref \in Branches /\ ctx[t].updates \in Seq(Updates) /\ id \in Nat
        /\ id # 0 /\ ledger[id].branch = ctx[t].ref /\ id =< refs[ledger[id].branch]
    BY <1>1, ContextFields, RefsAreCommits DEF Committing, IInv, NoDangling
  <2> QED
    BY <2>1, RefsAreCommits
<1>4. k \in Contexts /\ Sound(t, k)
  BY <1>1, <1>3, SoundContext DEF Coherent
<1> HIDE DEF k
<1>5. ctx'[t] = k /\ job'[t] = Idle
  BY <1>1 DEF TypeOK
<1>6. Coherent(t)' /\ Committing(t)'
  BY <1>1, <1>4, <1>5 DEF Coherent, Committing, Sound, Idle, TreeOf
<1>7. commitAccess' \in Threads \union {NoThread}
  BY <1>1 DEF TypeOK
<1> QED
  BY <1>1, <1>2, <1>4, <1>6, <1>7, CommitStep, IdleType

(* A new branch keeps the invariant.                                       *)
LEMMA CreateBranchStep ==
  ASSUME IInv, NEW t \in Threads, NEW b \in Branches, CreateBranch(t, b)
  PROVE  IInv'
<1>1. /\ TypeOK /\ Ready(t) /\ job[t].pc = "idle" /\ ctx[t] # NoCtx
      /\ UNCHANGED <<dag, ledger, job, commitAccess>>
  BY DEF CreateBranch, Ready, committing, IInv
<1>2. CASE ctx[t].commit = 0 \/ refs[b] # 0
  BY <1>1, <1>2, FailsAsItWas DEF CreateBranch
<1>3. CASE ~(ctx[t].commit = 0 \/ refs[b] # 0)
  <2>1. ctx' = ctx /\ RepositoryStep /\ ctx[t].commit \in Commits
    BY <1>1, <1>3, RepositoryNext, RefsAreCommits DEF CreateBranch, Next
  <2>2. TypeOK'
    BY <1>1, <2>1, RepositoryInvariant DEF TypeOK
  <2>3. ASSUME Keepers = {}, NEW u \in Threads, job[u].pc = "checked", job[u].seen = 0
        PROVE  refs'[ctx[u].ref] = 0
    <3>1. refs[ctx[u].ref] = 0 /\ ctx[u].ref = Main
      BY <2>3 DEF IInv, Coherent, Committing
    <3>2. dag = << >>
      BY <2>3, <3>1 DEF IInv, MainFirst
    <3> QED
      BY <2>1, <3>2, RefsAreCommits
  <2>4. \A u \in Threads : Coherent(u)' /\ Committing(u)'
    BY <1>1, <2>1, <2>3, Bystander
  <2> QED
    BY <2>1, <2>2, <2>4, RepositoryInvariant DEF IInv
<1> QED
  BY <1>2, <1>3

(* A commit from outside keeps the invariant, even in the middle of        *)
(* the commit() of a thread.                                               *)
LEMMA GitCliStep ==
  ASSUME IInv, NEW b \in Branches, NEW f \in Files, NEW v \in Values, GitCli(b, f, v)
  PROVE  IInv'
<1>1. /\ TypeOK /\ refs[b] # 0 /\ UNCHANGED <<ctx, job, commitAccess>> /\ RepositoryStep
  BY RepositoryNext DEF GitCli, committing, IInv, Next
<1>2. TypeOK'
  BY <1>1, RepositoryInvariant DEF TypeOK
<1>3. ASSUME Keepers = {}, NEW u \in Threads, job[u].pc = "checked", job[u].seen = 0
      PROVE  refs'[ctx[u].ref] = 0
  <2>1. refs[ctx[u].ref] = 0 /\ ctx[u].ref = Main
    BY <1>3 DEF IInv, Coherent, Committing
  <2>2. dag = << >>
    BY <1>3, <2>1 DEF IInv, MainFirst
  <2> QED
    BY <1>1, <2>2, RefsAreCommits
<1>4. \A u \in Threads : Coherent(u)' /\ Committing(u)'
  BY <1>1, <1>3, Bystander
<1> QED
  BY <1>1, <1>2, <1>4, RepositoryInvariant DEF IInv

(* The death of the process keeps the invariant.                           *)
LEMMA CrashStep ==
  ASSUME IInv, Crash
  PROVE  IInv'
<1>1. RepositoryStep /\ TypeOK
  BY Unchanged DEF Crash, repository, RepositoryStep, IInv
<1>2. TypeOK'
  BY <1>1, RepositoryInvariant, IdleType DEF Crash, TypeOK
<1>3. \A t \in Threads : Coherent(t)' /\ Committing(t)'
  BY ThreadAssumption DEF Crash, Coherent, Committing, Idle
<1> QED
  BY <1>1, <1>2, <1>3, RepositoryInvariant DEF IInv

(* The invariant holds when the repository has just been created ...       *)
LEMMA InvInit == Init => IInv
<1> SUFFICES ASSUME Init PROVE IInv
  OBVIOUS
<1>1. TypeOK
  BY IdleType DEF Init, TypeOK
<1>2. NoDangling /\ MainFirst
  BY DEF Init, NoDangling, MainFirst
<1>3. \A t \in Threads : Coherent(t) /\ Committing(t)
  BY ThreadAssumption DEF Init, Coherent, Committing, Idle
<1> QED
  BY <1>1, <1>2, <1>3 DEF IInv

(* ... and every step keeps it.                                            *)
LEMMA InvNext == IInv /\ [Next]_vars => IInv'
<1> SUFFICES ASSUME IInv, [Next]_vars PROVE IInv'
  OBVIOUS
<1>1. ASSUME NEW t \in Threads, SelectRepository(t)
      PROVE  IInv'
  <2>1. PICK c \in {0, refs[Main]} : ctx' = [ctx EXCEPT ![t] = Context(Main, c, << >>)]
    BY <1>1 DEF SelectRepository
  <2>2. << >> \in Seq(Updates) /\ c \in Nat /\ (c = 0 \/ c \in Commits)
    BY RefsAreCommits, BranchAssumption
  <2>3. Context(Main, c, << >>) \in Contexts /\ Sound(t, Context(Main, c, << >>))
    BY <2>2, SoundContext, BranchAssumption
  <2> QED
    BY <1>1, <2>1, <2>3, ContextStep DEF SelectRepository, repository, committing
<1>2. ASSUME NEW t \in Threads, NEW b \in Branches, SelectBranch(t, b)
      PROVE  IInv'
  <2> DEFINE k == Context(b, refs[b], ctx[t].updates)
             switched == [ctx[t] EXCEPT !.ref = b]
             looked == [switched EXCEPT !.commit = refs[b]]
  <2>1. /\ job[t].pc = "idle" /\ ctx[t] # NoCtx /\ ctx[t].updates \in Seq(Updates)
        /\ UNCHANGED <<dag, refs, ledger, job, commitAccess>>
    BY <1>2, ContextFields DEF SelectBranch, Ready, repository, committing, IInv
  <2>2. CASE refs[b] # 0 /\ ctx' = [ctx EXCEPT ![t] = k]
    <3>1. k \in Contexts /\ Sound(t, k)
      BY <2>1, <2>2, SoundContext, RefsAreCommits
    <3> QED
      BY <2>1, <2>2, <3>1, ContextStep
  <2>3. switched \in Contexts /\ switched.commit =< Len(dag)
    BY <2>1, ContextFields DEF Contexts, IInv, Coherent
  <2>4. looked \in Contexts /\ looked.commit =< Len(dag)
    <3>1. refs[b] \in Nat /\ refs[b] =< Len(dag)
      BY RefsAreCommits DEF IInv, NoDangling
    <3> QED
      BY <2>1, <3>1, ContextFields DEF Contexts, IInv
  <2>5. \/ refs[b] # 0 /\ ctx' = [ctx EXCEPT ![t] = k]
        \/ Fail(t, looked)
        \/ Fail(t, switched)
    BY <1>2 DEF SelectBranch
  <2> HIDE DEF k, switched, looked
  <2>6. CASE Fail(t, looked)
    BY <2>1, <2>4, <2>6, FailStep
  <2>7. CASE Fail(t, switched)
    BY <2>1, <2>3, <2>7, FailStep
  <2> QED
    BY <2>2, <2>5, <2>6, <2>7
<1>3. ASSUME NEW t \in Threads, Rebase(t)
      PROVE  IInv'
  <2> DEFINE b == ctx[t].ref
             k == Context(b, refs[b], ctx[t].updates)
  <2>1. /\ job[t].pc = "idle" /\ ctx[t] # NoCtx /\ ctx[t].updates \in Seq(Updates)
        /\ b \in Branches /\ refs[b] # 0
        /\ UNCHANGED <<dag, refs, ledger, job, commitAccess>>
    BY <1>3, ContextFields DEF Rebase, Ready, repository, committing, IInv
  <2>2. k \in Contexts /\ Sound(t, k)
    BY <2>1, SoundContext, RefsAreCommits
  <2>3. ctx' = [ctx EXCEPT ![t] = k]
    BY <1>3 DEF Rebase
  <2> QED
    BY <2>1, <2>2, <2>3, ContextStep
<1>4. ASSUME NEW t \in Threads, Rollback(t)
      PROVE  IInv'
  <2> DEFINE k == [ctx[t] EXCEPT !.updates = << >>]
  <2>1. /\ job[t].pc = "idle" /\ ctx[t] # NoCtx /\ ctx' = [ctx EXCEPT ![t] = k]
        /\ UNCHANGED <<dag, refs, ledger, job, commitAccess>>
    BY <1>4 DEF Rollback, Ready, repository, committing
  <2>2. << >> \in Seq(Updates)
    OBVIOUS
  <2>3. k \in Contexts /\ Sound(t, k)
    BY <2>1, <2>2, SoundUpdates
  <2> QED
    BY <2>1, <2>3, ContextStep
<1>5. ASSUME NEW t \in Threads, NEW f \in Files, NEW v \in Values, AddOrDel(t, f, v)
      PROVE  IInv'
  <2>1. << [file |-> f, val |-> v] >> \in Seq(Updates)
    BY DEF Updates
  <2> QED
    BY <1>5, <2>1, CollectStep DEF AddOrDel, repository, committing
<1>6. ASSUME NEW t \in Threads, NEW f \in Files, NEW g \in Files, Mv(t, f, g)
      PROVE  IInv'
  <2> DEFINE v == ctx[t].root[f]
             us == << [file |-> g, val |-> v], [file |-> f, val |-> Absent] >>
  <2>1. /\ Ready(t) /\ job[t].pc = "idle" /\ v \in Values
        /\ UNCHANGED <<dag, refs, ledger, job, commitAccess>>
    BY <1>6, ContextFields DEF Mv, Ready, repository, committing, IInv, Trees
  <2>2. CASE v = Absent
    BY <1>6, <2>1, <2>2, FailsAsItWas DEF Mv
  <2>3. CASE v # Absent
    <3>1. [file |-> g, val |-> v] \in Updates /\ [file |-> f, val |-> Absent] \in Updates
      BY <2>1 DEF Updates, Values
    <3>2. us \in Seq(Updates)
      BY <3>1
    <3> QED
      BY <1>6, <2>1, <2>3, <3>2, CollectStep DEF Mv
  <2> QED
    BY <2>2, <2>3
<1>7. ASSUME NEW t \in Threads, CommitRejected(t)
      PROVE  IInv'
  BY <1>7, FailsAsItWas DEF CommitRejected, repository, committing
<1>8. ASSUME NEW t \in Threads, CommitUpdateFails(t)
      PROVE  IInv'
  <2>1. RepositoryStep
    BY <1>8, RepositoryNext DEF Next
  <2>2. commitAccess \in Threads \union {NoThread} /\ commitAccess # t
    BY <1>8 DEF CommitUpdateFails, IInv, TypeOK, Committing
  <2> QED
    BY <1>8, <2>1, <2>2, Dropped DEF CommitUpdateFails
<1>9. ASSUME NEW t \in Threads, GitFailure(t)
      PROVE  IInv'
  <2>1. RepositoryStep
    BY <1>9, RepositoryNext DEF Next
  <2>2. commitAccess \in Threads \union {NoThread}
    BY DEF IInv, TypeOK
  <2> QED
    BY <1>9, <2>1, <2>2, Dropped, ThreadAssumption DEF GitFailure, repository
<1>10. CASE UNCHANGED vars
  <2>1. RepositoryStep
    BY RepositoryNext
  <2> QED
    BY <1>10 DEF vars, IInv, TypeOK, NoDangling, MainFirst, Coherent, Committing, TreeOf
<1> QED
  BY <1>1, <1>2, <1>3, <1>4, <1>5, <1>6, <1>7, <1>8, <1>9, <1>10, CreateBranchStep,
     ApplyStep, LockStep, CheckStep, WriteStep, UpdateStep, GitCliStep, CrashStep
     DEF Next

(* Every reachable state satisfies the invariant of the safety proofs.     *)
THEOREM Invariance == Spec => []IInv
  BY InvInit, InvNext, PTL DEF Spec

(* Everything keeps its type, for any number of threads, branches, files   *)
(* and commits: contexts, half-made commits and the mutex are well formed. *)
THEOREM TypeCorrect == Spec => []TypeOK
<1>1. IInv => TypeOK
  BY DEF IInv
<1> QED
  BY Invariance, <1>1, PTL

-------------------------------------------------------------------------------
(* What holds of every repository. *)

(* Where no context outlives an Error, a branch that exists only ever      *)
(* moves to a child of its tip, and commits stay as they are               *)
(* (git_commit_create under commitAccess).                                 *)
THEOREM BranchesFastForward ==
  ASSUME Keepers = {}
  PROVE  Spec => FastForward
<1> DEFINE Step == /\ \A b \in Branches : refs[b] # 0 /\ refs'[b] # refs[b]
                                            => dag'[refs'[b]].parent = refs[b]
                   /\ \A c \in Commits : dag'[c] = dag[c]
<1>1. ASSUME IInv, [Next]_vars
      PROVE  Step
  <2>1. RepositoryStep
    BY <1>1, RepositoryNext
  <2>2. \A c \in Commits : dag'[c] = dag[c]
    BY <1>1, <2>1, Kept
  <2>3. CASE Quiet
    BY <2>2, <2>3 DEF Quiet
  <2>4. ASSUME NEW b \in Branches, NEW c \in Commits, Forks(b, c)
        PROVE  Step
    BY <1>1, <2>2, <2>4 DEF Forks, IInv, TypeOK
  <2>5. ASSUME NEW b \in Branches, NEW delta \in Seq(Updates), Extends(b, delta)
        PROVE  Step
    BY <1>1, <2>2, <2>5, Extended DEF OnTip
  <2> QED
    BY <2>1, <2>3, <2>4, <2>5 DEF RepositoryStep
<1> HIDE DEF Step
<1>2. IInv /\ [Next]_vars => [Step]_vars
  BY <1>1
<1>3. Spec => [][Step]_vars
  BY Invariance, <1>2, PTL DEF Spec
<1> QED
  BY <1>3 DEF FastForward, Step

(* However contexts are kept: a new commit is a child of the tip of its    *)
(* branch, unless libgit2 was shown no branch when it made the check.      *)
THEOREM OnlyUnseenBranchesDiverge == Spec => OnlyUnseenDiverge
<1> DEFINE New(n) ==
             \/ dag'[n].parent = refs[ledger'[n].branch]
             \/ Keepers # {} /\ \E t \in Threads :
                  job[t].pc = "checked" /\ job[t].seen = 0 /\ ctx[t].ref = ledger'[n].branch
           Step == \A n \in DOMAIN dag' \ Commits : New(n)
<1>1. ASSUME IInv, [Next]_vars
      PROVE  Step
  <2>1. ASSUME NEW t \in Threads, CommitWrite(t), dag' # dag
        PROVE  Step
    <3> DEFINE b == ctx[t].ref
               n == Len(dag) + 1
    <3>1. /\ job[t].pc = "checked" /\ ~(job[t].seen # 0 /\ refs[b] # job[t].seen)
          /\ dag' = Append(dag, [parent |-> ctx[t].commit, tree |-> job[t].tree])
          /\ ledger' = Append(ledger, [branch |-> b, delta |-> job[t].delta,
                                       reply |-> "none"])
      BY <2>1 DEF CommitWrite, CommitFails, repository
    <3>2. /\ Commits' = Commits \union {n} /\ Len(ledger) + 1 = n
          /\ dag'[n].parent = ctx[t].commit /\ ledger'[n].branch = b
      BY <1>1, <3>1, RefsAreCommits
    <3>3. Committing(t) /\ Coherent(t) /\ ctx[t] # NoCtx /\ b \in Branches
      BY <1>1, <3>1, ContextFields DEF IInv, Committing
    <3>4. CASE job[t].seen # 0
      BY <3>1, <3>2, <3>3, <3>4 DEF Committing
    <3>5. CASE job[t].seen = 0 /\ Keepers # {}
      BY <3>1, <3>2, <3>5
    <3>6. CASE job[t].seen = 0 /\ Keepers = {}
      <4>1. refs[b] = 0 /\ b = Main
        BY <3>1, <3>3, <3>6 DEF Committing, Coherent
      <4>2. dag = << >>
        BY <1>1, <3>6, <4>1 DEF IInv, MainFirst
      <4>3. ctx[t].commit \in Nat /\ ctx[t].commit =< 0
        BY <1>1, <3>3, <4>2, ContextFields DEF Coherent, IInv
      <4>4. ctx[t].commit = 0
        BY <4>3
      <4> QED
        BY <3>2, <4>1, <4>4
    <3> QED
      BY <3>4, <3>5, <3>6
  <2>2. ASSUME NEW b \in Branches, NEW f \in Files, NEW v \in Values, GitCli(b, f, v)
        PROVE  Step
    <3> DEFINE n == Len(dag) + 1
               delta == << [file |-> f, val |-> v] >>
               tree == ApplyTo(TreeOf(refs[b]), delta)
    <3>1. /\ dag' = Append(dag, [parent |-> refs[b], tree |-> tree])
          /\ ledger' = Append(ledger, [branch |-> b, delta |-> delta, reply |-> "none"])
      BY <2>2 DEF GitCli
    <3> HIDE DEF delta, tree
    <3> QED
      BY <1>1, <3>1, RefsAreCommits
  <2>3. CASE dag' = dag
    BY <2>3
  <2>4. ASSUME NEW t \in Threads, CommitCheck(t)
        PROVE  dag' = dag
    BY <2>4 DEF CommitCheck, CommitFails, repository
  <2> QED
    BY <1>1, <2>1, <2>2, <2>3, <2>4
       DEF Next, vars, repository, SelectRepository, Rebase, Rollback, SelectBranch,
           CreateBranch, AddOrDel, Mv, CommitRejected, CommitApply, CommitLock,
           CommitUpdate, CommitUpdateFails, GitFailure, Crash
<1> HIDE DEF Step
<1>2. IInv /\ [Next]_vars => [Step]_vars
  BY <1>1
<1>3. Spec => [][Step]_vars
  BY Invariance, <1>2, PTL DEF Spec
<1> QED
  BY <1>3 DEF OnlyUnseenDiverge, Step, New

(* Of several contexts based on one commit the first to commit on a branch *)
(* wins: a branch never gets two commits with the same parent (where no    *)
(* context outlives an Error).                                             *)
THEOREM FirstCommitterWins ==
  ASSUME Keepers = {}
  PROVE  Spec => []FirstWins
<1>1. Init => FirstWins
  BY DEF Init, FirstWins
<1>2. ASSUME IInv, FirstWins, [Next]_vars
      PROVE  FirstWins'
  <2>1. RepositoryStep
    BY <1>2, RepositoryNext
  <2>2. CASE Commits' = Commits
    BY <1>2, <2>1, <2>2, Kept DEF FirstWins
  <2>3. ASSUME NEW b \in Branches, NEW delta \in Seq(Updates), Extends(b, delta)
        PROVE  FirstWins'
    <3> DEFINE n == Len(dag) + 1
    <3>1. /\ Commits' = Commits \union {n}
          /\ \A c \in Commits : dag'[c] = dag[c] /\ ledger'[c] = ledger[c]
          /\ dag'[n].parent = refs[b] /\ ledger'[n].branch = b
      BY <1>2, <2>3, Extended DEF OnTip
    <3>2. ASSUME NEW c \in Commits, ledger[c].branch = b
          PROVE  dag[c].parent # refs[b]
      <4>1. /\ dag[c].parent < c /\ c =< refs[b]
            /\ dag[c] \in CommitRecords /\ c \in Nat /\ refs[b] \in Nat
        BY <1>2, <3>2, RefsAreCommits DEF IInv, NoDangling
      <4> QED
        BY <4>1 DEF CommitRecords
    <3>3. ASSUME NEW c \in Commits', NEW d \in Commits',
                 ledger'[c].branch = ledger'[d].branch, dag'[c].parent = dag'[d].parent
          PROVE  c = d
      <4>1. CASE c \in Commits /\ d \in Commits
        BY <1>2, <3>1, <3>3, <4>1 DEF FirstWins
      <4>2. CASE c = n \/ d = n
        BY <3>1, <3>2, <3>3, <4>2
      <4> QED
        BY <3>1, <4>1, <4>2
    <3> QED
      BY <3>3 DEF FirstWins
  <2> QED
    BY <2>1, <2>2, <2>3 DEF RepositoryStep, Quiet, Forks
<1> QED
  BY Invariance, <1>1, <1>2, PTL DEF Spec

(* Commit c is its parent plus the updates collected for it.               *)
Exact(c) == dag[c].tree = ApplyTo(TreeOf(dag[c].parent), ledger[c].delta)

(* A commit that is its parent plus its updates stays so.                  *)
LEMMA StaysExact ==
  ASSUME IInv, RepositoryStep, NEW c \in Commits, Exact(c)
  PROVE  Exact(c)'
<1>1. /\ dag[c].parent < c /\ dag[c] \in CommitRecords /\ c \in 1 .. Len(dag)
      /\ Len(dag) \in Nat
  BY RefsAreCommits DEF IInv, NoDangling
<1>2. dag[c].parent \in Nat /\ dag[c].parent =< Len(dag)
  BY <1>1 DEF CommitRecords
<1>3. dag'[c] = dag[c] /\ ledger'[c].delta = ledger[c].delta
  BY Kept
<1>4. (TreeOf(dag[c].parent))' = TreeOf(dag[c].parent)
  BY <1>2, <1>3, Kept DEF TreeOf
<1> QED
  BY <1>3, <1>4 DEF Exact

(* A new commit is its parent plus its updates.                            *)
LEMMA IsMadeExact ==
  ASSUME Keepers = {}, IInv, RepositoryStep, NEW b \in Branches, NEW delta \in Seq(Updates),
         Extends(b, delta), NEW n \in Nat, n = Len(dag) + 1
  PROVE  Commits' = Commits \union {n} /\ Exact(n)'
<1>1. /\ Commits' = Commits \union {n}
      /\ dag'[n].parent = refs[b] /\ ledger'[n].delta = delta
      /\ dag'[n].tree = ApplyTo(TreeOf(refs[b]), delta)
  BY Extended DEF OnTip
<1>2. refs[b] \in Nat /\ refs[b] =< Len(dag)
  BY RefsAreCommits DEF IInv, NoDangling
<1>3. (TreeOf(dag[n].parent))' = TreeOf(refs[b])
  BY <1>1, <1>2, Kept DEF TreeOf
<1> QED
  BY <1>1, <1>3 DEF Exact

(* Every commit is its parent plus exactly the updates collected for it    *)
(* (where no context outlives an Error).                                   *)
THEOREM CommitsAreExact ==
  ASSUME Keepers = {}
  PROVE  Spec => []CommitIsParentPlusDelta
<1>1. CommitIsParentPlusDelta <=> \A c \in Commits : Exact(c)
  BY DEF CommitIsParentPlusDelta, Exact
<1>2. Init => \A c \in Commits : Exact(c)
  BY DEF Init
<1>3. ASSUME IInv, \A c \in Commits : Exact(c), [Next]_vars
      PROVE  (\A c \in Commits : Exact(c))'
  <2>1. RepositoryStep
    BY <1>3, RepositoryNext
  <2>2. \A c \in Commits : Exact(c)'
    BY <1>3, <2>1, StaysExact
  <2>3. CASE Commits' = Commits
    BY <2>2, <2>3
  <2>4. ASSUME NEW b \in Branches, NEW delta \in Seq(Updates), Extends(b, delta)
        PROVE  (\A c \in Commits : Exact(c))'
    <3>1. PICK n \in Nat : n = Len(dag) + 1
      BY <1>3, RefsAreCommits
    <3>2. Commits' = Commits \union {n} /\ Exact(n)'
      BY <1>3, <2>1, <2>4, <3>1, IsMadeExact
    <3> QED
      BY <2>2, <3>2
  <2> QED
    BY <2>1, <2>3, <2>4 DEF RepositoryStep, Quiet, Forks
<1> QED
  BY Invariance, <1>1, <1>2, <1>3, PTL DEF Spec

-------------------------------------------------------------------------------
(* Durability. *)

(* Commits in a set with their parents: what Reaches quantifies over.      *)
Closed(S) == \A d \in S : dag[d].parent # 0 => dag[d].parent \in S

(* Reachability, in terms of closed sets.                                  *)
LEMMA ReachesDef ==
  ASSUME NEW c, NEW a
  PROVE  Reaches(c, a) <=> \A S \in SUBSET Commits : c \in S /\ Closed(S) => a \in S
  BY DEF Reaches, Closed

(* A set closed after a step was closed, as far as it existed, before it.  *)
LEMMA ClosedBefore ==
  ASSUME IInv, RepositoryStep, NEW S \in SUBSET Commits', Closed(S)'
  PROVE  S \intersect Commits \in SUBSET Commits /\ Closed(S \intersect Commits)
<1>1. ASSUME NEW d \in S \intersect Commits, dag[d].parent # 0
      PROVE  dag[d].parent \in S \intersect Commits
  <2>1. dag[d] \in CommitRecords /\ dag[d].parent < d /\ d \in 1 .. Len(dag)
        /\ Commits = 1 .. Len(dag) /\ Len(dag) \in Nat
    BY RefsAreCommits DEF IInv, NoDangling
  <2>2. dag[d].parent \in Commits
    BY <1>1, <2>1 DEF CommitRecords
  <2>3. dag'[d] = dag[d]
    BY Kept
  <2> QED
    BY <1>1, <2>2, <2>3 DEF Closed
<1> QED
  BY <1>1 DEF Closed

(* What a commit reaches it goes on reaching.                              *)
LEMMA ReachesStays ==
  ASSUME IInv, RepositoryStep, NEW c \in Commits, NEW a, Reaches(c, a)
  PROVE  Reaches(c, a)'
<1>1. ASSUME NEW S \in SUBSET Commits', c \in S, Closed(S)'
      PROVE  a \in S
  BY <1>1, ClosedBefore, ReachesDef
<1> QED
  BY <1>1 DEF Reaches, Closed

(* What the tip of a branch reaches, its tip goes on reaching.             *)
LEMMA TipReaches ==
  ASSUME Keepers = {}, IInv, RepositoryStep, NEW b \in Branches, refs[b] # 0, NEW a, Reaches(refs[b], a)
  PROVE  Reaches(refs[b], a)'
<1>1. refs[b] \in Commits
  BY RefsAreCommits
<1>2. CASE refs'[b] = refs[b]
  BY <1>1, <1>2, ReachesStays DEF Reaches
<1>3. CASE refs'[b] # refs[b]
  <2>1. PICK delta \in Seq(Updates) : Extends(b, delta)
    <3>1. ASSUME NEW d \in Branches, NEW c \in Commits, Forks(d, c)
          PROVE  refs'[b] = refs[b]
      BY <3>1 DEF Forks, IInv, TypeOK
    <3>2. ASSUME NEW d \in Branches, NEW delta \in Seq(Updates), Extends(d, delta), d # b
          PROVE  refs'[b] = refs[b]
      BY <3>2 DEF Extends, IInv, TypeOK
    <3> QED
      BY <1>3, <3>1, <3>2 DEF RepositoryStep, Quiet
  <2> DEFINE n == Len(dag) + 1
  <2>2. refs'[b] = n /\ dag'[n].parent = refs[b]
    BY <2>1, Extended DEF OnTip
  <2>3. ASSUME NEW S \in SUBSET Commits', n \in S, Closed(S)'
        PROVE  a \in S
    <3>1. refs[b] \in S \intersect Commits
      BY <1>1, <2>2, <2>3 DEF Closed
    <3> QED
      BY <2>3, <3>1, ClosedBefore, ReachesDef
  <2> QED
    BY <2>2, <2>3 DEF Reaches, Closed
<1> QED
  BY <1>2, <1>3

(* Once a commit was written to a branch it stays in its history (where no *)
(* context outlives an Error).                                             *)
THEOREM NoCommitIsLost ==
  ASSUME Keepers = {}
  PROVE  Spec => []NoLostCommit
<1>1. Init => NoLostCommit
  BY DEF Init, NoLostCommit
<1>2. ASSUME IInv, NoLostCommit, [Next]_vars
      PROVE  NoLostCommit'
  <2>1. RepositoryStep
    BY <1>2, RepositoryNext
  <2>2. ASSUME NEW c \in Commits
        PROVE  Reaches(refs[ledger[c].branch], c)'
    <3>1. /\ ledger[c] \in Entries /\ c \in Nat /\ c # 0
          /\ c =< refs[ledger[c].branch] /\ Reaches(refs[ledger[c].branch], c)
      BY <1>2, RefsAreCommits DEF IInv, NoDangling, NoLostCommit
    <3>2. PICK b \in Branches : b = ledger[c].branch
      BY <3>1 DEF Entries
    <3>3. refs[b] # 0 /\ Reaches(refs[b], c)
      BY <1>2, <3>1, <3>2, RefsAreCommits
    <3>4. Reaches(refs[b], c)'
      BY <1>2, <2>1, <3>3, TipReaches
    <3>5. ledger'[c].branch = b
      BY <1>2, <2>1, <3>2, Kept
    <3> QED
      BY <3>4, <3>5 DEF Reaches
  <2>3. CASE Commits' = Commits
    BY <2>2, <2>3 DEF NoLostCommit
  <2>4. ASSUME NEW b \in Branches, NEW delta \in Seq(Updates), Extends(b, delta)
        PROVE  NoLostCommit'
    <3>1. PICK n \in Nat : n = Len(dag) + 1
      BY <1>2, RefsAreCommits
    <3>2. Commits' = Commits \union {n} /\ refs'[ledger'[n].branch] = n
      BY <1>2, <2>4, <3>1, Extended
    <3>3. Reaches(refs[ledger[n].branch], n)'
      BY <3>2 DEF Reaches
    <3> QED
      BY <2>2, <3>2, <3>3 DEF NoLostCommit
  <2> QED
    BY <2>1, <2>3, <2>4 DEF RepositoryStep, Quiet, Forks
<1> QED
  BY Invariance, <1>1, <1>2, PTL DEF Spec

(* How the context of a thread may differ after a step, if none outlives   *)
(* an Error.                                                               *)
ContextMove(t) ==
  \/ ctx'[t] = NoCtx
  \/ ctx[t] # NoCtx /\ ctx'[t].ref = ctx[t].ref /\ ctx'[t].commit = ctx[t].commit
  \/ ctx'[t].commit = 0
  \/ refs' = refs /\ ctx'[t].ref \in Branches /\ ctx'[t].commit = refs[ctx'[t].ref]
  \/ /\ job[t].pc = "created" /\ UNCHANGED <<dag, refs>>
     /\ ctx'[t].ref = ctx[t].ref /\ ctx'[t].commit = job[t].id

(* In a step a context stays at its commit, or moves to the tip of a       *)
(* branch or to the commit it just made.                                   *)
LEMMA ContextNext ==
  ASSUME Keepers = {}, IInv, [Next]_vars, NEW t \in Threads
  PROVE  ContextMove(t)
<1> USE DEF ContextMove
<1>1. ctx \in [Threads -> Contexts \union {NoCtx}] /\ BranchAssumption
  BY BranchAssumption DEF IInv, TypeOK
<1>2. CASE ctx' = ctx
  BY <1>1, <1>2
<1>3. ASSUME NEW u \in Threads, NEW left, Fail(u, left)
      PROVE  ContextMove(t)
  BY <1>1, <1>3 DEF Fail
<1>4. ASSUME NEW u \in Threads, SelectRepository(u)
      PROVE  ContextMove(t)
  BY <1>1, <1>4 DEF SelectRepository, Context, repository, BranchAssumption
<1>5. ASSUME NEW u \in Threads, NEW b \in Branches, SelectBranch(u, b)
      PROVE  ContextMove(t)
  <2>1. CASE ctx' = [ctx EXCEPT ![u] = NoCtx]
    BY <1>1, <2>1
  <2>2. CASE ctx' = [ctx EXCEPT ![u] = Context(b, refs[b], ctx[u].updates)]
    BY <1>1, <1>5, <2>2 DEF SelectBranch, Context, repository
  <2> QED
    BY <1>5, <2>1, <2>2 DEF SelectBranch, Fail
<1>6. ASSUME NEW u \in Threads, Rebase(u)
      PROVE  ContextMove(t)
  BY <1>1, <1>6, ContextFields DEF Rebase, Ready, Context, repository, IInv
<1>7. ASSUME NEW u \in Threads, NEW us \in Seq(Updates), ctx[u] # NoCtx,
             ctx' = [ctx EXCEPT ![u].updates = us]
      PROVE  ContextMove(t)
  <2>1. ctx[u] \in Contexts
    BY <1>1, <1>7
  <2> QED
    BY <1>1, <1>7, <2>1 DEF Contexts
<1>8. ASSUME NEW u \in Threads, NEW us \in Seq(Updates), Ready(u), Collect(u, us)
      PROVE  ContextMove(t)
  <2>1. ctx[u].updates \o us \in Seq(Updates) /\ ctx[u] # NoCtx
    BY <1>8, ContextFields DEF Ready, IInv
  <2>2. ctx' = [ctx EXCEPT ![u].updates = ctx[u].updates \o us]
    BY <1>8 DEF Collect
  <2> QED
    BY <1>7, <2>1, <2>2
<1>9. ASSUME NEW u \in Threads, NEW f \in Files, NEW v \in Values, AddOrDel(u, f, v)
      PROVE  ContextMove(t)
  <2>1. << [file |-> f, val |-> v] >> \in Seq(Updates)
    BY DEF Updates
  <2> QED
    BY <1>8, <1>9, <2>1 DEF AddOrDel
<1>10. ASSUME NEW u \in Threads, NEW f \in Files, NEW g \in Files, Mv(u, f, g)
       PROVE  ContextMove(t)
  <2> DEFINE v == ctx[u].root[f]
             us == << [file |-> g, val |-> v], [file |-> f, val |-> Absent] >>
  <2>1. v \in Values
    BY <1>10, ContextFields DEF Mv, Ready, IInv, Trees
  <2>2. [file |-> g, val |-> v] \in Updates /\ [file |-> f, val |-> Absent] \in Updates
    BY <2>1 DEF Updates, Values
  <2>3. us \in Seq(Updates)
    BY <2>2
  <2>4. Fail(u, ctx[u]) \/ (Ready(u) /\ Collect(u, us))
    BY <1>10 DEF Mv
  <2> QED
    BY <1>3, <1>8, <2>3, <2>4
<1>11. ASSUME NEW u \in Threads, Rollback(u) \/ CommitApply(u)
       PROVE  ContextMove(t)
  <2>1. << >> \in Seq(Updates) /\ ctx[u] # NoCtx /\ ctx' = [ctx EXCEPT ![u].updates = << >>]
    BY <1>11 DEF Rollback, CommitApply, Ready
  <2> QED
    BY <1>7, <2>1
<1>12. ASSUME NEW u \in Threads, CommitCheck(u) \/ CommitWrite(u)
       PROVE  ContextMove(t)
  BY <1>2, <1>3, <1>12 DEF CommitCheck, CommitWrite, CommitFails
<1>13. ASSUME NEW u \in Threads, NEW b \in Branches, CreateBranch(u, b)
       PROVE  ContextMove(t)
  BY <1>2, <1>3, <1>13 DEF CreateBranch
<1>14. ASSUME NEW u \in Threads, CommitUpdate(u)
       PROVE  ContextMove(t)
  BY <1>1, <1>14 DEF CommitUpdate, Context, IInv, Committing
<1>15. CASE Crash
  BY <1>15 DEF Crash
<1> QED
  BY <1>2, <1>3, <1>4, <1>5, <1>6, <1>9, <1>10, <1>11, <1>12, <1>13, <1>14, <1>15
     DEF Next, vars, CommitLock, CommitRejected, CommitUpdateFails, GitFailure, GitCli

(* A context is based on a commit of the history of the branch it names,   *)
(* if the program drops its contexts with the Error: the variable that     *)
(* survives the failure of selectBranch() (gd.cpp:525) is not.             *)
THEOREM ContextsStayOnBranch ==
  ASSUME Keepers = {}
  PROVE  Spec => []BaseOnBranch
<1>1. Init => BaseOnBranch
  BY DEF Init, BaseOnBranch
<1>2. ASSUME IInv, NoLostCommit, BaseOnBranch, [Next]_vars
      PROVE  BaseOnBranch'
  <2>1. RepositoryStep
    BY <1>2, RepositoryNext
  <2>2. ASSUME NEW t \in Threads, ctx'[t] # NoCtx, ctx'[t].commit # 0
        PROVE  Reaches(refs[ctx[t].ref], ctx[t].commit)'
    <3>1. CASE ctx[t] # NoCtx /\ ctx'[t].ref = ctx[t].ref /\ ctx'[t].commit = ctx[t].commit
      <4>1. PICK b \in Branches : b = ctx[t].ref
        BY <1>2, <3>1, ContextFields DEF IInv
      <4>2. PICK c \in Commits : c = ctx[t].commit
        BY <1>2, <2>2, <3>1, RefsAreCommits
      <4>3. refs[b] # 0
        <5>1. dag # << >>
          BY <1>2, <4>2, RefsAreCommits
        <5> QED
          BY <1>2, <3>1, <4>1, <5>1 DEF IInv, MainFirst, Coherent
      <4>4. Reaches(refs[b], c)
        BY <1>2, <2>2, <3>1, <4>1, <4>2 DEF BaseOnBranch
      <4>5. Reaches(refs[b], c)'
        BY <1>2, <2>1, <4>3, <4>4, TipReaches
      <4> QED
        BY <3>1, <4>1, <4>2, <4>5 DEF Reaches
    <3>2. CASE refs' = refs /\ ctx'[t].commit = refs[ctx'[t].ref]
      BY <3>2 DEF Reaches
    <3>3. CASE /\ job[t].pc = "created" /\ UNCHANGED <<dag, refs>>
               /\ ctx'[t].ref = ctx[t].ref /\ ctx'[t].commit = job[t].id
      <4>1. job[t].id \in Commits /\ ledger[job[t].id].branch = ctx[t].ref
        BY <1>2, <3>3 DEF IInv, Committing
      <4>2. Reaches(refs[ctx[t].ref], job[t].id)
        BY <1>2, <4>1 DEF NoLostCommit
      <4> QED
        BY <3>3, <4>2 DEF Reaches
    <3> QED
      BY <1>2, <2>2, <3>1, <3>2, <3>3, ContextNext DEF ContextMove
  <2> QED
    BY <2>2 DEF BaseOnBranch
<1> QED
  BY Invariance, NoCommitIsLost, <1>1, <1>2, PTL DEF Spec
===============================================================================
