----------------------------- MODULE GreensProofs -----------------------------
(***************************************************************************)
(* Theorems about Greens: for every number of agents, branches, files and  *)
(* rounds the mutexes of the test do what they are for, and the record     *)
(* agrees with the commits.                                                *)
(***************************************************************************)
EXTENDS Greens, SequenceTheorems, TLAPS

-------------------------------------------------------------------------------
(* Data. *)

(* The store and the agents mean the same by a tree and a batch.           *)
LEMMA SameData ==
  /\ Store!EmptyTree = EmptyTree
  /\ \A tree, us : /\ Store!ApplyTo(tree, us) = ApplyTo(tree, us)
                   /\ Store!Applies(tree, us) <=> Applies(tree, us)
  BY DEF Store!EmptyTree, EmptyTree, Store!ApplyTo, ApplyTo, Store!Applies, Applies,
         Store!ValueBefore, ValueBefore, Store!Deciding, Deciding

(* Appending leaves a list as it was and adds one element at its end.      *)
LEMMA Appending ==
  ASSUME NEW S, NEW s \in Seq(S), NEW e \in S
  PROVE  /\ Append(s, e) \in Seq(S)
         /\ Len(Append(s, e)) = Len(s) + 1
         /\ Append(s, e) # << >>
         /\ \A i \in 1 .. Len(s) : Append(s, e)[i] = s[i]
         /\ Append(s, e)[Len(s) + 1] = e
         /\ Len(s) \in Nat
  OBVIOUS

(* What a builder holds after a batch is something a file can hold.        *)
LEMMA ValueBeforeType ==
  ASSUME NEW tree \in Trees, NEW us \in Seq(Updates), NEW f \in Files
  PROVE  ValueBefore(tree, us, Len(us) + 1, f) \in Values
<1> DEFINE J == Deciding(us, Len(us) + 1, f)
<1>1. CASE J = {}
  BY <1>1 DEF ValueBefore, Trees
<1>2. CASE J # {}
  <2>1. (CHOOSE j \in J : TRUE) \in J
    BY <1>2
  <2>2. J \subseteq 1 .. Len(us)
    BY DEF Deciding
  <2>3. \A j \in 1 .. Len(us) : us[j] \in Updates
    OBVIOUS
  <2> QED
    BY <1>2, <2>1, <2>2, <2>3 DEF ValueBefore, Updates
<1> QED
  BY <1>1, <1>2

(* Applying a batch to a tree makes a tree.                                *)
LEMMA ApplyToType ==
  ASSUME NEW tree \in Trees, NEW us \in Seq(Updates)
  PROVE  ApplyTo(tree, us) \in Trees
  BY ValueBeforeType DEF ApplyTo, Trees

(* A batch without updates changes nothing.                                *)
LEMMA ApplyNothing ==
  ASSUME NEW tree \in Trees
  PROVE  ApplyTo(tree, << >>) = tree
<1>1. \A f \in Files : Deciding(<< >>, Len(<< >>) + 1, f) = {}
  BY DEF Deciding
<1>2. \A f \in Files : ValueBefore(tree, << >>, Len(<< >>) + 1, f) = tree[f]
  BY <1>1 DEF ValueBefore
<1> QED
  BY <1>2 DEF ApplyTo, Trees

(* Applying a batch is applying its updates one after the other: what the  *)
(* agent does to the elements it expects.                                  *)
LEMMA ApplyOneMore ==
  ASSUME NEW tree \in Trees, NEW us \in Seq(Updates), NEW u \in Updates
  PROVE  ApplyTo(tree, Append(us, u)) = [ApplyTo(tree, us) EXCEPT ![u.file] = u.val]
<1> DEFINE more == Append(us, u)  n == Len(us)
<1>1. /\ n \in Nat /\ Len(more) + 1 = n + 2 /\ more[n + 1] = u
      /\ \A i \in 1 .. n : more[i] = us[i]
  BY Appending
<1>2. u.file \in Files
  BY DEF Updates
<1> HIDE DEF more, n
<1>3. ValueBefore(tree, more, Len(more) + 1, u.file) = u.val
  <2>1. ASSUME NEW j PROVE j \in Deciding(more, n + 2, u.file) <=> j = n + 1
    BY <1>1 DEF Deciding
  <2> QED
    BY <1>1, <2>1 DEF ValueBefore
<1>4. ASSUME NEW f \in Files, f # u.file
      PROVE  ValueBefore(tree, more, Len(more) + 1, f) = ValueBefore(tree, us, n + 1, f)
  <2>1. Deciding(more, n + 2, f) \subseteq 1 .. n
    BY <1>1, <1>4 DEF Deciding
  <2>2. ASSUME NEW j \in 1 .. n
        PROVE  j \in Deciding(more, n + 2, f) <=> j \in Deciding(us, n + 1, f)
    <3>1. j \in 1 .. n + 2 - 1 /\ j \in 1 .. n + 1 - 1 /\ n + 1 \in j + 1 .. n + 2 - 1
      BY <1>1
    <3>2. \A k \in j + 1 .. n + 2 - 1 : k = n + 1 \/ k \in j + 1 .. n + 1 - 1
      BY <1>1
    <3>3. \A k \in j + 1 .. n + 1 - 1 : k \in j + 1 .. n + 2 - 1 /\ more[k] = us[k]
      BY <1>1
    <3> QED
      BY <1>1, <1>4, <3>1, <3>2, <3>3 DEF Deciding
  <2>3. Deciding(us, n + 1, f) \subseteq 1 .. n
    BY <1>1 DEF Deciding
  <2>4. Deciding(more, n + 2, f) = Deciding(us, n + 1, f)
    BY <2>1, <2>2, <2>3
  <2>5. CASE Deciding(us, n + 1, f) = {}
    BY <1>1, <2>4, <2>5 DEF ValueBefore
  <2>6. CASE Deciding(us, n + 1, f) # {}
    <3> DEFINE last == CHOOSE j \in Deciding(us, n + 1, f) : TRUE
    <3>1. last \in 1 .. n
      BY <2>3, <2>6
    <3>2. ValueBefore(tree, more, n + 2, f) =
            more[CHOOSE j \in Deciding(more, n + 2, f) : TRUE].val
      BY <2>4, <2>6 DEF ValueBefore
    <3>3. (CHOOSE j \in Deciding(more, n + 2, f) : TRUE) = last
      BY <2>4
    <3>4. ValueBefore(tree, us, n + 1, f) = us[last].val
      BY <2>6 DEF ValueBefore
    <3> HIDE DEF last
    <3> QED
      BY <1>1, <3>1, <3>2, <3>3, <3>4
  <2> QED
    BY <2>5, <2>6
<1> QED
  BY <1>2, <1>3, <1>4 DEF ApplyTo, more, n

(* There are trees, with and without commits.                              *)
LEMMA TreeOfType ==
  ASSUME TypeOK, NEW c \in 0 .. Len(versions)
  PROVE  Store!TreeOf(c) \in Trees
<1>1. CASE c = 0
  BY <1>1, SameData DEF Store!TreeOf, EmptyTree, Trees, Values
<1>2. CASE c # 0
  <2>1. versions \in Seq([parent: Nat, tree: Trees]) /\ c \in 1 .. Len(versions)
    BY <1>2 DEF TypeOK
  <2>2. versions[c] \in [parent: Nat, tree: Trees]
    BY <2>1, ElementOfSeq
  <2> QED
    BY <1>2, <2>2 DEF Store!TreeOf
<1> QED
  BY <1>1, <1>2

(* A transaction, when there is one, has a transaction's fields.           *)
LEMMA TxnFields ==
  ASSUME GreensInv, NEW a \in Agents, txn[a] # NoTxn
  PROVE  /\ txn[a] \in Txns
         /\ txn[a].branch \in Branches /\ txn[a].delta \in Seq(Updates)
         /\ txn[a].base \in 0 .. Len(versions)
         /\ head[txn[a].branch] \in 0 .. Len(versions)
<1>1. txn[a] \in Txns
  BY DEF GreensInv, TypeOK
<1>2. txn[a].branch \in Branches /\ txn[a].delta \in Seq(Updates) /\ txn[a].base \in Nat
  BY <1>1 DEF Txns
<1>3. txn[a].base =< Len(versions) /\ Len(versions) \in Nat
  BY DEF GreensInv, TypeOK, AgentInv
<1> QED
  BY <1>1, <1>2, <1>3 DEF GreensInv, TypeOK

-------------------------------------------------------------------------------
(* What a step of one agent leaves alone. *)

(* Agent a is at most one further, with transaction t.                     *)
Becomes(a, r, t) == agent' = [agent EXCEPT ![a] = r] /\ txn' = [txn EXCEPT ![a] = t]

(* Nobody but a gets or loses a mutex, the store only grows, a lost agent  *)
(* stays lost, and nobody moves the branch of one who is at the tip.       *)
Frame(a) ==
  /\ \A u \in Agents \ {a} :
       /\ agent'[u] = agent[u] /\ txn'[u] = txn[u]
       /\ criticalsection = u => criticalsection' = u
       /\ branchCreation = u => branchCreation' = u
       /\ At(u, "tip") => versions' = versions
                          /\ head'[txn[u].branch] = head[txn[u].branch]
  /\ txn[a] = NoTxn /\ agent[a].branch # Main =>
       txn'[a] = NoTxn /\ agent'[a].branch = agent[a].branch
  /\ ok' => ok
  /\ Len(versions') >= Len(versions)
  /\ \A c \in 1 .. Len(versions) : versions'[c] = versions[c]
  /\ \A b \in Branches : head[b] # 0 => head'[b] # 0

(* Under these conditions the other agents have what they had.             *)
LEMMA OthersKeep ==
  ASSUME GreensInv, TypeOK', NEW a \in Agents, Frame(a), NEW u \in Agents, u # a
  PROVE  AgentInv(u)'
<1>1. /\ agent'[u] = agent[u] /\ txn'[u] = txn[u] /\ AgentInv(u)
      /\ At(u, "tip") => versions' = versions
                         /\ head'[txn[u].branch] = head[txn[u].branch]
  BY DEF Frame, GreensInv
<1>2. versions' = << >> => versions = << >>
  BY DEF Frame, GreensInv, TypeOK
<1>3. txn[u] # NoTxn => /\ txn[u].base \in 0 .. Len(versions)
                       /\ txn[u].base =< Len(versions')
  BY TxnFields DEF Frame, GreensInv, TypeOK
<1>4. txn[u] # NoTxn => Store!TreeOf(txn[u].base)' = Store!TreeOf(txn[u].base)
  BY <1>1, <1>3, SameData DEF Store!TreeOf, Frame, GreensInv, TypeOK
<1>5. At(u, "select") =>
        \/ head'[agent[u].branch] # 0
        \/ \E w \in Agents : txn'[w] = NoTxn /\ agent'[w].branch = agent[u].branch
  <2> SUFFICES ASSUME At(u, "select"), head[agent[u].branch] = 0
               PROVE  \E w \in Agents : txn'[w] = NoTxn /\ agent'[w].branch = agent[u].branch
    BY DEF Frame, GreensInv, TypeOK, AgentRecords
  <2>1. PICK w \in Agents : txn[w] = NoTxn /\ agent[w].branch = agent[u].branch
    BY <1>1 DEF AgentInv
  <2>2. agent[u].branch # Main
    BY <1>1 DEF GreensInv, RecordInv, AgentInv, At
  <2> QED
    BY <2>1, <2>2 DEF Frame
<1>6. /\ agent[u].pc \in {"entered", "late", "tip", "committed"} => criticalsection' = u
      /\ agent[u].pc \in {"name", "create", "select", "rebase"} => branchCreation' = u
  BY <1>1 DEF Frame, AgentInv
<1>7. /\ agent[u].pc \in {"late", "pick", "name", "create", "select", "rebase"} => versions' # << >>
      /\ txn[u] # NoTxn /\ versions' = << >> => txn[u].branch = Main
      /\ At(u, "tip") => /\ txn[u].base = head'[txn[u].branch]
                         /\ txn[u].base = 0 => versions' = << >>
  BY <1>1, <1>2 DEF AgentInv
<1>8. ok' => ok
  BY DEF Frame
<1>9. agent[u].pc \in {"ops", "entered", "tip", "committed"} => txn[u] # NoTxn
  BY <1>1 DEF AgentInv
<1>10. ok' /\ ~agent[u].astray =>
       /\ agent[u].pc \in {"ops", "entered", "tip"} =>
            agent[u].elems = ApplyTo(Store!TreeOf(txn[u].base)', txn[u].delta)
       /\ At(u, "committed") => agent[u].elems = Store!TreeOf(txn[u].base)'
       /\ agent[u].pc \in {"round", "props", "reading", "late", "switch", "pick", "name",
                           "create", "select", "rebase"} =>
            txn[u] = NoTxn \/ txn[u].delta = << >>
  BY <1>1, <1>4, <1>8, <1>9 DEF AgentInv, At
<1>11. /\ At(u, "tip")' = At(u, "tip") /\ At(u, "select")' = At(u, "select")
       /\ At(u, "committed")' = At(u, "committed") /\ At(u, "round")' = At(u, "round")
       /\ At(u, "props")' = At(u, "props")
  BY <1>1 DEF At
<1>12. Store!TreeOf(txn[u].base)' = IF txn[u].base = 0 THEN Store!EmptyTree ELSE versions'[txn[u].base].tree
  BY <1>1 DEF Store!TreeOf
<1> QED
  BY <1>1, <1>3, <1>5, <1>6, <1>7, <1>10, <1>11, <1>12 DEF AgentInv

(* Steps that commit nothing and record nothing: agent a goes on, and may  *)
(* take a free mutex or release its own.                                   *)
Keeps(a, r, t) ==
  /\ Becomes(a, r, t)
  /\ UNCHANGED <<versions, head, commits, branches>>
  /\ ok' \in BOOLEAN /\ (ok' => ok)
  /\ names' \subseteq Files /\ waiting' \subseteq Agents
  /\ \/ criticalsection' = criticalsection
     \/ criticalsection = NoAgent /\ criticalsection' = a
     \/ criticalsection = a /\ criticalsection' = NoAgent
  /\ \/ branchCreation' = branchCreation
     \/ branchCreation = NoAgent /\ branchCreation' = a
     \/ branchCreation = a /\ branchCreation' = NoAgent
  /\ ~At(a, "committed")
  /\ At(a, "create") \/ (txn[a] = NoTxn /\ agent[a].branch # Main) =>
       t = NoTxn /\ r.branch = agent[a].branch

(* What becomes of agent and transaction, one by one.                      *)
LEMMA OneMoves ==
  ASSUME GreensInv, NEW a \in Agents, NEW r, NEW t, Becomes(a, r, t)
  PROVE  /\ agent'[a] = r /\ txn'[a] = t
         /\ \A u \in Agents \ {a} : agent'[u] = agent[u] /\ txn'[u] = txn[u]
<1>1. agent \in [Agents -> AgentRecords] /\ txn \in [Agents -> Txns \union {NoTxn}]
  BY DEF GreensInv, TypeOK
<1> QED
  BY <1>1 DEF Becomes

(* Such a step keeps the invariant if agent a does.                        *)
LEMMA Quiet ==
  ASSUME GreensInv, NEW a \in Agents, NEW r \in AgentRecords, NEW t \in Txns \union {NoTxn},
         Keeps(a, r, t), AgentInv(a)'
  PROVE  GreensInv'
<1>1. /\ agent'[a] = r /\ txn'[a] = t
      /\ \A u \in Agents \ {a} : agent'[u] = agent[u] /\ txn'[u] = txn[u]
  BY OneMoves DEF Keeps
<1>2. TypeOK'
  <2>1. agent' \in [Agents -> AgentRecords] /\ txn' \in [Agents -> Txns \union {NoTxn}]
    BY DEF Keeps, Becomes, GreensInv, TypeOK
  <2> QED
    BY <2>1 DEF Keeps, GreensInv, TypeOK
<1>3. Frame(a)
  BY <1>1, AgentAssumption DEF Keeps, Frame, GreensInv, TypeOK
<1>4. \A u \in Agents : AgentInv(u)'
  BY <1>2, <1>3, OthersKeep
<1>5. RecordInv'
  <2>1. isEmpty /\ versions # << >> => \E u \in Agents : At(u, "committed")'
    BY <1>1 DEF GreensInv, RecordInv, Keeps, At
  <2>2. ASSUME NEW b \in branches \ {Main}
        PROVE  \/ head[b] # 0
               \/ \E u \in Agents : agent'[u].branch = b /\ (At(u, "create")' \/ txn'[u] = NoTxn)
    <3>1. CASE head[b] # 0
      BY <3>1
    <3>2. CASE \E u \in Agents : agent[u].branch = b /\ (At(u, "create") \/ txn[u] = NoTxn)
      <4>1. PICK u \in Agents : agent[u].branch = b /\ (At(u, "create") \/ txn[u] = NoTxn)
        BY <3>2
      <4>2. CASE u = a
        BY <1>1, <4>1, <4>2 DEF Keeps
      <4>3. CASE u # a
        BY <1>1, <4>1, <4>3 DEF At
      <4> QED
        BY <4>2, <4>3
    <3> QED
      BY <3>1, <3>2 DEF GreensInv, RecordInv
  <2> QED
    BY <2>1, <2>2 DEF GreensInv, RecordInv, Keeps, isEmpty, At
<1>6. RecordAgrees'
  BY DEF GreensInv, RecordAgrees, Keeps
<1> QED
  BY <1>2, <1>4, <1>5, <1>6 DEF GreensInv

-------------------------------------------------------------------------------
(* The rounds. *)

(* What agent a and its transaction are before a step.                     *)
LEMMA Before ==
  ASSUME GreensInv, NEW a \in Agents
  PROVE  /\ agent[a] \in AgentRecords /\ txn[a] \in Txns \union {NoTxn} /\ AgentInv(a)
         /\ agent[a].pc \in Places /\ agent[a].round \in 0 .. NumCommits
         /\ agent[a].ops \in 0 .. NumOps /\ agent[a].elems \in Trees
         /\ agent[a].astray \in BOOLEAN /\ agent[a].branch \in Branches
         /\ ok \in BOOLEAN /\ names \subseteq Files /\ waiting \subseteq Agents
         /\ Len(versions) \in Nat /\ (versions = << >> <=> Len(versions) = 0)
         /\ head \in [Branches -> 0 .. Len(versions)]
  BY DEF GreensInv, TypeOK, AgentRecords

(* An agent that goes to another place.                                    *)
LEMMA Goes ==
  ASSUME NEW rec \in AgentRecords, NEW pc \in Places
  PROVE  LET r == [rec EXCEPT !.pc = pc] IN
         /\ r \in AgentRecords
         /\ r.pc = pc /\ r.round = rec.round /\ r.ops = rec.ops /\ r.elems = rec.elems
         /\ r.astray = rec.astray /\ r.branch = rec.branch
  BY DEF AgentRecords

(* What is recorded was committed.                                         *)
LEMMA SomeCommit ==
  ASSUME GreensInv, ~isEmpty
  PROVE  versions # << >>
<1>1. DOMAIN commits \subseteq DOMAIN versions
  BY DEF GreensInv, TypeOK
<1>2. versions = << >> => DOMAIN versions = {}
  OBVIOUS
<1> QED
  BY <1>1, <1>2 DEF isEmpty

(* A step that leaves the store alone.                                     *)
LEMMA Walk ==
  ASSUME GreensInv, NEW a \in Agents, NEW r \in AgentRecords,
         agent' = [agent EXCEPT ![a] = r], UNCHANGED store
  PROVE  /\ Becomes(a, r, txn[a])
         /\ agent'[a] = r /\ txn'[a] = txn[a] /\ versions' = versions /\ head' = head
         /\ \A u \in Agents \ {a} : agent'[u] = agent[u]
  BY DEF GreensInv, TypeOK, Becomes, store

(* Start: selectRepository.                                                *)
LEMMA StartKeeps ==
  ASSUME GreensInv, NEW a \in Agents, Start(a)
  PROVE  GreensInv'
<1> DEFINE r == [agent[a] EXCEPT !.pc = "round"]
           t == Store!Txn(Main, head[Main], << >>)
<1>1. r \in AgentRecords /\ r.pc = "round" /\ r.branch = agent[a].branch
  <2>1. "round" \in Places
    BY DEF Places
  <2> QED
    BY <2>1, Before, Goes
<1>2. /\ t \in Txns /\ t # NoTxn
      /\ t.branch = Main /\ t.base \in 0 .. Len(versions) /\ t.delta = << >>
  <2>1. Main \in Branches /\ head[Main] \in 0 .. Len(versions) /\ Len(versions) \in Nat
    BY Before, AgentAssumption
  <2>2. head[Main] \in Nat /\ << >> \in Seq(Updates)
    BY <2>1
  <2>3. t.branch = Main /\ t.base = head[Main] /\ t.delta = << >>
    BY DEF Store!Txn
  <2>4. t \in Txns
    BY <2>1, <2>2 DEF Store!Txn, Txns
  <2> QED
    BY <2>1, <2>3, <2>4, TxnAssumption
<1> HIDE DEF r, t
<1>3. /\ Becomes(a, r, t) /\ UNCHANGED <<versions, head, mutexes, record, names>>
      /\ At(a, "start") /\ agent[a].branch = Main
  <2>1. /\ Becomes(a, r, t) /\ UNCHANGED <<versions, head, mutexes, record, names>>
        /\ At(a, "start")
    BY DEF Start, Goto, Store!Begin, Becomes, r, t
  <2>2. agent[a].branch = Main
    BY <2>1, Before DEF AgentInv, At
  <2> QED
    BY <2>1, <2>2
<1>4. Keeps(a, r, t)
  BY <1>3, Before DEF Keeps, mutexes, record, At, AgentInv
<1>5. agent'[a] = r /\ txn'[a] = t
  BY <1>3, OneMoves
<1>6. AgentInv(a)'
  BY <1>1, <1>2, <1>3, <1>5, Before, AgentAssumption DEF AgentInv, At
<1> QED
  BY <1>1, <1>2, <1>4, <1>6, Quiet

(* A step that leaves the store, the mutexes and the record alone, of an   *)
(* agent that has recorded its commit and is not about to create a branch. *)
LEMMA Strolls ==
  ASSUME GreensInv, NEW a \in Agents, NEW r \in AgentRecords,
         agent' = [agent EXCEPT ![a] = r], UNCHANGED <<store, mutexes, record, names>>,
         ~At(a, "committed"), ~At(a, "create"),
         r.branch = agent[a].branch \/ txn[a] # NoTxn \/ agent[a].branch = Main,
         AgentInv(a)'
  PROVE  GreensInv'
<1>1. Becomes(a, r, txn[a]) /\ versions' = versions /\ head' = head
  BY Walk
<1>2. Keeps(a, r, txn[a])
  BY <1>1, Before DEF Keeps, mutexes, record, store
<1> QED
  BY <1>2, Before, Quiet

(* Round: nothing is expected yet.                                         *)
LEMMA RoundKeeps ==
  ASSUME GreensInv, NEW a \in Agents, Round(a)
  PROVE  GreensInv'
<1> DEFINE r == [agent[a] EXCEPT !.pc = "props", !.round = agent[a].round + 1,
                                 !.ops = NumOps, !.elems = EmptyTree]
<1>1. /\ At(a, "round") /\ txn[a] # NoTxn /\ agent[a].round < NumCommits
      /\ agent' = [agent EXCEPT ![a] = r] /\ UNCHANGED <<store, mutexes, record, names>>
  BY DEF Round
<1>2. /\ r \in AgentRecords /\ r.pc = "props" /\ r.round > 0 /\ r.elems = EmptyTree
      /\ r.branch = agent[a].branch /\ r.astray = agent[a].astray
  <2>1. EmptyTree \in Trees /\ "props" \in Places
    BY DEF EmptyTree, Trees, Values, Places
  <2>2. agent[a].round + 1 \in 0 .. NumCommits /\ agent[a].round + 1 > 0 /\ NumOps \in 0 .. NumOps
    BY <1>1, Before, NumAssumption
  <2> QED
    BY <2>1, <2>2, Before DEF AgentRecords
<1> HIDE DEF r
<1>3. agent'[a] = r /\ txn'[a] = txn[a] /\ versions' = versions /\ head' = head
  BY <1>1, <1>2, Walk
<1>4. AgentInv(a)'
  BY <1>1, <1>2, <1>3, Before DEF AgentInv, At, record
<1> QED
  BY <1>1, <1>2, <1>4, Strolls DEF At

(* Props: without a parent, nothing is what the commit will add to.        *)
LEMMA PropsKeep ==
  ASSUME GreensInv, NEW a \in Agents, Props(a)
  PROVE  GreensInv'
<1> DEFINE pc == IF txn[a].base = 0 THEN "ops" ELSE "reading"
           r == [agent[a] EXCEPT !.pc = pc]
<1>1. /\ At(a, "props") /\ agent' = [agent EXCEPT ![a] = r]
      /\ UNCHANGED <<store, mutexes, record, names>>
  BY DEF Props, Goto
<1>2. pc \in {"ops", "reading"} /\ (pc = "ops" => txn[a].base = 0)
  OBVIOUS
<1>3. /\ r \in AgentRecords /\ r.pc = pc /\ r.round = agent[a].round
      /\ r.elems = agent[a].elems /\ r.astray = agent[a].astray /\ r.branch = agent[a].branch
  <2>1. pc \in Places
    BY <1>2 DEF Places
  <2> HIDE DEF pc
  <2> QED
    BY <2>1, Before, Goes
<1> HIDE DEF r, pc
<1>4. agent'[a] = r /\ txn'[a] = txn[a] /\ versions' = versions /\ head' = head
  BY <1>1, <1>3, Walk
<1>5. /\ txn[a] # NoTxn /\ agent[a].branch = Main /\ agent[a].round > 0
      /\ agent[a].elems = EmptyTree
      /\ ok /\ ~agent[a].astray => txn[a].delta = << >>
  BY <1>1, Before DEF AgentInv, At
<1>6. pc = "ops" /\ ok /\ ~agent[a].astray =>
        r.elems = ApplyTo(Store!TreeOf(txn[a].base), txn[a].delta)
  <2>1. EmptyTree \in Trees
    BY DEF EmptyTree, Trees, Values
  <2> QED
    BY <1>2, <1>3, <1>5, <2>1, ApplyNothing, SameData DEF Store!TreeOf
<1>7. /\ txn[a].base =< Len(versions) /\ (versions = << >> => txn[a].branch = Main)
  BY <1>5, Before DEF AgentInv
<1>8. AgentInv(a)'
  BY <1>1, <1>2, <1>3, <1>4, <1>5, <1>6, <1>7 DEF AgentInv, At, record, Store!TreeOf
<1> QED
  BY <1>1, <1>3, <1>8, Strolls DEF At

(* Elems: what is expected is taken over from the record of the parent.    *)
LEMMA ElemsKeep ==
  ASSUME GreensInv, NEW a \in Agents, Elems(a)
  PROVE  GreensInv'
<1> DEFINE base == txn[a].base
           elems == commits[base].elems
           astray == agent[a].astray \/ commits[base].astray
           r == [agent[a] EXCEPT !.pc = "ops", !.elems = elems, !.astray = astray]
<1>1. /\ At(a, "reading") /\ base \in DOMAIN commits
      /\ agent' = [agent EXCEPT ![a] = r] /\ UNCHANGED <<store, mutexes, record, names>>
  BY DEF Elems
<1>2. /\ txn[a] # NoTxn /\ agent[a].branch = Main /\ agent[a].round > 0
      /\ base \in 0 .. Len(versions) /\ txn[a].delta \in Seq(Updates)
      /\ versions = << >> => txn[a].branch = Main
      /\ ok /\ ~agent[a].astray => txn[a].delta = << >>
  BY <1>1, TxnFields, Before DEF AgentInv, At
<1>3. elems \in Trees /\ astray \in BOOLEAN /\ base # 0
  BY <1>1 DEF GreensInv, TypeOK
<1>4. /\ r \in AgentRecords /\ r.pc = "ops" /\ r.round = agent[a].round
      /\ r.elems = elems /\ r.astray = astray /\ r.branch = agent[a].branch
  <2>1. "ops" \in Places
    BY DEF Places
  <2> HIDE DEF elems, astray
  <2> QED
    BY <1>3, <2>1, Before DEF AgentRecords
<1>5. ok /\ ~astray => elems = ApplyTo(Store!TreeOf(base), txn[a].delta)
  <2> SUFFICES ASSUME ok, ~astray
               PROVE  elems = ApplyTo(Store!TreeOf(base), txn[a].delta)
    OBVIOUS
  <2>1. elems = Store!TreeOf(base)
    BY <1>1, <1>3 DEF GreensInv, RecordAgrees, Store!TreeOf
  <2> QED
    BY <1>2, <2>1, TreeOfType, ApplyNothing DEF GreensInv
<1> HIDE DEF r, elems, astray
<1>6. agent'[a] = r /\ txn'[a] = txn[a] /\ versions' = versions /\ head' = head
  BY <1>1, <1>4, Walk
<1>7. AgentInv(a)'
  BY <1>1, <1>2, <1>4, <1>5, <1>6 DEF AgentInv, At, record, Store!TreeOf
<1> QED
  BY <1>1, <1>4, <1>7, Strolls DEF At

(* NoElems: the agent is stuck.                                            *)
LEMMA NoElemsKeep ==
  ASSUME GreensInv, NEW a \in Agents, NoElems(a)
  PROVE  GreensInv'
<1> DEFINE r == [agent[a] EXCEPT !.pc = "spoilt"]
<1>1. /\ At(a, "reading") /\ agent' = [agent EXCEPT ![a] = r]
      /\ UNCHANGED <<store, mutexes, record, names>>
  BY DEF NoElems, Goto
<1>2. r \in AgentRecords /\ r.pc = "spoilt" /\ r.branch = agent[a].branch
  <2>1. "spoilt" \in Places
    BY DEF Places
  <2> QED
    BY <2>1, Before, Goes
<1> HIDE DEF r
<1>3. agent'[a] = r /\ txn'[a] = txn[a] /\ versions' = versions /\ head' = head
  BY <1>1, <1>2, Walk
<1>4. AgentInv(a)'
  BY <1>1, <1>2, <1>3, Before DEF AgentInv, At
<1> QED
  BY <1>1, <1>2, <1>4, Strolls DEF At

(* Wait: the agent stays where it is.                                      *)
LEMMA WaitKeeps ==
  ASSUME GreensInv, NEW a \in Agents, Wait(a)
  PROVE  GreensInv'
<1>1. /\ UNCHANGED <<store, agent, criticalsection, branchCreation, record, names>>
      /\ waiting' \subseteq Agents
  BY Before DEF Wait
<1>2. TypeOK'
  BY <1>1 DEF GreensInv, TypeOK, store, record
<1>3. \A u \in Agents : AgentInv(u)'
  BY <1>1 DEF GreensInv, AgentInv, At, store, record, Store!TreeOf
<1>4. RecordInv' /\ RecordAgrees'
  BY <1>1 DEF GreensInv, RecordInv, RecordAgrees, isEmpty, At, store, record
<1> QED
  BY <1>2, <1>3, <1>4 DEF GreensInv

(* Return.                                                                 *)
LEMMA ReturnKeeps ==
  ASSUME GreensInv, NEW a \in Agents, Return(a)
  PROVE  GreensInv'
<1> DEFINE r == [agent[a] EXCEPT !.pc = "done"]
<1>1. r \in AgentRecords /\ r.pc = "done" /\ r.branch = agent[a].branch
  BY Before DEF AgentRecords, Places
<1>2. agent' = [agent EXCEPT ![a] = r] /\ UNCHANGED <<store, mutexes, record, names>>
      /\ At(a, "round")
  BY DEF Return, Goto
<1> HIDE DEF r
<1>3. /\ Becomes(a, r, txn[a])
      /\ agent'[a] = r /\ txn'[a] = txn[a] /\ versions' = versions /\ head' = head
  BY <1>1, <1>2, Walk
<1>4. Keeps(a, r, txn[a])
  BY <1>1, <1>2, <1>3, Before DEF Keeps, mutexes, record, At
<1>5. AgentInv(a)'
  BY <1>1, <1>3, Before DEF AgentInv, At
<1> QED
  BY <1>1, <1>4, <1>5, Before, Quiet

(* An operation is expected of the next commit as it is collected for it.  *)
LEMMA OperateKeeps ==
  ASSUME GreensInv, NEW a \in Agents, NEW u \in Updates,
         At(a, "ops"), agent[a].ops > 0, Operate(a, u), names' \subseteq Files
  PROVE  GreensInv'
<1> DEFINE elems == [agent[a].elems EXCEPT ![u.file] = u.val]
           r == [agent[a] EXCEPT !.ops = agent[a].ops - 1, !.elems = elems]
           t == [txn[a] EXCEPT !.delta = Append(txn[a].delta, u)]
<1>1. /\ txn[a] # NoTxn /\ txn[a] \in Txns /\ txn[a].base \in 0 .. Len(versions)
      /\ txn[a].delta \in Seq(Updates)
  BY TxnFields, Before DEF AgentInv, At
<1>2. elems \in Trees
  BY Before DEF Trees, Updates
<1>3. /\ r \in AgentRecords /\ r.pc = "ops" /\ r.round = agent[a].round
      /\ r.elems = elems /\ r.astray = agent[a].astray /\ r.branch = agent[a].branch
  <2>1. agent[a].ops - 1 \in 0 .. NumOps
    BY Before, NumAssumption
  <2> HIDE DEF elems
  <2> QED
    BY <1>2, <2>1, Before DEF AgentRecords, At
<1>4. Append(txn[a].delta, u) \in Seq(Updates)
  BY <1>1, Appending
<1>5. /\ t \in Txns /\ t.branch = txn[a].branch /\ t.base = txn[a].base
      /\ t.delta = Append(txn[a].delta, u)
  BY <1>1, <1>4 DEF Txns
<1>6. t # NoTxn
  BY <1>5, TxnAssumption
<1>7. Becomes(a, r, t) /\ UNCHANGED <<versions, head, mutexes, record>>
  BY DEF Operate, Store!Edit, Becomes
<1> HIDE DEF r, t
<1>8. Keeps(a, r, t)
  BY <1>1, <1>7, Before DEF Keeps, mutexes, record, At
<1>9. agent'[a] = r /\ txn'[a] = t
  BY <1>7, OneMoves
<1>10. ok' /\ ~r.astray => r.elems = ApplyTo(Store!TreeOf(t.base), t.delta)
  <2> SUFFICES ASSUME ok', ~r.astray
               PROVE  elems = ApplyTo(Store!TreeOf(txn[a].base), Append(txn[a].delta, u))
    BY <1>3, <1>5
  <2>1. agent[a].elems = ApplyTo(Store!TreeOf(txn[a].base), txn[a].delta)
    BY <1>3, <1>7, Before DEF AgentInv, At, record
  <2>2. Store!TreeOf(txn[a].base) \in Trees
    BY <1>1, TreeOfType DEF GreensInv
  <2> QED
    BY <1>1, <2>1, <2>2, ApplyOneMore
<1> HIDE DEF elems
<1>11. AgentInv(a)'
  BY <1>1, <1>3, <1>5, <1>6, <1>7, <1>9, <1>10, Before DEF AgentInv, At, Store!TreeOf
<1> QED
  BY <1>3, <1>5, <1>8, <1>11, Quiet

(* Create, Update and Delete, each an Operate.                             *)
LEMMA OpsKeep ==
  ASSUME GreensInv, NEW a \in Agents, NEW f \in Files,
         (\E v \in Contents : Create(a, f, v) \/ Update(a, f, v)) \/ Delete(a, f)
  PROVE  GreensInv'
<1>1. /\ \A v \in Contents : [file |-> f, val |-> v] \in Updates
      /\ [file |-> f, val |-> Absent] \in Updates
      /\ names \union {f} \subseteq Files
  BY Before DEF Updates, Values
<1>2. ASSUME NEW v \in Contents, Create(a, f, v)
      PROVE  GreensInv'
  BY <1>1, <1>2, OperateKeeps DEF Create, Operates
<1>3. ASSUME NEW v \in Contents, Update(a, f, v)
      PROVE  GreensInv'
  BY <1>1, <1>3, Before, OperateKeeps DEF Update, Operates
<1>4. CASE Delete(a, f)
  BY <1>1, <1>4, Before, OperateKeeps DEF Delete, Operates
<1> QED
  BY <1>2, <1>3, <1>4

(* An operation that collects nothing.                                     *)
LEMMA NothingKeeps ==
  ASSUME GreensInv, NEW a \in Agents, Nothing(a)
  PROVE  GreensInv'
<1> DEFINE r == [agent[a] EXCEPT !.ops = agent[a].ops - 1]
<1>1. At(a, "ops") /\ agent[a].ops > 0 /\ UNCHANGED <<store, mutexes, record, names>>
  BY DEF Nothing, Operates
<1>2. /\ r \in AgentRecords /\ r.pc = "ops" /\ r.round = agent[a].round
      /\ r.elems = agent[a].elems /\ r.astray = agent[a].astray
      /\ r.branch = agent[a].branch
  <2>1. agent[a].ops - 1 \in 0 .. NumOps
    BY <1>1, Before, NumAssumption
  <2> QED
    BY <1>1, <2>1, Before DEF AgentRecords, At
<1>3. agent' = [agent EXCEPT ![a] = r]
  BY DEF Nothing
<1> HIDE DEF r
<1>4. /\ Becomes(a, r, txn[a])
      /\ agent'[a] = r /\ txn'[a] = txn[a] /\ versions' = versions /\ head' = head
  BY <1>1, <1>2, <1>3, Walk
<1>5. Keeps(a, r, txn[a])
  BY <1>1, <1>2, <1>4, Before DEF Keeps, mutexes, record, store, At, AgentInv
<1>6. AgentInv(a)'
  BY <1>1, <1>2, <1>4, Before DEF AgentInv, At, record, Store!TreeOf
<1> QED
  BY <1>2, <1>5, <1>6, Before, Quiet

(* Skip: what stays collected makes the agent go astray.                   *)
LEMMA SkipKeeps ==
  ASSUME GreensInv, NEW a \in Agents, Skip(a)
  PROVE  GreensInv'
<1> DEFINE astray == txn[a].delta # << >>
           r == [agent[a] EXCEPT !.pc = "switch", !.astray = astray]
<1>1. /\ At(a, "ops") /\ agent' = [agent EXCEPT ![a] = r]
      /\ UNCHANGED <<store, mutexes, record, names>>
  BY DEF Skip
<1>2. /\ r \in AgentRecords /\ r.pc = "switch" /\ r.astray = astray
      /\ r.branch = agent[a].branch
  <2>1. "switch" \in Places /\ astray \in BOOLEAN
    BY DEF Places
  <2> HIDE DEF astray
  <2> QED
    BY <2>1, Before DEF AgentRecords
<1> HIDE DEF r
<1>3. agent'[a] = r /\ txn'[a] = txn[a] /\ versions' = versions /\ head' = head
  BY <1>1, <1>2, Walk
<1>4. AgentInv(a)'
  BY <1>1, <1>2, <1>3, Before DEF AgentInv, At
<1> QED
  BY <1>1, <1>2, <1>4, Strolls DEF At

-------------------------------------------------------------------------------
(* The critical section. *)

(* Enter: only a free mutex is taken.                                      *)
LEMMA EnterKeeps ==
  ASSUME GreensInv, NEW a \in Agents, Enter(a)
  PROVE  GreensInv'
<1> DEFINE r == [agent[a] EXCEPT !.pc = "entered"]
<1>1. /\ r \in AgentRecords /\ r.pc = "entered" /\ r.round = agent[a].round
      /\ r.elems = agent[a].elems /\ r.astray = agent[a].astray
      /\ r.branch = agent[a].branch
  <2>1. "entered" \in Places
    BY DEF Places
  <2> QED
    BY <2>1, Before, Goes
<1>2. /\ agent' = [agent EXCEPT ![a] = r] /\ UNCHANGED <<store, branchCreation, waiting, record, names>>
      /\ At(a, "ops")
  BY DEF Enter, Goto
<1> HIDE DEF r
<1>3. /\ Becomes(a, r, txn[a])
      /\ agent'[a] = r /\ txn'[a] = txn[a] /\ versions' = versions /\ head' = head
  BY <1>1, <1>2, Walk
<1>4. Keeps(a, r, txn[a])
  BY <1>1, <1>2, <1>3, Before DEF Keeps, mutexes, record, store, At, AgentInv, Enter
<1>5. AgentInv(a)'
  BY <1>1, <1>2, <1>3, Before DEF AgentInv, At, record, Store!TreeOf, Enter
<1> QED
  BY <1>1, <1>4, <1>5, Before, Quiet

(* No commit is under way when somebody is in the critical section, so no  *)
(* record means no commit.                                                 *)
LEMMA EmptyIsEmpty ==
  ASSUME GreensInv, NEW a \in Agents, At(a, "entered"), isEmpty
  PROVE  versions = << >>
<1>1. SUFFICES ASSUME NEW u \in Agents, At(u, "committed")
               PROVE  FALSE
  BY DEF GreensInv, RecordInv
<1>2. criticalsection = a /\ criticalsection = u
  BY <1>1, Before DEF AgentInv, At
<1> QED
  BY <1>1, <1>2 DEF At

(* AtTip: what isTip() has seen, or isEmpty().                             *)
LEMMA AtTipKeeps ==
  ASSUME GreensInv, NEW a \in Agents, AtTip(a)
  PROVE  GreensInv'
<1> DEFINE r == [agent[a] EXCEPT !.pc = "tip"]
<1>1. /\ r \in AgentRecords /\ r.pc = "tip" /\ r.round = agent[a].round
      /\ r.elems = agent[a].elems /\ r.astray = agent[a].astray
      /\ r.branch = agent[a].branch
  <2>1. "tip" \in Places
    BY DEF Places
  <2> QED
    BY <2>1, Before, Goes
<1>2. /\ agent' = [agent EXCEPT ![a] = r] /\ UNCHANGED <<store, mutexes, record, names>>
      /\ At(a, "entered")
  BY DEF AtTip, Goto
<1> HIDE DEF r
<1>3. /\ Becomes(a, r, txn[a])
      /\ agent'[a] = r /\ txn'[a] = txn[a] /\ versions' = versions /\ head' = head
  BY <1>1, <1>2, Walk
<1>4. txn[a] # NoTxn
  BY <1>2, Before DEF AgentInv, At
<1>5. txn[a].base = head[txn[a].branch] /\ (txn[a].base = 0 => versions = << >>)
  <2>1. txn[a].base \in 0 .. Len(versions) /\ head[txn[a].branch] \in 0 .. Len(versions)
    BY <1>4, TxnFields
  <2>2. CASE isEmpty
    BY <1>2, <2>1, <2>2, EmptyIsEmpty
  <2>3. CASE isTip(a)
    BY <2>3 DEF isTip
  <2> QED
    BY <2>2, <2>3 DEF AtTip
<1>6. Keeps(a, r, txn[a])
  BY <1>1, <1>2, <1>3, <1>4, Before DEF Keeps, mutexes, record, store, At
<1>7. AgentInv(a)'
  BY <1>1, <1>2, <1>3, <1>5, Before DEF AgentInv, At, record, mutexes, Store!TreeOf
<1> QED
  BY <1>1, <1>6, <1>7, Before, Quiet

(* TakeBack: nothing is collected, nothing expected.                       *)
LEMMA TakeBackKeeps ==
  ASSUME GreensInv, NEW a \in Agents, TakeBack(a)
  PROVE  GreensInv'
<1> DEFINE r == [agent[a] EXCEPT !.pc = "late", !.elems = EmptyTree, !.astray = FALSE]
           t == [txn[a] EXCEPT !.delta = << >>]
<1>1. At(a, "entered") /\ UNCHANGED <<mutexes, record, names>> /\ versions # << >>
  BY SomeCommit DEF TakeBack
<1>2. txn[a] # NoTxn /\ txn[a] \in Txns /\ txn[a].base \in 0 .. Len(versions)
  BY <1>1, TxnFields, Before DEF AgentInv, At
<1>3. /\ r \in AgentRecords /\ r.pc = "late" /\ r.round = agent[a].round
      /\ r.branch = agent[a].branch
  <2>1. EmptyTree \in Trees /\ "late" \in Places
    BY DEF EmptyTree, Trees, Values, Places
  <2> QED
    BY <2>1, Before DEF AgentRecords
<1>4. /\ t \in Txns /\ t.branch = txn[a].branch /\ t.base = txn[a].base /\ t.delta = << >>
  <2>1. << >> \in Seq(Updates)
    OBVIOUS
  <2> QED
    BY <1>2, <2>1 DEF Txns
<1>5. t # NoTxn
  BY <1>4, TxnAssumption
<1>6. Becomes(a, r, t) /\ UNCHANGED <<versions, head>>
  BY DEF TakeBack, Store!Rollback, Becomes
<1> HIDE DEF r, t
<1>7. Keeps(a, r, t)
  BY <1>1, <1>2, <1>6, Before DEF Keeps, mutexes, record, At
<1>8. agent'[a] = r /\ txn'[a] = t
  BY <1>6, OneMoves
<1>9. AgentInv(a)'
  BY <1>1, <1>2, <1>3, <1>4, <1>5, <1>6, <1>8, Before DEF AgentInv, At, mutexes
<1> QED
  BY <1>3, <1>4, <1>7, <1>9, Quiet

(* Transaction t is that of a on another commit.                           *)
Switched(a, t) ==
  /\ t \in Txns /\ t # NoTxn
  /\ t.base \in 0 .. Len(versions) /\ t.delta = txn[a].delta
  /\ txn' = [txn EXCEPT ![a] = t] /\ UNCHANGED <<versions, head>>

(* What a Switch of the store does.                                        *)
LEMMA SwitchSwitches ==
  ASSUME GreensInv, NEW a \in Agents, NEW b \in Branches, Store!Switch(a, b)
  PROVE  Switched(a, Store!Txn(b, head[b], txn[a].delta)) /\ txn[a] # NoTxn
<1> DEFINE t == Store!Txn(b, head[b], txn[a].delta)
<1>1. txn[a] # NoTxn /\ txn' = [txn EXCEPT ![a] = t] /\ UNCHANGED <<versions, head>>
  BY DEF Store!Switch, Store!Active
<1>2. head[b] \in 0 .. Len(versions) /\ head[b] \in Nat /\ txn[a].delta \in Seq(Updates)
  BY <1>1, TxnFields, Before
<1>3. t.branch = b /\ t.base = head[b] /\ t.delta = txn[a].delta
  BY DEF Store!Txn
<1>4. t \in Txns
  BY <1>2 DEF Store!Txn, Txns
<1> HIDE DEF t
<1>5. t # NoTxn
  BY <1>4, TxnAssumption
<1>6. Switched(a, t)
  BY <1>1, <1>2, <1>3, <1>4, <1>5 DEF Switched
<1> QED
  BY <1>1, <1>6 DEF t

(* Retry, whether the rebase succeeds or not.                              *)
LEMMA RetryKeeps ==
  ASSUME GreensInv, NEW a \in Agents, Retry(a)
  PROVE  GreensInv'
<1> DEFINE r == [agent[a] EXCEPT !.pc = "switch", !.round = agent[a].round - 1]
<1>1. /\ At(a, "late") /\ agent' = [agent EXCEPT ![a] = r] /\ criticalsection' = NoAgent
      /\ UNCHANGED <<branchCreation, waiting, record, names>>
  BY DEF Retry
<1>2. /\ txn[a] # NoTxn /\ txn[a] \in Txns /\ txn[a].branch \in Branches
      /\ txn[a].base \in 0 .. Len(versions)
  BY <1>1, TxnFields, Before DEF AgentInv, At
<1>3. agent[a].round > 0 /\ versions # << >> /\ criticalsection = a
  BY <1>1, Before DEF AgentInv, At
<1>4. /\ r \in AgentRecords /\ r.pc = "switch" /\ r.astray = agent[a].astray
      /\ r.branch = agent[a].branch
  <2>1. "switch" \in Places /\ agent[a].round - 1 \in 0 .. NumCommits
    BY <1>3, Before, NumAssumption DEF Places
  <2> QED
    BY <2>1, Before DEF AgentRecords
<1>5. PICK t : Switched(a, t)
  <2>1. CASE head[txn[a].branch] # 0
    <3>1. Store!Switch(a, txn[a].branch)
      BY <2>1 DEF Retry, Store!Refresh
    <3> QED
      BY <1>2, <3>1, SwitchSwitches
  <2>2. CASE head[txn[a].branch] = 0
    <3>1. UNCHANGED store
      BY <2>2 DEF Retry
    <3>2. txn' = [txn EXCEPT ![a] = txn[a]] /\ UNCHANGED <<versions, head>>
      BY <3>1 DEF store, GreensInv, TypeOK
    <3>3. Switched(a, txn[a])
      BY <1>2, <3>2 DEF Switched
    <3> QED
      BY <3>3
  <2> QED
    BY <2>1, <2>2
<1> HIDE DEF r
<1>6. Becomes(a, r, t) /\ agent'[a] = r /\ txn'[a] = t
  <2>1. Becomes(a, r, t)
    BY <1>1, <1>5 DEF Becomes, Switched
  <2> QED
    BY <2>1, OneMoves
<1>7. Keeps(a, r, t)
  BY <1>1, <1>2, <1>3, <1>5, <1>6, Before DEF Keeps, Switched, record, At
<1>8. AgentInv(a)'
  BY <1>1, <1>2, <1>3, <1>4, <1>5, <1>6, Before DEF AgentInv, At, Switched, record
<1> QED
  BY <1>4, <1>5, <1>7, <1>8, Quiet DEF Switched

(* Transaction and expectations of agent a are lost, if it had any.        *)
Loses(a) == txn' = [txn EXCEPT ![a] = NoTxn] /\ UNCHANGED <<versions, head>>

(* Who has lost his transaction is done, or will be when he notices.       *)
LEMMA LosesKeeps ==
  ASSUME GreensInv, NEW a \in Agents, NEW pc \in {"round", "done"},
         Loses(a), Goto(a, pc), ~At(a, "committed"),
         UNCHANGED <<record, names, waiting>>, criticalsection' = criticalsection,
         \/ branchCreation' = branchCreation
         \/ branchCreation = a /\ branchCreation' = NoAgent
  PROVE  GreensInv'
<1> DEFINE r == [agent[a] EXCEPT !.pc = pc]
<1>1. r \in AgentRecords /\ r.pc = pc /\ r.branch = agent[a].branch
  <2>1. pc \in Places
    BY DEF Places
  <2> QED
    BY <2>1, Before, Goes
<1>2. Becomes(a, r, NoTxn) /\ UNCHANGED <<versions, head>>
  BY DEF Loses, Goto, Becomes
<1> HIDE DEF r
<1>3. Keeps(a, r, NoTxn)
  BY <1>1, <1>2, Before DEF Keeps, record
<1>4. agent'[a] = r /\ txn'[a] = NoTxn
  BY <1>2, OneMoves
<1>5. AgentInv(a)'
  BY <1>1, <1>4 DEF AgentInv, At
<1> QED
  BY <1>1, <1>3, <1>5, Quiet

(* The failures that end the agent's rounds.                               *)
LEMMA FailuresKeep ==
  ASSUME GreensInv, NEW a \in Agents,
         \/ \E f \in Files : ReadFails(a, f)
         \/ CreateFails(a) \/ SelectFails(a)
  PROVE  GreensInv'
<1>1. Store!Abort(a) => Loses(a)
  BY DEF Store!Abort, Loses
<1>2. txn[a] = NoTxn /\ UNCHANGED store => Loses(a)
  BY DEF store, Loses, GreensInv, TypeOK
<1>3. ASSUME NEW f \in Files, ReadFails(a, f)
      PROVE  GreensInv'
  <2>1. /\ Loses(a) /\ Goto(a, "done") /\ ~At(a, "committed")
        /\ UNCHANGED <<record, names, waiting, criticalsection, branchCreation>>
    BY <1>1, <1>3 DEF ReadFails, Operates, mutexes, At
  <2> QED
    BY <2>1, LosesKeeps
<1>4. CASE CreateFails(a)
  <2>1. /\ Loses(a) /\ Goto(a, "round") /\ ~At(a, "committed")
        /\ UNCHANGED <<record, names, waiting, criticalsection>>
        /\ branchCreation = a /\ branchCreation' = NoAgent
    BY <1>1, <1>2, <1>4, Before DEF CreateFails, At, AgentInv
  <2> QED
    BY <2>1, LosesKeeps
<1>5. CASE SelectFails(a)
  <2>1. /\ Loses(a) /\ Goto(a, "done") /\ ~At(a, "committed")
        /\ UNCHANGED <<record, names, waiting, criticalsection>>
        /\ branchCreation = a /\ branchCreation' = NoAgent
    BY <1>1, <1>2, <1>5, Before DEF SelectFails, At, AgentInv
  <2> QED
    BY <2>1, LosesKeeps
<1> QED
  BY <1>3, <1>4, <1>5

(* Refused: the Error is to be noticed.                                    *)
LEMMA RefusedKeeps ==
  ASSUME GreensInv, NEW a \in Agents, Refused(a)
  PROVE  GreensInv'
<1> DEFINE r == [agent[a] EXCEPT !.pc = "refused", !.elems = EmptyTree]
<1>1. /\ At(a, "tip") /\ agent' = [agent EXCEPT ![a] = r]
      /\ criticalsection = a /\ criticalsection' = NoAgent
      /\ UNCHANGED <<branchCreation, waiting, record, names>>
  BY Before DEF Refused, AgentInv, At
<1>2. r \in AgentRecords /\ r.pc = "refused" /\ r.branch = agent[a].branch
  <2>1. EmptyTree \in Trees /\ "refused" \in Places
    BY DEF EmptyTree, Trees, Values, Places
  <2> QED
    BY <2>1, Before DEF AgentRecords
<1>3. agent[a].branch = Main
  BY <1>1, Before DEF AgentInv, At
<1> HIDE DEF r
<1>4. Becomes(a, r, NoTxn) /\ UNCHANGED <<versions, head>>
  BY <1>1 DEF Refused, Store!Abort, Becomes
<1>5. Keeps(a, r, NoTxn)
  BY <1>1, <1>2, <1>4, Before DEF Keeps, record, At
<1>6. agent'[a] = r /\ txn'[a] = NoTxn
  BY <1>4, OneMoves
<1>7. AgentInv(a)'
  BY <1>2, <1>3, <1>6 DEF AgentInv, At
<1> QED
  BY <1>2, <1>5, <1>7, Quiet

(* Nok: the test has failed.                                               *)
LEMMA NokKeeps ==
  ASSUME GreensInv, NEW a \in Agents, Nok(a)
  PROVE  GreensInv'
<1> DEFINE r == [agent[a] EXCEPT !.pc = "switch"]
<1>1. /\ At(a, "refused") /\ agent' = [agent EXCEPT ![a] = r] /\ ok' = FALSE
      /\ waiting' = waiting \ {a}
      /\ UNCHANGED <<store, criticalsection, branchCreation, commits, branches, names>>
  BY DEF Nok, Goto
<1>2. r \in AgentRecords /\ r.pc = "switch" /\ r.branch = agent[a].branch
  <2>1. "switch" \in Places
    BY DEF Places
  <2> QED
    BY <2>1, Before, Goes
<1>3. agent[a].branch = Main
  BY <1>1, Before DEF AgentInv, At
<1> HIDE DEF r
<1>4. /\ Becomes(a, r, txn[a])
      /\ agent'[a] = r /\ txn'[a] = txn[a] /\ versions' = versions /\ head' = head
  BY <1>1, <1>2, Walk
<1>5. Keeps(a, r, txn[a])
  BY <1>1, <1>3, <1>4, Before DEF Keeps, store, At
<1>6. AgentInv(a)'
  BY <1>1, <1>2, <1>3, <1>4, Before DEF AgentInv, At
<1> QED
  BY <1>2, <1>5, <1>6, Before, Quiet

-------------------------------------------------------------------------------
(* On to another branch. *)

(* Randomize: there is a commit, or the next round begins at once.         *)
LEMMA RandomizeKeeps ==
  ASSUME GreensInv, NEW a \in Agents, Randomize(a)
  PROVE  GreensInv'
<1> DEFINE pc == IF isEmpty THEN "round" ELSE "pick"
           r == [agent[a] EXCEPT !.pc = pc]
<1>1. /\ At(a, "switch") /\ agent' = [agent EXCEPT ![a] = r]
      /\ UNCHANGED <<store, mutexes, record, names>>
  BY DEF Randomize, Goto
<1>2. pc \in {"round", "pick"} /\ (pc = "pick" => versions # << >>)
  BY SomeCommit
<1>3. /\ r \in AgentRecords /\ r.pc = pc /\ r.astray = agent[a].astray
      /\ r.branch = agent[a].branch
  <2>1. pc \in Places
    BY <1>2 DEF Places
  <2> HIDE DEF pc
  <2> QED
    BY <2>1, Before, Goes
<1> HIDE DEF r, pc
<1>4. agent'[a] = r /\ txn'[a] = txn[a] /\ versions' = versions /\ head' = head
  BY <1>1, <1>3, Walk
<1>5. AgentInv(a)'
  BY <1>1, <1>2, <1>3, <1>4, Before DEF AgentInv, At, record
<1> QED
  BY <1>1, <1>3, <1>5, Strolls DEF At

(* Select: selectBranch.                                                   *)
LEMMA SelectKeeps ==
  ASSUME GreensInv, NEW a \in Agents, Select(a)
  PROVE  GreensInv'
<1> DEFINE r == [agent[a] EXCEPT !.pc = "rebase"]
           t == Store!Txn(agent[a].branch, head[agent[a].branch], txn[a].delta)
<1>1. r \in AgentRecords /\ r.pc = "rebase" /\ r.astray = agent[a].astray
  <2>1. "rebase" \in Places
    BY DEF Places
  <2> QED
    BY <2>1, Before, Goes
<1>2. /\ At(a, "select") /\ agent' = [agent EXCEPT ![a] = r]
      /\ UNCHANGED <<mutexes, record, names>>
  BY DEF Select, Goto
<1>3. Switched(a, t) /\ txn[a] # NoTxn
  BY Before, SwitchSwitches DEF Select
<1> HIDE DEF r, t
<1>4. Becomes(a, r, t)
  BY <1>2, <1>3 DEF Becomes, Switched
<1>5. agent'[a] = r /\ txn'[a] = t
  BY <1>4, OneMoves
<1>6. Keeps(a, r, t)
  BY <1>2, <1>3, <1>4, Before DEF Keeps, Switched, mutexes, record, At
<1>7. AgentInv(a)'
  BY <1>1, <1>2, <1>3, <1>5, Before DEF AgentInv, At, Switched, mutexes, record
<1> QED
  BY <1>1, <1>3, <1>6, <1>7, Quiet DEF Switched

(* Rebase, and the mutex is given back.                                    *)
LEMMA RebaseKeeps ==
  ASSUME GreensInv, NEW a \in Agents, Rebase(a)
  PROVE  GreensInv'
<1> DEFINE r == [agent[a] EXCEPT !.pc = "round", !.branch = Main]
           t == Store!Txn(txn[a].branch, head[txn[a].branch], txn[a].delta)
<1>1. /\ r \in AgentRecords /\ r.pc = "round" /\ r.astray = agent[a].astray
      /\ r.branch = Main
  <2>1. "round" \in Places
    BY DEF Places
  <2> QED
    BY <2>1, Before, AgentAssumption DEF AgentRecords
<1>2. /\ At(a, "rebase") /\ agent' = [agent EXCEPT ![a] = r] /\ branchCreation' = NoAgent
      /\ UNCHANGED <<criticalsection, waiting, record, names>>
  BY DEF Rebase
<1>3. txn[a] # NoTxn /\ branchCreation = a /\ versions # << >>
  BY <1>2, Before DEF AgentInv, At
<1>4. Switched(a, t)
  BY <1>3, TxnFields, SwitchSwitches DEF Rebase, Store!Refresh
<1> HIDE DEF r, t
<1>5. Becomes(a, r, t)
  BY <1>2, <1>4 DEF Becomes, Switched
<1>6. agent'[a] = r /\ txn'[a] = t
  BY <1>5, OneMoves
<1>7. Keeps(a, r, t)
  BY <1>2, <1>3, <1>4, <1>5, Before DEF Keeps, Switched, record, At
<1>8. AgentInv(a)'
  BY <1>1, <1>2, <1>3, <1>4, <1>6, Before DEF AgentInv, At, Switched, record
<1> QED
  BY <1>1, <1>4, <1>7, <1>8, Quiet DEF Switched

(* A branch that is named is there, when nobody is about to create one.    *)
LEMMA NamedIsThere ==
  ASSUME GreensInv, branchCreation = NoAgent, versions # << >>, NEW b \in branches
  PROVE  head[b] # 0 \/ \E u \in Agents : txn[u] = NoTxn /\ agent[u].branch = b
<1>1. \A u \in Agents : ~At(u, "create")
  BY Before, AgentAssumption DEF AgentInv, At
<1> QED
  BY <1>1 DEF GreensInv, RecordInv

(* ToNamed: the branch was created, or its creator is lost.                *)
LEMMA ToNamedKeeps ==
  ASSUME GreensInv, NEW a \in Agents, NEW b \in Branches, ToNamed(a, b)
  PROVE  GreensInv'
<1> DEFINE r == [agent[a] EXCEPT !.pc = "select", !.branch = b]
<1>1. /\ r \in AgentRecords /\ r.pc = "select" /\ r.astray = agent[a].astray
      /\ r.branch = b
  <2>1. "select" \in Places
    BY DEF Places
  <2> QED
    BY <2>1, Before DEF AgentRecords
<1>2. /\ At(a, "pick") /\ agent' = [agent EXCEPT ![a] = r]
      /\ branchCreation = NoAgent /\ branchCreation' = a
      /\ UNCHANGED <<store, criticalsection, waiting, record, names>>
  BY DEF ToNamed
<1>3. agent[a].branch = Main /\ versions # << >>
  BY <1>2, Before DEF AgentInv, At
<1> HIDE DEF r
<1>4. /\ Becomes(a, r, txn[a])
      /\ agent'[a] = r /\ txn'[a] = txn[a] /\ versions' = versions /\ head' = head
      /\ \A u \in Agents \ {a} : agent'[u] = agent[u]
  BY <1>1, <1>2, Walk
<1>5. Keeps(a, r, txn[a])
  BY <1>2, <1>3, <1>4, Before DEF Keeps, store, record, At
<1>6. head'[b] # 0 \/ \E u \in Agents : txn'[u] = NoTxn /\ agent'[u].branch = b
  <2>1. head[b] # 0 \/ \E u \in Agents : txn[u] = NoTxn /\ agent[u].branch = b
    BY <1>2, <1>3, NamedIsThere DEF ToNamed
  <2>2. CASE b = Main
    BY <1>3, <1>4, <2>2 DEF GreensInv, RecordInv
  <2>3. CASE b # Main
    BY <1>2, <1>3, <1>4, <2>1, <2>3 DEF store
  <2> QED
    BY <2>2, <2>3
<1>7. AgentInv(a)'
  BY <1>1, <1>2, <1>3, <1>4, <1>6, Before DEF AgentInv, At, record
<1> QED
  BY <1>1, <1>5, <1>7, Before, Quiet

(* ToNew: nobody else is about to name or to create a branch.              *)
LEMMA ToNewKeeps ==
  ASSUME GreensInv, NEW a \in Agents, NEW b \in Branches, ToNew(a, b)
  PROVE  GreensInv'
<1> DEFINE r == [agent[a] EXCEPT !.pc = "name", !.branch = b]
<1>1. r \in AgentRecords /\ r.pc = "name" /\ r.astray = agent[a].astray
  <2>1. "name" \in Places
    BY DEF Places
  <2> QED
    BY <2>1, Before DEF AgentRecords
<1>2. /\ At(a, "pick") /\ agent' = [agent EXCEPT ![a] = r]
      /\ branchCreation = NoAgent /\ branchCreation' = a
      /\ UNCHANGED <<store, criticalsection, waiting, record, names>>
  BY DEF ToNew
<1>3. agent[a].branch = Main /\ versions # << >>
  BY <1>2, Before DEF AgentInv, At
<1> HIDE DEF r
<1>4. /\ Becomes(a, r, txn[a])
      /\ agent'[a] = r /\ txn'[a] = txn[a] /\ versions' = versions /\ head' = head
  BY <1>1, <1>2, Walk
<1>5. Keeps(a, r, txn[a])
  BY <1>2, <1>3, <1>4, Before DEF Keeps, store, record, At
<1>6. AgentInv(a)'
  BY <1>1, <1>2, <1>3, <1>4, Before DEF AgentInv, At, record
<1> QED
  BY <1>1, <1>5, <1>6, Before, Quiet

(* Name: the new name is that of a branch about to be created, or that     *)
(* cannot be.                                                              *)
LEMMA NameKeeps ==
  ASSUME GreensInv, NEW a \in Agents, Name(a)
  PROVE  GreensInv'
<1> DEFINE r == [agent[a] EXCEPT !.pc = "create"]
           b == agent[a].branch
<1>1. /\ r \in AgentRecords /\ r.pc = "create" /\ r.astray = agent[a].astray
      /\ r.branch = b
  <2>1. "create" \in Places
    BY DEF Places
  <2> QED
    BY <2>1, Before, Goes
<1>2. /\ At(a, "name") /\ agent' = [agent EXCEPT ![a] = r]
      /\ branches' = branches \union {b} /\ waiting' = waiting \ {a}
      /\ UNCHANGED <<store, criticalsection, branchCreation, commits, ok, names>>
  BY DEF Name, Goto
<1>3. versions # << >> /\ b \in Branches /\ waiting' \subseteq Agents
  BY <1>2, Before DEF AgentInv, At
<1> HIDE DEF r
<1>4. /\ Becomes(a, r, txn[a])
      /\ agent'[a] = r /\ txn'[a] = txn[a] /\ versions' = versions /\ head' = head
      /\ \A u \in Agents \ {a} : agent'[u] = agent[u]
  BY <1>1, <1>2, Walk
<1>5. TypeOK'
  <2>1. agent' \in [Agents -> AgentRecords]
    BY <1>1, <1>2 DEF GreensInv, TypeOK
  <2> QED
    BY <1>2, <1>3, <2>1 DEF GreensInv, TypeOK, store
<1>6. Frame(a)
  BY <1>1, <1>2, <1>3, <1>4, AgentAssumption DEF Frame, store, GreensInv, TypeOK
<1>7. AgentInv(a)'
  BY <1>1, <1>2, <1>3, <1>4, Before DEF AgentInv, At
<1>8. RecordInv'
  <2>1. isEmpty /\ versions # << >> => \E u \in Agents : At(u, "committed")'
    BY <1>2, <1>4 DEF GreensInv, RecordInv, At
  <2>2. ASSUME NEW c \in (branches \union {b}) \ {Main}
        PROVE  \/ head[c] # 0
               \/ \E u \in Agents : agent'[u].branch = c /\ (At(u, "create")' \/ txn'[u] = NoTxn)
    <3>1. CASE c = b
      BY <1>1, <1>4, <3>1 DEF At
    <3>2. CASE c # b
      <4>1. \/ head[c] # 0
            \/ \E u \in Agents \ {a} : agent[u].branch = c /\ (At(u, "create") \/ txn[u] = NoTxn)
        BY <3>2 DEF GreensInv, RecordInv
      <4> QED
        BY <1>2, <1>4, <4>1 DEF At, store
    <3> QED
      BY <3>1, <3>2
  <2>3. head[Main] # 0
    BY <1>3 DEF GreensInv, RecordInv
  <2> QED
    BY <1>2, <1>4, <2>1, <2>2, <2>3 DEF RecordInv, isEmpty, At
<1>9. RecordAgrees'
  BY <1>2, <1>4 DEF GreensInv, RecordAgrees
<1> QED
  BY <1>5, <1>6, <1>7, <1>8, <1>9, OthersKeep DEF GreensInv

(* CreateBranch: the branch is there; it is the branch of nobody at a tip. *)
LEMMA CreateBranchKeeps ==
  ASSUME GreensInv, NEW a \in Agents, CreateBranch(a)
  PROVE  GreensInv'
<1> DEFINE r == [agent[a] EXCEPT !.pc = "select"]
           b == agent[a].branch
           base == txn[a].base
<1>1. /\ r \in AgentRecords /\ r.pc = "select" /\ r.astray = agent[a].astray
      /\ r.branch = b
  <2>1. "select" \in Places
    BY DEF Places
  <2> QED
    BY <2>1, Before, Goes
<1>2. /\ At(a, "create") /\ agent' = [agent EXCEPT ![a] = r]
      /\ UNCHANGED <<mutexes, record, names>>
      /\ UNCHANGED <<versions, txn>>
      /\ txn[a] # NoTxn
      /\ base # 0 /\ head[b] = 0 /\ head' = [head EXCEPT ![b] = base]
  BY DEF CreateBranch, Goto, Store!Fork, Store!Active
<1>3. /\ txn[a] # NoTxn /\ versions # << >> /\ b \in Branches
      /\ base \in 0 .. Len(versions)
  BY <1>2, Before, TxnFields DEF AgentInv, At
<1> HIDE DEF r
<1>4. /\ agent'[a] = r /\ \A u \in Agents \ {a} : agent'[u] = agent[u]
  BY <1>2 DEF GreensInv, TypeOK
<1>5. /\ head' \in [Branches -> 0 .. Len(versions)] /\ head'[b] = base
      /\ \A c \in Branches \ {b} : head'[c] = head[c]
  BY <1>2, <1>3, Before
<1>6. TypeOK'
  <2>1. agent' \in [Agents -> AgentRecords]
    BY <1>1, <1>2 DEF GreensInv, TypeOK
  <2> QED
    BY <1>2, <1>5, <2>1 DEF GreensInv, TypeOK, mutexes, record
<1>7. Frame(a)
  <2>1. ASSUME NEW u \in Agents, At(u, "tip")
        PROVE  head'[txn[u].branch] = head[txn[u].branch]
    <3>1. /\ txn[u].base = head[txn[u].branch] /\ txn[u].base # 0
          /\ txn[u].branch \in Branches
      BY <1>3, <2>1, Before, TxnFields DEF AgentInv, At
    <3> QED
      BY <1>2, <1>5, <3>1
  <2> QED
    BY <1>2, <1>3, <1>4, <1>5, <2>1, Before DEF Frame, mutexes, record
<1>8. AgentInv(a)'
  BY <1>1, <1>2, <1>3, <1>4, <1>5, Before DEF AgentInv, At, mutexes, record
<1>9. RecordInv'
  <2>1. isEmpty /\ versions # << >> => \E u \in Agents : At(u, "committed")'
    BY <1>2, <1>4 DEF GreensInv, RecordInv, At
  <2>2. ASSUME NEW c \in branches \ {Main}
        PROVE  \/ head'[c] # 0
               \/ \E u \in Agents : agent'[u].branch = c /\ (At(u, "create")' \/ txn'[u] = NoTxn)
    <3>1. c \in Branches
      BY DEF GreensInv, TypeOK
    <3>2. CASE c = b
      BY <1>2, <1>5, <3>2
    <3>3. CASE c # b
      <4>1. \/ head[c] # 0
            \/ \E u \in Agents \ {a} : agent[u].branch = c /\ (At(u, "create") \/ txn[u] = NoTxn)
        BY <3>3 DEF GreensInv, RecordInv
      <4> QED
        BY <1>2, <1>4, <1>5, <3>1, <3>3, <4>1 DEF At
    <3> QED
      BY <3>2, <3>3
  <2>3. head'[Main] # 0
    BY <1>2, <1>3, <1>5, AgentAssumption DEF GreensInv, RecordInv
  <2> QED
    BY <1>2, <2>1, <2>2, <2>3 DEF RecordInv, isEmpty, At, record
<1>10. RecordAgrees'
  BY <1>2 DEF GreensInv, RecordAgrees, record
<1> QED
  BY <1>6, <1>7, <1>8, <1>9, <1>10, OthersKeep DEF GreensInv

(* Record: what is recorded was expected, and is what was committed.       *)
LEMMA RecordKeeps ==
  ASSUME GreensInv, NEW a \in Agents, Record(a)
  PROVE  GreensInv'
<1> DEFINE new == txn[a].base
           entry == [elems |-> agent[a].elems, astray |-> agent[a].astray]
           r == [agent[a] EXCEPT !.pc = "switch", !.elems = EmptyTree, !.astray = FALSE]
<1>1. r \in AgentRecords /\ r.pc = "switch" /\ r.branch = agent[a].branch
  <2>1. EmptyTree \in Trees /\ "switch" \in Places
    BY DEF EmptyTree, Trees, Values, Places
  <2> QED
    BY <2>1, Before DEF AgentRecords
<1>2. /\ At(a, "committed") /\ agent' = [agent EXCEPT ![a] = r] /\ criticalsection' = NoAgent
      /\ UNCHANGED <<branchCreation, branches, ok, names>> /\ UNCHANGED store
      /\ waiting' = waiting \ {a}
      /\ commits' = [c \in DOMAIN commits \union {new} |->
           IF c \in DOMAIN commits THEN commits[c] ELSE entry]
  BY DEF Record
<1>3. /\ txn[a] # NoTxn /\ new # 0 /\ txn[a].delta = << >> /\ criticalsection = a
      /\ new \in 0 .. Len(versions)
      /\ ok /\ ~entry.astray => entry.elems = Store!TreeOf(new)
      /\ agent[a].branch = Main /\ waiting' \subseteq Agents
  BY <1>2, Before, TxnFields DEF AgentInv, At
<1>4. new \in DOMAIN versions /\ versions # << >>
  BY <1>3, Before DEF GreensInv, TypeOK
<1>5. entry \in [elems: Trees, astray: BOOLEAN]
  BY Before
<1> HIDE DEF r, entry
<1>6. /\ DOMAIN commits' = DOMAIN commits \union {new}
      /\ \A c \in DOMAIN commits : commits'[c] = commits[c]
      /\ new \notin DOMAIN commits => commits'[new] = entry
  BY <1>2
<1>7. /\ agent'[a] = r /\ txn'[a] = txn[a] /\ versions' = versions /\ head' = head
      /\ \A u \in Agents \ {a} : agent'[u] = agent[u]
  BY <1>1, <1>2, Walk
<1>8. TypeOK'
  <2>1. agent' \in [Agents -> AgentRecords]
    BY <1>1, <1>2 DEF GreensInv, TypeOK
  <2>2. /\ DOMAIN commits' \subseteq DOMAIN versions
        /\ \A c \in DOMAIN commits' : commits'[c] \in [elems: Trees, astray: BOOLEAN]
    BY <1>4, <1>5, <1>6 DEF GreensInv, TypeOK
  <2> QED
    BY <1>2, <1>3, <2>1, <2>2 DEF GreensInv, TypeOK, store
<1>9. Frame(a)
  BY <1>2, <1>3, <1>7, AgentAssumption DEF Frame, store, GreensInv, TypeOK
<1>10. AgentInv(a)'
  BY <1>1, <1>3, <1>4, <1>7, Before DEF AgentInv, At
<1>11. RecordInv'
  <2>1. ASSUME NEW b \in branches \ {Main}
        PROVE  \/ head[b] # 0
               \/ \E u \in Agents : agent'[u].branch = b /\ (At(u, "create")' \/ txn'[u] = NoTxn)
    <3>1. \/ head[b] # 0
          \/ \E u \in Agents \ {a} : agent[u].branch = b /\ (At(u, "create") \/ txn[u] = NoTxn)
      BY <1>2, <1>3 DEF GreensInv, RecordInv, At
    <3> QED
      BY <1>2, <1>7, <3>1 DEF At, store
  <2>2. head[Main] # 0
    BY <1>4 DEF GreensInv, RecordInv
  <2> QED
    BY <1>2, <1>6, <1>7, <2>1, <2>2 DEF RecordInv, isEmpty, At
<1>12. RecordAgrees'
  <2> SUFFICES ASSUME ok, NEW c \in DOMAIN commits'
               PROVE  commits'[c].astray \/ commits'[c].elems = versions[c].tree
    BY <1>2, <1>7 DEF RecordAgrees
  <2>1. CASE c \in DOMAIN commits
    BY <1>6, <2>1 DEF GreensInv, RecordAgrees
  <2>2. CASE c \notin DOMAIN commits
    BY <1>3, <1>6, <2>2 DEF Store!TreeOf
  <2> QED
    BY <2>1, <2>2
<1> QED
  BY <1>8, <1>9, <1>10, <1>11, <1>12, OthersKeep DEF GreensInv

(* Commit: the commit holds what its agent expects.                        *)
LEMMA CommitKeeps ==
  ASSUME GreensInv, NEW a \in Agents, Commit(a)
  PROVE  GreensInv'
<1> DEFINE b == txn[a].branch
           tree == ApplyTo(Store!TreeOf(txn[a].base), txn[a].delta)
           v == [parent |-> txn[a].base, tree |-> tree]
           n == Len(versions) + 1
           r == [agent[a] EXCEPT !.pc = "committed"]
           t == Store!Txn(b, n, << >>)
<1>1. /\ At(a, "tip") /\ agent' = [agent EXCEPT ![a] = r] /\ UNCHANGED <<mutexes, record, names>>
      /\ Store!Commit(a)
  BY DEF Commit, Goto
<1>2. /\ txn[a] # NoTxn /\ b \in Branches /\ txn[a].delta \in Seq(Updates)
      /\ txn[a].base \in 0 .. Len(versions) /\ criticalsection = a
      /\ versions = << >> => b = Main
      /\ ok /\ ~agent[a].astray => agent[a].elems = tree
      /\ agent[a].branch = Main
  BY <1>1, Before, TxnFields DEF AgentInv, At
<1>3. versions \in Seq([parent: Nat, tree: Trees]) /\ v \in [parent: Nat, tree: Trees]
  BY <1>2, TreeOfType, ApplyToType DEF GreensInv, TypeOK
<1>4. versions' = Append(versions, v)
  BY <1>1, SameData DEF Store!Commit
<1>5. /\ versions' \in Seq([parent: Nat, tree: Trees]) /\ Len(versions') = n
      /\ n \in Nat /\ n # 0 /\ n > Len(versions) /\ versions' # << >>
      /\ \A c \in 1 .. Len(versions) : versions'[c] = versions[c]
      /\ versions'[n] = v
  <2> HIDE DEF v
  <2> QED
    BY <1>3, <1>4, Appending
<1>6. head' = [head EXCEPT ![b] = n] /\ txn' = [txn EXCEPT ![a] = t]
  BY <1>1, <1>5 DEF Store!Commit
<1>7. r \in AgentRecords /\ r.pc = "committed" /\ r.elems = agent[a].elems
      /\ r.astray = agent[a].astray /\ r.branch = agent[a].branch
  <2>1. "committed" \in Places
    BY DEF Places
  <2> QED
    BY <2>1, Before, Goes
<1>8. t.branch = b /\ t.base = n /\ t.delta = << >>
  BY DEF Store!Txn
<1>9. t \in Txns
  <2>1. << >> \in Seq(Updates)
    OBVIOUS
  <2> QED
    BY <1>2, <1>5, <2>1 DEF Store!Txn, Txns
<1> HIDE DEF r, t
<1>10. t # NoTxn
  BY <1>9, TxnAssumption
<1>11. /\ agent'[a] = r /\ txn'[a] = t
       /\ \A u \in Agents \ {a} : agent'[u] = agent[u] /\ txn'[u] = txn[u]
  BY <1>1, <1>6, OneMoves DEF Becomes
<1> HIDE DEF n
<1>12. /\ head' \in [Branches -> 0 .. Len(versions')] /\ head'[b] = n
       /\ \A c \in Branches \ {b} : head'[c] = head[c]
  BY <1>2, <1>5, <1>6, Before
<1>13. TypeOK'
  <2>1. agent' \in [Agents -> AgentRecords] /\ txn' \in [Agents -> Txns \union {NoTxn}]
    BY <1>1, <1>6, <1>7, <1>9 DEF GreensInv, TypeOK
  <2>2. DOMAIN versions \subseteq DOMAIN versions'
    BY <1>3, <1>5
  <2>3. /\ DOMAIN commits' \subseteq DOMAIN versions'
        /\ \A c \in DOMAIN commits' : commits'[c] \in [elems: Trees, astray: BOOLEAN]
    BY <1>1, <2>2 DEF GreensInv, TypeOK, record
  <2> QED
    BY <1>1, <1>5, <1>12, <2>1, <2>3 DEF GreensInv, TypeOK, mutexes, record
<1>14. Frame(a)
  <2>1. ASSUME NEW u \in Agents \ {a}
        PROVE  ~At(u, "tip")
    BY <1>2, Before DEF AgentInv, At
  <2>2. \A c \in Branches : head[c] # 0 => head'[c] # 0
    BY <1>5, <1>12
  <2> QED
    BY <1>1, <1>2, <1>5, <1>11, <2>1, <2>2, Before DEF Frame, mutexes, record
<1>15. AgentInv(a)'
  <2>1. txn'[a].base = n /\ txn'[a].delta = << >> /\ txn'[a] # NoTxn
    BY <1>8, <1>10, <1>11
  <2>2. Store!TreeOf(txn[a].base)' = tree
    BY <1>5, <2>1 DEF Store!TreeOf
  <2> HIDE DEF tree, v
  <2> QED
    BY <1>1, <1>2, <1>5, <1>7, <1>11, <2>1, <2>2, Before DEF AgentInv, At, mutexes, record
<1>16. RecordInv'
  <2>1. At(a, "committed")'
    BY <1>7, <1>11 DEF At
  <2>2. ASSUME NEW c \in branches \ {Main}
        PROVE  \/ head'[c] # 0
               \/ \E u \in Agents : agent'[u].branch = c /\ (At(u, "create")' \/ txn'[u] = NoTxn)
    <3>1. c \in Branches
      BY DEF GreensInv, TypeOK
    <3>2. \/ head[c] # 0
          \/ \E u \in Agents \ {a} : agent[u].branch = c /\ (At(u, "create") \/ txn[u] = NoTxn)
      BY <1>1, <1>2 DEF GreensInv, RecordInv, At
    <3> QED
      BY <1>11, <1>14, <3>1, <3>2 DEF At, Frame
  <2>3. head'[Main] # 0
    <3>1. CASE versions = << >>
      BY <1>2, <1>5, <1>12, <3>1
    <3>2. CASE versions # << >>
      BY <1>14, <3>2, AgentAssumption DEF Frame, GreensInv, RecordInv
    <3> QED
      BY <3>1, <3>2
  <2> QED
    BY <1>1, <2>1, <2>2, <2>3 DEF RecordInv, record
<1>17. RecordAgrees'
  <2>1. \A c \in DOMAIN commits : c \in 1 .. Len(versions) /\ versions'[c] = versions[c]
    BY <1>3, <1>5 DEF GreensInv, TypeOK
  <2> QED
    BY <1>1, <2>1 DEF GreensInv, RecordAgrees, record
<1> QED
  BY <1>13, <1>14, <1>15, <1>16, <1>17, OthersKeep DEF GreensInv

-------------------------------------------------------------------------------
(* The invariant. *)

(* The invariant holds before the first step.                              *)
LEMMA InitGreens == Init => GreensInv
<1> SUFFICES ASSUME Init
             PROVE  GreensInv
  OBVIOUS
<1> USE DEF Init, Store!Init
<1>1. EmptyTree \in Trees /\ "start" \in Places /\ << >> \in Seq([parent: Nat, tree: Trees])
  BY DEF EmptyTree, Trees, Values, Places
<1>2. /\ \A a \in Agents : agent[a] = [pc |-> "start", round |-> 0, ops |-> 0,
                                        elems |-> EmptyTree, astray |-> FALSE, branch |-> Main]
      /\ \A a \in Agents : txn[a] = NoTxn
      /\ versions = << >>
  OBVIOUS
<1>3. agent \in [Agents -> AgentRecords]
  BY <1>1, AgentAssumption, NumAssumption DEF AgentRecords
<1>4. DOMAIN commits = {}
  OBVIOUS
<1>5. TypeOK
  <2>1. head \in [Branches -> 0 .. Len(versions)] /\ versions \in Seq([parent: Nat, tree: Trees])
    BY <1>1
  <2>2. txn \in [Agents -> Txns \union {NoTxn}]
    OBVIOUS
  <2>3. branches \subseteq Branches /\ names \subseteq Files /\ ok \in BOOLEAN
    BY AgentAssumption
  <2>4. criticalsection \in Agents \union {NoAgent} /\ branchCreation \in Agents \union {NoAgent}
    OBVIOUS
  <2> QED
    BY <1>3, <1>4, <2>1, <2>2, <2>3, <2>4 DEF TypeOK
<1>6. ASSUME NEW a \in Agents PROVE AgentInv(a)
  BY <1>2 DEF AgentInv, At
<1>7. RecordInv
  BY <1>2 DEF RecordInv
<1>8. RecordAgrees
  BY <1>4 DEF RecordAgrees
<1> QED
  BY <1>5, <1>6, <1>7, <1>8 DEF GreensInv

(* Every step keeps the invariant.                                         *)
LEMMA NextGreens == GreensInv /\ [Next]_vars => GreensInv'
<1> SUFFICES ASSUME GreensInv, [Next]_vars
             PROVE  GreensInv'
  OBVIOUS
<1>1. CASE UNCHANGED vars
  BY <1>1 DEF vars, store, mutexes, record, GreensInv, TypeOK, AgentInv, RecordInv,
              RecordAgrees, At, isEmpty, Store!TreeOf
<1>2. ASSUME NEW a \in Agents, Step(a)
      PROVE  GreensInv'
  BY <1>2, StartKeeps, RoundKeeps, PropsKeep, ElemsKeep, NoElemsKeep, WaitKeeps, ReturnKeeps,
     RefusedKeeps, NokKeeps, RandomizeKeeps, NameKeeps, OpsKeep, FailuresKeep, NothingKeeps,
     SkipKeeps, EnterKeeps, TakeBackKeeps, RetryKeeps, AtTipKeeps, CommitKeeps, RecordKeeps,
     ToNamedKeeps, ToNewKeeps, CreateBranchKeeps, SelectKeeps, RebaseKeeps DEF Step
<1> QED
  BY <1>1, <1>2 DEF Next, Joined

(* Every reachable state has its types, every agent what belongs to where  *)
(* he is, and the record matches the store.                                *)
THEOREM Inductive == Spec => []GreensInv
  BY InitGreens, NextGreens, PTL DEF Spec

(* No commit of the test is refused for being late.                        *)
THEOREM NeverTooLate == Spec => []NeverLate
<1>1. GreensInv => NeverLate
  BY DEF GreensInv, AgentInv, NeverLate
<1> QED
  BY <1>1, Inductive, PTL

(* A branch with a name is there, or the agent that should have created it *)
(* has lost his context.                                                   *)
THEOREM NamesAreCreated == Spec => []NamedIsCreated
<1>1. GreensInv => NamedIsCreated
  BY DEF GreensInv, AgentInv, NamedIsCreated
<1> QED
  BY <1>1, Inductive, PTL

(* What the agents recorded of their commits is what the commits hold.     *)
THEOREM RecordIsRight == Spec => []RecordAgrees
<1>1. GreensInv => RecordAgrees
  BY DEF GreensInv
<1> QED
  BY <1>1, Inductive, PTL
===============================================================================
