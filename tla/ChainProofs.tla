----------------------------- MODULE ChainProofs -----------------------------
(***************************************************************************)
(* Theorems about Chain: whatever chain of calls a thread makes, and       *)
(* wherever a call fails, every object of libgit2 has one owner, and the   *)
(* id of a context is that of its commit.                                  *)
(***************************************************************************)
EXTENDS Chain, SequenceTheorems, TLAPS

P == {"reg", "tmp", "res", "new"}

(* A heap in which every object has one owner.                             *)
Good(h) == h \in N!Heaps /\ N!Owned(h)

Clear(h, p) == h.holds[N!CommitOf(p)] = Null /\ h.holds[N!RootOf(p)] = Null

(* Nodes p of two heaps are the same.                                      *)
Same(h, k, p) ==
  /\ k.holds[N!CommitOf(p)] = h.holds[N!CommitOf(p)]
  /\ k.holds[N!RootOf(p)] = h.holds[N!RootOf(p)]
  /\ k.id[p] = h.id[p]

-------------------------------------------------------------------------------
(* Guards. *)

(* A Guard that frees what it holds.                                       *)
LEMMA Destructing ==
  ASSUME NEW h, Good(h), NEW g \in N!Guards,
         NEW k, k = N!InnerDestruct(h, g)
  PROVE  /\ Good(k)
         /\ k.holds[g] = Null /\ \A x \in N!Guards \ {g} : k.holds[x] = h.holds[x]
         /\ k.id = h.id /\ k.live \subseteq h.live
<1>1. /\ k.holds = [h.holds EXCEPT ![g] = Null] /\ k.live = h.live \ {h.holds[g]}
      /\ k.id = h.id /\ k = [holds |-> k.holds, id |-> k.id, live |-> k.live]
  BY DEF Good, N!InnerDestruct, N!Heaps
<1>2. k.holds[g] = Null /\ \A x \in N!Guards \ {g} : k.holds[x] = h.holds[x]
  BY <1>1 DEF Good, N!Heaps
<1>3. k \in N!Heaps
  BY <1>1 DEF Good, N!Heaps
<1>4. \A g1, g2 \in N!Guards : k.holds[g1] = k.holds[g2] /\ k.holds[g1] # Null => g1 = g2
  BY <1>2 DEF Good, N!Owned
<1>5. k.live = { k.holds[x] : x \in N!Guards } \ {Null}
  <2>1. ASSUME NEW o \in k.live PROVE o \in { k.holds[x] : x \in N!Guards } \ {Null}
    <3>1. PICK x \in N!Guards : h.holds[x] = o
      BY <1>1 DEF Good, N!Owned
    <3> QED
      BY <1>1, <1>2, <3>1 DEF Good, N!Owned
  <2>2. ASSUME NEW x \in N!Guards, k.holds[x] # Null PROVE k.holds[x] \in k.live
    BY <1>1, <1>2, <2>2 DEF Good, N!Owned
  <2> QED
    BY <2>1, <2>2
<1> QED
  BY <1>1, <1>2, <1>3, <1>4, <1>5 DEF Good, N!Owned

(* A Guard with a new object.                                              *)
LEMMA Constructing ==
  ASSUME NEW h, Good(h), NEW g \in N!Guards, h.holds[g] = Null, \E o \in Objects : o \notin h.live,
         NEW k, k = N!Construct(h, g)
  PROVE  /\ Good(k)
         /\ k.holds[g] # Null /\ \A x \in N!Guards \ {g} : k.holds[x] = h.holds[x]
         /\ k.id = h.id
         /\ \E o \in Objects : k.live = h.live \union {o}
<1> DEFINE o == N!Fresh(h)
<1>1. o \in Objects /\ o \notin h.live /\ o # Null
  <2>1. o \in Objects /\ o \notin h.live
    BY DEF N!Fresh
  <2> QED
    BY <2>1, NullAssumption
<1>2. /\ k.holds = [h.holds EXCEPT ![g] = o] /\ k.live = h.live \union {o}
      /\ k.id = h.id /\ k = [holds |-> k.holds, id |-> k.id, live |-> k.live]
  BY DEF Good, N!Construct, N!Heaps
<1> HIDE DEF o
<1>3. k.holds[g] = o /\ \A x \in N!Guards \ {g} : k.holds[x] = h.holds[x]
  BY <1>2 DEF Good, N!Heaps
<1>4. k \in N!Heaps
  BY <1>1, <1>2 DEF Good, N!Heaps
<1>5. \A x \in N!Guards : h.holds[x] # o
  BY <1>1 DEF Good, N!Owned
<1>6. \A g1, g2 \in N!Guards : k.holds[g1] = k.holds[g2] /\ k.holds[g1] # Null => g1 = g2
  BY <1>3, <1>5 DEF Good, N!Owned
<1>7. k.live = { k.holds[x] : x \in N!Guards } \ {Null}
  <2>1. ASSUME NEW p \in k.live PROVE p \in { k.holds[x] : x \in N!Guards } \ {Null}
    BY <1>1, <1>2, <1>3 DEF Good, N!Owned
  <2>2. ASSUME NEW x \in N!Guards, k.holds[x] # Null PROVE k.holds[x] \in k.live
    BY <1>2, <1>3, <2>2 DEF Good, N!Owned
  <2> QED
    BY <2>1, <2>2
<1> QED
  BY <1>1, <1>2, <1>3, <1>4, <1>6, <1>7 DEF Good, N!Owned

(* A Guard that hands its object to an empty one.                          *)
LEMMA Moving ==
  ASSUME NEW h, Good(h), NEW to \in N!Guards, NEW from \in N!Guards, to # from,
         h.holds[to] = Null, NEW k, k = N!Move(h, to, from)
  PROVE  /\ Good(k)
         /\ k.holds[to] = h.holds[from] /\ k.holds[from] = Null
         /\ \A x \in N!Guards \ {to, from} : k.holds[x] = h.holds[x]
         /\ k.id = h.id /\ k.live = h.live
<1>1. /\ k.holds = [h.holds EXCEPT ![to] = h.holds[from], ![from] = Null]
      /\ k.live = h.live
      /\ k.id = h.id /\ k = [holds |-> k.holds, id |-> k.id, live |-> k.live]
  BY DEF Good, N!Move, N!Heaps
<1>2. /\ k.holds[to] = h.holds[from] /\ k.holds[from] = Null
      /\ \A x \in N!Guards \ {to, from} : k.holds[x] = h.holds[x]
  BY <1>1 DEF Good, N!Heaps
<1>3. k \in N!Heaps
  BY <1>1 DEF Good, N!Heaps
<1>4. \A g1, g2 \in N!Guards : k.holds[g1] = k.holds[g2] /\ k.holds[g1] # Null => g1 = g2
  BY <1>2 DEF Good, N!Owned
<1>5. { k.holds[x] : x \in N!Guards } \ {Null} = { h.holds[x] : x \in N!Guards } \ {Null}
  <2>1. ASSUME NEW x \in N!Guards, h.holds[x] # Null
        PROVE  \E y \in N!Guards : k.holds[y] = h.holds[x]
    <3>1. CASE x = from
      BY <1>2, <3>1
    <3>2. CASE x # from
      BY <1>2, <2>1, <3>2
    <3> QED
      BY <3>1, <3>2
  <2>2. ASSUME NEW x \in N!Guards, k.holds[x] # Null
        PROVE  \E y \in N!Guards : h.holds[y] = k.holds[x]
    BY <1>2, <2>2
  <2> QED
    BY <2>1, <2>2
<1> QED
  BY <1>1, <1>2, <1>3, <1>4, <1>5 DEF Good, N!Owned

(* Guard to of heap h takes over what Guard from holds, in heap k.         *)
Took(h, k, to, from) ==
  /\ Good(k)
  /\ k.holds[to] = h.holds[from] /\ k.holds[from] = Null
  /\ \A x \in N!Guards \ {to, from} : k.holds[x] = h.holds[x]
  /\ k.id = h.id /\ k.live \subseteq h.live

(* Move assignment between two Guards.                                     *)
LEMMA Taking ==
  ASSUME NEW h, Good(h), NEW to \in N!Guards, NEW from \in N!Guards, to # from
  PROVE  Took(h, N!Take(h, to, from), to, from)
<1> DEFINE k == N!Take(h, to, from)
        d == N!InnerDestruct(h, to)
<1>1. k = N!Move(d, to, from)
  BY DEF N!Take
<1>2. /\ Good(d) /\ d.holds[to] = Null /\ \A x \in N!Guards \ {to} : d.holds[x] = h.holds[x]
      /\ d.id = h.id /\ d.live \subseteq h.live
  BY Destructing
<1> HIDE DEF d, k
<1>3. Took(h, k, to, from)
  BY <1>1, <1>2, Moving DEF Took
<1> QED
  BY <1>3 DEF k

(* Where an id points is of no concern to the owners.                      *)
LEMMA SettingId ==
  ASSUME NEW h, Good(h), NEW p \in P, NEW o \in Objects \union {Null},
         NEW k, k = N!SetId(h, p, o)
  PROVE  /\ Good(k) /\ k.holds = h.holds /\ k.live = h.live
         /\ k.id[p] = o /\ \A x \in P \ {p} : k.id[x] = h.id[x]
<1>1. /\ k.id = [h.id EXCEPT ![p] = o] /\ k.holds = h.holds /\ k.live = h.live
      /\ k = [holds |-> k.holds, id |-> k.id, live |-> k.live]
  BY DEF Good, N!SetId, N!Heaps
<1>2. k \in N!Heaps /\ k.id[p] = o /\ \A x \in P \ {p} : k.id[x] = h.id[x]
  BY <1>1 DEF Good, N!Heaps, P
<1> QED
  BY <1>1, <1>2 DEF Good, N!Owned

-------------------------------------------------------------------------------
(* Nodes. *)

(* Every node has two Guards of its own.                                   *)
LEMMA GuardsOfNodes ==
  /\ \A p \in P : N!CommitOf(p) \in N!Guards /\ N!RootOf(p) \in N!Guards
  /\ \A p, q \in P : N!CommitOf(p) # N!RootOf(q)
  /\ \A p, q \in P : p # q => N!CommitOf(p) # N!CommitOf(q) /\ N!RootOf(p) # N!RootOf(q)
  BY DEF P, N!Guards, N!CommitOf, N!RootOf

(* An id is null or points to an object.                                   *)
LEMMA HeapFields ==
  ASSUME NEW h, Good(h), NEW p \in P
  PROVE  /\ h.id[p] \in Objects \union {Null}
         /\ \A x \in N!Guards : h.holds[x] \in Objects \union {Null}
  BY DEF Good, N!Heaps, P

(* The move constructor leaves nothing behind.                             *)
LEMMA MovingNode ==
  ASSUME NEW h, Good(h), NEW to \in P, NEW from \in P, to # from, Clear(h, to),
         NEW k, k = N!MoveNode(h, to, from)
  PROVE  /\ Good(k)
         /\ k.holds[N!CommitOf(to)] = h.holds[N!CommitOf(from)]
         /\ k.holds[N!RootOf(to)] = h.holds[N!RootOf(from)]
         /\ k.id[to] = h.id[from]
         /\ Clear(k, from) /\ k.id[from] = Null
         /\ \A p \in P \ {to, from} : Same(h, k, p)
         /\ k.live = h.live
<1> DEFINE h1 == N!Move(h, N!CommitOf(to), N!CommitOf(from))
           h2 == N!Move(h1, N!RootOf(to), N!RootOf(from))
           h3 == N!SetId(h2, to, h.id[from])
<1>1. k = N!SetId(h3, from, Null)
  BY DEF N!MoveNode
<1>2. /\ Good(h1) /\ h1.holds[N!CommitOf(to)] = h.holds[N!CommitOf(from)]
      /\ h1.holds[N!CommitOf(from)] = Null
      /\ \A x \in N!Guards \ {N!CommitOf(to), N!CommitOf(from)} : h1.holds[x] = h.holds[x]
      /\ h1.id = h.id /\ h1.live = h.live
  BY GuardsOfNodes, Moving DEF Clear
<1>3. h1.holds[N!RootOf(to)] = Null
  BY <1>2, GuardsOfNodes DEF Clear
<1> HIDE DEF h1
<1>4. /\ Good(h2) /\ h2.holds[N!RootOf(to)] = h1.holds[N!RootOf(from)]
      /\ h2.holds[N!RootOf(from)] = Null
      /\ \A x \in N!Guards \ {N!RootOf(to), N!RootOf(from)} : h2.holds[x] = h1.holds[x]
      /\ h2.id = h1.id /\ h2.live = h1.live
  BY <1>2, <1>3, GuardsOfNodes, Moving
<1> HIDE DEF h2
<1>5. /\ Good(h3) /\ h3.holds = h2.holds /\ h3.live = h2.live
      /\ h3.id[to] = h.id[from] /\ \A x \in P \ {to} : h3.id[x] = h2.id[x]
  BY <1>4, HeapFields, SettingId
<1> HIDE DEF h3
<1>6. /\ Good(k) /\ k.holds = h3.holds /\ k.live = h3.live
      /\ k.id[from] = Null /\ \A x \in P \ {from} : k.id[x] = h3.id[x]
  BY <1>1, <1>5, SettingId
<1> QED
  BY <1>2, <1>4, <1>5, <1>6, GuardsOfNodes DEF Clear, Same

(* Move assignment does, but for the id of the other node.                 *)
LEMMA AssigningNode ==
  ASSUME NEW h, Good(h), NEW to \in P, NEW from \in P, to # from,
         NEW k, k = N!AssignNode(h, to, from)
  PROVE  /\ Good(k)
         /\ k.holds[N!CommitOf(to)] = h.holds[N!CommitOf(from)]
         /\ k.holds[N!RootOf(to)] = h.holds[N!RootOf(from)]
         /\ k.id[to] = h.id[from]
         /\ Clear(k, from)
         /\ \A p \in P \ {to, from} : Same(h, k, p)
         /\ k.live \subseteq h.live
<1> DEFINE h1 == N!SetId(h, to, h.id[from])
           h2 == N!Take(h1, N!CommitOf(to), N!CommitOf(from))
<1>1. k = N!Take(h2, N!RootOf(to), N!RootOf(from))
  BY DEF N!AssignNode
<1>2. /\ Good(h1) /\ h1.holds = h.holds /\ h1.live = h.live
      /\ h1.id[to] = h.id[from] /\ \A x \in P \ {to} : h1.id[x] = h.id[x]
  BY HeapFields, SettingId
<1> HIDE DEF h1
<1>3. Took(h1, h2, N!CommitOf(to), N!CommitOf(from)) /\ Good(h2)
  BY <1>2, GuardsOfNodes, Taking DEF Took
<1> HIDE DEF h2
<1>4. Took(h2, k, N!RootOf(to), N!RootOf(from))
  BY <1>1, <1>3, GuardsOfNodes, Taking
<1> QED
  BY <1>2, <1>3, <1>4, GuardsOfNodes DEF Clear, Same, Took

(* A node that ends frees what it owns.                                    *)
LEMMA DestroyingNode ==
  ASSUME NEW h, Good(h), NEW p \in P, NEW k, k = N!DestroyNode(h, p)
  PROVE  /\ Good(k) /\ Clear(k, p) /\ k.id[p] = Null
         /\ \A q \in P \ {p} : Same(h, k, q)
         /\ k.live \subseteq h.live
<1> DEFINE h1 == N!InnerDestruct(h, N!RootOf(p))
           h2 == N!InnerDestruct(h1, N!CommitOf(p))
<1>1. k = N!SetId(h2, p, Null)
  BY DEF N!DestroyNode
<1>2. /\ Good(h1) /\ h1.holds[N!RootOf(p)] = Null
      /\ \A x \in N!Guards \ {N!RootOf(p)} : h1.holds[x] = h.holds[x]
      /\ h1.id = h.id /\ h1.live \subseteq h.live
  BY GuardsOfNodes, Destructing
<1> HIDE DEF h1
<1>3. /\ Good(h2) /\ h2.holds[N!CommitOf(p)] = Null
      /\ \A x \in N!Guards \ {N!CommitOf(p)} : h2.holds[x] = h1.holds[x]
      /\ h2.id = h1.id /\ h2.live \subseteq h1.live
  BY <1>2, GuardsOfNodes, Destructing
<1> HIDE DEF h2
<1>4. /\ Good(k) /\ k.holds = h2.holds /\ k.live = h2.live
      /\ k.id[p] = Null /\ \A x \in P \ {p} : k.id[x] = h2.id[x]
  BY <1>1, <1>3, SettingId
<1> QED
  BY <1>2, <1>3, <1>4, GuardsOfNodes DEF Clear, Same

(* There is room for a node: for a commit, and for a tree after that.      *)
LEMMA RoomForTwo ==
  ASSUME NEW h, N!HasRoom(h)
  PROVE  /\ \E o \in Objects : o \notin h.live
         /\ \A o1 \in Objects : \A L : L \subseteq h.live \union {o1} => \E o2 \in Objects : o2 \notin L
  BY DEF N!HasRoom

(* A new commit in the locals.                                             *)
LEMMA LookingUp ==
  ASSUME NEW h, Good(h), Clear(h, "new"), N!HasRoom(h), NEW k, k = N!LookUp(h)
  PROVE  /\ Good(k) /\ k.holds[N!CommitOf("new")] # Null
         /\ k.holds[N!RootOf("new")] = Null /\ k.id = h.id
         /\ \A p \in P \ {"new"} : Same(h, k, p)
         /\ \E o1 \in Objects : k.live = h.live \union {o1}
<1>1. k = N!Construct(h, N!CommitOf("new")) /\ "new" \in P
  BY DEF N!LookUp, P
<1>2. /\ Good(k) /\ k.holds[N!CommitOf("new")] # Null
      /\ \A x \in N!Guards \ {N!CommitOf("new")} : k.holds[x] = h.holds[x]
      /\ k.id = h.id /\ \E o1 \in Objects : k.live = h.live \union {o1}
  BY <1>1, RoomForTwo, GuardsOfNodes, Constructing DEF Clear
<1> QED
  BY <1>1, <1>2, GuardsOfNodes DEF Clear, Same

(* Node::update(): both are new, or nothing would have changed.            *)
LEMMA Updating ==
  ASSUME NEW h, Good(h), Clear(h, "new"), N!HasRoom(h), NEW p \in P \ {"new"},
         NEW k, k = N!Update(h, p)
  PROVE  /\ Good(k) /\ k.holds[N!CommitOf(p)] # Null /\ N!OwnId(k, p)
         /\ Clear(k, "new") /\ k.id["new"] = h.id["new"]
         /\ \A q \in P \ {p, "new"} : Same(h, k, q)
<1> DEFINE h1 == N!LookUp(h)
           h2 == N!Construct(h1, N!RootOf("new"))
           o == h2.holds[N!CommitOf("new")]
           h3 == N!SetId(h2, p, o)
           h4 == N!Take(h3, N!CommitOf(p), N!CommitOf("new"))
<1>1. k = N!Take(h4, N!RootOf(p), N!RootOf("new")) /\ "new" \in P
  BY DEF N!Update, P
<1>2. /\ Good(h1) /\ h1.holds[N!CommitOf("new")] # Null /\ h1.holds[N!RootOf("new")] = Null
      /\ h1.id = h.id /\ \A q \in P \ {"new"} : Same(h, h1, q)
      /\ \E o1 \in Objects : h1.live = h.live \union {o1}
  BY LookingUp
<1>3. \E o2 \in Objects : o2 \notin h1.live
  BY <1>2, RoomForTwo
<1> HIDE DEF h1
<1>4. /\ Good(h2) /\ h2.holds[N!RootOf("new")] # Null
      /\ \A x \in N!Guards \ {N!RootOf("new")} : h2.holds[x] = h1.holds[x]
      /\ h2.id = h1.id
  BY <1>1, <1>2, <1>3, GuardsOfNodes, Constructing
<1> HIDE DEF h2
<1>5. o \in Objects \union {Null} /\ o # Null
  BY <1>1, <1>2, <1>4, GuardsOfNodes, HeapFields
<1>6. /\ Good(h3) /\ h3.holds = h2.holds
      /\ h3.id[p] = o /\ \A x \in P \ {p} : h3.id[x] = h2.id[x]
  BY <1>4, <1>5, SettingId
<1> HIDE DEF h3
<1>7. Took(h3, h4, N!CommitOf(p), N!CommitOf("new"))
  BY <1>1, <1>6, GuardsOfNodes, Taking
<1>8. Good(h4) /\ h4.holds[N!CommitOf(p)] = o
  BY <1>6, <1>7 DEF Took
<1> HIDE DEF h4, o
<1>9. Took(h4, k, N!RootOf(p), N!RootOf("new"))
  BY <1>1, <1>8, GuardsOfNodes, Taking
<1>10. k.holds[N!CommitOf(p)] = o /\ k.id[p] = o /\ Clear(k, "new")
  BY <1>1, <1>6, <1>7, <1>8, <1>9, GuardsOfNodes DEF Clear, Took
<1>11. ASSUME NEW q \in P \ {p, "new"}
       PROVE  Same(h, k, q)
  <2>1. /\ N!CommitOf(q) \in N!Guards \ {N!CommitOf(p), N!CommitOf("new")}
        /\ N!CommitOf(q) \in N!Guards \ {N!RootOf(p), N!RootOf("new")}
        /\ N!RootOf(q) \in N!Guards \ {N!CommitOf(p), N!CommitOf("new")}
        /\ N!RootOf(q) \in N!Guards \ {N!RootOf(p), N!RootOf("new")}
    BY <1>1, GuardsOfNodes
  <2> QED
    BY <1>2, <1>4, <1>6, <1>7, <1>9, <2>1 DEF Same, Took
<1> QED
  BY <1>1, <1>2, <1>4, <1>5, <1>6, <1>7, <1>10, <1>11, <1>9 DEF N!OwnId, Took

(* Node::init() after its first half: the new commit with the old tree.    *)
LEMMA InitingCommit ==
  ASSUME NEW h, Good(h), Clear(h, "new"), N!HasRoom(h), NEW p \in P \ {"new"},
         NEW k, k = N!InitCommit(h, p)
  PROVE  /\ Good(k) /\ k.holds[N!CommitOf(p)] # Null /\ N!OwnId(k, p)
         /\ Clear(k, "new") /\ k.id["new"] = h.id["new"]
         /\ \A q \in P \ {p, "new"} : Same(h, k, q)
         /\ \E o2 \in Objects : o2 \notin k.live
<1> DEFINE h1 == N!LookUp(h)
           h2 == N!Take(h1, N!CommitOf(p), N!CommitOf("new"))
           o == h2.holds[N!CommitOf(p)]
<1>1. k = N!SetId(h2, p, o) /\ "new" \in P
  BY DEF N!InitCommit, P
<1>2. /\ Good(h1) /\ h1.holds[N!CommitOf("new")] # Null /\ h1.holds[N!RootOf("new")] = Null
      /\ h1.id = h.id /\ \A q \in P \ {"new"} : Same(h, h1, q)
      /\ \E o1 \in Objects : h1.live = h.live \union {o1}
  BY LookingUp
<1> HIDE DEF h1
<1>3. Took(h1, h2, N!CommitOf(p), N!CommitOf("new"))
  BY <1>1, <1>2, GuardsOfNodes, Taking
<1> HIDE DEF h2
<1>4. /\ Good(h2) /\ o # Null /\ h2.holds[N!CommitOf("new")] = Null
      /\ \A x \in N!Guards \ {N!CommitOf(p), N!CommitOf("new")} : h2.holds[x] = h1.holds[x]
      /\ h2.id = h1.id /\ h2.live \subseteq h1.live
  BY <1>2, <1>3 DEF Took
<1>5. o \in Objects \union {Null}
  BY <1>4, GuardsOfNodes, HeapFields
<1>6. /\ Good(k) /\ k.holds = h2.holds /\ k.live = h2.live
      /\ k.id[p] = o /\ \A x \in P \ {p} : k.id[x] = h2.id[x]
  BY <1>1, <1>4, <1>5, SettingId
<1>7. ASSUME NEW q \in P \ {p, "new"}
      PROVE  Same(h, k, q)
  <2>1. /\ N!CommitOf(q) \in N!Guards \ {N!CommitOf(p), N!CommitOf("new")}
        /\ N!RootOf(q) \in N!Guards \ {N!CommitOf(p), N!CommitOf("new")}
    BY <1>1, GuardsOfNodes
  <2> QED
    BY <1>2, <1>4, <1>6, <2>1 DEF Same
<1>8. \E o2 \in Objects : o2 \notin k.live
  BY <1>2, <1>4, <1>6, RoomForTwo
<1>9. Clear(k, "new")
  BY <1>1, <1>2, <1>4, <1>6, GuardsOfNodes DEF Clear
<1> QED
  BY <1>1, <1>2, <1>4, <1>6, <1>7, <1>8, <1>9 DEF N!OwnId

(* Node::init() as a whole.                                                *)
LEMMA Initing ==
  ASSUME NEW h, Good(h), Clear(h, "new"), N!HasRoom(h), NEW p \in P \ {"new"},
         NEW k, k = N!Init(h, p)
  PROVE  /\ Good(k) /\ k.holds[N!CommitOf(p)] # Null /\ N!OwnId(k, p)
         /\ Clear(k, "new") /\ k.id["new"] = h.id["new"]
         /\ \A q \in P \ {p, "new"} : Same(h, k, q)
<1> DEFINE h1 == N!InitCommit(h, p)
           h2 == N!Construct(h1, N!RootOf("new"))
<1>1. k = N!Take(h2, N!RootOf(p), N!RootOf("new")) /\ "new" \in P
  BY DEF N!Init, P
<1>2. /\ Good(h1) /\ h1.holds[N!CommitOf(p)] # Null /\ N!OwnId(h1, p)
      /\ Clear(h1, "new") /\ h1.id["new"] = h.id["new"]
      /\ \A q \in P \ {p, "new"} : Same(h, h1, q)
      /\ \E o2 \in Objects : o2 \notin h1.live
  BY InitingCommit
<1> HIDE DEF h1
<1>3. /\ Good(h2) /\ \A x \in N!Guards \ {N!RootOf("new")} : h2.holds[x] = h1.holds[x]
      /\ h2.id = h1.id
  BY <1>1, <1>2, GuardsOfNodes, Constructing DEF Clear
<1> HIDE DEF h2
<1>4. Took(h2, k, N!RootOf(p), N!RootOf("new"))
  BY <1>1, <1>3, GuardsOfNodes, Taking
<1>5. ASSUME NEW q \in P \ {p, "new"}
      PROVE  Same(h, k, q)
  <2>1. /\ N!CommitOf(q) \in N!Guards \ {N!RootOf(p), N!RootOf("new")}
        /\ N!RootOf(q) \in N!Guards \ {N!RootOf(p), N!RootOf("new")}
    BY <1>1, GuardsOfNodes
  <2> QED
    BY <1>2, <1>3, <1>4, <2>1 DEF Same, Took
<1>6. /\ k.holds[N!CommitOf(p)] = h1.holds[N!CommitOf(p)]
      /\ k.holds[N!CommitOf("new")] = Null /\ k.id = h1.id
  BY <1>1, <1>2, <1>3, <1>4, GuardsOfNodes DEF Clear, Took
<1> QED
  BY <1>2, <1>4, <1>5, <1>6 DEF N!OwnId, Clear, Took

-------------------------------------------------------------------------------
(* Results. *)

HasCommit(h, p) == h.holds[N!CommitOf(p)] # Null

(* Between two calls.                                                      *)
Tidy(h) ==
  /\ Good(h) /\ Clear(h, "res") /\ Clear(h, "new")
  /\ \A p \in P : N!OwnId(h, p)

(* A Result as it can be in a variable or a chain.                         *)
Proper(r) == r \in Results /\ (~r.ok => r = Error(r.type))

(* The invariant, as the proofs use it.                                    *)
LEMMA InvParts ==
  ChainInv <=> /\ TypeOK /\ Tidy(heap)
               /\ HasCommit(heap, "reg") <=> reg.at # 0
               /\ HasCommit(heap, "tmp") <=> tmp.at # 0
               /\ tmp = NoResult => Clear(heap, "tmp")
<1>1. ASSUME ChainInv
      PROVE  /\ TypeOK /\ Tidy(heap)
             /\ HasCommit(heap, "reg") <=> reg.at # 0
             /\ HasCommit(heap, "tmp") <=> tmp.at # 0
             /\ tmp = NoResult => Clear(heap, "tmp")
  <2>1. /\ Clear(heap, "res") /\ Clear(heap, "new")
        /\ HasCommit(heap, "reg") <=> reg.at # 0
        /\ HasCommit(heap, "tmp") <=> tmp.at # 0
    BY <1>1 DEF ChainInv, OneOwner, IdOfOwnCommit, Clear, HasCommit, N!CommitOf, N!RootOf
  <2>2. \A p \in P : N!OwnId(heap, p)
    BY <1>1, <2>1 DEF ChainInv, IdOfOwnCommit, P, Clear, N!OwnId
  <2>3. tmp = NoResult => Clear(heap, "tmp")
    BY <1>1, <2>1 DEF ChainInv, Clear, HasCommit, NoResult, Error
  <2> QED
    BY <1>1, <2>1, <2>2, <2>3 DEF ChainInv, TypeOK, OneOwner, Tidy, Good
<1>2. ASSUME TypeOK, Tidy(heap),
             HasCommit(heap, "reg") <=> reg.at # 0,
             HasCommit(heap, "tmp") <=> tmp.at # 0,
             tmp = NoResult => Clear(heap, "tmp")
      PROVE  ChainInv
  <2>1. OneOwner
    BY <1>2 DEF OneOwner, Tidy, Good, Clear, N!CommitOf, N!RootOf
  <2>2. IdOfOwnCommit
    BY <1>2 DEF IdOfOwnCommit, Tidy, P, HasCommit
  <2>3. \A p \in {"res", "new"} : heap.id[p] = Null
    BY <1>2 DEF Tidy, P, N!OwnId, Clear
  <2> QED
    BY <1>2, <2>1, <2>2, <2>3 DEF ChainInv, Clear
<1> QED
  BY <1>1, <1>2

(* What the next call is made on.                                          *)
LEMMA OperandFacts ==
  ASSUME ChainInv
  PROVE  /\ Here \in {"reg", "tmp"} /\ Here \in P /\ Here # "res" /\ Here # "new"
         /\ Proper(Operand) /\ Proper(reg) /\ Proper(tmp)
         /\ HasCommit(heap, Here) <=> Operand.at # 0
         /\ Here = "reg" => tmp = NoResult /\ Operand = reg /\ Clear(heap, "tmp")
         /\ Here = "tmp" => tmp # NoResult /\ Operand = tmp
         /\ Tidy(heap) /\ Good(heap) /\ Clear(heap, "new") /\ Clear(heap, "res")
<1>1. /\ TypeOK /\ Tidy(heap)
      /\ HasCommit(heap, "reg") <=> reg.at # 0
      /\ HasCommit(heap, "tmp") <=> tmp.at # 0
      /\ tmp = NoResult => Clear(heap, "tmp")
  BY InvParts
<1>2. Proper(reg) /\ Proper(tmp)
  BY <1>1 DEF TypeOK, Proper
<1>3. CASE tmp = NoResult
  BY <1>1, <1>2, <1>3 DEF Here, Operand, P, Tidy
<1>4. CASE tmp # NoResult
  BY <1>1, <1>2, <1>4 DEF Here, Operand, P, Tidy
<1> QED
  BY <1>3, <1>4

(* What a call has made of the heap, when r has become of its operand.     *)
Fits(h, r) ==
  /\ Tidy(h)
  /\ HasCommit(h, Here) <=> r.at # 0
  /\ \A p \in {"reg", "tmp"} \ {Here} : Same(heap, h, p)

(* What has become of variable, temporary and heap is in order.            *)
ResultsInv ==
  /\ Proper(reg) /\ Proper(tmp) /\ Tidy(heap)
  /\ HasCommit(heap, "reg") <=> reg.at # 0
  /\ HasCommit(heap, "tmp") <=> tmp.at # 0
  /\ tmp = NoResult => Clear(heap, "tmp")

(* The rest of the type invariant.                                         *)
RestInv ==
  /\ db \in Branches \union {NoRef}
  /\ dag \in Seq([parent: 0..MaxCommits, updates: Seq(Updates)])
  /\ refs \in [Branches -> Commits \union {0}]
  /\ asked \in 0..MaxUpdates

(* Together these are the invariant.                                       *)
LEMMA Parted == ChainInv <=> ResultsInv /\ RestInv
  BY InvParts DEF ResultsInv, RestInv, TypeOK, Proper, Tidy, Good

(* The same of the next state.                                             *)
LEMMA PartedNext == ChainInv' <=> ResultsInv' /\ RestInv'
  BY Parted, PTL

(* The heap of a call that leaves the node of its operand alone fits.      *)
LEMMA FitsAsItIs ==
  ASSUME ChainInv, NEW r, r.at = Operand.at
  PROVE  Fits(heap, r)
  BY OperandFacts DEF Fits, Same

(* A tidy heap stays tidy when a node gets another commit.                 *)
LEMMA NewCommitTidy ==
  ASSUME NEW h, Tidy(h), N!HasRoom(h), NEW p \in {"reg", "tmp"},
         NEW k, k = N!Update(h, p) \/ k = N!Init(h, p) \/ k = N!InitCommit(h, p)
  PROVE  Tidy(k) /\ HasCommit(k, p) /\ \A q \in {"reg", "tmp"} \ {p} : Same(h, k, q)
<1>1. /\ Good(h) /\ Clear(h, "new") /\ Clear(h, "res") /\ p \in P \ {"new"}
      /\ p # "res" /\ \A q \in P : N!OwnId(h, q)
  BY DEF Tidy, P
<1>2. /\ Good(k) /\ k.holds[N!CommitOf(p)] # Null /\ N!OwnId(k, p)
      /\ Clear(k, "new") /\ k.id["new"] = h.id["new"]
      /\ \A q \in P \ {p, "new"} : Same(h, k, q)
  <2>1. CASE k = N!Update(h, p)
    BY <1>1, <2>1, Updating
  <2>2. CASE k = N!Init(h, p)
    BY <1>1, <2>2, Initing
  <2>3. CASE k = N!InitCommit(h, p)
    BY <1>1, <2>3, InitingCommit
  <2> QED
    BY <2>1, <2>2, <2>3
<1>3. Clear(k, "res")
  BY <1>1, <1>2 DEF Clear, Same, P
<1>4. N!OwnId(k, "new")
  BY <1>1, <1>2 DEF Clear, N!OwnId, P
<1>5. \A q \in P \ {p, "new"} : N!OwnId(k, q)
  BY <1>1, <1>2 DEF Same, N!OwnId
<1>6. \A q \in {"reg", "tmp"} \ {p} : Same(h, k, q)
  BY <1>2 DEF P
<1> QED
  BY <1>2, <1>3, <1>4, <1>5, <1>6 DEF Tidy, HasCommit

(* The heap of a call that looked up a commit fits.                        *)
LEMMA FitsNewCommit ==
  ASSUME ChainInv, N!HasRoom(heap), NEW r, r.at # 0,
         NEW h, h = N!Update(heap, Here) \/ h = N!Init(heap, Here) \/ h = N!InitCommit(heap, Here)
  PROVE  Fits(h, r)
<1>1. Here \in {"reg", "tmp"} /\ Tidy(heap)
  BY OperandFacts
<1>2. Tidy(h) /\ HasCommit(h, Here) /\ \A q \in {"reg", "tmp"} \ {Here} : Same(heap, h, q)
  BY <1>1, NewCommitTidy
<1> QED
  BY <1>2 DEF Fits

(* And that of a call that has destroyed the node.                         *)
LEMMA FitsDestroyed ==
  ASSUME ChainInv, NEW r, r.at = 0, NEW h, h = N!DestroyNode(heap, Here)
  PROVE  Fits(h, r)
<1>1. /\ Good(heap) /\ Clear(heap, "new") /\ Clear(heap, "res") /\ Here \in P
      /\ Here # "res" /\ Here # "new" /\ \A q \in P : N!OwnId(heap, q)
  BY OperandFacts DEF Tidy
<1>2. /\ Good(h) /\ Clear(h, Here) /\ h.id[Here] = Null
      /\ \A q \in P \ {Here} : Same(heap, h, q)
  BY <1>1, DestroyingNode
<1>3. Clear(h, "res") /\ Clear(h, "new")
  BY <1>1, <1>2 DEF Clear, Same, P
<1>4. \A q \in P : N!OwnId(h, q)
  BY <1>1, <1>2 DEF Clear, Same, N!OwnId
<1>5. \A q \in {"reg", "tmp"} \ {Here} : Same(heap, h, q)
  BY <1>2 DEF P
<1> QED
  BY <1>2, <1>3, <1>4, <1>5 DEF Fits, Tidy, HasCommit, Clear

(* A tidy heap stays tidy when a node is destroyed.                        *)
LEMMA DestroyedTidy ==
  ASSUME NEW h, Tidy(h), NEW p \in {"reg", "tmp"}, NEW k, k = N!DestroyNode(h, p)
  PROVE  Tidy(k) /\ Clear(k, p) /\ \A q \in {"reg", "tmp"} \ {p} : Same(h, k, q)
<1>1. /\ Good(k) /\ Clear(k, p) /\ k.id[p] = Null /\ p \in P
      /\ \A q \in P \ {p} : Same(h, k, q)
  BY DestroyingNode DEF Tidy, P
<1>2. Clear(k, "res") /\ Clear(k, "new")
  BY <1>1 DEF Tidy, Clear, Same, P
<1>3. \A q \in P : N!OwnId(k, q)
  BY <1>1 DEF Tidy, Clear, Same, N!OwnId
<1> QED
  BY <1>1, <1>2, <1>3 DEF Tidy, P

(* Node q of heap k is what node p of heap h was.                          *)
Became(h, p, k, q) ==
  /\ k.holds[N!CommitOf(q)] = h.holds[N!CommitOf(p)]
  /\ k.holds[N!RootOf(q)] = h.holds[N!RootOf(p)]
  /\ k.id[q] = h.id[p]

(* A Result is moved out of its operand and assigned back to it.           *)
LEMMA ThereAndBack ==
  ASSUME NEW h, Tidy(h),
         NEW k, k = N!DestroyNode(N!AssignNode(N!MoveNode(h, "res", "reg"), "reg", "res"), "res")
  PROVE  Tidy(k) /\ Became(h, "reg", k, "reg") /\ Same(h, k, "tmp")
<1> DEFINE h1 == N!MoveNode(h, "res", "reg")
           h2 == N!AssignNode(h1, "reg", "res")
<1>1. {"reg", "res", "tmp", "new"} \subseteq P /\ P \subseteq {"reg", "res", "tmp", "new"}
  BY DEF P
<1>2. /\ Good(h1) /\ Became(h, "reg", h1, "res")
      /\ \A q \in P \ {"res", "reg"} : Same(h, h1, q)
  BY <1>1, MovingNode DEF Tidy, Became
<1> HIDE DEF h1
<1>3. /\ Good(h2) /\ Became(h1, "res", h2, "reg")
      /\ \A q \in P \ {"res", "reg"} : Same(h1, h2, q)
  BY <1>1, <1>2, AssigningNode DEF Became
<1> HIDE DEF h2
<1>4. /\ Good(k) /\ Clear(k, "res") /\ k.id["res"] = Null
      /\ \A q \in P \ {"res"} : Same(h2, k, q)
  BY <1>1, <1>3, DestroyingNode DEF h2, h1
<1>5. Became(h, "reg", k, "reg") /\ Same(h, k, "tmp") /\ Same(h, k, "new")
  BY <1>1, <1>2, <1>3, <1>4 DEF Became, Same
<1>6. Clear(k, "new") /\ \A q \in P : N!OwnId(k, q)
  BY <1>1, <1>4, <1>5 DEF Tidy, Clear, Same, Became, N!OwnId
<1> QED
  BY <1>4, <1>5, <1>6 DEF Tidy

(* A Result is moved out of its operand and lives on as the temporary.     *)
LEMMA OutOf ==
  ASSUME NEW h, Tidy(h), NEW p \in {"reg", "tmp"},
         NEW k, k = N!MoveNode(N!DestroyNode(N!MoveNode(h, "res", p), "tmp"), "tmp", "res")
  PROVE  /\ Tidy(k) /\ Became(h, p, k, "tmp")
         /\ p = "reg" => Clear(k, "reg")
         /\ p = "tmp" => Same(h, k, "reg")
<1> DEFINE h1 == N!MoveNode(h, "res", p)
           h2 == N!DestroyNode(h1, "tmp")
<1>1. {"reg", "res", "tmp", "new"} \subseteq P /\ P \subseteq {"reg", "res", "tmp", "new"}
  BY DEF P
<1>2. /\ Good(h1) /\ Became(h, p, h1, "res") /\ Clear(h1, p) /\ h1.id[p] = Null
      /\ \A q \in P \ {"res", p} : Same(h, h1, q)
  BY <1>1, MovingNode DEF Tidy, Became
<1> HIDE DEF h1
<1>3. /\ Good(h2) /\ Clear(h2, "tmp") /\ h2.id["tmp"] = Null
      /\ \A q \in P \ {"tmp"} : Same(h1, h2, q)
  BY <1>1, <1>2, DestroyingNode
<1> HIDE DEF h2
<1>4. /\ Good(k) /\ Became(h2, "res", k, "tmp") /\ Clear(k, "res") /\ k.id["res"] = Null
      /\ \A q \in P \ {"tmp", "res"} : Same(h2, k, q)
  BY <1>1, <1>3, MovingNode DEF Became, h2, h1
<1>5. Became(h, p, k, "tmp") /\ Same(h, k, "new")
  BY <1>1, <1>2, <1>3, <1>4 DEF Became, Same
<1>6. /\ p = "reg" => Clear(k, "reg") /\ k.id["reg"] = Null
      /\ p = "tmp" => Same(h, k, "reg")
  BY <1>1, <1>2, <1>3, <1>4 DEF Same, Clear
<1>7. Clear(k, "new") /\ \A q \in P : N!OwnId(k, q)
  BY <1>1, <1>4, <1>5, <1>6 DEF Tidy, Clear, Same, Became, N!OwnId
<1> QED
  BY <1>4, <1>5, <1>6, <1>7 DEF Tidy

(* What a move leaves behind is a Result of the same kind.                 *)
LEMMA MovingFrom ==
  ASSUME NEW r, Proper(r), r \in Results'
  PROVE  /\ MovedFrom(r) \in Results' /\ MovedFrom(r).at = 0
         /\ ~MovedFrom(r).ok => MovedFrom(r) = Error(MovedFrom(r).type)
<1>1. << >> \in Seq(Updates) /\ NoRef \in Branches \union {NoRef}
  OBVIOUS
<1>2. MovedFrom(r) = [type |-> r.type, ok |-> r.ok, ref |-> NoRef,
                      at |-> 0, root |-> 0, updates |-> << >>]
  BY DEF MovedFrom, Error
<1>3. MovedFrom(r) \in Results' /\ MovedFrom(r).at = 0
  BY <1>1, <1>2 DEF Results
<1>4. ~r.ok => r.ok = FALSE
  BY DEF Results
<1>5. MovedFrom(r).ok = r.ok /\ MovedFrom(r).type = r.type
  BY <1>2
<1>6. ~r.ok => MovedFrom(r) = Error(r.type)
  BY <1>2, <1>4 DEF Error
<1> QED
  BY <1>3, <1>5, <1>6

(* A call that succeeds leaves everything in order.                        *)
LEMMA Returning ==
  ASSUME ChainInv, NEW type \in Types \union {"none"}, NEW r, r \in Results', r.ok,
         NEW h, Fits(h, r), reg \in Results', tmp \in Results', Return(type, r, h)
  PROVE  ResultsInv'
<1> DEFINE q == [r EXCEPT !.type = type]
<1>1. q \in Results' /\ q.ok = r.ok /\ q.at = r.at
  BY DEF Results
<1>2. Tidy(h) /\ (HasCommit(h, Here) <=> r.at # 0)
      /\ \A p \in {"reg", "tmp"} \ {Here} : Same(heap, h, p)
  BY DEF Fits
<1>3. CASE AssignsBack(type)
  <2>1. /\ Here = "reg" /\ reg' = q /\ tmp' = tmp
        /\ heap' = N!DestroyNode(N!AssignNode(N!MoveNode(h, "res", "reg"), "reg", "res"), "res")
    BY <1>3 DEF Return, AssignsBack
  <2> HIDE DEF q
  <2>2. Tidy(heap') /\ Became(h, "reg", heap', "reg") /\ Same(h, heap', "tmp")
    BY <1>2, <2>1, ThereAndBack
  <2>3. tmp = NoResult /\ Clear(heap, "tmp") /\ Proper(tmp) /\ Same(heap, h, "tmp")
    BY <1>2, <2>1, OperandFacts
  <2>4. Clear(heap', "tmp") /\ tmp.at = 0
    BY <2>2, <2>3 DEF Clear, Same, NoResult, Error
  <2>5. HasCommit(heap', "reg") <=> q.at # 0
    BY <1>1, <1>2, <2>1, <2>2 DEF HasCommit, Became
  <2> QED
    BY <1>1, <2>1, <2>2, <2>3, <2>4, <2>5 DEF ResultsInv, Proper, HasCommit, Clear, Error
<1>4. CASE ~AssignsBack(type)
  <2>1. /\ reg' = (IF Here = "reg" THEN MovedFrom(reg) ELSE reg) /\ tmp' = q
        /\ heap' = N!MoveNode(N!DestroyNode(N!MoveNode(h, "res", Here), "tmp"), "tmp", "res")
    BY <1>4 DEF Return
  <2> HIDE DEF q
  <2>2. /\ Tidy(heap') /\ Became(h, Here, heap', "tmp")
        /\ Here = "reg" => Clear(heap', "reg")
        /\ Here = "tmp" => Same(h, heap', "reg")
    BY <1>2, <2>1, OperandFacts, OutOf
  <2>3. HasCommit(heap', "tmp") <=> q.at # 0
    BY <1>1, <1>2, <2>2 DEF HasCommit, Became
  <2>4. tmp' \in Results' /\ tmp'.ok
    BY <1>1, <2>1
  <2> tmp' # NoResult
    BY <2>4 DEF NoResult, Error
  <2> Proper(tmp)'
    BY <2>4 DEF Proper
  <2>5. Proper(reg)' /\ (HasCommit(heap', "reg") <=> reg'.at # 0)
    <3>1. CASE Here = "reg"
      <4>1. reg' = MovedFrom(reg) /\ Operand = reg
        BY <2>1, <3>1, OperandFacts
      <4>2. /\ MovedFrom(reg) \in Results' /\ MovedFrom(reg).at = 0
            /\ ~MovedFrom(reg).ok => MovedFrom(reg) = Error(MovedFrom(reg).type)
        BY <4>1, OperandFacts, MovingFrom
      <4> QED
        BY <2>2, <3>1, <4>1, <4>2 DEF Proper, HasCommit, Clear
    <3>2. CASE Here = "tmp"
      <4>1. reg' = reg /\ Proper(reg) /\ Same(heap, h, "reg") /\ Same(h, heap', "reg")
        BY <1>2, <2>1, <2>2, <3>2, OperandFacts
      <4> QED
        BY <4>1, InvParts DEF Proper, HasCommit, Same
    <3> QED
      BY <3>1, <3>2, OperandFacts
  <2> QED
    BY <2>1, <2>2, <2>3, <2>4, <2>5 DEF ResultsInv
<1> QED
  BY <1>3, <1>4

(* So does one that fails, whatever is left of its operand.                *)
LEMMA Refusing ==
  ASSUME ChainInv, NEW type \in Types \union {"none"}, NEW r, Proper(r),
         NEW h, Fits(h, r), Results \subseteq Results', Refuse(type, r, h)
  PROVE  ResultsInv'
<1>1. Tidy(h) /\ (HasCommit(h, Here) <=> r.at # 0)
      /\ \A p \in {"reg", "tmp"} \ {Here} : Same(heap, h, p)
  BY DEF Fits
<1>2. Error(type) \in Results' /\ Error(type).at = 0 /\ Error(type) = Error(Error(type).type)
  BY DEF Results, Error
<1>3. r \in Results' /\ reg \in Results' /\ tmp \in Results' /\ Proper(reg) /\ Proper(tmp)
  BY OperandFacts DEF Proper
<1>4. CASE AssignsBack(type)
  <2>1. Here = "reg" /\ reg' = Error(type) /\ heap' = N!DestroyNode(h, "reg") /\ tmp' = tmp
    BY <1>4 DEF Refuse, AssignsBack
  <2>2. Tidy(heap') /\ Clear(heap', "reg") /\ Same(h, heap', "tmp")
    BY <1>1, <2>1, DestroyedTidy
  <2>3. tmp = NoResult /\ Clear(heap, "tmp") /\ Same(heap, h, "tmp")
    BY <1>1, <2>1, OperandFacts
  <2>4. Clear(heap', "tmp") /\ tmp.at = 0
    BY <2>2, <2>3 DEF Clear, Same, NoResult, Error
  <2> QED
    BY <1>2, <1>3, <2>1, <2>2, <2>4 DEF ResultsInv, Proper, HasCommit, Clear
<1>5. CASE ~AssignsBack(type) /\ Here = "reg"
  <2>1. reg' = r /\ tmp' = Error(type) /\ heap' = h
    BY <1>5 DEF Refuse
  <2>2. Clear(heap, "tmp") /\ Same(heap, h, "tmp")
    BY <1>1, <1>5, OperandFacts
  <2>3. Clear(heap', "tmp")
    BY <2>1, <2>2 DEF Clear, Same
  <2> QED
    BY <1>1, <1>2, <1>3, <1>5, <2>1, <2>3 DEF ResultsInv, Proper, HasCommit, Clear
<1>6. CASE ~AssignsBack(type) /\ Here = "tmp"
  <2>1. reg' = reg /\ tmp' = Error(type) /\ heap' = N!DestroyNode(h, "tmp")
    BY <1>6 DEF Refuse
  <2>2. Tidy(heap') /\ Clear(heap', "tmp") /\ Same(h, heap', "reg")
    BY <1>1, <2>1, DestroyedTidy
  <2>3. Same(heap, h, "reg") /\ (HasCommit(heap, "reg") <=> reg.at # 0)
    BY <1>1, <1>6, InvParts
  <2> QED
    BY <1>2, <1>3, <2>1, <2>2, <2>3 DEF ResultsInv, Proper, HasCommit, Clear, Same
<1> QED
  BY <1>4, <1>5, <1>6, OperandFacts

-------------------------------------------------------------------------------
(* Calls. *)

(* The Results there can be depend on nothing but the commits.             *)
LEMMA SameResults ==
  ASSUME UNCHANGED dag
  PROVE  Results' = Results /\ Commits' = Commits
  BY DEF Results, Commits

(* With another commit there are all the Results there were.               *)
LEMMA MoreResults ==
  ASSUME RestInv, Len(dag) < MaxCommits,
         NEW e \in [parent: Commits \union {0}, updates: Seq(Updates)], dag' = Append(dag, e)
  PROVE  /\ dag' \in Seq([parent: 0..MaxCommits, updates: Seq(Updates)])
         /\ Len(dag') \in Commits' /\ Len(dag') # 0 /\ Commits \subseteq Commits'
         /\ Results \subseteq Results'
<1>1. dag \in Seq([parent: 0..MaxCommits, updates: Seq(Updates)]) /\ Len(dag) \in Nat
  BY DEF RestInv
<1>2. e \in [parent: 0..MaxCommits, updates: Seq(Updates)]
  BY <1>1, BoundAssumption DEF Commits
<1>3. /\ dag' \in Seq([parent: 0..MaxCommits, updates: Seq(Updates)])
      /\ Len(dag') = Len(dag) + 1
  BY <1>1, <1>2
<1>4. Commits = 1..Len(dag) /\ Commits' = 1..Len(dag')
  BY <1>1, <1>3 DEF Commits
<1>5. Len(dag') \in Commits' /\ Len(dag') # 0 /\ Commits \subseteq Commits'
  BY <1>1, <1>3, <1>4
<1>6. ASSUME NEW r \in Results PROVE r \in Results'
  BY <1>5 DEF Results
<1> QED
  BY <1>3, <1>5, <1>6

(* The operand of a call that can be made.                                 *)
LEMMA CallableFacts ==
  ASSUME ChainInv, Callable
  PROVE  /\ Operand \in Results /\ Operand.ok /\ N!HasRoom(heap) /\ RestInv
         /\ reg \in Results /\ tmp \in Results
  BY OperandFacts, Parted DEF Callable, Proper

(* Types of calls. *)
LEMMA TypesOfCalls == {"Context", "ReadContext"} \subseteq Types \union {"none"}
  BY DEF Types

(* A call that is not made, or fails before it does anything.              *)
LEMMA SkipInv ==
  ASSUME ChainInv, NEW type \in Types, Skip(type) \/ Fail(type)
  PROVE  ChainInv'
<1>1. /\ Refuse(type, Operand, heap) /\ UNCHANGED <<db, repository, asked>>
  BY DEF Skip, Fail
<1>2. Fits(heap, Operand) /\ Proper(Operand)
  BY FitsAsItIs, OperandFacts
<1>3. ResultsInv'
  BY <1>1, <1>2, SameResults, Refusing DEF repository
<1>4. RestInv'
  BY <1>1, Parted DEF RestInv, repository, Commits, Updates
<1> QED
  BY <1>3, <1>4, PartedNext

(* Where the branch is found, where its tree is not, and where it is not.  *)
LEMMA SelectBranchInv ==
  ASSUME ChainInv, NEW b \in Branches, SelectBranch(b)
  PROVE  ChainInv'
<1> DEFINE switched == [Operand EXCEPT !.ref = b]
           found == [switched EXCEPT !.at = refs[b], !.root = refs[b]]
           half == [switched EXCEPT !.at = refs[b]]
<1>1. /\ Operand \in Results /\ Operand.ok /\ N!HasRoom(heap) /\ RestInv
      /\ reg \in Results /\ tmp \in Results /\ "Context" \in Types \union {"none"}
  BY CallableFacts, TypesOfCalls DEF SelectBranch
<1>2. db' = b /\ UNCHANGED <<repository, asked>> /\ Results' = Results /\ refs[b] \in Commits \union {0}
  BY <1>1, SameResults DEF SelectBranch, repository, RestInv
<1>3. /\ switched \in Results /\ switched.ok /\ switched.at = Operand.at
      /\ found \in Results /\ found.ok /\ found.at = refs[b]
      /\ half \in Results /\ half.ok /\ half.at = refs[b]
  BY <1>1, <1>2 DEF Results
<1>4. \/ refs[b] # 0 /\ Return("Context", found, N!Init(heap, Here))
      \/ refs[b] # 0 /\ Refuse("Context", half, N!InitCommit(heap, Here))
      \/ Refuse("Context", switched, heap)
  BY DEF SelectBranch
<1> HIDE DEF switched, found, half
<1>5. ResultsInv'
  <2>1. CASE refs[b] # 0 /\ Return("Context", found, N!Init(heap, Here))
    <3>1. Fits(N!Init(heap, Here), found)
      BY <1>1, <1>3, <2>1, FitsNewCommit
    <3> QED
      BY <1>1, <1>2, <1>3, <2>1, <3>1, Returning
  <2>2. CASE refs[b] # 0 /\ Refuse("Context", half, N!InitCommit(heap, Here))
    <3>1. Fits(N!InitCommit(heap, Here), half) /\ Proper(half)
      BY <1>1, <1>3, <2>2, FitsNewCommit DEF Proper
    <3> QED
      BY <1>1, <1>2, <1>3, <2>2, <3>1, Refusing
  <2>3. CASE Refuse("Context", switched, heap)
    <3>1. Fits(heap, switched) /\ Proper(switched)
      BY <1>1, <1>3, <2>3, FitsAsItIs DEF Proper
    <3> QED
      BY <1>1, <1>2, <1>3, <2>3, <3>1, Refusing
  <2> QED
    BY <1>4, <2>1, <2>2, <2>3
<1>6. RestInv'
  BY <1>1, <1>2 DEF RestInv, repository, Commits, Updates
<1> QED
  BY <1>5, <1>6, PartedNext

(* Updates that are collected one by one, or as a set.                     *)
LEMMA CollectInv ==
  ASSUME ChainInv, Collect \/ CollectSet
  PROVE  ChainInv'
<1>1. /\ Operand \in Results /\ Operand.ok /\ RestInv /\ reg \in Results /\ tmp \in Results
      /\ "Context" \in Types \union {"none"}
  BY CallableFacts, TypesOfCalls DEF Collect, CollectSet
<1>2. UNCHANGED <<db, repository>> /\ Results' = Results /\ asked \in 0..MaxUpdates
  BY <1>1, SameResults DEF Collect, CollectSet, repository, RestInv
<1>3. ASSUME NEW us \in Seq(Updates), Return("Context", [Operand EXCEPT !.updates = us], heap)
      PROVE  ResultsInv'
  <2>1. /\ [Operand EXCEPT !.updates = us] \in Results
        /\ [Operand EXCEPT !.updates = us].ok /\ [Operand EXCEPT !.updates = us].at = Operand.at
    BY <1>1 DEF Results
  <2> QED
    BY <1>1, <1>2, <1>3, <2>1, FitsAsItIs, Returning
<1>4. CASE Collect
  <2>1. asked' \in Updates /\ Operand.updates \in Seq(Updates)
    BY <1>1, <1>2, <1>4, BoundAssumption DEF Collect, Updates, Results
  <2>2. /\ Append(Operand.updates, asked') \in Seq(Updates)
        /\ Return("Context", [Operand EXCEPT !.updates = Append(Operand.updates, asked')], heap)
    BY <1>4, <2>1 DEF Collect
  <2>3. ResultsInv'
    BY <1>3, <2>2
  <2>4. asked' \in 0..MaxUpdates
    BY <2>1, BoundAssumption DEF Updates
  <2>5. RestInv'
    BY <1>1, <1>2, <2>4 DEF RestInv, repository, Commits, Updates
  <2> QED
    BY <2>3, <2>5, PartedNext
<1>5. CASE CollectSet
  <2>1. /\ asked + 1 \in Updates /\ asked + 2 \in Updates /\ asked' \in 0..MaxUpdates
        /\ Operand.updates \in Seq(Updates)
    BY <1>1, <1>2, <1>5, BoundAssumption DEF CollectSet, Updates, Results
  <2>2. ResultsInv'
    <3>1. CASE Return("Context",
                      [Operand EXCEPT !.updates = Operand.updates \o <<asked + 1, asked + 2>>], heap)
      <4>1. Operand.updates \o <<asked + 1, asked + 2>> \in Seq(Updates)
        BY <2>1
      <4> QED
        BY <1>3, <3>1, <4>1
    <3>2. CASE Refuse("Context", MovedFrom(Operand), N!DestroyNode(heap, Here))
      <4>1. MovedFrom(Operand) \in Results /\ MovedFrom(Operand).at = 0 /\ Proper(MovedFrom(Operand))
        BY <1>1, <1>2, OperandFacts, MovingFrom DEF Proper
      <4>2. Fits(N!DestroyNode(heap, Here), MovedFrom(Operand))
        BY <4>1, FitsDestroyed
      <4> QED
        BY <1>1, <1>2, <3>2, <4>1, <4>2, Refusing
    <3> QED
      BY <1>5, <3>1, <3>2 DEF CollectSet
  <2>3. RestInv'
    BY <1>1, <1>2, <2>1 DEF RestInv, repository, Commits, Updates
  <2> QED
    BY <2>2, <2>3, PartedNext
<1> QED
  BY <1>4, <1>5

(* Calls that look at the context, forget its updates, or name its commit. *)
LEMMA LookInv ==
  ASSUME ChainInv,
         \/ Rollback \/ Read
         \/ \E type \in Types : Process(type)
         \/ \E b \in Branches : CreateBranch(b) \/ \E c \in DOMAIN dag : CreateBranchFrom(c, b)
  PROVE  ChainInv'
<1>1. Callable
  BY DEF Rollback, Read, Process, CreateBranch, CreateBranchFrom
<1>2. /\ Operand \in Results /\ Operand.ok /\ RestInv /\ reg \in Results /\ tmp \in Results
      /\ "Context" \in Types \union {"none"} /\ "ReadContext" \in Types \union {"none"}
  BY <1>1, CallableFacts, TypesOfCalls
<1>3. UNCHANGED <<db, dag, asked>> /\ Results' = Results
  BY SameResults DEF Rollback, Read, Process, CreateBranch, CreateBranchFrom, repository
<1>4. ASSUME NEW type \in Types \union {"none"}, Return(type, Operand, heap)
      PROVE  ResultsInv'
  BY <1>2, <1>3, <1>4, FitsAsItIs, Returning
<1>5. ASSUME NEW type \in Types \union {"none"}, Refuse(type, Operand, heap)
      PROVE  ResultsInv'
  BY <1>2, <1>3, <1>5, FitsAsItIs, OperandFacts, Refusing
<1>6. CASE Rollback
  <2>1. << >> \in Seq(Updates)
    OBVIOUS
  <2>2. /\ [Operand EXCEPT !.updates = << >>] \in Results
        /\ [Operand EXCEPT !.updates = << >>].ok
        /\ [Operand EXCEPT !.updates = << >>].at = Operand.at
    BY <1>2, <2>1 DEF Results
  <2>3. ResultsInv'
    BY <1>2, <1>3, <1>6, <2>2, FitsAsItIs, Returning DEF Rollback
  <2>4. RestInv'
    BY <1>2, <1>3, <1>6 DEF Rollback, RestInv, repository, Commits, Updates
  <2> QED
    BY <2>3, <2>4, PartedNext
<1>7. CASE Read
  <2>1. ResultsInv'
    BY <1>2, <1>4, <1>7 DEF Read
  <2>2. RestInv'
    BY <1>2, <1>3, <1>7 DEF Read, RestInv, repository, Commits, Updates
  <2> QED
    BY <2>1, <2>2, PartedNext
<1>8. ASSUME NEW type \in Types, Process(type)
      PROVE  ChainInv'
  <2>1. ResultsInv'
    BY <1>4, <1>8 DEF Process
  <2>2. RestInv'
    BY <1>2, <1>3, <1>8 DEF Process, RestInv, repository, Commits, Updates
  <2> QED
    BY <2>1, <2>2, PartedNext
<1>9. ASSUME NEW b \in Branches, CreateBranch(b)
      PROVE  ChainInv'
  <2>1. Return("Context", Operand, heap) \/ Refuse("Context", Operand, heap)
    BY <1>9 DEF CreateBranch
  <2>2. ResultsInv'
    BY <1>2, <1>4, <1>5, <2>1
  <2>3. Operand.at \in Commits \union {0}
    BY <1>2 DEF Results
  <2>4. RestInv'
    BY <1>2, <1>3, <1>9, <2>3 DEF CreateBranch, RestInv, Commits, Updates
  <2> QED
    BY <2>2, <2>4, PartedNext
<1>10. ASSUME NEW b \in Branches, NEW c \in DOMAIN dag, CreateBranchFrom(c, b)
       PROVE  ChainInv'
  <2>1. ResultsInv'
    BY <1>2, <1>5, <1>10 DEF CreateBranchFrom
  <2>2. RestInv'
    BY <1>2, <1>3, <1>10 DEF CreateBranchFrom, RestInv, repository, Commits, Updates
  <2> QED
    BY <2>1, <2>2, PartedNext
<1> QED
  BY <1>6, <1>7, <1>8, <1>9, <1>10

(* A commit, also one that is made and then not found.                     *)
LEMMA CommitInv ==
  ASSUME ChainInv, Commit
  PROVE  ChainInv'
<1> DEFINE e == [parent |-> Operand.at, updates |-> Operand.updates]
           done == [Operand EXCEPT !.at = Len(dag'), !.root = Len(dag'), !.updates = << >>]
           lost == [Operand EXCEPT !.updates = << >>]
<1>1. /\ Operand \in Results /\ Operand.ok /\ N!HasRoom(heap) /\ RestInv
      /\ reg \in Results /\ tmp \in Results /\ "Context" \in Types \union {"none"}
  BY CallableFacts, TypesOfCalls DEF Commit
<1>2. /\ Len(dag) < MaxCommits /\ dag' = Append(dag, e) /\ UNCHANGED <<db, asked>>
      /\ refs' = [refs EXCEPT ![Operand.ref] = Len(dag')]
      /\ \/ Return("Context", done, N!Update(heap, Here))
         \/ Refuse("Context", lost, heap)
  BY DEF Commit
<1>3. e \in [parent: Commits \union {0}, updates: Seq(Updates)]
  BY <1>1 DEF Results
<1> HIDE DEF e
<1>4. /\ dag' \in Seq([parent: 0..MaxCommits, updates: Seq(Updates)])
      /\ Len(dag') \in Commits' /\ Len(dag') # 0 /\ Commits \subseteq Commits'
      /\ Results \subseteq Results'
  BY <1>1, <1>2, <1>3, MoreResults
<1>5. << >> \in Seq(Updates)
  OBVIOUS
<1>6. lost \in Results /\ lost.ok /\ lost.at = Operand.at
  BY <1>1, <1>5 DEF Results
<1>7. done \in Results' /\ done.ok /\ done.at = Len(dag')
  <2>1. Operand \in Results'
    BY <1>1, <1>4
  <2>2. Operand \in Results /\ Operand.ok
    BY <1>1
  <2> QED
    BY <2>1, <2>2, <1>4, <1>5 DEF Results
<1> HIDE DEF done, lost
<1>8. ResultsInv'
  <2>1. CASE Return("Context", done, N!Update(heap, Here))
    <3>1. Fits(N!Update(heap, Here), done)
      BY <1>1, <1>4, <1>7, FitsNewCommit
    <3> QED
      BY <1>1, <1>4, <1>7, <2>1, <3>1, Returning
  <2>2. CASE Refuse("Context", lost, heap)
    BY <1>1, <1>4, <1>6, <2>2, FitsAsItIs, Refusing DEF Proper
  <2> QED
    BY <1>2, <2>1, <2>2
<1>9. RestInv'
  BY <1>1, <1>2, <1>4 DEF RestInv, Updates
<1> QED
  BY <1>8, <1>9, PartedNext

(* A commit that libgit2 refuses.                                          *)
LEMMA CommitRefusedInv ==
  ASSUME ChainInv, CommitRefused
  PROVE  ChainInv'
<1> DEFINE lost == [Operand EXCEPT !.updates = << >>]
<1>1. /\ Operand \in Results /\ Operand.ok /\ RestInv /\ "Context" \in Types \union {"none"}
  BY CallableFacts, TypesOfCalls DEF CommitRefused
<1>2. UNCHANGED <<db, repository, asked>> /\ Results' = Results /\ Refuse("Context", lost, heap)
  BY SameResults DEF CommitRefused, repository
<1>3. << >> \in Seq(Updates)
  OBVIOUS
<1>4. lost \in Results /\ lost.ok /\ lost.at = Operand.at
  BY <1>1, <1>3 DEF Results
<1> HIDE DEF lost
<1>5. ResultsInv'
  BY <1>1, <1>2, <1>4, FitsAsItIs, Refusing DEF Proper
<1>6. RestInv'
  BY <1>1, <1>2 DEF RestInv, repository, Commits, Updates
<1> QED
  BY <1>5, <1>6, PartedNext

-------------------------------------------------------------------------------
(* The other steps. *)

(* Somebody else commits.                                                  *)
LEMMA OthersInv ==
  ASSUME ChainInv, NEW b \in Branches, Others(b)
  PROVE  ChainInv'
<1> DEFINE e == [parent |-> refs[b], updates |-> << >>]
<1>1. ResultsInv /\ RestInv
  BY Parted
<1>2. e \in [parent: Commits \union {0}, updates: Seq(Updates)]
  BY <1>1 DEF RestInv
<1>3. /\ Len(dag) < MaxCommits /\ dag' = Append(dag, e) /\ UNCHANGED <<reg, tmp, heap, db, asked>>
      /\ refs' = [refs EXCEPT ![b] = Len(dag')]
  BY DEF Others
<1> HIDE DEF e
<1>4. /\ dag' \in Seq([parent: 0..MaxCommits, updates: Seq(Updates)])
      /\ Len(dag') \in Commits' /\ Commits \subseteq Commits' /\ Results \subseteq Results'
  BY <1>1, <1>2, <1>3, MoreResults
<1>5. RestInv'
  BY <1>1, <1>3, <1>4 DEF RestInv, Updates
<1>6. Tidy(heap)' /\ (HasCommit(heap, "reg") <=> reg.at # 0)'
  BY <1>1, <1>3 DEF ResultsInv
<1>7. ResultsInv'
  BY <1>1, <1>3, <1>4, <1>6 DEF ResultsInv, Proper
<1> QED
  BY <1>5, <1>7, PartedNext

(* A new context is a Result.                                              *)
LEMMA FreshFacts ==
  ASSUME RestInv, NEW b \in Branches
  PROVE  Fresh(b) \in Results /\ Proper(Fresh(b)) /\ Fresh(b).at = refs[b] /\ Fresh(b) # NoResult
<1>1. << >> \in Seq(Updates) /\ refs[b] \in Commits \union {0}
  BY DEF RestInv
<1>2. Fresh(b) \in Results /\ Fresh(b).at = refs[b] /\ Fresh(b).ok
  BY <1>1 DEF Fresh, Results, Types
<1>3. NoResult.ok = FALSE
  BY DEF NoResult, Error
<1> QED
  BY <1>2, <1>3 DEF Proper

(* So is one whose commit was not found.                                   *)
LEMMA BareFacts ==
  ASSUME RestInv, NEW b \in Branches
  PROVE  Proper(Bare(b)) /\ Bare(b).at = 0 /\ Bare(b) # NoResult
<1>1. Fresh(b) \in Results /\ Fresh(b).ok
  BY FreshFacts DEF Fresh
<1>2. Bare(b) \in Results /\ Bare(b).at = 0 /\ Bare(b).ok
  BY <1>1 DEF Bare, Results
<1>3. NoResult.ok = FALSE
  BY DEF NoResult, Error
<1> QED
  BY <1>2, <1>3 DEF Proper

(* There is no Result in a temporary that is not there.                    *)
LEMMA NoResultFacts == Proper(NoResult) /\ NoResult.at = 0
<1>1. << >> \in Seq(Updates)
  OBVIOUS
<1> QED
  BY <1>1 DEF Proper, NoResult, Error, Results

(* Neither is there one of a type that is an Error.                        *)
LEMMA ErrorFacts == Proper(Error("Context")) /\ Error("Context").at = 0 /\ Error("Context") # NoResult
<1>1. << >> \in Seq(Updates)
  OBVIOUS
<1> QED
  BY <1>1 DEF Proper, NoResult, Error, Results, Types

(* A chain begins at the repository.                                       *)
LEMMA SelectRepositoryInv ==
  ASSUME ChainInv, SelectRepository
  PROVE  ChainInv'
<1>1. /\ ResultsInv /\ RestInv /\ tmp = NoResult /\ N!HasRoom(heap) /\ Main \in Branches
  BY Parted, BranchAssumption DEF SelectRepository, NoChain
<1>2. /\ reg' = reg /\ db' = Main /\ UNCHANGED <<repository, asked>>
      /\ Results' = Results
  BY SameResults DEF SelectRepository, repository
<1>3. PICK r : /\ tmp' = r /\ Proper(r) /\ r # NoResult
               /\ Tidy(heap') /\ Same(heap, heap', "reg")
               /\ HasCommit(heap', "tmp") <=> r.at # 0
  <2>1. CASE refs[Main] # 0 /\ tmp' = Fresh(Main) /\ heap' = N!Update(heap, "tmp")
    <3>1. /\ Proper(Fresh(Main)) /\ Fresh(Main).at = refs[Main] /\ Fresh(Main) # NoResult
      BY <1>1, FreshFacts
    <3>2. /\ Tidy(heap') /\ Same(heap, heap', "reg") /\ HasCommit(heap', "tmp")
      BY <1>1, <2>1, NewCommitTidy DEF ResultsInv
    <3> QED
      BY <2>1, <3>1, <3>2
  <2>2. CASE tmp' = Bare(Main) /\ heap' = heap
    <3>1. Proper(Bare(Main)) /\ Bare(Main).at = 0 /\ Bare(Main) # NoResult
      BY <1>1, BareFacts
    <3>2. /\ Tidy(heap') /\ Same(heap, heap', "reg") /\ ~HasCommit(heap', "tmp")
      BY <1>1, <2>2 DEF ResultsInv, Same, HasCommit, Clear
    <3> QED
      BY <2>2, <3>1, <3>2
  <2> QED
    BY <2>1, <2>2 DEF SelectRepository
<1>5. ResultsInv'
  BY <1>1, <1>2, <1>3 DEF ResultsInv, Proper, HasCommit, Same
<1>6. RestInv'
  BY <1>1, <1>2 DEF RestInv, repository, Commits, Updates
<1> QED
  BY <1>5, <1>6, PartedNext

(* Or at the branch of the thread.                                         *)
LEMMA GetThreadContextInv ==
  ASSUME ChainInv, GetThreadContext
  PROVE  ChainInv'
<1>1. /\ ResultsInv /\ RestInv /\ tmp = NoResult /\ N!HasRoom(heap)
  BY Parted DEF GetThreadContext, NoChain
<1>2. reg' = reg /\ UNCHANGED <<db, repository, asked>> /\ Results' = Results
  BY SameResults DEF GetThreadContext, repository
<1>3. RestInv'
  BY <1>1, <1>2 DEF RestInv, repository, Commits, Updates
<1>4. CASE db # NoRef /\ refs[db] # 0
  <2> DEFINE rebased == N!Update(heap, "tmp")
  <2>1. N!HasRoom(rebased) /\ tmp' = Fresh(db) /\ heap' = N!Init(rebased, "tmp")
    BY <1>4 DEF GetThreadContext
  <2>2. Tidy(rebased) /\ Same(heap, rebased, "reg")
    BY <1>1, NewCommitTidy DEF ResultsInv
  <2> HIDE DEF rebased
  <2>3. Tidy(heap') /\ HasCommit(heap', "tmp") /\ Same(rebased, heap', "reg")
    BY <2>1, <2>2, NewCommitTidy
  <2>4. Proper(Fresh(db)) /\ Fresh(db).at = refs[db] /\ Fresh(db) # NoResult
    BY <1>1, <1>4, FreshFacts DEF RestInv
  <2>5. ResultsInv'
    BY <1>1, <1>2, <1>4, <2>1, <2>2, <2>3, <2>4 DEF ResultsInv, Proper, HasCommit, Same
  <2> QED
    BY <1>3, <2>5, PartedNext
<1>5. CASE ~(db # NoRef /\ refs[db] # 0)
  <2>1. tmp' = Error("Context") /\ heap' = heap
    BY <1>5 DEF GetThreadContext
  <2>2. ResultsInv'
    BY <1>1, <1>2, <2>1, ErrorFacts DEF ResultsInv, Proper, HasCommit, Clear
  <2> QED
    BY <1>3, <2>2, PartedNext
<1> QED
  BY <1>4, <1>5

(* Or at the variable, which is moved out of.                              *)
LEMMA MoveOutInv ==
  ASSUME ChainInv, MoveOut
  PROVE  ChainInv'
<1>1. /\ ResultsInv /\ RestInv /\ tmp = NoResult /\ reg.ok
  BY Parted DEF MoveOut, NoChain
<1>2. /\ reg' = NoResult /\ tmp' = reg /\ heap' = N!MoveNode(heap, "tmp", "reg")
      /\ UNCHANGED <<db, repository, asked>> /\ Results' = Results
  BY SameResults DEF MoveOut, repository
<1>3. /\ Good(heap) /\ Clear(heap, "tmp") /\ "reg" \in P /\ "tmp" \in P
      /\ P \ {"tmp", "reg"} = {"res", "new"}
  BY <1>1 DEF ResultsInv, Tidy, P
<1>4. /\ Good(heap') /\ Became(heap, "reg", heap', "tmp") /\ Clear(heap', "reg")
      /\ heap'.id["reg"] = Null /\ Same(heap, heap', "res") /\ Same(heap, heap', "new")
  BY <1>2, <1>3, MovingNode DEF Became
<1>5. Tidy(heap')
  BY <1>1, <1>4 DEF ResultsInv, Tidy, Clear, Same, Became, N!OwnId, P
<1>6. reg # NoResult
  BY <1>1 DEF NoResult, Error
<1>7. ResultsInv'
  BY <1>1, <1>2, <1>4, <1>5, <1>6, NoResultFacts DEF ResultsInv, Proper, HasCommit, Became, Clear
<1>8. RestInv'
  BY <1>1, <1>2 DEF RestInv, repository, Commits, Updates
<1> QED
  BY <1>7, <1>8, PartedNext

(* It ends with a Result that is kept.                                     *)
LEMMA KeepInv ==
  ASSUME ChainInv, Keep
  PROVE  ChainInv'
<1> DEFINE old == IF reg.ok /\ tmp.ok /\ reg.type = tmp.type
                  THEN heap ELSE N!DestroyNode(heap, "reg")
           assigned == N!AssignNode(old, "reg", "tmp")
<1>1. ResultsInv /\ RestInv /\ "reg" \in P /\ "tmp" \in P /\ P \ {"reg"} = {"tmp", "res", "new"}
  BY Parted DEF P
<1>2. /\ reg' = tmp /\ tmp' = NoResult /\ heap' = N!DestroyNode(assigned, "tmp")
      /\ UNCHANGED <<db, repository, asked>> /\ Results' = Results
  BY SameResults DEF Keep, repository
<1>3. Tidy(old) /\ Same(heap, old, "tmp")
  BY <1>1, DestroyedTidy DEF ResultsInv, Same
<1> HIDE DEF old
<1>4. /\ Good(assigned) /\ Became(old, "tmp", assigned, "reg") /\ Clear(assigned, "tmp")
      /\ Same(old, assigned, "res") /\ Same(old, assigned, "new")
  BY <1>1, <1>3, AssigningNode DEF Tidy, Became, P
<1> HIDE DEF assigned
<1>5. /\ Good(heap') /\ Clear(heap', "tmp") /\ heap'.id["tmp"] = Null
      /\ Same(assigned, heap', "reg") /\ Same(assigned, heap', "res") /\ Same(assigned, heap', "new")
  BY <1>1, <1>2, <1>4, DestroyingNode DEF P
<1>6. Tidy(heap')
  BY <1>3, <1>4, <1>5 DEF Tidy, Clear, Same, Became, N!OwnId, P
<1>7. HasCommit(heap', "reg") <=> tmp.at # 0
  BY <1>1, <1>3, <1>4, <1>5 DEF ResultsInv, HasCommit, Same, Became
<1>8. ResultsInv'
  BY <1>1, <1>2, <1>5, <1>6, <1>7, NoResultFacts DEF ResultsInv, Proper, HasCommit, Clear
<1>9. RestInv'
  BY <1>1, <1>2 DEF RestInv, repository, Commits, Updates
<1> QED
  BY <1>8, <1>9, PartedNext

(* Or with one that is thrown away.                                        *)
LEMMA DropInv ==
  ASSUME ChainInv, Drop
  PROVE  ChainInv'
<1>1. ResultsInv /\ RestInv
  BY Parted
<1>2. /\ tmp' = NoResult /\ reg' = reg /\ heap' = N!DestroyNode(heap, "tmp")
      /\ UNCHANGED <<db, repository, asked>> /\ Results' = Results
  BY SameResults DEF Drop, repository
<1>3. Tidy(heap') /\ Clear(heap', "tmp") /\ Same(heap, heap', "reg")
  BY <1>1, <1>2, DestroyedTidy DEF ResultsInv
<1>4. ResultsInv'
  BY <1>1, <1>2, <1>3, NoResultFacts DEF ResultsInv, Proper, HasCommit, Clear, Same
<1>5. RestInv'
  BY <1>1, <1>2 DEF RestInv, repository, Commits, Updates
<1> QED
  BY <1>4, <1>5, PartedNext

(* A Result passes or_else(), or its handler takes an Error up.            *)
LEMMA OrElseInv ==
  ASSUME ChainInv, OrElse
  PROVE  ChainInv'
<1>1. /\ ResultsInv /\ RestInv /\ N!HasRoom(heap) /\ UNCHANGED <<repository, asked>>
      /\ Results' = Results /\ Main \in Branches
  BY Parted, SameResults, BranchAssumption DEF OrElse, repository
<1>2. Proper(Operand) /\ Operand \in Results /\ Operand.type \in Types \union {"none"}
  BY OperandFacts DEF Proper, Results
<1>3. reg \in Results /\ tmp \in Results
  BY <1>1 DEF ResultsInv, Proper
<1>4. CASE Operand.ok
  <2>1. Return(Operand.type, Operand, heap) /\ UNCHANGED db
    BY <1>4 DEF OrElse
  <2>2. ResultsInv'
    BY <1>1, <1>2, <1>3, <1>4, <2>1, FitsAsItIs, Returning
  <2>3. RestInv'
    BY <1>1, <2>1 DEF RestInv, repository, Commits, Updates
  <2> QED
    BY <2>2, <2>3, PartedNext
<1>5. CASE ~Operand.ok /\ Refuse(Operand.type, Operand, heap) /\ UNCHANGED db
  <2>1. ResultsInv'
    BY <1>1, <1>2, <1>5, FitsAsItIs, Refusing
  <2>2. RestInv'
    BY <1>1, <1>5 DEF RestInv, repository, Commits, Updates
  <2> QED
    BY <2>1, <2>2, PartedNext
<1>6. CASE /\ refs[Main] # 0 /\ db' = Main
           /\ IF Here = "reg"
              THEN reg' = Fresh(Main) /\ UNCHANGED tmp
              ELSE tmp' = Fresh(Main) /\ UNCHANGED reg
           /\ heap' = N!Update(heap, Here)
  <2>1. Proper(Fresh(Main)) /\ Fresh(Main).at = refs[Main] /\ Fresh(Main) # NoResult
    BY <1>1, FreshFacts
  <2>2. /\ Here \in {"reg", "tmp"} /\ Tidy(heap)
        /\ Here = "reg" => tmp = NoResult /\ Clear(heap, "tmp")
    BY OperandFacts
  <2>3. /\ Tidy(heap') /\ HasCommit(heap', Here)
        /\ \A q \in {"reg", "tmp"} \ {Here} : Same(heap, heap', q)
    BY <1>1, <1>6, <2>2, NewCommitTidy
  <2>4. ResultsInv'
    <3>1. CASE Here = "reg"
      BY <1>1, <1>6, <2>1, <2>2, <2>3, <3>1 DEF ResultsInv, Proper, HasCommit, Same, Clear
    <3>2. CASE Here = "tmp"
      BY <1>1, <1>6, <2>1, <2>3, <3>2 DEF ResultsInv, Proper, HasCommit, Same
    <3> QED
      BY <2>2, <3>1, <3>2
  <2>5. RestInv'
    BY <1>1, <1>6 DEF RestInv, repository, Commits, Updates
  <2> QED
    BY <2>4, <2>5, PartedNext
<1> QED
  BY <1>4, <1>5, <1>6 DEF OrElse

(* The variable catches up with its branch.                                *)
LEMMA RebaseInv ==
  ASSUME ChainInv, Rebase
  PROVE  ChainInv'
<1> DEFINE r == [reg EXCEPT !.at = refs[reg.ref], !.root = refs[reg.ref]]
<1>1. /\ ResultsInv /\ RestInv /\ tmp = NoResult /\ N!HasRoom(heap) /\ reg.ok
      /\ reg \in Results /\ reg.ref # NoRef
  BY Parted DEF Rebase, NoChain, ResultsInv, Proper
<1>2. /\ reg' = r /\ refs[reg.ref] # 0 /\ heap' = N!Update(heap, "reg")
      /\ UNCHANGED <<tmp, db, repository, asked>> /\ Results' = Results
  BY SameResults DEF Rebase, repository
<1>3. refs[reg.ref] \in Commits \union {0}
  BY <1>1 DEF RestInv, Results
<1>4. r \in Results /\ r.ok /\ r.at = refs[reg.ref]
  BY <1>1, <1>3 DEF Results
<1> HIDE DEF r
<1>5. Tidy(heap') /\ HasCommit(heap', "reg") /\ Same(heap, heap', "tmp")
  BY <1>1, <1>2, NewCommitTidy DEF ResultsInv
<1>6. ResultsInv'
  BY <1>1, <1>2, <1>4, <1>5 DEF ResultsInv, Proper, HasCommit, Same, Clear
<1>7. RestInv'
  BY <1>1, <1>2 DEF RestInv, repository, Commits, Updates
<1> QED
  BY <1>6, <1>7, PartedNext

(* Nobody owns anything before the start and after the end of the process. *)
LEMMA NoHeapTidy ==
  /\ Tidy(N!NoHeap) /\ Clear(N!NoHeap, "reg") /\ Clear(N!NoHeap, "tmp")
<1>1. /\ N!NoHeap \in N!Heaps /\ N!NoHeap.live = {}
      /\ \A g \in N!Guards : N!NoHeap.holds[g] = Null
      /\ \A p \in P : N!NoHeap.id[p] = Null
  BY DEF N!NoHeap, N!Heaps, P
<1>2. N!Owned(N!NoHeap)
  BY <1>1 DEF N!Owned
<1> QED
  BY <1>1, <1>2, GuardsOfNodes DEF Tidy, Good, Clear, N!OwnId, P

(* Where everything is gone but the commits, all is in order.              *)
LEMMA CrashInv ==
  ASSUME ChainInv, Crash
  PROVE  ChainInv'
<1>1. /\ RestInv /\ reg' = NoResult /\ tmp' = NoResult /\ heap' = N!NoHeap /\ db' = NoRef
      /\ UNCHANGED <<repository, asked>> /\ Results' = Results
  BY Parted, SameResults DEF Crash, repository
<1>2. ResultsInv'
  BY <1>1, NoHeapTidy, NoResultFacts DEF ResultsInv, Proper, HasCommit, Clear
<1>3. RestInv'
  BY <1>1 DEF RestInv, repository, Commits, Updates
<1> QED
  BY <1>2, <1>3, PartedNext

(* And at the start.                                                       *)
LEMMA InitInv == Init => ChainInv
<1> SUFFICES ASSUME Init PROVE ChainInv
  OBVIOUS
<1>1. ResultsInv
  BY NoHeapTidy, NoResultFacts DEF Init, ResultsInv, HasCommit, Clear
<1>2. << >> \in Seq([parent: 0..MaxCommits, updates: Seq(Updates)])
  OBVIOUS
<1>3. RestInv
  BY <1>2, BoundAssumption DEF Init, RestInv
<1> QED
  BY <1>1, <1>3, Parted

-------------------------------------------------------------------------------

(* No call, however it ends, takes the Results out of order.               *)
LEMMA NextInv == ChainInv /\ [Next]_vars => ChainInv'
<1> SUFFICES ASSUME ChainInv, [Next]_vars PROVE ChainInv'
  OBVIOUS
<1>1. CASE SelectRepository \/ GetThreadContext \/ MoveOut \/ Keep \/ Drop
  BY <1>1, SelectRepositoryInv, GetThreadContextInv, MoveOutInv, KeepInv, DropInv
<1>2. CASE Collect \/ CollectSet \/ Rollback \/ Read
  BY <1>2, CollectInv, LookInv
<1>3. CASE Commit \/ CommitRefused \/ OrElse \/ Rebase
  BY <1>3, CommitInv, CommitRefusedInv, OrElseInv, RebaseInv
<1>4. CASE \E type \in Types : Process(type) \/ Skip(type) \/ Fail(type)
  BY <1>4, LookInv, SkipInv
<1>5. CASE \E b \in Branches :
             \/ SelectBranch(b) \/ CreateBranch(b) \/ Others(b)
             \/ \E c \in DOMAIN dag : CreateBranchFrom(c, b)
  BY <1>5, SelectBranchInv, LookInv, OthersInv
<1>6. CASE Crash
  BY <1>6, CrashInv
<1>7. CASE UNCHANGED vars
  <2>1. UNCHANGED <<reg, tmp, heap, db, dag, refs, asked>>
    BY <1>7 DEF vars, repository
  <2>2. ResultsInv /\ RestInv /\ Results' = Results
    BY <2>1, Parted, SameResults
  <2>3. ResultsInv'
    BY <2>1, <2>2 DEF ResultsInv, Proper
  <2>4. RestInv'
    BY <2>1, <2>2 DEF RestInv, Commits, Updates
  <2> QED
    BY <2>3, <2>4, PartedNext
<1> QED
  BY <1>1, <1>2, <1>3, <1>4, <1>5, <1>6, <1>7 DEF Next

(* ChainInv is an invariant, inductive as it stands: it is preserved by    *)
(* every move, assignment, failed lookup and end of a temporary that       *)
(* gd.h:181-476 and gd.cpp:378-485 make of a chain of calls.               *)
THEOREM Inductive == Spec => []ChainInv
  BY InitInv, NextInv, PTL DEF Spec

(* guard.h:10-11, for any number of objects and any chain: every object of *)
(* libgit2 has one owner, and it is freed when its owner is gone.          *)
THEOREM OwnershipIsUnique == Spec => []OneOwner
<1>1. ChainInv => OneOwner
  BY DEF ChainInv
<1> QED
  BY <1>1, Inductive, PTL

(* The bare pointer that getCommitId() and isTip() follow is that into the *)
(* commit of the same context, or null when it has none: never a commit    *)
(* that is freed, or owned by the context it was moved to.                 *)
THEOREM IdIsOfOwnCommit == Spec => []IdOfOwnCommit
<1>1. ChainInv => IdOfOwnCommit
  BY DEF ChainInv
<1> QED
  BY <1>1, Inductive, PTL
===============================================================================
