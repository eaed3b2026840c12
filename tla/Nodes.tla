-------------------------------- MODULE Nodes --------------------------------
(***************************************************************************)
(* Who owns the objects of libgit2: Guard (gd/inc/guard.h) and Node        *)
(* (gd/inc/gd/gd.h, gd/src/gd.cpp).  Definitions only.                     *)
(*                                                                         *)
(* A Guard holds an object or null and frees what it holds.  A Node is two *)
(* Guards, the commit and its root tree, and a bare pointer to the id      *)
(* inside the commit, for which nobody cares.  A heap says what the Guards *)
(* of every node hold, where its id points, and which objects are not      *)
(* freed; a node lives in a place: a variable, a temporary, or the locals  *)
(* of the function that looks commit and tree up.                          *)
(***************************************************************************)
CONSTANTS
  Places,   (* where a node can be                                       *)
  Locals,   (* of the function that looks up commit and tree             *)
  Objects,  (* the memory for commits and trees                          *)
  Null      (* the null pointer                                          *)

Guards == Places \X {"commit", "root"}

CommitOf(p) == <<p, "commit">>
RootOf(p) == <<p, "root">>

Heaps == [holds: [Guards -> Objects \union {Null}],
          id: [Places -> Objects \union {Null}],
          live: SUBSET Objects]

NoHeap == [holds |-> [g \in Guards |-> Null], id |-> [p \in Places |-> Null], live |-> {}]

-------------------------------------------------------------------------------
(* Guard *)

(* Mutant: the object is forgotten, not freed.                             *)
InnerDestructForgets(h, g) == [h EXCEPT !.holds = [@ EXCEPT ![g] = Null]]

InnerDestruct(h, g) ==
  [h EXCEPT !.holds = [@ EXCEPT ![g] = Null], !.live = @ \ {h.holds[g]}]

(* A new object, in a Guard that holds nothing.                            *)
Fresh(h) == CHOOSE o \in Objects : o \notin h.live

Construct(h, g) ==
  [h EXCEPT !.holds = [@ EXCEPT ![g] = Fresh(h)], !.live = @ \union {Fresh(h)}]

(* The move constructor: the other Guard holds nothing afterwards, whatever*)
(* was in the memory of the new one.                                       *)
Move(h, to, from) ==
  [h EXCEPT !.holds = [@ EXCEPT ![to] = h.holds[from], ![from] = Null]]

(* Move assignment.                                                        *)
Take(h, to, from) ==
  IF to = from THEN h ELSE Move(InnerDestruct(h, to), to, from)

-------------------------------------------------------------------------------
(* Node *)

SetId(h, p, o) == [h EXCEPT !.id = [@ EXCEPT ![p] = o]]

(* Node::Node(Node&&) *)
MoveNode(h, to, from) ==
  SetId(SetId(Move(Move(h, CommitOf(to), CommitOf(from)), RootOf(to), RootOf(from)),
              to, h.id[from]),
        from, Null)

(* Node::operator=(Node&&), which leaves the id of the other as it is.     *)
AssignNode(h, to, from) ==
  IF to = from THEN h ELSE
    Take(Take(SetId(h, to, h.id[from]), CommitOf(to), CommitOf(from)), RootOf(to), RootOf(from))

DestroyNode(h, p) ==
  SetId(InnerDestruct(InnerDestruct(h, RootOf(p)), CommitOf(p)), p, Null)

(* Enough memory for another node. *)
HasRoom(h) == ~ \A o1, o2 \in Objects \ h.live : o1 = o2

(* getCommitByRef(): the object becomes a commit by castMove().            *)
LookUp(h) == Construct(h, CommitOf(Locals))

(* Node::init() half way: the commit is replaced, the tree not found.      *)
InitCommit(h, p) ==
  LET c == Take(LookUp(h), CommitOf(p), CommitOf(Locals)) IN
  SetId(c, p, c.holds[CommitOf(p)])

Init(h, p) ==
  Take(Construct(InitCommit(h, p), RootOf(Locals)), RootOf(p), RootOf(Locals))

(* Mutant: the id is asked of the commit that has just been moved away.    *)
UpdateAsksTooLate(h, p) ==
  LET found == Construct(LookUp(h), RootOf(Locals))
      moved == Take(found, CommitOf(p), CommitOf(Locals))
  IN  Take(SetId(moved, p, moved.holds[CommitOf(Locals)]), RootOf(p), RootOf(Locals))

(* Node::update(): commit and tree are found before anything is replaced.  *)
Update(h, p) ==
  LET found == Construct(LookUp(h), RootOf(Locals)) IN
  Take(Take(SetId(found, p, found.holds[CommitOf(Locals)]), CommitOf(p), CommitOf(Locals)),
       RootOf(p), RootOf(Locals))

-------------------------------------------------------------------------------
(* guard.h:10-11: "Ownership is unique and when the last owner goes out of *)
(* scope, resource is destructed".                                         *)
Owned(h) ==
  /\ \A g1, g2 \in Guards : h.holds[g1] = h.holds[g2] /\ h.holds[g1] # Null => g1 = g2
  /\ h.live = { h.holds[g] : g \in Guards } \ {Null}

(* An id is that of the commit of the same node.                           *)
OwnId(h, p) == h.id[p] = h.holds[CommitOf(p)]
===============================================================================
