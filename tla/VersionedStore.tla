---------------------------- MODULE VersionedStore ----------------------------
(***************************************************************************)
(* What Cordoba promises: a store of versions in which every branch is a   *)
(* line of versions, and a client works in an optimistic transaction.      *)
(*                                                                         *)
(* A transaction remembers its branch, the version it is based on, and the *)
(* updates collected since.  Committing is ONE step: it succeeds only when *)
(* the base still is the head of the branch, and it adds the base plus     *)
(* exactly the collected updates.  There is no lock, no half-made commit   *)
(* and no HEAD here; module Cordoba has them, and implements this one.     *)
(***************************************************************************)
EXTENDS Snapshots

CONSTANTS
  Clients,    (* those who hold transactions                             *)
  Branches,   (* branch names                                            *)
  Main,       (* the branch a fresh transaction is on                    *)
  NoTxn       (* the client has no transaction                           *)

VARIABLES
  versions,   (* the versions, in the order they were committed          *)
  head,       (* the newest version of a branch, 0 while it has none     *)
  txn         (* the transaction of a client                             *)

vars == <<versions, head, txn>>

TreeOf(v) == IF v = 0 THEN EmptyTree ELSE versions[v].tree

Txn(branch, base, delta) == [branch |-> branch, base |-> base, delta |-> delta]

Init ==
  /\ versions = << >>
  /\ head = [b \in Branches |-> 0]
  /\ txn = [c \in Clients |-> NoTxn]

Active(c) == txn[c] # NoTxn

(* The client starts afresh on the main branch. *)
Begin(c) ==
  /\ txn' = [txn EXCEPT ![c] = Txn(Main, head[Main], << >>)]
  /\ UNCHANGED <<versions, head>>

(* The same, but the head could not be read: based on nothing, it cannot   *)
(* commit or fork once there is one.                                       *)
BeginBlind(c) ==
  /\ txn' = [txn EXCEPT ![c] = Txn(Main, 0, << >>)]
  /\ UNCHANGED <<versions, head>>

(* The transaction moves to another branch and keeps what it collected. *)
Switch(c, b) ==
  /\ Active(c)
  /\ head[b] # 0
  /\ txn' = [txn EXCEPT ![c] = Txn(b, head[b], @.delta)]
  /\ UNCHANGED <<versions, head>>

(* The transaction moves to the newest version of its branch. *)
Refresh(c) == Active(c) /\ Switch(c, txn[c].branch)

Edit(c, u) ==
  /\ Active(c)
  /\ txn' = [txn EXCEPT ![c].delta = Append(@, u)]
  /\ UNCHANGED <<versions, head>>

(* What the base version holds in f is to be found in g instead. *)
Move(c, f, g) ==
  /\ Active(c)
  /\ TreeOf(txn[c].base)[f] # Absent
  /\ txn' = [txn EXCEPT ![c].delta =
                @ \o << [file |-> g, val |-> TreeOf(txn[c].base)[f]],
                        [file |-> f, val |-> Absent] >>]
  /\ UNCHANGED <<versions, head>>

Rollback(c) ==
  /\ Active(c)
  /\ txn' = [txn EXCEPT ![c].delta = << >>]
  /\ UNCHANGED <<versions, head>>

(* The first to commit on a base wins; the base is its only parent. *)
Commit(c) ==
  /\ Active(c)
  /\ LET t == txn[c] IN
     /\ t.delta # << >>
     /\ head[t.branch] = t.base
     /\ Applies(TreeOf(t.base), t.delta)
     /\ versions' = Append(versions, [parent |-> t.base,
                                      tree   |-> ApplyTo(TreeOf(t.base), t.delta)])
     /\ head' = [head EXCEPT ![t.branch] = Len(versions')]
     /\ txn'  = [txn EXCEPT ![c] = Txn(t.branch, Len(versions'), << >>)]

(* A call failed: the transaction is gone, the store is as it was. *)
Abort(c) ==
  /\ Active(c)
  /\ txn' = [txn EXCEPT ![c] = NoTxn]
  /\ UNCHANGED <<versions, head>>

(* A new branch starts at the base of the transaction. *)
Fork(c, b) ==
  /\ Active(c)
  /\ txn[c].base # 0
  /\ head[b] = 0
  /\ head' = [head EXCEPT ![b] = txn[c].base]
  /\ UNCHANGED <<versions, txn>>

(* Someone who is not a client commits one update on a branch. *)
Outside(b, u) ==
  /\ head[b] # 0
  /\ versions' = Append(versions, [parent |-> head[b],
                                   tree   |-> ApplyTo(TreeOf(head[b]), <<u>>)])
  /\ head' = [head EXCEPT ![b] = Len(versions')]
  /\ UNCHANGED txn

(* Every transaction is lost at once; no version is. *)
Restart ==
  /\ txn' = [c \in Clients |-> NoTxn]
  /\ UNCHANGED <<versions, head>>

Next ==
  \/ \E c \in Clients :
       \/ Begin(c) \/ BeginBlind(c) \/ Refresh(c) \/ Rollback(c) \/ Commit(c) \/ Abort(c)
       \/ \E b \in Branches : Switch(c, b) \/ Fork(c, b)
       \/ \E u \in Updates  : Edit(c, u)
       \/ \E f, g \in Files : Move(c, f, g)
  \/ \E b \in Branches, u \in Updates : Outside(b, u)
  \/ Restart

Spec == Init /\ [][Next]_vars
===============================================================================
