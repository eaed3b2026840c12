------------------------------ MODULE Snapshots ------------------------------
(***************************************************************************)
(* Snapshots of a repository and batches of updates to them.               *)
(*                                                                         *)
(* A snapshot is a root tree: what every file holds, or Absent.  A batch   *)
(* is the list a TreeCollector keeps for one directory: an update inserts  *)
(* content under a file name, or removes the name when its value is        *)
(* Absent.  Directories are the subject of module Collector; here the      *)
(* whole tree is one directory, which is all that the interleaving of      *)
(* contexts and commits depends on.                                        *)
(***************************************************************************)
EXTENDS Naturals, Sequences

CONSTANTS
  Files,      (* file names                                              *)
  Contents,   (* what a file can hold                                    *)
  Absent      (* not a content: the file is not there                    *)

ASSUME AbsentAssumption == Absent \notin Contents

Values == Contents \union {Absent}

Trees == [Files -> Values]

Updates == [file: Files, val: Values]

(* The tree of a repository without commits. *)
EmptyTree == [f \in Files |-> Absent]

(***************************************************************************)
(* Where batch us decides, before position i, what file f holds: at the    *)
(* last update that names f.  Empty if none does, else a singleton.        *)
(***************************************************************************)
Deciding(us, i, f) ==
  { j \in 1 .. i - 1 : us[j].file = f /\ \A k \in j + 1 .. i - 1 : us[k].file # f }

(***************************************************************************)
(* What file f holds once a tree builder that started from tree has been   *)
(* given the updates of us before position i.                              *)
(***************************************************************************)
ValueBefore(tree, us, i, f) ==
  LET J == Deciding(us, i, f) IN
  IF J = {} THEN tree[f] ELSE us[CHOOSE j \in J : TRUE].val

(***************************************************************************)
(* The batch can be applied to tree.  Inserting never fails; removing a    *)
(* name that the builder does not hold at that point is an error, and      *)
(* fails the whole batch.                                                  *)
(***************************************************************************)
Applies(tree, us) ==
  \A i \in DOMAIN us :
     us[i].val = Absent => ValueBefore(tree, us, i, us[i].file) # Absent

(* Mutant: the builder starts empty, not from the tree.                    *)
ApplyToNothing(tree, us) ==
  [f \in { us[i].file : i \in DOMAIN us } |-> ValueBefore(tree, us, Len(us) + 1, f)]

(* The tree that the whole batch turns tree into. *)
ApplyTo(tree, us) == [f \in Files |-> ValueBefore(tree, us, Len(us) + 1, f)]
===============================================================================
