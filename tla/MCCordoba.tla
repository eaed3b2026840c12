------------------------------ MODULE MCCordoba ------------------------------
(* Small instances of Cordoba for TLC. *)
EXTENDS Cordoba, TLC

(* Threads, files and contents are interchangeable; Main is not just any   *)
(* branch.                                                                 *)
Symmetry ==
  Permutations(Threads) \union Permutations(Files) \union Permutations(Contents)
===============================================================================
