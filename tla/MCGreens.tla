------------------------------- MODULE MCGreens -------------------------------
(* Small instances of Greens for TLC. *)
EXTENDS Greens
===============================================================================
