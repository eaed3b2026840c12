------------------------------- MODULE MCChain -------------------------------
(* Module Chain for TLC. *)
EXTENDS Chain

(* Two contexts of two objects each, and what a call looks up. *)
SomeObjects == 1..6
===============================================================================
