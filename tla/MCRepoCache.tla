----------------------------- MODULE MCRepoCache -----------------------------
(* Small instances of RepoCache for TLC; the configurations give the       *)
(* constants their values.  There is no symmetry: one thread cleans, one   *)
(* does not, and liveness is checked.                                      *)
EXTENDS RepoCache
===============================================================================
