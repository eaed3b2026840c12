----------------------------- MODULE MCCollector -----------------------------
(* Instances of Collector for TLC. *)
EXTENDS Collector

(* A file in the root, a directory, and a file two directories below it.   *)
(* Calls may name the directory, put a file in its place, or move it to x. *)
FilesAndDirectory == { <<"x">>, <<"d">>, <<"d", "e", "x">> }

(* Wherever a file can come to be by such calls.                           *)
FilesAround ==
  FilesAndDirectory \union
    { <<"d", "e">>, <<"x", "e">>, <<"x", "e", "x">>, <<"x", "x">> }

Symmetry == Permutations(Contents)

(* A directory, or a file in its place, the files in it, and another.      *)
DirectoriesToo == { <<"d">>, <<"d", "x">>, <<"d", "y">>, <<"e">> }

FilesBelow == DirectoriesToo \union { <<"e", "x">>, <<"e", "y">> }
===============================================================================
