----------------------------- MODULE MCObjectStore -----------------------------
(***************************************************************************)
(* Three clients race over two objects with three contents and two file    *)
(* names; three version ids let an object have a version and two uploads   *)
(* race for the next number.                                               *)
(***************************************************************************)
EXTENDS ObjectStore, TLC

CONSTANTS o1, o2, f1, f2, x, y, z

Symmetry == Permutations(Client) \cup Permutations(Object)
              \cup Permutations(File) \cup Permutations(Content)
================================================================================
