------------------------------ MODULE MCSoftLocks ------------------------------
(***************************************************************************)
(* Two editors and an admin contend for one resource over three lifetimes  *)
(* of a lock.  Nothing couples two resources but the ids, which are fresh. *)
(***************************************************************************)
EXTENDS SoftLocks, TLC

CONSTANTS ann, bob, root

Editors == Permutations(User \ Admin)
================================================================================
