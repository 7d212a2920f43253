------------------------------- MODULE MCPresence -------------------------------
(***************************************************************************)
(* One step of the clock is ten seconds: buckets of 30, a time to live of  *)
(* 90, clients that post every 30, and two and a half minutes of it all.   *)
(* Two users chose one session id; either may also be the only one to use  *)
(* it.                                                                     *)
(***************************************************************************)
EXTENDS Presence, TLC

CONSTANTS s1, s2, i1

MCIdOf == [s \in Session |-> i1]

Sessions == Permutations(Session)
================================================================================
