------------------------------- MODULE MCEventLog -------------------------------
(***************************************************************************)
(* Two writers and two clients that poll for pages of one event; more      *)
(* numbers than keys, so that some are given up and some retried; the      *)
(* event_id of one key is also sent along with the others.                 *)
(***************************************************************************)
EXTENDS EventLog, TLC

CONSTANTS w1, w2, q1, q2, k1, k2, k3, i1, i2, i3

MCIdOf == k1 :> i1 @@ k2 :> i2 @@ k3 :> i3
================================================================================
