------------------------------ MODULE MCLifecycle ------------------------------
(***************************************************************************)
(* An editor, an approver and an admin promote a version.                  *)
(***************************************************************************)
EXTENDS Lifecycle, TLC

CONSTANTS ed, app, adm, v1

Roles == [u \in User |->
             CASE u = adm -> "admin" [] u = app -> "approver" [] OTHER -> "editor"]
================================================================================
