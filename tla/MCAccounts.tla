----------------------------- MODULE MCAccounts -----------------------------
(* An instance of Accounts for TLC: one budget for memberships, in which    *)
(* two organisations and two invites may race, one for credentials.         *)
EXTENDS Accounts

Budget(r, i, a, s, u, w, e) ==
  [register |-> r, invite |-> i, accept |-> a, issue |-> s, use |-> u,
   withdraw |-> w, end |-> e]

MCBudgets == { Budget(2, 2, 2, 0, 0, 0, 1), Budget(1, 0, 0, 1, 2, 1, 1) }

=============================================================================
