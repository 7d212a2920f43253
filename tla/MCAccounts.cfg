SPECIFICATION Spec
CONSTANTS
  Orgs = {o1, o2}
  Emails = {e1, e2}
  Roles = {"viewer", "admin"}
  Clients = {p, q}
  Budgets <- MCBudgets
INVARIANTS
  TwiceOnlyInRace
  MembersExplained
  AdmittedWhileGood
CHECK_DEADLOCK FALSE
