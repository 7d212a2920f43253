SPECIFICATION Spec
CONSTANTS
  n1 = n1
  n2 = n2
  e1 = e1
  i1 = i1
  d1 = d1
  Clients = {p, q}
  NodeKeys = {n1, n2}
  EdgeKeys = {e1}
  Identities = {i1}
  Documents = {d1}
  NoRow = NoRow
  none = none
  t1 = t1
  t2 = t2
  Columns = {"refers", "rest"}
  Values = {none, t1, t2, i1}
  Batches <- MCBatches
  Commits = {c1}
  Rank <- MCRank
  MaxRequests = 3
INVARIANTS
  AnsweredRowsKept
  SnapshotToldOnce
PROPERTIES
  RequestsEnd
CHECK_DEADLOCK FALSE
