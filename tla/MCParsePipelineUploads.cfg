SPECIFICATION Spec
CONSTANTS
  o1 = o1
  o2 = o2
  v1 = v1
  v2 = v2
  w1 = w1
  p1 = p1
  NoVersion = NoVersion
  Objects = {o1, o2}
  Versions = {v1, v2, w1}
  ObjectOf <- MCObjectOf
  NumberOf <- MCNumberOf
  ParentOf <- MCParentOf
  Parts = {p1}
  PartsOf <- MCPartsOf
  Processes = {a1}
  LinkTypes = {"CONTAINS"}
  Workers = {x1, x2}
  RawVersions = {w1}
  MaxRetries = 3
  Budgets <- MCUploadsOnly
PROPERTIES
  UploadsGetLinked
CHECK_DEADLOCK FALSE
