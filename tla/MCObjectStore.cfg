SPECIFICATION Spec
CONSTANTS
    o1 = o1  o2 = o2  f1 = f1  f2 = f2  x = x  y = y  z = z
    NoBlob = NoBlob
    Client = {c1, c2, c3}
    Object = {o1, o2}
    File = {f1, f2}
    Content = {x, y, z}
    MaxIds = 3
SYMMETRY Symmetry
INVARIANTS VersionsNumbered VersionsComplete KeysOwned
PROPERTIES OverwritesRefused
CHECK_DEADLOCK FALSE
