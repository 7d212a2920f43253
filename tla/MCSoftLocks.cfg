SPECIFICATION LockSpec
CONSTANTS
    ann = ann  bob = bob  root = root
    User = {ann, bob, root}
    Admin = {root}
    Resource = {r1}
    LockTTL = 2
    LockMaxTime = 6
    MaxIds = 3
SYMMETRY Editors
INVARIANTS LocksMatchLog
PROPERTIES NoUsurper
CHECK_DEADLOCK FALSE
