\* No symmetry: EventuallyHanded is a liveness property.
SPECIFICATION FairSpec
CONSTANTS
    w1 = w1  w2 = w2  q1 = q1  q2 = q2  k1 = k1  k2 = k2  k3 = k3
    i1 = i1  i2 = i2  i3 = i3
    NoRow = NoRow
    Id = {i1, i2, i3}
    IdOf <- MCIdOf
    Chosen = {i1}
    Writer = {w1, w2}
    Poller = {q1, q2}
    Key = {k1, k2, k3}
    Limit = 1
    MaxSeq = 4
INVARIANTS PublishedOnce HandedOnce
PROPERTIES EventuallyHanded
CHECK_DEADLOCK FALSE
