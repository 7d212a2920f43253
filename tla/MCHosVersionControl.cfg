\* Racing requests.
SPECIFICATION Spec
CONSTANTS
    main = main  side = side  other = other
    p1 = p1  p2 = p2  x = x  y = y  bad = bad  prj1 = prj1  prj2 = prj2
    Absent = Absent
    Project <- MCProject
    ProjectOf <- MCProjectOf
    Path <- MCPath
    Value <- MCValue
    Refused = {bad}
    Offered <- RacingOffered
    Client = {c1, c2}
    Branch = {main, side}
    Payload <- TwoPayloads
    ExplicitParents <- OneExplicit
    MaxCommits = 4
    MaxMerges = 1
SYMMETRY ClientSymmetry
INVARIANTS ConflictRowsExact MergeResultFaithful TrailComplete
CHECK_DEADLOCK FALSE
