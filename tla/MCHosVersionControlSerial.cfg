\* One request at a time.
SPECIFICATION Spec
CONSTANTS
    main = main  side = side  other = other
    p1 = p1  p2 = p2  x = x  y = y  bad = bad  prj1 = prj1  prj2 = prj2
    Absent = Absent
    Project <- MCProject
    ProjectOf <- MCProjectOf
    Path <- MCPath
    Value <- MCValue
    Refused = {bad}
    Offered <- MCOffered
    Client = {c1}
    Branch = {main, side, other}
    Payload <- MCPayload
    ExplicitParents <- MCExplicit
    MaxCommits = 4
    MaxMerges = 1
INVARIANTS HistoryWellFormed AutoCompletes FinalizedOnce
PROPERTIES FinalizationHonoursRows HeadsLeftBehindKnowingly
CHECK_DEADLOCK FALSE
