SPECIFICATION MCSpec
CONSTANTS
    Case = {c1, c2}
    Host = {h1, h2}
    Operator = {o1, o2}
    Submitters <- AllSubmitters
    NoOne = NoOne
    MaxRevision = 3
    MaxTransfers = 3
    MaxReservations = 2
    MaxVersions = 3
    MaxGenerations = 1
    MaxRepairs = 1
    c1 = c1
    c2 = c2
    s1 = s1
    s2 = s2
    h1 = h1
    h2 = h2
    o1 = o1
    o2 = o2
    Bounds <- AllBounds
CHECK_DEADLOCK FALSE
INVARIANTS
    CasesAreSound
    OneFetcher
PROPERTIES
    WorkersKeepToTheCase
    HostsComeFree
