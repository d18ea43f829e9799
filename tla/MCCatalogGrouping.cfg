SPECIFICATION MCSpec
CONSTANTS
    p1 = p1
    p2 = p2
    p3 = p3
    l1 = l1
    l2 = l2
    l3 = l3
    o1 = o1
    o2 = o2
    a1 = a1
    Property = {p1, p2, p3}
    Listing = {l1, l2, l3}
    Account = {a1}
    Operator = {o1, o2}
    None = None
    SubmittedBy <- OwnedByOne
    FirstHomes <- ApartOrTogether
    MaxEdits = 1
    MaxDecisions = 2
    MaxVersion = 1
    Target = {1, 2}
    PageSize = 1
    Hook = {"h1"}
    Worker = {"w1", "w2"}
    Token = {1, 2}
    MaxIdentity = 3
    MaxQueued = 2
    MaxFaults = 1
    Subject = {1, 2, 3}
    Batch = 2
    Clerk = {"c1", "c2"}
    MaxGeneration = 9
    MaxTroubles = 1
    MaxLeavers = 1
    Edited = {3}
CHECK_DEADLOCK FALSE
INVARIANTS
    NothingAtAliases
    JobsAreSound
PROPERTIES
    GroupsAreSound
    RejectionHolds
    JobsEnd
