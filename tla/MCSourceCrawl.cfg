SPECIFICATION MCSpec
CONSTANTS
    s = s
    a = a
    b = b
    c = c
    d = d
    o1 = o1
    o2 = o2
    b1 = b1
    b2 = b2
    None = None
    Url = {s, a, b, c, d}
    Origin = {o1, o2}
    Browser = {b1, b2}
    Concurrency = 2
    MaxRedirects = 1
    MaxResources = 1
    Seed = s
    MaxPages = 4
    TargetDetails = 2
    MaxDepth = 1
    MaxAttempts = 2
CHECK_DEADLOCK FALSE
INVARIANTS
    FetchingIsSound
PROPERTIES
    CrawlIsComplete
    CrawlEnds
