SPECIFICATION MCSpec
CONSTANTS
    a = a
    b = b
    l1 = l1
    l2 = l2
    User = {a, b}
    Listing = {l1, l2}
    Owner <- OwnedByB
    ColdLimit = 1
    Radius = 0
    MaxPerInquiry = 2
    MaxReports = 2
    MaxOpen = 2
CHECK_DEADLOCK FALSE
INVARIANTS
    InquiriesAreSound
PROPERTIES
    HeldIsFrozen
    RestrictionsHold
