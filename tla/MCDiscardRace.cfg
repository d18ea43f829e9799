SPECIFICATION Spec
CONSTANTS
    Operators = {o1, o2, s}
    Submitter = s
    ClaimId = {c1, c2}
    NoClaim = NoClaim
    NoTx = NoTx
    ClaimDuration = 2
    MaxRevision = 2
    MaxLate = 1
SYMMETRY Symmetry
INVARIANTS
    ReviewedIsNotDiscarded
