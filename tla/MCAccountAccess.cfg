SPECIFICATION MCSpec
CONSTANTS
    MaxRetries = 3
    MaxCalls = 2
    MaxMessages = 2
    MaxLosses = 2
    MaxOperator = 1
    Account = {1, 2}
    Phone = {1, 2}
    Email = {1, 2}
    CodeRequest = {"q1", "q2"}
    Try = {"t1", "t2"}
    AccessForm = {"f1"}
    Link = {"l1", "l2"}
    MaxAttempts = 2
    MaxCodes = 3
    MaxLogins = 1
CHECK_DEADLOCK FALSE
PROPERTIES
    DeliveryHolds
    AccountsAreSound
    OwedIsSettled
