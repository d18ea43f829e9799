SPECIFICATION MCSpec
CONSTANTS
    Source = {1, 2}
    Dispatcher = {"d1", "d2"}
    Form = {"f1"}
    Interval = {1, 2}
    BatchSize = 1
    MaxTime = 4
    MaxRevision = 2
    MaxChanges = 1
    MaxKilled = 1
    MaxRuns = 3
    MaxDays = 3
    Deliverer = {"d1", "d2"}
    MaxHandovers = 2
    Page = {1, 2}
    Operator = {1, 2}
    Token = {1, 2}
    MaxVersion = 2
    MaxDesk = 2
    MaxRules = 2
    MaxSent = 2
CHECK_DEADLOCK FALSE
INVARIANTS
    NoticesAreSound
PROPERTIES
    ScheduleHolds
    BulkHolds
    ControlGoesOn
