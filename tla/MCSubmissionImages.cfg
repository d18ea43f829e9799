SPECIFICATION MCSpec
CONSTANTS
    Worker = {w1, w2}
    Limit = 3
    MaxImages = 3
    MaxUploads = 3
    MaxFaults = 1
    MaxLosses = 1
CHECK_DEADLOCK FALSE
INVARIANTS
    ImagesAreSound
PROPERTIES
    ReadyFilesHold
    ImagesSettle
