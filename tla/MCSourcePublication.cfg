SPECIFICATION MCSpec
CONSTANTS
    Url = {u1}
    Website = Website
    MaxRequests = 3
    MaxVersions = 2
    MaxProcessing = 2
    MaxModeChanges = 2
CHECK_DEADLOCK FALSE
PROPERTIES
    PublicationIsAuthorized
    ContentStands
    OlderEvidenceNeverHides
