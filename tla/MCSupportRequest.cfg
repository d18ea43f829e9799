SPECIFICATION MCSpec
CONSTANTS
    ann = ann
    bob = bob
    root = root
    None = None
    Account = {ann, bob, root}
    Superuser = {root}
    Given <- OneOperator
    Rows <- AllAsked
    Classifications = {"privacy", "account_deletion"}
    Required = {None, "handle_privacy_requests"}
    Priorities = {"urgent"}
    Remarks = {"note_added"}
    Grants = {{}, {"handle_support"}}
    MaxEvents = 5
    MaxMessages = 3
    MaxPublic = 6
    MaxPages = 1
    MaxGrants = 1
CHECK_DEADLOCK FALSE
INVARIANTS
    RequestIsSound
PROPERTIES
    WorkIsHandedOn
    RepliesAreHeard
    RedactionHolds
