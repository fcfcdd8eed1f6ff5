SPECIFICATION FairSpec
CONSTANTS
    api = api
    admin = admin
    mobile = mobile
    Works <- MCWorks
    Consumers <- MCConsumers
    Active = {admin, mobile}
    Overlap = FALSE
    Faults = {"credentials"}
    MaxEvents = 3
    NoCandidate = NoCandidate
INVARIANTS OneIssuePerWork NotifiedIsCurrent
PROPERTIES ImpactIsDecided
CHECK_DEADLOCK FALSE
