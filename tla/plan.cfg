SPECIFICATION Spec
CONSTANTS
    Documents <- MCDocuments
    Unparsable <- Garbled
    Repositories <- MCRepositories
    Config <- MCConfig
    Parameters = {"{id}"}
    Versions = {"v1"}
    SdkPrefixes = {"stripe"}
    Canonical <- MCCanonical
    Rank <- MCRank
INVARIANTS
    CleanMeansCompatible
    DiffIsExact
    ReferencesAreAccountedFor
    StatusMatchesTargets
    UnambiguousCallsAreClassified
CHECK_DEADLOCK FALSE
