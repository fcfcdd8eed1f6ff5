SPECIFICATION Spec
CONSTANTS
    Callers = {c1, c2}
    Files = {a, b, x}
    Excluded = {x}
    Unreadable = {}
    Contents <- AllContents
    Absent = "absent"
    Targets = {a}
    Scratch = {b, x}
    Overlap = FALSE
    Faults = {"crash", "raise"}
INVARIANTS ManifestIsBacked PatchesAreAccountedFor
PROPERTIES RollbackIsExact SuccessKeepsThePatch
CHECK_DEADLOCK FALSE
