SPECIFICATION Spec
CONSTANTS
    Instances = {i1, i2, i3}
    None = None
    MaxTries = 2
    MaxFaults = 2
INVARIANTS
    SchemaMatchesVersions
    ServesOnlyCurrentSchema
    StartsSideBySide
PROPERTIES
    ServesAtLast
\* All instances serve.
CHECK_DEADLOCK FALSE
