CONSTANTS
    Starters = {s1, s2}
    a = a
    b = b
    Null = Null
    Releases <- MCReleases
    Scripts <- MCScripts
    MaxRestarts = 2
SPECIFICATION Spec
INVARIANTS
    RegistryTellsSchema
    ReturnedStartUpMatches
PROPERTIES
    MigratedOnceInOrder
    StartUpsReturn
CHECK_DEADLOCK FALSE
