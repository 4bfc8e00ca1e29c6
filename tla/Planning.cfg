SPECIFICATION Spec
CONSTANTS
    none = none
    noname = noname
    NoMatrix = none
    NoName = noname
    MaxCombinations = 4
    BadDims = {"+"}
    BadValues = {"a b"}
    BadPaths = {"/"}
    RootPaths = {"/."}
    BadPlatforms <- MCBadPlatforms
    Inputs <- MCInputs
    Targets <- MCTargets
\* A command ends.
CHECK_DEADLOCK FALSE
INVARIANTS
    AcceptedMeansRunnable
    VariantDeps
    CachesApart
    WindowDelivers
    NoOneUsesACutJob
