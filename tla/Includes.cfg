SPECIFICATION Spec
CONSTANTS
    r = r
    f = f
    g = g
    h = h
    k = k
    none = none
    v1 = v1
    v2 = v2
    Files = {r, f, g, h, k}
    Root = r
    Worlds <- MCWorlds
    MaxDepth = 3
    NoParam = none
\* A parse ends.
CHECK_DEADLOCK FALSE
INVARIANTS
    AncestryTight
    CycleVerdict
    CacheTransparent
    AliasCovers
