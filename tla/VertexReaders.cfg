SPECIFICATION Spec
CONSTANTS
    Solves = {1, 2}
    Names = {"job", "export"}
    Digests = {"d1", "d2", ""}
    NoDigest = ""
    Shapes <- MCShapes
    Scenes <- MCScenes
\* The solves end.
CHECK_DEADLOCK FALSE
INVARIANT OneAccount
