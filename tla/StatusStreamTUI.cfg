SPECIFICATION Spec
CONSTANTS
    Solves = {s1, s2}
    Statuses = 2
    Displays = {"tui"}
SYMMETRY SolveSymmetry
INVARIANT WaitMeansDone
