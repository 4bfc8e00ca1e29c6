SPECIFICATION FairSpec
CONSTANTS
    c1 = c1
    c2 = c2
    Clients = {c1, c2}
    Commands = {"run", "start", "stop", "status"}
INVARIANTS
    AnswersHeld
    StartFailsForCause
PROPERTIES
    StopsBeforeKill
    CommandsEnd
