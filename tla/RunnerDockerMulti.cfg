SPECIFICATION RunSpec
CONSTANTS
    a = a
    b = b
    c = c
    app = app
    tool = tool
    amd = amd
    arm = arm
    Jobs = {a, b, c}
    Graphs <- MCGraphs
    Parallelism = 0
    Unknown = Unknown
    NoErr = NoErr
    Canceled = Canceled
    Refused = Refused
    AllJobs = AllJobs
    PublishInputs <- MCPublishInputs
    Exports = {}
INVARIANT DockerMultiPlatformRefusedFirst
