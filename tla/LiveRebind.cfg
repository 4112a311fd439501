CONSTANTS
    Process = {git, hook}
    Main = git
    Empty = Empty
    main = main
    side = side
    c1 = c1
    c2 = c2
    fileA = fileA
    fileB = fileB
    here = here
    there = there
    task = task
    other = other
    worker = worker
    Branch <- MCBranch
    Commit <- MCCommit
    Repos <- MCRepos
    PathsOf <- MCPathsOf
    Payloads <- MCPayloads
    Workspace = here
    MaxEvents = 2
SPECIFICATION FairSpec
INVARIANTS
    TimeoutStopsTheGroup
    ReboundWasTrue
PROPERTY
    WaitEnds
CHECK_DEADLOCK FALSE
