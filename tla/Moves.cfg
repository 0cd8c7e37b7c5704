CONSTANTS
    j1 = j1
    j2 = j2
    g1 = g1
    r1 = r1
    r2 = r2
    p1 = p1
    p2 = p2
    p3 = p3
    Names <- MCNames
    Groups <- MCGroups
    GroupOf <- MCGroupOf
    Procs <- MCProcs
    Runners <- MCRunners
    RunnerOf <- MCRunnerOf
    NoJob = NoJob
    Most = 1
    Ttl = 2
    MaxEpoch = 12
    Tries = 2
    Timely = TRUE
    MaxDemands = 3
    MaxFaults = 2
    a1 = a1
    Apps <- MCApps
    ProjectPaths <- MCProjectPaths
    Publishers = {1}
    Changes = 3
    mine = mine
    ours = ours
    Deployers = {j1, j2}
    Policies = {mine, ours}
    Longest = 2
    Standing <- MCStanding
    MaxDeploys = 5
SPECIFICATION MovesSpec
SYMMETRY MCSymmetry
CHECK_DEADLOCK FALSE
INVARIANTS RowsOpenNothing AppsFitTheTree OneHolderPerJob AppCeiling QueuedRunIsKept RealisedAlone
