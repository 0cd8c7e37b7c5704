CONSTANTS
    j1 = j1
    j2 = j2
    g1 = g1
    r1 = r1
    r2 = r2
    p1 = p1
    p2 = p2
    p3 = p3
    Names <- MCOneName
    Groups <- MCGroups
    GroupOf <- MCGroupOf
    Procs <- MCTwoProcs
    Runners <- MCRunners
    RunnerOf <- MCRunnerOf
    NoJob = NoJob
    Most = 1
    Ttl = 2
    MaxEpoch = 12
    Tries = 2
    Timely = TRUE
    MaxDemands = 2
    MaxFaults = 1
SPECIFICATION Spec
INVARIANTS OneRunAtATime
