CONSTANTS
    MinSleep = 2
    MaxSleep = 5
    Period = 7
    Never = 9
    Soonest = 0
    MaxSets = 2
    t1 = t1
    w1 = w1
    Conns <- MCConns
    Tcp <- MCTcp
    Queue = 2
    EventQueue = 1
    HeldQueue = 1
    MostHere = 1
    Comers = 1
    Publishes = 3
    Frames = 1
    Processes <- MCProcesses
    LiveFor = 2
    ForgetAfter = 3
    Punctual = TRUE
    j1 = j1
    g1 = g1
    r1 = r1
    r2 = r2
    Names <- MCNames
    Groups <- MCGroups
    GroupOf <- MCGroupOf
    Procs <- MCProcesses
    Runners <- MCProcesses
    RunnerOf <- MCRunnerOf
    NoJob = NoJob
    Most = 1
    Ttl = 2
    MaxEpoch = 8
    Tries = 1
    Timely = FALSE
    MaxDemands = 2
    MaxFaults = 1
SPECIFICATION LoopsSpec
INVARIANTS LateOnlyWhenNotified  EpochsTellHoldersApart
PROPERTIES OwedIsTakenOver EndedIsClosed HiddenGoes BehindIsClosedOverTcp AloneServes
PROPERTIES RequestSpentByItsHolder SlotComesFree QueuedRunComes
CHECK_DEADLOCK FALSE
