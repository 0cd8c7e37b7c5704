CONSTANTS
    s1 = s1
    s2 = s2
    person = person
    Turns <- MCTurns
    MaxTime = 4
    Window = 2
    Tasks <- MCTasks
    Schedulers <- MCSchedulers
    Ahead <- MCAhead
    OnPostgres = TRUE
    MaxChanges = 1
    MaxCrashes = 1
    h1 = h1
    h2 = h2
    pa = pa
    pb = pb
    pc = pc
    ma = ma
    mb = mb
    ax = ax
    ay = ay
    Processes = {h1, h2}
    Publishes = {pa, pb, pc}
    Movers = {ma, mb}
    ProcessOf <- MCProcessOf
    AppOf <- MCAppOf
    MaxTurns = 1
    MaxWaiting = 1
    PoolSize = 3
    MaxSteps = 1
    MaxFaults = 1
    Grains = {1, 2}
    Per = 2
    RateWindow = 3
    LastMoment = 8
SPECIFICATION TablesSpec
INVARIANT NeverOneMore
PROPERTIES TurnRunsOnce DueTurnIsClaimed CallsEnd
CHECK_DEADLOCK FALSE
