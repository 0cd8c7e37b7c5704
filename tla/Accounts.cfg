CONSTANTS
    c1 = c1
    c2 = c2
    c3 = c3
    Calls <- MCCalls
    ForProviders = FALSE
    Overlap = 2
    MaxTries = 2
    MaxFailures = 2
    TotpSteps = {1}
    Requests <- MCCalls
    Pushes = 1
SPECIFICATION AccountsSpec
SYMMETRY MCSymmetry
CHECK_DEADLOCK FALSE
INVARIANTS ClosedWithItsPassword ClosedWithoutACode CodesOpenOnce TriesAreCounted
PROPERTY SeenIsStored
