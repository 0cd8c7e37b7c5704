CONSTANTS
    mine = mine
    ours = ours
    Deployers = {k1, k2}
    Policies = {mine, ours}
    Longest = 2
    Standing <- MCStanding
    MaxDeploys = 4
SPECIFICATION SchemaSpec
CHECK_DEADLOCK FALSE
INVARIANT RealisedWhenQuiet
