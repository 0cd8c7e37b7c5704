CONSTANTS
    Servers = {s1}
    Writes = 1
SPECIFICATION TransferSpec
CHECK_DEADLOCK FALSE
INVARIANTS FailsIfChanged
