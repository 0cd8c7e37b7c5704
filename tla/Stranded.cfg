CONSTANTS
    k1 = k1
    k2 = k2
    w1 = w1
    w2 = w2
    c1 = c1
    c2 = c2
    r1 = r1
    Keys <- MCKeys
    Tree <- MCTree
    Writers <- MCWriters
    Readers <- MCReaders
    Runners <- MCRunners
    NoOne = NoOne
    Losses = 1
SPECIFICATION PublishesSpec
SYMMETRY MCSymmetry
CHECK_DEADLOCK FALSE
INVARIANTS NothingStranded
