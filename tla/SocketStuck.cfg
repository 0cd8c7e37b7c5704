CONSTANTS
    Conns = {t1, w1}
    Tcp = {t1}
    Queue = 2
    EventQueue = 1
    HeldQueue = 1
    MostHere = 1
    Comers = 1
    Publishes = 3
    Frames = 1
SPECIFICATION SocketsSpec
CHECK_DEADLOCK FALSE
PROPERTIES BehindIsClosed
