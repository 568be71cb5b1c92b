SPECIFICATION FairSpec
CONSTANTS
    Data = {r1, r2}
    Nil = Nil
    MaxSize = 2
    MESSAGE_SIZE = 1
    WRITE_SIZE = 1
    expiredDuration = 2
    maxDuration = 3
    Lost = {r2}
    LastCall = 2
    MaxTime = 5
CHECK_DEADLOCK FALSE
PROPERTY WaitingEnds
