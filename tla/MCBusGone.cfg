SPECIFICATION Spec
CONSTANTS
    Data = {r1}
    Nil = Nil
    MaxSize = 2
    MESSAGE_SIZE = 1
    WRITE_SIZE = 1
    expiredDuration = 2
    maxDuration = 3
    Lost = {}
    LastCall = 2
    MaxTime = 5
CHECK_DEADLOCK FALSE
INVARIANT NobodyGone
