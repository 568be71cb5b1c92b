SPECIFICATION Spec
CONSTANTS
    Data = {r1, r2, r3}
    Nil = Nil
    MaxSize = 2
    MESSAGE_SIZE = 2
    WRITE_SIZE = 1
    expiredDuration = 1
    maxDuration = 2
    Lost = {}
    LastCall = 3
    MaxTime = 6
CHECK_DEADLOCK FALSE
SYMMETRY Symmetry
INVARIANTS
  TypeOK
  AnswersMatch
  WaitingIsFound
  WaitingIsTracked
  NoEarlyTimeout
  ExpiryInTime
PROPERTIES
  TableSpec
