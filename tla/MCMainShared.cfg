SPECIFICATION Spec
CONSTANTS
    c1 = c1
    c2 = c2
    c3 = c3
    u1 = u1
    u2 = u2
    d1 = d1
    d2 = d2
    None = None
    Conns = {c1, c2, c3}
    Users = {u1}
    Devices = {d1, d2}
    Script <- SharedUser
    WRITE_SIZE = 1
    MaxObjects = 3
    MaxRequests = 1
CHECK_DEADLOCK FALSE
INVARIANTS
  TypeOK
  RegisteredIsOpen
  PanicNeedsSibling
PROPERTY LostOnlyByClosing
