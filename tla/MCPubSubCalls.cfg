SPECIFICATION FairSpec
CONSTANTS
    s1 = s1
    s2 = s2
    p1 = p1
    t1 = t1
    t2 = t2
    None = None
    Chans = {s1}
    Publishers = {p1}
    Topics = {t1, t2}
    TopicLists <- Lists
    Ops = {"sub", "subOnce", "addSub", "unsub", "pub", "closeTopic", "shutdown"}
    Capacity = 1
    MaxPubs = 2
    ReadsInCall = TRUE
CHECK_DEADLOCK FALSE
PROPERTY CallsReturn
