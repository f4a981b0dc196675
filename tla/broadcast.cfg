CONSTANTS
    Handlers = {h1, h2}
    Watchers = {w1, w2}
    Nobody = Nobody
    QueueLen = 1
    ChanLen = 1
    MaxPrefix = 2
    MaxEvents = 2
SPECIFICATION FairSpec
INVARIANTS TypeOK EventsInOrder
PROPERTIES CallersReturn
