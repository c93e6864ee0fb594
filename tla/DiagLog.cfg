SPECIFICATION Spec
CONSTANTS
    MaxEntries = 3
    BatchSize = 2
    MaxLogged = 4
    MaxBoots = 2
CONSTRAINT FewOnTheirWay
INVARIANTS
    TypeOK
    OldestFirst
    StoredOncePerSession
PROPERTY LogIsAQueue
CHECK_DEADLOCK FALSE
