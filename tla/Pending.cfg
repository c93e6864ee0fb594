SPECIFICATION FairSpec
CONSTANTS
    None = None
    h1 = h1
    h2 = h2
    Poll = {h1, h2}
    MaxCommands = 3
    MaxLost = 2
INVARIANTS
    TypeOK
    CarriedOutOnce
    LostOnlyWithPoll
PROPERTY EveryCommandFetched
