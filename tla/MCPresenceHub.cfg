\* The presence hub: safety, the refinement of Announcer, and liveness under the
\* fairness of the hub's arbiter and of the connections that have stopped; three
\* connections, two aliases, a cap of one; no symmetry.
SPECIFICATION FairSpec
CONSTANTS
    c1 = c1
    c2 = c2
    c3 = c3
    a1 = a1
    a2 = a2
    Conns <- MCConns
    Aliases <- MCAliases
    ParentOf <- MCParentOf
    NoAlias = NoAlias
    NoParent = NoParent
    MaxConnsPerAlias = 1
    MaxMailbox = 2
CHECK_DEADLOCK FALSE
INVARIANTS
    TypeOK
    NoLeakedEntry
    LiveStaysRegistered
    ToldIsTrue
PROPERTIES
    NoFlap
    GrowthBeyondCapIsLive
    Announces
    GoneIsForgotten
    OfflineIsTold
