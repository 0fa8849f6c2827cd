\* Two channels, so that one LeaveAllChannels empties several; liveness under the
\* fairness of the hub's arbiter; no symmetry.
SPECIFICATION FairSpec
CONSTANTS
    c1 = c1
    c2 = c2
    c3 = c3
    root = root
    sub = sub
    ch1 = ch1
    ch2 = ch2
    Conns <- MCTwoConns
    Aliases <- MCAliases
    ParentOf <- MCParentOf
    Channels <- MCTwoChannels
    NoAlias = NoAlias
    NoParent = NoParent
    NoChat = NoChat
    MaxConnsPerMember = 1
    MaxMailbox = 1
CHECK_DEADLOCK FALSE
PROPERTIES
    Announces
    GoneIsForgotten
    IntentTakesEffect
