\* Safety of the channel hub: three connections of an account and its
\* subaccount in one channel, a cap of one.
SPECIFICATION Spec
CONSTANTS
    c1 = c1
    c2 = c2
    c3 = c3
    root = root
    sub = sub
    ch1 = ch1
    ch2 = ch2
    Conns <- MCThreeConns
    Aliases <- MCAliases
    ParentOf <- MCParentOf
    Channels <- MCOneChannel
    NoAlias = NoAlias
    NoParent = NoParent
    NoChat = NoChat
    MaxConnsPerMember = 1
    MaxMailbox = 2
SYMMETRY Symmetry
CHECK_DEADLOCK FALSE
INVARIANTS
    TypeOK
    IndexCoversRegistry
    NoLeakedMembership
    IntentHonoured
    ChatAudienceExact
PROPERTIES
    QuietWhileGroupStays
    SilentLossIsPrunedByChat
    Announces
