\* Both hubs, tickets and upgrades together: two connections, one channel, caps of one.
SPECIFICATION Spec
CONSTANTS
    c1 = c1
    c2 = c2
    root = root
    sub = sub
    other = other
    t1 = t1
    t2 = t2
    ch1 = ch1
    Conns <- MCConns
    Aliases <- MCAliases
    ParentOf <- MCParentOf
    Tickets <- MCTickets
    Channels <- MCChannels
    NoAlias = NoAlias
    NoParent = NoParent
    NoTicket = NoTicket
    NoChat = NoChat
    MaxConnsPerAlias = 1
    MaxConnsPerMember = 1
    MaxPresenceMailbox = 1
    MaxChannelMailbox = 1
SYMMETRY Symmetry
CHECK_DEADLOCK FALSE
INVARIANTS
    TypeOK
    GroupsAreFamilies
    MemberIsOnline
    SettledHubsAreExact
PROPERTIES
    ImplementsPresence
    ImplementsChannels
