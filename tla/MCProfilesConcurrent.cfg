\* Three handlers on two accounts that compete for two names; none of them fails.
SPECIFICATION Spec
CONSTANTS
    p1 = p1
    p2 = p2
    n1 = n1
    n2 = n2
    e1 = e1
    r1 = r1
    r2 = r2
    r3 = r3
    Players <- MCTwoPlayers
    Names <- MCNames
    Emails <- MCNoEmails
    NoEmail = NoEmail
    NoPlayer = NoPlayer
    NoRow = NoRow
    NoView = NoView
    Omitted = Omitted
    Puts <- MCRenames
    Requests <- MCThreeRequests
    Faults = FALSE
SYMMETRY Symmetry
INVARIANTS
    TypeOK
    StaleOnlyByLateFill
PROPERTIES
    DeletedIsFinal
