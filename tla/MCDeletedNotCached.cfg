\* A fill overtaken by a DELETE caches the deleted account.
SPECIFICATION Spec
CONSTANTS
    p1 = p1
    p2 = p2
    n1 = n1
    n2 = n2
    e1 = e1
    r1 = r1
    r2 = r2
    r3 = r3
    Players <- MCOnePlayer
    Names <- MCNames
    Emails <- MCNoEmails
    NoEmail = NoEmail
    NoPlayer = NoPlayer
    NoRow = NoRow
    NoView = NoView
    Omitted = Omitted
    Puts <- MCRenames
    Requests <- MCTwoRequests
    Faults = FALSE
SYMMETRY Symmetry
INVARIANTS
    DeletedNotCached
