\* Two players, two saves, two save handlers and a login; every handler can fail and
\* the process can die.
SPECIFICATION FairSpec
CONSTANTS
    p1 = p1
    p2 = p2
    s1 = s1
    s2 = s2
    k1 = k1
    r1 = r1
    r2 = r2
    h1 = h1
    Players <- MCPlayers
    SaveIds <- MCSaveIds
    Secrets <- MCSecrets
    Requests <- MCRequests
    Logins <- MCLogins
    NoPlayer = NoPlayer
    NoSave = NoSave
    Removed = Removed
    NoSecret = NoSecret
INVARIANTS
    TypeOK
    AnswersAreOwn
PROPERTIES
    SavesKept
    DeletedGoesQuiet
