------------------------------ MODULE Sessions ------------------------------
(***************************************************************************)
(* The life of the server process and of the sessions it hands out:        *)
(* start-up (src/main.rs, src/config.rs, src/db.rs), login                 *)
(* (src/api/auth.rs, src/services/players.rs), the tokens and the check    *)
(* every protected route makes (src/services/auth.rs,                      *)
(* src/middleware/auth.rs).                                                *)
(*                                                                         *)
(* A token is a player's name signed with the secret in force when it was  *)
(* issued.  The server keeps no list of them: whether one is honoured      *)
(* depends on the secret of the running process and on its expiry alone,   *)
(* not on the account.  Tokens and accounts outlive the process; secret,   *)
(* pool and handlers do not.  A refused request has no action.             *)
(***************************************************************************)

CONSTANTS
    Players,    \* public_id values of accounts
    Secrets,    \* values of JWT_SECRET an operator may start the server with
    NoSecret,   \* the process has no configuration
    NoPlayer,   \* nobody
    Logins      \* login handlers that may be in flight together

VARIABLES
    phase,      \* how far the process has come
    secret,     \* Config::jwt_secret of this process
    pool,       \* whether this process has a database pool
    account,    \* status of each player's row
    login,      \* what each login handler will do next, and for whom
    tokens      \* the tokens clients hold that have not expired

sessionVars == <<phase, secret, pool, account, login, tokens>>

Phases == {"down", "configured", "connected", "up"}
Statuses == {"none", "active", "deleted"}
Token == [sub : Players, secret : Secrets]
Login == [at : {"idle", "issue"}, who : Players \cup {NoPlayer}]

SessionsTypeOK ==
    /\ phase \in Phases
    /\ secret \in Secrets \cup {NoSecret}
    /\ (phase = "down") <=> (secret = NoSecret)
    /\ pool \in BOOLEAN
    /\ account \in [Players -> Statuses]
    /\ login \in [Logins -> Login]
    /\ tokens \subseteq Token

NoLogin == [at |-> "idle", who |-> NoPlayer]

SessionsInit ==
    /\ phase = "down"
    /\ secret = NoSecret
    /\ pool = FALSE
    /\ account = [p \in Players |-> "none"]
    /\ login = [h \in Logins |-> NoLogin]
    /\ tokens = {}

-----------------------------------------------------------------------------
(***************************************************************************)
(* Start-up, in the order of main().                                       *)
(***************************************************************************)

\* Mutation of LoadConfig: a missing JWT_SECRET is let through.
LoadAnyConfig(s) ==
    /\ phase = "down"
    /\ phase' = "configured"
    /\ secret' \in {s, NoSecret}
    /\ UNCHANGED <<pool, account, login, tokens>>

\* Config::from_env: an invalid environment ends the process, no action.
LoadConfig(s) ==
    /\ phase = "down"
    /\ phase' = "configured"
    /\ secret' = s
    /\ UNCHANGED <<pool, account, login, tokens>>

\* build_pool connects, or it does not; nobody tries again later.
BuildPool(connects) ==
    /\ phase = "configured"
    /\ phase' = "connected"
    /\ pool' = connects
    /\ UNCHANGED <<secret, account, login, tokens>>

\* The workers get their App and the port is bound.
Serve ==
    /\ phase = "connected"
    /\ phase' = "up"
    /\ UNCHANGED <<secret, pool, account, login, tokens>>

\* The process ends, at any time: also when the port is taken.
Crash ==
    /\ phase # "down"
    /\ phase' = "down"
    /\ secret' = NoSecret
    /\ pool' = FALSE
    /\ login' = [h \in Logins |-> NoLogin]
    /\ UNCHANGED <<account, tokens>>

\* A handler that needs the database answers 503 without a pool.
Serving == phase = "up" /\ pool

\* verify_jwt: signed with this process's secret, and not expired.
VerifyJwt(token) == token \in tokens /\ token.secret = secret

\* AuthenticatedUser: the bearer is whoever the token names.
Authenticated(p) == \E token \in tokens : token.sub = p /\ VerifyJwt(token)

-----------------------------------------------------------------------------
\* The INSERT of a registration, under a public_id nobody had.
Register(p) ==
    /\ Serving
    /\ account[p] = "none"
    /\ account' = [account EXCEPT ![p] = "active"]
    /\ UNCHANGED <<phase, secret, pool, login, tokens>>

\* DELETE /players/{id}: the UPDATE; the row stays.
SoftDelete(p) ==
    /\ Serving /\ Authenticated(p)
    /\ account[p] = "active"
    /\ account' = [account EXCEPT ![p] = "deleted"]
    /\ UNCHANGED <<phase, secret, pool, login, tokens>>

-----------------------------------------------------------------------------
\* Mutation of FindByUsername: deleted rows are found too.
FindAnyUsername(p) == account[p] # "none"

\* find_by_username: WHERE username = ? AND status <> 'deleted'
FindByUsername(p) == account[p] = "active"

LoginAnswers(h) == login' = [login EXCEPT ![h] = NoLogin]

\* POST /auth/login, up to the answer of the SELECT; no row is a 401.
BeginLogin(h, p) ==
    /\ Serving
    /\ login[h] = NoLogin
    /\ FindByUsername(p)
    /\ login' = [login EXCEPT ![h] = [at |-> "issue", who |-> p]]
    /\ UNCHANGED <<phase, secret, pool, account, tokens>>

\* issue_jwt: the row may have been deleted since it was read.
IssueJwt(h) ==
    /\ tokens' = tokens \cup {[sub |-> login[h].who, secret |-> secret]}
    /\ LoginAnswers(h)

\* verify_password says no, which is a 401, or the stored hash is malformed;
\* a handler that is dropped issues no token either.
RefuseLogin(h) == LoginAnswers(h) /\ UNCHANGED tokens

\* verify_credentials has the row, and any password may come with it.
LoginContinues(h) ==
    /\ login[h].at = "issue"
    /\ IssueJwt(h) \/ RefuseLogin(h)
    /\ UNCHANGED <<phase, secret, pool, account>>

\* The token's exp passes, whether or not a server runs; there is no leeway.
ExpireToken(token) ==
    /\ token \in tokens
    /\ tokens' = tokens \ {token}
    /\ UNCHANGED <<phase, secret, pool, account, login>>

=============================================================================
