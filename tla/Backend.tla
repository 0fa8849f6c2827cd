------------------------------ MODULE Backend ------------------------------
(***************************************************************************)
(* Sessions and game saves as one server: the save routes run on behalf of *)
(* whoever a token names, resolve that player in the table that deletions  *)
(* change, and die with the process (App in src/main.rs).                  *)
(***************************************************************************)

CONSTANTS
    Players, SaveIds, Secrets,
    Requests, Logins,
    NoPlayer, NoSave, Removed, NoSecret

\* The sentinels of Sessions and of Saves are none of the values they stand beside.
ASSUME BackendAssumption ==
    /\ NoSecret \notin Secrets
    /\ NoPlayer \notin Players
    /\ Removed \notin Players \cup {NoPlayer}
    /\ NoSave \notin SaveIds

VARIABLES
    phase, secret, pool, account, login, tokens,
    saves, req, answer

A == INSTANCE Sessions
S == INSTANCE Saves

sessionVars == <<phase, secret, pool, account, login, tokens>>
saveVars == <<saves, req, answer>>
vars == <<sessionVars, saveVars>>

TypeOK == A!SessionsTypeOK /\ S!SavesTypeOK

Init == A!SessionsInit /\ S!SavesInit

-----------------------------------------------------------------------------
StartUp ==
    /\ \/ \E s \in Secrets : A!LoadConfig(s)
       \/ \E connects \in BOOLEAN : A!BuildPool(connects)
       \/ A!Serve
    /\ S!SavesIdle

\* The process dies with every handler in flight.
Crash == A!Crash /\ S!DropSaveHandlers

Accounts ==
    /\ \E p \in Players : A!Register(p) \/ A!SoftDelete(p)
    /\ S!SavesIdle

BeginLogin(h) ==
    /\ \E p \in Players : A!BeginLogin(h, p)
    /\ S!SavesIdle

LoginContinues(h) == A!LoginContinues(h) /\ S!SavesIdle

ExpireToken(token) == A!ExpireToken(token) /\ S!SavesIdle

\* A save route: the token names the caller, the request a player.
BeginSave(r) ==
    /\ A!Serving
    /\ \E caller \in Players :
         /\ A!Authenticated(caller)
         /\ \/ \E body \in S!CreateSaveRequest : S!PostSave(r, caller, body)
            \/ \E named \in Players :
                 \/ S!GetSaves(r, caller, named)
                 \/ \E s \in SaveIds : \/ S!GetSave(r, caller, named, s)
                                       \/ S!DeleteSave(r, caller, named, s)
    /\ UNCHANGED sessionVars

SaveContinues(r) == S!SaveContinues(r) /\ UNCHANGED sessionVars

Next ==
    \/ StartUp
    \/ Crash
    \/ Accounts
    \/ \E h \in Logins : BeginLogin(h) \/ LoginContinues(h)
    \/ \E token \in A!Token : ExpireToken(token)
    \/ \E r \in Requests : BeginSave(r) \/ SaveContinues(r)

Spec == Init /\ [][Next]_vars

(***************************************************************************)
(* A handler that has begun goes on, since each query ends in an answer or *)
(* an error, unless the process dies.  Time passes, so tokens expire.      *)
(* Nobody owes a request, and nobody has to restart the server.            *)
(***************************************************************************)
Fairness ==
    /\ \A h \in Logins : WF_vars(LoginContinues(h))
    /\ \A r \in Requests : WF_vars(SaveContinues(r))
    /\ \A token \in A!Token : WF_vars(ExpireToken(token))

FairSpec == Spec /\ Fairness

-----------------------------------------------------------------------------
(***************************************************************************)
(* Properties.                                                             *)
(***************************************************************************)
AnswersAreOwn == S!AnswersAreOwn

SavesKept == S!SavesKept

\* Nobody holds a token of p, is about to be given one, or is served as p.
Quiet(p) ==
    /\ \A token \in tokens : token.sub # p
    /\ \A h \in Logins : login[h].who # p
    /\ \A r \in Requests : req[r].caller # p

(***************************************************************************)
(* What a deleted account has in flight over HTTP dies out for good,       *)
(* although tokens outlive it, a login that read the row before the        *)
(* deletion may issue one more, and a create that resolved its owner in    *)
(* time stores a save for it: logins and save requests end, tokens run     *)
(* out, and no restart revives any.  Its tickets and sockets, which no     *)
(* deletion touches, are outside this module.                              *)
(***************************************************************************)
DeletedGoesQuiet == \A p \in Players : account[p] = "deleted" ~> []Quiet(p)

=============================================================================
