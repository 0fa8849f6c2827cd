--------------------------- MODULE BackendProofs ---------------------------
(***************************************************************************)
(* Theorems about Backend, for any sets of accounts, saves, secrets and    *)
(* handlers: types, the privacy of saves, and that saves stay.             *)
(***************************************************************************)
EXTENDS Backend, TLAPS

(***************************************************************************)
(* Sessions.  A login that is about to issue a token has found an account, *)
(* and the process that began it still runs, so that there is a secret.    *)
(***************************************************************************)
LoginsSound ==
    \A h \in Logins : login[h].at = "issue" => login[h].who \in Players /\ phase = "up"

SessionInv == A!SessionsTypeOK /\ LoginsSound

LEMMA SessionsInit == A!SessionsInit => SessionInv
<1>1. A!NoLogin \in A!Login /\ A!NoLogin.at = "idle"
  BY DEF A!NoLogin, A!Login
<1>2. A!SessionsInit => A!SessionsTypeOK
  BY <1>1 DEF A!SessionsInit, A!SessionsTypeOK, A!Phases, A!Statuses
<1>3. A!SessionsInit => LoginsSound
  BY <1>1 DEF A!SessionsInit, LoginsSound
<1>. QED
  BY <1>2, <1>3 DEF SessionInv

LEMMA StartsTyped ==
    ASSUME SessionInv,
           \/ \E s \in Secrets : A!LoadConfig(s)
           \/ \E connects \in BOOLEAN : A!BuildPool(connects)
           \/ A!Serve
           \/ A!Crash
    PROVE  SessionInv'
<1>. USE BackendAssumption DEF SessionInv, LoginsSound, A!SessionsTypeOK, A!Phases
<1>1. ASSUME NEW s \in Secrets, A!LoadConfig(s) PROVE SessionInv'
  BY <1>1 DEF A!LoadConfig
<1>2. ASSUME NEW connects \in BOOLEAN, A!BuildPool(connects) PROVE SessionInv'
  BY <1>2 DEF A!BuildPool
<1>3. CASE A!Serve
  BY <1>3 DEF A!Serve
<1>4. CASE A!Crash
  BY <1>4 DEF A!Crash, A!NoLogin, A!Login
<1>. QED
  BY <1>1, <1>2, <1>3, <1>4

LEMMA AccountsTyped ==
    ASSUME SessionInv, NEW p \in Players, A!Register(p) \/ A!SoftDelete(p)
    PROVE  SessionInv'
  BY DEF SessionInv, LoginsSound, A!SessionsTypeOK, A!Register, A!SoftDelete, A!Statuses

LEMMA BeginLoginTyped ==
    ASSUME SessionInv, NEW h \in Logins, NEW p \in Players, A!BeginLogin(h, p)
    PROVE  SessionInv'
<1>1. login' = [login EXCEPT ![h] = [at |-> "issue", who |-> p]] /\ phase = "up"
      /\ UNCHANGED <<phase, secret, pool, account, tokens>>
  BY DEF A!BeginLogin, A!Serving
<1>2. [at |-> "issue", who |-> p] \in A!Login
  BY DEF A!Login
<1>3. A!SessionsTypeOK'
  BY <1>1, <1>2 DEF SessionInv, A!SessionsTypeOK
<1>4. LoginsSound'
  BY <1>1 DEF SessionInv, A!SessionsTypeOK, LoginsSound
<1>. QED
  BY <1>3, <1>4 DEF SessionInv

LEMMA LoginContinuesTyped ==
    ASSUME SessionInv, NEW h \in Logins, A!LoginContinues(h)
    PROVE  SessionInv'
<1>1. /\ login' = [login EXCEPT ![h] = A!NoLogin]
      /\ UNCHANGED <<phase, secret, pool, account>>
      /\ tokens' \in {tokens, tokens \cup {[sub |-> login[h].who, secret |-> secret]}}
      /\ login[h].who \in Players /\ phase = "up"
  BY DEF A!LoginContinues, A!IssueJwt, A!RefuseLogin, A!LoginAnswers, SessionInv, LoginsSound
<1>2. A!NoLogin \in A!Login /\ A!NoLogin.at = "idle"
  BY DEF A!NoLogin, A!Login
<1>3. tokens' \subseteq A!Token
  BY <1>1 DEF SessionInv, A!SessionsTypeOK, A!Token
<1>4. A!SessionsTypeOK'
  BY <1>1, <1>2, <1>3 DEF SessionInv, A!SessionsTypeOK
<1>5. LoginsSound'
  BY <1>1, <1>2 DEF SessionInv, A!SessionsTypeOK, LoginsSound
<1>. QED
  BY <1>4, <1>5 DEF SessionInv

-----------------------------------------------------------------------------
(***************************************************************************)
(* Saves.  A handler works for the player of the token, on an id the       *)
(* request named; and the save a create reads back is still the one it     *)
(* stored, or has been removed: its id names no other row.                 *)
(***************************************************************************)
SoundRequest(r) ==
    /\ req[r].op # "none" => req[r].caller \in Players /\ req[r].owner = req[r].caller
    /\ req[r].at = "readBack" =>
         /\ req[r].op = "create"
         /\ req[r].save \in SaveIds
         /\ saves[req[r].save] \in {req[r].owner, Removed}

RequestsSound == \A r \in Requests : SoundRequest(r)

SaveInv == S!SavesTypeOK /\ RequestsSound

LEMMA SavesInit == S!SavesInit => SaveInv /\ AnswersAreOwn
  BY DEF S!SavesInit, S!SavesTypeOK, S!Idle, S!Request, S!Steps, S!Ops, S!AnswersAreOwn,
     SaveInv, RequestsSound, SoundRequest, AnswersAreOwn

\* No save handler moves.
LEMMA SavesIdleSound ==
    ASSUME SaveInv, S!SavesIdle
    PROVE  SaveInv' /\ AnswersAreOwn'
  BY DEF S!SavesIdle, S!SavesTypeOK, S!AnswersAreOwn, SaveInv, RequestsSound, SoundRequest,
     AnswersAreOwn

LEMMA DropSound ==
    ASSUME SaveInv, S!DropSaveHandlers
    PROVE  SaveInv' /\ AnswersAreOwn'
  BY DEF S!DropSaveHandlers, S!SavesTypeOK, S!Idle, S!Request, S!Steps, S!Ops,
     S!AnswersAreOwn, SaveInv, RequestsSound, SoundRequest, AnswersAreOwn

\* A route hands its handler the player of the token and no one else.
LEMMA BeginSaveSound ==
    ASSUME SaveInv, NEW r \in Requests, BeginSave(r)
    PROVE  SaveInv' /\ AnswersAreOwn'
<1>1. PICK caller \in Players, op \in S!Ops \ {"none"}, s \in SaveIds \cup {NoSave} :
         S!Begins(r, op, caller, caller, s)
  BY DEF BeginSave, S!PostSave, S!GetSaves, S!GetSave, S!DeleteSave, S!Ops
<1>. DEFINE h == [at |-> "query", op |-> op, caller |-> caller, owner |-> caller, save |-> s]
<1>2. h \in S!Request /\ req' = [req EXCEPT ![r] = h] /\ saves' = saves /\ answer' = {}
  BY <1>1 DEF S!Begins, S!Request, S!Steps
<1>3. S!SavesTypeOK'
  BY <1>2 DEF SaveInv, S!SavesTypeOK
<1>4. RequestsSound'
  BY <1>2 DEF SaveInv, S!SavesTypeOK, RequestsSound, SoundRequest
<1>5. AnswersAreOwn'
  BY <1>2 DEF AnswersAreOwn, S!AnswersAreOwn
<1>. QED
  BY <1>3, <1>4, <1>5 DEF SaveInv

\* A handler that answers with views of its caller's saves, or with none.
LEMMA AnswersSound ==
    ASSUME SaveInv, NEW r \in Requests, NEW views, S!Answers(r, views), UNCHANGED saves,
           \A v \in views : /\ v \in S!View /\ v.playerId = req[r].caller
                            /\ saves[v.id] = req[r].caller /\ req[r].caller \in Players
    PROVE  SaveInv' /\ AnswersAreOwn'
<1>1. S!Idle \in S!Request /\ S!Idle.op = "none" /\ S!Idle.at = "idle"
  BY DEF S!Idle, S!Request, S!Steps, S!Ops
<1>2. /\ req' = [req EXCEPT ![r] = S!Idle]
      /\ answer' = {[to |-> req[r].caller, view |-> v] : v \in views}
  BY DEF S!Answers
<1>3. answer' \subseteq [to : Players, view : S!View]
  BY <1>2
<1>4. S!SavesTypeOK'
  BY <1>1, <1>2, <1>3 DEF SaveInv, S!SavesTypeOK
<1>5. RequestsSound'
  BY <1>1, <1>2 DEF SaveInv, S!SavesTypeOK, RequestsSound, SoundRequest
<1>6. AnswersAreOwn'
  BY <1>2 DEF AnswersAreOwn, S!AnswersAreOwn
<1>. QED
  BY <1>4, <1>5, <1>6 DEF SaveInv

\* A create, until it answers.
LEMMA CreateSound ==
    ASSUME SaveInv, NEW r \in Requests, S!CreateSave(r)
    PROVE  SaveInv' /\ AnswersAreOwn'
<1>a. /\ req \in [Requests -> S!Request] /\ saves \in [SaveIds -> Players \cup {NoPlayer, Removed}]
      /\ req[r] \in S!Request /\ SoundRequest(r)
  BY DEF SaveInv, S!SavesTypeOK, RequestsSound
<1>1. ASSUME NEW s \in SaveIds, S!InsertSave(r, s)
      PROVE  SaveInv' /\ AnswersAreOwn'
  <2>. DEFINE h == [req[r] EXCEPT !.at = "readBack", !.save = s]
  <2>1. /\ saves' = [saves EXCEPT ![s] = req[r].owner] /\ saves[s] = NoPlayer
        /\ req' = [req EXCEPT ![r] = h] /\ answer' = {} /\ req[r].op = "create"
    BY <1>1, <1>a DEF S!InsertSave
  <2>2. req[r].owner \in Players /\ req[r].owner = req[r].caller
    BY <1>a, <2>1 DEF SoundRequest
  <2>3. h \in S!Request /\ h.save = s /\ h.owner = req[r].owner /\ h.caller = req[r].caller
    BY <1>a DEF S!Request, S!Steps
  <2>4. S!SavesTypeOK'
    BY <1>a, <2>1, <2>2, <2>3 DEF S!SavesTypeOK
  <2>5. SoundRequest(r)'
    BY <1>a, <2>1, <2>2, <2>3 DEF SoundRequest
  <2>6. ASSUME NEW q \in Requests \ {r} PROVE SoundRequest(q)'
    <3>1. req'[q] = req[q] /\ SoundRequest(q) /\ req[q] \in S!Request
      BY <1>a, <2>1 DEF SaveInv, RequestsSound
    <3>2. CASE req[q].at = "readBack"
      \* A stored or removed id is not handed out again.
      <4>1. req[q].save # s
        BY <2>1, <3>1, <3>2, BackendAssumption DEF SoundRequest
      <4>. QED
        BY <1>a, <2>1, <3>1, <4>1 DEF SoundRequest
    <3>. QED
      BY <3>1, <3>2 DEF SoundRequest
  <2>7. AnswersAreOwn'
    BY <2>1 DEF AnswersAreOwn, S!AnswersAreOwn
  <2>. QED
    BY <2>4, <2>5, <2>6, <2>7 DEF SaveInv, RequestsSound
<1>2. ASSUME S!GoesTo(r, "retry"), UNCHANGED saves
      PROVE  SaveInv' /\ AnswersAreOwn'
  <2>1. /\ req' = [req EXCEPT ![r] = [req[r] EXCEPT !.at = "retry"]] /\ answer' = {}
        /\ [req[r] EXCEPT !.at = "retry"] \in S!Request
    BY <1>a, <1>2 DEF S!GoesTo, S!Request, S!Steps
  <2>2. S!SavesTypeOK'
    BY <1>a, <1>2, <2>1 DEF S!SavesTypeOK
  <2>3. RequestsSound'
    BY <1>a, <1>2, <2>1 DEF SaveInv, RequestsSound, SoundRequest
  <2>4. AnswersAreOwn'
    BY <2>1 DEF AnswersAreOwn, S!AnswersAreOwn
  <2>. QED
    BY <2>2, <2>3, <2>4 DEF SaveInv
<1>3. CASE S!Collide(r)
  BY <1>2, <1>3, AnswersSound DEF S!Collide
<1>4. CASE S!ReadBackSave(r)
  <2>. DEFINE views == IF S!Stored(req[r].save) THEN {S!ViewOf(req[r].save, req[r].owner)} ELSE {}
  <2>1. /\ req[r].owner \in Players /\ req[r].owner = req[r].caller
        /\ req[r].save \in SaveIds /\ saves[req[r].save] \in {req[r].owner, Removed}
    BY <1>a, <1>4 DEF S!ReadBackSave, S!At, SoundRequest
  <2>2. S!Stored(req[r].save) => saves[req[r].save] = req[r].owner
    BY <2>1, BackendAssumption DEF S!Stored
  <2>3. \A v \in views : /\ v \in S!View /\ v.playerId = req[r].caller
                         /\ saves[v.id] = req[r].caller /\ req[r].caller \in Players
    BY <2>1, <2>2 DEF S!ViewOf, S!View
  <2>. QED
    BY <1>4, <2>3, AnswersSound DEF S!ReadBackSave
<1>. QED
  BY <1>1, <1>3, <1>4 DEF S!CreateSave

\* list_saves and get_save select by the owner.
LEMMA ReadsSound ==
    ASSUME SaveInv, NEW r \in Requests, S!ListSaves(r) \/ S!FindSave(r)
    PROVE  SaveInv' /\ AnswersAreOwn'
<1>1. req[r].owner \in Players /\ req[r].owner = req[r].caller
  BY DEF S!ListSaves, S!FindSave, S!At, SaveInv, RequestsSound, SoundRequest
<1>2. PICK found \in SUBSET S!SavesOf(req[r].owner) :
         S!Answers(r, {S!ViewOf(s, req[r].owner) : s \in found}) /\ UNCHANGED saves
  BY DEF S!ListSaves, S!FindSave
<1>3. \A v \in {S!ViewOf(s, req[r].owner) : s \in found} :
         /\ v \in S!View /\ v.playerId = req[r].caller
         /\ saves[v.id] = req[r].caller /\ req[r].caller \in Players
  BY <1>1 DEF S!SavesOf, S!ViewOf, S!View
<1>. QED
  BY <1>2, <1>3, AnswersSound

\* delete_save: what it removes, it removes for good.
LEMMA RemoveSound ==
    ASSUME SaveInv, NEW r \in Requests, S!RemoveSave(r)
    PROVE  SaveInv' /\ AnswersAreOwn'
<1>a. /\ req \in [Requests -> S!Request] /\ saves \in [SaveIds -> Players \cup {NoPlayer, Removed}]
      /\ \A q \in Requests : req[q] \in S!Request /\ SoundRequest(q)
  BY DEF SaveInv, S!SavesTypeOK, RequestsSound
<1>1. /\ req' = [req EXCEPT ![r] = S!Idle] /\ answer' = {}
      /\ \A s \in SaveIds : saves'[s] \in {saves[s], Removed}
      /\ saves' \in [SaveIds -> Players \cup {NoPlayer, Removed}]
  BY <1>a DEF S!RemoveSave, S!Answers
<1>2. S!Idle \in S!Request /\ S!Idle.op = "none" /\ S!Idle.at = "idle"
  BY DEF S!Idle, S!Request, S!Steps, S!Ops
<1>3. S!SavesTypeOK'
  BY <1>a, <1>1, <1>2 DEF S!SavesTypeOK
<1>4. ASSUME NEW q \in Requests PROVE SoundRequest(q)'
  BY <1>a, <1>1, <1>2 DEF SoundRequest
<1>5. AnswersAreOwn'
  BY <1>1 DEF AnswersAreOwn, S!AnswersAreOwn
<1>. QED
  BY <1>3, <1>4, <1>5 DEF SaveInv, RequestsSound

LEMMA SaveContinuesSound ==
    ASSUME SaveInv, NEW r \in Requests, S!SaveContinues(r)
    PROVE  SaveInv' /\ AnswersAreOwn'
<1>1. CASE S!FailSave(r)
  BY <1>1, AnswersSound DEF S!FailSave
<1>. QED
  BY <1>1, CreateSound, ReadsSound, RemoveSound DEF S!SaveContinues

-----------------------------------------------------------------------------
(***************************************************************************)
(* Both together.                                                          *)
(***************************************************************************)
Inv == SessionInv /\ SaveInv /\ AnswersAreOwn

LEMMA InvInit == Init => Inv
  BY SessionsInit, SavesInit DEF Init, Inv

LEMMA InvStep == Inv /\ [Next]_vars => Inv'
<1>. SUFFICES ASSUME Inv, [Next]_vars PROVE Inv'
  OBVIOUS
<1>. USE DEF Inv
<1>1. CASE StartUp
  BY <1>1, StartsTyped, SavesIdleSound DEF StartUp
<1>2. CASE Crash
  BY <1>2, StartsTyped, DropSound DEF Crash
<1>3. CASE Accounts
  BY <1>3, AccountsTyped, SavesIdleSound DEF Accounts
<1>4. ASSUME NEW h \in Logins, BeginLogin(h) \/ LoginContinues(h) PROVE Inv'
  BY <1>4, BeginLoginTyped, LoginContinuesTyped, SavesIdleSound DEF BeginLogin, LoginContinues
<1>5. ASSUME NEW token \in A!Token, ExpireToken(token) PROVE Inv'
  BY <1>5, SavesIdleSound DEF ExpireToken, A!ExpireToken, SessionInv, LoginsSound,
     A!SessionsTypeOK
<1>6. ASSUME UNCHANGED sessionVars PROVE SessionInv'
  BY <1>6 DEF sessionVars, SessionInv, LoginsSound, A!SessionsTypeOK
<1>7. ASSUME NEW r \in Requests, BeginSave(r) \/ SaveContinues(r) PROVE Inv'
  BY <1>6, <1>7, BeginSaveSound, SaveContinuesSound DEF BeginSave, SaveContinues
<1>8. CASE UNCHANGED vars
  BY <1>6, <1>8 DEF vars, saveVars, SaveInv, RequestsSound, SoundRequest, S!SavesTypeOK,
     AnswersAreOwn, S!AnswersAreOwn
<1>. QED
  BY <1>1, <1>2, <1>3, <1>4, <1>5, <1>7, <1>8 DEF Next

(***************************************************************************)
(* Types, for any mix of start-ups, crashes, logins and requests.          *)
(***************************************************************************)
THEOREM TypeInvariance == Spec => []TypeOK
<1>1. Inv => TypeOK
  BY DEF Inv, SessionInv, SaveInv, TypeOK
<1>. QED
  BY <1>1, InvInit, InvStep, PTL DEF Spec

(***************************************************************************)
(* Saves are private: no handler of get, list or create answers a caller   *)
(* with a save that is not the caller's, or under another player's name.   *)
(***************************************************************************)
THEOREM Privacy == Spec => []AnswersAreOwn
<1>1. Inv => AnswersAreOwn
  BY DEF Inv
<1>. QED
  BY <1>1, InvInit, InvStep, PTL DEF Spec

-----------------------------------------------------------------------------
\* Only a delete of the owner's takes a stored save out.
LEMMA KeptStep ==
    ASSUME Inv, [Next]_vars, NEW s \in SaveIds, S!Stored(s), saves'[s] # saves[s]
    PROVE  \E r \in Requests : /\ S!At(r, "delete", "query")
                               /\ req[r].caller = saves[s] /\ req[r].save = s
<1>a. saves \in [SaveIds -> Players \cup {NoPlayer, Removed}]
  BY DEF Inv, SaveInv, S!SavesTypeOK
<1>1. PICK r \in Requests : S!SaveContinues(r)
  BY DEF Next, vars, saveVars, StartUp, Crash, Accounts, BeginLogin, LoginContinues,
     ExpireToken, BeginSave, SaveContinues, S!SavesIdle, S!DropSaveHandlers, S!PostSave,
     S!GetSaves, S!GetSave, S!DeleteSave, S!Begins
<1>2. ~S!CreateSave(r)
  <2>1. ASSUME NEW t \in SaveIds, S!InsertSave(r, t) PROVE FALSE
    <3>1. saves[t] = NoPlayer /\ saves' = [saves EXCEPT ![t] = req[r].owner]
      BY <2>1 DEF S!InsertSave
    <3>. QED
      BY <1>a, <3>1, BackendAssumption DEF S!Stored
  <2>. QED
    BY <2>1 DEF S!CreateSave, S!Collide, S!ReadBackSave
<1>3. S!RemoveSave(r)
  BY <1>1, <1>2 DEF S!SaveContinues, S!ListSaves, S!FindSave, S!FailSave
<1>4. s \in S!SavesOf(req[r].owner) \cap {req[r].save} /\ S!At(r, "delete", "query")
  BY <1>a, <1>3 DEF S!RemoveSave
<1>5. req[r].owner = req[r].caller
  BY <1>4 DEF S!At, Inv, SaveInv, RequestsSound, SoundRequest
<1>. QED
  BY <1>4, <1>5 DEF S!SavesOf

(***************************************************************************)
(* A stored save outlives failures, crashes, restarts and its account: it  *)
(* goes by a DELETE its owner sent, and by nothing else.                   *)
(***************************************************************************)
THEOREM SavesStay == Spec => SavesKept
<1>1. Inv /\ [Next]_vars =>
         [\A s \in SaveIds : S!Stored(s) /\ saves'[s] # saves[s] =>
             \E r \in Requests : /\ S!At(r, "delete", "query")
                                 /\ req[r].caller = saves[s] /\ req[r].save = s]_S!saveVars
  BY KeptStep
<1>. QED
  BY <1>1, InvInit, InvStep, PTL DEF Spec, SavesKept, S!SavesKept

=============================================================================
