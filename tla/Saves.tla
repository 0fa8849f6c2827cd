------------------------------- MODULE Saves -------------------------------
(***************************************************************************)
(* Game saves: the game_saves table and the handlers of /saves             *)
(* (src/api/saves.rs, src/services/saves.rs, src/entities/save.rs).        *)
(*                                                                         *)
(* Every handler first compares the player the request names with the one  *)
(* the token speaks for, then resolves that player to a row that is not    *)
(* deleted, and only then touches the saves.  A handler begins with its    *)
(* first query, and each query is a step; there is no transaction, so the  *)
(* owner can be deleted, and a save removed, in between.  A refused        *)
(* request changes nothing and has no action.                              *)
(*                                                                         *)
(* A save is its public_id and its owner.  Name, blob, metadata and times  *)
(* are left out, and with them the order of a list.  The statuses of the   *)
(* accounts and the identity of a caller come from elsewhere: see Backend. *)
(***************************************************************************)

CONSTANTS
    Players,    \* public_id values of accounts
    SaveIds,    \* public_id values of saves (UUID v4)
    Requests,   \* save handlers that may be in flight together
    NoPlayer,   \* no owner, or a body without playerId
    NoSave,     \* no save in hand
    Removed     \* the owner of a row that was deleted

VARIABLES
    account,    \* status of each player's row
    saves,      \* game_saves: the owner of each id, NoPlayer while unused
    req,        \* what each handler will do next, and what it has in hand
    answer      \* history: the views just answered, and to whom

saveVars == <<saves, req, answer>>

\* CreateSaveRequest: the playerId, which may be left out.
CreateSaveRequest == Players \cup {NoPlayer}

Ops == {"none", "create", "list", "get", "delete"}

(***************************************************************************)
(* Where a handler waits: before its query on the saves, before the second *)
(* INSERT of a create, before the read-back of a create.                   *)
(***************************************************************************)
Steps == {"idle", "query", "retry", "readBack"}

Request ==
    [at : Steps, op : Ops, caller : Players \cup {NoPlayer},
     owner : Players \cup {NoPlayer}, save : SaveIds \cup {NoSave}]

\* SaveView: playerId is the player the request named, not a column.
View == [id : SaveIds, playerId : Players]

SavesTypeOK ==
    /\ saves \in [SaveIds -> Players \cup {NoPlayer, Removed}]
    /\ req \in [Requests -> Request]
    /\ answer \subseteq [to : Players, view : View]

Idle == [at |-> "idle", op |-> "none", caller |-> NoPlayer, owner |-> NoPlayer,
         save |-> NoSave]

SavesInit ==
    /\ saves = [s \in SaveIds |-> NoPlayer]
    /\ req = [r \in Requests |-> Idle]
    /\ answer = {}

-----------------------------------------------------------------------------
\* A row of game_saves exists under this id.
Stored(s) == saves[s] \in Players

\* SaveView::from: the row, with the player of the request put in.
ViewOf(s, p) == [id |-> s, playerId |-> p]

At(r, op, step) == req[r].op = op /\ req[r].at = step

GoesTo(r, step) ==
    /\ req' = [req EXCEPT ![r].at = step]
    /\ answer' = {}

\* The handler has answered with these views, or with none.
Answers(r, views) ==
    /\ req' = [req EXCEPT ![r] = Idle]
    /\ answer' = {[to |-> req[r].caller, view |-> v] : v \in views}

\* SELECT id ... WHERE public_id = ? AND status <> 'deleted'; no row is a 404.
ResolveOwner(owner) == account[owner] = "active"

Begins(r, op, caller, owner, s) ==
    /\ req[r] = Idle
    /\ ResolveOwner(owner)
    /\ req' = [req EXCEPT ![r] = [at |-> "query", op |-> op, caller |-> caller,
                                  owner |-> owner, save |-> s]]
    /\ answer' = {}
    /\ UNCHANGED saves

-----------------------------------------------------------------------------
(***************************************************************************)
(* The routes, up to the answer of their first query, the owner's row: the *)
(* caller is the player of the token.                                      *)
(***************************************************************************)

\* POST /saves: playerId may be left out.
PostSave(r, caller, named) ==
    /\ named \in {NoPlayer, caller}
    /\ Begins(r, "create", caller, caller, NoSave)

\* GET /saves/{player_id}
GetSaves(r, caller, named) ==
    /\ named = caller
    /\ Begins(r, "list", caller, named, NoSave)

\* Mutation of GetSave: the path is not compared with the token.
GetSaveOfAny(r, caller, named, s) ==
    /\ Begins(r, "get", caller, named, s)

\* GET /saves/{player_id}/{save_id}
GetSave(r, caller, named, s) ==
    /\ named = caller
    /\ Begins(r, "get", caller, named, s)

\* DELETE /saves/{player_id}/{save_id}
DeleteSave(r, caller, named, s) ==
    /\ named = caller
    /\ Begins(r, "delete", caller, named, s)

-----------------------------------------------------------------------------
(***************************************************************************)
(* The services.                                                           *)
(***************************************************************************)

SavesOf(p) == {s \in SaveIds : saves[s] = p}

\* list_saves
ListSaves(r) ==
    /\ At(r, "list", "query")
    /\ Answers(r, {ViewOf(s, req[r].owner) : s \in SavesOf(req[r].owner)})
    /\ UNCHANGED saves

\* get_save: scoped by the owner, 404 otherwise.
FindSave(r) ==
    /\ At(r, "get", "query")
    /\ Answers(r, {ViewOf(s, req[r].owner) : s \in SavesOf(req[r].owner) \cap {req[r].save}})
    /\ UNCHANGED saves

\* Mutation of RemoveSave: DELETE ... WHERE public_id = ?, without the owner.
RemoveAnySave(r) ==
    /\ At(r, "delete", "query")
    /\ saves' = IF Stored(req[r].save)
                THEN [saves EXCEPT ![req[r].save] = Removed] ELSE saves
    /\ Answers(r, {})

\* delete_save: scoped by the owner; no affected row is answered 404.
RemoveSave(r) ==
    /\ At(r, "delete", "query")
    /\ saves' = [s \in SaveIds |->
                        IF s \in SavesOf(req[r].owner) \cap {req[r].save}
                        THEN Removed ELSE saves[s]]
    /\ Answers(r, {})

\* The INSERT, with a fresh UUID that no row has had.
InsertSave(r, s) ==
    /\ req[r].op = "create" /\ req[r].at \in {"query", "retry"}
    /\ saves[s] = NoPlayer
    /\ saves' = [saves EXCEPT ![s] = req[r].owner]
    /\ req' = [req EXCEPT ![r].at = "readBack", ![r].save = s]
    /\ answer' = {}

\* The UUID is a stored one: tried once more, then answered 500.
Collide(r) ==
    /\ \E s \in SaveIds : Stored(s)
    /\ \/ At(r, "create", "query") /\ GoesTo(r, "retry")
       \/ At(r, "create", "retry") /\ Answers(r, {})
    /\ UNCHANGED saves

\* read_back_save: by public_id alone; a save gone meanwhile is answered 404.
ReadBackSave(r) ==
    /\ At(r, "create", "readBack")
    /\ Answers(r, IF Stored(req[r].save) THEN {ViewOf(req[r].save, req[r].owner)} ELSE {})
    /\ UNCHANGED saves

\* create_save
CreateSave(r) ==
    \/ \E s \in SaveIds : InsertSave(r, s)
    \/ Collide(r)
    \/ ReadBackSave(r)

(***************************************************************************)
(* A query fails, its answer is lost, or the client goes away and the      *)
(* handler is dropped.  What the handler has stored stays.                 *)
(***************************************************************************)
FailSave(r) ==
    /\ req[r] # Idle
    /\ Answers(r, {})
    /\ UNCHANGED saves

SaveContinues(r) ==
    \/ ListSaves(r)
    \/ FindSave(r)
    \/ RemoveSave(r)
    \/ CreateSave(r)
    \/ FailSave(r)

\* The process dies: its handlers are gone, the table is not.
DropSaveHandlers ==
    /\ req' = [r \in Requests |-> Idle]
    /\ answer' = {}
    /\ UNCHANGED saves

\* Nothing happens to the saves, nor to their handlers.
SavesIdle ==
    /\ answer' = {}
    /\ UNCHANGED <<saves, req>>

-----------------------------------------------------------------------------
(***************************************************************************)
(* Properties.                                                             *)
(***************************************************************************)

(***************************************************************************)
(* Saves are private: whatever was deleted, inserted or answered between   *)
(* the owner check and the read, each view a caller is answered is of a    *)
(* save of that caller, under the caller's id.  ReadBackSave looks the     *)
(* save up by its id alone and labels it with the request's player.        *)
(***************************************************************************)
AnswersAreOwn ==
    \A a \in answer : a.view.playerId = a.to /\ saves[a.view.id] = a.to

(***************************************************************************)
(* A stored save stays with its owner, through failures, restarts and the  *)
(* deletion of the account, until a DELETE its owner sent removes it.      *)
(***************************************************************************)
SavesKept ==
    [][\A s \in SaveIds : Stored(s) /\ saves'[s] # saves[s] =>
          \E r \in Requests : /\ At(r, "delete", "query")
                              /\ req[r].caller = saves[s] /\ req[r].save = s]_saveVars

=============================================================================
