---------------------------- MODULE PlayerProfiles ----------------------------
(***************************************************************************)
(* The players table and the Redis profile cache in front of it            *)
(* (src/api/players.rs, src/api/auth.rs, src/services/players.rs,          *)
(* src/services/cache.rs).                                                 *)
(*                                                                         *)
(* Handlers run concurrently and give way at every await: each query and   *)
(* each cache call below is one step, and whatever a handler keeps between *)
(* two of them may be out of date when it is used.  There is no            *)
(* transaction, and the cache is written after the table or after the      *)
(* read, never with it.  A query and the decision on its answer are one    *)
(* step.  The second query of find_player_view only adds the parent's      *)
(* public_id, which never changes, so both queries are one read here.      *)
(*                                                                         *)
(* The owner check of PUT, DELETE and the list of subaccounts compares the *)
(* path with the JWT before any read: a refused request has no action.  A  *)
(* JWT outlives its account, so a deleted player may still call.           *)
(***************************************************************************)

CONSTANTS
    Players,    \* public_id values; each belongs to one row for ever
    Names,      \* usernames
    Emails,     \* e-mail addresses
    NoEmail,    \* Option::None for an e-mail
    NoPlayer,   \* Option::None for a parent
    NoRow,      \* no row with this public_id
    NoView,     \* no cache entry, or nothing in hand
    Omitted,    \* a field a PUT body leaves out
    Puts,       \* the PUT bodies clients send
    Requests,   \* handlers that may be in flight together
    Faults      \* TRUE if a handler may fail or be dropped at an await

\* UpdatePlayerRequest: either field may be left out.
PutBody == [username : Names \cup {Omitted}, email : Emails \cup {Omitted}]

ASSUME ProfileAssumption ==
    /\ NoEmail \notin Emails
    /\ Omitted \notin Names \cup Emails
    /\ NoPlayer \notin Players
    /\ Puts \subseteq PutBody
    /\ Faults \in BOOLEAN

View == [username : Names, email : Emails \cup {NoEmail}, parent : Players \cup {NoPlayer}]
Row == [username : Names, email : Emails \cup {NoEmail},
        parent : Players \cup {NoPlayer}, status : {"active", "deleted"}]

ASSUME SentinelAssumption == NoRow \notin Row /\ NoView \notin View

NoPut == [username |-> Omitted, email |-> Omitted]

VARIABLES
    row,        \* the players table
    cache,      \* Redis: player:<public_id>
    req,        \* what each handler will do next, and what it has in hand
    lateFill    \* history: players whose cache entry was already out of date
                \* when it was stored

vars == <<row, cache, req, lateFill>>

(***************************************************************************)
(* Where a handler waits: before the SELECT of a GET, the cache write of a *)
(* GET or a login, the UPDATE and the read-back of a PUT, the invalidation *)
(* of a PUT or a DELETE, the INSERT of a registration, the second query of *)
(* a list of subaccounts.                                                  *)
(***************************************************************************)
Steps == {"idle", "select", "fill", "update", "readBack", "invalidate", "insert",
          "children"}

Request ==
    [at : Steps, who : Players \cup {NoPlayer}, put : Puts \cup {NoPut},
     seen : View \cup {NoView}]

TypeOK ==
    /\ row \in [Players -> Row \cup {NoRow}]
    /\ cache \in [Players -> View \cup {NoView}]
    /\ req \in [Requests -> Request]
    /\ lateFill \subseteq Players

Idle == [at |-> "idle", who |-> NoPlayer, put |-> NoPut, seen |-> NoView]

Init ==
    /\ row = [p \in Players |-> NoRow]
    /\ cache = [p \in Players |-> NoView]
    /\ req = [r \in Requests |-> Idle]
    /\ lateFill = {}

-----------------------------------------------------------------------------
Exists(p) == row[p] # NoRow

\* WHERE status <> 'deleted'
Live(p) == Exists(p) /\ row[p].status # "deleted"

\* find_player_view: the profile with its parent joined.
ViewOf(p) == [username |-> row[p].username, email |-> row[p].email,
              parent |-> row[p].parent]

\* PlayerView::from, without the join.
UnjoinedViewOf(p) == [ViewOf(p) EXCEPT !.parent = NoPlayer]

\* The unique keys of the table, which cover deleted rows too.
Taken(p, username, email) ==
    \E q \in Players \ {p} : Exists(q) /\
        (row[q].username = username \/ (email # NoEmail /\ row[q].email = email))

\* Handler r goes on to a step, or has answered.
GoesTo(r, step, p, put, seen) ==
    req' = [req EXCEPT ![r] = [at |-> step, who |-> p, put |-> put, seen |-> seen]]

Answer(r) == req' = [req EXCEPT ![r] = Idle]

At(r, step) == req[r].at = step

-----------------------------------------------------------------------------
(***************************************************************************)
(* GET /players/{id}: cache, then table, then cache.                       *)
(***************************************************************************)

\* get_player_view finds nothing; an error counts as a miss.
CacheMiss(p) == cache[p] = NoView \/ Faults

\* The cache read; a hit answers at once.
GetPlayer(r, p) ==
    /\ At(r, "idle")
    /\ CacheMiss(p)
    /\ GoesTo(r, "select", p, NoPut, NoView)
    /\ UNCHANGED <<row, cache, lateFill>>

\* Mutation of FindPlayerView: deleted rows are found too.
FindAnyPlayerView(r) ==
    /\ At(r, "select")
    /\ LET p == req[r].who
       IN  IF Exists(p) THEN GoesTo(r, "fill", p, NoPut, ViewOf(p)) ELSE Answer(r)
    /\ UNCHANGED <<row, cache, lateFill>>

FindPlayerView(r) ==
    /\ At(r, "select")
    /\ LET p == req[r].who
       IN  IF Live(p) THEN GoesTo(r, "fill", p, NoPut, ViewOf(p)) ELSE Answer(r)
    /\ UNCHANGED <<row, cache, lateFill>>

\* The view agrees with the table on what a PUT can change.
Agrees(view, p) ==
    Live(p) /\ view.username = row[p].username /\ view.email = row[p].email

\* set_player_view, with what the handler read earlier.
SetPlayerView(r) ==
    /\ At(r, "fill")
    /\ LET p == req[r].who
       IN  /\ cache' = [cache EXCEPT ![p] = req[r].seen]
           /\ lateFill' = IF Agrees(req[r].seen, p) THEN lateFill \ {p}
                                                    ELSE lateFill \cup {p}
    /\ Answer(r)
    /\ UNCHANGED row

\* Mutation of Expire: the entry is stored without an expiry.
NoExpiry(p) ==
    /\ FALSE
    /\ UNCHANGED vars

\* The entry's TTL, always positive, runs out.
Expire(p) ==
    /\ cache[p] # NoView
    /\ cache' = [cache EXCEPT ![p] = NoView]
    /\ lateFill' = lateFill \ {p}
    /\ UNCHANGED <<row, req>>

(***************************************************************************)
(* POST /auth/login: the row is looked up by username; its unjoined view   *)
(* goes to the cache.  A wrong password changes nothing.                   *)
(***************************************************************************)
Login(r, p) ==
    /\ At(r, "idle")
    /\ Live(p)
    /\ GoesTo(r, "fill", p, NoPut, UnjoinedViewOf(p))
    /\ UNCHANGED <<row, cache, lateFill>>

-----------------------------------------------------------------------------
(***************************************************************************)
(* PUT /players/{id}: read, UPDATE every field, read back, invalidate.     *)
(***************************************************************************)
UpdatePlayer(r, p, put) ==
    /\ At(r, "idle")
    /\ Live(p)
    /\ GoesTo(r, "update", p, put, ViewOf(p))
    /\ UNCHANGED <<row, cache, lateFill>>

\* The route.
PutPlayer(r, caller, p, put) == caller = p /\ UpdatePlayer(r, p, put)

\* Mutation of NewUsername: the omitted field is written as it came.
PutUsername(r) == req[r].put.username

\* Mutation of NewEmail, likewise.
PutEmail(r) == req[r].put.email

\* The values the UPDATE writes: an omitted field is the one read before.
NewUsername(r) == IF req[r].put.username = Omitted THEN req[r].seen.username
                                                   ELSE req[r].put.username
NewEmail(r) == IF req[r].put.email = Omitted THEN req[r].seen.email
                                             ELSE req[r].put.email

\* Mutation of WriteUpdate: the UPDATE does not look at the status.
WriteUpdateOfAny(r) ==
    /\ At(r, "update")
    /\ LET p == req[r].who
       IN  IF ~Taken(p, NewUsername(r), NewEmail(r))
           THEN /\ row' = [row EXCEPT ![p].username = NewUsername(r),
                                      ![p].email = NewEmail(r)]
                /\ GoesTo(r, "readBack", p, NoPut, NoView)
           ELSE Answer(r) /\ UNCHANGED row
    /\ UNCHANGED <<cache, lateFill>>

WriteUpdate(r) ==
    /\ At(r, "update")
    /\ LET p == req[r].who
       IN  IF Live(p) /\ ~Taken(p, NewUsername(r), NewEmail(r))
           THEN /\ row' = [row EXCEPT ![p].username = NewUsername(r),
                                      ![p].email = NewEmail(r)]
                /\ GoesTo(r, "readBack", p, NoPut, NoView)
           ELSE Answer(r) /\ UNCHANGED row
    /\ UNCHANGED <<cache, lateFill>>

\* Mutation of ReadBack: the PUT is answered and nothing is invalidated.
ReadBackIsLast(r) ==
    /\ At(r, "readBack")
    /\ Answer(r)
    /\ UNCHANGED <<row, cache, lateFill>>

\* A row deleted in between is answered 404, without an invalidation.
ReadBack(r) ==
    /\ At(r, "readBack")
    /\ LET p == req[r].who
       IN  IF Live(p) THEN GoesTo(r, "invalidate", p, NoPut, NoView) ELSE Answer(r)
    /\ UNCHANGED <<row, cache, lateFill>>

InvalidatePlayer(r) ==
    /\ At(r, "invalidate")
    /\ cache' = [cache EXCEPT ![req[r].who] = NoView]
    /\ lateFill' = lateFill \ {req[r].who}
    /\ Answer(r)
    /\ UNCHANGED row

(***************************************************************************)
(* DELETE /players/{id}: one conditional UPDATE, then the invalidation.    *)
(***************************************************************************)
SoftDelete(r, p) ==
    /\ At(r, "idle")
    /\ Live(p)
    /\ row' = [row EXCEPT ![p].status = "deleted"]
    /\ GoesTo(r, "invalidate", p, NoPut, NoView)
    /\ UNCHANGED <<cache, lateFill>>

\* The route.
DeletePlayer(r, caller, p) == caller = p /\ SoftDelete(r, p)

-----------------------------------------------------------------------------
(***************************************************************************)
(* POST /auth/register and POST /players/subaccount: look the parent up,   *)
(* if there is one, whatever its status; then INSERT under a fresh         *)
(* public_id.  The read-back changes nothing and needs no step.            *)
(***************************************************************************)
ResolveParent(r, parent) ==
    /\ At(r, "idle")
    /\ parent # NoPlayer => Exists(parent)
    /\ GoesTo(r, "insert", parent, NoPut, NoView)
    /\ UNCHANGED <<row, cache, lateFill>>

\* POST /auth/register: anyone may name any account as the parent, or none.
Register(r, parent) == ResolveParent(r, parent)

\* POST /players/subaccount: the parent is the caller.
CreateSubaccount(r, caller) == ResolveParent(r, caller)

Insert(r, p, username, email) ==
    /\ At(r, "insert")
    /\ ~Exists(p) /\ ~Taken(p, username, email)
    /\ row' = [row EXCEPT ![p] = [username |-> username, email |-> email,
                                  parent |-> req[r].who, status |-> "active"]]
    /\ Answer(r)
    /\ UNCHANGED <<cache, lateFill>>

\* The INSERT meets a unique key: 409.
InsertDuplicate(r) ==
    /\ At(r, "insert")
    /\ \E username \in Names, email \in Emails \cup {NoEmail} :
         Taken(NoPlayer, username, email)
    /\ Answer(r)
    /\ UNCHANGED <<row, cache, lateFill>>

-----------------------------------------------------------------------------
(***************************************************************************)
(* GET /players/{id}/subaccounts: the account, then its live children.     *)
(* Both queries only read.                                                 *)
(***************************************************************************)
ListSubaccounts(r, caller, p) ==
    /\ caller = p
    /\ At(r, "idle")
    /\ Live(p)
    /\ GoesTo(r, "children", p, NoPut, NoView)
    /\ UNCHANGED <<row, cache, lateFill>>

FindSubaccounts(r) ==
    /\ At(r, "children")
    /\ Answer(r)
    /\ UNCHANGED <<row, cache, lateFill>>

-----------------------------------------------------------------------------
(***************************************************************************)
(* A query or a cache call fails, its answer is lost, the client goes away *)
(* and the handler is dropped, or the process dies.  Cache errors are      *)
(* logged and swallowed, which leaves the same state.                      *)
(***************************************************************************)
Fail(r) ==
    /\ Faults
    /\ ~At(r, "idle")
    /\ Answer(r)
    /\ UNCHANGED <<row, cache, lateFill>>

Begin(r) ==
    \/ \E p \in Players : GetPlayer(r, p) \/ Login(r, p)
    \/ \E caller, p \in Players :
         \/ \E put \in Puts : PutPlayer(r, caller, p, put)
         \/ DeletePlayer(r, caller, p)
         \/ ListSubaccounts(r, caller, p)
    \/ \E parent \in Players \cup {NoPlayer} : Register(r, parent)
    \/ \E caller \in Players : CreateSubaccount(r, caller)

Continue(r) ==
    \/ FindPlayerView(r)
    \/ SetPlayerView(r)
    \/ WriteUpdate(r)
    \/ ReadBack(r)
    \/ InvalidatePlayer(r)
    \/ \E p \in Players, username \in Names, email \in Emails \cup {NoEmail} :
         Insert(r, p, username, email)
    \/ InsertDuplicate(r)
    \/ FindSubaccounts(r)
    \/ Fail(r)

Next ==
    \/ \E r \in Requests : Begin(r) \/ Continue(r)
    \/ \E p \in Players : Expire(p)

Spec == Init /\ [][Next]_vars

(***************************************************************************)
(* A handler that has begun goes on: the runtime polls it, and each query  *)
(* and cache call ends in an answer or an error.  Entries expire.  Clients *)
(* owe nothing.                                                            *)
(***************************************************************************)
Fairness ==
    /\ \A r \in Requests : WF_vars(Continue(r))
    /\ \A p \in Players : WF_vars(Expire(p))

FairSpec == Spec /\ Fairness

-----------------------------------------------------------------------------
(***************************************************************************)
(* Properties.                                                             *)
(***************************************************************************)
Stale(p) == cache[p] # NoView /\ ~Agrees(cache[p], p)

(***************************************************************************)
(* A soft delete is final: no PUT that read the row before the DELETE, and *)
(* no other handler, changes or revives it afterwards.                     *)
(***************************************************************************)
DeletedIsFinal ==
    [][\A p \in Players : Exists(p) /\ ~Live(p) => row'[p] = row[p]]_vars

(***************************************************************************)
(* With no failures, the only lasting source of a stale entry is a fill    *)
(* whose read a write overtook: any other stale entry has its invalidation *)
(* on the way, also when a PUT's read-back finds the row deleted.          *)
(***************************************************************************)
StaleOnlyByLateFill ==
    \A p \in Players : Stale(p) /\ p \notin lateFill =>
        \E r \in Requests : req[r].who = p /\ req[r].at \in {"readBack", "invalidate"}

(***************************************************************************)
(* A deleted account stops being served for good, even when its DELETE     *)
(* could not invalidate and fills were under way: what they leave expires, *)
(* and no miss brings it back.                                             *)
(***************************************************************************)
DeletedIsForgotten ==
    \A p \in Players : (Exists(p) /\ ~Live(p)) ~> [](cache[p] = NoView)

(***************************************************************************)
(* Staleness is bounded by the TTL, which hits do not extend: once a       *)
(* player's row settles, the cache settles on it.                          *)
(***************************************************************************)
CacheSettles ==
    \A p \in Players : \A u \in Names, e \in Emails \cup {NoEmail} :
        <>[](Exists(p) /\ row[p].username = u /\ row[p].email = e)
            => <>[](cache[p] # NoView => cache[p].username = u /\ cache[p].email = e)

(***************************************************************************)
(* "Invalidates the Redis cache entry on success": with no failures and no *)
(* handler of the account in flight, a deleted account is not cached.  A   *)
(* GET or a login that read the row before the DELETE stores it after.     *)
(***************************************************************************)
DeletedNotCached ==
    \A p \in Players :
        (Exists(p) /\ ~Live(p) /\ \A r \in Requests : req[r].who # p) => cache[p] = NoView

(***************************************************************************)
(* "absent fields keep their current values": an UPDATE does not change a  *)
(* field its PUT left out.  Two PUTs of different fields break it.         *)
(***************************************************************************)
AbsentFieldsKept ==
    [][\A r \in Requests :
          At(r, "update") /\ req'[r].at = "readBack" =>
            LET p == req[r].who
            IN  /\ req[r].put.username = Omitted => row'[p].username = row[p].username
                /\ req[r].put.email = Omitted => row'[p].email = row[p].email]_vars

=============================================================================
