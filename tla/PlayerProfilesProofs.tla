------------------------ MODULE PlayerProfilesProofs ------------------------
(***************************************************************************)
(* Theorems about PlayerProfiles, for any sets of accounts, names, bodies  *)
(* and handlers.                                                           *)
(***************************************************************************)
EXTENDS PlayerProfiles, TLAPS

(***************************************************************************)
(* Type correctness.                                                       *)
(***************************************************************************)
LEMMA TypeInit == Init => TypeOK
  BY DEF Init, TypeOK, Idle, Request, Steps

\* A row projects to a view, joined or not.
LEMMA Viewed ==
    ASSUME TypeOK, NEW p \in Players, Exists(p)
    PROVE  ViewOf(p) \in View /\ UnjoinedViewOf(p) \in View
<1>1. row[p] \in Row
  BY DEF TypeOK, Exists
<1>. QED
  BY <1>1 DEF Row, View, ViewOf, UnjoinedViewOf

(***************************************************************************)
(* What is known of a handler in flight: it works on an account that has a *)
(* row, and holds a view where it needs one.                               *)
(***************************************************************************)
SoundHandler(h) ==
    /\ h.at \notin {"idle", "insert"} => h.who \in Players
    /\ h.at \in {"fill", "update", "readBack", "invalidate"} => Exists(h.who)
    /\ h.at \in {"fill", "update"} => h.seen \in View
    /\ h.at = "update" => h.put \in Puts

HandlersSound == \A r \in Requests : SoundHandler(req[r])

TypeInv == TypeOK /\ HandlersSound

LEMMA HandlersInit == Init => TypeInv
  BY TypeInit DEF Init, Idle, TypeInv, HandlersSound, SoundHandler

\* One handler moves on, rows stay: everything but that handler is as before.
LEMMA HandlerMoves ==
    ASSUME TypeInv, NEW r \in Requests, NEW h \in Request,
           req' = [req EXCEPT ![r] = h], SoundHandler(h)',
           \A p \in Players : Exists(p) => Exists(p)'
    PROVE  req' \in [Requests -> Request] /\ HandlersSound'
<1>1. req \in [Requests -> Request]
  BY DEF TypeInv, TypeOK
<1>2. req'[r] = h /\ \A q \in Requests \ {r} : req'[q] = req[q]
  BY <1>1
<1>3. ASSUME NEW q \in Requests \ {r} PROVE SoundHandler(req[q])'
  <2>1. SoundHandler(req[q]) /\ req'[q] = req[q]
    BY <1>2 DEF TypeInv, HandlersSound
  <2>. QED
    BY <2>1 DEF SoundHandler
<1>4. SoundHandler(req[r])'
  BY <1>2 DEF SoundHandler
<1>. QED
  BY <1>1, <1>3, <1>4 DEF HandlersSound

\* A handler that has answered is sound whatever the table holds.
LEMMA IdleSound == Idle \in Request /\ SoundHandler(Idle)'
  BY DEF Idle, Request, Steps, SoundHandler

LEMMA HandlerAnswers ==
    ASSUME TypeInv, NEW r \in Requests, Answer(r),
           \A p \in Players : Exists(p) => Exists(p)'
    PROVE  req' \in [Requests -> Request] /\ HandlersSound'
  BY HandlerMoves, IdleSound DEF Answer

LEMMA HandlerGoesTo ==
    ASSUME TypeInv, NEW r \in Requests, NEW step \in Steps,
           NEW p \in Players \cup {NoPlayer}, NEW put \in Puts \cup {NoPut},
           NEW seen \in View \cup {NoView}, GoesTo(r, step, p, put, seen),
           step \notin {"idle", "insert"} => p \in Players,
           step \in {"fill", "update", "readBack", "invalidate"} => Exists(p)',
           step \in {"fill", "update"} => seen \in View,
           step = "update" => put \in Puts,
           \A q \in Players : Exists(q) => Exists(q)'
    PROVE  req' \in [Requests -> Request] /\ HandlersSound'
<1>. DEFINE h == [at |-> step, who |-> p, put |-> put, seen |-> seen]
<1>1. h \in Request /\ req' = [req EXCEPT ![r] = h]
  BY DEF Request, GoesTo
<1>2. SoundHandler(h)'
  BY DEF SoundHandler
<1>. QED
  BY <1>1, <1>2, HandlerMoves

\* A route calls one service, with the caller's own account where it asks for one.
LEMMA Routes ==
    ASSUME NEW r \in Requests, Begin(r)
    PROVE  \/ \E p \in Players : \/ GetPlayer(r, p) \/ Login(r, p)
                                 \/ SoftDelete(r, p) \/ ListSubaccounts(r, p, p)
           \/ \E p \in Players, put \in Puts : UpdatePlayer(r, p, put)
           \/ \E parent \in Players \cup {NoPlayer} : ResolveParent(r, parent)
  BY DEF Begin, PutPlayer, DeletePlayer, Register, CreateSubaccount, ListSubaccounts

\* Each step of a handler keeps the types, and its own books in order.
LEMMA BeginTyped ==
    ASSUME TypeInv, NEW r \in Requests, Begin(r)
    PROVE  TypeInv'
<1>a. /\ TypeOK /\ row \in [Players -> Row \cup {NoRow}]
      /\ cache \in [Players -> View \cup {NoView}] /\ lateFill \subseteq Players
  BY DEF TypeInv, TypeOK
<1>1. ASSUME row' = row, cache' = cache, lateFill' = lateFill,
             req' \in [Requests -> Request] /\ HandlersSound'
      PROVE  TypeInv'
  BY <1>a, <1>1 DEF TypeInv, TypeOK
<1>2. ASSUME NEW p \in Players, GetPlayer(r, p)
      PROVE  TypeInv'
  <2>1. \A q \in Players : Exists(q) => Exists(q)'
    BY <1>2 DEF GetPlayer, Exists
  <2>. QED
    BY <1>1, <1>2, <2>1, HandlerGoesTo DEF GetPlayer, Steps
<1>3. ASSUME NEW p \in Players, Login(r, p)
      PROVE  TypeInv'
  <2>1. Exists(p) /\ \A q \in Players : Exists(q) => Exists(q)'
    BY <1>3 DEF Login, Live, Exists
  <2>2. UnjoinedViewOf(p) \in View
    BY <1>a, <2>1, Viewed
  <2>. QED
    BY <1>1, <1>3, <2>1, <2>2, HandlerGoesTo DEF Login, Steps
<1>4. ASSUME NEW p \in Players, NEW put \in Puts, UpdatePlayer(r, p, put)
      PROVE  TypeInv'
  <2>1. Exists(p) /\ \A q \in Players : Exists(q) => Exists(q)'
    BY <1>4 DEF UpdatePlayer, Live, Exists
  <2>2. ViewOf(p) \in View
    BY <1>a, <2>1, Viewed
  <2>. QED
    BY <1>1, <1>4, <2>1, <2>2, HandlerGoesTo DEF UpdatePlayer, Steps
<1>5. ASSUME NEW p \in Players, SoftDelete(r, p)
      PROVE  TypeInv'
  <2>1. /\ Exists(p) /\ row[p] \in Row /\ cache' = cache /\ lateFill' = lateFill
        /\ row' = [row EXCEPT ![p].status = "deleted"]
    BY <1>a, <1>5 DEF SoftDelete, Live, Exists
  <2>2. [row[p] EXCEPT !.status = "deleted"] \in Row
    BY <2>1 DEF Row
  <2>3. row' \in [Players -> Row \cup {NoRow}] /\ row'[p] \in Row
        /\ \A q \in Players \ {p} : row'[q] = row[q]
    BY <1>a, <2>1, <2>2
  <2>4. \A q \in Players : Exists(q) => Exists(q)'
    BY <2>1, <2>3, SentinelAssumption DEF Exists
  <2>5. req' \in [Requests -> Request] /\ HandlersSound'
    BY <1>5, <2>1, <2>4, HandlerGoesTo DEF SoftDelete, Steps
  <2>. QED
    BY <1>a, <2>1, <2>3, <2>5 DEF TypeInv, TypeOK
<1>6. ASSUME NEW parent \in Players \cup {NoPlayer}, ResolveParent(r, parent)
      PROVE  TypeInv'
  <2>1. \A q \in Players : Exists(q) => Exists(q)'
    BY <1>6 DEF ResolveParent, Exists
  <2>. QED
    BY <1>1, <1>6, <2>1, HandlerGoesTo DEF ResolveParent, Steps
<1>7. ASSUME NEW p \in Players, ListSubaccounts(r, p, p)
      PROVE  TypeInv'
  <2>1. \A q \in Players : Exists(q) => Exists(q)'
    BY <1>7 DEF ListSubaccounts, Exists
  <2>. QED
    BY <1>1, <1>7, <2>1, HandlerGoesTo DEF ListSubaccounts, Steps
<1>. QED
  BY <1>2, <1>3, <1>4, <1>5, <1>6, <1>7, Routes

\* What the UPDATE writes is well typed.
LEMMA NewValuesTyped ==
    ASSUME TypeInv, NEW r \in Requests, At(r, "update")
    PROVE  /\ NewUsername(r) \in Names
           /\ NewEmail(r) \in Emails \cup {NoEmail}
           /\ req[r].who \in Players /\ Exists(req[r].who)
<1>1. req[r].put \in Puts /\ req[r].seen \in View
      /\ req[r].who \in Players /\ Exists(req[r].who)
  BY DEF TypeInv, HandlersSound, SoundHandler, At
<1>2. req[r].put \in [username : Names \cup {Omitted}, email : Emails \cup {Omitted}]
  BY <1>1, ProfileAssumption DEF PutBody
<1>. QED
  BY <1>1, <1>2 DEF NewUsername, NewEmail, View

LEMMA ContinueTyped ==
    ASSUME TypeInv, NEW r \in Requests, Continue(r)
    PROVE  TypeInv'
<1>. SUFFICES ASSUME NEW p, p = req[r].who
              PROVE  TypeInv'
  OBVIOUS
<1>a. /\ TypeOK /\ row \in [Players -> Row \cup {NoRow}]
      /\ cache \in [Players -> View \cup {NoView}] /\ lateFill \subseteq Players
  BY DEF TypeInv, TypeOK
<1>b. SoundHandler(req[r])
  BY DEF TypeInv, HandlersSound
<1>1. ASSUME row' = row, cache' = cache, lateFill' = lateFill,
             req' \in [Requests -> Request] /\ HandlersSound'
      PROVE  TypeInv'
  BY <1>a, <1>1 DEF TypeInv, TypeOK
<1>2. ASSUME row' = row, cache' = cache, lateFill' = lateFill, Answer(r)
      PROVE  TypeInv'
  <2>1. \A q \in Players : Exists(q) => Exists(q)'
    BY <1>2 DEF Exists
  <2>. QED
    BY <1>1, <1>2, <2>1, HandlerAnswers
<1>3. CASE FindPlayerView(r)
  <2>1. p \in Players /\ row' = row /\ cache' = cache /\ lateFill' = lateFill
    BY <1>3, <1>b DEF FindPlayerView, At, SoundHandler
  <2>2. CASE Live(p)
    <3>1. Exists(p)' /\ \A q \in Players : Exists(q) => Exists(q)'
      BY <2>1, <2>2 DEF Live, Exists
    <3>2. ViewOf(p) \in View
      BY <1>a, <2>1, <2>2, Viewed DEF Live
    <3>. QED
      BY <1>1, <1>3, <2>1, <2>2, <3>1, <3>2, HandlerGoesTo DEF FindPlayerView, Steps
  <2>. QED
    BY <1>2, <1>3, <2>1, <2>2 DEF FindPlayerView
<1>4. CASE SetPlayerView(r)
  <2>1. p \in Players /\ req[r].seen \in View
    BY <1>4, <1>b DEF SetPlayerView, At, SoundHandler
  <2>2. row' = row /\ cache' \in [Players -> View \cup {NoView}] /\ lateFill' \subseteq Players
    BY <1>a, <1>4, <2>1 DEF SetPlayerView
  <2>3. \A q \in Players : Exists(q) => Exists(q)'
    BY <2>2 DEF Exists
  <2>. QED
    BY <1>a, <1>4, <2>2, <2>3, HandlerAnswers DEF SetPlayerView, TypeInv, TypeOK
<1>5. CASE WriteUpdate(r)
  <2>1. cache' = cache /\ lateFill' = lateFill /\ At(r, "update")
    BY <1>5 DEF WriteUpdate
  <2>2. /\ p \in Players /\ row[p] \in Row
        /\ NewUsername(r) \in Names /\ NewEmail(r) \in Emails \cup {NoEmail}
    BY <1>a, <2>1, NewValuesTyped DEF Exists
  <2>3. CASE Live(p) /\ ~Taken(p, NewUsername(r), NewEmail(r))
    <3>. DEFINE new == [row[p] EXCEPT !.username = NewUsername(r), !.email = NewEmail(r)]
    <3>1. new \in Row
      BY <2>2 DEF Row
    <3>2. row' = [row EXCEPT ![p] = new]
      BY <1>a, <1>5, <2>2, <2>3 DEF WriteUpdate
    <3>3. /\ row' \in [Players -> Row \cup {NoRow}] /\ row'[p] \in Row
          /\ \A q \in Players \ {p} : row'[q] = row[q]
      BY <1>a, <2>2, <3>1, <3>2
    <3>4. Exists(p)' /\ \A q \in Players : Exists(q) => Exists(q)'
      BY <2>2, <3>3, SentinelAssumption DEF Exists
    <3>5. req' \in [Requests -> Request] /\ HandlersSound'
      BY <1>5, <2>2, <2>3, <3>4, HandlerGoesTo DEF WriteUpdate, Steps
    <3>. QED
      BY <1>a, <2>1, <3>3, <3>5 DEF TypeInv, TypeOK
  <2>4. CASE ~(Live(p) /\ ~Taken(p, NewUsername(r), NewEmail(r)))
    BY <1>2, <1>5, <2>1, <2>4 DEF WriteUpdate
  <2>. QED
    BY <2>3, <2>4
<1>6. CASE ReadBack(r)
  <2>1. p \in Players /\ row' = row /\ cache' = cache /\ lateFill' = lateFill
    BY <1>6, <1>b DEF ReadBack, At, SoundHandler
  <2>2. CASE Live(p)
    <3>1. Exists(p)' /\ \A q \in Players : Exists(q) => Exists(q)'
      BY <2>1, <2>2 DEF Live, Exists
    <3>. QED
      BY <1>1, <1>6, <2>1, <2>2, <3>1, HandlerGoesTo DEF ReadBack, Steps
  <2>. QED
    BY <1>2, <1>6, <2>1, <2>2 DEF ReadBack
<1>7. CASE InvalidatePlayer(r)
  <2>1. row' = row /\ cache' \in [Players -> View \cup {NoView}] /\ lateFill' \subseteq Players
    BY <1>a, <1>7 DEF InvalidatePlayer
  <2>2. \A q \in Players : Exists(q) => Exists(q)'
    BY <2>1 DEF Exists
  <2>. QED
    BY <1>a, <1>7, <2>1, <2>2, HandlerAnswers DEF InvalidatePlayer, TypeInv, TypeOK
<1>8. ASSUME NEW q \in Players, NEW username \in Names, NEW email \in Emails \cup {NoEmail},
             Insert(r, q, username, email)
      PROVE  TypeInv'
  <2>. DEFINE new == [username |-> username, email |-> email, parent |-> p, status |-> "active"]
  <2>1. p \in Players \cup {NoPlayer}
    BY <1>a DEF TypeOK, Request
  <2>2. new \in Row
    BY <2>1 DEF Row
  <2>3. row' = [row EXCEPT ![q] = new] /\ cache' = cache /\ lateFill' = lateFill
    BY <1>8 DEF Insert
  <2>4. row' \in [Players -> Row \cup {NoRow}]
    BY <1>a, <2>2, <2>3
  <2>5. \A s \in Players : Exists(s) => Exists(s)'
    BY <1>a, <2>2, <2>3, SentinelAssumption DEF Exists
  <2>. QED
    BY <1>a, <1>8, <2>3, <2>4, <2>5, HandlerAnswers DEF Insert, TypeInv, TypeOK
<1>9. CASE InsertDuplicate(r) \/ FindSubaccounts(r) \/ Fail(r)
  BY <1>2, <1>9 DEF InsertDuplicate, FindSubaccounts, Fail
<1>. QED
  BY <1>3, <1>4, <1>5, <1>6, <1>7, <1>8, <1>9 DEF Continue

LEMMA ExpireTyped ==
    ASSUME TypeInv, NEW p \in Players, Expire(p)
    PROVE  TypeInv'
<1>1. \A h : SoundHandler(h) => SoundHandler(h)'
  BY DEF Expire, SoundHandler, Exists
<1>. QED
  BY <1>1 DEF Expire, TypeInv, TypeOK, HandlersSound, SoundHandler, Exists

LEMMA TypeStep == TypeInv /\ [Next]_vars => TypeInv'
<1>. SUFFICES ASSUME TypeInv, [Next]_vars PROVE TypeInv'
  OBVIOUS
<1>1. CASE UNCHANGED vars
  BY <1>1 DEF vars, TypeInv, TypeOK, HandlersSound, SoundHandler, Exists
<1>. QED
  BY <1>1, BeginTyped, ContinueTyped, ExpireTyped DEF Next

(***************************************************************************)
(* Types, and the books of every handler, for any mix of requests and      *)
(* failures: an UPDATE never writes the absence of a field, and no handler *)
(* works on an account that has no row.                                    *)
(***************************************************************************)
THEOREM TypeInvariance == Spec => []TypeOK
<1>1. TypeInv => TypeOK
  BY DEF TypeInv
<1>. QED
  BY <1>1, HandlersInit, TypeStep, PTL DEF Spec

-----------------------------------------------------------------------------
(***************************************************************************)
(* Deletion.                                                               *)
(***************************************************************************)
LEMMA FinalStep ==
    ASSUME TypeInv, [Next]_vars, NEW p \in Players, Exists(p), ~Live(p)
    PROVE  row'[p] = row[p]
<1>. USE DEF TypeInv, TypeOK
<1>1. ASSUME NEW r \in Requests, Begin(r)
      PROVE  row'[p] = row[p]
  BY <1>1, Routes DEF GetPlayer, Login, SoftDelete, ListSubaccounts, UpdatePlayer, ResolveParent
<1>2. ASSUME NEW r \in Requests, WriteUpdate(r)
      PROVE  row'[p] = row[p]
  <2>1. CASE Live(req[r].who)
    <3>1. req[r].who # p
      BY <2>1
    <3>. QED
      BY <1>2, <3>1 DEF WriteUpdate
  <2>. QED
    BY <1>2, <2>1 DEF WriteUpdate
<1>3. ASSUME NEW r \in Requests, Continue(r)
      PROVE  row'[p] = row[p]
  BY <1>2, <1>3 DEF Continue, FindPlayerView, SetPlayerView, ReadBack, InvalidatePlayer,
     Insert, InsertDuplicate, FindSubaccounts, Fail
<1>. QED
  BY <1>1, <1>3 DEF Next, Expire, vars

(***************************************************************************)
(* A soft delete is final: whatever a PUT read before it, nothing changes  *)
(* or revives the row afterwards.                                          *)
(***************************************************************************)
THEOREM DeletionIsFinal == Spec => DeletedIsFinal
<1>1. TypeInv /\ [Next]_vars =>
         [\A p \in Players : Exists(p) /\ ~Live(p) => row'[p] = row[p]]_vars
  BY FinalStep
<1>. QED
  BY <1>1, HandlersInit, TypeStep, PTL DEF Spec, DeletedIsFinal

-----------------------------------------------------------------------------
(***************************************************************************)
(* The cache.  The invariant of one account: an entry needs a row; a stale *)
(* entry that a late fill did not leave has a PUT or a DELETE on its way   *)
(* to invalidate it; and an entry of a deleted account has one that will   *)
(* not turn back at its read-back.                                         *)
(***************************************************************************)
Pending(p, steps) == \E r \in Requests : req[r].who = p /\ req[r].at \in steps

Coherent(p) ==
    /\ cache[p] # NoView => Exists(p)
    /\ Stale(p) /\ p \notin lateFill => Pending(p, {"readBack", "invalidate"})
    /\ Exists(p) /\ ~Live(p) /\ cache[p] # NoView /\ p \notin lateFill
         => Pending(p, {"invalidate"})

CacheInv == \A p \in Players : Coherent(p)

LEMMA CacheInit == Init => CacheInv
  BY DEF Init, CacheInv, Coherent, Stale

\* A step that touches neither an account nor who is to invalidate it.
LEMMA Undisturbed ==
    ASSUME NEW p \in Players, Coherent(p),
           row'[p] = row[p], cache'[p] = cache[p], p \in lateFill' <=> p \in lateFill,
           \A r \in Requests : req[r].who = p /\ req[r].at \in {"readBack", "invalidate"}
                               => req'[r] = req[r]
    PROVE  Coherent(p)'
<1>1. Pending(p, {"invalidate"}) => Pending(p, {"invalidate"})'
  BY DEF Pending
<1>2. Pending(p, {"readBack", "invalidate"}) => Pending(p, {"readBack", "invalidate"})'
  BY DEF Pending
<1>3. /\ Exists(p)' <=> Exists(p)
      /\ Live(p)' <=> Live(p)
      /\ Stale(p)' <=> Stale(p)
  BY DEF Exists, Live, Stale, Agrees
<1>. QED
  BY <1>1, <1>2, <1>3 DEF Coherent

\* A handler that owes no invalidation moves on, with table and cache as they are.
LEMMA FreeMove ==
    ASSUME TypeInv, CacheInv, NEW r \in Requests,
           req[r].at \notin {"readBack", "invalidate"},
           row' = row, cache' = cache, lateFill' = lateFill,
           \A q \in Requests \ {r} : req'[q] = req[q]
    PROVE  CacheInv'
  BY Undisturbed DEF CacheInv

LEMMA Others ==
    ASSUME TypeInv, NEW r \in Requests,
           Answer(r) \/ \E step, p, put, seen : GoesTo(r, step, p, put, seen)
    PROVE  \A q \in Requests \ {r} : req'[q] = req[q]
  BY DEF TypeInv, TypeOK, Answer, GoesTo

LEMMA BeginCoherent ==
    ASSUME TypeInv, CacheInv, NEW r \in Requests, Begin(r)
    PROVE  CacheInv'
<1>1. \A q \in Requests \ {r} : req'[q] = req[q]
  BY Others, Routes DEF GetPlayer, Login, UpdatePlayer, SoftDelete, ListSubaccounts, ResolveParent
<1>2. req[r].at = "idle"
  BY Routes DEF GetPlayer, Login, UpdatePlayer, SoftDelete, ListSubaccounts, ResolveParent, At
<1>3. CASE row' = row /\ cache' = cache /\ lateFill' = lateFill
  BY <1>1, <1>2, <1>3, FreeMove
<1>4. ASSUME NEW p \in Players, SoftDelete(r, p)
      PROVE  CacheInv'
  <2>1. /\ Exists(p) /\ cache' = cache /\ lateFill' = lateFill
        /\ \A q \in Players \ {p} : row'[q] = row[q]
        /\ req'[r].who = p /\ req'[r].at = "invalidate"
    BY <1>4 DEF SoftDelete, Live, TypeInv, TypeOK, GoesTo
  <2>2. Exists(p)'
    <3>1. TypeInv'
      BY BeginTyped
    <3>2. row[p] # NoRow /\ row'[p] = [row[p] EXCEPT !.status = "deleted"] /\ row[p] \in Row
      BY <1>4, <2>1 DEF SoftDelete, TypeInv, TypeOK, Exists
    <3>3. row'[p] \in Row
      BY <3>2 DEF Row
    <3>. QED
      BY <3>3, SentinelAssumption DEF Exists
  <2>3. Pending(p, {"invalidate"})' /\ Pending(p, {"readBack", "invalidate"})'
    BY <2>1 DEF Pending
  <2>4. Coherent(p)'
    BY <2>2, <2>3 DEF Coherent
  <2>5. ASSUME NEW q \in Players \ {p} PROVE Coherent(q)'
    BY <1>1, <1>2, <2>1, Undisturbed DEF CacheInv
  <2>. QED
    BY <2>4, <2>5 DEF CacheInv
<1>. QED
  BY <1>3, <1>4, Routes DEF GetPlayer, Login, UpdatePlayer, ListSubaccounts, ResolveParent

LEMMA ContinueCoherent ==
    ASSUME TypeInv, CacheInv, ~Faults, NEW r \in Requests, Continue(r)
    PROVE  CacheInv'
<1>. SUFFICES ASSUME NEW p, p = req[r].who
              PROVE  CacheInv'
  OBVIOUS
<1>b. SoundHandler(req[r])
  BY DEF TypeInv, HandlersSound
<1>1. \A q \in Requests \ {r} : req'[q] = req[q]
  BY Others DEF Continue, FindPlayerView, SetPlayerView, WriteUpdate, ReadBack,
     InvalidatePlayer, Insert, InsertDuplicate, FindSubaccounts, Fail
<1>2. CASE FindPlayerView(r) \/ InsertDuplicate(r) \/ FindSubaccounts(r)
  BY <1>1, <1>2, FreeMove DEF FindPlayerView, InsertDuplicate, FindSubaccounts, At
<1>3. CASE SetPlayerView(r)
  <2>1. p \in Players /\ Exists(p) /\ req[r].at = "fill" /\ req[r].seen \in View
    BY <1>3, <1>b DEF SetPlayerView, At, SoundHandler
  <2>2. /\ row' = row /\ cache'[p] = req[r].seen
        /\ \A q \in Players \ {p} : cache'[q] = cache[q] /\ (q \in lateFill' <=> q \in lateFill)
        /\ p \notin lateFill' => Agrees(req[r].seen, p)
    BY <1>3, <2>1 DEF SetPlayerView, TypeInv, TypeOK
  <2>3. /\ Exists(p)' /\ (Live(p)' <=> Live(p))
        /\ p \notin lateFill' => ~Stale(p)' /\ Live(p)
    BY <2>1, <2>2 DEF Exists, Live, Stale, Agrees
  <2>4. Coherent(p)'
    BY <2>3 DEF Coherent
  <2>5. ASSUME NEW q \in Players \ {p} PROVE Coherent(q)'
    BY <1>1, <2>1, <2>2, Undisturbed DEF CacheInv
  <2>. QED
    BY <2>4, <2>5 DEF CacheInv
<1>4. CASE WriteUpdate(r)
  <2>1. p \in Players /\ Exists(p) /\ req[r].at = "update" /\ cache' = cache /\ lateFill' = lateFill
    BY <1>4, <1>b DEF WriteUpdate, At, SoundHandler
  <2>2. CASE row' = row
    BY <1>1, <2>1, <2>2, FreeMove
  <2>3. CASE Live(p) /\ ~Taken(p, NewUsername(r), NewEmail(r))
    <3>a. /\ row \in [Players -> Row \cup {NoRow}] /\ req \in [Requests -> Request]
          /\ row[p] \in Row
      BY <2>1 DEF TypeInv, TypeOK, Exists
    <3>b. /\ row' = [row EXCEPT ![p].username = NewUsername(r), ![p].email = NewEmail(r)]
          /\ GoesTo(r, "readBack", p, NoPut, NoView)
      BY <1>4, <2>3 DEF WriteUpdate
    <3>c. req'[r].who = p /\ req'[r].at = "readBack"
      BY <3>a, <3>b DEF GoesTo
    <3>1. /\ \A q \in Players \ {p} : row'[q] = row[q]
          /\ row'[p] = [row[p] EXCEPT !.username = NewUsername(r), !.email = NewEmail(r)]
          /\ row[p] \in Row
          /\ req'[r].who = p /\ req'[r].at = "readBack"
      BY <2>1, <3>a, <3>b, <3>c
    <3>2. /\ NewUsername(r) \in Names
          /\ NewEmail(r) \in Emails \cup {NoEmail}
      BY <2>1, NewValuesTyped DEF At
    <3>3. row'[p] \in Row /\ row'[p].status = row[p].status
      BY <3>1, <3>2 DEF Row
    <3>4. Exists(p)' /\ Live(p)'
      BY <2>3, <3>3, SentinelAssumption DEF Exists, Live
    <3>5. Pending(p, {"readBack", "invalidate"})'
      BY <3>1 DEF Pending
    <3>6. Coherent(p)'
      BY <3>4, <3>5 DEF Coherent
    <3>7. ASSUME NEW q \in Players \ {p} PROVE Coherent(q)'
      BY <1>1, <2>1, <3>1, Undisturbed DEF CacheInv
    <3>. QED
      BY <3>6, <3>7 DEF CacheInv
  <2>. QED
    BY <1>4, <2>2, <2>3 DEF WriteUpdate
<1>5. CASE ReadBack(r)
  <2>1. /\ p \in Players /\ Exists(p) /\ req[r].at = "readBack"
        /\ row' = row /\ cache' = cache /\ lateFill' = lateFill
    BY <1>5, <1>b DEF ReadBack, At, SoundHandler
  <2>2. /\ Exists(p)' /\ (Live(p)' <=> Live(p)) /\ (Stale(p)' <=> Stale(p))
    BY <2>1 DEF Exists, Live, Stale, Agrees
  <2>3. ASSUME Live(p) PROVE Coherent(p)'
    <3>1. req'[r].who = p /\ req'[r].at = "invalidate"
      BY <1>5, <2>3 DEF ReadBack, GoesTo, TypeInv, TypeOK
    <3>2. Pending(p, {"invalidate"})' /\ Pending(p, {"readBack", "invalidate"})'
      BY <3>1 DEF Pending
    <3>. QED
      BY <2>2, <3>2 DEF Coherent
  <2>4. ASSUME ~Live(p) PROVE Coherent(p)'
    <3>1. Coherent(p)
      BY <2>1 DEF CacheInv
    <3>2. Pending(p, {"invalidate"}) =>
             Pending(p, {"invalidate"})' /\ Pending(p, {"readBack", "invalidate"})'
      BY <1>1, <2>1 DEF Pending
    <3>. QED
      BY <2>1, <2>2, <2>4, <3>1, <3>2 DEF Coherent, Stale
  <2>5. ASSUME NEW q \in Players \ {p} PROVE Coherent(q)'
    BY <1>1, <2>1, Undisturbed DEF CacheInv
  <2>6. Coherent(p)'
    BY <2>3, <2>4
  <2>. QED
    BY <2>5, <2>6 DEF CacheInv
<1>6. CASE InvalidatePlayer(r)
  <2>1. /\ p \in Players /\ row' = row /\ cache'[p] = NoView
        /\ \A q \in Players \ {p} : cache'[q] = cache[q] /\ (q \in lateFill' <=> q \in lateFill)
    BY <1>6, <1>b DEF InvalidatePlayer, At, SoundHandler, TypeInv, TypeOK
  <2>2. Coherent(p)'
    BY <2>1 DEF Coherent, Stale
  <2>3. ASSUME NEW q \in Players \ {p} PROVE Coherent(q)'
    BY <1>1, <2>1, Undisturbed DEF CacheInv
  <2>. QED
    BY <2>2, <2>3 DEF CacheInv
<1>7. ASSUME NEW q \in Players, NEW username, NEW email, Insert(r, q, username, email)
      PROVE  CacheInv'
  <2>1. /\ ~Exists(q) /\ cache' = cache /\ lateFill' = lateFill /\ req[r].at = "insert"
        /\ \A s \in Players \ {q} : row'[s] = row[s]
    BY <1>7 DEF Insert, At, TypeInv, TypeOK
  <2>2. cache'[q] = NoView
    BY <2>1 DEF CacheInv, Coherent
  <2>3. Coherent(q)'
    BY <2>2 DEF Coherent, Stale
  <2>4. ASSUME NEW s \in Players \ {q} PROVE Coherent(s)'
    BY <1>1, <2>1, Undisturbed DEF CacheInv
  <2>. QED
    BY <2>3, <2>4 DEF CacheInv
<1>. QED
  BY <1>2, <1>3, <1>4, <1>5, <1>6, <1>7 DEF Continue, Fail

LEMMA ExpireCoherent ==
    ASSUME TypeInv, CacheInv, NEW p \in Players, Expire(p)
    PROVE  CacheInv'
<1>1. /\ row' = row /\ req' = req /\ cache'[p] = NoView
      /\ \A q \in Players \ {p} : cache'[q] = cache[q] /\ (q \in lateFill' <=> q \in lateFill)
  BY DEF Expire, TypeInv, TypeOK
<1>2. Coherent(p)'
  BY <1>1 DEF Coherent, Stale
<1>3. ASSUME NEW q \in Players \ {p} PROVE Coherent(q)'
  BY <1>1, Undisturbed DEF CacheInv
<1>. QED
  BY <1>2, <1>3 DEF CacheInv

LEMMA CacheStep ==
    ASSUME ~Faults
    PROVE  TypeInv /\ CacheInv /\ [Next]_vars => CacheInv'
<1>. SUFFICES ASSUME TypeInv, CacheInv, [Next]_vars PROVE CacheInv'
  OBVIOUS
<1>1. CASE UNCHANGED vars
  BY <1>1, Undisturbed DEF vars, CacheInv
<1>. QED
  BY <1>1, BeginCoherent, ContinueCoherent, ExpireCoherent DEF Next

(***************************************************************************)
(* Where nothing fails, fills that a write overtook are the only lasting   *)
(* source of stale profiles, for any number of concurrent requests: every  *)
(* other stale entry still has its invalidation coming.                    *)
(***************************************************************************)
THEOREM LateFillsOnly ==
    ASSUME ~Faults
    PROVE  Spec => []StaleOnlyByLateFill
<1>1. Init => TypeInv /\ CacheInv
  BY HandlersInit, CacheInit
<1>2. TypeInv /\ CacheInv /\ [Next]_vars => TypeInv' /\ CacheInv'
  BY TypeStep, CacheStep
<1>3. CacheInv => StaleOnlyByLateFill
  BY DEF CacheInv, Coherent, StaleOnlyByLateFill, Pending
<1>. QED
  BY <1>1, <1>2, <1>3, PTL DEF Spec

=============================================================================
