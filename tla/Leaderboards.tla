---------------------------- MODULE Leaderboards ----------------------------
(***************************************************************************)
(* Leaderboard entries and the handlers that write and rank them           *)
(* (src/services/leaderboards.rs, src/api/leaderboards.rs).                *)
(*                                                                         *)
(* There are two rankings.  GET sorts a board by score, creation time and  *)
(* id, and leaves deleted players out; POST and PUT answer with a count of *)
(* better entries, by score and id, of all players.  A handler is a chain  *)
(* of queries with an await between any two and no transaction.  The look- *)
(* ups of board and player are one step: no code changes a board.          *)
(*                                                                         *)
(* A request refused before its first query (pagination, props, an owner   *)
(* other than the JWT's player, an unknown board) changes nothing and has  *)
(* no action.  Players are registered before the behaviour begins.         *)
(***************************************************************************)
EXTENDS Naturals, Sequences, FiniteSets, SequencesExt

CONSTANTS
    Boards,      \* leaderboards
    Players,     \* public_id values
    NoBoard,     \* the board of an idle handler
    NoPlayer,    \* the player of an idle handler
    Scores,      \* scores clients send
    Props,       \* props clients send
    NoProps,     \* NULL, or a body without props
    Requests,    \* handlers that may be in flight together
    MaxPerPage,  \* MAX_PER_PAGE, 100 in the code
    MaxEntries,  \* bound on the rows of the table
    MaxSecond    \* bound on the database's clock, which counts in seconds

ASSUME BoardAssumption ==
    /\ Scores \subseteq Nat
    /\ NoBoard \notin Boards /\ NoPlayer \notin Players /\ NoProps \notin Props
    /\ MaxPerPage \in Nat /\ MaxEntries \in Nat /\ MaxSecond \in Nat \ {0}

VARIABLES
    entries,     \* leaderboard_entries: the row with id i is entries[i]
    deleted,     \* players whose status is 'deleted'
    req,         \* what each handler will do next, and what it has in hand
    clock        \* the database's clock

vars == <<entries, deleted, req, clock>>

Entry == [board : Boards, player : Players, score : Scores,
          props : Props \cup {NoProps}, createdAt : 1..MaxSecond]

(***************************************************************************)
(* Where a handler waits: before the INSERT of a POST, the SELECT and the  *)
(* UPDATE of a PUT, and the count of both.  id is the row it has found or  *)
(* inserted, since the second in which it resolved the player.  The body,  *)
(* which is known from the start, is chosen where it is first used.        *)
(***************************************************************************)
Steps == {"idle", "insert", "select", "update", "rank"}

Request ==
    [at : Steps, board : Boards \cup {NoBoard}, player : Players \cup {NoPlayer},
     score : Scores \cup {0}, props : Props \cup {NoProps}, id : Nat, since : Nat]

Idle == [at |-> "idle", board |-> NoBoard, player |-> NoPlayer, score |-> 0,
         props |-> NoProps, id |-> 0, since |-> 0]

At(r, step) == req[r].at = step

Ids == DOMAIN entries

\* What a handler holds at each step: it updates and ranks a row of its own.
SoundHandler(r) ==
    /\ ~At(r, "idle") => req[r].board \in Boards /\ req[r].player \in Players
    /\ At(r, "insert") => req[r].since \in 1..clock
    /\ req[r].at \in {"update", "rank"} =>
         /\ req[r].id \in Ids
         /\ entries[req[r].id].board = req[r].board
         /\ entries[req[r].id].player = req[r].player

TypeOK ==
    /\ entries \in Seq(Entry)
    /\ deleted \subseteq Players
    /\ req \in [Requests -> Request]
    /\ clock \in 1..MaxSecond
    /\ \A r \in Requests : SoundHandler(r)

Init ==
    /\ entries = <<>>
    /\ deleted = {}
    /\ req = [r \in Requests |-> Idle]
    /\ clock = 1

-----------------------------------------------------------------------------
(***************************************************************************)
(* GET /leaderboards/{game_id}: one SELECT, which changes nothing.         *)
(***************************************************************************)
OnBoard(b) == {i \in Ids : entries[i].board = b}

\* JOIN players ON status <> 'deleted'.
Shown(b) == {i \in OnBoard(b) : entries[i].player \notin deleted}

\* ORDER BY score DESC, created_at ASC, id ASC.
ListedBefore(i, j) ==
    LET e == entries[i]  f == entries[j]
    IN  \/ e.score > f.score
        \/ e.score = f.score /\ e.createdAt < f.createdAt
        \/ e.score = f.score /\ e.createdAt = f.createdAt /\ i < j

Ranking(b) ==
    LET shown == Shown(b)
        place == [i \in shown |-> 1 + Cardinality({j \in shown : ListedBefore(j, i)})]
    IN  [n \in 1..Cardinality(shown) |-> CHOOSE i \in shown : place[i] = n]

\* Mutation of Offset: the first page is page zero.
OffsetFromZero(page, perPage) == page * perPage

Offset(page, perPage) == (page - 1) * perPage

\* LIMIT and OFFSET on a ranking; ranks continue across pages.
Page(ranking, page, perPage) ==
    LET offset == Offset(page, perPage)
        rows == SubSeq(ranking, offset + 1, Min({offset + perPage, Len(ranking)}))
    IN  [n \in DOMAIN rows |-> [id |-> rows[n], rank |-> offset + n]]

\* GET: pages are counted from 1 and bounded in size; anything else is a 400.
GetLeaderboard(ranking, page, perPage) ==
    IF page = 0 \/ perPage \notin 1..MaxPerPage
    THEN <<>> ELSE Page(ranking, page, perPage)

\* Mutation of RankOf: equal scores are better, whoever came first.
RankOfLast(b, score, id) ==
    1 + Cardinality({i \in OnBoard(b) \ {id} : entries[i].score >= score})

\* Mutation of RankOf: entries of every board count.
RankOnAnyBoard(b, score, id) ==
    1 + Cardinality({i \in Ids : \/ entries[i].score > score
                                 \/ entries[i].score = score /\ i < id})

\* compute_rank: deleted players' entries count as well.
RankOf(b, score, id) ==
    1 + Cardinality({i \in OnBoard(b) : \/ entries[i].score > score
                                        \/ entries[i].score = score /\ i < id})

-----------------------------------------------------------------------------
Answer(r) == req' = [req EXCEPT ![r] = Idle]

\* resolve_board_and_player: the player has an account that is not deleted.
Resolve(r, step, b, p, since) ==
    /\ At(r, "idle")
    /\ p \notin deleted
    /\ req' = [req EXCEPT ![r] = [at |-> step, board |-> b, player |-> p, score |-> 0,
                                  props |-> NoProps, id |-> 0, since |-> since]]
    /\ UNCHANGED <<entries, deleted, clock>>

\* POST /leaderboards/{game_id}/entries
Submit(r, b, p) == Resolve(r, "insert", b, p, clock)

\* PUT /leaderboards/{game_id}/entries/{player_id}
Update(r, b, p) == Resolve(r, "select", b, p, 0)

\* Handler r goes on to a step, with row id in hand.
GoesTo(r, step, id, score, props) ==
    req' = [req EXCEPT ![r] =
        [at |-> step, board |-> req[r].board, player |-> req[r].player,
         score |-> score, props |-> props, id |-> id, since |-> 0]]

EntryOf(b, p) == {i \in OnBoard(b) : entries[i].player = p}

(***************************************************************************)
(* The INSERT of the body's score and props.  A statement takes created_at *)
(* when it starts and its id when it writes the row, so of two overlapping *)
(* ones the later id may have the earlier time.                            *)
(***************************************************************************)
InsertEntry(r, score, props) ==
    /\ At(r, "insert")
    /\ EntryOf(req[r].board, req[r].player) = {}
    /\ Len(entries) < MaxEntries
    /\ \E second \in req[r].since..clock :
         entries' = Append(entries, [board |-> req[r].board, player |-> req[r].player,
                                     score |-> score, props |-> props, createdAt |-> second])
    /\ GoesTo(r, "rank", Len(entries) + 1, score, NoProps)
    /\ UNCHANGED <<deleted, clock>>

\* The INSERT meets the unique key: 409.
InsertDuplicate(r) ==
    /\ At(r, "insert")
    /\ EntryOf(req[r].board, req[r].player) # {}
    /\ Answer(r)
    /\ UNCHANGED <<entries, deleted, clock>>

\* Mutation of SelectEntry: any entry of the player will do.
SelectOnAnyBoard(r) ==
    /\ At(r, "select")
    /\ \/ \E i \in {j \in Ids : entries[j].player = req[r].player} :
            GoesTo(r, "update", i, 0, entries[i].props)
       \/ EntryOf(req[r].board, req[r].player) = {} /\ Answer(r)
    /\ UNCHANGED <<entries, deleted, clock>>

\* Mutation of SelectEntry: a missing entry is not an error.
SelectUnchecked(r) ==
    /\ At(r, "select")
    /\ GoesTo(r, "update", 0, 0, NoProps)
    /\ UNCHANGED <<entries, deleted, clock>>

\* The row to update with its current props; no row is a 404.
SelectEntry(r) ==
    /\ At(r, "select")
    /\ \/ \E i \in EntryOf(req[r].board, req[r].player) :
            GoesTo(r, "update", i, 0, entries[i].props)
       \/ EntryOf(req[r].board, req[r].player) = {} /\ Answer(r)
    /\ UNCHANGED <<entries, deleted, clock>>

\* Both columns are written; props the body omits are the ones read before.
UpdateEntry(r, score, props) ==
    /\ At(r, "update")
    /\ entries' = [entries EXCEPT
            ![req[r].id].score = score,
            ![req[r].id].props = IF props # NoProps THEN props ELSE req[r].props]
    /\ GoesTo(r, "rank", req[r].id, score, NoProps)
    /\ UNCHANGED <<deleted, clock>>

\* The rank a handler that counts now would answer with.
AnsweredRank(r) == RankOf(req[r].board, req[r].score, req[r].id)

ComputeRank(r) ==
    /\ At(r, "rank")
    /\ Answer(r)
    /\ UNCHANGED <<entries, deleted, clock>>

\* A query fails, or the client goes away and the handler is dropped.
Fail(r) ==
    /\ ~At(r, "idle")
    /\ Answer(r)
    /\ UNCHANGED <<entries, deleted, clock>>

\* DELETE /players/{id}: entries stay, and stop being shown.
SoftDelete(p) ==
    /\ p \notin deleted
    /\ deleted' = deleted \cup {p}
    /\ UNCHANGED <<entries, req, clock>>

Tick ==
    /\ clock < MaxSecond
    /\ clock' = clock + 1
    /\ UNCHANGED <<entries, deleted, req>>

Begin(r) == \E b \in Boards, p \in Players : Submit(r, b, p) \/ Update(r, b, p)

Continue(r) ==
    \/ \E score \in Scores, props \in Props \cup {NoProps} :
         InsertEntry(r, score, props) \/ UpdateEntry(r, score, props)
    \/ InsertDuplicate(r)
    \/ SelectEntry(r)
    \/ ComputeRank(r)
    \/ Fail(r)

Next ==
    \/ \E r \in Requests : Begin(r) \/ Continue(r)
    \/ \E p \in Players : SoftDelete(p)
    \/ Tick

Spec == Init /\ [][Next]_vars

-----------------------------------------------------------------------------
(***************************************************************************)
(* Properties.                                                             *)
(***************************************************************************)

(***************************************************************************)
(* "Ranks are 1-based and continue across pages": read one after another,  *)
(* the pages of any accepted size are the whole ranking, no entry twice    *)
(* and none left out, numbered from 1; page 0 and a page beyond the end    *)
(* add nothing.                                                            *)
(***************************************************************************)
PagesTile ==
    \A b \in Boards :
        LET ranking == Ranking(b)
            whole == [n \in DOMAIN ranking |-> [id |-> ranking[n], rank |-> n]]
        IN  \A perPage \in 1..MaxPerPage :
                whole = FlattenSeq([n \in 1..MaxEntries + 1 |->
                                        GetLeaderboard(ranking, n - 1, perPage)])

\* Among equal scores the one with the lower id was created no later.
TiesInOrder(b) ==
    \A i, j \in OnBoard(b) :
        i < j /\ entries[i].score = entries[j].score
            => entries[i].createdAt <= entries[j].createdAt

(***************************************************************************)
(* The two rankings differ only by deleted players: when ties were         *)
(* inserted in the order of their times, the rank a POST or a PUT counts   *)
(* is the rank GET lists plus the better entries of deleted players.       *)
(***************************************************************************)
RanksAgree ==
    \A b \in Boards : TiesInOrder(b) =>
        LET page == Page(Ranking(b), 1, MaxEntries)
            hidden == OnBoard(b) \ Shown(b)
        IN  \A n \in DOMAIN page :
                RankOf(b, entries[page[n].id].score, page[n].id) =
                    page[n].rank + Cardinality({i \in hidden : ListedBefore(i, page[n].id)})

(***************************************************************************)
(* A rank answered is a place on the board: it exceeds the number of       *)
(* entries only by one, and only if another request of the same player     *)
(* has since raised the score, so that the entry counts itself as better.  *)
(***************************************************************************)
AnswerFitsBoard ==
    \A r \in Requests : At(r, "rank") =>
        LET size == Cardinality(OnBoard(req[r].board))
        IN  \/ AnsweredRank(r) <= size
            \/ AnsweredRank(r) = size + 1 /\ entries[req[r].id].score > req[r].score

(***************************************************************************)
(* Rows are never taken out or handed over, and a PUT writes only the row  *)
(* of its player on its board, whatever others insert between its SELECT   *)
(* and its UPDATE.                                                         *)
(***************************************************************************)
OwnEntryOnly ==
    [][/\ Len(entries') >= Len(entries)
       /\ \A i \in Ids : entries'[i] # entries[i] =>
            /\ entries'[i] = [entries[i] EXCEPT !.score = entries'[i].score,
                                                !.props = entries'[i].props]
            /\ \E r \in Requests : /\ At(r, "update")
                                   /\ req[r].board = entries[i].board
                                   /\ req[r].player = entries[i].player]_vars

(***************************************************************************)
(* "Omitted props keep their current value": the UPDATE of a PUT without   *)
(* props leaves them as they are.  It writes back what its SELECT read, so *)
(* a PUT that sets props in between is undone.                             *)
(***************************************************************************)
PropsKept ==
    [][\A r \in Requests, score \in Scores :
          UpdateEntry(r, score, NoProps) =>
              entries'[req[r].id].props = entries[req[r].id].props]_vars

=============================================================================
