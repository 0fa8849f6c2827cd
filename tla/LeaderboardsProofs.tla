-------------------------- MODULE LeaderboardsProofs --------------------------
(***************************************************************************)
(* Theorems about Leaderboards, for any boards, players, scores, props,    *)
(* number of handlers and bounds.  TypeOK is inductive: it says what row a *)
(* handler holds, which every write and every count relies on.             *)
(***************************************************************************)
EXTENDS Leaderboards, TLAPS, FiniteSetTheorems, FunctionTheorems, SequenceTheorems,
        WellFoundedInduction

-----------------------------------------------------------------------------
(***************************************************************************)
(* A row is on the board its handler ranks it on, and compute_rank leaves  *)
(* the row itself out unless its score has been raised meanwhile.          *)
(***************************************************************************)

\* The ids of a table are 1 up to its length, hence finitely many.
LEMMA BoardsAreFinite ==
    ASSUME TypeOK, NEW b
    PROVE  /\ Ids = 1..Len(entries) /\ Len(entries) \in Nat
           /\ IsFiniteSet(OnBoard(b)) /\ Cardinality(OnBoard(b)) \in Nat
<1>1. Ids = 1..Len(entries) /\ Len(entries) \in Nat
  BY DEF TypeOK, Ids
<1>2. IsFiniteSet(Ids)
  BY <1>1, FS_Interval
<1>3. OnBoard(b) \subseteq Ids
  BY DEF OnBoard
<1>4. IsFiniteSet(OnBoard(b))
  BY <1>2, <1>3, FS_Subset
<1> QED
  BY <1>1, <1>4, FS_CardinalityType

\* compute_rank counts rows of the board only, and never more than all.
LEMMA RankIsBounded ==
    ASSUME TypeOK, NEW b, NEW score \in Nat, NEW id \in Nat
    PROVE  /\ RankOf(b, score, id) \in Nat
           /\ RankOf(b, score, id) <= Cardinality(OnBoard(b)) + 1
<1> DEFINE better == {i \in OnBoard(b) : \/ entries[i].score > score
                                         \/ entries[i].score = score /\ i < id}
<1>1. better \subseteq OnBoard(b)
  OBVIOUS
<1>2. IsFiniteSet(OnBoard(b)) /\ Cardinality(OnBoard(b)) \in Nat
  BY BoardsAreFinite
<1>3. Cardinality(better) <= Cardinality(OnBoard(b)) /\ Cardinality(better) \in Nat
  BY <1>1, <1>2, FS_Subset, FS_CardinalityType
<1>4. RankOf(b, score, id) = 1 + Cardinality(better)
  BY DEF RankOf
<1> QED
  BY <1>2, <1>3, <1>4

\* A row that is not better than the score it is ranked with leaves room.
LEMMA RankLeavesSelfOut ==
    ASSUME TypeOK, NEW b, NEW score \in Nat, NEW id \in OnBoard(b),
           ~(entries[id].score > score)
    PROVE  RankOf(b, score, id) <= Cardinality(OnBoard(b))
<1> DEFINE better == {i \in OnBoard(b) : \/ entries[i].score > score
                                         \/ entries[i].score = score /\ i < id}
<1>1. id \in Nat
  <2>1. id \in Ids
    BY DEF OnBoard
  <2> QED
    BY <2>1, BoardsAreFinite
<1>2. better \subseteq OnBoard(b) \ {id}
  BY <1>1
<1>3. IsFiniteSet(OnBoard(b)) /\ Cardinality(OnBoard(b)) \in Nat
  BY BoardsAreFinite
<1>4. /\ IsFiniteSet(OnBoard(b) \ {id})
      /\ Cardinality(OnBoard(b) \ {id}) = Cardinality(OnBoard(b)) - 1
  BY <1>3, FS_RemoveElement
<1>5. Cardinality(better) <= Cardinality(OnBoard(b) \ {id}) /\ Cardinality(better) \in Nat
  BY <1>2, <1>4, FS_Subset, FS_CardinalityType
<1>6. RankOf(b, score, id) = 1 + Cardinality(better)
  BY DEF RankOf
<1> QED
  BY <1>3, <1>4, <1>5, <1>6

-----------------------------------------------------------------------------
(***************************************************************************)
(* Type correctness, action by action.                                     *)
(***************************************************************************)

LEMMA InitTypeOK == Init => TypeOK
<1> SUFFICES ASSUME Init PROVE TypeOK
  OBVIOUS
<1>1. Idle \in Request
  BY DEF Idle, Request, Steps
<1>2. req \in [Requests -> Request] /\ \A r \in Requests : req[r] = Idle
  BY <1>1 DEF Init
<1>3. \A r \in Requests : SoundHandler(r)
  BY <1>2 DEF SoundHandler, At, Idle
<1>4. entries \in Seq(Entry) /\ deleted \subseteq Players /\ clock \in 1..MaxSecond
  BY BoardAssumption DEF Init
<1> QED
  BY <1>2, <1>3, <1>4 DEF TypeOK

(***************************************************************************)
(* A step that replaces one handler's record by a sound one, and keeps     *)
(* every row's board and player, leaves all handlers sound.                *)
(***************************************************************************)
LEMMA OthersStaySound ==
    ASSUME TypeOK, NEW r \in Requests, NEW hand \in Request,
           req' = [req EXCEPT ![r] = hand], SoundHandler(r)',
           entries' \in Seq(Entry), deleted' \subseteq Players,
           clock' \in 1..MaxSecond, clock <= clock',
           \A i \in Ids : /\ i \in Ids'
                          /\ entries'[i].board = entries[i].board
                          /\ entries'[i].player = entries[i].player
    PROVE  TypeOK'
<1>1. req' \in [Requests -> Request]
  BY DEF TypeOK
<1>2. ASSUME NEW s \in Requests, s # r PROVE SoundHandler(s)'
  <2>1. req'[s] = req[s] /\ SoundHandler(s) /\ clock \in Nat /\ clock' \in Nat
    BY <1>2 DEF TypeOK
  <2> QED
    BY <2>1 DEF SoundHandler, At
<1> QED
  BY <1>1, <1>2 DEF TypeOK

\* The same for a step that leaves the table alone.
LEMMA HandlerStep ==
    ASSUME TypeOK, NEW r \in Requests, NEW hand \in Request,
           req' = [req EXCEPT ![r] = hand], SoundHandler(r)',
           UNCHANGED <<entries, deleted, clock>>
    PROVE  TypeOK'
<1>1. entries' \in Seq(Entry) /\ deleted' \subseteq Players /\ clock' \in 1..MaxSecond
  BY DEF TypeOK
<1>2. clock <= clock'
  BY BoardAssumption DEF TypeOK
<1>3. \A i \in Ids : /\ i \in Ids'
                     /\ entries'[i].board = entries[i].board
                     /\ entries'[i].player = entries[i].player
  BY DEF Ids
<1> QED
  BY <1>1, <1>2, <1>3, OthersStaySound

\* Answering, and failing, keep the types.
LEMMA AnswerKeepsType ==
    ASSUME TypeOK, NEW r \in Requests, Answer(r), UNCHANGED <<entries, deleted, clock>>
    PROVE  TypeOK'
<1>1. Idle \in Request
  BY DEF Idle, Request, Steps
<1>2. req'[r] = Idle
  BY DEF TypeOK, Answer
<1>3. SoundHandler(r)'
  BY <1>2 DEF SoundHandler, At, Idle
<1>4. req' = [req EXCEPT ![r] = Idle]
  BY DEF Answer
<1> QED
  BY <1>1, <1>3, <1>4, HandlerStep

LEMMA StepKeepsType == TypeOK /\ [Next]_vars => TypeOK'
<1> SUFFICES ASSUME TypeOK, [Next]_vars PROVE TypeOK'
  OBVIOUS
<1>0. /\ entries \in Seq(Entry) /\ Len(entries) \in Nat /\ Ids = 1..Len(entries)
      /\ clock \in Nat /\ clock \in 1..MaxSecond /\ MaxSecond \in Nat
      /\ deleted \subseteq Players /\ Scores \subseteq Nat
  BY BoardAssumption DEF TypeOK, Ids
<1>1. ASSUME NEW r \in Requests, NEW b \in Boards, NEW p \in Players,
             Submit(r, b, p) \/ Update(r, b, p)
      PROVE  TypeOK'
  <2>1. PICK step \in {"insert", "select"}, since \in Nat :
          Resolve(r, step, b, p, since) /\ (step = "insert" => since = clock)
    BY <1>0, <1>1 DEF Submit, Update
  <2> DEFINE hand == [at |-> step, board |-> b, player |-> p, score |-> 0,
                      props |-> NoProps, id |-> 0, since |-> since]
  <2>2. hand \in Request
    BY DEF Request, Steps
  <2>3. req' = [req EXCEPT ![r] = hand] /\ UNCHANGED <<entries, deleted, clock>>
    BY <2>1 DEF Resolve
  <2>4. req'[r] = hand
    BY <2>3 DEF TypeOK
  <2>5. SoundHandler(r)'
    BY <1>0, <2>1, <2>3, <2>4 DEF SoundHandler, At
  <2> HIDE DEF hand
  <2> QED
    BY <2>2, <2>3, <2>5, HandlerStep
<1>2. ASSUME NEW r \in Requests, NEW score \in Scores, NEW props \in Props \cup {NoProps},
             InsertEntry(r, score, props)
      PROVE  TypeOK'
  <2>1. /\ req[r].board \in Boards /\ req[r].player \in Players
        /\ req[r].since \in 1..clock
    BY <1>2 DEF InsertEntry, TypeOK, SoundHandler, At
  <2>2. PICK second \in req[r].since..clock :
          entries' = Append(entries, [board |-> req[r].board, player |-> req[r].player,
                                      score |-> score, props |-> props, createdAt |-> second])
    BY <1>2 DEF InsertEntry
  <2> DEFINE row == [board |-> req[r].board, player |-> req[r].player,
                     score |-> score, props |-> props, createdAt |-> second]
             hand == [at |-> "rank", board |-> req[r].board, player |-> req[r].player,
                      score |-> score, props |-> NoProps, id |-> Len(entries) + 1, since |-> 0]
  <2>3. second \in 1..MaxSecond
    BY <1>0, <2>1
  <2>4. row \in Entry
    BY <2>1, <2>3 DEF Entry
  <2>5. /\ entries' \in Seq(Entry) /\ Len(entries') = Len(entries) + 1
        /\ entries'[Len(entries) + 1] = row
        /\ \A i \in Ids : i \in Ids' /\ entries'[i] = entries[i]
        /\ Ids' = 1..(Len(entries) + 1)
    <3> HIDE DEF row
    <3> QED
      BY <1>0, <2>2, <2>4 DEF Ids, row
  <2>6. hand \in Request
    BY <1>0, <2>1 DEF Request, Steps
  <2>7. req' = [req EXCEPT ![r] = hand] /\ UNCHANGED <<deleted, clock>>
    BY <1>2 DEF InsertEntry, GoesTo
  <2>8. req'[r] = hand
    BY <2>7 DEF TypeOK
  <2>9. SoundHandler(r)'
    BY <1>0, <2>1, <2>5, <2>8 DEF SoundHandler, At
  <2>10. /\ deleted' \subseteq Players /\ clock' \in 1..MaxSecond /\ clock <= clock'
         /\ \A i \in Ids : /\ i \in Ids'
                          /\ entries'[i].board = entries[i].board
                          /\ entries'[i].player = entries[i].player
    BY <1>0, <2>5, <2>7
  <2> HIDE DEF hand, row
  <2> QED
    BY <2>5, <2>6, <2>7, <2>9, <2>10, OthersStaySound
<1>3. ASSUME NEW r \in Requests, SelectEntry(r)
      PROVE  TypeOK'
  <2>1. CASE Answer(r)
    BY <1>3, <2>1, AnswerKeepsType DEF SelectEntry
  <2>2. ASSUME NEW i \in EntryOf(req[r].board, req[r].player),
               GoesTo(r, "update", i, 0, entries[i].props)
        PROVE  TypeOK'
    <3> DEFINE hand == [at |-> "update", board |-> req[r].board, player |-> req[r].player,
                        score |-> 0, props |-> entries[i].props, id |-> i, since |-> 0]
    <3>1. /\ i \in Ids /\ entries[i].board = req[r].board /\ entries[i].player = req[r].player
      BY <2>2 DEF EntryOf, OnBoard
    <3>2. entries[i] \in Entry
      BY <1>0, <3>1
    <3>3. hand \in Request
      BY <1>0, <3>1, <3>2 DEF Request, Steps, Entry
    <3>4. req' = [req EXCEPT ![r] = hand] /\ UNCHANGED <<entries, deleted, clock>>
      BY <1>3, <2>2 DEF SelectEntry, GoesTo
    <3>5. req'[r] = hand
      BY <3>4 DEF TypeOK
    <3>6. SoundHandler(r)'
      BY <3>1, <3>2, <3>4, <3>5 DEF SoundHandler, At, Entry, Ids
    <3> HIDE DEF hand
    <3> QED
      BY <3>3, <3>4, <3>6, HandlerStep
  <2> QED
    BY <1>3, <2>1, <2>2 DEF SelectEntry
<1>4. ASSUME NEW r \in Requests, NEW score \in Scores, NEW props \in Props \cup {NoProps},
             UpdateEntry(r, score, props)
      PROVE  TypeOK'
  <2> DEFINE id == req[r].id
             hand == [at |-> "rank", board |-> req[r].board, player |-> req[r].player,
                      score |-> score, props |-> NoProps, id |-> id, since |-> 0]
             kept == IF props # NoProps THEN props ELSE req[r].props
             row == [entries[id] EXCEPT !.score = score, !.props = kept]
  <2>1. /\ id \in Ids /\ entries[id].board = req[r].board /\ entries[id].player = req[r].player
        /\ kept \in Props \cup {NoProps}
    BY <1>4 DEF UpdateEntry, TypeOK, SoundHandler, At, Request
  <2>2. entries[id] \in Entry
    BY <1>0, <2>1
  <2>3. /\ row \in Entry
        /\ row.board = entries[id].board /\ row.player = entries[id].player
    BY <2>1, <2>2 DEF Entry
  <2>4. entries' = [entries EXCEPT ![id] = row]
    BY <1>4 DEF UpdateEntry
  <2>5. /\ entries' \in Seq(Entry) /\ Ids' = Ids
        /\ entries'[id] = row
        /\ \A i \in Ids : i # id => entries'[i] = entries[i]
    <3> HIDE DEF row, id
    <3> QED
      BY <1>0, <2>1, <2>3, <2>4 DEF Ids
  <2>6. hand \in Request
    BY <1>0, <2>1, <2>2 DEF Request, Steps, Entry
  <2>7. req' = [req EXCEPT ![r] = hand] /\ UNCHANGED <<deleted, clock>>
    BY <1>4 DEF UpdateEntry, GoesTo
  <2>8. req'[r] = hand
    BY <2>7 DEF TypeOK
  <2>9. SoundHandler(r)'
    <3>1. hand.board \in Boards /\ hand.player \in Players
      BY <2>1, <2>2 DEF Entry
    <3>2. /\ hand.id \in Ids'
          /\ entries'[hand.id].board = hand.board
          /\ entries'[hand.id].player = hand.player
      <4> HIDE DEF row, id
      <4> QED
        BY <2>1, <2>3, <2>5
    <3>3. hand.at = "rank"
      OBVIOUS
    <3> HIDE DEF hand
    <3> QED
      BY <2>8, <3>1, <3>2, <3>3 DEF SoundHandler, At
  <2>10. \A i \in Ids : /\ i \in Ids'
                        /\ entries'[i].board = entries[i].board
                        /\ entries'[i].player = entries[i].player
    BY <2>3, <2>5
  <2>11. deleted' \subseteq Players /\ clock' \in 1..MaxSecond /\ clock <= clock'
    BY <1>0, <2>7
  <2> HIDE DEF hand, row
  <2> QED
    BY <2>5, <2>6, <2>7, <2>9, <2>10, <2>11, OthersStaySound
<1>5. ASSUME NEW r \in Requests, InsertDuplicate(r) \/ ComputeRank(r) \/ Fail(r)
      PROVE  TypeOK'
  BY <1>5, AnswerKeepsType DEF InsertDuplicate, ComputeRank, Fail
<1>6. ASSUME NEW p \in Players, SoftDelete(p)
      PROVE  TypeOK'
  BY <1>6 DEF SoftDelete, TypeOK, SoundHandler, At, Ids
<1>7. CASE Tick
  <2>1. clock' \in 1..MaxSecond /\ clock <= clock' /\ clock' \in Nat
    BY <1>0, <1>7 DEF Tick
  <2>2. \A r \in Requests : SoundHandler(r)'
    BY <1>0, <1>7, <2>1 DEF Tick, TypeOK, SoundHandler, At, Ids
  <2> QED
    BY <1>7, <2>1, <2>2 DEF Tick, TypeOK
<1>8. CASE UNCHANGED vars
  BY <1>8 DEF vars, TypeOK, SoundHandler, At, Ids
<1> QED
  BY <1>1, <1>2, <1>3, <1>4, <1>5, <1>6, <1>7, <1>8 DEF Next, Begin, Continue

-----------------------------------------------------------------------------
\* Table, clock and handlers keep their types, and a handler that updates or
\* ranks holds a row of its own player and board (update_entry).
THEOREM TypeInvariance == Spec => []TypeOK
  BY InitTypeOK, StepKeepsType, PTL DEF Spec

\* An answered rank is a place on the board, or one beyond it after another
\* request of the player raised the score (compute_rank).
THEOREM AnswersFit == Spec => []AnswerFitsBoard
<1>1. TypeOK => AnswerFitsBoard
  <2> SUFFICES ASSUME TypeOK, NEW r \in Requests, At(r, "rank")
               PROVE  LET size == Cardinality(OnBoard(req[r].board))
                      IN  \/ AnsweredRank(r) <= size
                          \/ AnsweredRank(r) = size + 1
                               /\ entries[req[r].id].score > req[r].score
    BY DEF AnswerFitsBoard
  <2> DEFINE b == req[r].board  score == req[r].score  id == req[r].id
  <2>1. id \in OnBoard(b)
    BY DEF TypeOK, SoundHandler, At, OnBoard
  <2>2. score \in Nat /\ id \in Nat
    <3>1. req[r] \in Request
      BY DEF TypeOK
    <3>2. req[r].score \in Scores \cup {0} /\ req[r].id \in Nat
      BY <3>1 DEF Request
    <3>3. \A x \in Scores \cup {0} : x \in Nat
      BY BoardAssumption
    <3> QED
      BY <3>2, <3>3
  <2>3. AnsweredRank(r) = RankOf(b, score, id)
    BY DEF AnsweredRank
  <2>4. RankOf(b, score, id) \in Nat /\ RankOf(b, score, id) <= Cardinality(OnBoard(b)) + 1
    BY <2>2, RankIsBounded
  <2>5. Cardinality(OnBoard(b)) \in Nat
    BY BoardsAreFinite
  <2>6. CASE entries[id].score > score
    BY <2>3, <2>4, <2>5, <2>6
  <2>7. CASE ~(entries[id].score > score)
    BY <2>1, <2>2, <2>3, <2>7, RankLeavesSelfOut
  <2> QED
    BY <2>6, <2>7
<1> QED
  BY <1>1, TypeInvariance, PTL

\* Rows stay, and a PUT writes only the row of its player on its board
\* (update_entry), whatever happens between its SELECT and its UPDATE.
THEOREM Ownership == Spec => OwnEntryOnly
<1> DEFINE Writes(i) ==
      /\ entries'[i] = [entries[i] EXCEPT !.score = entries'[i].score,
                                          !.props = entries'[i].props]
      /\ \E r \in Requests : /\ At(r, "update")
                             /\ req[r].board = entries[i].board
                             /\ req[r].player = entries[i].player
           Own == /\ Len(entries') >= Len(entries)
                  /\ \A i \in Ids : entries'[i] # entries[i] => Writes(i)
<1>1. TypeOK /\ [Next]_vars => [Own]_vars
  <2> SUFFICES ASSUME TypeOK, Next PROVE Own
    OBVIOUS
  <2>0. entries \in Seq(Entry) /\ Len(entries) \in Nat /\ Ids = 1..Len(entries)
    BY DEF TypeOK, Ids
  <2>1. CASE entries' = entries
    BY <2>0, <2>1
  <2>2. ASSUME NEW r \in Requests, NEW score \in Scores, NEW props \in Props \cup {NoProps},
               InsertEntry(r, score, props)
        PROVE  Own
    <3>1. PICK row : entries' = Append(entries, row)
      BY <2>2 DEF InsertEntry
    <3>2. Len(entries') = Len(entries) + 1 /\ \A i \in Ids : entries'[i] = entries[i]
      BY <2>0, <3>1
    <3> HIDE DEF Writes
    <3> QED
      BY <2>0, <3>2
  <2>3. ASSUME NEW r \in Requests, NEW score \in Scores, NEW props \in Props \cup {NoProps},
               UpdateEntry(r, score, props)
        PROVE  Own
    <3> DEFINE id == req[r].id
    <3> DEFINE kept == IF props # NoProps THEN props ELSE req[r].props
               row == [entries[id] EXCEPT !.score = score, !.props = kept]
    <3>1. entries' = [entries EXCEPT ![id] = row]
      BY <2>3 DEF UpdateEntry
    <3>2. /\ At(r, "update") /\ id \in Ids /\ kept \in Props \cup {NoProps}
          /\ entries[id].board = req[r].board /\ entries[id].player = req[r].player
      BY <2>3 DEF UpdateEntry, TypeOK, SoundHandler, At, Request
    <3>3. entries[id] \in Entry
      BY <2>0, <3>2
    <3>4. row \in Entry /\ row.score = score /\ row.props = kept
      BY <3>2, <3>3 DEF Entry
    <3>5. /\ Len(entries') = Len(entries)
          /\ \A i \in Ids : i # id => entries'[i] = entries[i]
          /\ entries'[id] = row
      <4> HIDE DEF row, id
      <4> QED
        BY <2>0, <3>1, <3>2, <3>4
    <3>6. Writes(id)
      BY <3>2, <3>4, <3>5
    <3> HIDE DEF Writes
    <3> QED
      BY <2>0, <3>5, <3>6
  <2>4. (\E r \in Requests : \E score \in Scores, props \in Props \cup {NoProps} :
           InsertEntry(r, score, props) \/ UpdateEntry(r, score, props))
        \/ entries' = entries
    BY DEF Next, Begin, Continue, Submit, Update, Resolve, InsertDuplicate, SelectEntry,
           Answer, GoesTo, ComputeRank, Fail, SoftDelete, Tick
  <2> QED
    BY <2>1, <2>2, <2>3, <2>4
<1> QED
  BY <1>1, TypeInvariance, PTL DEF Spec, OwnEntryOnly

-----------------------------------------------------------------------------
(***************************************************************************)
(* What GET lists.  ListedBefore is a strict total order of the rows, so   *)
(* counting the rows before each of finitely many gives each a place of    *)
(* its own, and every place is taken.                                      *)
(***************************************************************************)

\* Rows, in the form the steps below use.
LEMMA Rows ==
    ASSUME TypeOK
    PROVE  /\ Ids \subseteq Nat
           /\ \A i \in Ids : entries[i].score \in Nat /\ entries[i].createdAt \in Nat
<1>1. Ids = 1..Len(entries) /\ Len(entries) \in Nat /\ \A i \in Ids : entries[i] \in Entry
  BY DEF TypeOK, Ids
<1>2. ASSUME NEW e \in Entry
      PROVE  e.score \in Nat /\ e.createdAt \in Nat
  <2>1. e.score \in Scores /\ e.createdAt \in 1..MaxSecond
    BY DEF Entry
  <2>2. \A x \in Scores : x \in Nat
    BY BoardAssumption
  <2>3. \A x \in 1..MaxSecond : x \in Nat
    BY BoardAssumption
  <2>. QED
    BY <2>1, <2>2, <2>3
<1>. QED
  BY <1>1, <1>2

LEMMA ListedBeforeOrders ==
    ASSUME TypeOK, NEW i \in Ids, NEW j \in Ids, NEW k \in Ids
    PROVE  /\ ~ListedBefore(i, i)
           /\ ListedBefore(i, j) /\ ListedBefore(j, k) => ListedBefore(i, k)
           /\ i # j => ListedBefore(i, j) \/ ListedBefore(j, i)
<1>1. i \in Nat /\ j \in Nat /\ k \in Nat
  BY Rows
<1>2. /\ entries[i].score \in Nat /\ entries[i].createdAt \in Nat
      /\ entries[j].score \in Nat /\ entries[j].createdAt \in Nat
      /\ entries[k].score \in Nat /\ entries[k].createdAt \in Nat
  BY Rows
<1>3. ~ListedBefore(i, i)
  BY <1>1, <1>2 DEF ListedBefore
<1>4. ListedBefore(i, j) /\ ListedBefore(j, k) => ListedBefore(i, k)
  BY <1>1, <1>2 DEF ListedBefore
<1>5. i # j => ListedBefore(i, j) \/ ListedBefore(j, i)
  BY <1>1, <1>2 DEF ListedBefore
<1>. QED
  BY <1>3, <1>4, <1>5

Before(S, i) == {j \in S : ListedBefore(j, i)}

\* Who comes later has more before it.
LEMMA BeforeGrows ==
    ASSUME TypeOK, NEW S \in SUBSET Ids, IsFiniteSet(S), NEW i \in S
    PROVE  /\ Cardinality(Before(S, i)) \in Nat
           /\ Cardinality(Before(S, i)) < Cardinality(S)
           /\ Cardinality(S) \in Nat
           /\ \A k \in S : ListedBefore(i, k)
                => Cardinality(Before(S, i)) < Cardinality(Before(S, k))
<1>1. ASSUME NEW T \in SUBSET S, Before(S, i) \subseteq T, i \in T
      PROVE  Cardinality(Before(S, i)) < Cardinality(T)
  <2>1. i \notin Before(S, i)
    BY ListedBeforeOrders DEF Before
  <2>2. IsFiniteSet(T)
    BY FS_Subset
  <2>3. IsFiniteSet(Before(S, i)) /\ Cardinality(Before(S, i)) <= Cardinality(T)
        /\ (Cardinality(T) = Cardinality(Before(S, i)) => T = Before(S, i))
    BY <1>1, <2>2, FS_Subset
  <2>4. Cardinality(Before(S, i)) \in Nat /\ Cardinality(T) \in Nat
    BY <2>2, <2>3, FS_CardinalityType
  <2>. QED
    BY <1>1, <2>1, <2>3, <2>4
<1>2. Before(S, i) \subseteq S
  BY DEF Before
<1>3. IsFiniteSet(Before(S, i))
  BY <1>2, FS_Subset
<1>4. ASSUME NEW k \in S, ListedBefore(i, k)
      PROVE  Cardinality(Before(S, i)) < Cardinality(Before(S, k))
  <2>1. Before(S, k) \subseteq S /\ i \in Before(S, k)
    BY <1>4 DEF Before
  <2>2. Before(S, i) \subseteq Before(S, k)
    BY <1>4, ListedBeforeOrders DEF Before
  <2>. QED
    BY <1>1, <2>1, <2>2
<1>5. Cardinality(Before(S, i)) < Cardinality(S)
  BY <1>1, <1>2
<1>6. Cardinality(Before(S, i)) \in Nat /\ Cardinality(S) \in Nat
  BY <1>3, FS_CardinalityType
<1>. QED
  BY <1>4, <1>5, <1>6

\* Finitely many things with a place each, no two the same, fill all places.
LEMMA PlacesAreFilled ==
    ASSUME NEW S, IsFiniteSet(S), NEW place \in [S -> 1..Cardinality(S)],
           \A i, j \in S : place[i] = place[j] => i = j,
           NEW n \in 1..Cardinality(S)
    PROVE  \E i \in S : place[i] = n
<1>. DEFINE P == 1..Cardinality(S)
<1>1. Cardinality(S) \in Nat
  BY FS_CardinalityType
<1>2. IsFiniteSet(P) /\ Cardinality(P) = Cardinality(S)
  BY <1>1, FS_Interval
<1>. HIDE DEF P
<1>3. place \in Injection(S, P)
  BY Fun_IsInj DEF P
<1>4. place \in Surjection(S, P)
  BY <1>2, <1>3, FS_Injection
<1>5. \A t \in P : \E s \in S : place[s] = t
  BY <1>4, Fun_SurjectionProperties
<1>. QED
  BY <1>5 DEF P

(***************************************************************************)
(* The ranking lists every shown row, at the place that counts the shown   *)
(* rows before it.                                                         *)
(***************************************************************************)
LEMMA Ranked ==
    ASSUME TypeOK, NEW b
    PROVE  LET shown == Shown(b)
               N == Cardinality(shown)
           IN  /\ N \in Nat /\ N <= Len(entries)
               /\ shown \subseteq OnBoard(b) /\ shown \subseteq Ids /\ IsFiniteSet(shown)
               /\ DOMAIN Ranking(b) = 1..N /\ Len(Ranking(b)) = N
               /\ \A n \in 1..N :
                    /\ Ranking(b)[n] \in shown
                    /\ n = 1 + Cardinality(Before(shown, Ranking(b)[n]))
<1>. DEFINE shown == Shown(b)
            N == Cardinality(shown)
            place == [i \in shown |-> 1 + Cardinality({j \in shown : ListedBefore(j, i)})]
<1>1. shown \subseteq OnBoard(b) /\ shown \subseteq Ids
  BY DEF Shown, OnBoard
<1>2. Ids = 1..Len(entries) /\ Len(entries) \in Nat
  BY BoardsAreFinite
<1>3. IsFiniteSet(Ids) /\ Cardinality(Ids) = Len(entries)
  BY <1>2, FS_Interval
<1>4. IsFiniteSet(shown) /\ N <= Len(entries)
  BY <1>1, <1>3, FS_Subset
<1>5. N \in Nat
  BY <1>4, FS_CardinalityType
<1>6. \A i \in shown : place[i] = 1 + Cardinality(Before(shown, i))
  BY DEF Before
<1>. HIDE DEF shown
<1>7. place \in [shown -> 1..N]
  <2>1. \A i \in shown : place[i] \in 1..N
    BY <1>1, <1>4, <1>5, <1>6, BeforeGrows
  <2>. QED
    BY <2>1
<1>8. \A i, j \in shown : place[i] = place[j] => i = j
  <2>. SUFFICES ASSUME NEW i \in shown, NEW j \in shown, i # j
                PROVE  place[i] # place[j]
    OBVIOUS
  <2>1. ListedBefore(i, j) \/ ListedBefore(j, i)
    BY <1>1, ListedBeforeOrders
  <2>2. /\ Cardinality(Before(shown, i)) \in Nat /\ Cardinality(Before(shown, j)) \in Nat
        /\ Cardinality(Before(shown, i)) # Cardinality(Before(shown, j))
    BY <1>1, <1>4, <2>1, BeforeGrows
  <2>. QED
    BY <1>6, <2>2
<1>9. Ranking(b) = [n \in 1..N |-> CHOOSE i \in shown : place[i] = n]
  BY DEF Ranking, shown
<1>. HIDE DEF place
<1>10. ASSUME NEW n \in 1..N
       PROVE  Ranking(b)[n] \in shown /\ place[Ranking(b)[n]] = n
  <2>1. \E i \in shown : place[i] = n
    BY <1>4, <1>7, <1>8, PlacesAreFilled
  <2>2. Ranking(b)[n] = CHOOSE i \in shown : place[i] = n
    BY <1>9
  <2>. QED
    BY <2>1, <2>2
<1>11. DOMAIN Ranking(b) = 1..N /\ Len(Ranking(b)) = N
  BY <1>5, <1>9
<1>. QED
  BY <1>1, <1>4, <1>5, <1>6, <1>10, <1>11 DEF shown

-----------------------------------------------------------------------------
(***************************************************************************)
(* The two rankings.                                                       *)
(***************************************************************************)

LEMMA MinIsLess ==
    ASSUME NEW x \in Nat, NEW y \in Nat
    PROVE  /\ Min({x, y}) = IF x <= y THEN x ELSE y
           /\ Min({x, y}) \in Nat
<1>1. PICK m \in {x, y} : \A z \in {x, y} : m <= z
  <2>1. CASE x <= y
    BY <2>1
  <2>2. CASE ~(x <= y)
    BY <2>2
  <2>. QED
    BY <2>1, <2>2
<1>2. Min({x, y}) \in {x, y} /\ \A z \in {x, y} : Min({x, y}) <= z
  BY <1>1 DEF Min
<1>. QED
  BY <1>2

\* How many rows of a ranking of N rows the first k pages hold.
Through(N, k, perPage) == IF k * perPage <= N THEN k * perPage ELSE N

\* The first m rows of a ranking, each with its place.
Numbered(ranking, m) == [n \in 1..m |-> [id |-> ranking[n], rank |-> n]]

(***************************************************************************)
(* A page holds the rows after those of the pages before it.               *)
(***************************************************************************)
LEMMA PageRows ==
    ASSUME NEW ranking, NEW N \in Nat, DOMAIN ranking = 1..N, Len(ranking) = N,
           NEW page \in Nat \ {0}, NEW perPage \in Nat,
           NEW from \in Nat, from = Through(N, page - 1, perPage),
           NEW to \in Nat, to = Through(N, page, perPage)
    PROVE  /\ from <= to /\ to <= N
           /\ DOMAIN Page(ranking, page, perPage) = 1..(to - from)
           /\ \A n \in 1..(to - from) :
                Page(ranking, page, perPage)[n] = [id |-> ranking[from + n], rank |-> from + n]
<1>1. PICK offset \in Nat : offset = (page - 1) * perPage
  OBVIOUS
<1>2. page * perPage = offset + perPage
  BY <1>1
<1>3. /\ from = IF offset <= N THEN offset ELSE N
      /\ to = IF offset + perPage <= N THEN offset + perPage ELSE N
  BY <1>1, <1>2 DEF Through
<1>4. Min({offset + perPage, N}) = to
  BY <1>3, MinIsLess
<1>. DEFINE rows == SubSeq(ranking, offset + 1, to)
<1>5. /\ DOMAIN rows = 1..(to - offset)
      /\ \A n \in 1..(to - offset) : rows[n] = ranking[offset + n]
  <2>1. rows = [n \in 1..(to - (offset + 1) + 1) |-> ranking[n + (offset + 1) - 1]]
    OBVIOUS
  <2>2. to - (offset + 1) + 1 = to - offset
    OBVIOUS
  <2>3. \A n \in 1..(to - offset) : n + (offset + 1) - 1 = offset + n
    OBVIOUS
  <2>. QED
    BY <2>1, <2>2, <2>3
<1>. HIDE DEF rows
<1>6. Page(ranking, page, perPage) = [n \in DOMAIN rows |-> [id |-> rows[n], rank |-> offset + n]]
  <2>1. Min({offset + perPage, Len(ranking)}) = to
    BY <1>4
  <2>. QED
    BY <1>1, <2>1 DEF Page, Offset, rows
<1>7. DOMAIN Page(ranking, page, perPage) = 1..(to - offset)
  BY <1>5, <1>6
<1>8. ASSUME NEW n \in 1..(to - offset)
      PROVE  Page(ranking, page, perPage)[n] = [id |-> ranking[offset + n], rank |-> offset + n]
  BY <1>5, <1>6
<1>9. CASE offset <= N
  BY <1>3, <1>7, <1>8, <1>9
<1>10. CASE ~(offset <= N)
  <2>1. from = N /\ to = N /\ 1..(to - offset) = {} /\ 1..(to - from) = {}
    BY <1>3, <1>10
  <2>. QED
    BY <1>7, <2>1
<1>. QED
  BY <1>9, <1>10

\* The first page is the ranking up to its last row, each with its place.
LEMMA FirstPage ==
    ASSUME NEW ranking, NEW N \in Nat, DOMAIN ranking = 1..N, Len(ranking) = N,
           NEW perPage \in Nat
    PROVE  /\ DOMAIN Page(ranking, 1, perPage) \subseteq 1..N
           /\ \A n \in DOMAIN Page(ranking, 1, perPage) :
                Page(ranking, 1, perPage)[n] = [id |-> ranking[n], rank |-> n]
<1>1. Through(N, 1 - 1, perPage) = 0 /\ 1 \in Nat \ {0}
  BY DEF Through
<1>2. PICK to \in Nat : to = Through(N, 1, perPage)
  BY DEF Through
<1>3. /\ to <= N /\ DOMAIN Page(ranking, 1, perPage) = 1..(to - 0)
      /\ \A n \in 1..(to - 0) :
           Page(ranking, 1, perPage)[n] = [id |-> ranking[0 + n], rank |-> 0 + n]
  BY <1>1, <1>2, PageRows
<1>4. to - 0 = to /\ 1..to \subseteq 1..N /\ \A n \in 1..to : 0 + n = n
  BY <1>3
<1>. QED
  BY <1>3, <1>4

\* While ties were inserted in order, both rankings put the same rows first.
LEMMA SameBetter ==
    ASSUME TypeOK, NEW b, TiesInOrder(b), NEW i \in OnBoard(b), NEW id \in OnBoard(b)
    PROVE  ListedBefore(i, id) <=> \/ entries[i].score > entries[id].score
                                   \/ entries[i].score = entries[id].score /\ i < id
<1>1. i \in Ids /\ id \in Ids
  BY DEF OnBoard
<1>2. /\ i \in Nat /\ id \in Nat
      /\ entries[i].score \in Nat /\ entries[i].createdAt \in Nat
      /\ entries[id].score \in Nat /\ entries[id].createdAt \in Nat
  BY <1>1, Rows
<1>3. /\ i < id /\ entries[i].score = entries[id].score
           => entries[i].createdAt <= entries[id].createdAt
      /\ id < i /\ entries[id].score = entries[i].score
           => entries[id].createdAt <= entries[i].createdAt
  BY DEF TiesInOrder
<1>4. i = id \/ i < id \/ id < i
  BY <1>2
<1>. QED
  BY <1>2, <1>3, <1>4 DEF ListedBefore

\* The better rows of a board are those shown and those hidden.
LEMMA RankSplits ==
    ASSUME TypeOK, NEW b, TiesInOrder(b), NEW id \in OnBoard(b)
    PROVE  RankOf(b, entries[id].score, id) =
             1 + Cardinality(Before(Shown(b), id))
               + Cardinality(Before(OnBoard(b) \ Shown(b), id))
<1>. DEFINE shown == Before(Shown(b), id)
            hidden == Before(OnBoard(b) \ Shown(b), id)
            better == {i \in OnBoard(b) : \/ entries[i].score > entries[id].score
                                          \/ entries[i].score = entries[id].score /\ i < id}
<1>1. Shown(b) \subseteq OnBoard(b)
  BY DEF Shown
<1>2. better = {i \in OnBoard(b) : ListedBefore(i, id)}
  BY SameBetter
<1>3. better = shown \cup hidden /\ shown \cap hidden = {}
  BY <1>1, <1>2 DEF Before
<1>4. shown \subseteq OnBoard(b) /\ hidden \subseteq OnBoard(b)
  BY <1>1 DEF Before
<1>5. RankOf(b, entries[id].score, id) = 1 + Cardinality(better)
  BY DEF RankOf
<1>. HIDE DEF shown, hidden, better
<1>6. IsFiniteSet(shown) /\ IsFiniteSet(hidden)
  BY <1>4, BoardsAreFinite, FS_Subset
<1>7. Cardinality(better) = Cardinality(shown) + Cardinality(hidden) - Cardinality({})
  BY <1>3, <1>6, FS_Union
<1>8. Cardinality({}) = 0
  BY FS_EmptySet
<1>9. Cardinality(shown) \in Nat /\ Cardinality(hidden) \in Nat
  BY <1>6, FS_CardinalityType
<1>10. RankOf(b, entries[id].score, id) = 1 + Cardinality(shown) + Cardinality(hidden)
  BY <1>5, <1>7, <1>8, <1>9
<1>. QED
  BY <1>10 DEF shown, hidden

LEMMA RanksOnBoard ==
    ASSUME TypeOK, NEW b \in Boards, TiesInOrder(b)
    PROVE  LET page == Page(Ranking(b), 1, MaxEntries)
               hidden == OnBoard(b) \ Shown(b)
           IN  \A n \in DOMAIN page :
                 RankOf(b, entries[page[n].id].score, page[n].id) =
                   page[n].rank + Cardinality({i \in hidden : ListedBefore(i, page[n].id)})
<1>. DEFINE ranking == Ranking(b)
            N == Cardinality(Shown(b))
            page == Page(ranking, 1, MaxEntries)
<1>1. /\ N \in Nat /\ DOMAIN ranking = 1..N /\ Len(ranking) = N
      /\ Shown(b) \subseteq OnBoard(b)
      /\ \A n \in 1..N : /\ ranking[n] \in Shown(b)
                         /\ n = 1 + Cardinality(Before(Shown(b), ranking[n]))
  BY Ranked
<1>. HIDE DEF ranking, N
<1>5. DOMAIN page \subseteq 1..N
      /\ \A n \in DOMAIN page : page[n] = [id |-> ranking[n], rank |-> n]
  BY <1>1, FirstPage, BoardAssumption
<1>. HIDE DEF page
<1>6. ASSUME NEW n \in DOMAIN page
      PROVE  RankOf(b, entries[page[n].id].score, page[n].id) =
               page[n].rank
                 + Cardinality({i \in OnBoard(b) \ Shown(b) : ListedBefore(i, page[n].id)})
  <2>1. n \in 1..N /\ page[n].id = ranking[n] /\ page[n].rank = n
    BY <1>5
  <2>2. PICK id : id = page[n].id
    OBVIOUS
  <2>3. id \in OnBoard(b) /\ page[n].rank = 1 + Cardinality(Before(Shown(b), id))
    BY <1>1, <2>1, <2>2
  <2>4. RankOf(b, entries[id].score, id) =
          1 + Cardinality(Before(Shown(b), id))
            + Cardinality(Before(OnBoard(b) \ Shown(b), id))
    BY <2>3, RankSplits
  <2>5. Before(OnBoard(b) \ Shown(b), id)
          = {i \in OnBoard(b) \ Shown(b) : ListedBefore(i, id)}
    BY DEF Before
  <2>. QED
    BY <2>2, <2>3, <2>4, <2>5
<1>. QED
  BY <1>6 DEF page, ranking

(***************************************************************************)
(* The rank a POST or a PUT counts is the one GET lists plus the better    *)
(* entries of deleted players, on every board whose ties were inserted in  *)
(* the order of their times (compute_rank, list_entries).                  *)
(***************************************************************************)
THEOREM RankingsAgree == Spec => []RanksAgree
<1>1. TypeOK => RanksAgree
  BY RanksOnBoard DEF RanksAgree
<1>. QED
  BY <1>1, TypeInvariance, PTL

-----------------------------------------------------------------------------
(***************************************************************************)
(* The pages.  FlattenSeq recurses on the pages already joined; what it    *)
(* joins up to each page is stated as a function, which solves that recur- *)
(* sion, and the recursion has one solution: two that differ would differ  *)
(* first at some page, after one on which they agree.                      *)
(***************************************************************************)

\* A set of numbers has a least one.
LEMMA LeastNat ==
    ASSUME NEW T \in SUBSET Nat, T # {}
    PROVE  \E x \in T : \A y \in T : x <= y
<1>1. \E x \in T : \A y \in T : ~ (<<y, x>> \in OpToRel(<, Nat))
  BY WFMin, NatLessThanWellFounded
<1>2. PICK x \in T : \A y \in T : ~ (<<y, x>> \in OpToRel(<, Nat))
  BY <1>1
<1>3. ASSUME NEW y \in T PROVE x <= y
  <2>1. ~ (<<y, x>> \in OpToRel(<, Nat))
    BY <1>2
  <2>2. y \in Nat /\ x \in Nat
    OBVIOUS
  <2>3. ~ (y < x)
    BY <2>1, <2>2 DEF OpToRel
  <2>. QED
    BY <2>2, <2>3
<1>. QED
  BY <1>3

\* The function FlattenSeq recurses on.
Flattening(seqs, K, f) ==
    f = [i \in 1..K |-> IF i = 1 THEN seqs[i] ELSE f[i-1] \o seqs[i]]

\* The recursion has one solution.
LEMMA OneFlattening ==
    ASSUME NEW seqs, NEW K \in Nat, NEW f, NEW g,
           Flattening(seqs, K, f), Flattening(seqs, K, g)
    PROVE  f = g
<1>. DEFINE bad == {i \in 1..K : f[i] # g[i]}
<1>1. ASSUME bad # {} PROVE FALSE
  <2>1. bad \in SUBSET Nat
    OBVIOUS
  <2>. HIDE DEF bad
  <2>2. PICK m \in bad : \A y \in bad : m <= y
    BY <1>1, <2>1, LeastNat
  <2>3. m \in 1..K /\ f[m] # g[m]
    BY DEF bad
  <2>4. m # 1
    BY <2>3 DEF Flattening
  <2>5. m - 1 \in 1..K /\ ~ (m <= m - 1)
    BY <2>3, <2>4
  <2>6. f[m - 1] = g[m - 1]
    BY <2>2, <2>5 DEF bad
  <2>7. f[m] = f[m-1] \o seqs[m] /\ g[m] = g[m-1] \o seqs[m]
    BY <2>3, <2>4 DEF Flattening
  <2>. QED
    BY <2>3, <2>6, <2>7
<1>2. \A i \in 1..K : f[i] = g[i]
  BY <1>1
<1>. QED
  BY <1>2 DEF Flattening

\* So FlattenSeq is any solution's last value.
LEMMA Flattens ==
    ASSUME NEW seqs, NEW K \in Nat \ {0}, Len(seqs) = K, NEW w, Flattening(seqs, K, w)
    PROVE  FlattenSeq(seqs) = w[K]
<1>. DEFINE F == CHOOSE f : f = [i \in 1..Len(seqs) |->
                                    IF i = 1 THEN seqs[i] ELSE f[i-1] \o seqs[i]]
<1>1. FlattenSeq(seqs) = F[Len(seqs)]
  BY DEF FlattenSeq
<1>2. \E f : f = [i \in 1..Len(seqs) |-> IF i = 1 THEN seqs[i] ELSE f[i-1] \o seqs[i]]
  BY DEF Flattening
<1>3. F = [i \in 1..Len(seqs) |-> IF i = 1 THEN seqs[i] ELSE F[i-1] \o seqs[i]]
  BY <1>2
<1>. HIDE DEF F
<1>4. Flattening(seqs, K, F)
  BY <1>3 DEF Flattening
<1>5. F = w
  BY <1>4, OneFlattening
<1>. QED
  BY <1>1, <1>5

\* A function on 1..n is a sequence of its values.
LEMMA IsSeq ==
    ASSUME NEW n \in Nat, NEW S, NEW f \in [1..n -> S]
    PROVE  f \in Seq(S) /\ Len(f) = n
<1>1. f \in UNION {[1..m -> S] : m \in Nat}
  OBVIOUS
<1>2. f \in Seq(S)
  BY <1>1, SeqDef
<1>. QED
  BY <1>2, LenProperties

\* A sequence cut in two is put together again.
LEMMA Joins ==
    ASSUME NEW S, NEW all \in Seq(S), NEW a \in 0..Len(all), NEW next \in Seq(S),
           Len(next) = Len(all) - a,
           \A n \in 1..Len(next) : next[n] = all[a + n],
           NEW first \in Seq(S), Len(first) = a, \A n \in 1..a : first[n] = all[n]
    PROVE  first \o next = all
<1>0. Len(all) \in Nat /\ a \in Nat
  BY LenProperties
<1>1. /\ first \o next \in Seq(S)
      /\ Len(first \o next) = a + Len(next)
      /\ \A i \in 1..(a + Len(next)) :
            (first \o next)[i] = IF i <= a THEN first[i] ELSE next[i - a]
  BY ConcatProperties
<1>2. a + Len(next) = Len(all)
  BY <1>0
<1>3. ASSUME NEW i \in 1..Len(all) PROVE (first \o next)[i] = all[i]
  <2>1. CASE i <= a
    <3>1. i \in 1..a
      BY <1>0, <2>1
    <3>. QED
      BY <1>1, <1>2, <2>1, <3>1
  <2>2. CASE ~(i <= a)
    <3>1. i - a \in 1..Len(next) /\ a + (i - a) = i
      BY <1>0, <2>2
    <3>2. next[i - a] = all[i]
      BY <3>1
    <3>. QED
      BY <1>1, <1>2, <2>2, <3>2
  <2>. QED
    BY <2>1, <2>2
<1>. QED
  BY <1>1, <1>2, <1>3, SeqEqual

\* Joined to the pages before it, a page makes the ranking up to its end.
LEMMA PageContinues ==
    ASSUME NEW ranking, NEW N \in Nat, DOMAIN ranking = 1..N, Len(ranking) = N,
           NEW page \in Nat \ {0}, NEW perPage \in Nat
    PROVE  Numbered(ranking, Through(N, page - 1, perPage)) \o Page(ranking, page, perPage)
             = Numbered(ranking, Through(N, page, perPage))
<1>1. PICK from \in Nat : from = Through(N, page - 1, perPage)
  BY DEF Through
<1>2. PICK to \in Nat : to = Through(N, page, perPage)
  BY DEF Through
<1>. DEFINE first == Numbered(ranking, from)
            next == Page(ranking, page, perPage)
            all == Numbered(ranking, to)
<1>3. /\ from <= to /\ to <= N
      /\ DOMAIN next = 1..(to - from)
      /\ \A n \in 1..(to - from) : next[n] = [id |-> ranking[from + n], rank |-> from + n]
  BY <1>1, <1>2, PageRows
<1>4. PICK S : \A n \in 1..to : [id |-> ranking[n], rank |-> n] \in S
  <2>1. \A n \in 1..to : [id |-> ranking[n], rank |-> n]
                           \in {[id |-> ranking[m], rank |-> m] : m \in 1..to}
    OBVIOUS
  <2>. QED
    BY <2>1
<1>5. first \in [1..from -> S] /\ \A n \in 1..from : first[n] = [id |-> ranking[n], rank |-> n]
  BY <1>3, <1>4 DEF Numbered
<1>6. all \in [1..to -> S] /\ \A n \in 1..to : all[n] = [id |-> ranking[n], rank |-> n]
  BY <1>4 DEF Numbered
<1>7. to - from \in Nat /\ \A n \in 1..(to - from) : from + n \in 1..to
  BY <1>3
<1>8. next \in [1..(to - from) -> S]
  <2>1. next = [n \in DOMAIN next |-> next[n]]
    BY DEF Page
  <2>2. \A n \in 1..(to - from) : next[n] \in S
    BY <1>3, <1>4, <1>7
  <2>. QED
    BY <1>3, <2>1, <2>2
<1>. HIDE DEF first, next, all
<1>9. first \in Seq(S) /\ Len(first) = from
  BY <1>5, IsSeq
<1>10. next \in Seq(S) /\ Len(next) = to - from
  BY <1>7, <1>8, IsSeq
<1>11. all \in Seq(S) /\ Len(all) = to
  BY <1>6, IsSeq
<1>12. \A n \in 1..(to - from) : next[n] = all[from + n]
  BY <1>3, <1>6, <1>7
<1>13. \A n \in 1..from : first[n] = all[n]
  BY <1>3, <1>5, <1>6
<1>14. from \in 0..Len(all)
  BY <1>3, <1>11
<1>15. first \o next = all
  BY <1>9, <1>10, <1>11, <1>12, <1>13, <1>14, Joins
<1>. QED
  BY <1>1, <1>2, <1>15 DEF first, next, all

\* GET's pages, one after another from page zero, make the whole ranking.
LEMMA PagesJoin ==
    ASSUME NEW ranking, NEW N \in Nat, DOMAIN ranking = 1..N, Len(ranking) = N,
           N <= MaxEntries, NEW perPage \in 1..MaxPerPage
    PROVE  FlattenSeq([n \in 1..MaxEntries + 1 |-> GetLeaderboard(ranking, n - 1, perPage)])
             = Numbered(ranking, N)
<1>. DEFINE K == MaxEntries + 1
            pages == [n \in 1..K |-> GetLeaderboard(ranking, n - 1, perPage)]
            read == [i \in 1..K |-> Numbered(ranking, Through(N, i - 1, perPage))]
<1>1. K \in Nat \ {0} /\ K - 1 = MaxEntries /\ MaxEntries \in Nat /\ perPage \in Nat \ {0}
  BY BoardAssumption
<1>. HIDE DEF K
<1>2. Len(pages) = K
  BY <1>1
<1>3. read[1] = pages[1]
  <2>1. 1 \in 1..K /\ 1 - 1 = 0
    BY <1>1
  <2>2. pages[1] = <<>>
    BY <2>1 DEF GetLeaderboard
  <2>3. Through(N, 0, perPage) = 0
    BY <1>1 DEF Through
  <2>4. Numbered(ranking, 0) = <<>>
    BY DEF Numbered
  <2>. QED
    BY <2>1, <2>2, <2>3, <2>4
<1>4. ASSUME NEW i \in 1..K, i # 1
      PROVE  read[i] = read[i - 1] \o pages[i]
  <2>1. i - 1 \in Nat \ {0} /\ i - 1 \in 1..K
    BY <1>1, <1>4
  <2>2. pages[i] = Page(ranking, i - 1, perPage)
    BY <2>1 DEF GetLeaderboard
  <2>3. Numbered(ranking, Through(N, (i - 1) - 1, perPage)) \o Page(ranking, i - 1, perPage)
          = Numbered(ranking, Through(N, i - 1, perPage))
    BY <1>1, <2>1, PageContinues
  <2>. QED
    BY <2>1, <2>2, <2>3
<1>5. Flattening(pages, K, read)
  BY <1>3, <1>4 DEF Flattening
<1>6. FlattenSeq(pages) = read[K]
  <2>. HIDE DEF pages, read
  <2>. QED
    BY <1>1, <1>2, <1>5, Flattens
<1>7. Through(N, MaxEntries, perPage) = N
  <2>1. MaxEntries * perPage >= MaxEntries
    BY <1>1
  <2>2. MaxEntries * perPage \in Nat
    BY <1>1
  <2>. QED
    BY <1>1, <2>1, <2>2 DEF Through
<1>. QED
  BY <1>1, <1>6, <1>7 DEF K

\* The table stays within its bound, so the pages read reach its end.
TableFits == Len(entries) <= MaxEntries

LEMMA TableIsBounded == Spec => [](TypeOK /\ TableFits)
<1>1. Init => TableFits
  BY BoardAssumption DEF Init, TableFits
<1>2. TypeOK /\ TableFits /\ [Next]_vars => TableFits'
  <2>. SUFFICES ASSUME TypeOK, Len(entries) <= MaxEntries, [Next]_vars
                PROVE  Len(entries') <= MaxEntries
    BY DEF TableFits
  <2>1. entries \in Seq(Entry) /\ Len(entries) \in Nat /\ MaxEntries \in Nat
    BY BoardAssumption, LenProperties DEF TypeOK
  <2>2. ASSUME NEW r \in Requests, NEW score \in Scores, NEW props \in Props \cup {NoProps},
               InsertEntry(r, score, props)
        PROVE  Len(entries') <= MaxEntries
    <3>1. PICK e : entries' = Append(entries, e) /\ Len(entries) < MaxEntries
      BY <2>2 DEF InsertEntry
    <3>2. Len(Append(entries, e)) = Len(entries) + 1
      BY <2>1
    <3>. QED
      BY <2>1, <3>1, <3>2
  <2>3. ASSUME NEW r \in Requests, NEW score \in Scores, NEW props \in Props \cup {NoProps},
               UpdateEntry(r, score, props)
        PROVE  Len(entries') <= MaxEntries
    <3>1. Len(entries') = Len(entries)
      BY <2>1, <2>3 DEF UpdateEntry
    <3>. QED
      BY <3>1
  <2>4. ASSUME entries' = entries PROVE Len(entries') <= MaxEntries
    BY <2>4
  <2>. QED
    BY <2>2, <2>3, <2>4 DEF Next, Begin, Continue, Submit, Update, Resolve, InsertDuplicate,
                            SelectEntry, ComputeRank, Fail, SoftDelete, Tick, vars
<1>. QED
  BY <1>1, <1>2, TypeInvariance, PTL DEF Spec

(***************************************************************************)
(* Read one after another, the pages of any accepted size are the whole    *)
(* ranking, no entry twice and none left out, numbered from 1              *)
(* (list_leaderboard, list_entries).                                       *)
(***************************************************************************)
THEOREM PagesCover == Spec => []PagesTile
<1>1. TypeOK /\ TableFits => PagesTile
  <2>. SUFFICES ASSUME TypeOK, Len(entries) <= MaxEntries,
                       NEW b \in Boards, NEW perPage \in 1..MaxPerPage
                PROVE  [n \in DOMAIN Ranking(b) |-> [id |-> Ranking(b)[n], rank |-> n]]
                         = FlattenSeq([n \in 1..MaxEntries + 1 |->
                                          GetLeaderboard(Ranking(b), n - 1, perPage)])
    BY DEF PagesTile, TableFits
  <2>1. PICK N : N = Cardinality(Shown(b))
    OBVIOUS
  <2>2. PICK ranking : ranking = Ranking(b)
    OBVIOUS
  <2>3. N \in Nat /\ DOMAIN ranking = 1..N /\ Len(ranking) = N
    BY <2>1, <2>2, Ranked
  <2>4. N <= MaxEntries
    <3>1. /\ Shown(b) \subseteq 1..Len(entries)
          /\ Len(entries) \in Nat
      BY BoardsAreFinite DEF Shown, OnBoard
    <3>2. PICK len \in Nat : len = Len(entries)
      BY <3>1
    <3>3. IsFiniteSet(1..len) /\ Cardinality(1..len) = len
      BY FS_Interval
    <3>4. N <= len
      BY <2>1, <3>1, <3>2, <3>3, FS_Subset
    <3>. QED
      BY <2>3, <3>2, <3>4, BoardAssumption
  <2>5. FlattenSeq([n \in 1..MaxEntries + 1 |-> GetLeaderboard(ranking, n - 1, perPage)])
          = Numbered(ranking, N)
    BY <2>3, <2>4, PagesJoin
  <2>. QED
    BY <2>2, <2>3, <2>5 DEF Numbered
<1>. QED
  BY <1>1, TableIsBounded, PTL

=============================================================================
