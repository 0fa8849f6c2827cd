# Playzoid-Server: a TLA+ verification project

TLA+ models of the concurrent parts of Playzoid-Server, TLC configurations that
check them on small instances, and theorems about them checked by TLAPS. The
code referred to is under `src/src/`, its documents under `src/docs/`.

1. [The system](#1-the-system)
2. [Modules](#2-modules)
3. [Runs](#3-runs)
4. [Bounds](#4-bounds)
5. [Fairness](#5-fairness)
6. [What is proved](#6-what-is-proved)
7. [Disagreements between code and documents](#7-disagreements-between-code-and-documents)
8. [What is not modelled](#8-what-is-not-modelled)
9. [Plan](#9-plan)

## 1. The system

An actix-web game backend: REST handlers over MySQL with a Redis cache in front
of the player profiles, and a WebSocket endpoint whose connections talk to two
in-process hubs.

| Component | State | Operations | Talks to |
|---|---|---|---|
| Socket tickets (`sockets/tickets.rs`, `api/socket_ticket.rs`) | `TICKETS`: ticket -> alias, in memory, behind a mutex | create, verify (revoke: tests only) | upgrade calls verify |
| Connection actor (`sockets/ws.rs`) | `alias_id`, `parent_account_id`, `conn_key`, `identified` | upgrade (`ws_index`), `started`, one handler per frame, `stopping` | `do_send` to both hubs; receives their announcements |
| Participant groups (`sockets/groups.rs`) | none | parent lookup, group key | called by the upgrade and the channel hub |
| Presence hub (`sockets/presence.rs`) | alias -> connections | join, leave, prune at the cap, broadcast | sends to every registered connection |
| Channel hub (`sockets/channels.rs`) | channel -> group -> alias -> connections, and the reverse index connection -> memberships | join, leave, chat message, leave-all, two prunes, two fan-outs | sends to the channel's connections |
| Player accounts (`services/players.rs`, `api/players.rs`, `api/auth.rs`) | `players` table | register, login, get, update, soft delete, create and list subaccounts | MySQL, then the cache |
| Profile cache (`services/cache.rs`) | Redis `player:<id>` with a TTL | get, set, invalidate | called by the handlers of accounts |
| Leaderboards (`services/leaderboards.rs`, `api/leaderboards.rs`) | `leaderboards`, `leaderboard_entries` | submit, update, rank, page | MySQL |
| Game saves (`services/saves.rs`, `api/saves.rs`) | `game_saves` | create, list, get, delete | MySQL |
| Passwords and tokens (`services/auth.rs`, `middleware/auth.rs`) | none in the server: a token is signed, not stored | hash, verify, issue, check the bearer | called by the handlers |
| Start-up (`main.rs`, `config.rs`, `db.rs`, `api/healthz.rs`) | the JWT secret and the pools, fixed for the life of the process | read the environment, build pools, bind the port | handed to every handler |

Where the difficulty is, and what makes each part correct:

- **Connections and hubs.** Connections run on all workers' threads and only
  append to a hub's FIFO mailbox; a hub handles one message at a time. A
  connection may stop at any moment with its requests still queued, so a hub
  handles joins of connections that are already dead. What a dead connection
  leaves in the maps must go away again, exactly once announced, and nothing a
  live one relies on may go with it. `Recipient::connected()`, on which the
  prunes decide, stays true for a while after `stopping()`.
- **Two maps in the channel hub.** Each membership is held twice and five
  handlers and two prunes update them; the reverse index must never miss a
  membership.
- **Groups.** A participant of a channel is an account with its subaccounts:
  announcements are due for the group's first and last connection, chat goes
  to connections.
- **Two hubs.** `stopping()` sends to each hub in turn; nothing orders what one
  hub does against the other.
- **The upgrade** verifies a ticket, awaits a query, and goes on with what it
  verified before. The query may fail for one connection and not for another of
  the same account; a client never says itself whom it takes part as.
- **Accounts.** A handler is a chain of separate queries and cache calls with an
  await between any two; there are no transactions. Table and cache can
  disagree, read-modify-write can lose updates, and a handler can end between
  a commit and its invalidation. A deleted account must stay deleted and must
  stop being served.
- **Leaderboards.** Resolve, write, then count the rank in another query. There
  are two rankings, a sorted page and a count, which must agree; a PUT goes by
  an id and by props it read one await earlier.
- **Saves** have the same shape: compare the player named with the player of
  the token, resolve the owner, then query the saves; a create inserts, tries
  again once after a UUID collision, and reads back by id alone. Whatever
  happens in between, a player must see only that player's own saves, and a save
  must go by its owner's DELETE only.
- **Sessions** are nowhere recorded. A token holds until it expires or the
  server is started with another secret, whatever becomes of the account; a
  login may issue one after the account was deleted. What must be true is that
  no login, token or save handler of a deleted account is left in the end.

## 2. Modules

| Module | Models | Notes |
|---|---|---|
| `WsConn` | what is common to all socket modules: a connection's phase, ticketed alias, resolved parent, `identified`, and the steps that change them | `phase` is `idle`, `open`, `stopping` (`stopping()` has run, `connected()` still true), `stopped` (context dropped). A `conn_key` is never reused, so an element of `Conns` lives once. |
| `Announcer` | abstract specification: subjects arrive and depart, and every listener hears it in the same step | no mailbox, no connections, no prune |
| `PresenceHub` | the presence hub with its connections | `mailbox` holds `JoinPresence` / `LeavePresence`; `conns` is the registry as a set of (alias, connection) pairs; `told` is a history of what each open connection was last sent |
| `ChannelHub` | the channel hub with its connections | `channels` and `connIndex` are the two maps as sets of leaves; `wanted`, `told` and `chat` are histories |
| `Sockets` | the whole socket subsystem | tickets, the upgrade in two steps around its await, `stopping()` in two sends, and both hubs, instantiated as `P` and `C`, with a mailbox each |
| `PlayerProfiles` | the `players` table, the Redis cache and the handlers | one step per query or cache call; `req` is where each handler stands and what it holds; `lateFill` is a history of entries that were out of date when stored |
| `Leaderboards` | `leaderboard_entries` and its handlers | one step per query; a row's id is its place in `entries`; `req` is where each handler stands; `Page` and `RankOf` are the two rankings; `clock` is the database's, in seconds |
| `Sessions` | the life of the process, accounts, logins and tokens | start-up in the order of `main()`; `Crash` ends it at any step; `tokens` is what clients hold, since the server keeps nothing |
| `Saves` | `game_saves` and its handlers | a handler begins with the answer of its owner query, then one step per query; `answer` is a history of what was just answered and to whom |
| `Backend` | sessions and saves in one server, instantiated as `A` and `S` | a save route runs on behalf of the player a live token names; both share `account`, and a crash takes the handlers of both |
| `MC...` | model values for TLC | |
| `WsConnProofs`, `PresenceHubProofs`, `ChannelHubProofs`, `ChannelNewsProofs`, `SocketsProofs`, `PlayerProfilesProofs`, `LeaderboardsProofs`, `BackendProofs` | the theorems of section 6 | `WsConnProofs` has the lemmas about connections that the hubs share; `ChannelNewsProofs` builds on `ChannelHubProofs`, `SocketsProofs` instantiates both hubs' proofs |

How state and actions correspond to the code:

- *Hub handlers* are one action each, the whole `handle` with its prune, its
  registration and its fan-out, as actix runs them. `do_send` is an `Append`;
  the messages a handler needs from its sender are the record's fields.
- *Maps of maps* are sets of leaves. The code keeps no empty inner map, so the
  set determines the maps.
- *Frames.* A frame that is answered with an error changes nothing and has no
  action; a frame that is accepted sends one message.
- *A step that a handler can be interrupted at* (an await) ends an action. A
  query and the decision on its answer are one action.
- *Data.* A view is (username, e-mail, parent); timestamps and the password hash
  play no part in any property. Uniqueness, which a property depends on, is
  modelled as the table's keys have it: deleted rows keep their names. No code
  suspends a player, and no filter tells `suspended` from `active`, so a row
  is `active` or `deleted`.
- *A GET of a board* is one query and changes nothing: it is the operator
  `GetLeaderboard`, which clamps the page number and size and reads a `Page`,
  and properties speak of what it would return in each state. A `created_at` is
  taken when the INSERT starts, its id when the row is written, so the model
  chooses the time between the handler's resolution and the write. A body's
  score and props are chosen at the step that first uses them.
- *The list of subaccounts* looks its parent up and then reads the table: two
  steps of a handler in `PlayerProfiles`, contents left out.
- *A save* is its id and its owner; name, blob, metadata and times are left out,
  and with them the order of a list. An id is a fresh UUID: it names one row
  ever, and `Removed` marks one whose row is gone. That an INSERT meets a stored
  id is still possible (`Collide`), as the code provides for it.
- *Tokens.* A token is (player, secret). `exp` is compared without leeway, so
  expiry is one step that takes the token away.
- *The parent lookup of an upgrade* may always yield none: no pool, no live row,
  or a failed query.

Definitions whose comment begins "Mutation of" are not part of any
specification. They are slips one could make in that definition (a dropped
guard, a forgotten message) and show that the property named for them notices.

## 3. Runs

Passing runs:

| Run | Configuration | Shows |
|---|---|---|
| `presence` | 3 connections, 2 aliases, cap 1, mailbox 2, fair | no leaked entry (`NoLeakedEntry`), no live connection dropped (`LiveStaysRegistered`), news is true (`ToldIsTrue`) and does not flap (`NoFlap`), growth beyond the cap is live (`GrowthBeyondCapIsLive`), the hub implements `Announcer` (`Announces`); a connection that is gone leaves the registry for good (`GoneIsForgotten`), offline news arrives (`OfflineIsTold`) |
| `channels_safety` | 3 connections of an account and its subaccount, 1 channel, cap 1, mailbox 2 | the index covers the registry, nothing leaks, each open connection is where it asked to be (`IntentHonoured`), chat reaches exactly the members, a group that stays is quiet, silent losses come from the chat prune only, each channel implements `Announcer` (a channel's participants and listeners are `Present[ch]` and `Listening[ch]`) |
| `channels_two` | 2 connections, 2 channels, mailbox 1, fair | one `LeaveAllChannels` empties several channels; channels do not mix; gone connections leave both maps for good; requests take effect |
| `sockets` | 2 connections, 2 tickets, an account, its subaccount and a stranger, 1 channel, caps and mailboxes 1 | the composition implements both hub modules; strangers never share a participant group, and only a failed lookup splits a family (`GroupsAreFamilies`); a member of a channel is online or about to be; a hub with nothing left to handle holds exactly what is alive (`SettledHubsAreExact`) |
| `profiles_concurrent` | 2 accounts, 2 names, 3 handlers, no failures | a stale entry has its invalidation on the way or was stored by an overtaken fill; a deletion is final |
| `profiles_liveness` | 1 account, 2 names, 1 e-mail address, 2 handlers that may fail | a deleted account leaves the cache for good; the cache settles |
| `backend` | 2 players, 2 saves, 1 secret, 2 save handlers, 1 login, fair | through deletions, failures, crashes and restarts: a player is answered with that player's own saves only (`AnswersAreOwn`), a save goes by its owner's DELETE only (`SavesKept`), the logins, tokens and save handlers of a deleted account die out for good (`DeletedGoesQuiet`); its tickets and sockets are outside this run |
| `leaderboards` | 3 players, 2 boards, 2 scores, 2 handlers, 3 entries, 2 seconds, pages of at most 2 | pages of every size up to `MaxPerPage` are the whole ranking (`PagesTile`); a counted rank is the listed rank plus the better entries of deleted players, when ties were inserted in order (`RanksAgree`); an answered rank is a place on the board unless another PUT of the same player raised the score (`AnswerFitsBoard`); a PUT writes its own row only (`OwnEntryOnly`) |

Runs that end in a counterexample, one for each entry of section 7:
`ghost_participant`, `deleted_not_cached`, `absent_fields`, `props_kept`.

The socket runs set `CHECK_DEADLOCK FALSE`: each element of `Conns` is one
connection, and a behaviour ends when all have come and gone. So do the
leaderboard runs: once every player is deleted no request is accepted. Symmetry
is over connections, channels, tickets, boards, players and handlers, where no
constant tells them apart; runs that check liveness use none.

## 4. Bounds

- `MaxMailbox` (`MaxPresenceMailbox`, `MaxChannelMailbox`): frames are not sent
  beyond this backlog. `stopping()` is not held back by it, so a leave always
  fits behind what is queued. Two messages suffice for a join, a leave and a
  stranger's request in every order; the composition and the run with two
  channels hold one frame back and still queue the leaves behind it.
- `MaxConnsPerAlias`, `MaxConnsPerMember`: 256 in the code, one or two in the
  runs, so that the prune happens with dead, dying and live connections and
  the cap is exceeded by live ones.
- `Conns`: the number of connections ever made. Two of one group and one
  observer show every announcement, and fill a cap of one with a live, a dying
  and a joining connection.
- `Aliases` and `Tickets` of the composition: an account, its subaccount and an
  unrelated account, so that a pair of connections is of one account, of one
  family or of strangers; two tickets bind a pair to two accounts or, used twice,
  to one.
- `Players`, `Names`, `Requests`: two accounts and two names let a rename free a
  name another account takes; three handlers let a fill, a writer and a
  second writer overlap.
- `MaxEntries`, `MaxSecond`: three entries put a shown, a hidden and a tied entry on
  one board, and two boards side by side; two seconds let a tie be inserted
  against the order of its times.
- `MaxPerPage`: 100 in the code, 2 in the runs: pages of one and of two entries
  split a ranking of three at every place.
- `SaveIds`, `Logins`, `Secrets`: two saves let a create collide and two players
  hold one each; two save handlers let a delete or a second create overlap a
  create; one login overlaps all of them. One secret in the run: it is lost and
  loaded again by a restart, under which old tokens are good again. Under a
  different one they would only be refused, which is as if they had expired;
  the theorems speak of any set of secrets.
- `Puts`: renames only in the concurrent run; renames, an e-mail change and both
  where the two fields matter.

The theorems of section 6 hold for every value of these constants, the bounds
on the mailbox included.

## 5. Fairness

- `WF(HubStep)`: the arbiter that runs a hub keeps polling its mailbox. The hubs
  are started once and nothing in the code stops them.
- `WF(Drop(c))`: a stopped actor's context is dropped by the runtime.
- `WF(Continue(r))`: a handler that has begun is polled, and each query and cache
  call ends in an answer or in an error. A failure is one way to continue, so
  nothing is promised about success.
- `WF(Expire(p))`: `set_player_view` always sets a positive TTL (0 becomes 3600).
- `WF(LoginContinues(h))`, `WF(SaveContinues(r))`: as `Continue`. Failing and
  being dropped are ways to continue.
- `WF(ExpireToken(t))`: time passes, also while no server runs, and every token
  has an `exp`.

Nobody is obliged to restart a server that has died. Clients are never obliged to do anything: not to send, not to close.

## 6. What is proved

`PresenceHubProofs`, for any sets of connections and aliases, any cap and
any backlog:

| Theorem | Statement |
|---|---|
| `TypeInvariance` | `Spec => []TypeOK` |
| `Invariance` | `Spec => []Inv`, the inductive invariant |
| `NoLeak` | `Spec => []NoLeakedEntry` |
| `LiveRegistered` | `Spec => []LiveStaysRegistered` |
| `NewsIsTrue` | `Spec => []ToldIsTrue` |
| `Refinement` | `Spec => Announces`: every initial state and every step maps to `Announcer` |
| `Steady` | `Spec => NoFlap` |
| `CapBoundsTheDead` | `Spec => GrowthBeyondCapIsLive` |

`NoLeakedEntry` is not inductive: handling a join of a connection that is gone
creates an entry, which is harmless only if the leave is still queued. `Inv`
therefore says what the mailbox may hold. Messages are stamped with their
sender's ticketed alias (`MessagesSound`); nothing of a connection stands
behind its leave (`LeaveIsLast`), because `stopping()` is the last thing it
does; and a join that outlives its connection has the leave behind it
(`LateJoinHasLeave`), because a connection that identified sends one. From
these the handlers of both messages preserve `NoLeakedEntry` and
`LiveStaysRegistered`; the prune matters only to the second, and is safe since
it drops stopped connections alone. `ToldIsTrue` needs in addition that an
unregistered connection has been told nothing (`Unheard`). `Steady` looks at
one step: news is of the alias of the message just handled, due only when that
alias had no entry or keeps none, and a registered connection that stays is an
entry before and after. `CapBoundsTheDead` counts entries, so it adds that the
registry is finite; at the cap a join first removes every dead entry, and below
it one join adds one.

`ChannelHubProofs`, for any connections, accounts and channels, any cap and
any backlog:

| Theorem | Statement |
|---|---|
| `TypeInvariance` | `Spec => []TypeOK` |
| `Invariance` | `Spec => []Inv`, the inductive invariant |
| `IndexCovers` | `Spec => []IndexCoversRegistry` |
| `NoLeak` | `Spec => []NoLeakedMembership` |
| `Intent` | `Spec => []IntentHonoured` |

`Inv` has a part for each thing a handler relies on. `MailInv`: a message is
one its sender could have sent, under the identity of its ticket
(`MessagesSound`); nothing of a connection stands behind its `LeaveAllChannels`
(`LeaveIsLast`), and a request that outlives its connection has that message
behind it (`LateRequestHasLeave`). `MapInv`: a leaf is that of an identified
connection under its own account (`LeavesSound`), so a leave finds the leaf the
join made; the index covers the registry; nothing leaks. `LeaveAllChannels` goes
by the index and not by the registry, so `NoLeakedMembership` is inductive only
together with `IndexCoversRegistry`. `WantInv`:
only an open connection wants anything, and what is wanted is the outcome of
its queued requests. The prunes preserve this last part because they take out
stopped connections only, which the proof needs at the cap and at every chat
message.

`ChannelNewsProofs`, on the same invariant:

| Theorem | Statement |
|---|---|
| `Quiet` | `Spec => QuietWhileGroupStays` |
| `SilentLoss` | `Spec => SilentLossIsPrunedByChat` |
| `ChatAudience` | `Spec => []ChatAudienceExact` |
| `Refinement` | `Spec => Announces`, for every channel |

Each step is first summed up, per channel, by what it does to the
participants, to the open members and to what these were told; the theorems
follow from the sums. The refinement needs `Unheard`, that whoever is not an
open member of a channel keeps nothing it was told of it.

`SocketsProofs`, for the whole socket subsystem:

| Theorem | Statement |
|---|---|
| `TypeInvariance`, `Invariance` | `Spec => []TypeOK`, `Spec => []Inv` |
| `PresenceRefinement` | `Spec => ImplementsPresence` |
| `ChannelRefinement` | `Spec => ImplementsChannels` |
| `MembersAreOnline` | `Spec => []MemberIsOnline` |
| `Families` | `Spec => []GroupsAreFamilies` |
| `SettledHubs` | `Spec => []SettledHubsAreExact` |
| `HubPromises` | what the presence and the channel hub promise alone (no leak, nothing live lost, true news, no flapping; index, no leak, intent) holds of both here |

The invariant is about the upgrade. A connection between its ticket and its
database answer is idle still and holds the alias its ticket is bound to
(`UpgradesSound`), tickets are never bound again, and between the two leaves the
actor is stopping (`LeavingSound`). A connection that was started keeps the
account of its ticket, and as parent that account's or none (`IdentitySound`). With it every step maps to a step of either
hub module or stutters; for the channel hub a connection is open until its
second leave (`ChannelPhase`). The hubs' proofs are then instantiated as `PP` and
`CP`, and their invariants hold side by side (`HubsInvariance`). The two
promises across the hubs need both: a member of a channel has identified, and
identifying is what sent its `JoinPresence`, which no leave or prune undoes.
`Families` adds the channel hub's `LeavesSound` to `IdentitySound`: a leaf, of
whichever connection and however late, carries the group of a ticket's account.
`SettledHubs` is what the invariants come to with an empty mailbox: no late
join's leave is outstanding, so nothing of a gone connection is left, and
nothing of a live one is missing.

`PlayerProfilesProofs`, for any accounts, names, bodies and number of
handlers:

| Theorem | Statement |
|---|---|
| `TypeInvariance` | `Spec => []TypeOK` |
| `DeletionIsFinal` | `Spec => DeletedIsFinal` |
| `LateFillsOnly` | `~Faults` implies `Spec => []StaleOnlyByLateFill` |

Type correctness needs to know what a handler holds at each of its steps
(`SoundHandler`): an account that has a row, a view where one will be stored
or written back. Finality follows from the status test in the `UPDATE`.
`LateFillsOnly` is by induction on the same invariant, with each writer's step
either leaving table and entry alone or putting the handler at a step that
leads to an invalidation.

`LeaderboardsProofs`, for any boards, players, scores, props, handlers and bounds:

| Theorem | Statement |
|---|---|
| `TypeInvariance` | `Spec => []TypeOK` |
| `AnswersFit` | `Spec => []AnswerFitsBoard` |
| `Ownership` | `Spec => OwnEntryOnly` |
| `RankingsAgree` | `Spec => []RanksAgree` |
| `PagesCover` | `Spec => []PagesTile` |

`TypeOK` is inductive because it says what row a handler holds
(`SoundHandler`): rows are never removed and keep their board and player, so an
id found by a SELECT stays right. `AnswersFit` then counts: the better entries
are a subset of the board, and one without the handler's own row unless its
score has been raised (`RankIsBounded`, `RankLeavesSelfOut`).

The two rankings meet in `Ranked`: the order of a page is a strict order of
finitely many rows, so counting the rows before each gives every place from 1
on to exactly one row (`BeforeGrows`, `PlacesAreFilled`). While ties were
inserted in order, the better rows `compute_rank` counts are those listed
before (`SameBetter`), and they split into shown and hidden ones. For the pages,
`PageRows` says which rows a page holds; `FlattenSeq`, which joins them,
recurses on the pages read so far. That recursion has one solution, since two
would differ first at some page after one on which they agree
(`OneFlattening`), and the ranking cut off after each page solves it
(`PagesJoin`). It reaches the end because the table stays within `MaxEntries`,
and `MaxEntries` pages of at least one row hold it.

`BackendProofs`, for any players, saves, secrets and numbers of handlers, with
crashes and restarts:

| Theorem | Statement |
|---|---|
| `TypeInvariance` | `Spec => []TypeOK` |
| `Privacy` | `Spec => []AnswersAreOwn` |
| `SavesStay` | `Spec => SavesKept` |

The invariant has a part for each half. A login in hand names a player, and a
process that can hold one has a secret (`LoginsSound`), which types the tokens.
A save handler works for the player of its token, and a create that reads back
holds an id whose row is still its own or has been removed
(`SoundRequest`). That last conjunct is what `ReadBackSave`, which goes by the id
alone, stands on: it is kept because an INSERT takes an id no row has
had. `AnswersAreOwn` speaks of the step just taken and needs no
induction of its own.

The assumptions are the named `ASSUME`s of the modules: sentinels differ from
real values, bounds are naturals, `ParentOf` is a function on aliases.
`HubAssumption` of `Sockets` repeats what the hub modules assume of theirs.

Model-checked only: the liveness properties `GoneIsForgotten`, `OfflineIsTold`,
`IntentTakesEffect`, `DeletedIsForgotten`, `CacheSettles` and `DeletedGoesQuiet`, since
TLAPS does not reach fairness and `ENABLED`. Every invariant, every action
property and every refinement that a passing run checks is a theorem.
No module declares a `RECURSIVE` operator.

## 7. Disagreements between code and documents

Each is the counterexample of one run.

| Run | The code | The document |
|---|---|---|
| `ghost_participant` | the prune of a chat message removes a group silently (`channels.rs:363`) | `player-left` is fanned out when the last connection leaves (`TALO_API.md:754`) |
| `deleted_not_cached` | an overtaken fill stores a deleted account (`api/players.rs:66`) | a deletion invalidates the entry (`TALO_API.md:317`) |
| `absent_fields` | a PUT writes back what it read (`services/players.rs:245`) | absent fields keep their current values (`services/players.rs:40`) |
| `props_kept` | a PUT without props writes back what it read (`services/leaderboards.rs:205`) | omitted props keep their current value (`services/leaderboards.rs:169`) |

More, plain enough to need no run. `verify_ticket` looks a ticket up and leaves
it (`tickets.rs:17`), which `TALO_API.md:668` calls one-shot; `Sockets` models it
as reusable. Login caches a subaccount without its
parent (`api/auth.rs:109`), which `TALO_API.md:128` shows. A connection that never
joined can chat through its group's membership and does not hear itself
(`channels.rs:385`), while chat goes to every member connection, "sender
included" (`TALO_API.md:761`). Suspended players stay on the pages
(`services/leaderboards.rs:87`), which lines 58-59 say they do not. The tie-break by
id is glossed "recorded earlier" (`services/leaderboards.rs:264`), while pages
break ties by `created_at`: `RanksAgree` holds where the two orders coincide.
Presence news goes to identified
connections only (`presence.rs:68`), the document says to every connected
socket (`TALO_API.md:736`); and `create_player` looks a parent up without the
filter on deleted rows (`services/players.rs:77`), which its neighbour says all
other queries have (`services/players.rs:268`). `PresenceHub` and
`PlayerProfiles` model what the code does.

## 8. What is not modelled

- Argon2: a password is right or wrong, and a malformed hash is wrong. Argon2
  timing, JSON parsing, validation of lengths, blobs and e-mail syntax, wording
  of errors: a rejected request changes nothing.
- The blob, metadata and order of saves: nothing in the code decides on
  them. Saves stored in the same second have no order among themselves, so two
  lists of the same saves may differ.
- A `JWT_EXPIRY_SECONDS` beyond the signed 64-bit range is accepted at start-up;
  every login then fails at `services/auth.rs:92`. In `Sessions` that is a
  login that issues nothing.
- What `find_subaccounts` returns.
- `revoke_ticket`: called by tests only.
- Where actix places the hubs: if the worker thread that first touched a hub
  ended, its messages would be lost. The models assume it does not.
- The Redis manager: without it every read is a miss and no write arrives, which
  `PlayerProfiles` covers (every cache call may fail). `/healthz` only reads.
- A restart in `PlayerProfiles`, `Leaderboards` and the socket modules: the tables
  outlive it and its handlers end as in `Fail`; the hubs and tickets begin anew,
  as their `Init` has it. `Backend` has crashes as steps, because tokens outlive
  the process that issued them.
- Migrations' down scripts, scripts, tools, CI, tests: not part of the server.

## 9. Plan

Done, in this order: `WsConn`, `Announcer`, `PresenceHub` with its runs,
`ChannelHub` with its runs, `PresenceHubProofs`, `PlayerProfiles` with its runs
and proofs, `Sockets`, `Leaderboards` with its runs and proofs, `Sessions`,
`Saves` and `Backend` with their run and proofs; then `ChannelHubProofs` and
`ChannelNewsProofs`, `SocketsProofs`, the remaining action properties of
`PresenceHub`, and the two rankings of `Leaderboards`.

Next:

1. The news of the channel hub inside the composition, as `HubPromises` has it
   for presence.
2. The safety parts of the liveness properties: what holds of a deleted
   account, or of a gone connection, in every state in which nothing about it
   is under way.
