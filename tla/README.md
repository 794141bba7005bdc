# A TLA+ model of BNET Command Center

BNET Command Center (`bnetccd`) is a classic Battle.net server in Rust. This
directory holds TLA+ specifications of the parts of it where a mistake is easy
to make and hard to test, TLC configurations that check them on small
instances, and TLAPS proofs of the results that matter most. Paths below are
relative to the repository.

## 1. The system

One process serves every client. Each accepted TCP connection is a tokio task;
the tasks share one `Node` whose tables are behind separate mutexes, so a
packet handler is a series of short critical sections with other tasks'
sections in between, and in places an `await` on the storage thread or the game
server. A task per connection drains a bounded outbound queue into the socket.
Timers flush deferred frames and push feeds.

| Part | State it keeps | Operations | Talks to | What is hard |
|---|---|---|---|---|
| Channel (`bnetcc-core/channel.rs`) | roster, operator, heirs, bans, event number | join, leave, kick, ban, unban, designate | called by the node under its lock | several sessions of one account; succession |
| Node channels (`bnetccd/node.rs`, `session.rs`) | channel map, subscriber lists, pending leaves, outbound queues | join_channel, leave_channel, channel_*, broadcast, enqueue_leave, flush_pending | session tasks, flush timer, writers | maps that must agree; check and act under different locks; full queues |
| Connection life (`main.rs`, `session.rs`, `bnetcc-core/session.rs`) | where the task is, product, keys, account, name | accept, admit, handshake, enter chat, cleanup | all tables, storage | every early return must give back what was taken |
| Logon (`session.rs`, `bnetcc-core/session.rs`) | state, account, outstanding challenge | handle, the log-on packets of both families, account creation | storage actor | packets of two flows mixed; awaits in the middle |
| Admission and keys (`bnetcc-core/limits.rs`) | counts by class and address; live and cooling keys | admit, release, reclassify; claim, release | accept loop, sessions | refused promotions; refusal at the second key |
| Names, directory, moderation (`node.rs`, `moderation.rs`) | active names, directory, bans, mutes and their file, kill signals | claim/release name, register/unregister, ban, mute, lift, prune, load | staff sessions, accept loop, every chat line | name reuse between two locks; lost wake-ups; flags beside a lock; the system clock |
| Write-behind cache (`bnetcc-storage/write_behind.rs`) | dirty attributes, their count, last flush | put, get, tick, flush, delete | backend (SQLite) | partial failure, crash, deleted accounts |
| Storage actor (`bnetccd/storage.rs`) | accounts, attributes, characters; a queue of commands | one command at a time on a thread | sessions, realm, panel, feeds | read, compute, record over several commands; the thread's end |
| Games and ladder (`node.rs`, `session.rs`, `bnetcc-core/ladder.rs`) | game ads, start times, records | advertise, withdraw, start, join, result | storage | sessions sharing an account; ratings read before they are used |
| Diablo II realm (`realm.rs`, `season.rs`) | tickets, selected characters, season | the MCP requests, end of a season | login sessions, storage, game server | what was read before an await |
| Game server link (`gslink.rs`) | current link, pending requests | dial in, replace, request, answer, time out | realm, game server | replaced links; late answers |
| Panel and configuration (`status.rs`, `admin.rs`, `config.rs`, launcher) | credentials, panel sessions, failed log-ons, the file | log on, save settings, edit users, restart | storage, the file system | requests in parallel; files cut short |
| Feeds and tracker (`ladder_push.rs`, `public_status.rs`, `tracker.rs`, ...) | log of games, notifications, heard servers | count, snapshot, post, beacon | node, storage, web | changes while a snapshot is read |
| Federation (`bnetcc-core/bridge.rs`, `policy.rs`, `bnetcc-federation`) | bridged names, chains | upsert, accept, narrow, greet | peers | libraries; the daemon only warns that it is not implemented |
| Formats, cryptography, Diablo II data, tools, web site | none | conversions | | see section 5 |

`PROJECT.json` lists every part with its status, and under `hazards` the places
in the code where these difficulties bite, each with the properties that would
catch them.

## 2. Modules

```
Channel ── ChannelRules ── ChatFanout             Attrs ── AttrStore
                └── ChannelProofs ──┘                └──── WriteBehind ──INSTANCE──▶ AttrStore
                                                               └── WriteBehindProofs
Ladder ── StorageActor ─┬─ Games ── GamesProofs   SessionLife ── SessionProofs
                        ├─ Logon ── LogonProofs   Moderation ── ModerationProofs
     GameServerLink ────┼─ Realm ── RealmProofs   Feeds ──┐     PublicFeed ──┐   Tracker
     Policy ── Config ──┴─ Panel ─────────────────────────┴── WebProofs ─────┘
                                                  Wire ─┬─ Names ─┬─ Http
                                                        │         └─ Federation
                                                        └─ Statstrings ── Replies
```

`Values` declares the constants several of them share. Each `MC*` module gives
the constants of one specification small values; a `.cfg` names the constants
and the properties of one run. A definition marked `mutant` is a plausible
mistake in the definition that follows it. No specification uses it;
substituting it shows that the property concerned can fail.

**Channel, ChannelRules.** `Channel` has one operator per method of `Channel`
in `channel.rs`, on a record with the roster in join order, the sessions shown
with the operator bit, the operator, the heirs, the bans and the event number
(modulo `SeqWidth`, 2^64 in the code). A session is its display name, which the
node keeps unique; sessions map to accounts by `AccountOf`. What is fixed when
a channel is created is a `Policy`. `ChannelRules` owns one entry of the channel
map and has one action for each node operation, and one for each account-level
method that only the core crate exports. Refused operations change nothing and
are not steps.

**ChatFanout.** The same channel with everything around it, split where the
code unlocks. `pc[s]` says where the task of session `s` is: between the
critical section that joins and the one that announces it, between the
departure and the queueing of its `EID_LEAVE`, and so on. `subs` and `pending`
are the node's subscriber list and deferred leaves, `queue[s]` the length of an
outbound queue of capacity `QueueDepth`, `inside[s]` whether the session
believes it is in the channel, which a kick does not change. The history
variable `owed` says which departures are still owed to whom. Forgetting
queues, tasks and history, every step is a step of `ChannelRules` or changes
neither roster nor policy (`ImplementsChannelRules`; the module extends
ChannelRules and shares `policy` and `chan` with it, so the mapping is the
identity). Squelch, mutes and flood limits are in
`Moderation`.

**SessionLife.** Connections from the accept loop to the release of their
admission, and the tables they register in: `perIp`, `perClass` and `total`
(AdmissionTable), `active` and `cooling` (KeyRegistry), `names`, `directory`,
and the bans. One action is one critical section. Every reply to
`SID_AUTH_CHECK`, refusals included, moves the session on, as the dispatcher
does. Logon is one action here; `Logon` has its inside.

**Logon.** `handle` with `accepts` and `next_on_success`, and the handlers of
the handshake, of account creation and of the three log-on flows, each split at
its awaits of the storage actor, among staff resetting passwords and deleting
accounts. A proof is the password it was made with and the challenge it was
made for; challenges are numbers drawn in order. `told` and `issued` are
history.

**Wire, Names, Statstrings, Replies, Http, Federation.** Pure operators on byte
sequences with scaled lengths: the read loops and decoders of the BNCS, MCP,
chat gateway, BNFTP, HTTP and federation streams; how names of channels,
accounts, characters, files, attributes and bridged users are folded, checked
and derived; statstrings; replies of variable length, icon files and the
rotation of banners. They have no state of their own, so the `logon` run checks
them before its first packet, for all inputs within the bounds, against the
definition of the other side (what was sent, what the client parses).

**StorageActor.** One thread serves commands in the order they were sent. A
command is an operator from a database to the set of its outcomes, failures in
the middle included; `Send`, `Cast`, `Serve` and `Die` are the channel, the
one-way commands, the thread's loop and its end. `reply[c]` is `<<answer>>`, or
`<<>>` while there is none, so that no answer can be taken for a missing one.
Games, Realm, Panel and Logon extend it.

**Games, Ladder.** Advertising (ladder games ask storage for the wins first),
withdrawing, starting, joining and listing games, and `SID_GAMERESULT` with its
awaits; records and ratings as `ladder.rs` computes them, in thousandths, with
Elo's expected score as the parameter `ExpectedBy`, a table by the difference of
the ratings that is flat beyond `Saturation`.

**GameServerLink.** Game servers dial in, are numbered, installed as the
current link, and end, in separate steps; a request takes an id, enters
`pending`, is queued, and ends by an answer, a time-out, a full queue or the
end of the link. A list of games and a game are asked for after two looks at
the link, and the server may be another at the second. The game server is
external: it takes requests in order and answers any of them in any order,
twice or never.

**Realm.** Login connections mint a ticket at every `SID_LOGONREALMEX` and
revoke all of theirs when they end; realm connections start with one, and start
again with another, of whichever account, while a character is selected; they
handle the MCP requests, split at the awaits of the storage actor and of the
link, whose specifications it extends. `EndSeason`/`SeasonEnded` are
`Node::end_ladder_season`; `GameServerSaves` (external) is the game server
writing the same database.

**Panel, Config, Policy.** The panel's requests in parallel, over credentials
and configuration files that are emptied and then written, a daemon that is
stopped at any moment and started by the launcher, and an operator who mends a
file while it is down. A write that fails, or whose process ends, leaves the
emptied file or a beginning of the text (`Beginnings`): one that ends amid a
line, or a document without its last tables. The panel is served only if the
file gives it an address (`Serves`). `Config` says what a start accepts of a document, what the
settings page shows of it and what saving the page writes; `Policy` the
connection limits, their overrides and their narrowing. `generated`, `guesses`
(the failed log-ons of an address before each tick), `overlapped` and `spoiled`
(the file is what a cut or mixed save left) are history.

**Moderation.** The ban store with its lock, its fast-path flags, its file (a
write may be cut short by a crash) and its pruning; the flood tracker in
millitokens; personal ignores; the staff commands. `clock` is the system's and
may be set back, `real` is what has really passed. `orders`, `intact`, `spent`
(the lines a session got through before each tick) and `said` are history.

**Feeds, PublicFeed, Tracker.** The log of hosted games, by their number in the
order of hosting, that two readers prune to their own windows; the task that
pushes the ladders when notified or on a timer, reading them one by one; what
the public feed shows of a node, the latest ladder results included; the beacons a server sends and the list a
tracker makes of them.

**Attrs, AttrStore, WriteBehind.** The buffer over the SQLite tables: the
methods take `&mut self`, so each is one action; the backend may refuse the
accounts in `Refused` at any flush; a put for an account that no longer exists
is dropped by the foreign key; `Crash` forgets the buffer. `AttrStore` is what
callers rely on: a reader sees `visible`, a crash leaves `saved`. The mapping
shows the buffer merged over the table as `visible` and the table as `saved`.
`DropUnsaved` is there because the code drops the buffered writes of an account
before the backend has deleted it. The daemon does not use this layer yet
(docs/ROADMAP.md:59).

## 3. What is checked

| Run | Instance | Shows |
|---|---|---|
| `channel_rules` | 5 sessions of 3 accounts; a private channel limited to 3, the same persistent, "Op Fish", an official channel closed to one client; 30,565 states | `RosterSound`: operator, heirs and the operator bit belong to accounts that are present, the limit holds; `OperatorSuccession`: operator passes only to an heir, when its last session goes |
| `chat_fanout` | 2 sessions of 2 accounts, queues of one frame, two policies; 81,602 states | `RosterTrue`: subscribers = roster, no member outlives its session; departures are queued and in the end sent; the roster refines ChannelRules |
| `write_behind` | 2 accounts (one refusable), 2 keys, 2 values, interval 2, timer 1, thresholds 2 and 3; 75,251 states | exact count, bounded loss, no resurrection, flushes lose nothing, no stranding, refinement of AttrStore |
| `session_tables` | 2 connections, 2 addresses, keys alone and in pairs, no accounts; 55,064 states | admission counts and key registry exact |
| `session_directory` | 2 connections at one exempt address, one account and its realm character, no keys; 211,682 states | names unique, directory exact, whoever is disconnected leaves |
| `games` | 2 sessions, free to share an account, one below and one at the ladder's wins; 2 results, clock to 2; 490,024 states | a listed game has a host online; ladder records need the wins and keep the highest rating; whoever awaits storage is answered, also by a thread that died |
| `game_server_link` | 2 tasks, 2 game servers, queue of 1, 2 ids; 3,254,086 states up to symmetry | `pending` has exactly the waiters; the link is the server installed last |
| `realm` | 2 logins, 2 tickets, 2 realm connections, a ladder character, a linked game server, the panel; 2 requests to it, costs of 4; 2,135,210 states up to symmetry | every ticket lives as long as its login; joins are staged only for the characters of the account the connection started as |
| `panel` | 2 connections, 2 addresses, 2 forms, 2 tokens, clock to 2, 5 events; 256,902 states | a refused configuration is one a save left cut or mixed; one first-run password; failed log-ons of an address bounded |
| `moderation` | a staff member and a realm player, clock to 2, set back by 1, 3 events, 1 restart; 1,173,409 states | flags exact, mutes hold, flood budget over every span |
| `logon` | 2 clients, an account of each family, 3 events; 223,788 states | state, account and last answer agree; the challenge kept is the last; realm names are SRP accounts; frames, names, statstrings and replies read back |
| `feeds` | 2 ladders, windows 1 and 2, clock to 3, 5 events; 1,909,920 states | the shortest window counts its games exactly; the site current when the task rests; the feed withholds and counts; the tracker's list |

The bounds let the interesting cases happen: two sessions of one account, an
heir with a second session, a full channel, a full queue, a class at its
ceiling with a refused promotion, a second key in use, a name claimed between
another session's two releases, a partial flush, a delete between put and
flush; a game server replaced while a request waits, a time-out with its answer
on the way, two tickets of one login, a character deleted and its name taken by
another account while a connection has it selected and joins, a connection that
starts again as another account, a ladder that changes between two reads of a snapshot, two saves
at once, a crash in the middle of a file, a failed write, a name cut at the end
of its field so that a code is left, a mute that is pruned after the clock
was set back, a proof for an older challenge. Two actors suffice for each since
the properties relate at most two; the proofs lift the bounds where there are
any. SessionLife is checked in two runs because its tables are independent:
accounts play no part in admission and keys, nor keys in names and the
directory. In `realm`, choosing, making and deleting a character and joining a
game cost 1 of the 4, other requests, a save and the end of a season 3, so that
a run may do all four of the first or one of the others beside one of them;
starting, closing and minting cost nothing. The game server is linked at the
start (`MCInit`): how it gets there is `game_server_link`'s.

Deadlock is not checked where the model stops at a bound on events or ids, and
in `channel_rules`: in a persistent channel whose every account is banned and
whose operator is gone no operation is accepted, which is a real state of the
program.

**Fairness.** ChatFanout assumes that a task inside a handler goes on (weak
fairness of `Continue`: handlers do not block on other sessions, the runtime
polls runnable tasks) and that the flush timer fires. WriteBehind assumes that
time passes and `tick` is called. SessionLife assumes weak fairness of a task's
own steps, and strong fairness of taking the kill branch: a session that is
busy between packets disables it again and again, and `tokio::select!` polls
its branches in random order, so a stored permit is not passed over for ever.
Nothing is assumed of clients, staff, or sockets: no peer need read, so
`Deliver` and `Release` are not fair.

### Where comments and code disagree

The models follow the code. While writing them these statements turned out not
to describe it; no property claims them.

* `channel.rs:898-900`: the event number "must move on every state change". It
  does not on `unban` (`channel.rs:445`), nor on a ban of an absent account.
* `node.rs:1304-1307`: a deferred leave "never reaches" the leaver. After a
  quick rejoin it does (`enqueue_leave` queues, `flush_pending` sends to whoever
  is subscribed then).
* `node.rs:1280-1283`: "a departure can never arrive after a same-name rejoin".
  A kick's can: `op_kick` removes, `after_removal` queues the leave in a later
  critical section.
* `node.rs:110-119` and `1259-1263`: a client whose queue is full must be
  closed, as it would be desynchronised. `broadcast` returns its name, and the
  callers log or ignore it.
* `session.rs:954-963` and `1108-1110`: only a handler that succeeded advances
  the session, "one live session per key". A client told that its key is in use
  is moved on to the log-on state.
* `moderation.rs:9-10`: an IP ban "inherently catches every session and alt on
  that address". Not those outside the directory during the sweep.
* `public_status.rs:65` (and 19-21): per game, the "games hosted in the last 24
  hours". `games_hosted_since` (`node.rs:1402`) forgets what is older than its
  caller's window, and Discord's status calls it with its own, 6 hours by
  default (`config.rs:256`): beside it the feed counts the games of 6 hours.
  Beyond 100,000 games the log also forgets newer ones. What is true,
  and checked, is `ShortestWindowExact`.
* `config.rs:274-275` and `public_status.rs:16`: usernames "only if
  `public_show_users` is on", the "one privacy lever". `recent_ladder` names the
  players of the latest 30 ladder results in any case (`public_status.rs:264`,
  `node.rs:270-291`). `FeedWithholds` says just what is named.
* `status.rs:1425-1429`: settings are validated before they are written and so
  "can never brick the next restart". The file is emptied and written in place
  (`status.rs:1790`): a write that fails or is cut short by the end of the
  process, or two saves at once, can leave a file that the next start refuses.
  Every save that is whole and alone keeps the promise (`OnlySpoiledRefused`).
* `status.rs:1127` shows `127.0.0.1:6114` as the panel's address where the file
  has none, which to a start means no panel (`config.rs:269-272`), as
  `storage.path` is shown as `bnetccd.db`: saving the page untouched writes both
  down. A panel is only served where it has an address, but the file may have
  been changed since (`HouseStyle` below).
* `node.rs:820-822`: the season moves on "once every character is converted". A
  ladder character created while the sweep runs keeps its flag.

## 4. What is proved

The theorems hold for every value of the constants that satisfies the named
assumptions of the modules (`ChannelAssumption`, `PoliciesAssumption`,
`FanoutAssumption`, `WriteBehindAssumption`, `AttrsAssumption`,
`SessionLifeAssumption`, `LinkAssumption`, `ModerationAssumption`,
`TruncatedAssumption`, `FeedsAssumption`, `LadderAssumption`,
`PolicyAssumption`, `ConfigAssumption`, `PanelAssumption`, and
`GamesAssumption`, `LogonAssumption`, `AccountsAssumption` and `NoneAssumption`
of Games and Logon); they say that constants have their types, bounds are
numbers, values that stand for "none" are none of the others, the database
a run starts from could have been made by the daemon, and a start accepts the
file the launcher writes. TLC evaluates each of them on the instances of
section 3.

* **Channel** (`ChannelProofs`). `TypeCorrect`, `OperatorRules` and
  `OperatorNeverDrifts`, from one inductive invariant: the channel is well
  typed, display names are distinct, the operator and the heirs have a member,
  heirs are distinct and not the operator, the operator bit is only on sessions
  of the operator, and the capacity holds. The parts need each other: that the
  operator is present after a succession follows from the heirs being present,
  that no heir is the operator from the heirs being distinct. The lemmas say
  what `Without`, `Append`, `RemoveMember` and every operation do to a sound
  channel.
* **Chat fanout** (`ChannelProofs`). `RosterStaysTrue`: the invariant adds that
  the channel is sound (the same lemmas), because taking a session off roster
  and subscriber list leaves them equal only while names are distinct, and that
  members' tasks are at places from which they leave.
  `FanoutImplementsRules`: the initial states map to initial states; every
  action is `JoinChannel`, `LeaveChannel`, `ChannelKick`, `ChannelBan`,
  `ChannelDesignate` or `ChannelUnban` of the rules, or leaves roster and
  policy alone. It needs no invariant: the guards are tested under the lock
  that changes the roster, which is the point. `FanoutKeepsRules` is what it
  buys: the operator rules between any two critical sections.
  `DeparturesKept`: the invariant (`OwedInv`) adds that only members are owed a
  departure, so that a channel which is destroyed, with its deferred leaves,
  leaves nobody behind who is still owed one.
* **Write-behind** (`WriteBehindProofs`). `CountStaysExact`, `LossIsBounded`,
  `DeletedStaysDeleted`, `FlushesLoseNothing` and the refinement
  `RefinesAttrStore`. The invariant adds to the type and the exact count that
  nothing is buffered or stored for ids not handed out (`NewUntouched`) and
  `AgeBound`: the age of the oldest buffered write is at most the time since the
  last flush, or is bounded by the time since the last tick, where a tick found
  the interval not yet over. Without it the loss bound is not inductive, since
  it says nothing about the clock that decides.
* **Sessions** (`SessionProofs`). `KeysStayExact`, `DirectoryStaysExact`,
  `AdmissionStaysExact` and `SessionTypeCorrect`. Each table has an invariant of
  its own, which adds what a task's position says about what it owns. `KeyInv`:
  a task before `SID_AUTH_CHECK` or past cleanup holds no key, one that is
  claiming holds a prefix of the keys it listed, and no key is held twice.
  `NameInv`: a session has a name from `claim_name` to `release_name`; that
  `claim_name` finds one is a pigeonhole argument. `AdmissionInv`: a connection
  has a class exactly from admission to release, so that each step adds, moves
  or removes one element of the sets the counts are the sizes of, and the
  code's saturating subtraction never saturates.
* **Game server link** (`RealmProofs`). `PendingStaysExact`: ids in the table
  are below the next one, so a new request never takes another's entry, and a
  waiter's own id leads back to it. `LinkIsLastInstalled`: generations are drawn
  once, so no two connections share one; the link carries the generation of the
  connection installed last, which is what makes the comparison at the end of a
  connection (`gslink.rs:179`) the right one.
* **Realm** (`RealmProofs`). `TicketsEndWithLogins` adds that no id is on the
  lists of two logins (`TicketsInv`), since what a login revokes when it ends
  must be nobody else's; ids are random and `LogonRealm` draws one that no live
  ticket has.
  `JoinsOwnCharacters` relates a message in the hands of a game server to the
  ticket of a connection, and needs the whole way between: `FlightInv`, a
  message whose id is in the table is what its waiter asked; `ConnectionInv`, a
  call is under way only at an await of the link, so no connection starts again
  or ends meanwhile and the ticket is the one the call was made with, a handler
  between the look at the game and the join has a character of the account, and
  a call that joins names the account in each of its stages. It needs nothing
  of the database: the character is checked where it is used. The link's
  invariant is part of it, so `RealmKeepsLink` has the link's two results of
  the realm's own handlers as callers, not only of arbitrary ones.
* **Games** (`GamesProofs`). `GamesInv` has three parts. The queue: each of its
  commands has a sender that waits without an answer, no sender has two, and
  whoever waits has an answer or a command (`EverybodyAnswered`). The database:
  records are numbers, accounts with a ladder record have the wins asked for,
  high ratings are at least the ratings. The handlers: what one has read of the
  wins is a lower bound of what they are now, since records only grow; that is
  why a check made two awaits ago is still good when the record is written
  (`LadderHolds`). `GamesHaveHosts` adds that a listed game has a host at all.
* **Logon** (`LogonProofs`). `LogonInv` has the same three parts: the queue;
  the accounts, whose credential fits their name, with the same of the
  creations in the queue (`RealmAccounts`); and for each session that the
  outcome is exact at the awaits too, that a handler of the log-on runs only
  while the session is not logged on and nothing moves the session on meanwhile
  (`Busy`), and that a challenge kept is the last one issued. The state machine
  alone does not give `LogonExact`: it is `Busy` that keeps a packet of another
  flow from changing the state under a suspended handler.
* **Moderation** (`ModerationProofs`). `FlagsStayExact`, and `MutesHold`: while
  the file is whole, every standing mute is in the store with the
  expiry that was ordered, the file equals the store outside a write, and the
  clock is never ahead of real time, so pruning removes no standing mute.
  `FloodsBounded`: what a session got through since a tick and what its tracker
  is worth now (its tokens and what the clock has not yet paid out) never exceed
  the burst and what the ticks earned (`FloodInv`). Rounding and a clock that is
  set back only lower the worth; the bound over spans that are over follows.
* **Feeds** (`WebProofs`). `SiteStaysCurrent`: what the push task has read,
  or has posted, is up to date unless there is news (a stored notification, a
  change whose notification is still owed, or one nobody notifies of).
  `ShortestWindowStaysExact`: the log is always the games since some number, no
  more than the cap (`LogInv`), and the games before it are missing because a
  reader's window has passed them, and then the shortest one's too, or newer
  ones fill the log. Pruning and the cap take from the old
  end only, as games are in the order of their times.
* **Public feed** (`WebProofs`). `FeedKeepsQuiet`: for any node at all, the
  names in the channel list are exactly the live channels that may be named,
  the channel given for a user is one of those, of a game with a password no
  list has the name, and the users named are the sessions, where users are
  shown, and the players of the latest ladder results. That is the part of `FeedWithholds` about names; that
  everybody is counted once is a sum over a set and stays with TLC.
* **Policy and configuration** (`WebProofs`). `NarrowingNeverWidens` and
  `PendingIsLoosest` are about the limits: a product only one side lists is
  compared with the other side's default, and the widening of the pending class
  takes the greatest of a set that is bounded by u32. `UntouchedPageSavesItself`
  follows a document through the page and back, part by part: the strings, the
  numbers, the boxes of each class, the products, the lines of versions and
  landing channels, the channel tables. The page's own defaults are the
  server's, an entry is dropped only when it is empty and then means the
  default, and a channel is found again by its name, which `ChannelsValid`
  makes unique. The conditions of `HouseStyle` are needed: for a document
  without a storage path or an address of the panel, with another spelling of
  the log-on method or with inline tables it is not so.
* **Panel** (`WebProofs`). `PanelTypeOK` is common to the three: no request is
  under way while the daemon is not, and credentials are written only where
  there are some. `OneFirstRun`: without a file no password has been generated
  (`FirstRunInv`). `RefusalsNeedSpoiling`: what a save under way will
  write was accepted when it was checked, unless saves overlap one is under way
  at most, and a file no save spoiled is absent, emptied or one a start accepts
  (`SavesInv`); an emptied file is an empty document, and a start accepts that. `GuessesStayBounded`: the
  counts before each tick never fall, and an address with an entry has, since
  the entry began, failed as often as the entry says; with the requests already
  past the limiter that is one limit's worth, and what came before the entry
  another, since an entry is dropped only when its window has passed
  (`GuessesInv`).

Only model-checked:

* the liveness properties (`DeparturesAnnounced`, `OthersNotStranded`,
  `KickedLeaves`): the prover handles neither fairness nor `ENABLED`;
* the properties of pure operators on bytes and texts (`FramesArriveWhole`,
  `StatstringsArriveWhole`, `NamesMeanOneThing`, `RepliesArriveWhole`,
  `TrackerListsTruly`) and the sums of `FeedWithholds`: their modules use
  RECURSIVE operators and `Bitwise`, and what they compute would need induction
  over the data.

## 5. Not modelled

* **Cryptography** (`bnetcc-crypto`): arithmetic on 256-bit numbers with test
  vectors; the models take its verdict.
* **Diablo II data and file formats** (`d2-data`, `d2-formats`,
  `d2_characters.rs`, `d2_equipment.rs`): tables and decoders without state.
* **Warcraft III progression** (`ladder/war3.rs`) and the rest of the
  federation: libraries no task calls; the pure parts that decide something
  (names, chains, frames, narrowing) are operators.
* **Storage**: account bans, migrations and the in-memory backend.
* **I/O and text**: HTML pages, TLS and certificates, Discord's layout, the UDP
  test, packets of fixed fields, logging.
* **Tools and web site**: importers, icon tools, the smoke test, PHP pages.
* In ChatFanout the contents of queues: what a client sees when a leave is
  flushed before the snapshot that lists the leaver (`session.rs:2057`).
* Panics: cleanup is called at each exit of `bncs_session` and not by a guard
  (`session.rs:570`); the model has no action for a panic.
