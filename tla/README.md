# A TLA+ model of piltover

piltover is a server for the Telegram client protocol (MTProto), written in
Python on asyncio, with TaskIQ workers and a relational database; group calls go
through a media server in Node.  This directory holds TLA+ modules that model
it, the TLC configurations that check them on small instances, and TLAPS proofs
of the results that hold for every instance.  All source paths are relative to
the repository; those without a directory of their own are under `src/piltover/`.

## 1. Inventory

A gateway process accepts connections, decrypts packets, keeps sessions and
hands requests to workers through a task queue; workers run handlers against
the database and push updates through a message broker, which the gateway
delivers to sessions.

| Component | State | Operations | Hard behaviour | What makes it correct |
|---|---|---|---|---|
| **Session, outbound side** (`session/session.py`, `session/session_manager.py`, `gateway/client.py`) | queue, `pending_outbound`, attached client, flush task and lock, clean-up timer | `enqueue`, `flush_outbound`, `connect`, `disconnect`, `finalize`, `msgs_ack`, send loop, teardown | several flushers on one session, writes that fail or are cancelled half-way, a new connection overlapping the teardown of the old one | order, nothing lost silently, no session leaked or taken from a live peer, no lost wake-up |
| **Request dispatch** (`gateway/client.py`, `gateway/_system_handlers.py`, `worker.py`) | receive loops, completion table of the session, tasks | receive, `invokeAfterMsg`, auth gate, task with two result waits, completion and its pruning, teardown | requests of several connections waiting for each other, a bounded completion table, timeouts racing results | no lost completion, order of dependent requests, one answer each, no deadlock |
| **Auth keys** (`gateway/_keygen_handlers.py`, `db/models/authkey.py`, `gateway/client.py`, `app/handlers/auth.py`) | generation state of a connection, key rows, ids known to be unknown | the three exchanges, look-up, gate, bind, expiry | a connection lost at each await, a bind that goes on without it, binds that overlap | the key that was agreed is the key that is stored; nobody is refused for ever |
| **Message ids and salts** (`session/session.py`) | salts of a session | `is_message_bad`, `update_salts_maybe`, lists of future salts | the half-hour ends while nobody writes | a client that does as it is told is accepted |
| **Authorizations** (`session/session.py`, `worker.py`, `app/handlers/auth.py`, `message_brokers/`) | rows, the copy of a session, subscription maps | refresh, log-in, password, log-out, resets, fan-out maps | cached rows, refreshes that overlap, are cancelled or come late | no request before the password or long after a log-out; maps follow sessions |
| **Update log** (`app/utils/updates_manager.py`, `app/handlers/updates.py`, `db/models/state.py`) | pts counters, update rows | emit (take pts, store, push), `getDifference`, `getChannelDifference` | handlers interleave between taking a pts and storing the row; slices and limits over a log with gaps | a pts is given once, a difference misses nothing stored, clients catch up |
| **Stars** (`app/utils/stars_manager.py`) | balances, forms, invoices, transactions | top-up, pay, grants | debit and credit in separate transactions, double submission, bots that answer late | conservation, no double payment |
| **Messages of a dialog** (`app/handlers/messages/`) | refs, contents, read states, pins, scheduled messages | send, edit, delete, read, pin, schedule, TTL | retries, reading while sending and deleting, jobs lost | no duplicate, counts agree, sent once |
| **History and dialogs** (`messages/history.py`, `messages/dialogs.py`) | the same rows | pages, searches, positions, calendar | several statements per answer, offsets that vanish | a page is the window, nothing passed over |
| **Threads, topics, views** (`app/utils/discussion_threads.py`, `app/utils/forum_topics.py`) | mirrors of posts, topics with anchors, read states | comments, topics, reading, views | threads made on demand, re-linked groups | one post, one thread |
| **Channels** (`app/handlers/channels.py`, `messages/invites.py`) | participants, rights, counts, links, requests | join, leave, ban, promote, transfer | concurrent requests at a limit, stale rows written back | membership and limits |
| **Entities** (handlers of users, groups, channels, polls, reactions) | rows with a version, cached objects | every change of what clients see | versions forgotten or taken twice | the cache and clients have the truth |
| **Lists** (`messages/dialogs.py`, `messages/folders.py`, stickers) | pinned dialogs, folders, installed sets | pin, reorder, install | places computed from stale rows | the order asked for |
| **Sticker sets** (`app/handlers/stickers.py`, `db/models/stickerset.py`) | set, stickers, hash, cached answers | create, add, replace, move, remove | answers cached under a hash | "not modified" is true |
| **Built-in bots** (`app/bot_handlers/`) | a row of state and data per user | text and callback handlers | two messages at once, data of another question | carried out once, data fits |
| **Bot API** (`app/utils/bot_api/`) | updates in memory, webhook, topics | getUpdates, webhooks, answers | long polling, retries, restart | each update once, nobody sleeps on one |
| **Calls** (`app/utils/group_calls.py`, `src/mediasoup-server/server.js`, `app/handlers/phone.py`) | calls, participants, rooms, phone calls | join, leave, mute, discard, ring, accept | timers, HTTP to the SFU, several devices | no ghosts, everybody is heard |
| **Secret chats** (`messages/secret.py`) | chat, qts, queue | request, accept, discard, send, acknowledge | qts and ids in different orders | no update lost |
| **Privacy, contacts** (`db/models/privacy_rule.py`, `app/handlers/contacts.py`) | rules, exceptions, contacts, cached access | set, check, import, add, delete | bulk checks that overlap changes | the answer is the rule's |
| **Uploads** (`app/handlers/upload.py`, `db/models/uploading_file.py`, `storage/`) | part rows, bytes on disk, files | save part, use, read | crash between row and bytes | the file is what was sent |

The other components, and why they have no module, are in section 6 and in
`PROJECT.json`.

## 2. Modules

| Module | Models | Checked in | Proved in |
|---|---|---|---|
| `SessionOutbound` | the outbound side of one session and its connections | `MCSessionOutbound` | `SessionOutboundProofs` |
| `Outbox` | what it promises (abstract specification) | `MCSessionOutbound` | `SessionOutboundProofs` |
| `RpcDispatch` | the receive loops, `invokeAfterMsg`, the workers' tasks | `MCRpcDispatch` | `RpcDispatchProofs` |
| `SessionAuth` | authorizations, a session's copy of them, the broker's maps, log-in and log-out | `MCSessionAuth` | `SessionAuthProofs` |
| `AuthKeys`, `Salts` | key generation, look-up, bind; salts and clocks | `MCServices` | `ServicesProofs` |
| `UpdateKinds` | what each function of `updates_manager.py` does to a log | | |
| `UpdateLog` | a user's or a channel's log and a client that follows it | itself | `UpdateLogProofs` |
| `Stars` | wallets, payment forms, invoices and pre-checkout queries | `MCStars` | `StarsProofs` |
| `Messages` | a private dialog: messages, read states, pins, scheduled messages | `MCMessages` | `MessagesProofs` |
| `ChannelMembers` | members, admins, bans, invite links and join requests of a supergroup | `MCServices` | `ServicesProofs` |
| `Entities` | what is cached and told of users, groups, channels, polls, messages | `MCServices` | |
| `UserLists` | pinned dialogs, folders, installed sticker sets | `MCServices` | |
| `Uploads` | parts of a file, their use, pieces of the file | `MCServices` | |
| `BotApi` | updates for bots, webhooks, callback and inline queries | `MCServices` | |
| `Conversations` | the questions of the built-in bots | `MCContent` | |
| `StickerSets` | a sticker set and the answers that are cached of it | `MCContent` | |
| `History` | paging through messages and dialogs | `MCContent` | |
| `Threads` | comment threads, forum topics, views | `MCContent` | |
| `Privacy` | rules, contacts, and cached access | `MCContent` | |
| `GroupCalls`, `Sfu`, `PhoneCalls`, `SecretChats` | calls, the media server's room, calls of two users, secret chats | `MCCalls` | `CallsProofs` |

An action is the code between two awaits (or one query), so requests, loops and
callbacks interleave as they do in the event loop and between worker processes.
Variables called history (often `cause`) are not in the code: they record what a
property has to know about the past, and usually name the races the code admits,
so that an invariant says what must hold but for them.  `MCServices`, `MCContent`
and `MCCalls` check components that share no state in one run; a behaviour is
one of one component.

### SessionOutbound

`queue`, `pending`, `resend`,
`client`, `task` and `timer` are the fields `message_queue`,
`pending_outbound`, `resend_pending_on_connect`, `client`, `_flush_task` and
`_cleanup_task`.  `wr` is the holder of `_outbound_flush_lock` with the client
it read and the write it is in; `waiters` are the tasks that wait for the lock.
`conn` and `active` are the connections and which of them have the session in
`active_sessions`; `wake` is the `message_available` event.  A message is its
id, in the order of `pack_message`.  `got`, `acked` and `dropped` are history.
Left out: sequence numbers, encryption, the unencrypted queue of the key
exchange, and all but one session of a connection (`OtherSessionWakes` is what
another session does to this one's send loop).

### RpcDispatch

`loop` is the receive loop of each connection: the rest of its packet, what it
waits for, and the task it has handed out.  `completed`, `order`, `events` are
`_rpc_completed_ids`, `_rpc_completed_order`, `_rpc_completions`.
`_rpc_completion_lock` is never held across an await, so its sections are
atomic.  `jobs` are the TaskIQ tasks; workers run them in any order, whether or
not a gateway still waits.  `after` is chosen once: the ids each request is sent
after, which may be later ones or the request itself.

### UpdateLog

The variable `log`, chosen once from `Logs`, selects the user or the channel
variant.  Emitters take pts under a row lock (`State.add_pts`,
`Channel.add_pts`), store rows and push, in the order their function has: new
messages and everything of a channel are stored before the push, edits and
deletions of a user's messages after it.  An emitter may fail between any two
queries.  A difference is several queries: the largest stored pts, the rows,
and (for a user) `State.pts`.  `got`, `shown` and `raced` are history: what
differences found, what their responses contain, and the pts a response went
past that no row had when its request began.

### Stars

`wallet` and `rows` are the `UserStarsBalance` rows, `lock` who holds one under
`select_for_update`; `earned` and `spent` are the sums of the
`StarsTransaction` rows; `form` is the table of payment forms; `paid` the
invoices with a receipt.  A task is a request (`send_stars_form`,
`send_payment_form` of a bot's invoice, a grant of the admin bot) at one of its
queries: load the form, ask the bot and wait for the answer, delete the form,
debit, credit, pay, store the receipt.  Every step may fail, which undoes the
transaction it is in and nothing before it.

### ChannelMembers

`row` is the `ChatParticipant` of each user (there, left, banned and admin
rights); `creator`, `deleted`, `public`, `joinRequest` and `adminsCount` are
columns of the channel; `invite` and `request` are `ChatInvite` and
`ChatInviteRequest`.  A task is a request (edit_banned, edit_admin,
edit_creator, invite_to_channel, join_channel, import_chat_invite,
hide_chat_join_request, leave_channel): it reads the channel and its sender,
then the target, then writes what follows from these reads, and for some ends
with `sync_admins_count`.  Single-query operations (invite links, username,
join-request switch, deletion) are one action each.  The history variables name the races
the code admits, so that the invariants say exactly how far a limit can be
exceeded: `strays` counts admins gained without a valid look at the count,
`crowd` the most users who were entering at one time, `disturbed` users about
whom two requests overlapped, `stale` a failure before the synchronisation.

### SessionAuth

`auths` are the `UserAuthorization` rows by permanent key; `key` is what the
database has for the key of a session; `ses` is the `Session` object
(`user_id`, `auth_id`, `mfa_pending`, `channel_ids` and whether its windows have
been opened); `sub` are the maps of `BaseMessageBroker`; `cache` is
`channels:{user_id}`.  A task is a receive loop with one request, from
`refresh_auth_maybe` through the worker's gate and handler to the forced refresh
after the answer, or the listener that handles `register_device`.  A query is
read when it is sent and applied in a later step, with other tasks in between.
Whether the 60 s and 5 min windows have passed, or the cached list has expired,
is chosen when it is asked.  One request, "call", stands for every handler that
has a user and does nothing to authorizations; `import_bot_authorization` is a
sign-in of a user without a password; `export_login_token` is a `bind` that is
refused.  Left out: the map of keys to sessions and the pushes themselves.
`cleared`, `lapsed`, `extra` and `raced` are history: which authorizations need
no password any more, which were gone at the last look-up, which channels only
a message brought, and which sessions had a refresh that was cancelled,
overtaken or went on after `finalize`.

### Messages

Each of two users has a `Peer` with its own `MessageRef` rows (`ref`) over the
shared `MessageContent` rows (`content`); `last`, `outMax` and `blocked` are
columns of the peer, `readIn` the `ReadState`, `visible` the `Dialog`; `plan`
and `expire` are the `TaskIqScheduledMessage` and
`TaskIqScheduledDeleteMessage` rows, `jobs` what the scheduler has handed to the
workers, `cache` the formatted messages under their version.  A task is a
request between two of its queries: a send creates the content, then the refs
(with the last messages, in a transaction), shows the dialogs, counts what is
unread and marks its own message; `send_message`, `send_media`,
`send_inline_bot_result` and `start_bot` differ in their checks only, and
`send_multi_media` repeats the send.  An edit reads the content and saves it
later; deletions look their rows up first; `read_history` saves the read state
and then the receipt of the other user.  A transaction is one step, as in
SQLite, the default database.  Merged with their neighbours: queries that only
read, the TTL row with the count of unread messages, the mark a TTL deletion
gets when it is handed out.  Every request may fail between two queries, which
undoes nothing.

The history variables name what the code lets go wrong, so that each invariant
says what else must hold: `unsynced` (contents were deleted, which leaves
`last_message_id` as it was), `late` (refs were created in another order than
contents), `clash` (two edits saved one version), `parted` (pinned while one
user blocked the other), `hidden` (a dialog hidden with messages in it), and
`over` in a task (the read state was written since it looked).

### Outbox

The abstract specification of what a session does with the messages it is
given, without connections, locks and tasks.  `SessionOutbound` implements it
(`SessionIsOutbox`): `waiting` is the queue with the message of the write in
progress until it is tracked, `kept` is `pending_outbound`, `lost` the messages
of interrupted writes, `over` that the session is finalized.  The mapping reads
nothing of the future: a write that is broken off is what makes a message lost.

### UpdateKinds

A table of every function of `updates_manager.py`: the log it writes, how many
pts it takes, the rows it stores below the last of them, and in what order it
stores and pushes; and of every type of row, what `to_tl` makes of it in a
difference.  `UpdateLog` draws its emissions from this table.

### Entities

`row` is a user, chat, channel, poll or message: one field and a version;
`side` stands for rows of other tables that are part of what clients see;
`cache` are the objects under the entity's id and version.  A handler is the
sequences of statements it may go through, in the words of the comment in the
module; `Ways` are the sequences of all handlers, one operator per source file.
A task loads the row, then takes a statement per step.  `cause` says
whether two handlers overlapped on the entity and whether one of those that
forget the version, or to tell clients, was run; the properties leave open only
what follows from these.

### UserLists

`place` is `pinned_index`, `position` or `pos` of each item; `told` is the list
that a client has which applies the updates it is sent; `asked` the order of the
last handler.  Places are computed from rows read a statement before they are
written.

### Uploads

`row` and `size` are the `UploadingFile` and `UploadingFilePart` rows, `disk`
the files under `uploading/`, `stored` what has been put together, `files` the
`File` rows.  Opening a part's file and writing to it is one step, so a crash
falls between the row and the bytes.  `Pieces` are the ranges `get_file` reads.

### BotApi

`store` is the bot's `BotApiUpdatesStore`, `poll` the `getUpdates` requests,
`post` the tasks that post to a webhook with their attempts, `ask` the requests
of users that wait in `InMemoryPubSub`, `topics` its waiters, `answer` how far
the bot's answer is.  A restart forgets what is in memory.

### Conversations

A handler of a built-in bot is a record: the states it is registered for, the
data it reads, what it does, the data it writes and the state it leaves.  The
tables of `@stickers`, `@botfather` and the admin bot list them all.  A message
reads the row in one step and acts in another.

### StickerSets

`set`, `thumb` and `files` are the rows, `infos` and `answers` the caches, which
never expire.  A hash is named by what it is made from.  A handler is a sequence
of statements as in `Entities`.

### History

A request is read window (before and after the offset), rows, count, answer; at
any of these messages may arrive or be deleted.  `PageIsWindow` compares a page
with `Window`, the definition of what was asked for; `client` is what a client
has got that goes on from its last page.  `MaxLimit` is the 100 messages of a
page.

### Threads

`ref` are the messages in the order of their ids; a mirror has `discussion` of
its post, an anchor its topic.  `lock` is who holds the channel's row
(`select_for_update`).  A behaviour is about comment threads, a forum, or views.

### Privacy

`rule` and `contact` are rows, `cache` what is cached per owner, viewer, key and
version.  `AccessAsRule` compares each answer with those the rule and the
contacts justified while the check ran, or when the answer was cached.

### GroupCalls, Sfu, PhoneCalls, SecretChats

`GroupCalls` are the handlers on calls and participants, the timer
(`_delayed_leave`) and the HTTP requests to the media server, which may fail or
arrive late; `Sfu` is the server's room, one action from await to await of
`server.js`.  The room is an abstract `sfu` in the first and the subject of the
second.  `PhoneCalls` has a caller and several devices of the one called;
`SecretChats` the handshake, then the queue of the device that accepted.

### AuthKeys, Salts

In `AuthKeys` a connection's `conn` is its receive loop with `gen_auth_data`;
packets wait in `inbox`, and an await of the loop is a step at whose end the
connection may be gone.  A bind is two steps of a worker (deleting other keys,
updating this one) after its check.  `cause` is what the properties have to
know of the past: the key bound last, whether binds overlapped, which keys
expired bound, and which were deleted and made again.  `Salts` keeps the
half-hour a session's salts belong to, and the client's clock.

## 3. Runs

| Run | Shows |
|---|---|
| `session_safety` | order, clean-up and wake-ups survive every interleaving of flushers, failing writes and overlapping reconnects; the session is an `Outbox`: nothing is lost but a message whose write was broken off, and what was acknowledged is forgotten |
| `session_liveness` | an attached session's queue is written out, and the resend that `connect` asks for takes place; a disconnected session is taken up again or removed |
| `rpc` | dependent requests keep their order, no completion is lost, each request is answered at most once, and waiting requests never block a receive loop for ever |
| `updates` | a pts is given once; a difference leaves behind only updates that were being emitted while it ran; slice by slice a client reaches the end of the log |
| `stars` | wallets equal the sum of their transactions and stars are conserved; no bot is paid against its will, and an invoice twice only if two submissions overlapped or one failed before the receipt; requests end |
| `auth` | the broker's maps agree with the session once its refreshes are over, and a deleted authorization is not used beyond the window; no handler runs before the password |
| `messages` | a retry does not double a message; nothing counts as read, or is reported as read, that was not; read states go back only when one request overtakes another; the last message is the last, both copies agree about pins, and a dialog with messages is shown, but for the named exceptions |
| `scheduled` | a scheduled message is sent at most once and does not stay planned for ever, whatever the scheduler, lost jobs, edits, deletions and the sender do; the cache holds the current text |
| `calls` | group calls, participants and rooms agree when all is done; who is in a room is heard; the device that accepted a call keeps it; secret updates are kept until acknowledged |
| `services` | members and limits of a channel; cached entities and what clients were told; the order of lists; whole files; bots and their updates; agreed keys and accepted salts |
| `content` | conversations with built-in bots; "not modified" of sticker sets; pages; threads, topics and views; privacy |
| `updates_edit_lost` | ends in a violation: a channel message that is sent and edited since the client's pts is in no part of the difference (`ChannelUpdate.to_tl`), against the line that "findings" quotes |

Properties such as `MembersAreInOrder` or `DialogsAreCurrent` are conjunctions
of named parts, each with a comment in the module of its component.  Every
property has at least one mutant in `PROJECT.json`: a definition changed the way
a bug would change the code, with which TLC finds the property violated.
`TypeOK` in `RpcDispatch` is part of a property of its run; it is proved there
and for `SessionOutbound` and `Stars`; in the other modules it documents the
variables (`RowsInv` has what the proofs about `Messages` need of it).

**Bounds.**  Two connections are what overlapping reconnects need; two messages
are the least that can be reordered, overtaken or separated by a failure
(liveness is checked with one).  In `rpc` two requests on two connections, two
packets and four tasks allow requests that wait for each other or themselves, in
one container or across connections, and a retry; a completion limit of one
makes every second completion prune.  In `updates` two pts, taken one or two at
a time, and one row without a pts of its own allow a gap between updates and a
slice that ends in the middle (`SliceMax` is one); two emitters allow every
interleaving of taking and storing.  `stars` has a user, a bot that is asked, a
bot that is not, two requests in progress, two forms and one grant of four
stars, so that a wallet pays for one form and not for two.  `auth` has one
session and one other device, two users, one of them with a password, one
channel and two tasks, so that two refreshes of the session overlap; two of the
requests that change something, in any order, with any number of plain calls,
are what it takes to change a row and use the copy.  `messages` has two requests
in progress and four messages, requests, blocks or failures in all: a message, a
second one that overlaps it, and two requests about them.  `HistoryLimit` of one
makes every second message of a history a left-over.  `scheduled` has the
requests about scheduled messages only, two texts, a dialog with a TTL and three
requests, failures or lost jobs: schedule, change and lose, in any order with
polls, resets and workers.

The composite runs give each component its own bounds, as `INSTANCE ... WITH` in
`MCServices`, `MCContent` and `MCCalls`; where several are named in `Budgets`,
a behaviour has one of them, so that many requests, or few with failures, are
looked at but not many with failures.
Members: three users, two requests in progress out of three, limits of two;
`Init` starts from every channel of up to two members, so three requests are
enough to read at the limit, exceed it and use what became stale; `Apps` has a
second app, whose channel the creator alone fills.
Entities: two handlers that write and a reader, from every sequence of the table.
Lists: three items, places up to three, three handlers.  Uploads: files of two
and three parts, every part saved and one again, with one crash or failure for
two parts.  Bot API: two updates over a store of one, or two questions, two
pollers, one or two changes of the webhook.  Keys: two keys over two
connections, and a bind with two messages sent again, or three binds with one and
a mishap (`Handshakes`): the least in which a key is bound, deleted for the other,
looked up and made again.  Salts: five half-hours, which is twice the two a salt
lives.  Conversations: nine messages to @stickers and seven
to the others, which reach the end of every dialogue, one of which may overlap
another (`Overlaps`).  Sticker sets: three stickers, two writers and a reader.
History: four messages and pages of two.  Threads: three or four handlers.
Privacy: two users, two checks and a write, one change of a rule's version.  Group calls: two calls, three
requests, or fewer with disconnections and failures.  SFU
(`RoomBudgets`): two joins and a request, or, with somebody in the room, two
joins, or one and two requests.

**Fairness.**  asyncio runs every ready task, so each step of a task that is
only waiting for the event loop is weakly fair; a lock is handed over in FIFO
order, which the models weaken to strong fairness of each waiter; timers fire;
a write ends, one way or the other; the workers run their tasks; a wait for a
bot's answer ends with its timeout.  What peers and networks do (connect, send,
acknowledge, answer, disappear) is never fair.  In `UpdateLog` the client keeps
asking, which is the hypothesis of `CatchesUp`.  When the event loop is blocked
(`frozen`) no step is taken at all.  In `scheduled` the scheduler polls and
resets every second and workers run what they are handed; a job may be lost as often as the bound allows, and no request
is fair.  The other runs check no liveness; what "happens in the end" is stated
there as an invariant of the states in which nothing is under way.

CHECK_DEADLOCK is off where the system may stop: the bounds on messages,
packets, requests and pts run out, and an idle server does nothing.  `stars`
has it on.

**Also seen while modelling**, mostly without a line in the repository that says
otherwise; the models have these behaviours, and their history variables name
those that a property has to allow for.

- A push to a stored session without a connection is skipped, and the message
  of an interrupted write is in neither the queue nor `pending_outbound`
  (`NothingVanishes` allows exactly this one).
- A push still draining to the old connection is tracked after `connect` of the
  new one has looked at `pending_outbound`.
- The teardown of an old connection detaches a session that a new connection
  has taken up; the new one does not call `connect` again, so after ten minutes
  the session of a connected peer is finalized (`SessionOutbound` has these
  behaviours).
- An update whose pts is taken but whose row is not stored when a difference
  reads is behind the client for good (`raced` in `MissesOnlyRaced`);
  `notes/updates-on-server.md` describes differences as complete.
- With `pts_limit`, a gap as long as the limit is answered with
  `DifferenceEmpty` for ever (`UserLimits` is `{0}` in the run).
- A pre-checkout answer that arrives between the two listens of the waiting
  task is lost, and the wait times out; a gift is lost when the request fails
  between debit and credit; an invoice of one star is refused after its form
  was deleted; pushed balances may arrive in another order than they were read.
- `invite_to_channel` readmits users banned from viewing and works on deleted
  channels, as does the import of an invite; `join_channel` ignores
  `join_request`; leaving keeps `admin_rights`; approving a user who has a left
  row admits nobody; `edit_banned` writes back the `left` it read; overlapping
  transfers leave a former target with all rights; a ban does not revoke the
  user's invite links; `usage_limit` is never compared; `join_channel` admits
  one member more than the limit.
- `auth_loaded_at` and `channels_loaded_at` are set before the answer of the
  look-up, so a cancelled refresh leaves the old user for another window;
  overlapping refreshes apply their answers in any order; a cancellation
  between applying an answer and resubscribing keeps the old user's
  subscription.
- Channels that `ChannelSubscribe` brings are not in `channel_ids`, so log-out,
  `finalize` and leaving do not unsubscribe them (`unsubscribe_from_channel` has
  no caller).  A sign-in as another user within five minutes keeps the old
  `channel_ids`.
- A forced refresh of a session whose temporary key is gone raises and leaves
  `auth_data` None; `finalize` then neither removes nor unsubscribes it.
- Two sends, or a send and `read_history`, of one user can move the read state
  backwards.  `delete_history` deletes the other user's copies without `revoke`
  as well, and with `max_id` hides a dialog that still has messages; a failure
  between storing refs and showing the dialog hides it too.
- A retry of a scheduled send after the message was sent schedules it again,
  as the clone has no random id; a message redated after the scheduler has
  taken it up is still sent at once; the worker leaves the scheduled content
  behind without refs; a TTL deletion that was handed out and lost is not
  repeated (`start_processing` is never reset).
- `send_scheduled_messages` selects `content__reply_to`, a relation
  `MessageContent` does not have; `send_message_internal` overwrites its
  parameter `reply_to`; `read_history` of a basic group filters peers with
  `id=list(...)`; `_process_media` never fills `answers`, so every quiz is
  refused; the wait of slow mode is computed negative, and forwarding to a
  channel returns before it is recorded.
- After `flush_outbound` has turned a failed write into `disconnect()`,
  `_worker_loop_send` sees a non-empty queue, `flush_outbound` returns without
  awaiting, and the loop never yields: the event loop stands still and the
  clean-up timer never fires (`gateway/client.py:477`), though the repository's
  `README.md:31` says that sessions are stored for up to 10 minutes (`frozen`).
- `form.delete()` does not tell whether a row was deleted
  (`stars_manager.py:846`), so of two overlapping submissions of one form both
  pay, though `tests/test_stars.py:318` expects `FORM_SUBMIT_DUPLICATE`.
- *Update log.*  Updates about nothing store a row at the current pts, so a
  slice boundary can lose the real update with that pts.  Discussion reads and
  `UPDATE_CHAT_BANNED_RIGHTS` are stored but never rendered.  `delete_history`
  for everyone pops the newest id, and an empty list raises.  Pins, edits,
  deletions and `update_user` push before they store.
- *Group calls.*  Two overlapping creations leave two open calls, and
  `get_or_none` then raises.  `_delayed_leave` removes the registration of a newer
  timer, and a reconnection with a new session cancels none.  A pause sent
  before `/api/join` is dropped by the SFU but cached as done; a late
  `leave_sfu_peer` removes a peer that has rejoined; a discarded call regains a
  participant or a room from an overlapping join.
- *SFU.*  Two concurrent `pipe…` functions make two consumers for one producer;
  an unpause during `transport.consume` leaves the consumer paused; leaving
  during a join leaves a producer without a peer; a peer whose producer fails
  hears nobody who was there before.
- *Phone calls.*  The first device that rings becomes `to_sess`; `ReceivedCall`
  reads without a lock and can overwrite it after another device accepted;
  overlapping discards log the call twice.
- *Secret chats.*  Rows inserted out of the order of their qts make
  `getDifference` skip one for ever; `receivedQueue` deletes a late row nobody
  has seen; `discard_encryption` reads without a lock;
  `EncryptedChat.access_hash` has a default evaluated at import.
- *Entities.*  `channels.update_color`, `transfer_chat_owner`,
  `_unlink_channel_maybe` and BotFather's settings change what is cached without
  a version; two saves from one version give it to two contents; a cached object
  that is saved again by `User.to_tl` revives a deleted key; `ChatBase.update`
  compares the description with the name; `Chat.to_tl_bulk` pairs chats with a
  cached list that skips some; overlapping votes make two rows;
  `promote_channel_admin` looks at `is_admin` after setting the rights.
- *Lists.*  Every pinned dialog gets index 0, so the limit is not reached and
  `reorder` without `force` turns the others round; a saved dialog at index 0
  cannot be unpinned; moving a sticker takes the position asked for as the old
  one; reordering sticker sets raises after saving; a refused new folder leaves
  a row with id −1 that blocks every later one.
- *Bots.*  `_replacesticker_image` clears the old sticker's position before it
  passes it on; handlers registered with `.do(…).delete_state()` never delete
  the state, so the next text is applied again; `/cancel` raises for
  `EDITBOT_WAIT_COMMANDS`; two overlapping last messages make two sets, bots or
  broadcasts.
- *Bot API.*  `notify` removes the topic, so an answer between the first and the
  second listen is lost; `answerCallbackQuery` says true whatever it was given;
  `set_inline_bot_results` sets `item.query` to the item, so a non-empty answer
  is refused by the database; updates are removed when they are answered; what
  is left pending after the last attempt of a webhook is neither posted nor
  polled; ids start again at 1 after a restart, and an old offset drops updates.
- *Sticker sets.*  Handlers that start from a sticker load the set without its
  thumb, so `to_tl_info` raises after everything was saved; two removals of one
  sticker count it twice; `to_tl_for_user` is cached and never invalidated, and
  `to_tl_messages` caches one user's installed set for all; the thumb is not in
  the hash.
- *History.*  The limit of `get_search_results_positions` is always 1;
  `getHistory` with offset 0 and a negative `add_offset` returns the oldest
  messages; scheduled messages are counted but not shown; positions and calendar
  ignore `min_message_id`; the calendar of an empty peer raises; `getDialogs`
  passes dialogs over when the last message of the offset peer was deleted, and
  repeats or skips those without messages.
- *Threads.*  `send_message_internal` never reaches the branch that sets
  `reply_to_top`; threads follow the group linked now, with the mirror of the
  old one; a deleted mirror is not made again; a crash between saving `forum`
  and making the general topic leaves a forum without one; `read_discussion`
  tells clients of a lower read state than it keeps; two overlapping
  `getMessagesViews` count one view twice.
- *Privacy.*  Contacts do not change a rule's version, so cached access stays;
  `add_phone_privacy_exception` fails after the contact is saved;
  `getStatuses` asks for the access of nobody; rule and exceptions are read in
  two statements, and a mixture may be cached.
- *Uploads.*  A part's row is made before its bytes are written, so a part sent
  again is said to be saved though, after a crash for ever, its bytes are not
  there; an upload can be used once, and a retry of the request raises; only
  wallpapers compare the number of parts, so a file used early is cut short.
- *Keys.*  The answer `AUTH_KEY_UNREGISTERED` is queued but never written, as
  `_drop_auth_key` disconnects the session; of two overlapping binds one hits
  the unique row, or the newer key is deleted; a bind repeated after its answer
  was lost is refused, or answers true without a key; a look-up of a key that was
  deleted keeps the id among the unknown ones, and as `gen_auth_data` is not
  reset, a `set_client_DH_params` that comes again makes its row again: a key
  that is stored and refused for as long as its id is among those remembered.
- *Salts.*  `is_message_bad` compares with a salt that only writing brings up to
  date: after a quiet half-hour a salt that `get_future_salts` announced is
  refused, and the one in `BadServerSalt` is the old one, though the comment at
  `session/session.py:590` calls it the correct one.

## 4. Proofs

`SessionOutboundProofs` proves, for every set of connections and every bound on
messages, that `IndInv` is inductive.  The safety invariants are not inductive
by themselves.  `InIdOrder` and `NothingVanishes` need `WriteInProgress` (the
fields of the write in progress belong together, and the resend loop has a next
message unless the dictionary changed under it); `CleanupScheduled` needs
`OnlyStoredIsServed`.  Each action has a lemma that it preserves `IndInv`;
`PopFacts`, `AppendFacts` and `LeastFacts` are about sequences and the
`CHOOSE` of the next pending id.  The theorems are `TypeCorrect`, `IdOrder`,
`Conservation`, `NoSessionLeak`, `WakeupKept` and the action property
`AckForgets`.  The assumptions are `ConnsAssumption` (connections, the flush
task, the push and `NoConn` are different) and `BoundsAssumption`.

The same module proves `Refinement`: `SessionOutbound` implements `Outbox`
(`Spec => SessionIsOutbox`).  One lemma per action shows which step of `Outbox`
it is, or none.  It stands on `IndInv` (the message a flusher took from the
queue is the first of those waiting, by `InIdOrder`: `PoppedIsFirst`) and on an
invariant of its own, `Traced`: whatever waits, is kept or has arrived was given
an id, and what the resend loop writes is kept, acknowledged or finalized.

`RpcDispatchProofs` proves `RequestsServed`: `RequestsInOrder` for any
connections, requests, packets and size of the completion table.  The inductive
invariant `DispatchInv` adds to type correctness that what is completed is
settled (`completed \subseteq settled`, `DoneIsSettled` for the tasks that have
finished) and, for each receive loop (`LoopsFine`), that the event it waits for
is the one of the table or was set, and that all ids before its position in the
list were settled.  That every message is answered or given up exactly once
counts the places of an id in all packets (`Held`); `CountMoves` reduces this to
the packet of the one loop a step moves, and the lemmas on `Places` say what
taking the head of a packet does to them.  Packets are finite, connections need
not be.

`UpdateLogProofs` proves `PtsOnce`: `PtsTakenOnce` for every set of emitters and
limits, and whatever numbers of messages updates are about.  `PtsInv` adds that
the counter is a number not below what any emitter holds, and that the steps an
emitter has left fit the row of its table (`Ready`): it stores at most once, and
only rows within the pts it has taken (`Offsets`, proved for every kind of
`UpdateKinds`).  It uses `ItemsAssumption` (numbers of messages are natural).

`CallsProofs` is about the four components of `MCCalls`, which chooses one
in `Init`; the theorems are about its `Spec`, whose constants the proofs leave
open but for `TasksAssumption` (the id 0 and the timer "none" stand for nothing,
and timers are not requests), `RoomAssumption` (joins are positive numbers and
no other requests, a room that is there from the start has join 1, and "none" is
no peer) and `QtsAssumption` (a bound is a number).  It proves, for any devices,
calls and requests at once, `PhoneCallsInOrder`, for any number of senders and
updates `SecretsKept`, for any users, managers, calls, requests and timers
`GroupCallsInOrder` and the action property `CallStepsRight`, and for any peers,
joins and other requests at once `RoomHeard`.

For phone calls, `PhoneInv` says which devices are about to write a call they
read before (`RingsAreMarked`) and which requests are about to end one
(`EndsAreMarked`: one at most, of an open call, unless marked).  For
secret chats, `SecretInv` says that senders hold different qts (`SendersApart`), that
rows have different ids (`IdsApart`), that whenever a lower qts has the later
row one of them is marked (`OvertakesMarked`), that what was taken out of the
queue was got (`TakenOutIsGot`), and what a difference in progress has yet to
give (`DifferenceCovers`).

What is promised of group calls speaks of states in which nobody is at work, so
`GroupInv` has to say what those who are at work will still do.
`TasksAreShaped` says for each step of each request and timer what it may hold:
the user, the call, the rights, the row it has read.  `CallsAreFresh`: of a call
that was not made there are no rows, no traffic and no state on the SFU.
`OneCreates`: while two open calls are not excused, at most one creation is past
its look at the open one.  `OversAreTidy`: a discarded call that is not excused
has nobody at work on it but those who will empty it, and is empty as soon as
there are none.  `SomebodyCounts`: where everyone has left an open call, a
request or a timer has yet to count the participants.  `SfuFollows`: for every participant nobody
raced about, what the SFU has, or will have when the posts on their way and the
join in progress are done, is what the row says.  `TimersAreKnown`: a timer of a
user who is back was cancelled, is registered, or is one of those named as lost.
Each request preserves the invariant by one of a few lemmas about its shape:
it only moves on (`TaskMoves`), or writes about one participant (`OneActs`).

`RoomHeard` is `RoomIsHeard`, which again speaks of quiet states: who is in the
room then has a consumer of everyone else who is not excused, paused as the flag
says.  `RoomInv` says who will still make it so.  `AllFit` is what each handler
holds at each step; `ObjectsApart` and `StreamsOwned` give every transport,
producer and consumer to one peer object, and every object to one peer.
`OneAtATime`: of the requests about a peer that did not cross, one at a time
joins, leaves or deletes, on the peer's present object, whose transport in use is
the only open one.  `Equipped`: who stays has a transport and a producer, or a
join in progress that will make them.  `AllMeet` is the heart: of any two peers
who stay, the producer of the one has been consumed by the other, is on its way
in a handler, waits in `pending` for a transport that is not connected, or a join
of one of them has yet to come to it.  Two joins at once cannot miss each other,
because each has its peer in the room and its producer made before it lists the
others.  `SoundsRight`: producer, consumers and those being made follow the flag,
or a pause or join in progress will make them.  `NobodyLeft`: what is produced is
of somebody in the room, or is among what a deletion in progress has to close.
Handlers of different kinds keep this by a lemma on each shape of step: those
that only carry producers on (`OnWorks`), close, pause, or make something new.

`StarsProofs` proves for every set of accounts, users, forms and tasks that a
wallet equals the sum of its transactions and is never negative
(`WalletsMatchTransactions`), type correctness, and `PaymentsRight`
(`PaymentsAreRight`).  `LedgerBalanced` is not inductive: that a debit leaves
nothing negative follows from the balance the task read, which is still the
balance because the row is locked.  The inductive invariant adds that a task in
the middle of a transaction holds the rows it has read (`HeldBy`), that a
missing row counts as an empty wallet (`NoRowIsEmpty`), and that what a task
works for is a form (`WorkIsForm`).  `PaymentsInv` goes on from there: the
stars in all wallets and in transit are what was minted (`StarsConserved`); a
task past the bot's question has its approval; and per invoice, as long as it
is not doubtful, at most one task is between debit and receipt, a payment has a
receipt or a task that will write it, and a task before the debit means there
was no payment (`PaidOnce`).  Sums over accounts and tasks are folds, which the
provers cannot expand by induction: `SumIsTable` shows that `SumOf` is what a
recursive function on an enumeration gives (`TablesExist`), and `SumChanges`
that changing one value changes the sum by the difference.  The assumptions are
`KindsAssumption`, `NamesAssumption`, `StarsBoundsAssumption` and
`FiniteAssumption` (a sum needs finitely many accounts and tasks).

`SessionAuthProofs` proves `PasswordFirst`: `NoRequestBeforePassword` for every
set of sessions, tasks, users, channels and keys and every number of requests.
The property is about requests at the worker's gate; the invariant
(`PasswordInv`) says the same of everything a request's fields come from: a row
(`DbInv`), a session's copy (`SesInv`), and a task's copy or the row a query has
on its way (`TaskInv`), each of which either waits for its password or has an
authorization in `cleared`; `MemInv` types the cached lists.  It is preserved
because copies are only ever made of whole triples (user, authorization,
pending) and `cleared` only grows.  `SessionCurrent` (`SessionIsCurrent`) needs
more: `MapsHold` follows the broker's maps through a refresh, which changes the
session first and its subscriptions a step later, so that for each step of each
task it says which pairs are still those of before; `Within` says that of the
authorizations which were gone at the last look-up a session keeps one only
while a task is applying the answer.  Both are about sessions outside `raced`:
for these, at most one task of the session is between asking and applying.
The assumption is `AuthAssumption`.

`MessagesProofs` proves all four invariants of the runs `messages` and
`scheduled`, and the action property, for any numbers of requests, messages,
edits and jobs.  `RowsInv` is the base: rows refer to rows that exist, ids are
below the counters, no id is used twice, and for each step of a request what it
holds in its variables between two queries (`Holds`).  On it stand, each with
its own theorem:

- `NamesInv` for `RetriesAreOne`: a copy in its sender's dialog carries the
  random id of its content, and no two rows of a dialog share one, which is the
  unique index;
- `SentInv` and `CacheInv` for `PlansKeptRight`: a scheduled ref that was sent
  has an id that was given and is nobody's now; what is cached, or about to be,
  is the text of its version or of an older one (`Agrees`);
- `LastMessageIsLast`, `MessagesAreShown` and `PinsInv` for `DialogsRight`: the
  first two are inductive with `RowsInv`; a pin in progress names both copies of
  a message or neither (`PinsTogether`);
- `ReadsInv` for `ReadsRight` and `OnlyOvertakenGoBack`: the refs of a dialog
  are in the order of the contents but for the late ones (`InOrder`), what a
  sender marks as read has nothing unseen before it (`OwnRight`), what a reader
  marks covers the messages up to its content (`MarkRight`), and a task that
  nobody has overtaken marks no less than is marked (`Ahead`).

The assumption is `MessagesAssumption`: two users, `None` is not a value, and
the bounds are natural numbers.

`ServicesProofs` is about the components of `MCServices`; its theorems speak of
`ServicesSpec`, with the constants of the components left open.
`MembersInOrder` proves `MembersAreInOrder` for any users, limits, numbers of
requests at once and in all, and `OnlyEntry` the action property
`OnlyEntryReadmits`.  `MembersInv` (in `ChannelMembers`) is the inductive
invariant.  A request has what it read (`Consistent`), and as long as no other
request is about the same user that is still so (`Undisturbed`, `Apart`).  The
limit of admins is no invariant by itself: `CountLags` says that the count lags
behind by no more than the requests that are about to synchronise it, and
`GainsBounded` counts those that have looked at the count and may still make
an admin together with the admins there are; a request that begins cannot be
one of both kinds.  The limit of members counts who is a member or about to be
(`Entering`), which grows only where there is room.  `Composed` puts the parts
together; `Spares` is what a step of one request leaves to the others.  The
attempt corrected the model: a creator who has lost all rights and asks for
none is given all of them without a look at the limit
(`app/handlers/channels.py:743`), which `strays` has to count and bounded runs
had not shown.  The assumptions are `SetsAssumption` (users and requests at
once are finite in number), `AppsAssumption` and `BoundsAssumption`.

`KeysAndSaltsRight` proves `KeysAndSaltsHold` for any connections, keys, binds
and mishaps, and for salts that are valid for any time.  `KeysInv` (in
`AuthKeys`) has to connect what a client was told of a key with its row, over
packets that wait, handlers between two awaits, and binds that outlive their
connection.  `PacketsFit` and `BindsFit`: what is on its way about a key is what
the client asked for and was told; `AskedOnce`: two handshakes never wait for the
same key, so that its kind does not change; `RowsAsAsked`: a row is of that kind.
`LostForAnother`: a key of which the client knows, or is about to, and whose row
is gone is a temporary one, and another is bound or about to be; it holds because
rows are only deleted by a bind that goes on to update a row which was there.
`OneBound` and `OneBinds` follow the two statements of a bind, and
`UnknownAreLost` says that an id is only remembered as unknown when its row was
deleted.  `KeysAreAgreed` and the other two follow by `KeysRight`.  `SaltsInv` (in
`Salts`) says what a second refusal may still tell: after the first of a salt,
the session is up to date as soon as the refusal is written.  The attempt
corrected the model twice.  `StoredIsNotUnknown` was not true of a key whose row
was made again, which the bounds of the run did not reach: the property now names
these keys, and the run reaches them.  And a key that had expired while bound
still counted as such after it was deleted.

The invariants of all the proofs were checked by TLC on the instances of the
runs before they were proved.

Only model-checked: liveness (out of the prover's reach); `MissesOnlyRaced` of
`UpdateLog`, whose rows are compared with those of an earlier state; and everything
about `Entities`, `UserLists`, `Uploads` and `BotApi`, and about the modules of
`MCContent`.

## 5. Plan

What would add most next:

1. Theorems about the other modules of `MCServices` and those of `MCContent`: first
   `Uploads` (`UploadsAreWhole`), `Threads` (`ThreadsAreWhole`) and `BotApi`
   (`BotIsTold`).
2. The life of a login code and of a QR token, and rate limits, beside
   `SessionAuth`.
3. Migration of a basic group, and messages of groups and channels (slow mode,
   `send_as`), as a variant of `Messages`.
4. A composition of `SessionAuth`, `UpdateLog` and `SessionOutbound` (a push finds
   the sessions of a user, which write it), with "what is pushed or in a
   difference reaches the device" as its abstract specification.

## 6. Not modelled

- *Transport, message codec, TL serialisation, layer converters*: byte formats
  and tables; the models take a packet for what it says.
- *Cryptography* (Diffie-Hellman, SRP, hashes): values are named, and what a
  check refuses is not sent.
- *Migrations and system data, tools, scripts, tests, the UDP reflector*: not
  part of the protocols, or stateless.
- *Language packs, help, stories, reports, stubs*: queries and constant answers.
- *Login codes, QR tokens, rate limits, web authorizations, drafts, wallpapers,
  gifs, emoji groups*: single rows that one request writes.  Of users and
  photos, what is cached and told is in `Entities`.
- *Several processes*: gateway and workers share the database and the broker in
  every module; the connection to RabbitMQ and its loss are left out.
- Inside modelled parts: what each module's comment and its entry under
  "components" in `PROJECT.json` say is left out.
