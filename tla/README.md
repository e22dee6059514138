# TLA+ models of the multi-tenant WhatsApp API

This directory holds TLA+ specifications of the server under `src/`, the TLC
configurations that check them on small instances, and TLAPS proofs of what
matters most. `PROJECT.json` is the machine-readable index: components, runs,
mutants, the map from definitions to source lines, findings, hazards and
theorems.

## The system

A FastAPI process on one asyncio loop serves many tenants. Each tenant has a
Node child process, the *bridge* (`src/bridge/index.mjs`), that speaks to
WhatsApp through Baileys and to the server in JSON-RPC lines over its pipes.
Everything that lasts is in SQLite (one connection) or PostgreSQL (a pool), and
in the bridge's auth directory.

| Component | State | Operations | Talks to |
|---|---|---|---|
| Restart governor (`tenant/__init__.py`, `main.py`) | `_restart_history`, `_last_cleanup`, `_restarting` | `can_restart`, `record_restart`, `_cleanup_restart_history` | called by `_restart_bridge` |
| Tenant lifecycle (`tenant/__init__.py`, `main.py`, `admin/routes.py`) | `_tenants`, `Tenant.bridge`, `connection_state`, `has_auth`/`creds_json`, `health_failures`, `_restarting` | startup restore, `get_or_create_bridge`, `_restart_bridge`, health loop, connection events, settings change, admin reconnect/clear/disable/delete | bridge client, persistence |
| Bridge client (`bridge/client.py`) | `_running`, `_process`, `_pending`, `_request_id`, reader task | `start`, `call`, `_read_loop`, `stop`, `is_alive` | the bridge's stdin and stdout; event handlers in `main.py` |
| Node bridge (`bridge/index.mjs`) | `sock`, connection state, QR code, history flags and timer, store, auth directory | request dispatch, `createSocket`, `login`, `logout`, the methods, events | WhatsApp, the server |
| REST routes (`api/routes.py`) | none of their own | one call of the bridge each, answered 200, 400, 500 or 503 | HTTP clients, bridge client |
| Event dispatch (`main.py`) | tasks nobody waits for | store, cache media, tell the webhook, copy to Chatwoot, log | all of the below |
| Persistence (`store/database.py`) | tables, the open transaction of the shared SQLite connection | save/load/delete tenants, credentials, session state, messages, contacts, attempts, admin sessions | called by everything |
| Session auth (`tenant`, `database`, bridge) | credentials in memory, in the database and in files | `auth.update`, `save_auth_state`, `_restore_auth_to_filesystem`, `initialize` | |
| Rate limiter and API auth (`middleware/ratelimit.py`, `api/auth.py`) | request windows, failed attempts, blocked addresses | `check_rate_limit`, `record_failed_auth`, `block_ip`, cleanup; the key dependencies, in worker threads | every request |
| Webhooks and message store (`webhooks`, `store/messages.py`, `utils/history.py`) | deque of messages, attempts | `send`, retries, `add_with_persist`, history sync | receivers, persistence |
| Chatwoot (`chatwoot/`) | caches, conversation locks, ids and sync marks in the rows | message, receipt and deletion events, webhook replies, history sync | Chatwoot's HTTP API |
| Admin (`admin/`) | sessions, WebSocket list, log buffer, broadcast queue | login, refresh, logout; `add_sync`, broadcast, connect, disconnect | browsers |

Interactions that make it hard: every `await` is a point where any other
coroutine may run; bridge events become tasks of their own (`main.py` 1018-1049)
which may restart the very bridge that reported them; `stop()` cancels the
futures other tasks are waiting for; a bridge may die, stall or answer late at
any time; a restart sleeps for seconds between the checks and their effect; and
all coroutines share the SQLite connection and its single transaction.

What makes each component correct:

* governor: no window holds more restarts than the limit, no two are closer than
  the cooldown, and pruning forgets nothing that still counts;
* lifecycle: one process per tenant and directory, none that nobody can stop,
  restarts serialized and always ended, every crash noticed;
* bridge client: each caller gets its own answer or an end, whatever the order,
  loss or delay of answers, and `_pending` neither leaks nor loses a waiter;
* persistence: what a call reported as written is written, and a delete is whole;
* Node bridge and routes: one live socket, a state reported as connected only if it
  is, a history sent for every connection, and answers that claim no more of WhatsApp
  than the process can know;
* session auth: after a crash or a reconnect the credentials in use are the newest;
* rate limiter: the limit holds in every window and a block lasts its time;
* webhooks, messages: each message delivered and stored at least once, and once
  where an identity allows it;
* Chatwoot: one conversation per contact, no message sent twice by a sync;
* admin: a session that ended stays ended, log entries keep their numbers and order,
  and a connected browser misses none of them.

`hazards` in `PROJECT.json` lists, by line, where these can go wrong.

## Modules and how they correspond to the code

An action is the code of one coroutine between two awaits. Data is reduced to
what the properties tell apart; logging, formatting and payloads are left out.

**`RestartGovernor`**. `CanRestart`, `CleanedHistory`, `BeginRestart`, ... are
`can_restart`, `_cleanup_restart_history` and the use `_restart_bridge` makes of
them. Time is a counter of seconds (`Tick`). A timestamp in `_restart_history`
is represented by the number of the restart among the tenant's restarts, so
`history[t]` is a set of numbers and a missing key the empty set; `restarts`
remembers all of them for the properties.

**`TenantLifecycle`**. `tenant` holds the Tenant objects, `obj` the
BaileysBridge objects with their processes, `task` every suspended coroutine
(the point where it waits, the tenant and the bridge it holds), and
`loop`/`todo`/`checking` the lifespan task: `restore_sessions` at startup, then
`connection_health_check`. Requests are `call`, `reconnect` (single and bulk),
`settings`, `clear`, `disable` and `delete`. `stop()` returns without yielding
when `_running` is false, and that is how it is modelled: `BeginStop` has an
effect on a running bridge only. A database write is a suspension only where the
code compares what it read before with what it finds after.

**`BridgeRpc`**. One bridge, its pipes as sets of lines (a bridge answers in any
order), `_pending` as the set of its items, one record per call with its
future. `wait_for`'s race between a timeout and the completion of the future is
kept: until the caller runs again, either may decide. The health loop's calls
are the `Impatient` ones, which a `wait_for` of the caller may end from outside.
A bridge may stall with a full pipe, so that `drain()` waits.

**`RpcPromise`** is what `call` promises: a call is settled once, an answer is
the bridge's own to that very call, and a failure says nothing about whether the
bridge performed it. `BridgeRpc!PromiseKept` is the refinement.

**`SharedConnection`**. SQLite's one connection: an action is one statement of
the connection's thread (`BEGIN`, a write, `commit()`, `ROLLBACK`) for one job.
A job is a call of one of the `Methods` that leave the transaction to the driver
(`Does` says which), a `save_tenant` or a `delete_tenant`, whose four deletes are
four statements. Most methods are one `execute` and one `commit`; `save_creds` is
tried again by `_with_retry`, `delete_tenant_messages` commits after each of its two
deletes, `populate_contacts_from_messages` and `cleanup_old_data` once after several
writes (neither of the two has a caller: the theorems cover them, the runs
leave them out). A mark `<<j, k>>` stands
for what statement `k` of job `j` writes; `working` are the marks of the open
transaction, whoever made them. Python's driver begins a transaction before the
first write, SQLite refuses `BEGIN` inside one, `commit()` without one succeeds
and `ROLLBACK` without one raises. A statement or commit that fails keeps the
transaction (`KeepsOpen`: a lock, a constraint) or SQLite ends it (`Discards`: a full
disk, an I/O error), and with it what other jobs wrote; only the first kind is
transient and tried again. `lost` are the marks that a job still at work lost to
another job's `ROLLBACK` or failure.

**`SessionAuth`**. One tenant's credentials, numbered by renewal, in the four
places that hold them: the socket (`bridge.creds`), the file and its directory,
the Tenant object (`mem`) and the row (`db`). `pipe` holds the events the reader
has not seen, `writes` the database writes under way; on SQLite they are done in
their order, on PostgreSQL in any (`backend` is chosen in `Init`).
`creds.update` is three steps, `Renew`, `SaveCreds` and `Report`, because the
handler awaits the file before it exports it: a logout in between removes the
directory, and the event then reports blank credentials. `Blank` stands for that
export and for a missing file, `Absent` for `creds_json = None`. A history
variable `cut` says that an event or a write was lost (a bridge or server died,
or `stop()` dropped the pipe) since the credentials were last forgotten, `late`
that the pool ran a later write first; the properties allow a difference only
then. Assumed: credentials for a new pairing need the QR code or pairing code,
which passes through the same pipe and so comes behind the event of an earlier
logout; the tasks an event creates begin before a later `stop()` has ended;
writes succeed in the end (`SharedConnection` is about those that do not).

**`NodeBridge`**. The Node process: `sock` is the global, `wa` the sockets it has
made (how far each is, and whether it still has listeners), `state`, `self`,
`qr` what `get_status` would say and `told` the last event sent. A handler
begins in one action, up to its first `await`, and continues in another. A
method is a *shape*: how many operations of the socket it awaits, whether it
throws without one, reads a file first, passes failures over, ends with a
`sent` event, and whether WhatsApp answers its operations or the socket only takes
them (a message, a receipt, a presence). An answered operation that resolves was
performed; one that is handed over resolves whatever comes of it, also on a
connection that is lost and not yet closed; and one that rejects may have been
performed, because the answer was lost or came too late (`Proceed`). `tried`
counts the operations that are over, `did` those WhatsApp performs, sooner or later.
`createSocket`, `login`, `logout`, AUTO_LOGIN, the
`connection.update` cases, the history chunks and the 30 s timer are actions.
The ghost `crossed` is set where two of login, logout and AUTO_LOGIN overlap or
a replaced socket still speaks: the code has no guard there, and `OneSocket`
claims nothing of the state afterwards, so that this overlap is a gap of the code
that no property watches.

**`ApiCalls`** adds the HTTP side: every route, the wrapper it calls, the method
the wrapper names and the shapes that method may take; a route may reject its
input, the bridge may refuse, fail or answer, and `call` may time out while the
bridge goes on. A process that is gone leaves a call failed or waiting
(`AskNobody`). `http` is what each client has been told. `AnswerIsTrue` says what a
client may conclude: 200 that every operation was tried, and performed where
WhatsApp answers; an error that those before the failing one were performed, none
behind it was tried, and it alone is in doubt. That a message answered with 200 has
reached WhatsApp is more than the code knows, and is not claimed.

**`MessageStore`**. A row per message: `kept`, with Chatwoot `ids`, `synced`,
naming a `local` media file. A live message is an insert and then a contact
write (`StoreRow`, `StoreContact`); a history export is a job: `hist` is where it is,
`todo` what it has still to save, `stats` what it will report, `added` the rows it
inserted and `missed` those of them whose contact write failed. SQLite's `lastrowid` is the flag `inserted`, because an ignored insert
leaves the id of an earlier one. `lost` counts all rows whose contact write failed.

**`WebhookDelivery`**. One task per event: `Post`, `BackOff`, `SaveAttempt`; a
post is processed and acknowledged, processed and not acknowledged in time
(`unsure`), or not processed.

**`Chatwoot`** EXTENDS `MessageStore`. The workers (the task of a live message,
of a receipt, and the history jobs) look for the contact and its conversation
and create what they do not find, each step an HTTP request that may be refused,
or performed with its answer lost. The ghost `blind` says that a lookup failed
or that two workers had looked before either created; `doubt` holds the messages
whose copy a job could not record. The caches and locks of
`ChatwootIntegration` live in an object built for one event and hold nobody up.

**`Delivery`** composes the three: `handle_bridge_event` with the tasks each
event starts, the import of an administrator, and the crash of the process,
which ends them all. `Configs` lists the settings to look at.

**`RateLimiter`**. `worker` holds the requests being answered: the middleware
(`enter`, then `check` for `check_rate_limit`) and the counts of the administrator
(`ask`) on the event loop, one at a time, the key dependencies (`key`) in threads.
`is_blocked` is three steps (`Look`, `Drop`, `Forget`), as any of them may be
overtaken; the middleware and `check_rate_limit` each look once, and `Limit`, which
prunes, counts and appends, is a later step that does not look at the block. The code keeps
deques of times and reads their length only: an entry of a request window is
represented by the number of the request among those let through, whose times
`passed` remembers, and a failed attempt by its time and its number among those of
that time. The ghost
`overtaken` marks an address whose new block fell to the expiry of an older one,
`slipped` one of which a request passed its windows in spite of the latest block,
and `since` is the time of that block. These are the two ways around a block that the
code leaves, and `LetThrough` allows no other, and the second to one request only. The other methods
are one step each: their windows are touched by the loop only, and what a thread
does between the prune and the append of `record_failed_auth` can only shift
which attempts count.

**`AdminSessions`**. A row is fresh, old (four hours or less are left), expired
or gone; a request reads it, reads it again and may renew it, and a login or a
logout may delete it in between.

**`AdminFeed`** EXTENDS `AdminSessions`. An entry is added (`Add`), then offered
(`Offer`): left out by the throttle, or put into the queue in two steps (`AskFull`,
then `Put` or `DropFull`, whose warning is an entry itself): `put_nowait` has no lock,
so the loop and the thread that holds the handler's lock may both find the last place,
and the queue is one longer than its size at most. `taker` is the broadcast task; `asyncio.Queue.get` looks and parks
in two steps, since a `put_nowait` from a thread may fall between them and wake
nobody. `casts` are the broadcasts under way, each to its copy of `conns`; the order
in which a broadcast reaches the sockets, that of the list, is left open. Ghosts
`got` and `due` are what each socket received and should have.

**`Access`** composes limiter, sessions and feed; `Configs` says who is about.

`MC*` modules and `.cfg` files give TLC its instances. Definitions with a
comment "Mutant" are plausible bugs; each property of a passing run is violated
when its mutant replaces the definition it mutates.

## Runs

| Run | Bounds | Shows |
|---|---|---|
| `governor` | 2 tenants, 2 restarts per window of 4, cooldown 1, cleanup every 3, clock to 7 | the budget, the spacing and the completeness of the history while restarts, refusals, cleanups and deletions interleave; a cleanup falls inside a window and windows overlap |
| `lifecycle` | 1 tenant, 2 bridge identities, 2 tasks beside the lifespan task, every kind of request | restarts stay serialized and no stopped bridge is waited on, whatever interferes; 3 actors are enough for a check, an act and an interference |
| `core` | 1 tenant, 3 bridges, 3 tasks, calls only, clean database | no orphan, one process per tenant, every crash noticed while the loop lives, every restart ends |
| `rpc` | 2 calls, one impatient | answers, timeouts, stop and exits in any order; the promise is kept |
| `connection` | a write tried at most twice, a `delete_tenant_messages`, 1 `save_tenant`, 1 `delete_tenant`, failures and crashes | one job of each kind is enough for each pair to interfere: what is missing of a finished write another job discarded, by `ROLLBACK` or by a failure on which SQLite ended the transaction, only a foreign `commit()` halves a transaction, nobody but a failed plain write leaves one open |
| `session` | 3 renewals, 2 events in the pipe, 2 writes under way, both backends | three renewals let one copy be old, one current and one in flight: memory and row agree once writes are done, a socket never opens with less than the server knows, ended credentials are forgotten and nothing newer is overwritten, unless an event or write was lost or overtaken |
| `requests` | any 2 requests, 2 sockets | one live socket and a true "connected", answers that claim no more than is known, every connection synced; two requests are enough for a login, a logout or a send to cross another |
| `delivery` | 2 messages, 1 receipt, 2 jobs, 2 attempts per webhook, 2 conversations, 2 copies, crashes; settings one after the other | what history jobs and contact counts report, what the webhook was told, one conversation and accounted copies under failing and lost answers; two writers of one contact and two jobs of one message are the smallest conflicts |
| `access` | 2 addresses with one request, or 1 with two or for longer (limits 1 and 2, windows 1 and 3, 2 failures); 3 sessions and 2 browsers; 2 sockets, a queue of 1, entries from the loop and a thread, a broadcast beside the feed | nobody is let through that the windows forbid, or a block but for the two gaps named above, an ended session stays ended, connected sockets miss nothing; the limits are low so that windows fill, expire and are cleaned within the clock |
| `own_bridge` (violation) | administration, clean database | two live processes for one tenant |
| `self_healing` (violation) | no administration | the health loop ends when a restart cancels its call |
| `lost_write` (violation) | 1 plain write, 1 `save_tenant`, no failure | a write reported as done is not in the database |

`Bridges` are identities reused once nothing refers to an object; an action that
needs a fresh one waits until there is one, so a run with few of them leaves out
only behaviours with more objects at once. `MaxFailures` is 2 so that a failure
that does and one that does not reach the limit both occur. The runs turn
deadlock checking off: the system may stop (the clock's horizon, a failed
startup, all calls made).

**Fairness.** The event loop runs ready tasks, sleeps end, `create_subprocess_exec`
returns or raises, and calls time out, so every coroutine's own next step is
weakly fair, as is the lifespan task. Nothing is assumed of bridges, which may
be silent or die, or of clients. In `BridgeRpc` the only fair step of the bridge
is its exit once `stop()` waits for it, because `stop()` kills it after 5 s. `SessionAuth` states safety only and assumes no fairness. In
`SharedConnection` a job in transit goes on, since the connection's thread serves
its queue; nothing says that jobs begin. In `ApiCalls` the only fair step is
`SyncTimeout`, a timer of the running process. `Delivery` and `Access` state
safety only.

**Clean database.** `core` and the violations start from a database in which a
tenant is recorded as connected only if its credentials are there too. Without
that, `restore_sessions` skips a tenant that the health loop then reports, which
the `lifecycle` run and its theorems include.

## Proofs

All theorems hold for every value of the constants under the named assumptions.

* `RestartGovernorProofs`: `IInv` says that the history of a registered tenant
  contains every restart younger than the window and that recorded restarts are
  ordered and spaced; `RestartBudget` follows because an admitted restart sees
  all that count. Assumption: `GovernorAssumption`.
* `TenantLifecycleProofs`: `IInv` relates the flag `_restarting` to the tasks
  inside the section, and the awaited bridge to its `run` state. The flag alone is
  not inductive: a task in the section must hold the tenant whose flag it set. The
  second half of the module assumes no administration and a clean database; there
  `CInv` says which task holds which bridge at each suspension point (a starting
  bridge is held by exactly one task, a restarting tenant's bridge is down or being
  stopped), from which `NoOrphan` and `OwnBridge` follow. `own_bridge` shows
  that the assumption about administration is needed.
* `BridgeRpcProofs`: `IInv` ties every line in a pipe and every entry of
  `_pending` to the number of the call that made it, numbers being used once;
  it gives `AnswerMatches`, the properties of `_pending` and, by step
  simulation, the refinement of `RpcPromise`.
* `SharedConnectionProofs`: `Executed` follows each statement of a job
  into the transaction, the database or the marks that another job discarded; `AttemptLeft` bounds the retries. `DurableHolds` shows that without
  `save_tenant` and without failures nothing is lost: without failures the
  counterexample of `lost_write` is the only way. Assumption: `ConnectionAssumption`, for every
  choice of methods in `Does`.
* `SessionAuthProofs`: `SessionInv`. `RowAgrees` speaks of a state without writes
  under way, so it needs `Replayed`: the queued writes, applied one after the other to
  the row, give the Tenant object (a function of the queue's places names the rows in
  between, since a fold over the queue is beyond the provers). `EndedForgotten`,
  `OpensWithKnown` and `RestoresNewest` need an order: what is on
  the way is valid (`Saving`), the event of a logout comes behind every event with
  the credentials it ends (`LogoutBehind`), and the file is reported, about to be, or
  known, unless something was `cut` (`Reported`).
  Assumption: `SessionAssumption`, two natural bounds.
* `ApiCallsProofs`: `ApiInv`. `OneSocket` is not inductive: `Uncrossed` adds that
  as long as nothing crossed, a socket is created only while there is no other and
  by the one login or start under way, `Heard` that the global socket has listeners.
  `AnswerIsTrue` follows from `Progress` (how many operations each step of a method
  has behind it, of a shape that is in `Methods`) and `Told` (what the client
  heard, with the point the method had then reached); whether an operation that
  rejects was performed is open in every step. Assumption: `LayersAgree`, which
  TLC evaluates on the tables as they are written: every route has its wrapper, every
  wrapper its method, and no method both passes failures over and sends.
* `DeliveryProofs`: `DeliveryInv`, by component. `WebhookTold` needs how far a task can
  have come (`HookProgress`), `StoredIsNew` that an insert gives an id on PostgreSQL only
  if the row is new, and that a cached message has a file (`StoreProgress`).
  `OneConversation` needs `OneCreator`: without `blind`, at most one worker is about to
  create, and none once a conversation exists. `CopiesAccounted` needs `Holding` and
  `Doubtful`: a message that two jobs hold, or that was read with a copy, is already in
  `doubt`. A crash, which ends all workers at once, is one more step of each part.
  Assumptions: finite sets of messages, and workers of three disjoint kinds
  (`ChatwootAssumption`), which are three kinds of coroutines.
* `AccessProofs`: `AccessInv`, of three parts that share no variable. `LetThrough`
  counts every request ever let through, the code only its tables: `Windows` says
  that each table contains all that its window still counts, although cleanup,
  statistics and checks prune it with three cutoffs; `BlocksHold` that an entry is
  that of the latest block and that an address without one may be served; `Seen` that a
  request past its last look may be served, or its address was blocked since and nobody
  has slipped through that block, because the loop holds one such request at a time.
  `EndedStays` needs that a request past its first look holds a cookie that was given
  out. `NoneMissed` needs that an open socket not yet served in the broadcast under way
  is behind by exactly its entry (`Following`), that broadcasts beside the feed remove
  only sockets that have gone (`Connections`), and `InOrder` that of each kind one entry
  at a time is added and not offered (`AddingOK`), after those queued (`QueueOK`), which
  come after those sent (`DueOK`). Assumption: `AccessAssumption`,
  that `Configs` names members of the constants, and bounds of at least 1.

TLC is left with liveness (`CrashHandled`, `RestartEnds`, `CallEnds`, `StopFrees`,
`JobsEnd`, `OpenIsSynced`), which needs ENABLED. The three violations are not
theorems. Every other property of a passing run is one.

## Findings

1. `own_bridge`: `stop()` ignores a bridge whose `start()` is still awaited
   (`bridge/client.py` 73), so replacing it leaves two processes.
2. `self_healing`: a `CancelledError` from `stop()` ends the health loop for all
   tenants (`main.py` 267).
3. `lost_write`: `save_tenant`'s `BEGIN` is refused while another coroutine has
   written and not yet committed, and its `ROLLBACK` discards that write
   (`store/database.py` 570).

Seen while reading, with no property of their own:

* Bridges: a failed `start()` in `get_or_create_bridge` leaves a bridge that is
  never started. `_restart_bridge` builds the new bridge without
  `auto_mark_read`. `update_settings` sends null for what the request leaves out,
  and the bridge takes anything but undefined as a new value.
* Methods: `/api/send` accepts media as an http(s) URL only, and the bridge reads
  it with `readFileSync`, so that such a send fails. The buttons route sends
  `display_text` and the bridge reads `text`; the list route sends `row_id` and
  the bridge reads `id`. `fetch_chat_history` and `get_profile_picture` answer
  200 when an operation failed (`lenient`). A client that is told of an error may
  find the group created: nothing tells it to look before it tries again.
* Connection: an `open` event after `sock` was set to null is an unhandled
  rejection that ends the process. A late `loggedOut` close removes the auth
  directory of the login that followed. Only the first history chunk is exported.
  The stores survive a logout, so the next account's export has the chats of the
  previous one.
* Messages: on SQLite a duplicate counts as stored, and increments
  `message_count`, which contacts events increment too. A media URL written
  before the row of its message exists is lost. On a full disk SQLite may end the
  transaction all coroutines share, and the `commit()` of the others then succeeds
  without their writes.
* Chatwoot: `docs/chatwoot-integration.md` 325-334 promises a history sync that
  skips duplicates, but messages copied live are not marked and are copied again.
  `sent` events carry `message_id` where `handle_message` reads `id`, so their ids
  are never stored. Two events of one contact that both look before either creates
  make two conversations, as the lock lives in an object built per event
  (`OneConversation` excludes this by `blind`). A deletion that comes before the ids is lost. An agent's
  reply comes back as a `sent` event and is copied as an outgoing message, with
  nothing that tells the webhook handler it is the same. `set_config` crossing
  `setup` can lose the inbox id.
* Limiter: `block_ip` called in a worker thread finds no event loop and sends no
  `security_event`, so that the dashboard hears only of the blocks the middleware
  or an administrator set. Unblocking an address clears its failures but not its
  windows: the next request may block it again. Entries of addresses that never
  come back stay: the cleanup walks the request windows only.
* Dashboard: `docs/admin-dashboard.md` 184-185 says that rate limiting applies to
  all endpoints and that failed logins are tracked; the middleware skips
  `/admin/`, and `create_session` records nothing. A session read just before its
  end and renewed just after lives on. A socket is checked when it connects and
  stays when its session ends. `cleanup_old_data` has no caller.

## Plan

1. Done: the modules above, model-checked, and a theorem for every safety property
   and action property that a run checks.
2. Next, proofs: what each of several parts promises the next as abstract
   specifications with a refinement, as `RpcPromise` is for `BridgeRpc`: the
   credentials as one register that forgets only at a logout, the feed as one
   sequence of which each socket has a segment, and the limiter as a log of requests.
3. Then, if the code moves: Chatwoot's agent replies and settings, which are requests
   to a service whose side of the protocol is not in this repository.

## Not modelled, and why

HTML fragments of the dashboard, telemetry, pydantic models, phone formatting,
configuration parsing, scripts and deployment files: they keep no state, or none
that the properties depend on. Media, templates and payload contents are data.
Chatwoot's group messages repeat the steps of direct ones on another contact; its
bot, settings and setup routes, and agents' replies, are sequences of requests to
a service whose side of the protocol is not in this repository.
