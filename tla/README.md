# Verification of the Node/Express API

TLA+ modules, TLC configurations and TLAPS proofs for the server in `src/`: an
Express and Apollo API over PostgreSQL (Prisma) or MongoDB (Mongoose), with
socket.io and cron jobs, run as three instances behind a proxy that share one
database and one Redis. Paths below are relative to the repository's `src/`
directory unless they begin with `docs/`.

## The system and its parts

| part | state | operations |
|---|---|---|
| session service, `services/session.service.ts` | the `Session` table | `createSession` with the limit of sessions per user and eviction of the oldest; look-ups that delete an expired row on sight; `terminateSession`, `terminateAllSessions`, `cleanupExpiredSessions`; the inactivity timer's reads |
| session routes, `routes/auth.routes.ts` | none of their own | signup, login, logout, refresh, me, session, list, delete all, delete one |
| WebSocket server, `websocket/index.ts` | one room per user, its sockets | authenticate and join; `logout-all-devices`, `logout-device`; `broadcastForceLogout`, `broadcastSessionUpdate` |
| cleanup job, `cron/sessionCleanup.ts` | none | every 15 minutes on every instance: delete expired rows, tell their users |
| authentication, `middleware/auth.middleware.ts`, `services/auth.service.ts`, `lib/jwt.utils.ts` | `User.lastActivityAt` | check and touch the inactivity timer; sign tokens |
| rate limiting, `middleware/rateLimiter.ts` | counters in each process | count, refuse, take back a success |
| todos, `routes/todos.ts`, `repositories/`, `models/` | the todo table or collection | page, read, create, update, delete |
| GraphQL, `graphql/` | a loader cache per request; subscribers in each process | queries, mutations, toggle, subscriptions |
| HTTP metrics, `middleware/metrics.middleware.ts` | gauges and counters in each process | count a request in and out |
| lifecycle, `index.ts`, `config/database.ts` | the connection flag | connect, start, shut down |
| stateless parts | none | roles, validation, headers, compression, configuration, logging |

How they meet. A route authenticates (which reads and writes the timer), calls
the session service, and then broadcasts through the WebSocket server. The
service itself starts a `session-update` for every change it makes. A device
that receives `force-logout` calls `POST /logout`, so an event becomes another
request. The cleanup job deletes through the service and broadcasts. All of
this runs on three instances: the only things they share are the database and
the Redis adapter of the socket rooms.

What is hard. Every function is a chain of awaited queries without a
transaction, so any other request, job or instance may act between two of
them. A session is identified in three ways (row id, login token, the token
the device holds now) that drift apart. Events reach only the sockets that are
connected at that moment. Time decides expiry, and the clock moves between
reading it and acting on it. Queries can be rejected half-way through.
`PROJECT.json` lists the hazards line by line with the properties that cover
them.

What makes each part correct:

- session service: a bounded overshoot of the limit, eviction of the oldest,
  no live session deleted by a cleanup, every expired one deleted in the end,
  every visible change announced;
- routes, sockets and job: they change sessions in no other way than the
  service; a device whose session is deleted learns of it and signs out;
- authentication: nobody is refused for inactivity, or told to have expired,
  who was active;
- todos and GraphQL: an abstract store that both repositories implement;
  answers, cached entries and events that were true at some moment since the
  request began; one confirmed deletion per todo;
- limiter, metrics, lifecycle: counters that are exact in whatever order
  requests end, and a process that ends when it is told to.

## Modules

| module | what it is |
|---|---|
| `SessionService` | the table and the service, for any number of users, requests and jobs |
| `SessionServiceProofs` | theorems about it |
| `CrossDevice` | devices, routes, sockets and the job, built on an instance of `SessionService` |
| `CrossDeviceProofs` | the refinement and the theorems about devices |
| `Inactivity` | the inactivity timer under concurrent requests of one user |
| `InactivityProofs` | theorems about it |
| `TodoStore` | what the repository interface promises, for either database |
| `Todos` | REST routes, GraphQL resolvers, loader and subscriber on top of the two repositories, which implement `TodoStore` |
| `TodosProofs` | its types, and that it implements `TodoStore` |
| `TodosAnswersProofs` | answers, loader, pages and events, built on `TodosProofs` |
| `Server` | one instance as a process: start, signals, limiters, the gauge of active requests |
| `ServerProofs` | theorems about it |
| `MCSessionService`, `MCCrossDevice`, `MCInactivity`, `MCTodos`, `MCServer` | model values and symmetry for TLC |

In each specification an operator whose comment begins with "Fault:" is not
part of the behaviour. It is the same step with a plausible mistake, and it
documents which mistake each property detects (`mutants` in `PROJECT.json`).

### SessionService

`sessions` is the table (rows with id, user, token and two instants). `task[w]`
holds what a worker is about to run and its local variables between two
queries; a worker is a request on some instance, or an instance's job. A step
is one query together with the code up to the next `await`: `StartLogin`,
`Count`, `FindOldest`, `Evict`, `Create` are `createSession`; `FindSession`
then `Expire` or `Terminate` are the look-ups followed by their lazy deletion or
by `terminateSession`; `TerminateAll` is one `deleteMany`; `SweepFind` and
`SweepDelete` are `cleanupExpiredSessions`. `Fail` rejects any awaited query
(`TerminateAllUnanswered` that of `DELETE /sessions/all`), before the database
executed it or after: in the second case the rows have changed, and the broadcast
that the code would have started is skipped. What was done before stays done. Unique constraints are part of the step that meets
them: creating a second row with one token throws, and so does deleting by id
a row that is gone.

The clock counts seconds, because `iat` in a token does: a token is its user and
second, so two tokens of a user signed in one second are equal. `updates`
holds the users for whom a `session-update` has been started. `unheard` is
history: the users whose rows a query changed whose answer was lost, until the
next `session-update` for them.

Abstracted: the device columns of a row, `lastActivity` (displayed only),
password checks, the wording of answers, and look-ups that find nothing.
`createdAt` is read when the row appears, from one clock; the column's default
(`prisma/schema.prisma:51`) is read slightly earlier, so that two inserts at the
same moment may have it in the other order.

### CrossDevice

`S == INSTANCE SessionService WITH Request <- Device`: each device runs one
request at a time, as the worker of the same name, and every route is a
sequence of steps of `S` joined with what the route itself does. `token[d]` is
the access token the device holds, `online` the connected devices, `inbox[d]`
the events on their way to it, `route[d]` the route that runs. `home[d]` and
`lost[d]` are history variables (the row that the device's login created, and
how it was lost while the device was online); no action reads them. `lost` tells
a `DELETE /sessions/:id` of another device ("revoked") from the device's own
("itself"), `DELETE /sessions/all` ("deleted"), eviction, expiry, logging out, and
a query of a request that ended in an error although it was executed ("unanswered").

`DELETE /sessions/:id` compares the user of the row with nobody, and neither does
`Revoke`: any device may name any row (`docs/CROSS_DEVICE_SYNC.md:349` lists that
comparison as a step). `LogOutAllFails` answers 500 with the rows deleted or not.

The browser client is not in the repository. What it does with an event is
taken from what the server sends (target and excluded token) and from
`docs/CROSS_DEVICE_SYNC.md`: it ignores an event that excludes its token or
targets another, and otherwise logs out through its own `POST /logout`,
having closed its socket.

Simplifications to know of: the last deletion of a route or of the job and its
broadcast are one step, so an instance that dies exactly between them is not
covered; an event reaches the sockets of all instances, as with the Redis adapter
(an instance that could not reach Redis when it started falls back to its own
sockets, `websocket/index.ts:51-73`);
`authenticate` in front of the routes is `Inactivity`'s subject and does not
refuse anybody here; the 15-minute life of an access token is only a reason
to `Refresh`, which may happen at any time; `MaxInbox` bounds unread events by
not starting a new logout of others while one is unread.

### Inactivity

One user, several devices, `User.lastActivityAt`. A request is checked
(`Refuse` or `Admit`), sends its update with the instant read at that moment
(`stamp`), the database runs the update some time later (`Touch`), the handler
runs (`Serve`). `login` and `refreshAccessToken` send the update without a
check (`SignIn`). `lastUse` and `lag` are history: when the latest request
served was let in, and the longest that an update was in flight. A request's
path is the one Express shows inside a mounted router. `GET /session` goes on
with the three reads of `getSessionInfo` (`ShowActivity`, `AskExpired`,
`AskLeft`), between which the clock and other requests go on; `answer[d]` is
what they have found. `rewritten` is history. A user who has been deleted counts
as expired in the code (`services/session.service.ts:368-374`); here the user is
always there, and so is the timer, a column that is never null.

### TodoStore and Todos

`TodoStore` is the interface: a table and, for each client, at most one call
that changes it. A call takes effect at one moment and touches one todo; the
answer says "yes" or "no" truly, or, after a rejected query, nothing.

`Todos` has the routes of `routes/todos.ts` and the resolvers of
`graphql/resolvers/todo.resolvers.ts` on top of the repository that `DB_TYPE`
picks. `req[c]` holds a request's kind, the query it awaits next, and its local
variables, among them the entries of its loader. A step is one query at the
moment the database runs it, or what runs when the result is back (`Return`):
the loader is brought up to date, the event is published, the answer is sent. A
GraphQL mutation may have several fields, which run in turn with one loader
(`EndField`). `Fetch` is the second query of Prisma's `update`. `Fail` rejects
a query, before or after the database ran it; Prisma's `update` and `delete`
turn that into null or false. `view` is what a subscriber to `todoChanged` on one
instance has made of the events so far.

`fresh`, `kept`, `moved`, `torn` and `doubt` are history: the states of a todo
since a request began, the todos that were there all the time, the pages
between whose queries a todo came or went, the todos whose events are not
in order by the nature of things (a write through REST or another instance,
two writes that overlap, a write whose answer was lost), and the requests with a
rejected query. `Store == INSTANCE TodoStore WITH call <- ...` is the refinement.

Abstracted: titles are values, `createdAt` is the order of ids, dates and wording
are left out. Requests that only read begin with their first query, because nobody
can tell what they did before. Roles and validation are in front of what is
modelled; where a schema forbids an input (a change without a field through
REST), the model does not send it.

### Server

`boot` is what `startServer` awaits; `flag` is `DatabaseConnection.isConnected`;
`halts` counts the calls of `shutdown` that await `disconnect()`; `open` says that
the listener accepts, `closing` that `shutdown` has called `close`; `apollo` is how
far Apollo Server has come, whose own handler of a signal closes the listener,
ends connections through the plugins of `graphql/server.ts`, and sends the
signal again. `req[c]` is the request on a connection: counted by the limiter of
its path, then by the metrics, then perhaps by a limiter of its route, unless its
body or its token is refused before (`TurnedAway`), handled, ended, and out (`Finish`) or broken off (`Lose`). `count[l]` is the counter of one
client in one limiter. `kept`, `late`, `leaked`, `signals` and `rejected` are
history.

Apollo Server, `express-rate-limit` and the streams of `node:http` are not in the
repository; they do here what `src/` configures them to do.

## Runs

| run | question | instance |
|---|---|---|
| `session_race` | how far can racing logins exceed the limit; is the oldest evicted | 1 user, 3 requests, limit 1, 4 rows; 4.3 million states |
| `session_sweep` | does what was read before an await still hold; what do cleanups delete; is each change announced; does every expired row go | 2 users, 2 requests, 1 job, limit 1, lifetime 1, clock to 2, with fairness; 670 thousand states |
| `session_limit` | does the documented limit hold (no) | 1 user, 2 requests, limit 2 |
| `cross_refines` | is every step of the devices a step of the service; is a device whose session was deleted told | 2 devices of 1 user, limit 1, rows that expire after 1 tick; 1.9 million states |
| `cross_live` | does such a device sign out | 2 devices, limit 2, with fairness |
| `cross_revoke_told` | and if it has refreshed its token (no) | 2 devices, limit 2, clock to 1 |
| `cross_evicted` | does an evicted device sign out (no) | 2 devices, limit 1, with fairness |
| `cross_sweep` | does the job spare devices with a live session (no) | 2 devices, 1 job, clock to 2 |
| `inactive_timer` | how early can a user be refused, or told to have expired | 2 devices, timeout 2, clock to 5 |
| `todos` | are the repositories the store; are answers, cache, pages and events true | 2 clients of 1 user, page and batch of 1, 2 todos or further fields, both databases; 250 thousand states |
| `todo_loader` | does the loader find what is there (no, on PostgreSQL) | as `todos` |
| `server` | are counts and gauge exact; does a signal end the process | 2 connections, limits of 1, MongoDB and GraphQL, 1 signal |

Why the bounds suffice. The limit matters at its boundary, so 1 or 2 with one
or two logins more is where it happens. Races of the service need two workers at
different steps, and a third to overtake both: `session_race` has three. Expiry
needs a row that is live, at the boundary, and expired: lifetime 1 with a
clock to 2 has all three while a worker waits (`session_sweep`), and lifetime 0
is enough when only expired and not expired must occur. A cleanup must be able to hold a
found row while others log in and out. Two devices are an actor and a victim,
and each can play both. The timer needs two updates in flight, the
older written last, and a refusal after it: two devices, and a clock longer
than timeout plus delay. The proofs do not depend on any of these bounds.

Races on a todo need two clients at different queries, of one todo. A second
todo, with a page and a batch of one row, makes a second page and a todo too old
for the loader; a second field of a mutation meets the cache that the first
left. `MaxSize` bounds the two together: todos created plus fields that follow
another, so that there are two todos, or one todo and a second field. The
clients share one user, because only requests of one user race for a todo. In
`server` two
connections are enough for requests that end in another order than they began
and for one that a limiter refuses while another is in flight; a limit of one is met
at once. A second call of `shutdown` comes from Apollo Server. MongoDB is the case
in which the flag goes down by itself; with PostgreSQL that step is missing.

`MaxTime`, `MaxRows` and `MaxInbox` stop the clock, logins and logouts of others.
`MaxCount`, `MaxSignals` and `MaxLeaked` bound the requests of a window, the
signals, and the responses broken off before they are out.

Fairness. In `SessionService` a job is started again and again by `node-cron`;
strong fairness of `SweepDelete` says that the database does not reject a job's
delete for ever, while single rejections remain possible. Nothing is assumed of
requests or of the clock. In `CrossDevice`, steps of a device's
request are weakly fair and reading an event is strongly fair: the real client
reads events while its own request runs, the model lets it wait for the answer,
and without strong fairness an endless series of own requests would starve the
reading. Nothing forces a user to log in, to connect or to log out. In
`Server`, handlers and responses end or break, `disconnect()` settles, and the
callback of `close`, the timer of the crash handler and Apollo Server's handler
run; a client may keep its WebSocket for ever unless Apollo Server is cutting
connections off. Nothing forces a server to finish starting.

## What the runs show

Holding:

- With n requests at a time a user has at most `MaxSessions - 1 + n` sessions
  (`OvershootBounded`), and the reason is `SlotsBounded` below.
- A login never evicts a session and keeps an older one, although the choice is
  made before an await (`OldestIsEvicted`).
- Lazy deletion and the job delete expired rows only, although they act on an
  instant and on rows read earlier (`OnlyExpiredSwept`, `LocalsFresh`), and all
  expired rows go (`ExpiredRowsGo`).
- A change of the list of active sessions is announced, unless the database
  executed a query and its answer was lost (`ListChangesAnnounced`). The one deletion that announces nothing, the lazy
  one, removes what the list no longer shows.
- Routes, sockets and job keep to the service (`ServiceSpec`).
- A connected device that still holds the token of its login and whose session
  `DELETE /sessions/:id` or `/all` removes has an event on its way that hits it
  (`RevokedIsTold`), and signs out (`RevokedSignsOut`). For `/:id` this is so even if
  the answer of the query is lost; an `/all` that is answered 500 tells nobody,
  though the rows may be gone.
- The inactivity timer is behind the user by no more than the slowest write
  (`TimerNearUse`), and so is a refusal (`RefusedNearlyIdle`). `GET /session`
  says "expired" no earlier than that, and together with time left only if the
  timer was written between its reads (`InfoTrue`).
- Both repositories implement the store (`StoreSpec`): Prisma's update may be
  answered null although it was done, but only if the todo was deleted in between
  or a query was rejected.
- What a request answers, publishes or keeps in its loader is a state of the
  todo since the request began and not older than its own last write
  (`AnswersFresh`), "not found" was true at some moment (`NotFoundTrue`), and of
  several deletions one is confirmed (`DeletedOnce`).
- A page fits its total unless todos came or went between the two queries
  (`PageAgrees`). `toggleTodo` flips what is there unless somebody wrote in
  between (`ToggleFlips`): then one of two toggles is lost, for there is no check
  in the write. On MongoDB the loader finds all but the oldest (`LoaderFinds`).
- A subscriber is right about every todo that is changed only by mutations on its
  instance which do not overlap and none of which fails (`ViewFollows`). The
  exceptions are where events are missing or come in another order than the writes.
- A limiter's counter is the failures and requests in flight of its window, less
  the successes of an earlier window that were answered in this one
  (`CountExact`). The gauge of active requests is exact up to responses that
  break after they were ended and before they are out (`GaugeExact`).
- A signal closes the listener unless `disconnect()` is rejected, and the process
  ends (`ShutdownEnds`), with MongoDB's flag down, a second call of `shutdown`,
  or a signal during the start.

Not holding, each with a counterexample (`findings` in `PROJECT.json`):

- The limit of sessions is exceeded by overlapping logins.
- A device that has refreshed its token ignores the event that should log it
  out when another device deletes its session; by the same cause, logging out "all others" deletes the caller's own row
  and logging out leaves the row behind.
- An evicted device is not signed out.
- One expired session signs out every device of the user.
- On PostgreSQL the loader finds no todo: `findAll` is called without a user and
  answers with an empty list. `todo` is always null and `toggleTodo` always throws.

Seen while modelling, without a run of their own:

- Tokens are signed to the second: a device that refreshes in the second in which
  another of its user signs in holds the same token, and heeds the event that logs
  the other one out.
- Polling counts as activity, because the middleware compares a full path with a
  path relative to the router: `ShouldSkip` holds of no path. For the same
  reason `apiLimiter` skips no polling (`middleware/rateLimiter.ts:38-41`).
- The limiters run before `authenticate`, so their key is the address.
- `shutdown` disconnects the database before requests in progress have ended.
- Without GraphQL nothing closes WebSockets at shutdown, and the callback of
  `close` waits for their clients to leave.

## What is proved

Proved by TLAPS for all values of the constants, under the assumptions named in
the modules: `Request` (or `Device`) is finite and disjoint from `Cron`, the
limit is positive, times are natural numbers, `None` is neither a token nor a
row, every device has an owner; `Conn`, the connections open at one time, is finite;
every client of `Todos` is signed in as a user, the page size is positive, and what
clients send for a new todo is complete, as the schemas demand.

SessionService:

- `TypeInvariant`. The typing carries that ids and tokens identify rows and
  that no row is from the future.
- `WhatWorkersKnow` (`LocalsFresh`), then `EvictionOrder` and
  `SweepsSpareActive` from it. The oldest row chosen stays older than what is
  created later because rows are created at the current instant.
- `SlotsTheorem`. Counting rows alone is not inductive: a login that has passed
  the check adds a row later. `SlotsBounded` counts the creations under way as
  well: rows + creations <= `MaxSessions` - 1 + requests. A request that passes
  the check with fewer than `MaxSessions` rows is itself not yet counted, so
  the others number at most requests - 1; a request that evicts gives up a row
  for its slot; one that finds no row to evict finds zero rows. This is also
  why the failing delete of a row that is gone matters: without it a
  request would get a slot for nothing.
- `OvershootTheorem`, and `SerialLoginsKeepLimit`: with one request at a time
  the limit holds.
- `ListChangesReachDevices`: the action property, for every step. The users of all
  rows that a step deletes or creates are told (`BroadcastAccounts`) or, if the
  answer is lost, noted (`ForgetAccounts`), and then the lists that change are
  accounted for (`ListAccounted`). For the lazy deletion and the job it uses
  `LocalsFresh`: the rows they delete were expired when they were read, so no list
  shows them.

CrossDevice:

- `DevicesTyped`: devices, routes and workers agree (which worker steps a route
  may be at, whose tokens and rows a device may hold).
- `DevicesImplementService`: initial states are initial states of the service
  and each step is a step of it or leaves it alone. `DevicesOvershoot` and
  `DevicesFresh` carry two of the service's theorems over.
- `RevokedAreTold`: a step of `DELETE /sessions/:id` or `/all` that takes a row away
  from a connected device that still holds the token, and is not answered with an
  error, appends an event that hits it; reading consumes only events that miss;
  every other way to lose the row, or to stop holding the token, makes the claim void.

Inactivity: `TimerTyped`, `TimerKeepsUp`, `RefusalsAreDue` and `InfoIsTrue`. The invariant adds
the requests that have been written but not yet served. A write at `now` with a
stamp s makes the timer s and the delay at least `now - s`, so their sum is at
least `now`, whatever was overwritten. For `InfoIsTrue` it also says that a session
found expired still is when the time left is read, unless the timer was written
(`StillExpired`).

Todos (`Types` is the typing every other proof rests on, `AlwaysTypes`):

- `TodosTyped`. More is needed than the property says: a row's id is below
  `nextId`, so that a new id is new; REST requests and look-ups of one user's todos
  have no loader entries; and a toggle about to write has in its loader the entry
  whose negation it writes.
- `RepositoriesImplementStore`: one lemma per query (`CreateStore`, `UpdateStore`,
  `FetchStore`, `DeleteStore`, `LoadStore`, `ReturnStore`, `FailStore`) names the step
  of `TodoStore` that it is, or shows that it leaves table and call alone.
- `OneDeletion` and `NotFoundIsTrue` are inductive with the types. Both rest on
  `Evolves`, which holds of every step: a row of the next table is new or has the id
  and user of a row that is there, so what is gone stays gone. A client that
  missed its todo keeps having missed it because `kept` never regains an id.
- `AnswersAreFresh` is inductive too, but only with its two halves together: the
  loader is primed with the answer, and the answer is fresh by the other half. The
  delicate entry is the one of the todo that the request itself has just written:
  it is out of date until `Return` replaces it, which is why the property leaves out
  what is `Untold`. That it is replaced, and not added to, is `CacheComes`.
- `TogglesFlip` follows from it: at the write the loader still has the entry that
  the negation was taken from, which is among the fresh ones, and if those are
  what the table has, it is the todo.
- `LoaderFindsRecent`: a row that the batch leaves out has at least `BatchTake`
  newer ones, and newer rows have ids between its own and `nextId`
  (`NewerCounted`).
- `PagesAgree`: counting the newer rows is a bijection from a table to
  0 .. n - 1 (`RankIs`), so a page has the length of an interval (`PageCounted`). The
  invariant `PageInv` adds what a request knows between its two queries, and that
  the number of a user's todos only changes when their ids do (`IdsCounted`).
- `SubscribersFollow`. The property speaks of moments when nothing is to be told
  and says nothing of what happens in between. `ViewInv` adds it: a todo that is not
  torn has at most one mutation whose event is to come, of the subscriber's
  instance, and the row that it will publish is the row of the table (`EventDue`).
  `Tear` is what keeps it: the second of two overlapping writes takes the todo out.

Server: `ServerTyped`, `LimitersCount` and `GaugeCounts`, with one invariant `Inv`.
`CountExact` and `GaugeExact` compare a counter with the number of requests in some
state, and are inductive as they are once it is known which limiters a request
may be counted by: those in front of all routes first, its route's own
only when it has entered. `OneRequest` says that a step of one connection changes such
a number by that connection alone. Typing needs that `shutdown` runs once per
signal, and once more when Apollo Server has stopped and sends it again.

Only model-checked: the liveness properties (`ExpiredRowsGo`, `RevokedSignsOut`,
`ShutdownEnds`), since fairness and ENABLED are beyond the prover, and the
properties that do not hold. Every invariant, action property and refinement of the
other runs is a theorem. The inductive invariants (`Types`, `ViewInv` and `PageInv`
of todos, `Inv` of the server) hold in all states of the runs `todos` and `server`.

## What is not modelled, and the plan

`PROJECT.json` gives the reason for each part. What would come next: theorems for
the hazards that have no property yet, as far as the models reach them (a login
that fails after its eviction; the time limits of deletions and their events).

Not modelled, though the code has it: the crash of an instance between a deletion
and its broadcast; an instance without the Redis adapter; signup's look-up before its create (the unique index makes the
second of two fail); the counters of three instances side by side; several
loads batched in one operation, as the loader is called once per field.

Left out for good: parts without state (roles, validation, headers,
compression, configuration, logging, parsing of user agents), metrics that are only
ever added to, and `config/queues.ts` and `config/dataloader.ts`, which nothing
imports.
