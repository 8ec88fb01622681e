# Verification of WorkTrack Backend

TLA+ models of the WorkTrack backend (NestJS, Prisma on PostgreSQL, a Telegram
bot), TLC configurations that check them on small instances, and theorems about
them checked by TLAPS. Paths below are relative to the repository
(`src/modules/...`, `README.md` is the repository's README).

The server is one Node.js process. Code between two `await`s runs without
interruption; at every `await` on the database any other request may run. No
service method opens a transaction. Nearly everything that is hard about this
code follows from these three sentences, and the models are built on them: **one
Prisma call is one atomic step, and a request is the sequence of its calls.**

## 1. Inventory

| Component | State | Operations | Talks to |
|---|---|---|---|
| Orders, writes (`orders.service.ts`) | table `orders` | create, update, assign, changeStatus, cancel, remove; findOne as their first step | users (validateAssignee), audit trail |
| Orders, reads (`orders.service.ts`) | none | findAll, getStats, findOne for a reader, formatOrder | `orders` |
| Audit trail (`audits.service.ts`) | table `order_audit_logs` | createLog, cleanupOldLogs, six queries | called by orders; foreign key to `orders` |
| Sessions (`auth.service.ts`) | tables `users`, `refresh_tokens` | register, login, refresh, logout, logoutAll | lockout, JWT library |
| Sign-in lockout (`login-attempts.service.ts`) | an in-memory Map | assertNotLocked, recordFailure, reset, evictIfCrowded | login only |
| User administration (`users.service.ts`) | table `users` | toggleActive, softDeleteUser, changeRole, updateProfile, getUsers, getUsersStats | revokes refresh tokens; the claims of access tokens |
| Authentication and roles (`jwt-access.strategy.ts`, `roles.guard.ts`) | none (claims of the token) | validate, canActivate | `users.is_active` |
| Rate limiting (`custom-throttler.guard.ts`, `throttler.config.ts`) | counters of the library | shouldSkip, getTracker | before the authentication guards |
| Bot flows (`bot/handlers/*`) | two in-memory Maps: wizard sessions, pending cancellations | /create wizard, buttons, cancellation reason, /cancel | orders service |
| Bot accounts (`bot.service.ts`) | table `users` | getOrCreateUser, sendNotification | users, Telegram |
| Bot messages (`bot/handlers/*`, `bot.service.ts`, `sent-messages.store.ts`) | the messages of each chat, an in-memory Map of their ids | /tasks, /my, /clear, the buttons of an order | orders service, Telegram |
| Controllers, DTOs, filter, interceptors (`*.controller.ts`, `common/*`) | none | routing, guards, validation, answers | everything |
| Logging, configuration, startup | none the properties depend on | formatting, validation of the environment | everything |

What is hard in each, and what makes it correct:

* **Orders.** Every method but `create` reads the row (`findOne`), decides on it,
  and then updates *by id alone*; the audit entry is a third statement. So
  requests overtake each other between read and write, a stop between write and
  insert loses the entry, and `oldValue` is what was read and not what was
  replaced. Correct: the status machine of `STATUS_TRANSITIONS`, closed orders
  frozen, permissions respected on the row that is changed, every change in the
  trail with true values, no entry without an order.
* **Sessions.** Rotation is find, check the user, delete by id, insert. Two
  rotations, a logout, a block and a crash may all sit between these. Correct: a
  refresh token is good once, one sign-in is one session, a blocked user keeps
  none, and a session nobody ended survives.
* **Lockout.** The check is synchronous, the verdict comes after a database call
  and bcrypt, so several guesses are under way at once; records expire, are
  overwritten in place, and are evicted when the map is full. Correct: the map
  is bounded, wrong guesses are bounded, a lock ends.
* **Bot flows.** The Maps are read before an `await` and deleted by user id after
  it, the session object is shared, and replies fail. Correct: a conversation is
  about one order, ends once, and ends when the user says so.
* **User administration, accounts of the bot.** The role a request is let in on is
  the claim of its token; check and update are two statements; addresses are checked
  and written in two. Correct: an admin is left as long as nobody acts on powers they
  have lost, a demotion takes effect, a conflict is reported only of a conflict.
* **Lists and statistics.** A page is a count and a findMany, a walk is many pages, a
  statistic is three or four counts at once, and rows come, go, change and fall due in
  between. Correct: a walk misses only what moved, a list shows what its reader may
  see, figures add up over what stayed as it was.
* **The request pipeline.** The throttler is global and so runs before anybody has
  looked at the token; overrides are keyed by the name of a throttler; updates of the
  bot pass through it too; roles are checked by the guard and again by the service.
  Correct: the limits hold in every window for whatever is not exempt, both checks agree.
* **Messages of the bot.** Buttons outlive the state they were made for, handlers
  overlap, edits drop keyboards, and /clear deletes for a while. Correct: a message
  never leaves its order without a way on, /clear loses no id.

The hazards, each at its line and with the properties that cover it, are listed
in `PROJECT.json` under `hazards`.

## 2. The modules

| Module | Models |
|---|---|
| `OrderLifecycle` | what the service promises about an order, each request one step (abstract) |
| `OrderHistory` | what is left of that when requests overlap in any way (abstract) |
| `OrdersService` | the six write methods of `OrdersService` with `createAuditLog`, `cleanupOldLogs` and the blocking of users, as concurrent requests |
| `Sessions` | `AuthService` and the token revocation of `UsersService`, as concurrent requests |
| `SessionChains` | what the service promises about refresh tokens, each request one step (abstract) |
| `LoginLockout` | `LoginAttemptsService` and how `login` uses it |
| `BotFlows` | the /create wizard and the cancellation with a reason, as handlers of overlapping updates |
| `UserAdmin` | `UsersService` for administrators and profiles, the accounts of the bot, the claims of access tokens |
| `Lists` | `findAll`, `getUsers`, `getLogs` and the three statistics, over a table that changes |
| `RequestPipeline` | every route with its throttler, guards, handler, interceptors and exception filter |
| `BotMessages` | the messages of a chat, their keyboards and buttons, the list behind /clear |
| `MCOrdersService`, `MCSessions`, `MCLoginLockout`, `MCBotFlows`, `MCUserAdmin`, `MCLists`, `MCRequestPipeline`, `MCBotMessages` | values for the constants: small instances for TLC |
| `OrdersServiceProofs`, `SessionsProofs`, `LoginLockoutProofs`, `BotFlowsProofs`, `UserAdminProofs`, `ListsProofs`, `RequestPipelineProofs`, `BotMessagesProofs` | theorems and proofs |

The modules meet where the code does. `OrdersService` takes calls with any role and
lets users be blocked at any moment, which is all that `RequestPipeline`, `UserAdmin`
and `Sessions` can do to it; `UserAdmin` leaves refresh tokens to `Sessions`, whose
sweep it only names; `BotFlows` and `BotMessages` call orders through steps that allow
what `OrdersService` allows; `RequestPipeline` ends where a handler begins.

**Requests.** `OrdersService`, `Sessions` and `UserAdmin` have a set `Requests`, each used
once. `pc[r]` says where request `r` is: `idle`, one label per database call that
is due, or an answer (`ok`, `refused` for an exception of the service, `failed`
for a database error). Guards and early returns before a call are in the action
of the call before it. Since requests are never reused, `call`, `snap` and
`wrote` are at the same time the local variables of the method and the history
the properties speak of.

**OrdersService.** `Begin` is authentication and the method up to its first
database call; `Read` is `findOne` and every check on its result; `Validate` is
`validateAssignee`; `Write` is the create, update or delete; `Audit` is
`createLog`. `Abort` is a process that stops or a call that throws before the
next statement. `SetActive` is an admin blocking or unblocking a user (the two
methods as far as orders see them), `Cleanup` is `cleanupOldLogs`. Title,
description, priority and deadline are one value, `edit`: the request that wrote
them last. `ver` counts the writes of a row and is only used to say which of two
rows is newer. Restricting foreign keys and missing rows are in `Accepted`.
`assignedToId` may be a user, `null` (`Nobody`) or left out of the body
(`Omitted`): the service and Prisma treat the last two differently.
Calls carry any role, whether the user has it or not: the role is the claim of a
token that may be older than a demotion.

**OrderLifecycle.** One status and one assignee per order, and the set of ids
ever used. `OrdersService` maps to it by dropping everything else.

**OrderHistory.** The weaker promise that survives any overlap: the status of each order
and the statuses it ever had (`had`, in the mapping those that requests have written). A
request may act on a status the order no longer has, never on one it did not have; a row
is born once, and an order that was removed does not come back through an update that
was under way. `DoneWasStarted`, no work is completed that nobody started, is one thing
that follows for the service.

**Sessions.** A request issues at most one refresh token, so a token is named by
the request that issued it and `row[t]` is its row in `refresh_tokens`. `root`
follows a token back to its sign-in; `spared` records which requests had found their
user active and not inserted their token yet when the sweep of the last block ran.
Passwords are right here.

**SessionChains.** Sign-ins as chains of tokens: which sign-in each token descends from
and whose it is, and the set of tokens that sign-ins live on now. A sign-in adds a token,
a refresh replaces one by the next, and everything else takes some away. `Sessions` maps
to it (`Chains`) with the live rows as that set, and with the token that a refresh has
deleted as long as it has not inserted the next: of the two statements of a rotation, the
insert is the abstract step, and a crash between them is an end.

**LoginLockout.** The code reads the clock only as `Date.now() -
windowStartedAt`, so a record keeps that difference, up to the window. `before` is
the insertion order of the JavaScript Map, which `evictIfCrowded` uses, as a relation: the
pairs of keys of which the first was inserted first.
`checking[k]` counts sign-ins of a key between `assertNotLocked` and the verdict.
`guesses` is a history variable.

**BotFlows.** Telegraf does not wait for the handlers of earlier updates (when it polls,
as it always does here, see section 4: of those fetched together), so the handlers of
two messages of one user overlap. Both Maps are
keyed by the user, so one user is modelled. A wizard is named by the /create that
opened it and a pending cancellation by the button press that asked for it; their
orders follow. `Receive` is what happens up to the first `await`, `Handle` what
follows an `await`. `OrdersService.create` and `cancel` are steps that take effect or
not and throw or not, in every combination but "no effect and no exception": that
is what `OrdersService` allows. The service's effect and the handler's next
statement are two steps. An update answered at once that changes nothing is no step.

**UserAdmin.** `users` is the table; `claims[u]` are the roles that unexpired access
tokens of `u` carry and `signing[u]` those that sign-ins and refreshes under way have
read (`ReadUser`, then `Sign` or `GiveUp`; `Expire`). A request of `UsersController` is
let in by `Begin` on one of the claims, and then goes on statement by statement:
`Find` and `Update` (and `Sweep`) of changeRole, toggleActive and softDeleteUser,
`CheckEmail` and `SaveProfile` of updateProfile. `Contact`, `LookUp` and `Provision` are
`getOrCreateUser`. `before[r]` is the table that the last statement of `r` found.

**Lists.** One reader of one table, which is any of the three: they are built alike, and
what differs, the filter, is `OrderMatches`, `UserMatches` and `LogMatches`. `AskPage`,
`CountRows`, `ReadPage` and `NextPage` walk the list newest first, as the bot and the
default of all three queries have it. `AskFigures` builds the statements of a statistic
and `ReadFigure` runs one, in any order, as `Promise.all` over a pool of connections
does; a figure is the set of rows it counted. `Insert`, `Update`, `Remove`, `Cleanup` and
`Tick` happen between any two of these. `kept`, `gone` and `entered` are history.

**RequestPipeline.** `Arrive` is a request up to the look-up of its user, in which nothing
waits for anything outside: either every throttler in turn counts it and lets it in, or
the first whose limit is exceeded turns it away and those behind do not count it.
`Authenticate` is JwtAuthGuard, JwtAccessStrategy and RolesGuard, `Work` the pipe, the
handler and LoggingInterceptor, `Return` TransformInterceptor, `Throw` AllExceptionsFilter.
The routes are the controllers' handlers with the roles their guards name. A call says
of its URL only whether the name of a probe is in it (`probe`), in the path or the query:
`ShouldSkip` looks for that whatever the route is. `came` and `counted` tell when a
request came and how many throttlers counted it; `Counting` and `Exceeded` are the
library's counting, as the code uses it.

**BotMessages.** One user in one chat, and one order that others change (`Elsewhere`). An
update is answered by one message, named by it, and `face` is what that shows: the row
it was rendered from, and the buttons `buildOrderKeyboard` made of it then. Handlers are
`Command`, `Clear` or `Press` up to the account, then `CallService` or `ListOrders`, then
`Edit` or `Reply`, each of which may fail. `tracked` is the list of ids, in the order of
the array; `owed` is what /clear still has to try. A call of `OrdersService` is one step
here, and `Allowed` and `Result` are its checks and effects as far as the buttons use them.

**Faults.** Next to some actions stand operators marked `Fault`: the same action
with a mistake of the kind a change to the code could make (a dropped check, an
off-by-one, `deleteMany` for `delete`). They are part of no specification. Each
property is tested by putting one of them in the place of the action and seeing
TLC find the property violated; `PROJECT.json` lists them under `mutants`.

## 3. The runs

Passing runs:

| Run | Instance | Shows |
|---|---|---|
| `orders_concurrent` | 1 order, 4 users, 4 requests, `Spec`: crashes and maintenance | `GuardedOrOvertaken`, `OldValueOrOvertaken`: an illegal write or a false old value needs a race. `NoOrphanEntries`: no entry outlives its order. `ImplementsHistory`: the service, with requests overlapping, implements `OrderHistory` |
| `orders_calm` | 3 requests of any method, a worker being blocked, nothing failing, fair | `EveryChangeReachesTheTrail`: with no failure the only change without an entry is that of an order removed before its ORDER_CREATED entry |
| `orders_serial` | 4 requests of any method, one after the other, crashes, maintenance, a worker being blocked | `ImplementsLifecycle`, `AssignedWhileActive`: what the service guarantees when requests do not overlap. `TrailEndsAtStatus`, `TrailIsLinked`: the trail of an order can be replayed up to its status, whatever was cut short or cleaned up, but for a change whose own request was stopped before its entry |
| `sessions_concurrent` | 1 user, 5 requests of all seven operations, crashes, expiry | `SingleUse`, `OneTokenPerSignIn`, `NewestTokenSignsOut`, `SessionsSurviveRotation`; `BlockSparesOnlyOverlapping`: what outlives a block was under way when it swept; `ImplementsChains`: the service, with requests overlapping, implements `SessionChains` |
| `bot` | 4 updates of one user, errors, restarts | `DuplicatesHaveCause`, `DeadlineOrOverlapped`, `StoppedForGood`, `AbortedOrOverlapped`, `WizardsAreKept`, `CancellationsAreKept` |
| `lockout` | 3 keys on a map of 2, 2 attempts, a window of 2 ticks, 2 sign-ins of a key at once | `Bounded`, `OvershootBounded`, `GuessesBounded`, `EvictsUnderPressure`, `LocksEnd` |
| `user_admin` | 2 users (two admins, or one and an account yet to be made), 2 requests, sign-ins for ever, fair | `LastAdminFallsToAFallen`: it takes somebody without powers to take away the last ones. `ConflictsAreReal`: conflicts have a cause and no address has two owners. `DemotionReachesClaims`: a demotion is for good once old tokens have expired |
| `lists` | 3 rows at most, pages of 2, two or three queries per table, rows coming, changing, going and falling due between any two statements | `WalkMissesOnlyWhatMoved`, `ListsShowOnlyViewable`, `OverdueRowsAreMarked`, `FiguresAddUp` |
| `requests` | 3 requests of 8 calls, windows of 1 and 3 ticks, limits of 1 and 2, 3 ticks | `LimitsHold`: of the requests that are not exempt; `GuardAndServiceAgree`; that nothing stops before it was answered is the absence of deadlocks |
| `bot_messages` | 3 updates, 1 order, a list of 2 ids, failures, restarts | `NothingEscapesClear`, `NoDeadEnds` |

Each of these properties is one that holds although something moves under the code. The
type invariants are theorems (section 5); that of `LoginLockout` is part of `Bounded`.

The runs that end in a violation check a sentence of the documentation against the code
(`findings` in `PROJECT.json` quotes them):

| Run | What TLC finds |
|---|---|
| `orders_delete` | the delete of an order by an admin ends in a foreign key error: its ORDER_CREATED entry points at it |
| `orders_unassign` | an assign without `assignedToId` changes nothing and is recorded as UNASSIGNED |

### Bounds

* *One order.* No method touches two orders, and entries of one order are never
  read for another; a second one only multiplies the states. The theorems hold
  for any number.
* *Three or four requests.* The longest stories the order properties tell are
  create, start, complete and one more that races with any of them (four); create
  and two that race (three). In `orders_concurrent` the calls are those of the
  life of one order and what may collide with its end; the two other passing
  order runs allow every method, by everyone who may use it, and two refused
  calls.
* *Five requests in `sessions_concurrent`*: a sign-in, two refreshes of its
  token, a logout or block, and one more (a refresh of the successor, an unblock,
  a second sign-in). One user: no operation reads or changes rows of two.
* *Lockout.* Two attempts and two ticks are the smallest for which "the limit is
  reached" and "the window is half over" differ from "there was a failure" and
  "the window is over". Three keys on a map of two make eviction happen, with and
  without expired records. `GuessesBounded` is tight on this instance: with one
  guess fewer TLC finds it violated.
* *Four updates in `bot`.* Only updates with a handler that comes back to the Maps,
  or that a property speaks of, count; the three answers before the deadline do not.
  The longest stories are /create, a deadline, another /create, and one more; press,
  reason, press, and one more.
* *Two requests in `user_admin`.* A demotion that overtakes another, or uses a token from
  before, takes two; sign-ins are not requests and are not bounded. Two addresses make a
  conflict possible and avoidable.
* *Three rows and pages of two in `lists`* are the smallest with a second page, and with
  something that can move across its border in either direction. The queries of the
  instance combine filters that get into each other's way (role and search, overdue
  and status, unassigned and assignee) and flags that say "true" and "false"; the rows
  are those that they tell apart. Deadlines are past, or called "soon" and pass once.
  `TopUsers` is 1 instead of 10, so that somebody is left out.
* *Three requests in `requests`*, with limits of 1 and 2 in place of 10, 100 and 1000 and
  1 to 10, exceed every limit, in the first window and in the second. The calls are a
  sign-in for each of two accounts from one address, a rotation, an assign as manager, the
  same with the name of a probe in its query, a create as worker, a probe and an update of
  the bot. `MaxClock` is as long as the longest window.
* *Three updates in `bot_messages`*: a message that shows the order, a button under it,
  and another button, command or /clear that overlaps. `MaxTracked` is 2 instead of 200,
  so that the list drops ids while a /clear has others in hand.
* `MaxChecking` bounds the sign-ins of a key under way at once. The code has no
  such bound (the rate limiter in front of it has one); `OvershootBounded` and
  `GuessesBounded` are stated in terms of it.
* Requests are symmetric: they are told apart by nothing but what they were asked.
  No run with a symmetry set checks a liveness property.

### Fairness

* `CalmSpec` assumes weak fairness of `Proceed(r)`, the database calls of a
  request that was let in: the event loop resumes a function whose promise is
  settled, and `CalmSpec` is the specification without failing calls. Nothing is
  assumed of `Begin`: nobody has to send a request.
* `LoginLockout!Spec` assumes weak fairness of `Tick`: time passes. Nothing is
  assumed of sign-ins; `LocksEnd` holds whatever goes on being tried with the key.
* `UserAdmin!Spec` assumes weak fairness of `Expire` (time passes and access tokens have
  an expiry) and that a sign-in under way ends, in a token or not (the event loop). Nothing
  is assumed of requests, and sign-ins may go on for ever, which is what makes
  `DemotionReachesClaims` more than a matter of waiting.
* The other modules state safety only.

## 4. What holds and what does not

With requests one after the other, the orders service does all it promises
except two things: an order that has entries cannot be deleted
(`orders_delete`), and an assign without a body is recorded wrongly
(`orders_unassign`).

With overlapping requests, the legality of transitions, the freeze of closed orders,
worker permissions and the truth of `oldValue` are lost, and what is left is: all of these
need an actual overlap (`GuardedOrOvertaken`, `OldValueOrOvertaken`), a move is always a
transition from a status the order once had and a removed order stays gone
(`ImplementsHistory`), so that work is never completed unstarted (`DoneWasStarted`), the
trail stays attached to orders (`NoOrphanEntries`), and each of its entries tells of a
change its request made (`TrailStaysTruthful`). `AssignedWhileActive`,
`TrailEndsAtStatus` and `TrailIsLinked` are checked for requests that do not overlap
because they too fail otherwise: a block between `validateAssignee` and the update, or two
entries inserted in another order than their updates, is enough.

The sessions service stands up to races well. The delete by id is what decides
which of several rotations wins, and the unique email decides between two
registrations. What it does not survive is a stop between delete and insert
(`SessionsSurviveRotation` is about runs without one: the user is signed out) and
the block of a user in the middle of a sign-in or rotation, see below.
`BlockSparesOnlyOverlapping` says what is left of that promise: no other token is spared by
the sweep or issued later. A block that is cut short between the update and the sweep
(`users.service.ts:238`) revokes nothing, and the property begins with the sweep.

The bot's two conversations keep apart, and what one message does to another's
work needs an overlap: a /cancel answered as effective that is not, an
order made twice or with the deadline of a later message, a
fresh wizard or a pending cancellation deleted by a handler that was under way.
`BotFlows` states how far each of these can go.

An active admin is left as long as everybody who demotes or blocks is still an admin
when the statement is executed (`LastAdminFallsToAFallen`). "You cannot change your own
role" does not ensure that: two admins may demote each other at the same time, or one
after the other on tokens of before. A demotion ends with the old access tokens: neither
a sign-in nor a refresh under way brings the old role back for good.

The lists agree with `findOne` about who may see what, and a filter only ever narrows
them. Walking them while they change misses rows that moved up a page; the audit trail,
of which only the oldest entries go, is read completely. The figures of a statistic are
snapshots of different moments, but agree about every row that stayed as it was.

The limits of the throttler hold per handler, address and (where the body has one)
account, in every window, for the requests it counts. It does not count a request whose
URL has `/health` or `/metrics` in it anywhere, the query included
(`custom-throttler.guard.ts:28-29`), so with such a query no route has a limit, where the
documentation exempts "health endpoints" (README, line 490). `LimitsHold` is about the others. And where the body has no `email`
(refresh, logout, everything behind a sign-in) the key is the address alone, so users who
share an address share the budget of a route, although the guard means not to "punish
unrelated users" (line 7). The roles named at the controllers and those checked in the
orders service agree.

Buttons stay usable whatever overlaps, because every edit that shows an order passes the
keyboard of the row it shows; the one edit without a keyboard, that of `onCancel`, shows
none. "Pick up" under an old message takes the order from whoever has it by now: the
service does not ask whether it is free, and no property says that it should.

Other things met while modelling, for which no run is kept:

* Two requests that both read an open order can close it and then change its status
  again, DONE to CANCELLED or back: the update is by id alone (`orders.service.ts:340`).
  The repository's README (line 91) says that "invalid transitions are rejected in the
  domain layer". `GuardedOrOvertaken` is what holds: it takes such an overlap.
* A register, login or refresh that found the user active before a block and inserts its
  token after the block's sweep (`users.service.ts:236`) leaves a live refresh token,
  which works again when the user is unblocked. README, line 423: "Blocking a user
  revokes every refresh token they hold".
* A /cancel that arrives while the reason is being processed is answered "Cancellation
  aborted, the order was left unchanged." (`callback.handler.ts:180`), and the order is
  cancelled: the pending entry is deleted only after the service has returned.
  `AbortedOrOverlapped` is what holds.
* A lock lasts what is left of the window that began with its first failure
  (`login-attempts.service.ts:76`), and failures on either side of the end of a window do
  not add up. README, line 496: "5 consecutive failures lock further attempts for 15
  minutes". `GuessesBounded` is what holds.
* The throttler is an `APP_GUARD` and runs before JwtAuthGuard, so `req.user` is never set
  when it looks: the exemption of admins (README, line 490, and
  `custom-throttler.guard.ts:22`) and the key per account (line 37) never apply.
  `@SkipThrottle()` without names does nothing with named throttlers; probes are exempt
  by their URL, and so is whatever else has their names in it.
* The validation pipe has `enableImplicitConversion`, which turns the text of a boolean
  field into `true` before the `@Transform` of the DTO sees it: `?isActive=false` lists
  active users (`get-users-query.dto.ts:48`), `?overdue=false` and `?unassigned=false`
  filter (`get-orders-query.dto.ts:114`, 126). `Flag` of `Lists` does as the code does.
* `bot.module.ts:82` compares `TELEGRAM_USE_WEBHOOK` with the text `'true'`, but
  `validateEnv` has made it a boolean: the bot always polls. `forRoot` itself (line 28)
  wants exactly `true` where `validateEnv` trims and ignores case.
* `buildOrderKeyboard` offers Complete and Start to whoever is shown the order, also to a
  worker who created it and is not its assignee; the service refuses them.
* `onCancel` of the bot edits its message without a `reply_markup`, against the comment at
  `bot.service.ts:281`; the message then shows the question and no order.
* The second of two presses of one button finds the message as it would make it: Telegram
  refuses the edit ("message is not modified") and the user is told of an error, although
  the order has changed.

* A stop between an update and its audit insert leaves a change without an entry,
  although the repository's README (line 93) says that every change is written to
  the log: `EveryChangeReachesTheTrail` therefore is a property of `CalmSpec`.
  `TrailEndsAtStatus` and `TrailIsLinked` say that nothing but such a stop, on that very
  order, leads its trail astray (`CutShort`).
* "/cancel" with anything behind it (`/cancel please`, 10 characters) is a reason
  like any other text and cancels the order, because `onCancellationReason`
  compares the whole text. While a wizard is open, /my, /profile, /stats and
  /clear are taken as answers to it: their handlers come after it in the chain.
* changeStatus to CANCELLED passes for a worker who may only view the order, and
  its entry has no reason, unlike that of cancel.
* `evictIfCrowded` evicts the first key of the Map and calls it the oldest
  (`login-attempts.service.ts:94`). A record that expired while its password was
  being checked is overwritten in place and keeps its position, so with four keys
  and a map of three a younger record can go before an older one.
* Rows of expired refresh tokens are never deleted.
* The completion notice of the bot looks at `createdBy.telegramId`
  (`callback.handler.ts:116`), which the service does not select: it is never sent.
* Two first messages of a Telegram user both try to create the account; one of
  them ends in the unique index on `telegram_id` (`ConflictsAreReal`).

## 5. The proofs

All theorems hold for every value of the constants that satisfies the named
assumptions of the modules (`CallsAssumption`, `BlockableAssumption`,
`NullAssumption`, `OpsAssumption`, `LockoutAssumption`; `TableAssumption` and
`ValueAssumption` of `UserAdmin`; `BoundsAssumption` and `ListsAssumption` of `Lists`;
`CallsAssumption`, `OutcomesAssumption`, `RequestsAssumption`, `LimitsAssumption` and
`ClockAssumption` of `RequestPipeline`; `NoneAssumption` of `BotFlows`; `NamesAssumption`
and `RowsAssumption` of `BotMessages`): any number of orders, users, requests, keys,
rows, windows. Nothing else is assumed, and TLC evaluates each of them on the instances.
`TableAssumption` is about the database the server starts with: addresses are unique in
it and there is an active admin, as the seed makes one.

**`OrdersServiceProofs`** proves `TypeOK`, `DoneWasStarted`,
`GuardedOrOvertaken`, `NoOrphanEntries` and `OldValueOrOvertaken` of `Spec`. None of
the last four is inductive. The invariant `IndInv` adds what ties the three
statements of a request together: a request has changed nothing before its write
(`WritesInOrder`); an id is created once and no row is seen before its create
(`CreateOnce`, `NothingUnborn`); the row that is there was left by some request
(`RowsHaveWriters`), and what a request has in hand is a row that permitted it, no
newer than the present one and equal to it if as new (`DecidedOnARow`,
`SnapshotsAge`). From these, a write either replaces the row it was decided on, in
which case the checks hold of it, or that row's last writer is the request that
overtook it (`WritesOnSnapshot`). `StartedBeforeSeen` carries the status
IN_PROGRESS back to the request that wrote it, through rows and through what
requests have in hand, because the row a request acts on may be long gone.

`ServiceImplementsHistory` is the refinement of `OrderHistory` by `Spec` itself, crashes and
maintenance included. Its key is `SeenWasHad`: the status of the row a request has in
hand was written by some request on that order, and what was written stays in `had`.
So the write of a stale request is still a step from a status that was had; the row it
replaces is there, because an update of a missing row fails; and a create finds nothing
had, because ids are created once. `TrailStaysTruthful` says of the trail under any
overlap that every entry is the one its request had to leave for a change it made, and
that no request leaves two; `CalmChangesAreRecorded` is the converse while nothing fails
(`CalmSpec`, where no entry is cleaned up either): a change without its entry belongs to
a request that still has to write it, or to an order that is gone. It is the safety half
of `EveryChangeReachesTheTrail`.

Its last part proves `ImplementsLifecycle`, `TrailEndsAtStatus`, `TrailIsLinked` and
`AssignedWhileActive` of `SerialSpec`. The invariant there is `IndInv`, `OneAtATime` and
`SnapshotsFresh`: a request that is in flight has in hand the very row that is there. The
refinement has one case per kind of step; all but the write stutter, and a write is mapped
to the abstract step of its method. For the trail, `TrailFollows` says that the newest
status entry of an order is right, but for a request that has written and not left its
entry yet (`Owed`), or was cut short; a cleanup removes from the other end. For
`TrailIsLinked`, that each status entry starts from the status the one before it led to,
`OwedLinks` adds that while an entry is owed the trail ends at the status the request had
read. For the assignees, `ChecksHold` says that who passed `validateAssignee` is active
until the write.

**`SessionsProofs`** proves `TypeOK`, `SingleUse`, `OneTokenPerSignIn`,
`BlockSparesOnlyOverlapping`, `NewestTokenSignsOut` and `SessionsSurviveRotation`. The
invariant's core is `OneCarrier`: of the live tokens of a sign-in and the rotations of it
that have deleted and not yet inserted, there is at most one. `SpentIsGone` and
`SpentOnce` say that a rotation past its delete has used its token up and is alone in
that; `SweepsCover` says that what a blocked user has, or may still get, was under way at
the last sweep. The last two properties need what becomes of a sign-in (`Descent`): once a
token is gone, its sign-in lives on only in a refresh of that very token, until one has
issued the next (`OnlySuccessors`), and a sign-in of a user whom nobody signed out or
blocked is always carried by a token or by such a refresh, as long as nothing crashed
(`Survivors`). `SessionsImplementChains` is the refinement, of `Spec` itself and not only
of requests in turn, with one lemma per kind of step: the delete of a rotation stutters,
because the token it takes stays in the abstract set until the insert, and no other
rotation can be holding the same one (`SpentOnce`).

**`BotFlowsProofs`** proves all six properties of `BotFlows` and `TypeOK`. Overlap is
about the past, so the invariant says what the Maps tell about it: what was used
up, stopped or aborted is not in the Maps any more (`UsedUp`), so nobody who came
later works on it (`NobodyLater`); and a handler that deletes an entry it does
not work on had come before that entry (`Deleters`).

**`LoginLockoutProofs`** proves `Bounded`, `OvershootBounded`, `GuessesBounded` and
`EvictsUnderPressure`, and that a failure always counts (`EveryFailureCounts`), in three
invariants of their own. For the overshoot, the sum `count + checking` is what is
inductive: a failure moves one sign-in from the one to the other, and `assertNotLocked`
lets another in only below the limit. `MapInv` says that `before` is a strict total order
of at most `MaxTracked` keys; a subset of such a map, and one with a new key at its end,
are such maps again (`SubMap`, `AppendedMap`), and what `evictIfCrowded` leaves has room
for one more (`EvictionMakesRoom`), which needs that a finite map has a first key.
`History` is what bounds the guesses: those of one window have different numbers, and
those that are younger than a window but not of the present one are all of the window
before it, whose first guess is too old by then to be among them. So there are no more
than the numbers of one window and all but the first of another (`FewGuesses`).
`LocksOnlyAge` is the safety half of `LocksEnd`: whatever is tried with a locked key, only
the clock changes the age of its record, and always towards the end of the lock.

**`UserAdminProofs`** proves `TypeOK`, `LastAdminFallsToAFallen` and
`ConflictsAreReal`. Its invariant begins with where a request can be (`Labels`,
`Unwritten`), with whom the accounts that the bot makes belong to (`BotAccounts`: a
contact's account is the bot's or is not there, and while a contact is being
provisioned only another contact can have made it) and with the addresses
(`OwnAddresses`, `Conflicts`). The core is `Backings`: whoever claims ADMIN in a
token, in a sign-in under way or by a request, is an active admin now or has lost that
to somebody's request since. A request that takes away the last admin is not made by
the one it takes it from, as `changeRole`, `toggleActive` and `softDeleteUser` refuse
that; so its caller, who is not an active admin at that moment, has fallen before.
`LostRolesFade` is the safety half of `DemotionReachesClaims`: a role a user does not have
is read by no sign-in, and comes into a token only through one that had read it before.

**`RequestPipelineProofs`** proves `TypeOK`, `LimitsHold` and `GuardAndServiceAgree`. For
the limits, the invariant says that what was let in and is not exempt has been counted by
every throttler (`AllCounted`) at a time that is past (`Stages`); `Limited` then bounds,
for every caller, throttler and start of a window, how many within the window passed. The
step that lets a request pass is the one that matters: all the others in its window were
counted when it came, so they were fewer than the limit. The cardinalities rest on
`FiniteSetTheorems`. `GuardAndServiceAgree` needs `Guarded`, and a comparison of the roles
that the decorators name with the checks of the service (`OrderRoles`).

**`ListsProofs`** proves `TypeOK`, `ListsShowOnlyViewable`, `OverdueRowsAreMarked`,
`WalkMissesOnlyWhatMoved` and `FiguresAddUp`.
The lists are of several reads, so a row that is shown need not match the query any
more; `ShownWereFound` says that it did match it at the time of the read. What is left of
the first two are facts about the filters themselves, `VisibleIsViewable` and
`OverdueIsMarked`. For the walk, `WalkInv` says where a row that stayed in the list is, if
it has not been shown: no less than the pages read so far behind its beginning, unless a
newer row left (`StillAhead`). The position of a row is the number of newer rows in the
list, so it changes only by rows that come, go or change (`PositionKept`). For the
figures, `FiguresInv` is that the kept rows of every figure that was read are the kept rows
that it counts. `byUser` also has to rank: who is in it has at least as many entries as
anybody left out, which over the kept entries is a statement about the sums of the sizes of
disjoint sets (`EntriesOfMany`).

**`BotMessagesProofs`** proves `TypeOK`, `NoDeadEnds` and `NothingEscapesClear`. `Scene`
is about messages and handlers: what a handler knows at each place (`JobOK`), and that
what a message shows was right for the row it was rendered from, whatever became of the
order (`FaceOK`); every edit keeps that, since the keyboard is made from the row that is
shown. `Lists` is about the ids: the list is the end of what is owed, nothing is in it
twice, and what is owed and no longer in it is in the hands of a /clear. That a list
bounded from the front stays the end of another (`EndsNewest`), and that the first
occurrence of an id is removed from a list that has it once (`OwedWithout`), are lemmas
about sequences, proved by positions.

Only model-checked: the liveness properties (`EveryChangeReachesTheTrail`, `LocksEnd`,
`DemotionReachesClaims`), which are out of reach of this prover (of each of them the safety
half is a theorem: `CalmChangesAreRecorded`,
`LocksOnlyAge`, `LostRolesFade`), and `AdminCanDelete` and `UnassignedMeansRemoved`, which
fail.
Every invariant, action property and refinement that a passing run checks is a theorem.

## 6. Running the checks

    tlc -config OrdersConcurrent.cfg MCOrdersService
    tlapm OrdersServiceProofs.tla

`PROJECT.json` names the module and the configuration of every run.

## 7. What is abstracted, and what is not modelled

* PostgreSQL statements are atomic and serialisable one by one; there are no
  multi-statement transactions in these methods. Connection loss is `Abort`: the
  statement was not executed. A statement that was executed and whose answer was
  lost is, for the tables, an `Abort` before the next statement.
* Ids of users who do not exist are not enumerated: `validateAssignee` refuses one of nobody
  (`orders.service.ts:473`) at the same place, and before anything is written, as it refuses
  a user who is not active, so such an id behaves like a user who never is.
* Titles, dates, reasons, emails and hashes are values that are equal or not.
  Cryptography and JWT signatures are taken to work.
* Access tokens live until they expire and are not stored; `JwtAccessStrategy`
  looks at `is_active` on every request and takes the role from the token.
* A request is let in on any role a token may claim. Validation is one outcome of a call
  (`invalid`); the rules of the single fields are not modelled, but for the conversion
  of flags.
* Lists are sorted by `createdAt`, newest first, the default; with another `sortBy` rows
  may move when they are updated, and no walk is safe. Priority, deadline ranges and
  dates of the trail are conjuncts like `status` and are left out. `getActionStats`
  resolves the names of the busiest users in one more read, which changes nothing.
* One findMany each and no state: `getOrderLogs`, `getUserLogs`, `getRecentLogs`,
  `getFieldHistory`, `getProfile`, `getUserById`. Their routes are in `RequestPipeline`.
* `BotMessages` shows an order whole (a page shows less of a row than the model gives it,
  and no property asks more of it), without the times on it: an edit that would change
  only those is not modelled as accepted. The list of /tasks and its pages are one
  message with a button per order; paging is in `Lists`.
* `sendNotification` is called from one place, behind a condition that is never true.
* Health probes are routes of `RequestPipeline`; what they measure is not modelled.
* Not modelled, and without state that properties could be about: what is logged, request
  ids, the audit middleware (it writes a log line), OpenAPI texts, seeds.
* Not modelled, because nothing runs concurrently yet: startup (`main.ts`,
  `docker-entrypoint.sh`) and the validation of the environment.

## 8. Plan

1. `BotFlows` and `BotMessages` composed: the messages of the two conversations.
2. Lists sorted by something that changes, and what a reader may still rely on.
3. Startup: retries and the order wait, migrate, start.
