# A verification development for kite-mcp-usecases

`kite-mcp-usecases` is the use-case layer of a trading server: one Go type per
command or query, each with an `Execute` that a command bus calls from a
goroutine per request (`ports.go:65-73`). The layer keeps almost no state of
its own. What makes it hard is what it does *between* the systems that have
state: the broker, riskguard, the audit store and the user stores.

The modules here are translated from the source. The systems around it are
modelled from how the source uses them, as widely as that use allows, and are
marked external in `PROJECT.json`.

## The system: parts, state, operations

| part | source | state it works on | operations | hard behaviour | what makes it correct |
|---|---|---|---|---|---|
| Order commands | `place_order`, `modify_order`, `cancel_order` | the broker's orders, the audit outbox and `domain_events`, the event dispatcher, riskguard | Execute; append…Event; the two setters | lost broker answers, crashes around the outbox, store failures, concurrent requests on an order, freezes, setters called late | the audit trail is sound, complete up to its documented window, and replays in order; events of one outcome only; a freeze holds |
| Position closing | `close_position`, `close_all_positions` | a snapshot of the account | Execute | the snapshot goes stale; some orders of a loop fail; a freeze in mid-loop | reports match orders; a close flattens and never reverses |
| Saga | `saga.go` | completed steps, compensation errors | RunSaga, compensateSteps | failures during rollback, best-effort steps, nil functions | rollback complete, LIFO, reported |
| Account and credentials | `account_usecases`, `setup_usecases` | credential, token, session, alert, watchlist stores, user status | delete account, update, revoke, invalidate token, login URL | check-then-act; partial failure of a teardown | nothing outlives a deletion; the credential stream tells the true history |
| Administration | `admin_usecases` | user status and role, riskguard freezes | suspend, activate, change role, freeze, unfreeze, global freeze | the last-admin guard under concurrency; steps that fail half way | an active admin remains; suspended implies frozen and logged out |
| OAuth bridge | `oauth_bridge_usecases` | users, tokens, credentials, key registry, OAuth clients | provision on login, cache token, store credentials, sync registry, client and registry CRUD | login overtaken by suspension; key rotation back and forth | no login of a suspended user; one active key per user |
| Family | `family_usecases` | members, invitations | list, invite, remove | slot check against concurrent invites; the page of a listing | events tell of members; a page is a slice |
| Telegram | `telegram_usecases` | chat per user | setup | prior chat read before the write | the events chain |
| Watchlists | `watchlist_usecases` | lists and items | create, delete, add, remove, reads | duplicate check before create | one list per name |
| Alerts | `create_alert`, `create_composite_alert`, `alert_usecases` | alert store, audit trail | create, delete, list | outbox for one, direct append for the others | as for the orders |
| Broker mutations | `gtt`, `mf`, `native_alert`, `trailing_stop`, `paper_trading`, `convert_position` | the broker, paper engine, trailing stops | place, modify, delete, … | lost answers; partial deletions; events out of order; a success event for an answer that says no | one event per outcome; the events tell what the book holds |
| Options strategies | `options_strategy` | none | validate, build legs, payoff metrics | formulas that assume symmetric wings and ordered strikes | metrics equal the payoff at expiry |
| Scatter-gather queries | `context`, `pretrade`, `widget`, `data_export` | one result per request | parallel reads joined in one answer | partial failure, answers in any order | every answer under its own key; nothing is read before the join |
| Plain queries, ticker, consent, sessions | `queries`, `get_*`, `margin`, `pnl`, `observability`, `ticker`, `consent`, `session` | none here | validate and forward one call | — | — |

They interact only through the outside systems. A request reaches riskguard
(`CheckOrderCtx`), then the broker (`BrokerResolver.GetBrokerForEmail`, then one
call), then the dispatcher (`Dispatch`, synchronous), then the store
(`NextSequence`, `AppendToOutbox`, `Append`). Administration freezes the same
riskguard the order commands ask. Closing positions places orders on the same
account. A pump outside this repository moves outbox rows into `domain_events`.

## Modules

| module | what it is |
|---|---|
| `AuditedMutation` | the abstract promise of an audited order command: an effect at most once; "ok" only after it; a record only after it and before the answer |
| `OrderPipeline` | the three order commands, step by step; implements `AuditedMutation` |
| `OrderPipelineProofs` | theorems about it |
| `ClosePositions` | `close_position` and `close_all_positions` over one account |
| `ClosePositionsProofs` | theorems about it |
| `Saga` | `RunSaga` and `compensateSteps` |
| `SagaProofs` | theorems about it |
| `Accounts` | suspension, activation, change of role, freezes, account deletion and login over one user store |
| `AccountsProofs` | theorems about it |
| `Streams` | alerts, watchlists, credentials and the Telegram chat of one user: stores, events and audit streams side by side |
| `StreamsProofs` | theorems about it |
| `BrokerCommands` | the commands that change something by one call and tell of it by a typed event: GTTs, mutual funds, native alerts, trailing stops, paper trading, conversion, family, consent |
| `BrokerCommandsProofs` | theorems about it |
| `Registry` | the API-key registry: synchronisation after a login, step by step, and the administrator's commands |
| `RegistryProofs` | theorems about it |
| `Desk` | `BrokerCommands` or `Registry`, as one specification |
| `OptionsStrategy` | legs and metrics of a strategy, against the payoff of its legs at expiry |
| `Snapshots` | the queries that put an answer together from several sources |
| `Paging` | the listings an administrator pages through |
| `Queries` | a strategy, a snapshot or a page, as one specification |
| `QueriesProofs` | theorems about it |
| `MC…` | the instances TLC checks |

In each module the definitions marked "broken variant" take no part in the
specification. Each is a plausible bug of the definition after it, named under
`mutants` in `PROJECT.json`, and shows that a property notices it.

### OrderPipeline and the code

A request is a goroutine in one `Execute`; `pc` says where it stands, and every
action is the code between two points at which it leaves its own frame.

| `pc` | the code about to run | actions |
|---|---|---|
| idle | validation (`place_order.go:112-156`) | `Begin` |
| risk | `CheckOrderCtx` (161-193) | `RiskAllows`, `RiskBlocks` |
| resolve | `GetBrokerForEmail` and the call (195-216) | `ResolveFails`, `CallBroker` |
| call | waiting for the broker | `CallSucceeds`, `CallFails` |
| dispatch | `Dispatch`, one event after the other (182-190, 227-234, 247-268), then `NextSequence` (301) | `Dispatch`, `ReturnError`, `AskSequence` |
| outbox, fallback | the INSERTs of `AppendToOutbox`, `Append` (327-334) | `AppendToOutbox`, `FallbackAppend` |
| staged, appended | the row is in its table, and the store call has yet to say so (327-334, then 275-283) | `ReturnSuccess`, `OutboxAnswerLost` |
| done, crashed | returned; died with the process | |

The three commands run the same pipeline and differ in a table (`UseCase`): is
riskguard asked (cancel never does), and what is dispatched on success. `wire`
is the broker's side of the call: it may apply a call after the client has given
up, and after the process has died. `outbox` and `log` are the two tables; they
and the broker survive `Crash`, while goroutines and wiring do not.

A row is committed in one step and `Execute` returns in another. A crash between
the two leaves a row of a request whose caller was never answered, and
`AuditedMutation` has it so: `Record` comes before the answer, and `Crash` may
come between. `AppendToOutbox` may also report an error for a row it has staged
(`OutboxAnswerLost`), upon which the code appends the row directly as well; `via`
in a row tells the two apart. `AuditSound` says that this is the only way to two
rows of a request, and that they agree. What `Append` answers is only logged
(331-333), so that losing it changes nothing. Instrument
rules, prices, quantities and payloads are left out: validation reads nothing
but the command, and may accept or refuse.

Assumed of the outside: `NextSequence` counts staged rows as well as drained
ones; the pump moves a row in one transaction; the store accepts two rows with
one sequence number (two concurrent requests may be given the same). None of
this can be read in this repository, and `RealTimeSequence` depends on the first
(the mutant `NextSequenceOfDrained` shows that it fails without it).

`wiredAt`, `pred`, `underFreeze`, `faults` and `events` are history variables:
they say what was wired, or had returned, when a request began, whether one
freeze has lasted since then, which store calls failed, and what subscribers saw.

### ClosePositions and the code

`Fetch` is the code up to the filtered snapshot (`close_position.go:71-107`,
`close_all_positions.go:78-122`), with `MatchOne` and `MatchAll` the two filters.
`Allows`, `BlocksEntry` and `BlocksCall` are the riskguard check of one position,
`Place`, `CallSucceeds` and `CallFails` its order. A position is known by its
place in the list (`1..Listed`), so that what a call has left to close is a set
and the position at hand (`AtHand`) the least of it: the loop walks the list in
its order. `Enter` closes an entry of the
report. The exchange accepts or refuses an order, then fills or voids it, at any
later time: a MARKET order is answered when accepted. `stale` is a history
variable: the positions somebody else changed since a call's snapshot. Dispatcher
and riskguard are wired; without them (`close_position.go:139`, `175`,
`close_all_positions.go:191`) there are no events to count and nothing is blocked.

### Saga and the code

`i`, `completed` and `cursor` are the indices of the two loops, 1-based where
the code is 0-based. A caller's function either has its effect or fails without
one; `effects`, `attempted` and `undone` are history variables.

### Accounts and the code

A call is a goroutine in `AdminSuspendUser`, `AdminChangeRole`,
`DeleteMyAccount`, or the chain of commands an OAuth callback sends. The stores
lock each operation and nothing spans two, so every store operation is a step.

| call | `pc` | code |
|---|---|---|
| suspend | get, count, freeze, update, terminate | `admin_usecases.go:262-316` |
| role | get, count, update | `admin_usecases.go:360-400` |
| delete | credential, token, terminate, wipe (once for each store of `Wiped`), update | `account_usecases.go:78-122` |
| login | check, ensure; cache; key; session | `oauth_bridge_usecases.go:119-149`, `158-164`, `181-187`; the server around |

`Activate`, `FreezeUser` and `UnfreezeUser` are single steps. Deletion keeps
going past a cleanup that fails, and reports success when its last write did not
happen (`account_usecases.go:97-121`). `data` holds what is in the other stores
as pairs of a store and the login it came through; a live session starts
requests, and a request may write after its session is gone: any store of `Wiped`
(`RequestWrites`), and, in `UpdateMyCredentials`, the credential and then, in a
second step, the token, which it drops (`SetCredential`, `DropToken`;
`account_usecases.go:334-354`). `rotating` are the requests between the two.
Nothing tells such a request that a deletion is under way, so that one that runs
between `DeleteCredential` and the end of the sessions, or longer, leaves a
credential behind the deletion. `Wiped` stands for
alerts, watchlists, trailing stops and the two paper-trading calls, in the order
of the code; the optional ports (riskguard, sessions and the rest) are wired.

Assumed of the outside: `UpdateStatus` and `UpdateRole` of an absent user fail
(a failure is possible for any user); `EnsureUser` makes an absent user an active
trader and leaves the status of a known one alone (`oauth_bridge_usecases.go:38-41`
calls it an upsert); sessions and their requests are the server's.

The history variables name the overlaps in terms of which the properties speak:
`late` (logins a ban overlapped with, or that a deletion already done did not
keep out, since its status write failed or `Activate` undid it), `busy` (requests
that were running when a ban ended the sessions), `midway` (requests that ran at
some time between a deletion's first step and that), `standing` (bans nobody lifted), `thawed`, `raced`
(guarded calls whose read went stale), `botched` (swallowed failures), `closed`.

### Streams and the code

Eleven use cases and the two logins write one store each (the alerts, the lists,
the credentials, the chat, the token cache), and most of them tell the
subscribers and the audit stream of the thing they wrote, each in an order of its
own. The order is the whole of a use case, so it is data: `Stages` gives every use
case the list of its stages, `done` is how many of them a call has behind it, and
each stage is an action. A create whose outbox append was refused is in `direct`
and appends to the log at the same stage (`create_alert.go:174-180`).

| use case | stages | code |
|---|---|---|
| create alert | write, dispatch, sequence, append (outbox) | `create_alert.go:72-182` |
| create composite | write, sequence, append; no event | `create_composite_alert.go:78-223` |
| delete alert | write, dispatch, sequence, append | `alert_usecases.go:79-131` |
| create list | look, write, sequence, append, dispatch | `watchlist_usecases.go:64-98` |
| delete list; add, remove item | write, sequence, append, dispatch | `130-173`, `240-279`, `330-362` |
| update credentials | look, write, token, sequence, append | `account_usecases.go:334-400` |
| revoke credentials | write, token, sequence, append | `243-298` |
| delete account | write, sequence, append, token, alerts, lists | `78-160` |
| invalidate token | token | `192-207` |
| bind chat | look, write, dispatch | `telegram_usecases.go:54-92` |
| login; with own keys | look, write; and store | `oauth_bridge_usecases.go:158-187` |

The other steps of an account deletion are in `Accounts`. An alert or a list goes
by the call that made it, a cell by its name, and what a cell holds by the call
that wrote it. A row is its call, its number and its type; payloads, items and
the instruments of an alert are left out. Validation, which in the alerts ends
with resolving the instruments, reads nothing the module has, and a command it
refuses has no effect, so that `Begin` is a command that passed. A call that
passes the duplicate check and one that is turned away both come out of
`FindByName`.

Assumed of the outside: `NextSequence` counts staged rows as well as drained
ones and gives the next number above all of them; deleting or changing an alert or a list that is not there fails; a login
caches its token before it stores keys of its own; the callback by which the
credential store drops a token itself (`account_usecases.go:328-331`, outside this
repository) is left out, and `NoStaleToken` holds without it; an append that
reports an error has stored nothing. Dispatcher and event store are wired: the
nil branches (`create_alert.go:129`, `149` and their like), in which a use case
tells nobody, are not modelled.

`before`, `replaced` and `lost` are history variables: the calls that had returned
when one began, the entry a write replaced, and the calls whose row was lost.

### BrokerCommands and the code

A behaviour is about one *book*: the GTTs, the fund orders, the SIPs, the native
alerts, the trailing stops, the paper accounts, the positions, the family or the
consents of a user. Commands on different books share nothing but the trail of
events. Each use case is a conjunction of the steps it has, out of one set:

| step | code, in `PlaceGTTUseCase.Execute` for example |
|---|---|
| `Begin` | validation (`gtt_usecases.go:98-119`) |
| `LookupFails` | `GetBrokerForEmail` fails (120-124); for an invitation `CanInvite`, `ListMembers` (`family_usecases.go:211-220`) |
| `Invoke` | the one call through the port (144) |
| `Reject`, `GiveUp` | its error, with a rejection event (145-151) or without (`trailing_stop_usecases.go:76-79`) |
| `Tell` | its success: one event for each identifier, in separate steps (162-181; `native_alert_usecases.go:191-200`), then the return |

What differs between use cases is which of these they have and under which
identifier they tell: a placement's rejection has none, a native alert's
creation has none either, and its deletion tells of each UUID. The audit rows of
these commands are written by a subscriber from the events
(`gtt_usecases.go:160-161`), so the trail is all that is ever known of them.

Assumed of the books (`Apply`, external): a book takes a call whole or refuses
it; the bulk deletion of native alerts may stop half way; removing or changing
needs the thing to be there, which a toggle and a withdrawal do not; remote books may
take a call after its caller gave up; `ConvertPosition` may answer false, or move
a part of the position and leave the rest (`Split`). Five books give each thing a new
identifier (`Fresh`); in the others a thing may be there again.

Things also come and go by other hands, without an event of these use cases, and
the model has these steps in every book: `AccountDeleted` is what
`DeleteMyAccount` does to the trailing stops and the paper engine
(`account_usecases.go:103-113`); `Goes` and `Comes` are triggers that fire, orders
that fill, positions that orders of `place_order`, `close_position` or
`close_all_positions` open and close, what the user does in an application of
the broker's, invitations that run out, consents that are given. `elsewhere` is a
history variable, the things so moved.

The dispatcher is wired: with none (`gtt_usecases.go:23`, `162`) there is no trail.
Events are delivered to the trail when dispatched: `Dispatch` is synchronous. A
crash between the call and the event is not modelled.

### Registry and the code

`at` is where `SyncRegistryAfterLoginUseCase.Execute` (`oauth_bridge_usecases.go:223-260`)
stands: `GetByEmail` (231), `MarkReplaced` (232), `GetByAPIKeyAnyStatus` (239),
`Register` (243) or `Reassign` (254), with the stamp of `LastUsedAt` (258) in the
last of them, since nothing reads it. `AdminRegisterApp`, `AdminUpdateRegistry`
and `AdminDeleteRegistry` are one store call each. `raced` and `administered` are
history variables: users with two overlapping logins, and users the administrator
gave an active key.

Assumed of the registry (external): each call is atomic, `GetByEmail` finds
active entries only (`GetByAPIKeyAnyStatus` is named for the contrast), `Register` refuses a
key that is there, an empty status or owner leaves the old one.

### OptionsStrategy, Snapshots, Paging and the code

`OptionsStrategy` is `options_strategy.go` with integers for rupees: `Validate`,
`Resolve`, `Quote` and `Build` are the stages of `Execute`, `SpecsOf` and `Ordered`
are `buildLegSpecs`, `Metrics` is `applyStrategyMetrics`. The reference is
`Payoff`, the worth at expiry of the very legs the response lists.

`Snapshots` has nine queries. `trading_context` and `pre_trade_check` run a
goroutine per source and receive from a buffered channel (`Read`, `Send`, `Receive`);
the portfolio widget joins two with a `WaitGroup` (`Join`); the other six ask one
source after the other (`Ask`). `OnError` says what a failing source does: fail
the query, be noted, or be left out.

`Paging` is the clamp and the slice of `AdminListUsers` and `AdminListFamily`, on
integers that wrap around at `MaxInt`. `PageIsSlice` states the exception it
found: a `from` within `limit` of the largest integer makes `end` negative, and
the slice panics.

## What the runs check

| run | instance | states | shows |
|---|---|---|---|
| `order_safety` | 2 requests of any kind, 2 orders not both there at first, riskguard, 1 crash | 7.2 M | `AuditSound`, `AuditComplete`, `EventProtocol`, `FreezeBarrier`, `RealTimeSequence`; the refinement of `AuditedMutation` |
| `order_liveness` | 2 requests, 1 order, no riskguard, 1 crash, fairness | 1.0 M | `RequestReturns`, `SuccessIsAudited` |
| `order_lost_answer` | 1 placement | finds | an order reported as rejected, and dispatched as `OrderRejected`, that the broker has |
| `close_two` | 2 calls, 2 positions | 1.2 M | `Accounting`, `FreshCloseFlattens` |
| `close_loop` | 1 call, 3 positions, 1 outside trade, fairness | 0.9 M | `CloseAllFlattens`, `FreezeStopsTheLoop`, `CallEnds` |
| `saga_all` | every saga of 4 steps, fairness | 31 k | `LIFO`, `RollbackComplete`, `Returns` |
| `accounts_all` | 3 suspensions, changes of role or deletions of 2 users, or 3 suspensions, deletions or logins of 1; 1 store whose cleanup may fail, 1 whose cleanup does not | 2.4 M | `GuardKeepsAnAdmin`, `BanLogsOut`, `SuspensionFreezes`, `NothingOutlivesDeletion` |
| `accounts_terminal` | 1 deletion, then an activation | finds | an offboarded account made active again |
| `streams_all` | 3 calls of any of the 13 kinds, 2 names, failing stores | 2.5 M | `RowsInOrder`, `StreamTellsStore`, `EventsTellStore`, `SnapshotsHold`, `OneListPerName`, `NoStaleToken` |
| `streams_auditor` | an update and a revocation | finds | a complete credential stream that ends in a registration, of credentials that are gone |
| `queries_all` | every strategy with strikes to 6 and prices to 3, 9 queries, listings of up to 3 rows; fairness | 0.14 M | `MetricsMatchPayoff`, `LossNeverUnderstated`, `AnswerComplete`, `PageIsSlice`, `QueryReturns` |
| `desk_all` | 3 commands on each of 9 books of 2 things, 1 of which may be moved by other hands; 2 logins of 2 users with 2 keys | 4.3 M | `TrailTellsBook`, `OneOutcome`, `NothingAfterRemoval`, `OneActiveKey`, `OnlyAdminRevives` |

Bounds. Two requests are enough for every pairwise interleaving of the pipeline,
and the properties relate at most two requests; two orders tell "the same order"
from "another". One crash between any two steps, with requests starting after
it, covers loss and recovery; `MaxCrashes` bounds it. In `order_safety` the broker
has at first one of the two orders or none (`SafetySpec`), so that requests on two
orders are two placements, or one and a change of the order that was there.
For closing, three keys are two products of one instrument and a second instrument, long, short or flat;
`MaxQty` bounds quantities, whose size the code never looks at, and `MaxTrades`
outside trades. A saga of four steps has room for a best-effort failure, a step
without compensation and a failing compensation before the step that fails.
For accounts, `MixedSpec` starts with one of two mixes of calls. Two users are the
last admin and another one, and the guard is put to suspensions, changes of role
and deletions: a login makes only traders. What a ban leaves of a user concerns nobody
else, so that logins, suspensions and deletions are all of one user, and the other
is a stranger. Three calls let two bans overlap with a login, or a deletion with
two logins, and two stores are "cleaned" and "failed". The proofs cover any mix and any number.
For the streams, three calls let two overlap after a third has returned, so that
every property meets a thing with a past; two names are the same and another.
For the desk, three calls let two overlap on a thing a third has made; two things
are this one and another, and the bulk deletion of both; `MaxMoves` bounds the things
that come or go by other hands to one, so that the other one still has to be told
of rightly. Two keys and two users are a rotation there and back, and a key that changes hands; the proofs cover
any number. For the strategies, strikes to 6 leave room for every order and
spacing of four of them, wings of different width included, and prices to 3 for
debits and credits of every sign; the formulas are linear in both. Payoffs are
compared from 0 to one above the last strike, where the payoff has all its bends.
`MaxInt` is 1023, so that `from + limit` wraps with limits of up to 500; `from` and
limit are asked at and around 0, the row count, 500 and `MaxInt`.
`order_safety`, `close_two`, `accounts_all`, `streams_all` and `desk_all` use
symmetry on requests, orders, calls, users, names or things, which the modules
never tell apart; the fair runs use none.

Fairness. `WF` of each goroutine's next step: Go schedules runnable goroutines,
and none of these methods waits for anything but a call it made. The broker
client takes no context (`place_order.go:216`), so that `call` ends rests on the
client's own timeout. The pump keeps draining (`session_usecases.go:29-35`).
In `Queries` the same holds of the caller and of every goroutine it starts, each
of which waits for one client or store call. Nothing is assumed of the
administrator or the exchange, and nothing of the broker beyond that its client
gives up: no property depends on an answer coming.

`CHECK_DEADLOCK FALSE` is set where a run really may stop: all requests have
returned, or the saga has.

## What is proved

`OrderPipelineProofs`, for any requests, orders, mixes of commands and crashes,
from the four named assumptions of `OrderPipeline`:

- `TypeCorrect`, `AuditIsSound`: `AuditSound` is not inductive. That an append is
  only reached by a request the broker applied was decided several steps before,
  so the invariant adds `Phases`, which says for every `pc` what `out`, `wire`
  and `order` can be, from the INSERT to the return. `CallSucceeds` is where "ok" and "applied" meet.
- `FreezeHolds`: strengthened to `HeldByFreeze`, that a request under a freeze
  since it began has not passed the risk check.
- `ReplayOrder`: strengthened to `SequenceInv`: a number handed out is above those
  of every row whose request had returned when the asking one began, and a
  request that has returned adds no more rows.

- `AuditIsComplete`: a request the broker applied and that returned has its row, or
  one of the excuses the comments name. `CompleteInv` follows the excuse from
  where it arises: to `outbox`, `fallback` and `done` a request comes with its row
  staged, its append still ahead, or the store failure on record; and what was
  wired when a request began stays wired (`StillWired`).
- `EventsInOrder`: `EventsInv` says that what a request has dispatched and what it
  has left to dispatch together are what its outcome owes (`Owed`), so that nobody
  hears of an outcome that is not the request's, twice, or in another order.
- `PromiseKept`: `Spec => ImplementsPromise`, the refinement of `AuditedMutation`.
  `TypeOK`, `Phases` and `AuditSound` are what it rests on: a row is stored, and "ok"
  is said, only of an effect the promise has made; no request has a row before
  it is past the point where it could still fail. A second row of a request, after a
  lost answer, is a stutter.

`ClosePositionsProofs`, for any calls, number of positions, products, quantities and
outside trades, from `ListedAssumption` and `BoundsAssumption`; all from one
invariant, `CloseInv`:

- `ReportsAreTrue`: `Accounting` looks at the end of an entry, and needs what the
  loop has done so far: the entries and the positions left are together the
  matched ones (no position twice, none skipped), the counts are those of the
  entries, the events those of the entries with an OrderID in their order, and
  the orders of a call are for its entries or for the position at hand (`Ordered`).
- `FreshClosesFlatten`: `Mirrored` says that a position nobody changed behind a
  call's back is what the call saw, or flat once the call's own order has filled,
  at every step in between.
- `CloseAllLeavesNothing`, `FreezeHalts` (from `Halted`: under a freeze a call has sent
  at most the order riskguard had already let through), and `ClosesAreTyped`: no
  call counts more entries than there are positions.

`SagaProofs`, for sagas of every length: `SagaLIFO`, `SagaRollbackComplete`,
`SagaSuccessKeepsAll`. `Forward` says that at step `i` the completed steps are
exactly `1..i-1`, so that the step at the cursor is the cursor itself; `Backward`
says that what has been compensated is what lies above the cursor. The three
properties are its value at the end of the walk.

`AccountsProofs`, for any users, calls and stores, from `AccountsAssumption`:

- `GuardHolds`: the guard counts admins several steps before it writes. `AdminSpared`
  carries the count over: a call past its guard that nobody has raced still sees
  an active admin besides its target. It says precisely what a race is: somebody
  else's write took an admin away or made the target one.
- `BansLogOut`: `BanInv` says that a ban on record goes with the status in the
  user store, so that no login passes its check after it, and that every login
  then in flight is in `late`.
- `SuspensionsFreeze`: `FreezeInv` holds from the freeze on, before the status is
  written, also when two suspensions and an unfreeze overlap, or the write fails.
- `DeletionsLeaveNothing`: `StoreInv` speaks of the stores a deletion has already
  been through (`Cleared`), and needs `RequestInv`: a request still running
  when the sessions are gone is in `busy` or `late`, and one running since the
  credential was deleted in `midway` or `late`. What a deletion leaves is judged
  whether or not it could write the status, so none of this may rest on the status.

`StreamsProofs`, for any finite set of calls (`StreamsAssumption`), any names, and any
mix of use cases (`KindsAssumption`), from two invariants. What a plan looks like
(`Plans`: no stage twice, an append right behind every number) is proved of each of
the thirteen, and the rest is proved of every plan of that form. `StreamsInv` is
about overlaps:

- `RowsReplayInOrder`: a number is above those of all rows on the thing of calls that had
  returned when its asker began (`NumbersInOrder`), who add no more rows since every
  call appends once (`OwnRows`).
- `StreamsAreTyped`: the bound on the numbers is not for free. Numbers have no gaps
  (`NoGaps`), so that a call with number n has n - 1 others below it.
- `SnapshotsAreTrue`: what a call saw is what the entry still holds, up to its write,
  unless somebody overlaps who writes it.
- `ListNamesAreUnique`: a list that is about to be written has met none of its name
  that was there before it began (`Vetted`), and lists of other names cannot turn
  into one.
- `TokensAreFresh`: a call that changes the key drops the token some steps later.
  `Dropped` says which calls have: what they leave cached belongs to a login that
  had not returned when they began.

`StoriesInv` is about what a reader of the events or of the stream believes. `Took` tells
a write that took effect from one the store refused, many steps after it, by
what it leaves behind: the call is still under way, or has its row, or its row is
on record as lost. From there

- `EventsAreTrue` needs that what took effect is told once past its dispatch and
  that nothing else is (`Followed`), that a call is not told of before one that had
  returned when it began (`HeardInOrder`), and that what was made is there or
  somebody deleted it (`MadeOrGone`);
- `StreamsAreTrue` needs, besides, that a thing does not come back and is not changed
  after its deletion (`GoneForGood`), that nothing is aimed at a thing before its
  maker began (`Aimed`), and that the last write of the credentials stands
  (`LastWriteStands`).

`BrokerCommandsProofs`, for any calls and identifiers, from `NoIdAssumption`; all three
from `BookInv`:

- `OneOutcomeHolds`: a call has told as many events as it has counted, each under the
  identifier at its place in the command (`Counting`), and has either ended well or
  not (`Ending`).
- `NothingAfterRemovalHolds`: `NothingAfterRemoval` is not inductive. `Late` says of every
  call under way that may still tell of a thing whose removal was told that it
  overlaps with the removal; `Gone`, that a removed thing does not come back, is why
  no later call can be one of them.
- `TrailTellsTheBook`: between what a call does and its event the trail is behind.
  `TrailTold` says by how much, of each thing that no calls fought over and no caller
  was misled about: what a call did shows in the book while the call is under way
  (`Shows`), and trail and book agree once no call owes an event for the thing
  (`Owes`). It holds because such a thing has one call at a time at work on it
  (`Alone`), because what cannot be trusted stays so (`ReadableBefore`), and because
  a step by other hands moves nothing that is not in `elsewhere` (`Strays`).

`RegistryProofs`, for any users, keys and logins, from `EmptyAssumption`:

- `OneActiveKeyHolds`: `OneActiveKey` is not inductive, since a login registers its key
  several steps after it looked for the old one. `KeyInv` adds `SyncKnows`: a
  login of a user nobody raced or administered, once past its look-up, leaves the
  user no active key but the one it is about to mark, and past the mark none
  but its own. Logins of other users only take keys away from him or hand him
  keys that are not active (`Shrinks`).
- `OnlyAdminRevivesHolds`: a login writes "active" in one place, for a key that is
  not registered.

`QueriesProofs`, for all strikes, premiums, lots and lot sizes, any size of an int above
500, any listing, `from` and `limit`, from `BoundsAssumption` and `PagingAssumption`. One
invariant, `QueriesInv`, has a part for each of the three kinds of request:

- `PageIsSliceHolds`: there is one step, and the work is in the arithmetic.
  `PageFits` shows the slice right as long as `from + limit` is an int, `PagePanics`
  that beyond it the sum is negative and the slice always panics.
- `AnswerCompleteHolds`: `AnswerComplete` looks at the answer only, when it is given.
  `SnapshotInv` follows what a source said on its way there: it is the source's own
  once read (`Spoken`), queued at most once (`Queued`), and then in the answer as its
  query wants it (`Told`). A query that gathers has a source whose goroutine ended in the
  answer or in the channel, never in both (`Gathering`), so that nothing is left in
  the channel when it has received as many as it started. One that joins has nothing in its answer
  before both have ended (`Joining`), and one that asks in order has told exactly the
  sections it is past (`Asking`), which also settles which section a failure names.
- `MetricsMatchPayoffHolds`, `LossNeverUnderstatedHolds`: `StrategyInv` only carries what was
  accepted and quoted to `Build`; the work is the comparison of the formulas with the
  payoff. Both are a quantity times what one unit gains (`LegsScaled`, with the fold of
  `Payoff` written out by `SumOfTwo` to `SumOfFour`, whichever leg is added first), so
  that products drop out. Per unit each form is linear between its strikes: `Honest` says where
  its gain is lowest and highest, what it does beyond the last strike and where it is
  zero. `VerticalHonest` shows it of the four spreads, which follow one `Ramp` up or
  down, `LongVolatilityHonest` of straddle and strangle, `CondorHonest` and
  `ButterflyHonest` of the others. `MetricsTruthful` multiplies it back. The irregular
  shapes are in `Honest` too, with only what holds of them: a butterfly of unequal wings,
  or one that pays, still loses no more than shown unless the upper wing is wider.

Model-checked only: liveness (`RequestReturns`, `SuccessIsAudited`, `CallEnds`, `Returns`,
`QueryReturns`), which the prover does not reach. Every other property of a run is
also a theorem. `SuccessKeepsAll` and the type invariants of `Saga` and `Registry` are
proved, and need no run. The inductive invariants were checked on the instances of the
runs before they were proved.

## Where the code and its comments part

Three runs end in a counterexample to a sentence of the repository; each is a
finding in `PROJECT.json`.

- `place_order.go:224-225` takes an error of `PlaceOrder` to mean that no order
  exists. A lost answer makes it a live order that is reported as rejected and
  is missing from the audit trail.
- `oauth_bridge_usecases.go:35-37` calls offboarded terminal, unlike suspended.
  `AdminActivateUser` (`admin_usecases.go:332`) does not look at the status.
- `account_usecases.go:342-346` holds two registrations to be the worst a race of
  credential calls leaves in the stream. An update and a revocation that overlap
  leave a stream that ends in a registration while the store is empty, every row
  in its place: revoke deletes what update has just set, and takes its number
  first.

Other properties name their exceptions, and so say where the code falls short:

- `AuditSound`: two rows of one request, when the outbox answers an error for a row
  it has staged.
- `NothingOutlivesDeletion`: a credential set by a session between
  `CredentialStore.Delete` and `TerminateByEmail` (`account_usecases.go:84-95`), or
  by a request that was then running, outlives the account; and when
  `UpdateStatus` fails, later logins are let in, since the deletion reports success
  of an account that is still active.
- `SuspensionFreezes`: a suspension whose status write fails leaves a user who is
  frozen and active (`admin_usecases.go:285-288`), and `Activate` does not unfreeze.
- `GuardKeepsAnAdmin`: a guarded call whose count went stale, and any deletion, may
  take the last admin.
- `FreshCloseFlattens` speaks of positions nobody changed since the snapshot.
  Two overlapping `close_position` calls both trade the full quantity
  (`close_position.go:111`) and reverse the position, with two `PositionClosed` events.
- `RollbackComplete` speaks of failed actions. `saga.go:82-84` promises
  compensation on failure, but a nil `Action` (`saga.go:101`) returns without it, with the
  empty `CompensationErrors` that stand for a clean rollback.
- `TrailTellsBook` leaves out what is `Doubtful`: an answer that was lost, a bulk
  deletion that stopped half way, a conversion of part of a position (the event
  has the quantity, but does not say that anything is left) or one the broker
  declined (`convert_position.go:101` dispatches whenever there is no error, though
  37-38 has the event "on success"), and two calls that overlapped on one thing. It
  leaves out what is in `elsewhere`: after an account deletion the trail still says
  that paper trading is on and the stops are active, and it knows nothing of
  positions that orders open and close.
  Native alerts and invitations are created without a name in their event.
- `OnlyAdminRevives`: a user who rotates to a second key and back has two replaced
  entries and no active one.
- `MetricsMatchPayoff` is for `Regular` shapes. `LossNeverUnderstated` names the one
  irregular shape whose maximum loss is shown too small: a butterfly whose upper
  wing is wider (`options_strategy.go:458` looks at the lower one).
- `PageIsSlice`: the panic on a `from` near the largest integer.

## Not modelled, and the plan

Not modelled:

- the plain queries (`queries`, `get_orders`, `margin`, `pnl`, the lists and
  histories of the other files) and the ticker: one validated call each, no
  state and nothing to interleave;
- the OAuth client commands: one store call, which nothing here reads back;
- `ClearSessionData` (`session_usecases.go:74-128`): one store call and, when that
  worked, one audit row by `NextSequence` and `Append`, on the stream of a session,
  which no other use case writes;
- `ports.go`: interfaces, whose contracts are the assumptions above;
- logging, wording and layout; instrument rules; rounding (`round2` of amounts
  that are whole paise is the identity);
- the count behind `CanInvite`, which is kept outside this repository;
- of the saga, the caller's functions beyond their outcome: no use case here calls
  `RunSaga` yet, although `saga.go:38-40` names `DeleteMyAccount`;
- optional ports that are not set, but for the setters of the order commands and
  their riskguard: the other modules presume dispatcher, store and riskguard wired;
- a crash inside `BrokerCommands`, `Streams` or `Accounts`. In `Accounts` a crash is a
  call that stops, which the interleavings contain, but it would end the requests
  too. In `Streams` it is more than that: a create-alert row staged before the crash is
  drained after it, and a call cut off between its store write and its append leaves
  the stream behind the store, like the lost rows `StreamTellsStore` excepts. In
  `BrokerCommands` a call cut off before its event leaves the trail behind the book,
  like a lost answer. The crash is modelled where the code speaks of one, in
  `OrderPipeline`.

Left: nothing that the prover can reach of what is modelled. The part of the plan
that stays with TLC is the five liveness properties.
