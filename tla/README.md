# Verification of the perps exchange

TLA+ specifications of the exchange in this repository, TLC runs over small
instances of them, and proofs, checked by TLAPS, that hold for instances of any
size. Paths are relative to the root of the repository (`src/` in
`PROJECT.json`); `PROJECT.json` lists for every definition the lines it models.

    tlc -workers 2 -config engine.cfg MCEngine      # any run of PROJECT.json
    tlapm EngineProofs.tla                          # likewise the other *Proofs modules

## 1. The system

```
             rows                          stream:engine:input            stream:engine:output
 API  ───────────────▶ Postgres       API ───────┐                    ┌──▶ database writer ──▶ Postgres
 (place, cancel, deposit, sign up)  observer ────┴──▶ engine process ─┼──▶ API (answers)
                                                       │  ▲           └──▶ WebSocket fan-out
                                                       ▼  │
                                                   snapshot files
```

The engine is a deterministic function of its input stream. Around it, everything
is asynchronous: commands and events cross redis streams at least once, the API
writes rows before it sends commands, and four processes follow the output.

| Component | State | Operations | Correct when |
|---|---|---|---|
| Money, accounts (`packages/domain/{money,balances,risk,positions}.ts`) | balance (total, free, locked) and position of each user | credit, lock, release, applyPnl; applyFill; markToMarket; liquidate | total = free + locked; collateral locked is exactly what backs something; the cached liquidation price is current; fills create no money |
| Order book (`packages/domain/book.ts`) | price levels with queues, one list per side | insertResting, removeEmptyLevel, cancelResting, deltaDraft | sorted, no empty level, queues in order of arrival |
| Matching engine (`packages/domain/{engine,state}.ts`) | both, mark price, sequence numbers | user.created, balance.deposited, order.place, order.cancel, index_price.updated | price-time priority; never crossed; only a liquidation changes the net position |
| Stream consumer (`packages/redis-streams/consumer.ts`) | the batch in hand, counters read from redis | reclaim, count, read, dispatch, dead-letter, acknowledge | at least once; one poison message does not block the group |
| Engine process, snapshots (`apps/engine/src`) | engine state, replayedThrough; snapshot files | recover, live handler, publish, saveSnapshot | state = the log, replayed, across crashes; events are published and told apart by id |
| Database writer (`apps/db-Writer/src`) | orders, wallet, positions, fills, processed_events | one transaction per event | idempotent; once caught up, the rows are what the engine knows |
| API handlers (`apps/backend/src/controller`) | rows of orders and wallet | place, delete, onramp, sign up | what is written ahead agrees with what the engine does later |
| API engine client (`apps/backend/src/engine/client.ts`) | waiters with timers, last ids read | submitCommand, fireCommand, tailOutput; engineQuery, tailQueryReplies | each request is answered once, truthfully, and in the end; an answer to a query shows what was confirmed before it |
| WebSocket fan-out (`apps/ws`) | channels of each socket, last id read, one redis connection | connect, subscribe, unsubscribe, backfill, fan out | live entries in order and once; no gap between backfill and live entries; a backfill ends |
| Index price observer (`apps/index-price-observer`) | last sequence number, throttle, calls under way | throttle, number, publish to the log and then to a key, reconnect | the quoted price is in the log; the engine's mark price only moves on, to the newest |

What makes this hard: messages are delivered again after crashes, lost replies
and lost acknowledgements, and out of order after a failed handler; the engine
applies an input and publishes its events in separate steps; a snapshot is
written while the state it shares goes on changing; two consumers may hold the
same message; the API and the database writer both write wallets and orders;
three parties settle the same promise; a backfill and a live feed meet on one
connection; a price is written to two places; and money is divided and rounded. Each
of these is a line of `hazards` in `PROJECT.json`, with the properties aimed at
it or the reason why there is none.

## 2. The modules

| Module | Models | On top of |
|---|---|---|
| `Money`, `Accounts`, `Book` | pure operators of `packages/domain` | |
| `Engine` | class Engine: one action per handler | `Accounts`, `Book` |
| `Exchange` | abstract specification: a central limit order book over a set of orders | |
| `Sums` | the sum of the values of a function on a finite set | |
| `EngineProperties` | properties, inductive invariant, refinement mapping | `Engine`, `Sums`, instance of `Exchange` |
| `EngineProofs` | lemmas about accounts and about one side of the book, theorems about `Engine`, and that it implements `Exchange` | the above |
| `Listing`, `ListingProofs` | sets of ids as lists and lists filtered, with lemmas; lemmas about `Sums`; induction on natural numbers | |
| `ConsumerGroup`, `StreamConsumer` | redis' consumer group and the consumer loop | `Listing` |
| `ConsumerProperties`, `ConsumerProofs` | its promises, the invariant behind them, and theorems | `StreamConsumer` |
| `EngineRuntime` | the engine's process and its snapshots | `StreamConsumer` |
| `Journal` | abstract specification: a log of inputs and how much of it the state reflects | |
| `RuntimeProperties`, `RuntimeProofs` | state is the log, replayed; the invariants behind it, and theorems | `EngineRuntime`, instance of `Journal`, `ConsumerProofs` |
| `Projection`, `ProjectionProperties`, `ProjectionProofs` | the engine with the API's writes, the database writer and a client of the deltas; what each may rely on, the invariant behind it, and theorems | `Engine`, `EngineProofs` |
| `ApiClient` | the API waiting for the engine to carry out commands | |
| `QueryChannel` | the API asking the engine about its state, beside the commands | `ApiClient` |
| `ApiProperties`, `ApiProofs` | promises of both, and theorems | `QueryChannel` |
| `Feed`, `FeedProperties`, `FeedProofs` | the WebSocket server, its promises, the invariant behind them, and theorems | `Listing` |
| `Observer`, `ObserverProperties`, `ObserverProofs` | index prices on their way to the engine and to the API | |
| `MC*` | small instances | |

### Engine

`process()` is synchronous, so a handler is an action: `CreditUser` (user.created
and balance.deposited), `RejectOrder`, `CancelOrder`, `RejectCancel`,
`DropIndexPrice`, `IndexPrice`. `onPlaceOrder` is cut at its matching loop so that
properties can speak of every iteration: `BeginMatch` is the part before the
loop, `Fill` one iteration, `EndMatch` the part after it. The local variables
live in `taker` in between, and every other action requires `Idle`, so nothing
interleaves. `outs` holds the events that `process()` returns.

* Amounts count quanta of 1e-8 (money.ts). Every amount is rounded when it is
  stored, so the rounding of a quotient, halves up (`RoundDiv`), is all that is
  left of floating point; errors below 1e-8 of single operations on doubles are
  not modelled. The instances use small amounts, for which rounding bites early.
* Quantities, prices, leverages and margins are whole numbers. The codec would let fractions pass;
  the API writes every order to integer columns before it sends the command.
* An order is its number, which also stands for the sequence number of the
  resting order: both grow with arrival.
* Left out: `Position.markPrice` (equal to the engine's), `avgFillPrice` and
  `filledNotional` (reported only). The balance and position events of several
  users are one record, since their order in the output concerns nobody.

### Exchange and the refinement

`Exchange` knows no levels, queues or accounts: an arriving order trades with
the best resting order it crosses, the oldest among equals, at that order's
price, as long as there is one. `PriceTimePriority` says that `Engine` implements
it, where `resting` is the set of orders in both sides' queues and `incoming` is
the taker (`OrdersLeft`, `TakerLeft`). The choice that `Exchange` leaves open is
whether an arriving order is turned away, which is a matter of margin.

### StreamConsumer

An action is what happens between two awaits of the loop: `Claim`,
`CountDeliveries`, `ReadNew`, `Handle` or `Throw`, `DeadLetter`, `AckMessage`. Failures
are actions of their own (`Crash`, `ReplyLost`, `LoopError`, `AckFails`), each allowed
only as often as `MaxFailures`. Handlers resolve or throw as they please, without
bound. Of redis, the calls that the loop makes are modelled: `XREADGROUP`,
`XAUTOCLAIM`, `XPENDING` and `XACK` on a pending list in the order of last delivery;
what was idle for long enough is any prefix of it, since the model has no clock.
`CountDeliveries` reads the counters of the first entries of the group, as
`deliveryCounts` does, and not those of the claimed entries. Counters saturate above
`MaxDeliveries`, with which alone they are compared. `stop()` is a crash between two
messages.

### EngineRuntime

Since the engine is deterministic, its state is represented by the inputs that it
applied, in their order. `Process` is the frame of `Engine.process`: a command that
is remembered and an index price that is not new change nothing but
`lastInputId` and counters. `Remembered` are the newest `MaxApplied` commands, as
`recordCommand` keeps them: what was forgotten would be applied again. The handler of the consumer is split at its awaits into
`ProcessMessage`, one `Publish` per event, `FinishHandler`; `PublishFails` may happen at
every XADD. `CrashAndRecover` loads the newest valid snapshot and replays the log
after its `lastInputId`; reading a file may fail, so `Loadable` has every valid one.

A call of `save()` is a record in `saving` and goes on one await at a time: `BeginSave`
serializes and takes the checksum, `WriteFile` writes what the state has become by then,
`RenameFile` makes it a snapshot, `ListFiles` sees which files are to go, and `UnlinkFile`
removes them one by one, or fails to, which is swallowed. Other actions and other saves
come in between, since neither the timer nor the counter waits for a save under way;
`SaveFails` is a write or a rename that fails, and a crash ends every save where it is.
`content` and `sum` of a file tell apart what was written and what the checksum belongs to.

`Journal` is what `src/README.md` calls the source of truth: a log that grows, and a state
that reflects it up to some entry and only goes forward. `FollowsLog` says that the
process implements it: `log` is the input stream, `applied` the last entry up to which the
state is the log, replayed.

### Projection

`Projection` adds the database to `Engine`. When a command is done its events join
`queue`. `Project` is the transaction of the database writer on the next event;
`Redeliver` projects one again whose acknowledgement was lost; `PutOff` is a
transaction that failed, after which the event waits behind later ones. `PlaceOrder`,
`DeleteOrder`, `SignUp`, `Onramp` and `Deposit` are the API's handlers: `Onramp` writes the
wallet and `Deposit` is the engine receiving the command, any time later. A user may have any
number of deposits under way, which `inFlight` counts by their amounts, and they
arrive in any order. `depth` is
what a client knows that folds the order book deltas. Amounts in the database are
integers: what the API accepts are multiples of `Unit`, and what the writer stores is
rounded. Left out: the columns `avgFillPrice`, `markPrice`, `unrealizedPnl`, the
checkpoint row, and a crash between a row and its command.

### ApiClient and QueryChannel

`Submit`, `Enqueue`, `AddFails` and `Timeout` are the steps of `submitCommand`; an XADD whose
reply is lost is an `AddFails` that had its effect. `WaitForEvent`, `TakeEvent` and
`TailFails` are `tailOutput`. The file has two loops around XREAD and the engine's query
server is a third of the same form, so that the operators on a reader (`Idle`, `Wait`,
`HasNext`, `Advance`, `Fails`, `Stop`) stand for all three: each starts from "$", which is
resolved when a call arrives, keeps the id of the last entry once it has read one, and is over
for good when a call is rejected, since nothing catches the rejection. `Process` is the engine
as seen from here: for each command the events that carry its correlation id and that a
controller waits for, makers first. The events of a command join the stream at once: a
reader that comes between two of them reads the same ones later. `Recover` is the engine
after a crash, which replays what is in the log and publishes nothing.

In `QueryChannel`, `Ask`, `EnqueueQuery`, `AskFails` and `QueryTimeout` are `engineQuery`;
`WaitForQuery`, `AnswerQuery`, `ServerFails` and `EngineRestarts` are the query server;
`WaitForReply`, `TakeReply` and `QueryTailFails` are `tailQueryReplies`. An answer is the query
and how many commands the engine had taken, and the history variable `told` is what had
been confirmed to anyone when the query was asked. Commands and queries share the engine and
the failures, and nothing else.

### Feed

The publishing loop and all backfills use one redis connection: `calls` are those that redis
has not executed, `replies` those that the server has not handled. `BeginRead` is the arrival of
an XREAD from "$", `Read` its execution, with or without entries (BLOCK ends), and
`HandleRead` the loop up to its next XREAD. `SubscribeSince` is a subscription with
`sinceId`: `ReadRange` executes its XRANGE and `HandleRange` sends what is deliverable by then.
`LoseConnection` rejects what is under way, which ends the loop; `Restart` is a new process.
An entry is the topic on which it is delivered. Histories: `live` and `filled` are what a socket
got from the loop and from backfills, `owed` the entry after which it was promised
everything, `unheard` the entries that came while nobody read after "$".

### Observer

Ticks are numbered as they come, and a price is the number of its tick. `OnTick` is the
callback in `main()`: throttle, sequence number, XADD; `Drop` is a tick that the throttle or the
check of the price stops. `ExecuteAdd`, `AddReturns` and `ExecuteSet` are the two writes of a
price, between which the connection can be lost (`LoseRedis`) or the process die
(`Restart`). The engine is `onIndexPrice` behind a consumer that may deliver an entry
late (`PutOff`) or again (`Deliver` of an old entry).

`LateRestarts` is an assumption, a CONSTANT that theorems and the run name: the first
price after a restart has an event time beyond every number given out before. The code's number
is the event time unless it was nudged forward on ties, so it takes a tie across the restart, or a
restart within the few milliseconds that nudging has gained, to violate it. Section 6 says
what happens then.

Definitions that a comment marks as "Faulty" are plausible mistakes in the definition
that follows them. They are used by nothing but `mutants` in `PROJECT.json`, which says
for every property which mistake breaks it.

## 3. The runs

| Run | Instance | Distinct states | Shows |
|---|---|---|---|
| `engine` | 2 users, 3 orders, prices 0, 9, quantities 1, 2, 1 index price | 76 thousand | sorted, uncrossed, price-time priority; balances, collateral, positions and money are accounted for |
| `consumer` | 2 consumers, 3 messages, 1 failure, batches of 2 | 165 thousand | at least once, no early dead-lettering, nothing wedges the group |
| `runtime` | 2 messages (command, index price, garbled, repeated or not), 1 event each, 1 crash or lost acknowledgement beside any number of failing publishes, 2 snapshots that overlap, of which 1 is to be kept, with failing writes, listings and unlinks, 1 command remembered | 989 thousand | implements `Journal`; live and recovered state are the log, replayed; a file is removed only if a newer one stays; increasing event ids; every command is applied in the end |
| `projection` | 2 users, 2 orders, 2 deposits of one user or of both, which may overlap, liquidations, 1 redelivered event, commands while 1 event waits | 1.8 million | wallets and positions follow; no order is left open |
| `projection_ledger` | 1 user, 3 orders, quantities 1, 2, 1 event projected late | 287 thousand | deltas give the depth of the book, fills and book agree, what is filled has left the book |
| `api` | 2 orders and 2 queries, 3 requests at most, 1 failure | 388 thousand | a waiter exactly while its promise is open; answers are true and about the request; queries show what was confirmed; each request is answered |
| `feed` | 1 socket of user u, a public channel and the user channel, 3 events of either, counts of 2 | 803 thousand | live entries in order and once; no gap after a backfill; backfills end |
| `observer` | 3 ticks, 4 event times, 1 late restart, 1 late entry | 125 thousand | the quote is in the log; the mark price never goes back and reaches the newest |
| `runtime_outputs_lost`, `projection_filled_quantity`, `projection_rejected_cancel`, `api_reply` | | | violations, see section 6 |

Why these bounds are enough. In `engine`, three orders are what it takes to have two
levels on one side, or two orders in one level, and a taker that walks over both; to
open a position, add to it and turn it round; to average the entry prices 0 and 9
over quantities 1 and 2, which need rounding. Price 0 is the one at which the margin check is
skipped. A margin of 12 splits evenly over every quantity, which `CollateralExact` needs. The index
prices 4 and 13 lie beyond the liquidation prices of a long and of a short at 9.
Users are interchangeable, so TLC identifies states that differ in their names only.
In `consumer`, two consumers and three messages with batches of two are what it takes to
have a message in hand of both consumers and one pending before it. In `runtime`, two entries
can be the same command twice, a command and a tick in either order, or one behind a
garbled entry; two saves are one that prunes while the other has written its file or not,
renamed it or not, listed the files or not, and before, between or during them the state changes.
More saves, batches, several events of one input and failing calls of the loop are left to the
proofs and to `consumer`. In `projection`, two orders are a maker and a taker, and a lag of
one lets the API act on rows that are behind; a user's two deposits are under way together, one
after the other, or with an order between them that locks the first, and if each
user has one, they trade; `projection_ledger` has a third order so that
an order trades twice and a taker meets two makers; who owns an order plays no part in its
properties, and the engine lets users trade with themselves, so one user will do.
In `api`, two orders are what it takes for one to be reported in the other's match,
and two queries for the reply to one that timed out to meet another that waits; three requests
let a query follow a command that was confirmed and one that was not. Cancellations are left to
the proofs and to `api_reply`. In `feed`, each of three entries is on the user's topic or on a public one, and the socket
subscribes to either channel or both, so that an entry of a topic that it did not subscribe to
is one like any of another user; with counts of 2 a batch can be
one, two, or all but the last of the entries, and a backfill can be too long. Sockets do not
share anything but the connection, on which one socket's backfill already waits behind the
loop. In `observer`, three ticks are one before and two after a restart, or a tie that is nudged
and a later one; 4 event times let a late restart follow a number that was nudged. `Tolerance` is 0, because 1e-6 is a hundred quanta and would
admit every order of a small instance; the proofs hold for every tolerance.

`CHECK_DEADLOCK FALSE` is in `api.cfg` only: when the loops have stopped and every
request has been answered, nothing is left to happen.

### Fairness

* `ConsumerSpec`: weak fairness of each consumer's loop, which awaits calls that return and
  handlers that settle. Strong fairness of a claim that finds something: redis counts idle time
  from the last delivery, so what no consumer touches becomes idle; but between two claims the
  loop is elsewhere, and the claim is enabled again and again rather than continuously.
* `Spec` of `EngineRuntime`: weak fairness of the process's loop. That a claim finds
  something is not assumed: an input is applied the first time its message is dispatched, and
  a process that died with a batch in hand replays it. Saves are not part of the loop and may stay
where they are.
* `Spec` of `QueryChannel`: the timers of commands and queries fire. Nothing is assumed of redis,
  of the engine or of the loops.
* `Spec` of `Feed`: redis executes the call at the head of the connection (an XREAD returns
  within its BLOCK of 5 seconds), and the server handles replies. Nothing is assumed of clients or
  of the engine.
* `Spec` of `Observer`: the engine's consumer delivers the next entry, and those it put off.
  That is what `NeverWedged` and `EventuallyApplied` show of it. Nothing is assumed of the observer.

Nothing is assumed of failures, so they may happen until `MaxFailures` or never.

## 4. What is proved

For all values of the constants that satisfy the assumptions of the modules (natural numbers,
positive where the codec asks for it, whole as the database demands; finitely many users, as in any Map of balances; the
answers Waiting and Null are no events), and under the hypothesis that a statement names
(`NoRounding`, `OneProcess`, `LateRestarts`, `InOrder`):

| Theorem | Module | Statement |
|---|---|---|
| `InvHolds` | `EngineProofs` | `Spec => []Inv` |
| `TypesHold` | `EngineProofs` | `Spec => []TypeOK` |
| `BalancesAlwaysAddUp` | `EngineProofs` | `Spec => []BalancesAddUp` |
| `TotalIsAlwaysCreditPlusPnl` | `EngineProofs` | `Spec => []TotalIsCreditPlusPnl` |
| `PositionsAlwaysConsistent` | `EngineProofs` | `Spec => []PositionsConsistent` |
| `BookAlwaysWellFormed` | `EngineProofs` | `Spec => []BookWellFormed` |
| `BookNeverCrossed` | `EngineProofs` | `Spec => []Uncrossed` |
| `MakersAlwaysMetOnce` | `EngineProofs` | `Spec => []MakersMetOnce` |
| `KeepsPriceTimePriority` | `EngineProofs` | `Spec => PriceTimePriority`: the engine implements `Exchange` |
| `NetSizeOnlyLiquidated` | `EngineProofs` | `Spec => NetSizeOnlyMovedByLiquidation` |
| `FillsAlwaysConserveMoney` | `EngineProofs` | `Spec => FillsConserveMoney` |
| `CollateralAlwaysExact` | `EngineProofs` | `NoRounding => (Spec => []CollateralExact)` |
| `WalletsAlwaysFollow` | `ProjectionProofs` | `InOrder => (PSpec => []WalletsFollow)` |
| `PositionsAlwaysFollow` | `ProjectionProofs` | `InOrder => (PSpec => []PositionsFollow)` |
| `NeverGhostOrders` | `ProjectionProofs` | `InOrder => (PSpec => []NoGhostOrders)` |
| `LedgerAlwaysMatchesBook` | `ProjectionProofs` | `PSpec => []LedgerMatchesBook` |
| `FilledAlwaysFinal` | `ProjectionProofs` | `PSpec => []FilledIsFinal` |
| `DeltasAlwaysGiveDepth` | `ProjectionProofs` | `PSpec => []DeltasGiveDepth` |
| `WaitersWhileOpen` | `ApiProofs` | `Spec => []WaiterWhileOpen` |
| `AnswersAlwaysTrue` | `ApiProofs` | `Spec => []AnswersAreTrue` |
| `QueriesAlwaysSeeConfirmed` | `ApiProofs` | `Spec => []QueriesSeeConfirmed` |
| `TypesHold` | `ApiProofs` | `Spec => []TypeOK` |
| `ConsumerInvariant` | `ConsumerProofs` | `ConsumerSafety => []ConsumerInv` |
| `DeliveredAtLeastOnce` | `ConsumerProofs` | `ConsumerSafety => []NothingLost` |
| `NoEarlyGivingUp` | `ConsumerProofs` | `ConsumerSafety => GivenUpOnlyWhenExhausted` |
| `ProcessTypes` | `RuntimeProofs` | `Safety => []TypeOK` |
| `NewestFilesStay` | `RuntimeProofs` | `Safety => KeepsNewest` |
| `LiveStateFollowsLog` | `RuntimeProofs` | `OneProcess => (Safety => []LiveStateIsReplay)` |
| `RecoveryGivesWholeLog` | `RuntimeProofs` | `OneProcess => (Safety => []RecoveryIsReplay)` |
| `EventIdsUnique` | `RuntimeProofs` | `OneProcess => (Safety => []EventIdsIncrease)` |
| `ProcessFollowsLog` | `RuntimeProofs` | `OneProcess => (Safety => FollowsLog)`: the engine process implements `Journal` |
| `FeedInvariant` | `FeedProofs` | `Safety => []FeedInv` |
| `LiveAlwaysInOrder` | `FeedProofs` | `Safety => []LiveInOrder` |
| `NothingEverMissed` | `FeedProofs` | `Safety => []NothingMissed` |
| `QuoteAlwaysLogged` | `ObserverProofs` | `Spec => []QuoteIsLogged` |
| `MarkGoesForward` | `ObserverProofs` | `LateRestarts => (Spec => MarkNeverGoesBack)` |

**Accounts and book.** `Inv` of `EngineProperties` is the conjunction of the first six
properties with `TakerInv` and `BookInv`.
None is inductive alone: a fill divides the maker's collateral by its remaining
quantity, so that the types after it need the remaining quantity before it to be positive, and
`PositionConsistent` needs the share of the collateral not to be negative. `BookInv`
therefore says of every resting order that something is left of it, no more than its
quantity, and that its collateral is not negative. An order that comes to rest goes to
the tail of its queue: for queues to stay in order of arrival, what rests must be older,
which is what `Horizon` says (an order in the loop already has its number, `orderCount`;
outside of it the next number is `orderCount + 1`). `TakerInv` ties the taker to that number.
`EngineProofs` shows that each action preserves each part of `Inv`, from
lemmas at its beginning: what `ApplyFill`, `Liquidate` and the balance operators preserve of
one account, the bounds of `RoundDiv`, and what inserting, filling at the head and removing
preserve of one side.

**Priority.** Other lemmas read the operators of `Book` as operations on the set of orders of
a side: inserting adds one order, filling at the head or cancelling changes or removes one,
whatever becomes of levels and queues, and the head of the first level comes before every
other order of its side (`BestOrder`), because levels are sorted and queues are in order of
arrival. Two conclusions follow. When the loop ends with something left,
nothing on the other side crosses (`NothingCrosses`), so what comes to rest crosses nothing.
And every step of `Engine` is, under the mapping, `Arrive`, `Trade`, `Settle` or `Cancel` of
`Exchange`, or changes nothing: the maker that `Fill` takes is the one that `Exchange` demands, and
the mapping of orders is injective, since side, price and number tell two orders apart. The
refinement needs `Inv` only. The other two theorems need `MatchInv`, which adds that an id
rests once on a side (`IdsApart`), that a bid is below every ask (`SidesApart`), and that a maker
that has been reported to the present taker, while something is left of the taker, has gone
(`MakersGone`).

**Money.** Three properties are about sums over users and over orders. `Sums` defines the sum as a
recursive function on the subsets of a domain, which takes out an arbitrary element.
`ListingProofs` proves by induction over the sizes of the subsets that the function exists and that any
element may be taken out, and hence how a sum changes when one value does (`TotalChange`). Then
the question is what one leg of a fill does to one account (`LegResult`,
a lemma for opening, adding and reducing each):

* its size changes by the signed quantity. The two legs carry opposite signs, so the net size
  stays (`NetSizeOnlyLiquidated`);
* what the account is worth less the cost of its position changes by the price of the quantity, but for
  an error that only adding to a position makes, of at most half a quantum for each lot of the
  position that results. The prices cancel, and what remains is bounded by the lots of the
  positions that the fill adds to (`LotsAveraged`), those of two users at most. When a user
  trades with themselves, the second leg sees what the first one left, and only one of the two
  can err (`FillsAlwaysConserveMoney`);
* what the account has locked besides the collateral of its position (`Spare`) goes down by exactly the
  collateral that the leg carries, provided there is that much: `release` is clamped, and three releases
  of rounded parts must not meet the clamp nor leave a part behind.

For `CollateralAlwaysExact` the invariant is `MatchInv` with `Exactness`: `Spare` of a user is the collateral
of their orders in the book and in the loop. It gives the proviso of the third point, and a
fill takes the same share from the order as from the account. `IdsApart` is needed for the order that
replaces a maker not to be in the book already. `NoRounding` says that each margin is a multiple of each
quantity. It is only used for the taker, whose margin is split twice independently, into
shares of fills and the share of the rest; a maker's margin is reduced by what was taken and its last
share is all of it. Without the hypothesis the property is false, see section 6.

**Database.** `ProjectionInv` of `ProjectionProperties` says at any moment what `CaughtUp` says at the
end. Every event is news of some rows: of wallets (`BalanceNews`), of positions (`PositionNews`), of
the statuses of orders (`StatusNews`). `EndsIn` says of a row that it will be right when the last
news of it in the queue has been projected, or is right when there is none. That survives the
projection of an event, which writes the row and is then gone from the queue, and the events that a
command adds, if they say the last word on whatever the command changed. So most of the proof is, for
each handler, that its events do (`CreditTold`, `CancelTold`, `ClosingTold`, ...): a match reports
nobody before it is done, so that the users of `affected` are excepted until then, and the orders that
have met the taker. A deposit in flight excepts its user's wallet too, since the API has written ahead:
the engine's `balance.updated` ends that. `StreamInv` is about ids: what is delivered again has been
projected, so it changes nothing. `InOrder` is `MaxPutOff = 0`: with events that are put off, the
properties are false, see section 6. `NoGhostOrders` is about orders that are shown as pending or
open. A maker that several takers have filled stays partly filled for good (section 6), and this
permits it.

**Ledger.** What the database knows of trades does not depend on the order in which transactions
succeed: a row is added, once, and never changed. So `LedgerInv` is about sets. `Pending` is
what has yet to be projected, from the queue and from the match in progress, and `Ledger` is the rows of
`fills` with those that the pending events will add; projecting an event moves it from one part
to the other, and putting it off does nothing. `SoldInv` says that the trades of an order in `Ledger` and
what is left of it, in the book or in the loop, add up to its quantity. A fill adds one row and takes the same
quantity from the maker and from the taker. The row must be new, or its quantity would not be
added: two rows are the same when maker, taker, price and quantity are, so it takes `MakersMetOnce` of the
engine, and `TradesInv`, which says that no earlier row names the present taker but those of the
makers that were reported to it. `OneSide` says that an id does not rest on both sides.
`FilledInv` says of every order that is called filled, or that a pending event will call so, that nothing is
left of it: the maker's report is written when the maker leaves, and the event waits until
the match is done. The invariant speaks of pending events because a row of `orders` may be written
long after. When the writer has caught up, nothing is pending and `Ledger` is `fills`. `QueueInv` replaces `StreamInv`: ids that
wait are distinct and have not been projected, in whatever order they wait.

**Depth.** `Seen` is what a client will know when what a match has said so far is published. `DepthInv` says that
it is the depth of every level, except the one that the loop is about to go on with (`Eaten`): that one
has changed and is reported when it is left, which is either when it is empty or when the taker
is filled. So when the loop ends there is no exception. The rest is about the operators of `Book`: filling, inserting
and cancelling leave the orders at every other price alone (`InsertRestingAt`, `CancelRestingAt`,
`AlteredOrdersAt`), as no two levels have one price, and of several deltas of a level the last one counts
(`DeltasJoined`).

**API client.** `ApiInv` is the conjunction of `TypeOK`, `WaiterWhileOpen` and four parts.
`InputInv`: a command is added to the log once. `OutputInv`: events are about processed
commands, and a command is rejected or it is not. `AnswerInv`: an answer is an event of the
stream with its correlation id; with `OutputInv` this gives `AnswersAreTrue`. `QueryInv`: what was
confirmed when a query was asked had been processed by then, and `taken` never goes back, so every
reply to it, whether it was asked before the engine's restart or not, shows it. The proofs
assume nothing about failures, restarts or the loops.

**Observer.** `Inv` of `ObserverProperties` is its types with `QuoteInv` (what is set, or will be
once an XADD has returned, is in the log), `OrderInv` (log, and then what is on its way to it,
increase in tick and in number; under `LateRestarts`) and `MarkInv` (the engine's price is that of
the entry whose number it remembers). With the last two, an entry with a greater number is a
later tick, which is what keeps the mark price from going back.

**Consumer.** `ConsumerInv` holds with any number of consumers, failures and messages. Besides
`NothingLost` it says that the pending list has one entry for a message (`PendingInv`), so that
the XACK of one consumer takes out what there is, and what a consumer in the middle of its loop
may rely on: what it holds was delivered, and `resolved` is only set where a handler resolved or
the message is in the dead-letter stream (`LoopInv`), so that what `AckMessage` removes from
the pending list is not lost. `GivenUpOnlyWhenExhausted` compares a counter that was read some steps
ago with the one that redis has now. That it is true nevertheless is `Held`: a counter never goes
down while its message is pending, so what had too many deliveries when it was counted still
has them, whoever claimed it since, and a message that was just read has one.

**Engine process.** Three invariants, by how much they assume. `HistoryInv` holds with any
faults and any number of consumers: every state that the process is in, was in when
it began a save, or has on disk was reached by entries of the log (`Known`). The types follow.

`PruneInv` needs nothing either. A file that some call of `prune()` is about to unlink, there or not,
has as many newer ones on disk as are to be kept. That is so when the call has listed the
directory, and a rename only adds files. An unlink of a file g takes away a newer one of f only if g
is newer than f; but g itself has enough that are newer, hence so has f. The argument does not depend on
whose turn it is, so `KeepsNewest` holds with overlapping saves, and a crash between two unlinks
leaves too many files rather than too few.

`LevelInv` needs `OneProcess`: at most one process, as `index.ts` starts it, no reply of an
XREADGROUP that is lost, and no more commands than the engine remembers (`NoneForgotten`). Without
the second `LiveStateIsReplay` fails (section 6), and without the third, too, when a forgotten
command is delivered again.
It says that the live state, and every state that was saved, `Reflects` a prefix of the
log: what it applied are the entries with an effect (`Effective`), in their order. The prefix is
long enough to contain everything that was delivered, but for what is left of a batch of new
messages (`Done`), and these are consecutive (`Consecutive`): so the next one either is the
successor of the prefix or was applied before. A snapshot's `lastInputId` is no later than the
prefix that the snapshot reflects; it can be earlier, when a redelivered entry was the last, and then
what is replayed again has no effect (`ReplayReflects`). Hence recovery, from whatever
snapshot, ends in the state of the whole log, and the live state is always that of a prefix.
`NumbersInv` says that what is published and what is left in the outbox is numbered without a gap up to
the counter of the state; recovery drops the outbox and only moves the counter on. For `Journal`,
the entry up to which the state reflects the log (`Reflected`) is the last effective one: it
stays where it is or moves on to a later effective entry, and then the state is again the log
up to there.

`Replay` is a recursive function on the length of the log. That it exists is proved from
the well-foundedness of the natural numbers (`ReplayExists`, from `Induction` of `ListingProofs`, which
quantifies over a set where the library's theorem takes a predicate), and so are the facts
about it, by induction on that length.

**WebSocket server.** `FeedInv` follows the two ways in which an entry gets to a socket. The loop has
one XREAD under way, or the reply to it (`OneRead`), which continues where the last one ended
(`LoopInv`), so that what is published comes after all that was (`LiveInv`). Of what a socket is
owed, every entry is known to it, was unheard, is still in its backfill (`Filling`: in the
range that the XRANGE asks for, or in its reply) or is ahead of the loop (`Ahead`). An entry that
is there when the client subscribes is in the range, one that comes later is ahead of the
loop, and it gets from there to the socket because the socket is still subscribed: what is owed
is forgotten when a channel is left or the backfill is lost (`OwedInv`).

**What is only model-checked.** Liveness, which needs ENABLED.
No module that a proof uses has a RECURSIVE operator.

## 5. What is not modelled

* `ProcessedSet` (`packages/redis-streams`) is used by its unit test only. The engine
  keeps its own list of applied command ids (`Remembered` in `EngineRuntime`).
* `serialize` sorts balances and positions by user, so that after a restart an index price visits
  users in another order and numbers their events differently. Events of several users are
  one record in `Engine`, and event ids are counters in `EngineRuntime`: neither sees the order.
* A crash of the API between a row and its command; login and the read handlers, which keep no
  state of their own.
* The API's shell, the database's setup, the snapshot inspection tool, the frontend, logging,
  metrics and configuration keep no state that a property would be about.
* Field-by-field validation in the codecs is left to their unit tests; an entry that does not
  decode is `Garbled`, or `Nothing` in `Feed`.

## 6. Where code and promises differ

Shown by a run whose property TLC finds violated:

* `runtime_outputs_lost`: inputs that `recover()` replays are never published
  (runtime.ts:68, 103), so the rows of commands that were queued while the engine was down
  stay as they were.
* `projection_filled_quantity`: a maker is reported with its fill by the present
  taker only (engine.ts:264), and the row's `filledQuantity` is overwritten with that.
* `projection_rejected_cancel`: a cancellation that comes too late marks the order as rejected.
* `api_reply`: an order that trades is answered with the report on the maker's order.

Seen while modelling, without a run of its own, because no line of the repository promises
otherwise or because it takes circumstances that the runs exclude:

* index-price-observer index.ts:19 wants sequence numbers that are "strictly monotonic across
  restarts" and nudges them forward on ties, but the last one is only kept in memory: two prices
  with one event time before and after a restart, or a restart after a number that was
  nudged, repeat it. The engine then drops the later price. `observer` assumes that restarts are late
  (`LateRestarts`); without that `MarkFollows` fails.
* An entry whose XREADGROUP reply was lost is processed later than its successors, and can lie
  before a snapshot's `lastInputId`: after a restart it is skipped as replayed although it
  was not (runtime.ts:100-103). `runtime` leaves lost replies out of its `Faults` for this
  reason; with "reply" among them `LiveStateIsReplay` fails.
* An event that is retried after later ones overwrites a final status in the database
  (projector.ts:33): with `MaxPutOff = 1`, `NoGhostOrders` fails. `FilledIsFinal` holds even so.
* The three loops that start from "$" and the fan-out see nothing of what comes between two
  of their first calls; the timeouts of the API cover that, the fan-out's comment "every engine
  output event" (ws index.ts:132) does not.
* A client that backfills gets entries twice and out of order, from the backfill and from the loop
  (ws index.ts:108, 136); when more than 500 follow the one it names, the rest is never sent and
  nothing tells it so. `NothingMissed` is about sets of entries, and about backfills that fit.
* `getPosition` answers null both when there is no position and when the engine did not
  answer (walletController.ts:18).
* When the XADD of a command fails, its row stays PENDING for ever (orderController.ts:25).
* A command that is delivered again after 50000 others is applied again (engine.ts:89; state.ts:69
  calls the list bounded). In `EngineRuntime` that takes more commands than `MaxApplied`, which
  `NoneForgotten` excludes; with `Messages` of two commands and `MaxApplied = 1`,
  `LiveStateIsReplay` fails.
* A maker that two takers fill keeps the status PARTIALLYFILLED for ever, as each report looks at one
  taker only, and the API goes on offering to cancel it. `NoGhostOrders` counts pending and open orders.
* Files stay beyond `snapshotRetain` while a save is between its rename and its last unlink, after a
  crash there, or when an unlink fails (snapshot.ts:73-83), until a later save prunes them. No line
  promises otherwise at every moment; `KeepsNewest` is about the other direction.
* At a limit price of 0, or at a market order with an empty book and no mark price, the
  margin check is skipped (engine.ts:159).
* `unrealizedPnl` keeps its value when a fill changes or closes a position, until the next
  index price (positions.ts:108).
* `dirtySinceSnapshot` is reset after the await, so that what was applied during a write waits for
  the next threshold (runtime.ts:139).
* When a publish fails half way, the retry finds the command applied and publishes nothing
  (engine.ts:77; envelope.ts:11-12 speaks of a "no-op re-emit"). `EffectsPublished` fails
  for this reason, too.
* Margins that do not split evenly leave a few quanta locked when position and orders
  are gone (engine.ts:195; positions.ts:46-47 says that what backs nothing is released).
* `deliveryCounts` reads the counters of other entries than the claimed ones (consumer.ts:134),
  so a message may be retried more often than `maxDeliveries`; `GivenUpOnlyWhenExhausted` and
  `NeverWedged` hold nevertheless.
* `submitCommand` answers null, hence 202, when the XADD itself was rejected (client.ts:145).
* `free` can become negative, by losses and by the tolerance of `lock()`. `BalancesAddUp` holds
  with that; nothing in the repository says that it should not.

## 7. Plan

Done: all components that keep state; the engine proved to implement `Exchange` and its process
to implement `Journal`; the safety properties of the consumer, of the process, of the API client and of
the WebSocket server, the main ones of the observer, the accounting of sizes, money and collateral, and
the agreement of wallets, positions, statuses, the ledger and the deltas with the engine, proved. What is left:

1. What the engine's state is when a command that it forgot is delivered again, as a theorem without
   `NoneForgotten`.
2. A crash of the API between a row and its command, and redelivery to more than one database
   writer, in `Projection`.
