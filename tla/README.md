# Verification of markets-service

TLA+ specifications of the order book, the order API, the matching loop, the
conversions and the custody guard an order passes through, the reads of the
trades, the deploy, the BTCVAR30 oracle and the funding loop of
markets-service, checked with TLC and, for the properties that must hold for
every book and every number of processes, proved with TLAPS. Paths below are
relative to the repository (`internal/...`); modules are in this directory.

    tlc -config one_loop.cfg MCService
    tlc -config deploy.cfg MCDeploy           # entry.cfg: MCEntry
    tlc -config oracle.cfg Oracle             # funding.cfg: Funding
    tlc -config trades.cfg TradeFeed
    tlapm Correctness_proof.tla               # likewise the other *_proof modules

`PROJECT.json` lists the runs, the mutants, the lines each definition models,
the hazards and the theorems.

## 1. The system

Two processes share one PostgreSQL database. `cmd/api` serves HTTP and, when
BTCVAR30 is enabled, runs the oracle and the funding loop; `cmd/matcher` runs
the matching loop. The matcher calls an external executor over HTTP, which
calls the `Matching` and `TradeModule` contracts.

| Component | State | Operations | Interacts by |
| --- | --- | --- | --- |
| Orders repository, `internal/orders` | tables `active_orders`, `trade_fills` | create, cancel, expire, acquire a match, release, finalize, backfill ticks, reads | SQL statements; row locks; one transaction holds locks over several statements (`AcquireMatchCandidate`) |
| Matching engine, `internal/matching/engine.go` | the candidate in hand | one tick: for each instrument acquire, examine, submit, settle, release | repository calls, executor call, a ticker |
| Executor client, `executor.go` | none | one POST with a five-second timeout | HTTP |
| Execution units, `trade_units.go` | none | scale of price and amount of two signed actions | pure |
| Order API, `internal/api/orders.go`, `server.go` | requests in flight | create, cancel by owner and nonce | repository calls with other calls between them |
| Custody guard, `custody_guard.go` | cached contract addresses | checks that a subaccount is deposited | JSON-RPC reads |
| Spot contract, `spot_contract.go` | none | turns a spot intent into an engine order and back | pure |
| Pricing, `internal/pricing` | none | decimals to ticks and back, variance and volatility | pure |
| Registry and config | constant after startup | lookup | none |
| BTCVAR30 oracle, `internal/oracles/btcvar30` | latest payload, time of last success, history table | refresh, hydrate, latest | Deribit client, database, a mutex |
| Funding, `internal/funding` | latest snapshot | refresh | oracle, best bid and ask of the book |
| Deribit client | none | JSON-RPC with retries | HTTP |
| Migrations, `cmd/migrate` | the schema | all migrations, at every deploy | SQL beside running processes |
| Scripts | none | `quarantine_legacy_orders.sh` updates rows of a live database; the others are clients | SQL, HTTP |

What makes each of them correct:

* repository: a row never leaves a final status; a reserved row belongs to one
  matcher; both orders and the trade are written together or not at all;
  nothing is filled past its desired amount;
* engine: price-time priority; a reservation always ends; a fill is recorded
  if, and only if, it happened on chain;
* API: a cancel removes only what it was allowed to remove; an owner's nonce
  is used once;
* pricing, spot contract, execution units: conversions invert each other and
  refuse what they cannot represent;
* oracle and funding: no funding is computed from a stale oracle;
* migrations: a deploy leaves the book readable and correctly ordered.

The hard part is the first three together. A candidate is reserved by a commit
and then lives for seconds in a process that can stop, while users create and
cancel, reads expire orders, the executor may execute without saying so, and
the release is an unconditional statement on two identifiers. Section 3 is
about that; the hazards, each at its line, are in `PROJECT.json`.

## 2. Modules

    OrderStore            tables, locks and statements of the repository
      |-- OrderApi        order handlers
      |-- Matcher         tickInstrument
      |-- Executor        external: executor and TradeModule
            all three composed by
    MarketsService        Init, Next, Spec, FairSpec
      |-- Correctness     the properties; INSTANCE of Exchange
            |-- MCService books for TLC
            |-- Correctness_proof
                  |-- Matching_proof
    Exchange              the abstract contract

    Arithmetic            sums over a sequence, powers of ten
      |-- Arithmetic_proof    lemmas about both and about division; used by
                              Correctness_proof, Pricing_proof, TradeFeed_proof

    Pricing               decimals and ticks
      |-- Spot            intents of the spot market and orders of the engine
    Units                 execution units of two signed orders
            all three used by
    Entry                 an order from the request to the contracts
      |-- MCEntry         instruments and requests for TLC
      |-- Entry_proof
    Pricing_proof         lemmas about the conversions, used by Entry_proof

    Deploy                migrations and backfill beside matcher and users
      |-- MCDeploy        book for TLC
      |-- Deploy_proof

    TradeFeed             GET /v1/trades, page by page, beside the matcher
      |-- TradeFeed_proof

    Oracle                the oracle of each api process, the history table
      |-- Funding         the funding loop of each api process
            |-- Funding_proof

The order book is one state machine (`MarketsService`). `Entry`, `Deploy` and
`TradeFeed` are others about the same tables: each keeps the columns its
subject needs and leaves the rest of the system as free as the code allows. In
`Entry` any two orders that cross may meet, in `TradeFeed` any price may be
recorded. `Deploy` leaves cancels and expiry out, which take rows out of the
book and touch no ticks.

**OrderStore** keeps a row as its immutable part (`Order[o]`, a constant) and
its mutable columns `status`, `filled`, `created`. Every statement of
`repository.go` that changes a row is an operator with the method's name.
`AcquireMatchCandidate` is the only transaction split into its statements
(`BeginTx`, `LockBest` twice, `CommitTx` or `Rollback`): it is the only one
where another session's work can come between two statements and matter. Its
uncommitted writes and its row locks are in `tx[m]`. `skip locked` is
`Lockable`; statements without it wait, which is a guard on `Locked`. The
release and the finalization, whose rows are `matching`, never meet those
locks, because a lock is only taken on an `active` row (`LockInv` in the
proofs). `FinalizeMatchWithPrice` reads its rows `for update` and keeps them
until it commits, so it is one step.

**OrderApi** splits a handler where it reads and later writes. `creating`
holds orders whose checks, the expiry among them, have passed and whose insert
has not run; `cancelling` holds cancels let through by
`validateCancelNamespace` on a row that may change before the update by owner
and nonce runs.

**Matcher** has a program counter per process for the places where
`tickInstrument` can be interleaved or stopped. `asOf` is its `now`, read once;
`cand` its candidate with the fill computed from it. Early returns are
`PassOver` and `RefuseUnits`; the deferred release is a step of its own,
`DeferredRelease`, after `MarkMatchFailed` when that ran, because in the code
too it runs a second time and unconditionally. A crash loses the program
counter and the open transaction and nothing else.

**Executor** is external. It is modelled from what `executor.go` and
`engine.go` assume: the contract accumulates what was filled per signed order
and refuses what goes past the desired amount (`TM_FillLimitCrossed`); an
answer may be lost; a request may be executed after the client stopped
waiting.

**MarketsService** joins each answer of the executor with the matcher's step,
and `Faults` says which failures a run allows: `crash`, `dbError` (a statement
or a commit reports an error, and for a commit it may nevertheless have taken
effect), `reject`, `lostReply`, `lateExecution`, `notAccepted`, `quarantine`.

**Exchange** is what users are promised: orders rest, and leave by a cancel,
by expiring, or by trading with a crossed order of the other side at the price
of the one that came first. **Correctness** maps the service to it: `active`
and `matching` are both `open`, `created` is `placed`, and the rest keeps its
name. Reservations, releases, failures and the executor are stuttering.

**Oracle** has, per api process, the place `Run` is at (`step`), the locals of
`Refresh` (`polledAt`, its `now`, and `fetched`) and the fields of `Service`
(`latest`, `lastSuccess`); the history table is a set of payloads, one per
timestamp, shared by all processes and kept when they stop. A refresh is four
steps: the time is read, Deribit answers, the row is written, the fields are
assigned. Two variables only record: `heard`, in a payload, is the time at
which Deribit gave it, and `shown[i]` the newest timestamp process `i` has ever
made visible. External: Deribit's newest candle moves while it is open and
never goes back, and its clock agrees with the service's to within one unit of
the model's clock.

**Funding** adds the funding loop to each process. `refresh` is split after
each read: `startedAt` (its `now`), the payload `oracle.Latest` returned with
its stale mark (`read`, `readStale`), the second question `IsStale`, and the
book. `CrashApi` stops both goroutines. Quotes are an arbitrary input, crossed
ones included, since the two sides are read by two statements; prices are
integers and marks count half units, so that a midpoint is a sum. The order
book of `OrderStore` is not composed with it: the loop only reads two prices,
and every pair of prices is allowed here.

In the modules of the order book amounts and prices are naturals, owners'
nonces and markets model values. The signed action is `units`, the scale it
implies; two orders are `Executable` when their scales agree. That this is what
`computeExecutionUnits` comes to is `AcceptedCanExecute` of `Entry`.

**Pricing** has the converter of `pricing.go`. A decimal is a number of units
and of places, so that 1.50 and 1.5 are two decimals that are the `Same`;
`Parse` and `FormatTicks` are the methods of that name, in exact arithmetic as
in the code (`big.Rat`). **Spot** has the two translations of
`spot_contract.go` with their rounding and the comparison of decimals up to one
unit of the last place. **Units** is `computeExecutionUnits` with its checks:
the scale found by division, market and side of the action, the signed limits
and the size.

**Entry** follows a request through `handleCreateOrder`: `toParams`
(`Accepted`, with the fields of an intent or of the engine, the variance range
and the comparison with the signed data), then the custody guard, then the
insert. The guard is a step for the look at the cache (`ReadCache`) and one per
read of the chain (`ReadContract`, `ReadOwner`, `ReadRecord`), since subaccounts
move meanwhile (`Move`) and each read may fail or be answered by a node that
knows no contract (`Answer`). `contract` is the cached address, which handlers
that looked at the same time write one over the other; `asked` is the one that
each of them goes on with. `config`, chosen at the start, is what
`newCustodyChecker` makes of three settings, and whether signed data is
compared. `Execute` is the conversion back: the units of a fill and the price
with which the trade is recorded. `heldOnce` only records at which requests the
account was deposited while they were handled. A row is a function of its
request (`Order`), as nothing changes it but its fills.

**Deploy** has the two migrations that change rows, as `cmd/migrate` repeats
them (`Seed` is 000004, `ResetDecimals` 000005), then the startup of the new
api process: `ReadMissing`, the update of one row after another, `Serve`.
`pending` is the list it has read; an update locks its row (`LockRow`,
`updating`) and commits (`Backfill`), and rows of an instrument that is no
longer in the registry are left as they are (`SkipUnknown`). Migrations and
startup may fail; the process is restarted `MaxRestarts` times and after that
the deploy is `abandoned`. Beside it users
insert orders and a matcher takes the steps of `tickInstrument` that read the
ticks: `LockBid`, `LockAsk` with the reservation, `Finalize`. A null is the
first of the bids and the last of the asks, and a row that has one cannot be
scanned. A row that the backfill has locked is skipped by the first two
(`Lockable`) and waited for by the finalization and the release
(`PairUnlocked`). Users place orders only once a process that knows the column
has served (`upgraded`): inserts of a process from before it are not code of
this repository. `TableUnlocked` is the exclusive lock of `alter table`, for
which the transaction between the two locks has to end. The price of an order
is that of its row, `ticks` is the column that comes and goes.

**TradeFeed** keeps the rows of `trade_fills`. A finalization is a transaction
of three steps, since `created_at` is the time of its first and `trade_id` of
its second, and a page is seen by its third; it may roll back. The client
pages as `NextBeforeTradeID` tells it to, and each page comes with statistics
that a second statement has read.

Definitions preceded by a comment `Mutant:` are plausible bugs, one for every
property of a passing run: with the named definition replaced by the mutant,
TLC finds the property violated. They are used by no other definition.

## 3. Runs

The first four runs and `lost_reply` and `not_accepted` use `MCService`. There
`MaxTime` bounds the clock and `MaxRequests` the requests in flight; an expiry
of `MaxTime + 1` never comes. The number of ticks, retries and crashes is not
bounded; the state space is finite because each fill consumes desired amount
and each order is placed once. In `Deploy`, `MaxDeploys` bounds the deploys
(`MaxRestarts` is the setting of `railway.toml`, made smaller), in `TradeFeed`,
`MaxTrades` the trades and `MaxTime` the clock; in `Entry` a behaviour sends
the requests of one batch.

| Run | Book and bounds | Checks |
| --- | --- | --- |
| `one_loop` | a bid of 2, and three asks: one that expires, a later one of the same price, a better one; two clock values, no failures | `TypeOK`, `HeldRowsStayReserved`, `NoOrphans`, `BookMatchesChain`, `PriceTimePriority` |
| `any_failure` | two matchers; a bid partly filled before it came, an ask that crosses it and one that does not; every fault | `LocksProtectActiveRows`, `FillsWithinDesired`, `TradesWithinLimits`, `TerminalRowsFrozen`, `LedgerConserved`, `ImplementsExchange` |
| `crash` | two bids under one owner and nonce, the second protected; two competing asks, one expiring; two requests in flight, crashes and rejections | `NoPhantomFills`, `OrphansStayReserved`, `ProtectedFromService`, `ImplementsExchange` |
| `progress` | two markets, one with a pair that can never execute, the other with a pair that can and, ahead of it, a bid of which nothing is left, each order under a nonce of its own; lost answers; fairness | `ReservationsEnd`, `BookUncrosses`, `FillsReachBook` |
| `entry` | 24 requests for the four kinds of instrument in 15 batches, one subaccount, every configuration; orders of the spot engine with 4 decimal places and intents with 1 | `TypeOK`, `PriceSurvives`, `EchoRestoresIntent`, `ExecutionHonoursSignatures`, `AcceptedCanExecute`, `CustodyEnforced` |
| `deploy` | two deploys, one restart; two bids and two asks that cross, and an ask that does not; three decimal prices, those of the best bid and the best ask among them; two orders older than the column, and a third of an unknown instrument; fairness | `TypeOK`, `BookRestored`, `PriorityOutsideDeploys`, `BookRecovers`, `FillsReachBook` |
| `trades` | one matcher, four trades at two prices, pages of two, a window of 1 and three clock values | `TypeOK`, `PagesComplete`, `StatsCoverPage` |
| `oracle` | two api processes, one table, three clock values, `StaleAfter` 1 | `ServedNeverGoesBack`, `FreshMeansHeardRecently` |
| `funding` | one process, both sides of the cap reached; fairness | `TypeOK`, `FundingFromFreshOracle`, `OutagePausesFunding` |
| `lost_reply` | one bid, two asks, lost answers | refutes `NoPhantomFills` |
| `not_accepted` | one pair, `accepted: false` | refutes `NoPhantomFills` |
| `deploy_window` | as `deploy`, without fairness | refutes `NoPhantomFills` of `Deploy` |

Why these bounds are enough to be interesting:

* An order of two units against orders of one unit is filled partly and
  returns to the book; it is matched again by the same or another process.
* Three orders are the least for a second candidate to exist when a first has
  been released; four are needed for price and time to disagree on one side
  (two asks of one price and one better).
* Two matchers are enough for every conflict over row locks and over a second
  release, since each concerns a pair of transactions.
* Two clock values allow an order to be placed before, at and after
  the beginning of a tick, and to expire while it is reserved. Without a clock
  (`any_failure`, `progress`) nothing expires and all orders are of one age.
* In `progress` the hopeless pair and the one that can trade are in the book at
  the same time, and a tick visits the two markets in either order. The
  exhausted bid may come before the pair is submitted or between a lost answer
  and the retry, and go again when its owner cancels it.
* With two deploys, rows are in every relation to a migration: placed before
  the column, between two migrations, during the backfill, and reserved,
  executed or filled when they are nulled again.
* Four trades are two full pages, an empty one after them, and trades that
  come between the first and the second.
* The conversions are the same for any scale. With four places instead of 18
  products fit TLC's integers, and among the requests are a price off the grid,
  a fraction that begins with a zero, a quotient that is not exact in either
  direction, an intent at odds with its engine fields within and beyond the
  tolerance, and actions signed for the other side, on another scale, on no
  scale, and in raw lots.
* With `StaleAfter` 1 and clock values 0 to 2 a payload is fresh, fresh at the
  limit, and stale; a second process is enough for a row to be written between
  another's fetch and its insert, and to be read back after a restart.

What they show:

* **One loop.** Without failures users, expiry and reads never disturb a
  reserved pair, every reserved row is in the hands of a loop that will
  release it, and book and chain agree except for the fill whose finalization
  is under way. `PriceTimePriority` is stated relative to the beginning of the
  tick: bid and ask are locked by two statements, and an order placed between
  them, or later, may be better than the candidate.
* **Two loops and any failure** (`any_failure`). The database's locks keep two
  acquire transactions apart. They do not keep a reservation: after
  `MarkMatchFailed` the deferred release runs again, and by then the rows may
  be reserved by the other process, which loses them. So
  `HeldRowsStayReserved` is false with two matchers and is claimed for one
  only. Even so no order is overfilled, traded beyond its limit or revived,
  because `applyFill` looks at the row again. Whatever fails, orders and trades
  agree, and what users see is a behaviour of `Exchange`: in particular
  `FinalizeMatchWithPrice` is all or nothing, and a reservation that is lost or
  never released is invisible in the contract, which promises no progress.
* **Crash.** A crash leaves the pair `matching` for ever: nothing at startup
  releases it, cancels answer 404 and expiry skips it. That is bad for its
  users and safe for the ledger: since nobody takes the row, an execution that
  was under way meets no second match (`OrphansStayReserved`,
  `NoPhantomFills`). The mutant that releases on a crash breaks it. A cancel by
  a service spares the protected order that took the nonce of the one it was
  meant for, since a nonce is never used again.
* **Progress.** Every reservation ends, and the pair of one market leaves the
  book although in the other the matcher reserves, refuses and releases the
  same two orders at every tick: a failed match ends the work on its instrument
  and not the tick, as the mutant `FailedEndsTick` would have it
  (`BookUncrosses`). A fill whose answer was lost is recorded when the same
  pair is tried again (`FillsReachBook`). Both promise nothing of a pair while
  it stands behind one of its own market that cannot trade (`Stranded`): an
  order with nothing left, or signed on another scale, stays at the top of its
  side and everything behind it waits, a lost fill too, until it is cancelled
  or expires. `FillsReachBook` further excuses the fill of an order that is
  itself cancelled or expires, or whose counterparty is; what other orders do
  excuses nothing. Where a third order can trade with one of the two it is not
  promised at all: that is the run `lost_reply`.
* **Entry.** A price comes back from ticks unchanged, to the row, to the
  backfill and to the trade. The echo of a stored order is the intent, for
  intents within `Faithful`; beyond it (at the real scales, a price of a
  million cNGN) two roundings reach the last place shown. What is executed
  stays within the signed limit and amount even with the API's comparison of
  signed data switched off, because `computeExecutionUnits` repeats it. With it
  on, `computeExecutionUnits` refuses a crossing pair for one reason only, two
  different scales; among these are orders accepted because their amount was
  signed in raw lots, which nothing can ever execute. After it
  `buildExecutorRequest` may still refuse, for fields of the two actions that
  `Entry` leaves out; in `Matcher` both are `Executable`. The guard never lets an order through whose
  account was not deposited at some moment of the request. It fails closed: a
  node that knows no contract has its zero address cached, and from then on
  every order is refused until the process restarts.
* **Deploy.** When a new process serves, every row has the ticks of its price
  (`BookRestored`), whatever users and the matcher did beside it and however
  often it was restarted: 000005 nulls at least what 000004 has seeded wrongly,
  the backfill takes rows of any status, and inserts bring their ticks. Rows of
  an instrument that is not in the registry keep their nulls, and nothing
  matches them. While a process serves, the better order goes first
  (`PriorityOutsideDeploys`). During a deploy that is not so for either side: an
  ask without ticks comes last, and a row that the backfill is just updating,
  be it the best bid, is skipped. A deploy that is given up leaves the book as it
  is until some process, the matcher included, starts again.
* **Trades.** A client that follows the cursor sees every trade once, although
  a page is ordered by the time a transaction began and cut by an identifier
  drawn later: one matcher's transactions do not overlap, so both orders agree.
  With two matchers they do not and a page can lose a trade; the README of the
  repository describes one.
* **Oracle.** A process stores before it shows, so a restart, which begins with
  the newest row, never shows less than was shown before; and freshness counts
  from before the request, or after a restart from the payload's own time, so
  it never exceeds what was heard. It is freshness of hearing and not of
  observing: a Deribit candle that no longer moves stays fresh as long as polls
  succeed, as `TestServiceLatestUsesLastSuccessAtForFreshness` wants. After a
  restart, and in `History`, the same payload is judged by its timestamp.
* **Funding.** `refresh` asks the oracle twice, and a refresh of the oracle in
  between makes `IsStale` speak of another payload than the one in hand; the
  mark on the payload itself is what keeps a stale one out. A rate stays in
  force until the next interval whatever happens to the oracle meanwhile;
  `OutagePausesFunding` says that it ends then.

`CHECK_DEADLOCK` is off in three runs. In `deploy` and `deploy_window` the
bounded deploys end, all orders are placed and filled, and a tick that finds no
bid is not a step of the model. In `entry` a batch may be stored and executed
in whole, and there is no next one. In all other runs a matcher can always
begin a tick, a client begin to page, an api process start or poll.

### Fairness

`FairSpec` is weak fairness of `MatcherStep(m)`: the ticker fires again and
again and the loop is sequential code that waits only for the database and for
the executor, the latter for at most five seconds. It contains the executor's
answers (`Executed`, `AlreadyFilled`), so an executor that never answers in
time is excluded unless a fault step is taken instead; `Rejected`, `ReplyLost`
and the other failures, users, the clock and the operator owe nothing. Weak
fairness is enough because no step of the loop is disabled again by others for
ever: the only waits are for locks of another transaction. The liveness
properties are checked with lost answers and without crashes, since one crash
leaves a pair reserved, as `OrphansStayReserved` says; and while every answer
may be lost, none is lost for ever, as after the first execution the contract
refuses instead.

`FairSpec` of `Funding` is weak fairness of the funding loop alone, for the
same reasons; the oracle, Deribit and the clock owe nothing, and processes may
crash for ever.

`FairSpec` of `Deploy` is weak fairness of the matcher and of the startup, both
sequential code, and strong fairness of the migrations: they wait for a lock
that the matcher's transactions hold again and again, but they stand in the
table's lock queue, and transactions that come later line up behind them.
`BookRecovers` and `FillsReachBook` excuse a deploy that is given up, and the
latter a counterparty recorded in place of the right one, which is a finding.

In the order book `FillsReachBook` excuses a fill of which one order is
cancelled or expires before the retry, or while a pair of the same market that
cannot trade is ahead of it: the reconciliation needs the same two orders at
the top once more.

### Findings

* `lost_reply`: after a lost answer the filled order is released, paired with
  another order, refused by the contract, and that order is recorded as filled
  together with a trade, though nothing of it was executed
  (`internal/matching/engine.go:184`). The message only says that one of the
  two orders is full.
* `not_accepted`: `{"accepted": false}` with no `tx_hash` becomes
  `Accepted = true` (`internal/matching/executor.go:133`) and is recorded as
  a fill.
* `deploy_window`: `migrations/000005` says that it resets ticks "so startup
  can recompute" them, but it runs at every deploy and beside a running
  matcher. The ticks of a submitted pair are nulled, the match is executed,
  `applyFill` cannot scan the rows (`internal/orders/repository.go:751`), and
  the pair is released. When the backfill has reached one of the two and not
  yet the other, the one is paired with a third order, the contract refuses,
  and the refusal is recorded as a fill of the third, of which nothing was
  executed. No process has to fail for that.

## 4. Proofs

The theorems hold for every set of orders, markets, keys and matchers, and for
every choice of `Faults` unless stated. Assumptions are those of the modules:
`OrderIdAssumption` (identifiers are positive), `OrderAssumption` (types of the
immutable columns; desired amounts are positive, which `toParams` checks),
`MaxTimeAssumption`, `MaxRequestsAssumption`, `FaultsAssumption`; for the
oracle and funding, that `StaleAfter`, `Cap`, prices and variances are
naturals, the coefficient an integer, and that "no payload" is not a payload.
The bounds are arbitrary naturals. For the deploy: desired amounts and ticks
are positive, only finitely many rows are older than the column
(`FiniteAssumption`; a table is finite), and of these only an instrument with
tick 1 has prices without a point (`LegacyAssumption`, the migration's own
claim). For order entry: ticks and minimal sizes of the registry are positive
decimals, no instrument is both of the spot market and counted in lots, the
numbers of a request are any decimals, and the scale of an intent is at most
half of the engine's (`ScaleAssumption`; 6 and 18 in the code). For the trades:
a page holds at least one, prices are positive. Each of these is an `ASSUME`
that TLC evaluates on the runs.

| Theorem | Says |
| --- | --- |
| `LocksSafe` | `LocksProtectActiveRows` |
| `FinishedOrdersFrozen` | `TerminalRowsFrozen` |
| `TypeCorrect` | `TypeOK` |
| `FillsBounded` | `FillsWithinDesired` |
| `TradesRespectLimits` | `TradesWithinLimits` |
| `PairStaysReserved` | `HeldRowsStayReserved`, with one matcher and no quarantine script |
| `BookFollowsChain` | `BookMatchesChain`, with one matcher and no fault but `reject` |
| `BestPairFirst` | `PriceTimePriority`, with one matcher and any faults |
| `ReservedRowsAreHeld` | `NoOrphans`, without `crash` and `dbError` |
| `OrphansAreLeftAlone` | `OrphansStayReserved`, without the quarantine script |
| `ServicesSpareProtectedOrders` | `ProtectedFromService`, without the quarantine script |
| `ServiceKeepsContract` | `ImplementsExchange` |
| `NeverOlder` | `ServedNeverGoesBack`, for any number of api processes |
| `FreshIsRecent` | `FreshMeansHeardRecently`, likewise |
| `FundingUsesFreshOracle` | `FundingFromFreshOracle`, likewise |
| `FundingTypeCorrect` | `TypeOK` of `Funding`, with rates within the cap |
| `DeployRestoresTicks` | `BookRestored`, for every book, tick size, and number of deploys and restarts |
| `DeployKeepsPriority` | `PriorityOutsideDeploys`, likewise |
| `LedgerHolds` | `LedgerConserved`, for any number of trades, crashes and failures |
| `CrashesForgeNoFills` | `NoPhantomFills`, with one matcher, crashes at any step, rejections |
| `DeployTypeCorrect` | `TypeOK` of `Deploy` |
| `FundingLeavesOracleAlone` | the processes with both loops satisfy the specification of the oracle |
| `GuardEnforcesCustody` | `CustodyEnforced`, for all requests, instruments and accounts |
| `EntryTypeCorrect` | `TypeOK` of `Entry` |
| `PricesSurviveTicks` | `PriceSurvives`, for every tick, precision and decimal |
| `ExecutionIsSigned` | `ExecutionHonoursSignatures`, over any sequence of fills |
| `AcceptedOrdersExecute` | `AcceptedCanExecute`, for every pair of accepted orders |
| `EchoIsIntent` | `EchoRestoresIntent`, for all scales within `ScaleAssumption` |
| `FeedTypeCorrect` | `TypeOK` of `TradeFeed`, for any number of matchers |
| `StatsNotBehind` | `StatsCoverPage`, likewise |
| `OneMatcherPagesComplete` | `PagesComplete`, with one matcher |

The hypotheses are needed: with two matchers the second release breaks the
first three of these that ask for one (for `PriceTimePriority`, `skip locked`
also passes over the better row that the other process has locked), a crash
leaves an orphan, the script cancels reserved and protected rows, a lost answer
makes `NoPhantomFills` false (the run `lost_reply`), and with two matchers a
page can lose a trade or show one twice.

The argument:

1. *The store alone* (first part of `Correctness_proof`). `StoreStep` is the disjunction of
   the repository's statements with arbitrary arguments. Whoever calls them, a
   lock is only held on an active row and by one transaction, and no statement
   takes a locked row out of `active`: `LockInv` is inductive over `StoreStep`.
   The same case split gives `StoreStepFreezes`: a final status is never left.
   `StepIsStoreStep` shows that every step of the service
   is such a step, which gives `LocksSafe` and `FinishedOrdersFrozen` without
   any knowledge of the matcher.
2. *Candidates* (`Correctness_proof`). `TypeOK` and `FillsWithinDesired` are
   not inductive: that `FinalizeMatch` is applied to two different stored
   orders and a positive fill depends on what the transaction locked several
   steps before. `IInv` adds, per matcher, `LockedSides` (a locked bid is a buy
   order of the transaction's market, a locked ask a sell order, and neither is
   among the rows it expires), `CandidatePair` (a candidate is two placed
   opposite orders of one market, the maker not the younger) and
   `SubmittedPair` (from the submission on it crosses and has a positive fill),
   and that requests in flight passed their checks. There is a lemma per
   action; frame lemmas (`PairsUnaffected`, `FillsUnaffected`, `MatcherFrame`,
   `ReturnKeeps`) carry the conjuncts that an action leaves alone.
3. *Trades* (`Correctness_proof`). The only step that appends to `trades` is
   the finalization of a candidate (`OnlyFinalizingTrades`), whose limits
   follow from `SubmittedPair` (`CandidateRespectsLimits`); older trades keep
   theirs because `created` never changes for a placed row (`PlacedIsForever`).
4. *One loop* (`Matching_proof`). Users, expiry and the clock leave reserved
   rows alone (`UsersAreOutside`); a step of the only matcher either keeps
   candidate and statuses or lets go of the candidate (`MatcherKeepsOrDrops`),
   or reserves two rows that it has locked (`ReservedPair`).
   `ChainInv` adds to this that the chain is ahead of the book by exactly what
   the matcher has executed and not finalized (`Owed`), and that the fill
   computed at the reservation still fits: so the contract never refuses
   (`NothingFilledBefore`) and neither does the store (`NothingInTheWay`).
   A crash changes the account: what the dead process had sent may be executed
   later, so the chain may be ahead of the book by more than is owed. But the
   two rows are `matching` and in nobody's hands, and stay so (`SetApart`);
   late executions are of such rows only, and of every other row the account
   is what it is without crashes (`CrashesForgeNoFills`).
   `PriorityInv` follows each locked row from its lock to the candidate: the
   rows older than the tick (`Aged`) only ever get fewer while it runs.
5. *Reservations and cancels* (`Matching_proof`). A row is reserved by the
   commit that makes it a candidate (`ReserverHolds`) and a matcher lets go of
   a candidate only by settling its rows (`HolderSettles`). `CancelInv` says
   that an owner's nonce is used once and that every cancel in flight was
   admitted for an order that is still in the table: the row it will hit is
   the one that was checked.
6. *The contract* (`Correctness_proof`). Under the refinement mapping initial
   states are initial states of `Exchange`, and each step is a step of it or a
   stutter (`StepIsContractStep`): `Create` is `Place`, a cancel or the script
   is `Withdraw`, an expiry, alone or committed with a reservation, is
   `Expire`, `FinalizeMatch` is `MakeTrade`, the clock is `Pass`. It needs
   that the rows a transaction expires were due (`ExpiredAreDue`) and that an
   order was not filled before it was placed (`UnplacedUnfilled`).
   The ledger follows from the same steps: only `FinalizeMatch` changes what is
   filled or appends a trade, it does both for the same two orders and the same
   amount, and appending to a sequence adds to its `Total` (`LedgerInv`).
7. *Oracle and funding* (`Funding_proof`). `OracleInv` says that what `Refresh`
   holds is not older than anything the process has shown (`RefreshInv`), that
   what it has shown is in the table (`ShownInv`; `UpsertKeeps`: a conflicting
   insert replaces a row by one of the same timestamp), and that the time of
   the last success is no later than the moment the payload was heard. The
   funding loop's steps are stutters of the oracle (`FundingRunsOracle`);
   `ReadInv` carries the freshness of the payload in hand from `Latest` to the
   store, past whatever the oracle publishes meanwhile.
8. *Deploy* (`Deploy_proof`). `BookRestored` speaks of the end of a deploy and
   needs what each stage has left behind: a stored row has the ticks of its
   price or none (`Canonical`), while the backfill runs the rows without are
   among those it has still to update (`Covered`), and when it serves none are
   (`NothingPending`). `Canonical` holds through 000004, which takes the price
   itself for ticks, because only a row older than the column can have no
   ticks and a price without a point (`NullsAreDecimal`), and such prices are
   canonical (`LegacyAssumption`, which is what the migration's comment says).
   The matcher matters only in that it takes no row out of the table
   (`MatcherKeepsRows`). Priority follows: the backfill locks a row only while
   it runs (`LockHeld`), so while a process serves the statements skip nothing
   and every row they see has the ticks of its price (`ServingBook`); the best
   of them by ticks is then the best. The types rest on the pair in hand being
   reserved, two different rows that are not full (`PairInHand`), whatever the
   migrations do to their ticks.
9. *Custody* (`Entry_proof`). The two reads of the guard see two chains, so the
   address and the owner it has read prove nothing by themselves. The last read
   finds the account deposited, and a deposit that is there while a request is
   handled has been noted at its beginning or when the account moved
   (`SeenDeposits`); from then on the fact stays with the request
   (`CheckedHeld`).

10. *Prices and amounts* (`Pricing_proof`, `Entry_proof`). A conversion is a
   statement about fractions, proved by cross-multiplication and cancelling a
   positive factor, because products of three unknowns are beyond the solver:
   `ParseIsExact` and `FormatIsExact` say that the ticks times the tick are the
   price, from which each undoes the other. Entry has three facts about fills:
   all that is stored was accepted (`DecodedAccepted`), each fill is within
   both signatures (`FillsFit`), and what was executed of an order is to the
   signed amount as what was filled of its row is to the desired one
   (`Proportional`), so that it cannot go past the former while the row does
   not go past the latter. A crossing pair whose scales agree is given units
   (`OneScaleExecutes`), and one that is given units has scales that agree
   (`UnitsTakeOneScale`). The echo rounds twice. The price of the order of an
   intent is an inverse to the nearest, its amount exact (`IntentOrder`); the
   inverse of it is again nearest to the intent's price (`InverseOfInverse`)
   and the quotient to its size (`SizeOfAmount`), within the bounds of
   `Faithful`, and the nearest is unique (`NearestIsUnique`).
11. *Trades* (`TradeFeed_proof`). A finite set of rows can be listed in the
   order of `ListTrades` (`SortedExists`), and a page is the beginning of such
   a list: what is left out is older than all of a full page (`PageLists`).
   The volume of a set of rows, each of size one, is their number (`VolumeIs`),
   and rows are only ever added, which gives the statistics. For the pages, one
   matcher's rows get later times with higher identifiers (`InOrder`), so that
   what is older than the page is below the next cursor; `Paging` then says
   that everything that was there at the beginning and is not below the cursor
   has been seen.

Sums, powers of ten and cardinalities are recursive functions or defined by
finite sets, so induction is possible: `SetInduction` states it about a subset
of the naturals, not about an operator, and the inductions of `Arithmetic_proof`
and `TradeFeed_proof` are instances of it.

Every safety property that a passing run checks, invariant or action property,
is also a theorem. Only model-checked is liveness (`ReservationsEnd`,
`BookUncrosses`, both `FillsReachBook`, `BookRecovers`,
`OutagePausesFunding`), which needs fairness and is beyond the prover, and what
the three runs that expect a violation refute.

## 5. Not modelled

* The database pool, reading of the environment, logging, the presentation of
  orders and markets but for the spot echo, and the wire format and retries of
  the Deribit client: they keep no state of the service.
* Fields of a request that are only required to be there or compared with one
  another (`action_json` names owner, signer, nonce, subaccount): the result
  depends on nothing but the request. The decoding of signed bytes and of
  JSON-RPC answers; signatures.
* The content of the executor's request: what the model of the executor needs
  of it, the two orders and the fill, is the candidate.
* Floating point: volatility, PnL, and the arithmetic of variance and funding,
  for which integers stand. The signed balance deltas of the spot echo, which
  repeat its size and amount, and the change of price in the statistics.
* The matcher's own startup repeats the backfill; `Deploy` has that of the api.
* Deadlock between transactions that lock several rows in different orders.
  The database aborts one of them, which is a failed transaction: `dbError`.
* Each statement is one step that sees the rows and the locks of one moment.
  PostgreSQL takes the snapshot of a `select ... for update` before it locks,
  and re-checks a row that changed in between; a statement that waits is
  modelled as waiting and then reading. In the order book, with one matcher, a row
  that changes within that moment is one that a user or the clock takes out. In a
  deploy it may also be one that has just got its ticks, which is one more
  reason to claim no priority there.
* `Create` is one step: a row whose insert is not committed is not seen, and is
  not locked for anyone.
* Processes from before the column `limit_price_ticks`, and what they insert
  during the first deploy of it.
* Scripts other than `quarantine_legacy_orders.sh` are clients of the API.

## 6. Plan

Done: the order book with its proofs, oracle and funding, order entry with
pricing, spot contract, execution units and custody guard, the deploy, and the
reads of the trades. Left, in order:

1. *Two matchers.* `TradeFeed` and `Deploy` with two, and the startup of the
   matcher.
2. *Composition.* `Deploy` with cancels and expiry, by giving `OrderStore` the
   ticks column.
3. *Behind liveness.* The invariants that the liveness properties rest on: that
   a matcher which holds a candidate always has a step its guards allow, and
   what each step of a reservation brings nearer to its end.
