# PreMark in TLA+

PreMark is a Go service that watches the prices of tokenised stocks. An owner creates rules
("tell me when this token trades 2% below its mark, with a $50 buy"); a scan, started by a
ticker or over HTTP, checks every enabled rule against the market and a live quote and, when
all checks pass, stores a signal, marks the rule as triggered and notifies the owner. This
directory holds a TLA+ model of that service, the TLC runs that check it and the theorems
TLAPS proves about it. Paths are relative to the repository.

## The system

| Component | State | Operations | What makes it correct |
|---|---|---|---|
| Rule endpoints, `internal/usecase/rules.go` under `/v1/rules` | none of its own; copies of rows while a request runs | create, list, enable/disable (read, then save the row), delete (read, then delete) | an owner's confirmed change stays (it need not: `ChangeUndone`); a deleted or disabled rule stays out once no goroutine holds a copy |
| Scan, `usecase/scanner.go`, `ingestor.go`, `evaluator.go` | a mutex; copies of the listed rules, one reading of the clock, a report | one scan: fetch, list, per rule check, quote, save signal, save mark, notify | one scan at a time, every scan ends, every listed rule is evaluated, the report adds up, the cooldown holds |
| Repositories, `adapter/out/memstore`, `adapter/out/sqlitestore` | rules, signals, snapshots; in memory or in SQLite | upsert, get, lists, delete, append | a batch or a list is whole or an error; windows and limits are right; the one SQLite connection always comes back; both stores keep one contract |
| Market pages and signal list, `usecase/market.go`, `usecase/signals.go` | none | `ListMarket`, `GetMarket`, `History`, `ListSignals` | the pages show what the evaluator decided on |
| Decision rules, `internal/domain` | none | `NewRule`, `Precheck`, `Decide`, `Premium`, `PricePerToken` | documented order and boundaries of the checks; no number outside a range gets through |
| Market feed, `adapter/out/prestocksapi` | a cache and its time | `FetchAll` | a bounded age of every answer, although concurrent misses store in any order and the cache may go back within that bound |
| Quotes, `adapter/out/jupiter`, `adapter/out/solanarpc` | a cache of mint info | `QuoteBuy`, `MintInfo` | amounts use a recent multiplier, not always the one in force (`MultiplierStale`); no NaN reaches a decision |
| Scheduler and handlers, `adapter/in/scheduler`, `adapter/in/httpapi` | ticker; the latest report | scan on a tick, scan on request, show the latest | one more scan after every lost tick; the latest report is the latest |
| Process, `cmd/premark` | contexts, server | start, stop on a signal, crash | what was committed survives where the store is durable |
| Notifiers, `adapter/out/notify` | none | `Notify` | only stored signals are announced; one notifier's failure or silence stops neither the others nor the scan |

They interact through shared state: requests and the scan are goroutines over the same two
repositories, with no transaction spanning two calls. A scan keeps copies of rule rows from
its listing to its writes, and both a scan's mark and a PATCH write back a WHOLE row. What is
hard is therefore the interleaving of those copies, a failure or a restart between the three
calls of one trigger (save signal, save mark, notify), a context cancelled in the middle, and
writes that SQLite applied although the caller was told they failed. Below them every call to
SQLite, of a scan or of a page, waits for the one connection of the pool.

## Modules

* `AlertLog` is the promise to the user, with no mechanism: signals stored in time order, two
  signals of a rule a cooldown apart. A rule whose cooldown mark was lost is `loose`; its next
  signal may come early and is recorded as `excused`.
* `RuleStore` is the shared state: `rules` (rows by ID or `NoRule`), `signals` (the log),
  `clock`, and the history variable `unmarked` (rules whose stored `LastTriggeredAt` may be
  out of date). `Saved`, `Deleted`, `EnabledRows` and `WithSignal` are the repository calls.
  `Durable` chooses SQLite or memory; `WriteOutcomes` says how a write can end.
* `RuleService` has one action per repository call of the rule endpoints. `req[q]` holds what
  request `q` read and will write; the history variable `command[id]` is the last change its
  owner saw confirmed.
* `Evaluator` is the scan. `pc[c]` says where caller `c` is in `Scan`; `todo`, `cur`, `now` are
  the locals of `EvaluateAll`, `report` the report being built, `mu` the mutex, `notified` the
  signals handed to the notifier. There is one action per call out of the scan.
* `PreMark` composes them with the clock and with `Restart`, states the properties, and
  instantiates `AlertLog` with `log <- signals`, `loose <- unmarked`.
* `StoreContract` says what the callers of the snapshot and signal repositories may rely on: a
  write or a read happens at one moment or not at all. A row is its table, key, identity and
  time; `asked` and `answer` hold each caller's request and result.
* `Stores` is how the two stores do it: the connection `conn`, a transaction or a result set
  with the rows `left` to handle and those `got`, contexts, failures and restarts. It
  instantiates `StoreContract` with `stored <- rows` and the answers of the calls that are done.
* `MarketFeed` is `FetchAll` for any number of callers: the cache (`cached`, `cachedAt`), where
  each caller is (`at`), when it asked (`since`) and what it got (`got`). A list of snapshots is
  the moment the API read its prices (`asOf`), its stamp (`observedAt`) and whether it is empty.
* `ScanTiming` EXTENDS it with the clock of one scan: its single reading `now`, and rules that
  are taken one after the other, each with a quote that takes time and then, when it signals,
  with the notifiers `multi` calls in turn (`sink` is the one being called, `asked` those that
  were), each up to its own limit in `NotifyTime`.
* `Quotes` is one live quote: the call to Jupiter, the cache of mint information, the call to
  the RPC node, and the choice of a multiplier while its issuer may announce a new one.
  `chain` is the mint's extension, `force[m][t]` the multiplier that was in force at time `t`.
* `ScanFront` is what surrounds scans: the scheduler's loop and ticker, the two scan endpoints
  with the report they keep, and `main` with signal, drain and exit. A scan is only the time it
  holds the mutex; reports are told apart by age.
* `Float64` is Go's arithmetic: products, quotients and differences rounded to a significand below
  `Precision` (2^53), ties to even. A float64 is a pair `<<n, d>>`, infinite or NaN when `d = 0`;
  exponents are unbounded, so finite numbers neither overflow nor underflow.
* `Decision` is the arithmetic of one verdict: `Precheck`, `Decide`, the premium and the quote
  made from Jupiter's strings, with a rounding wherever the code has one. `Failing` and
  `QuoteFailing` are the numbers of the checks that fail, in exact integers and independent of the
  operators that model the code, for sure or perhaps: `Margin` is what the roundings behind a check
  can be worth.
* `MarketViews` EXTENDS it with the list of snapshots a verdict starts from, and with the other
  readers of such a list: the list page, the page of a token, and the check of a new rule's token.
* `RuleParams` follows the numbers of a new rule from the request body to the row and back, in
  a machine word scaled down so that it overflows within reach.
* Modules `MC...` instantiate them for TLC. `MCNumbers` puts `MarketViews`, `Quotes` and
  `RuleParams`, which share no state, into one run: each is explored while the other two are where
  they start. `PreMarkProofs`, `StoresProofs`, `ScanTimingProofs` (with those of `MarketFeed`),
  `QuotesProofs`, `ScanFrontProofs`, `MarketViewsProofs` (with those of `Decision`) and
  `RuleParamsProofs` hold proofs.

The modules share boundaries rather than variables, apart from those `PreMark`, `ScanTiming` and
`MarketViews` compose: the calls that are single steps in `RuleStore` are taken apart in `Stores`
(for the tables of snapshots and signals; rules are read and written in single statements like
`Exec`), `Evaluator` chooses verdicts freely where `Decision` computes them, `ScanFront` sees a
scan as an interval where `Evaluator` sees its steps (that the interval ends is `ScanEnds`), and
a quote's duration in `ScanTiming` is bounded because `QuoteEnds` holds in `Quotes`.

Definitions named after a slip (`TryLockUnchecked`, `SaveSignalFallThrough`, ...) are variants
of the definition that follows them; no specification uses them. Each stands for a plausible
bug, and replacing the real definition by it breaks a property of a run.

### Correspondence with the code

| Action | Code |
|---|---|
| `CreateRule` | `rules.go` 31-62; validation and market lookup fail without effect, so only success is an action |
| `GetForPatch`, `SavePatch` | `rules.go` 76-85 and 86-90 |
| `GetForDelete`, `DeleteRow` | `rules.go` 98-105 and 107 |
| `TryLock`, `Return` | `scanner.go` 30-33 |
| `Ingest` | `ingestor.go`; a failure to store snapshots is only logged |
| `ListEnabled`, `ReadClock` | `evaluator.go` 38-41 and 48 |
| `TakeRule`, `Abort`, `Finish` | one turn of the loop up to the quote, 52-76; the check of the context, 52; the end of the loop |
| `Quote` | 78-95 |
| `SaveSignal`, `Mark`, `Notify` | 97-106, 108-113, 115-121 |
| `Cancel` | a client that leaves, or the signal that stops the process |
| `Restart` | a crash or stop and a new start; memory stores come back empty |
| `Hit`, `Miss`, `Decode`, `Store` | `prestocksapi/client.go` 57-63, 64-74, 84-111, 113-118 |
| `Ask`, `Routed`, `Quoted` | `jupiter/client.go` 70-86, 86-121, 121-142 |
| `MintHit`, `MintMiss`, `Select`, `MintInfo` | `solanarpc/client.go` 118-124, 124-150, 173-197, 160-211 |
| `StartScan`, `TickScan`, `SelectTick`, `SelectDone` | `scheduler.go` 48-61 |
| `HandlerScan`, `HandlerScanEnds`, `StoreLatest` | `router.go` 274-285 |
| `Signal`, `Drained`, `DrainTimeout`, `ServeFails` | `main.go` 121-150 |
| `Surface`, `Notify`, `NotifyExpires` of `ScanTiming` | `evaluator.go` 97-115, `multi.go` 23-31, `telegram.go` 56-79 |
| `IngestSnapshots`, `Acquire`, `NextRow`, `Commit` | `sqlitestore/snapshots.go` 53-93 |
| `AskHistory`, `AskSignals` | `market.go` 89-101, `signals.go` 24-37 |
| `Acquire`, `NextRow`, `EndRows`, `Fail` of a read | `sqlitestore/snapshots.go` 95-132, `sqlitestore/signals.go` 113-162 |
| `Exec`, `InMemory` | `sqlitestore/signals.go` 66-111; the methods of `memstore/snapshots.go` and `memstore/signals.go` |
| `ListMarket`, `GetMarket`, `TokenFound` | `market.go` 29-59 and 61-87, `usecase/rules.go` 45-54 |
| `Precheck`, `Decide`, `Bps` of `Decision` | `decision.go` 41-130, `premium.go` 23-38 |
| `Receive`, `Post`, `CreateRule`, `Row`, `ToDomain` of `RuleParams` | `router.go` 139-162, `rule.go` 56-106, `sqlitestore/rules.go` 24-98 |

Environment, modelled from how the code uses it: the PreStocks API and the RPC node (`Serve`),
which may answer at any time or never, and the issuer of a token (`Announce`), who does not
withdraw an announcement.

Abstracted in the core: symbols, thresholds, budgets and prices (a market verdict and a quote's
outcome are chosen freely, which covers every value they can have); the order in which listed rules
are evaluated (any order, which includes the code's); report texts and logging. Time is counted in
the store's units and does not go backwards. An ID never returns once used (random 128-bit IDs),
except that a restart of the memory store frees the small set of IDs.

## Runs

All bounds are constants of the .cfg files, but for the operators `Small` of `MCPreMark` and
`MCQuotes`.

| Run | Instance | Question |
|---|---|---|
| `Core` | SQLite, up to 2 rules, 2 scan callers, 1 request, times 0..3, 2 signals, fair scans; while there are two rules, times 0..1 and no request | do marks, signals, deletions, reports and the mutex survive any interleaving, failed or half-reported writes, cancellation and restarts, does one rule's failure leave the others alone, does every scan end, is `AlertLog` implemented? |
| `Stores` | either store, 1 scan that saves, 1 page that reads, 1 symbol, 2 owners, 2 rows, 2 units to a millisecond, times 0..3, fair | do both stores keep the contract whatever fails, is cancelled or restarted, are histories and lists right, does every call end? |
| `SignalAge` | a scan with 2 rules and 2 notifiers and another caller of `FetchAll`, TTL 2, timeout 1, snapshot limit 1, times 0..5, fair | how old can the prices be that a call returns and that are behind a signal, is every notifier asked, does a call end when the API does not answer? |
| `Front` | scheduler, 3 handlers, `main`, fair | do the phases fit, does the scheduler go on, does a stop end the process? |
| `Numbers`, verdicts | rules, routes and mints at and around each limit; lists of one snapshot at each limit, or of any two of a few; precision 2^13 | do rounded numbers and documented order agree, can a NaN get through, do pages and verdicts agree on one list? |
| `Numbers`, quotes | 2 mints, multipliers 1 and 2, TTL 2, timeout 1, times 0..3, the second mint changing by time 1 only, fair | how old can the multiplier of a quote be when a new one takes effect while the old one is cached, does a quote end? |
| `Numbers`, parameters | all minutes of a 12-bit word, other fields at their limits | are kept rules in range, is a reasonable request honoured? |
| `ChangeUndone`, `CooldownLost`, `LatestRace`, `CooldownWraps`, `EqualRefused`, `HistoryWindow`, `MultiplierStale` | see below | the disagreements below |

The cooldown is 2 units: times 0..3 hold a signal inside it, at its boundary and after it. Two
signals are what the promise relates. One row suffices for races on a row, since rows meet only
inside a scan's loop; for that `Core` has a second rule, in the part of its states that `Small`
leaves (scans, failures, cancellations and restarts, but no request). `Core` uses SQLite, whose
writes can end in more ways; `CooldownLost` uses memory, and the proofs cover both stores and any
number of rules and requests.

Two rows make a batch that can be cut off in its middle, a list longer than the limit 1, and two
rows of one millisecond. With an even and an odd unit in a millisecond, times 0..3 put rows and
the bound of a window on each side of a cut. The window 1 lies between a refused 0 and 2.

In the timed modules the clock stops at `MaxTime`, a bound. So that it does not keep a call
waiting for ever, every timer has fired by then (`Expire`). `SignalAge` has time for a cached
answer to be served at its oldest, for its successor, and for an answer that is as old as the
snapshot limit allows and both rules; its bound on the age is tight: one unit less is violated.
There the log notifier and the quote take no time and Telegram takes one unit, so that the bound
stays below `MaxTime`: the time of a quote and of a notifier enter it in the same way.
In `RuleParams` a minute is 2^3 * 5 units, so that its multiples wrap around
to numbers that are no minutes, like those of 60e9 = 2^11 * 29296875 in 64 bits.
A TTL of 2 lets a multiplier be stored, a new one take effect a unit later, and the cache still be
hit; with a slow RPC call before, the bound of `MultiplierRecent` is reached, and one unit less is
violated. In `MultiplierStale` the timeout is 0, so that calls take no time and the cache alone is
the cause.

2^13 is small enough for TLC's integers, and like 2^53 it leaves 17 when divided by 25, so that the
premiums of the run, multiples of a hundredth, are rounded the same way: 105 on 100 comes out above
500 bps. On all inputs of the run the verdicts are those of float64 (computed apart). What
`FirstFailingCheckWins` leaves open of a premium is 16 parts in `Precision` of the prices compared:
some 40 bps at 2^13, less than the prices of the run differ by, and below 10^-10 bps at 2^53.

Properties worth naming. `MarkHasSignal`: a row that says it triggered has that signal in the log,
whoever wrote the row last. `MarkCovers`: the row's mark is no older than any signal of the rule,
unless the scan is between its two writes or the mark was lost to a failed write, a crash, or a
PATCH that read the row earlier. `GoneIsGone` and `QuietUntilEnabled`: what CAN be relied on after a
delete or a disable, namely once no goroutine holds a copy. `ReportSound` and `NoRuleLost`: what the
report says happened did happen, and "one bad rule never blocks the others" (README.md:117).
`AlertPromise`: refinement of `AlertLog`. `AgeBounded`: a call returns prices read less than TTL +
timeout before, although concurrent misses store in any order. `PriceAgeWhenSurfaced`: timeout, then
snapshot limit, then the time of the rules; the cache adds nothing, since a hit keeps the old stamp.
`MultiplierRecent`: the multiplier used was in force less than TTL + timeout before.
`KeepsScanning`: a scan is again and again in progress, although ticks that meet an HTTP scan are
lost. `FirstFailingCheckWins`: the verdict is the first failing check of the nine the comments of
`decision.go` number, computed exactly from the inputs but for the margin of the roundings: near a
limit the code may say either, but an impact at its limit and a price at or below the mark, where a
premium is permitted, never count as too high. `BadQuoteIsFailure`: the adapter's filters leave
nothing for the domain's `invalid_quote`. `NoDataIffUnknown` and `PagesAgree`: a rule for which the
scan finds no market data is one whose token the pages and rule creation do not find either, and a
market verdict can be seen on the list page. `ContractKept`: refinement of `StoreContract`.
`HistoryRight` compares times before they are cut to milliseconds: nothing of the window is missing,
memory adds nothing, SQLite only what is less than a millisecond older. `ListRight`: no signal is
left out that is newer, by a millisecond, than one that is listed. `StoreCallEnds`: no call is kept
from the connection for ever, although those before it are cancelled and fail. `AllNotifiersAsked`:
an announcement is over only when every notifier was called.

Fairness: `Core` assumes weak fairness of each caller's own scan steps and nothing
else. Every call a scan makes is bounded by a timeout (10 s in each HTTP adapter) or is a local
statement, and a goroutine that can run is run. Requests, cancellations, restarts and the clock
are not assumed to happen. `SignalAge` and `Numbers` assume that time passes, that a timer
that is due fires and that local steps are taken; that anybody answers is not assumed. In
`SignalAge` it is strong fairness of time, since the steps of a rule that is being quoted hold
the clock of the model back again and again. `Front` assumes that the ticker and the limit of
`Shutdown` fire, that the scheduler's goroutine runs and that its scans end; nothing is assumed
of HTTP handlers, and no signal. `Stores` assumes strong fairness of each call's own steps: a
statement ends, and database/sql gives a free connection to a waiting call chosen at random, so
none is passed over for ever. In `SignalAge` a notifier's limit also fires.

### What the violation runs show

* `ChangeUndone`: the scan's mark (`evaluator.go:108`) upserts the copy it listed, so a rule
  deleted meanwhile exists again although its DELETE succeeded, and one that a PATCH turned off
  meanwhile is on again.
* `CooldownLost`: a PATCH that read the row before the scan marked it (`rules.go:76-86`) writes
  the old `LastTriggeredAt` back, and the next scan signals inside the cooldown. No failure and
  no restart is involved.
* `LatestRace`: a handler keeps its report after `Scan` has freed the mutex (`router.go:281`), so
  an older report can overwrite a newer one and stay as the page's "Latest Scan". (Reports of the
  scheduler's scans are never shown at all.)
* `CooldownWraps`: `cooldown_minutes` times a minute wraps around (`router.go:160`): 307445736
  minutes become 86 seconds, and 2^53 minutes become the default.
* `EqualRefused`: "equal passes" (`decision.go:38`, 74) is not true of the computed premium: 105 on
  a mark of 100 gives 500.00000000000045 bps (`premium.go:29`, 37) and is refused at 500. A quoted
  price of 110 on 100 exceeds the permitted divergence of 1000 bps in the same way.
* `HistoryWindow`: SQLite compares milliseconds (`sqlitestore/snapshots.go:102`), so a history may
  hold a snapshot from just before the `since` it was asked for, against `ports/outbound.go:40`.
* `MultiplierStale`: a cached multiplier is served until its TTL is over
  (`solanarpc/client.go:120`), though the time of the next one, known from the same answer, may have
  come; `jupiter/client.go:33` calls it the "multiplier currently in effect".

More that a reader of the models should know, which the passing runs bound rather than refute. The
staleness check uses the scan's one reading of the clock (`evaluator.go:48`), so a rule late in the
loop can signal from a snapshot that has meanwhile passed `MaxSnapshotAge`, by up to the time of the
rules before it: the last term of `PriceAgeWhenSurfaced`. And `main` waits for HTTP handlers but not
for the scheduler's goroutine, whose scan can be cut off anywhere: `PreMark`'s `Restart` is that. Of
two snapshots of a symbol the page of a token shows the first and the evaluator uses the last
(`market.go:72`, `evaluator.go:44`), hence `alone` in `PagesAgree`. Two signals of one millisecond
are listed by ID. The budget of a new rule is rounded to micro-USDC as if the product before it were
exact (`usdc.go:19`); in float64 a half may come out below and be rounded down, which stays within
the half micro of `HonoredAsAsked`. A saved signal may be in the log although its `Save` returned an
error.

## Proofs

Eight modules hold theorems; all of them are about every value of the constants that the named
assumptions allow, and every safety property of the passing runs, invariants and action properties
alike, is the statement of one. `AlertLog` contains the proof of its own safety (`AlertSafety`).

`PreMarkProofs`, for any sets of rules, owners, callers and requests, any cooldowns, any bounds
and both stores:

* `TypeCorrect`: `TypeInv`, the types together with "a rule is in hand exactly from quote to
  notification". The types alone are not inductive: a mark is only well-typed because there
  is a rule in hand. `TypesKept` (`TypeOK`) follows.
* `ScanIsExclusive`: `OneScan`.
* `Invariance`: `IInv`, the inductive invariant. `MarkCovers` by itself is not inductive, since
  a scan writes back copies: it is strengthened by what copies carry (`MarksBacked`,
  `CopiesCover`: a listed copy covers its rule's signals until the scan adds one), by the shape
  of a scan (`ScanShape`: listed rules are distinct and not the one in hand), by time
  (`TimesInOrder`: no signal is later than the running scan's reading of the clock) and by IDs
  (`IDsUsed`: a fresh ID has no signals yet). `MarksAreBacked` and `MarksCover` are consequences.
* `ImplementsAlertLog`, `CooldownKept`: every step is a step of `AlertLog` or a stutter, so
  order and spacing hold of the service. The step that needs the invariant is `SaveSignal`
  (`MayFireAtSave`): the cooldown was checked on a copy, against an earlier reading of the
  clock, and only `CopiesCover` and `TimesInOrder` connect that check with the log.
* `ReportsAreSound` (`ReportSound`): the invariant `ReportInv` adds what a report can still become
  (`ReportShape`): rules to do are in no list, the rule in hand is in none but that of the failed
  marks, and its signal is stored when it is about to be announced. That listed rules are distinct
  (`ScanShape`) keeps a rule from being counted twice. `AnnouncedAfterStored`
  (`AnnouncedIsStored`) follows from the same shape.
* `ListedStaysListed` (`NoRuleLost`): a case for each step of the scan; nothing but an abort after
  a cancellation takes a rule out without evaluating it.
* `DeletedStaysDeleted` (`GoneIsGone`), `DisabledStaysQuiet` (`QuietUntilEnabled`): these rest on
  where rows and copies come from. A scan's copy comes from a row it listed
  (`CopiesComeFromRows`), a request's from a row it read (`RequestsComeFromRows`), and a row from
  a creation, a PATCH's copy or a scan's copy (`RowsComeFrom`): once no goroutine holds a copy of a
  rule, nothing is left that could bring it back.

`StoresProofs`, for any number of scans and pages, any finite set of rows, any windows and limits:

* `StoresInvariance`: `StoresInv`, which adds to the types what each call holds (`CallShape`): the
  rows left and the rows got of a transaction are its batch, and those of an open result set are
  what the rows NOW select. The latter survives since nobody writes beside the one connection
  (`HolderIsAlone`); without it nothing is known when the last row has been fetched.
* `StoresTypeCorrect` (`StoresTypeOK`): the connection is held exactly by a call that is in a
  transaction or has a result set open.
* `StoresKeepContract` (`ContractKept`): every step maps to a step of `StoreContract` or a stutter.
* `HistoriesAreRight` (`HistoryRight`): from the above and facts on cutting times (`Millis`,
  `CutKeepsOrder`, `ColumnInWindow`).
* `ListsAreRight` (`ListRight`): no two rows, stored or on their way, have the same ID
  (`Unique(Known)`, an invariant of its own), so "newer" is a strict order of the rows
  (`NewerIsOrder`) and the `n` newest of a finite set are `n` rows or all of them (`NewestAreRight`,
  by the least number of newer rows at which that would fail).

`ScanTimingProofs`, for any number of callers of the feed, any TTL, any number of rules, and any
list of notifiers with any limits:

* `FeedTypeCorrect` and `PricesAreRecent` (`AgeBounded`): the invariant `FeedInv` adds that every
  answer travelling, held or cached was stamped at most the timeout after its prices were read,
  and that the cache is dated by the stamp of what it holds; without the latter nothing is known
  of the next hit.
* `TimingUsesFeed`: a step of the timed scan is a step of `MarketFeed` or leaves it alone, so
  `FeedInv` holds in it.
* `TimingTypeCorrect`, `SignalsAreTimely` (`PriceAgeWhenSurfaced`) and `NotifiersAreAsked`
  (`AllNotifiersAsked`): `TimingInv` accounts for where the time since the scan's reading of the
  clock went (`OnTime`): to the rules done before, to the quote of the rule in hand, and to its
  notifiers up to the one being called. Their limits are added up by the recursive function
  `NotifySum`; `NotifySumAdds`, `NotifySumType` and `NotifySumGrows` say what it computes for
  every list of notifiers.

`QuotesProofs`, for any mints, multipliers, TTL and time limit: `QuoteTypeCorrect` and
`MultipliersAreRecent` (`MultiplierRecent`). The property speaks of the finished quote; `QuoteInv`
says the same of every cache entry (`CacheTrue`), and of the answer that travels that its config
is still the chain's or that its new multiplier has come into force since the call was sent
(`AnswerTrue`).

`ScanFrontProofs`, for any number of handlers: `FrontTypeCorrect`; `ScansExclude`, that no two scans
of the scheduler and the handlers overlap, from "whoever scans holds the mutex and nobody else
does" (`HolderScans`); and `NewestIsUnique`, without which `LatestShown` would not say much.

`MarketViewsProofs`, for any rules, any finite prices, and any strings of the quote services, NaN
and infinities included: `ReasonsAreFirst` (`FirstFailingCheckWins`), `SignalsRestOnNumbers`,
`QuotesAreUsable` (`BadQuoteIsFailure`), `SymbolsAgree` (`NoDataIffUnknown`) and
`VerdictsShowOnPages` (`PagesAgree`), for every precision. The work is in the rounding. What the two
recursive functions of `Float64` compute is proved from their declarations (`PowerFromBounds`,
`ReducedParts`); with it an operation is off by at most one part in `Precision`
(`RoundPositiveClose`, `FloatWithin`) and takes no number across an integer below it
(`FloatAtMost`). Such errors add up along the price of a quote (`NearThrough`, `OverNear`,
`PriceParts`: 10 parts) and a premium (`PremiumWithin`: 16), so that `Precheck` and `Decide` agree
with the numbered checks up to that margin (`PrecheckByNumber`, `DecideByNumber`). `ViewsInv`
carries to stage 2 that stage 1 passed.

`RuleParamsProofs`, for any even word, any minute that is a whole number of seconds, and any ranges
within the word: `RulesAreInRange` (`KeptInRange`) and `ReasonableBodiesHonored` (`HonoredAsAsked`).
The invariant `ParamsInv` says that a reasonable body has been read without loss (`Read`); the
lemmas say that `Wrap` is the identity inside the word, and what the conversions to columns and
back keep (`CooldownStored`, `RoundHalf`).

Assumptions on constants, each evaluated by TLC for the instances of the runs: cooldowns are
positive (`MinCooldown` is a minute), the bounds are naturals, `Durable` is a Boolean and `NoRule`
is not a row; TTLs and timeouts are naturals, that of the mint cache positive (`New` sees to it);
rows are finitely many, there is at least one notifier; a mint's unit is a positive number (a
power of ten), prices from JSON are finite, budgets positive, impact limits below `Precision`, which
is a multiple of 16 from 256 on; the default cooldown and impact lie in their ranges,
the smallest cooldown is a minute, and cooldowns and budgets fit into the word.

Three facts on how the proofs are made. `MarketViewsProofs`, `ScanTimingProofs` and `StoresProofs`
each need an induction over numbers; it is done by the least counterexample (`LeastNatural`, from the
well-foundedness of the naturals). Quantities multiplied with each other (times of rules, prices)
are beyond linear arithmetic, so the products are instantiated in steps of their own (`DoneSteps`,
`ProductIsPositive`). And TLC finds every inductive invariant to hold on the
instances of the runs.

Only model-checked is liveness (`ScanEnds`, `StoreCallEnds`, `CallEnds`, `QuoteEnds`,
`KeepsScanning`, `ShutdownEnds`), whose proof needs ENABLED and is out of the prover's reach; and
the seven properties that do not hold, which are refuted by a behaviour.

## Plan

1. Done: `AlertLog`, `RuleStore`, `RuleService`, `Evaluator`, `PreMark`, proofs of their safety.
2. Done: `Decision`, `RuleParams`, `ScanFront`, `MarketFeed` with its proofs, `Quotes`,
   `ScanTiming`.
3. Done: `StoreContract`, `Stores` with its proofs; `MarketViews`; the notifiers in `ScanTiming`.
4. Done: proofs of every safety property of the passing runs; `Float64`, with the rounding of
   verdicts.
5. Worth proving next: what the models assume of each other. `ScanFront` sees a scan as the time
   in which `pc[c]` of `Evaluator` is not `idle`, so `PreMark` should implement the mutex of
   `ScanFront`; and `Decision` should yield no outcome that `Evaluator` cannot choose.

## Not modelled

HTTP formatting, the page, configuration, the smoke test and the test fakes keep no state of the
service. The order of the entries in an answer is a matter of sorting by one key. The tables of
rules share the connection with `Stores` but are modelled in `RuleStore` as single statements. The
server's 15 s `WriteTimeout` (`main.go:117`) drops an answer without stopping its handler: to the
models that client has left, and its retry is another call, which `OneScan` and `AlertPromise`
cover. A COMMIT that fails is assumed to leave nothing. Two scans within the feed cache's TTL
store the same snapshots twice, since the table has no key: a history may show a row twice, which
a set of rows does not tell.
