# A TLA+ development for crypto-dashboard

crypto-dashboard is a Rust service that polls a price provider, stores the
prices in PostgreSQL and pushes each stored batch to WebSocket clients, and a
TypeScript dashboard that merges this feed with an exchange's trade stream into
price tables, charts, alerts and exports, with accounts that carry the settings
from one device to another. This directory models the parts of it in which things
happen concurrently, fail, or arrive out of order; TLC checks small instances,
TLAPS proves the central invariants for every size.

## 1. Inventory

| Part | Source | State | Operations | Interacts with |
|---|---|---|---|---|
| Price service process | `main.rs`, `scheduler.rs`, `use_cases.rs`, `coingecko.rs`, `postgres.rs`, `registry.rs`, `metrics.rs` | coin registry, poll cycle, transaction, prices table, counters | boot, discovery with retry, backfill, refresh, poll, save, broadcast, shutdown | provider (HTTP), PostgreSQL, broadcast channel |
| Fan-out | `websocket.rs`, channel of `main.rs` | ring of 16 batches, cursor per connection, two tasks per connection | send, subscribe, recv, lag, socket send, close | poll loop, clients |
| Request middleware | `router.rs`, `rate_limit.rs` | window start and count per IP, request counter | count, check | every handler |
| Browser price stream | `websocket-price-stream.ts`, `binance-price-stream.ts`, `composite-price-stream.ts`, `feed-gate.ts` | socket, reconnect timer, symbol request, coalescing buffer, hold switch | connect, reconnect, message, flush, hold, unsubscribe | service, exchange, page |
| Live price table | `useLivePrices.ts`, `latest_prices` of `handlers.rs` | prices, loading, live | snapshot, merge, unmount | REST, price stream |
| Live candles | `candles.ts`, `useLiveCandles.ts`, `MarketHero.tsx` | candle series, seeded flag | fold, seed, reset | price stream, price table |
| Accounts and preferences API | `auth.rs`, `users.rs` | users, preference blobs | register, login, get, put | cloud sync |
| Cloud sync and local state | `cloud-sync.ts`, `useLocalState.ts`, `AccountPanel.tsx`, `LoginGate.tsx`, `AuthCell.tsx`, the tabs of `Terminal.tsx` | localStorage, session, guest flag | push, pull, login, logout, load, save, change of tab or page | accounts API, every panel with a setting |
| Price alerts | `PriceAlerts.tsx` | alert list, fired set | evaluate, add, remove, re-arm | price table, local state |
| Charts | `UseAllSeries.ts`, `useExtremes.ts`, `MultiCoinChart.tsx`, `PriceCharts.tsx`, `CoinDetail.tsx`, `CandlestickChart.tsx`, `Extremes.tsx` | selection, series, requests | select, fetch, cancel, append | REST, price stream |
| Realtime ticker | `RealtimeChart.tsx`, `useTickRate.ts` | buffer, headline, rate | choose, print, measure | price stream |
| Terminal shell | `Terminal.tsx`, `useCoins.ts`, `usePriceFlash.ts`, `MarketHero.tsx`, `Watchlist.tsx` | page-wide registry cache, selected pair, hold, flash | mount, select, price, hold | REST, price stream |
| Observability tab | `ObservabilityPanel.tsx`, `prometheus.ts` | vitals, board, errors | refresh, abort | `/metrics`, `/health`, Prometheus |
| Data export | `DataExport.tsx` | selection, busy, exports under way | CSV, JSON, ALL JSON, XLSX | REST, local state |
| Market summaries and cards | `KpiStrip.tsx`, `MarketOverview.tsx`, `Breadth.tsx`, `PriceCards.tsx` | favourites, filter, sort, search | derive, toggle | registry, price table |
| Read queries | `handlers.rs`, `postgres.rs`, `dto.rs` | none | extremes, series, OHLC, CSV | PostgreSQL |
| Analytics | `indicators.ts`, `correlation.ts`, `treemap.ts` | none | pure functions | charts |
| Other views, configuration, schema | components, `config.rs`, `migrations/` | hovers only | render | the hooks above |

What is hard to test here, and what each part must guarantee in spite of it:

* **Service.** A kill, a failed statement, or a COMMIT whose answer is lost, at
  any await; the registry replaced while a poll awaits. Clients must only ever
  be shown stored prices, a batch is stored whole or not at all, `/metrics`
  must agree with the table, seeding must not duplicate history, every cycle
  must end, a failed discovery must be made up for.
* **Fan-out.** Slow clients and lagging receivers, the two tasks of a connection
  ending in either order. No client may be skipped ahead silently; a broken
  connection must be torn down whole.
* **Middleware.** Window boundaries, and a clock read before the lock is taken.
* **Price stream.** Error followed by close, unsubscribe during a request,
  hidden tabs. Never two reconnect chains, nothing left running.
* **Price table.** A snapshot and a stream racing on two connections.
* **Candles.** Late prints, a late seed, three clocks (the exchange's, the service's, the
  page's), switches of coin and width.
* **Accounts.** Answers of calls whose panel, or whose page, is gone; a pull under
  mounted panels; two devices. No edit may be lost to anything but a pull, a
  session must name an account, the account panel must not stay busy.
* **Alerts.** Effects, renders and clicks in any order React allows. One
  notification per crossing, no crossing missed, and no click undone unless an evaluation
  is due when it is made.
* **Charts, ticker, export.** Selections that change while answers are under way, batches
  that quote some coins in some currencies: what is drawn or written is what its labels
  say, no batch costs another its points, and every wait ends.
* **Cards.** A snapshot and batches of partial quotes under clicks: every quoted coin that
  passes the filters keeps its card.
* **Terminal, Ops.** Panels that come and go around one shared request; refreshes
  that overtake each other; one of two sources down.

`PROJECT.json` lists these hazards line by line.

## 2. Modules

| Module | Models | Role |
|---|---|---|
| `PriceService` | the service process | one action per await-to-await step of `main()`, the refresh task and the polling loop; `Crash`/`Exit` between any two |
| `OrderedFeed` | - | abstract: what a WebSocket client may rely on |
| `PriceFeed` | channel and `handle_socket` | implements `OrderedFeed` |
| `RequestGate` | counter and limiter | |
| `PriceStream` | one composite subscription in the browser | |
| `LivePrices` | `useLivePrices` composed with poll, broadcast and `latest_prices` | |
| `LiveCandles` | `foldTick` and `useLiveCandles` | |
| `Accounts` | the account API, one browser window and other devices | |
| `PriceAlerts` | the alerts of the desk tab | panel |
| `Charts` | five charts over three ways to fetch | panel |
| `Ticker` | realtime chart and tick rate | panel |
| `TerminalPage` | page-wide coin registry, selected pair, hero | panel |
| `Ops` | observability tab | panel |
| `DataExport` | exports | panel |
| `MarketViews` | summaries and price cards | panel |
| `Indicators` | indicators, correlation | pure operators, on series that grow |
| `Treemap` | market map | pure operators, on weights that grow |
| `Sums`, `Filter` | `reduce` and `filter` of arrays | recursive functions that panels use |
| `MCPanels` | all panels | the panels share no state; a behaviour exercises the one in `focus` |
| `*Proofs` | | theorems about the module they extend |
| `MC*` | | constants for TLC |

How state and steps correspond to the code:

* **`PriceService`.** `phase` is the program counter of `main()`: `discover`
  (`discover_top` at start-up), `check` and `seed` (`backfill_from_sparklines`),
  `serving`, `draining` (after Ctrl-C). `disc` is the discovery in progress:
  start-up's, later the refresh task's. `poll` is the polling loop (`request`,
  `save`, `record`, `send`; `stopped` when its `select!` saw Ctrl-C), `save` the
  open transaction of `save_prices`: rows inserted one statement at a time,
  visible in `db` on COMMIT only. A COMMIT may take effect and its answer be
  lost, to the caller (`SaveCommit(FALSE)`) or because the process died
  (`Die(TRUE)`). `StartPoll` copies the registry's coins, as
  `fetch_current_prices` does, before the request; `PollResponse` quotes any
  subset of the requested pairs, because missing quotes are skipped.
  `DiscRetry`/`PollRetry` are `get_with_retry`, the outcome after the last
  attempt and non-retryable statuses are `DiscFail`/`PollFail`. A price is its
  pair and clock reading; values are irrelevant. A seeded sparkline series is
  one row, its last point. `fetched` and `boots` are history and bound; `before` and `unseen`, also
  history, are the table that an earlier process left and the rows of a COMMIT whose
  answer the poll did not get.
* **`PriceFeed`.** A batch is its number. `cursor` is the channel receiver; the
  channel keeps the last `Cap` values, so `Lags` is `tail - cursor >= Cap`.
  `while let Ok(..)` treats `Lagged` like a closed channel: `RecvLagged` ends the
  send task. `wire` is what the transport has taken and the client has not read;
  a full wire blocks `sender.send`. `CloseSocket` is the `select!`.
* **`RequestGate`.** `Enter` counts the request and reads the clock, `Check` is
  the part under the lock; between the two at most `MaxDelay` passes.
  `duration_since` saturates at zero.
* **`PriceStream`.** Sockets, timers and requests are counted per adapter, so a
  second one would show. Every event-loop callback is one step; `Unsubscribe`
  runs both adapters' cleanups at once, as the composite does. `unlisted` remembers a
  symbol list without a pair to stream, after which `connect()` schedules nothing.
* **`LivePrices`.** A version of a pair is the number of the poll that produced
  it. `ReadPair` is one query of `latest_prices`. `ticked` marks pairs whose
  entry is an exchange trade.
* **`LiveCandles`.** `Watch` is a change of coin or width: cleanup, reset, seed
  and subscribe effects of one commit. `SeedPriceChanges` is the seed effect
  alone. A print is stamped at some time up to the
  clock of its source: `clock` is the exchange's, the service's is `lead` and the page's
  `skew` ahead of it. `tape` is history: what was folded since the series was last started.
* **`Accounts`.** `stored` is localStorage, `island` the `useLocalState` of each
  synced key with its two effects (read on mount, `Settle` writes back), `ops` the
  calls of `cloud-sync.ts` in flight. Leaving a tab unmounts its panels but not
  their calls (`mine` becomes FALSE); loading a page drops the calls (`NoOps`).
  `ServerAuth`/`ServerPrefs` are the handlers, `CallFails` an error status or a lost
  answer, before or after the call was served. A setting is the number of the edit
  it came from. A click's own render completes the one before (`Settled`).
* **`PriceAlerts`.** `due` says that the effects of the last render have not run,
  `pending` is a `setAlerts(next)` not rendered yet. A click while effects are due
  runs them between its update and its render (`AfterClick`).
* **`Charts`.** `chart` picks one of the five; `asks` are the requests in flight, of
  which only the last is not cancelled. A point is its time, with the currency and the
  period it was asked for. `quoted` is, for each poll, the coins and currencies it had a
  quote of; poll n quotes at time n. Batches of the exchange (`HearTrades`) are in
  dollars, of some coins, at times of their own and in no table.
* **`Ticker`.** A unit of time is the 500 ms of `useTickRate`'s timer. A
  print carries any stamp: two sources have two clocks, and an exchange may deliver late
  (`candles.ts:37`). `taken` is history: the prints the listener took since the plot started.
* **`TerminalPage`.** `cache`/`inflight` are the module variables of `useCoins.ts`;
  `Flash` is the effect of `usePriceFlash`, part of every action that changes the
  price the hero is given.
* **`Ops`.** `self` is the step of `loadMetrics`, `prom` and `promBusy` the reads of
  `loadProm`, per refresh; the number of a refresh that has ended is used again.
* **`DataExport`.** `jobs` are the exports under way, each with the selection of the
  render it was started in; `file` is the outcome of the last one.
* **`MarketViews`.** `table` is the page's price table, each coin's quotes reduced to
  their currencies and the change of the dollar quote; `byCoin` is the order in which the
  map of the cards lists it. `PriceArrives` merges one price of either stream,
  `SnapshotArrives` replaces the table.
* **`MarketViews`, `Indicators`, `Treemap`.** Operators for the arithmetic, each against
  what it should be. Fractions are exact, kept with their denominators (reduced in the
  treemap). `SumTo` is a `reduce` over numbers; `Sorted` is the array that a `sort` with a
  total order returns.

## 3. Runs

| Run | Expectation | Shows |
|---|---|---|
| `service` | pass | `ServiceInv` (rows written are the rows its polls have in the table but for those of a lost commit answer, the gauge is the registry), `BroadcastPersisted`, `AtomicSaves`, `TopCoinNotReseeded`; under fairness `PollCompletes`, `RegistryPopulated` |
| `service_reseed` | violation of `SeededOnce` | the comment at `main.rs:166` ("Runs only when the table is empty, so restarts don't duplicate") does not hold: only the first-ranked coin is looked up, so a restart under another ranking seeds a coin again |
| `feed` | pass | `FeedInv` (with `ContiguousDelivery`: nobody is skipped ahead), refinement of `OrderedFeed`; under fairness `TasksEndTogether`, `DeliveredOrCut` |
| `gate` | pass | `BurstBound`: at most `3 * max - 1` requests in any minute under contention (a smaller bound fails), `GateInv`: a rejection means a used budget, with the limiter on and off |
| `stream` | pass | `StreamInv` (never a second chain), `Silent`; under fairness `Reconnects` (both streams come back, Binance's until a symbol list has no pair to stream), `Drained`, `Released` |
| `table` | pass | `LiveInv` (with `ShownWasSaved`); under fairness `EventuallyLoaded`, `FreshEventually` |
| `table_race` | violation of `SnapshotNeverRegresses` | the snapshot is not loaded first (`useLivePrices.ts:18`): it replaces newer live prices when it resolves late |
| `candles` | pass | `CandleInv`, `MatchesTape` (the fold equals a declarative reference of the tape), `PrintMovesChart` (a print is ignored only while a later bucket is open, which is never ahead of the fastest clock), `ClosedFrozen` |
| `accounts` | pass | `AccountsInv` (sessions name accounts, a sign-out holds, the panel is busy exactly while its call is under way), `SettingsKept` (edits survive, panels mirror the storage) |
| `accounts_guest` | violation of `SignInReachesGate` | the header's SIGN IN is not "the way back" for a guest: the gate still finds `cw.guest` (`LoginGate.tsx:19`) |
| `accounts_pull` | violation of `PullAwaitsReload` | "RELOAD TO APPLY": an alert that fires before the reload saves the old list over the pulled one |
| `panels` | pass | see below |

The `panels` run checks, per panel:

* `AlertsInv`: one notification between two armings, and a click made while no evaluation
  is due is not undone by the list an evaluation writes; `ArmedIsTriggered`: no crossing is
  missed.
* `ChartsInv`: at most the newest request can still be applied, each coin's last point is
  the last quote of it that either stream brought, and a live series lacks no quote of the
  service's but those of batches that came during the request or while the socket was
  down; `ShownIsSelected`: a drawn chart is of
  the coins, currency and period selected.
* `TickerInv`: the plot is of the watched pair and source, in the order of arrival and with
  the latest print of every moment, and ends at the headline; a silent feed reads zero.
* `TerminalInv`: all panels have one coin list; a flash has the timer that ends it and the
  hero compares prices of one pair, but for the selections named below.
* `OpsInv`: the board is of one refresh; `VitalsArrive`: without Prometheus too;
  `AlertsSettle`: older answers do not stay.
* `ExportInv`: a file holds what its name says, optional parts never cost it.
* `ViewsInv`: three copies of the market arithmetic agree; every quoted coin that passes
  the filters has one card, favourites first, and a card without a price is of a coin whose
  prices are all in hidden currencies.
* `IndicatorsSound`, `TilesContainer`: computed values against their definitions.
* `WaitsEnd`: loading charts, exports, panels waiting for their coins.

`Silent`, `ClosedFrozen`, `TopCoinNotReseeded` and `SnapshotNeverRegresses` are
action properties. `ShownIsSelected` excepts the coin page after a failed request,
`FlashIsTimed` the selection of a pair without a price or with the very price shown
(`skipped`), `OnePairPerSession` a change of pair (`switched`), `ClicksHold` clicks made
while an evaluation is due, `WrittenMatchesTable` rows of a lost commit answer and of the
backfill: see the observations below.

### Bounds

* `service`: two coins of which one is tracked at a time, two currencies, two
  boots, two clock readings, two attempts, two broadcasts. A batch has up to two
  rows, so it can be torn; two boots make seeding over existing rows possible;
  a second cycle can follow a failed, an empty and a successful one.
  `service_reseed` tracks two coins and allows three boots.
* `feed`: two connections, a ring of two, one frame on the wire, four batches: a
  receiver can fall off the ring before, while and after it blocks.
* `gate`: one IP (entries are independent), limit two, a window of three clock
  steps and waits of up to two, eight steps, seven requests: enough for three
  consecutive windows with one request more than the bound.
* `stream`: two symbols, two frames, two trades each; reconnects are unbounded.
* `table`: two pairs, one of them traded, three polls, one lost connection.
* `candles`: widths 1 and 2, a cap of two candles, prices 1..3, four clock
  steps, four prints per series, the page's and the service's clocks 0 or 1 ahead; coins
  are symmetric.
* `accounts`: one account and one key, two edits (one here and one elsewhere), two
  calls in flight, so that a call of a panel that is gone meets one of its
  successor. Registrations of one name by two calls are included. Larger sets of
  users and keys are covered by the proof.
* `panels`: two alerts over two prices (above, below, both crossed); three prints over two
  stamps with a buffer of two; three islands, four price moves; two overlapping refreshes;
  two exports, one coin without rows; series of five values from 0..2 with a window of two,
  five weights from 1..5 in a 3 x 2 rectangle. The charts are explored twice, with two coins,
  two currencies and lists of three. Focus `charts`: every kind of chart under two changes
  of the selection and one poll that quotes everything, so that answers overtake each other.
  Focus `tape`: the two that listen to the stream under one change, two polls each of which
  quotes everything or one coin per currency, and a batch of trades of any coins at either
  time, so that a coin is left out, a time repeats and the list is trimmed while its request
  is under way. The market views likewise: focus `figures` is every market of two coins
  whose change is negative, zero or unknown and whose capitalisation is 0..2, focus `cards`
  every order of snapshot, prices and clicks over one market. The proofs cover all others.

Deadlock is not checked where the bounds stop the system; `stream` and `accounts`
check it.

### Fairness

* `PriceService`: the tokio runtime polls ready tasks and its intervals tick
  (weak fairness of each task's steps); requests and statements are answered.
  The client is built without a timeout (`coingecko.rs:26`), so the latter is an
  assumption on the network. Strong fairness of a non-empty discovery stands
  for a provider that is not down forever. Crashes, Ctrl-C and `Boot` are not fair.
* `PriceFeed`: the server's tasks are weakly fair. `DeliveredOrCut` also assumes
  that the client reads; `TasksEndTogether` does not need it.
* `PriceStream`: timers and animation frames fire, a closing socket closes; a
  socket that is tried again and again opens once (strong fairness of `OnOpen`).
* `LivePrices`: a request settles, an open socket delivers.
* `MCPanels`: React runs the effects and the renders it has scheduled, requests are
  answered or fail, the refresh interval fires. Prometheus is not assumed to answer:
  `VitalsArrive` holds without it, and `AlertsSettle` names it as its premise.
  Users, prices and the rate's timer owe nothing. `Accounts` has safety only.

### Observed

What the models show beside the findings, as behaviour a maintainer may want to know:

* `metrics.rs:76` calls `cw_prices_written_total` "Price rows persisted."; it leaves out
  backfilled rows and rows of a COMMIT whose answer was lost.
* `binance-price-stream.ts:77`: a symbol list without a pair to stream ends the stream until
  the page is loaded again, also when the service had just not discovered its coins yet.
* `useLivePrices.ts:42`: a snapshot that fails after batches arrived sets an error that no
  batch clears; the cards show FEED ERROR over a live table.
* `PriceAlerts.tsx:68`: a click made while an evaluation is due is undone by the list that
  the evaluation writes.
* `PriceCards.tsx`: a coin quoted only in currencies that are hidden shows SELECT A CURRENCY
  while one is selected; sorted by 24H, a coin whose dollar entry is an exchange trade
  (without a change) comes last.
* `useLiveCandles.ts:45`: a seed price that arrives after trades discards the candles
  they made; a seed or a batch of the service that is stamped ahead of the exchange's clock
  makes the chart deaf to trades until that clock gets there. `rate_limit.rs:32`: fixed windows let more than "max requests per IP per
  minute" (README.md:314) through at a boundary, within `BurstBound`;
  `rate_limit.rs:30`: the map of addresses never shrinks. `users.rs:76`: of two devices
  that push, the last one wins with its whole document.
* `CoinDetail.tsx:67`: a failed request leaves the previous series under the newly
  chosen currency. While loading, the headers of `PriceCharts`, the legend of
  `MultiCoinChart` and the candle readout label the old data with the new currency.
* `UseAllSeries.ts`: a fetched list that is older than the stream is followed by
  points whose times may run back.
* `RealtimeChart.tsx:60-65` takes the last print's stamp for now, so its own rate does not
  fall on a dead feed (the header's does) and misjudges late prints; the arrow survives a change of pair.
* `usePriceFlash.ts`: `prev` and `first` survive a change of pair, so "since open" mixes
  two coins; selecting a pair without a price clears the timer of a flash, which then
  stays until the next move.
* `useCoins.ts:43`: one failed request caches the fallback for the life of the page.
* `ObservabilityPanel.tsx`: "nominal" before the first answer; the targets of the last
  answer stay while Prometheus is down.
* `DataExport.tsx:92`: a workbook of a series without rows fails where the JSON does not;
  a desk that is entered again is not busy while the old export still runs.
* `Watchlist.tsx:17` speaks of re-pointing the realtime chart, which keeps a coin of its
  own. `MarketPulse` counts a change of 0 as no gain, `Breadth` as one.
  `VolatilityRank.tsx:27` divides 0 by 0 when every coin is flat.

## 4. Proofs

* `PriceFeedProofs` proves, for every number of connections, ring size, wire
  capacity and number of batches:
  `FeedInvariant` (`Spec => []FeedInv`), `FeedContiguous`
  (`Spec => []ContiguousDelivery`) and `FeedRefinement`
  (`Spec => ImplementsOrderedFeed`). Contiguity is not inductive alone: one has to
  know that the cursor of a live send task equals the subscription point plus
  what the client read plus what is on the wire (`CursorAccounts`), and that no
  client is ahead of the channel (`WithinLog`). The refinement maps the log to
  `tail`, the sessions to the connections that left `new`, and what was shown to
  what was read; every action but `Send`, `HandleSocket` and `ClientRead` stutters.
* `PriceServiceProofs` proves `SentIsStored`, `SavesAreAtomic`, `ServiceInvariant` and
  `TopCoinKept`. `BroadcastPersisted` and `AtomicSaves` need: the rows inserted are among
  the rows to save, and a cycle that counts or sends has its rows in the table
  (`SaveSound`); backfill and polls do not share the transaction (`OneSaver`); and the rows
  of a batch carry the clock reading of their fetch, so that no two batches share a row
  (`BatchesApart`). The counter of `/metrics` is ahead of the broadcasts by the batch of
  the cycle under way (`WrittenCounts`), which is none of those told before
  (`NotToldYet`); and the rows that the polls of this process have in the table, but for
  `unseen` ones, are those told and that batch (`TableTold`), since what another process or
  the backfill stored, and what has no answer, is kept apart (`HistoryStored`). `TopCoinNotReseeded` needs that
  no discovery is under way between the backfill's check and its save (`SeedChecked`).
* `LivePricesProofs` proves `LivePricesInvariant` (`LiveInv`). The table never runs ahead of
  the polls (`SavedByPoll`), so that a save only makes it newer: what is on a socket, in an
  answer or on screen stays behind it.
* `PriceStreamProofs` proves `StreamInvariant`, where `StreamInv` is inductive as it stands
  (one of socket, timer and request per adapter), and `StreamSilent`.
* `RequestGateProofs` proves `GateInvariant` (`GateInv`): a rejection presupposes a full
  budget, since what an entry counts was admitted after its window began (`CountBacked`)
  and a request that waits for the lock waits no longer than `MaxDelay` (`WaitsShort`). And
  `BurstBounded` (`BurstBound`), for every limit and window and every shorter delay: the
  history field `win` of a decision is the start of the window that counted it. The windows
  of one address begin more than a window apart (`WindowsApart`), each admits its budget at
  most (`BudgetKept`), decided while it lasts or up to `MaxDelay` later (`WindowTimes`), and
  one of them within `MaxDelay` of its beginning (`WindowOpened`). A minute therefore meets
  two windows, or three of which one has a request outside it.
* `LiveCandlesProofs` proves, for every set of coins and widths, every cap, skew and number
  of prints, `CandleInvariant` (`CandleInv`), `CandlesStayClosed` (`ClosedFrozen`) and
  `PrintsMoveChart` (`PrintMovesChart`). The first is local to `foldTick`: extending,
  opening and capping each keep a series well formed (`FoldTickKeeps`); seed and reset
  start from the empty one. The second rests on the cap being exceeded by one candle at
  most (`CappedStays`), the third holds by itself: a print is folded unless a later bucket is open,
  and no bucket is opened past the fastest of the three clocks. `SeriesMatchesTape` (`MatchesTape`) says that the candles are what a
  declarative reading of the tape makes of it, for a tape of any length: each candle has
  the open, close and range that the tape gives its bucket (`Describes`), no print is past
  the last one, and a bucket without a candle is older than all of a full series (`Folded`).
* `AccountsProofs` proves `AccountsInvariant` (`AccountsInv`) and `SettingsInvariant`
  (`SettingsKept`), for every set of users and settings and any number of edits and calls.
  A late answer names a user who is registered by then (`RealUsers`); no call survives a
  page load, and at most one is the mounted panel's, which is busy just then
  (`CallsPlaced`); a sign-out leaves nothing that would reopen the terminal (`SignedOut`);
  and a panel on screen holds the last edit, so that its write-back loses nothing
  (`PanelsHoldEdits`).
* `PanelProofs` treats nine panels, each under its own specification (`AlertsSpec` to
  `TreemapSpec`), of which `MCPanels` runs one at a time:
  * `AlertsInvariant`: an alert that has notified since it was armed has fired
    (`NotedFired`); a closed desk has nothing pending (`LeftSettled`).
  * `OpsInvariant`; `ExportInvariant`: each job is at a step of its kind with the rows that
    step has (`JobsSound`), and at most one is this panel's (`OneMine`).
  * `TerminalInvariant`: the registry is asked for just until it is cached (`OneRegistry`);
    a flash follows a price that was shown (`FlashInv`).
  * `ChartsShowSelected`: a request that can still be applied is for the current selection
    (`LiveAsks`), so a list that is not loading is of the selection (`ShownSettled`).
    `ChartsInvariant`: what a batch quotes of a coin is appended to that coin alone
    (`AppendedFeed`), so that each coin ends with its newest quote (`NewestLast`); a list
    that is served holds every row that was quoted (`FetchedHas`); a request under way has been served all that the page heard of
    but what the request costs it (`AsksServed`), so a series that was never trimmed lacks
    only quotes of lost batches (`SeriesComplete`).
  * `TickerInvariant`: a print's number is its place in the order of arrival (`PrintsCounted`), so
    whatever the stamps, a point is replaced by a later print only (`LatestKept`); what the
    rate counts is no younger than the last print (`RateFresh`), so it reads zero when that
    has left the window.
  * `ViewsInvariant`: the sums are split over disjoint sets of coins (`OverSplits`); a
    sorted list holds every coin once (`SortedLists`), so the slices of the donut and the
    rest make the whole; the index has the sign of the sum of the changes. The
    order of the cards is total on the coins of the table (`KeysOrder`), which `byCoin` lists
    (`TableListed`); the clicks must preserve that a currency is visible.
  * `IndicatorsInvariant`: the running sum loses what leaves the window (`RunningSum`);
    squares multiply out (`SumOfSquares`); a smoothed average stays between values it was
    made of and is zero only if they all are (`EmaStaysBetween`, `WilderRemembers`); the
    sum of `(B u - C v)^2` is not negative (`CauchySchwarz`).
  * `TreemapInvariant`: what is left of the box has the area of the weights that are left
    (`Measured`), so a row that takes a share of those weights takes the same share of the
    box across (`ThickOf`) and its cells exactly fill it along (`LongOf`, `SpansOf`), whichever
    side is the shorter (`RowLaid`). Every cell is therefore left of or above what is left
    (`Tiled`), and so of every later cell. Reduced fractions are compared with the ones they
    come from (`Of`, from what a greatest common divisor divides, `GcdDivides`). The theorem
    is about exact arithmetic, for any positive weights: their order and the choice of the
    row's end only shape the cells, they are not needed.

What a recursive function computes for every input is proved by the least counterexample:
a set of numbers that is not empty has a least one (`LeastNumber`, from the well-foundedness
of `<` in the library), so a set that holds 0 and with every number the next one holds them
all (`AllNumbers`). That a recursive function exists, and that it is the only one, is the
first such induction (`SumExists`, `SumUnique`, `SumSteps` and their likes for `Keep` and
`Smoothed`, and the rounds of `Squarify`).

Only model-checked:

* liveness (fairness and ENABLED are outside the prover's reach): `PollCompletes`,
  `RegistryPopulated`, `TasksEndTogether`, `DeliveredOrCut`, `Reconnects`, `Drained`,
  `Released`, `EventuallyLoaded`, `FreshEventually`, `ArmedIsTriggered`, `WaitsEnd`,
  `VitalsArrive`, `AlertsSettle`.

Every other property of a passing run is a theorem.

Assumptions on constants are the `ASSUME`s of the modules, which TLC evaluates
in every run.

## 5. Plan

The modules and runs planned are there, and every safety property of a passing run is
proved. What is left is the aggregate queries of the REST API, as operators over a table.

## 6. Not modelled

* Rendering, formatting, colours and SVG geometry; the views that only draw what others
  compute (`Movers`, `MarketPulse`, `VolatilityRank`, `RiskReturnScatter`, `TickerTape`,
  the sparklines), hovers, the list of `WorldClocks` (a setting like any other).
* `volatility`, `totalReturn` and `correlationMatrix` (loops over what is modelled), and
  floating point rounding. `usePrices`, which no component uses.
* The aggregate and CSV queries of `handlers.rs`/`postgres.rs`: SQL over one table
  without state of their own.
* Configuration, migrations, TLS and pool set-up, hashing and token signing (library
  calls; a refused or expired token is a call that fails), logging, the durations and
  outcome counters of `/metrics` that nothing reads back, the parsing of its text.
* Backoff delays (time in `PriceStream` and in `get_with_retry` is not represented),
  malformed frames (dropped as if never sent), and a serialisation failure in
  `handle_socket`, which cannot happen for its DTO.
