# Models of the job application portfolio

The repository is a collection of eight programs that do not share code. This directory holds TLA+
models of the ones with state, concurrency or failures worth checking, the TLC configurations that
check them on small instances, and TLAPS proofs about them. Paths below are relative to `src/`.

## 1. Inventory

| Program | State | Operations | Interacts with | What is hard |
|---|---|---|---|---|
| `coin-tradingbot`, trade recorder | `lastTrade` of the feeder; table `tradehistory` | start (initialFeed), feed cycle (ask for heads, ask for missed trades, store), stop | exchange (polled), MySQL | trades made between two requests, page limit, a cycle that fails between two markets, restart from the table |
| `coin-tradingbot`, candle polling | `cycleTimeMissedMs`, `cachedCandles` per rule | initial feed, poll of each market, sleep | exchange, rule watchers | failures and slow cycles, candles fed twice, one counter for all markets |
| `coin-tradingbot`, rules and alerts | rule flags, message templates, feed cache | decide, send, re-feed | candle feeders, mail and push services | edge-triggered rules, templates changed while sending, consumers removed |
| `tradingbot-historical-backtesting-server` | provider (set when the configuration has loaded); per request: queue of functions, batch, rejections, results | receive, start batch, backtest settles, end batch, answer | historical data service, clients | requests before start-up has ended, batches as barriers, failures counted over batches |
| the same, the backtest | candles read so far, entry, exit strategy | enter, step a candle, exit | historical data service | order of stop and target in one candle, end of data |
| `climate-control-rf` | last codes sent to fan and heater outlet, two reports | tick: outdoor, indoor, fan, heater | weather API, sensor, RF sender, batch file | promises that never settle, exit in mid-tick |
| `unturned3SL` | `lastResults`, callback map, threads, two tables | query master, query servers, collect, publish, save | Steam master, game servers, MySQL | threads stopped in mid-query, racing puts, half a save, stale results |
| `tradingbot-ai-regression-server` | cache, inferences in the executor | receive, hit, miss, gather, put | models, clients | concurrent misses, one inference of several failing, one cache key for two endpoints |
| `unturned3SL`, the list in the browser | cookie `listTools`, each page's copy of it, flags, panels that move | load, two list tools, titles of servers, end of a transition | other pages (cookie), bootstrap's collapse | pages that save whole copies, clicks on a panel that moves |
| `tradingbot-ai-regression-backtest-combine-ts` | local folder, frames, export folders | list, download, combine, upload, answer | S3 (written meanwhile), SQS | repeated and overlapping deliveries, stale local files, partial uploads |
| `coinfarm-front-end-control-panel`, wizards | card and timer of each step, the steps shown, selections, a form per host | finish step, timer, select hosts, edit, save and page through forms | each other (props and callbacks), one shared test table | a second click while a timer runs, steps hidden with their timers, forms saved by reference |
| the same, dashboard | label and collapses of a hub, dialogs, name box and its checks | show and hide, open, edit, check, close | bootstrap-vue | label and collapse told separately, a check that fires after its dialog closed |
| `fuel-economy-AI` | none | train, predict | none | nothing |

What makes each part correct:

- **Recorder.** Every trade made after the recording began is in the table or the scan that missed it
  has warned; the point to resume from never moves back; no trade is fed over and over.
- **Candle polling.** The list a rule decides on is an ordered series without duplicates; what a
  failure missed is fetched later.
- **Backtesting server.** An answer accounts for every segment; failures are tolerated up to the
  limit over all batches; no batch begins before the one ahead has settled; every request is answered.
- **Backtest of a trade.** A trade that is entered for its target pays when it reaches it; none is
  skipped that would have; profits and fees add up; the data may end at any candle.
- **Climate control.** The window fan blows against the heater only after a command has failed; control
  goes on whatever fails.
- **Server monitor.** Published results are one snapshot; player lists have their status rows; results
  are stored once unless a query failed.
- **Inference server.** An answer, cached or not, is complete and is that of the request's own bytes.
- **Server list.** What a page shows is what the cookie would give a new page, and what the buttons say.
- **ETL.** An announced folder is complete; a row is dummy or old only for want of a summary, because the
  summary lacks that row, or because a container took the file from its disk.
- **Control panel.** A step that is shown has its input; a spinner stops; a form belongs to the machine on
  the screen and is valid when it is taken over; a label tells the truth of what it names.

`PROJECT.json` lists the components, with the parts that are not modelled and why, and under `hazards`
the lines where these promises are at risk.

## 2. Modules and plan

| Module | Models | Extended by |
|---|---|---|
| `BitfinexTradeFeeder` | `BitfinexPollingTradeFeeder`, the two queries of `DBconnector`, the exchange | `MCBitfinexTradeFeeder`, `BitfinexTradeFeederProofs` |
| `BacktestContract` | what the backtesting server promises, without queue, batches or start-up | instantiated by `BacktestServer` |
| `BacktestServer` | `NoPatternBtService`, `NoPatternBtHds.provider`, `FuncBatchRateLimiter` | `MCBacktestServer`, `BacktestServerProofs` |
| `SingleTradeBacktester` | the class of that name and `BacktestUtils` | `MCSingleTradeBacktester`, `SingleTradeBacktesterProofs` |
| `ClimateControl` | `main.js`, `conditionprovider.js`, `switching.js`, the batch file | `MCClimateControl`, `ClimateControlProofs` |
| `CandleFeeder` | `PollingCandleChartFeeder` and the cache of `Rule` | `MCCandleFeeder`, `AlertPipeline` |
| `AlertPipeline` | the rules, `RuleWatcher`, `AlertTestRuleWatcher`, `HTMLalertMessage` and its chains, over `CandleFeeder` | `MCAlertPipeline`, `AlertPipelineProofs` |
| `ServerMonitor` | `Main`, `ServerVSCmanager`, `ServerVSCthread`, `addServerResults` | `MCServerMonitor`, `ServerMonitorProofs` |
| `InferenceServer` | `Controller`, `CfmCacheBin`, `LiveModelCollection` | `MCInferenceServer`, `InferenceServerProofs` |
| `StatusPage` | `scripts.js`, the collapse of `bootstrap.js`, the buttons of `index.jsp` | `MCStatusPage`, `ServerMonitorProofs` |
| `CombinePipeline` | `lambda_function.py`, `S3Wrappers.py`, the workflows | `MCCombinePipeline`, `InferenceServerProofs` |
| `WizardStep` | `AddMachineStep_P.vue`, the card of a step | both wizards |
| `AddMachineWizard` | `AddNewMachine2.vue`, its five steps, `HostTable.vue`, `MachinePropertiesSelect.vue` | `ControlPanel` |
| `AddHubWizard` | `AddNewHub.vue` and its three steps | `ControlPanel` |
| `MachineDashboard` | the hub cards, the machine's dialogs, `MachineEditName.vue` | `ControlPanel` |
| `ControlPanel` | `RRFcontainer.vue`: the three views and the navigation | `MCControlPanel`, `ControlPanelProofs` |

The programs are independent, so most modules are too. Three compositions: `BacktestServer` implements
`BacktestContract`; the steps of `AlertPipeline` are those of `CandleFeeder`, each joined with what the
rules and the message do with the candles in the same call; and a step of `ControlPanel` is one of the view
on the screen, or a change of view, which destroys what the old view had except the forms in the shared
table.

Two modules whose proofs share a module have no name in common: `CandleFeeder` and `AlertPipeline`, which
extends it (`AlertSpec`, `AlertTypeOK`); `ServerMonitor` and `StatusPage` (`PageSpec`, `PageTypeOK`);
`InferenceServer` and `CombinePipeline` (`CombineSpec`, `CombineTypeOK`).

Left, in order of worth: `ClassReturnMap` of the inference server as a function against a reference
definition; the read queries and connections of `unturned3SL`.

## 3. How state and actions correspond to the code

`map` in `PROJECT.json` gives the lines of every definition. In all modules a step is what the program
does between two points where somebody else can act: a request or an `await`, a statement sent to the
database, a thread's put.

**BitfinexTradeFeeder.** A trade is its id. `trades` and `newest` are the exchange, `db` the table,
`lastId` is `lastTrade`, `mostRecent`, `limit`, `todo`, `cur` and `result` are the locals of `feed()`
and `getPastTradesAfterID`. `QueryHead`, `Fetch` and `Store` are the requests of one market each,
`EndFeed` sets the watermark, `GoDown` is an exception in any of them (or the death of the process),
`Start` a new run. `floor` stands for the time test with which a first run, whose `lastTrade` is a dummy
with id 1 and a millisecond time, tells old trades: the API's times are whole seconds.

**BacktestServer.** `job[r][j]` is a backtest, `queue`, `batch`, `b`, `rejections`, `results` are fields
and locals of the limiter. `StartBatch` and `EndBatch` are the two halves of
`runBatch_tolerateFailure`, before and after its await; `Answer` is the return of the handler.

**SingleTradeBacktester.** One request, chosen at the start. `pc` names the candle that is awaited:
one that is tried for a pullback, the one the trade is entered in, or the next for the exit strategy.
`NextCandle` is `getNextCandle`, and `Rejected` its refusal, which ends the backtest in each of the
three places. `FeedCandle` leaves it to the strategies, which a library decides, whether and at what
price they exit; that a bearish exit pays its fee on top is what the examples of the program's README
show. `BacktestServer` sees all this as a job that settles.

**ClimateControl.** `pc` names the promise that `tick` awaits. `OutdoorMalformed` and `BroadcastFails`
are the exceptions thrown inside async executors: the promise is never settled and the process ends
(`"gone"`), `Restart` is the loop of the batch file. `fan` and `heater` are the last codes sent; the
outlets do not report back. `settled` is history: both were switched and no command has failed since. After a
failed one both may be on until a tick completes, and `NeverFanAgainstHeater` says nothing of that time.

**CandleFeeder.** Time is counted in candle periods, a candle is the period it closes. `missed` is
`cycleTimeMissedMs`; `Poll` and `PollFails` are one market's request with the window it asks for;
`Merge` is `Rule.addNewCandles`: what has no copy among the new candles is `Kept`, the new ones follow, and
the `Newest` of all stay. `Kept` removes every copy, the code the last one; they are the same because a
cache has no candle twice (`CacheIsSeries`). A request made right at the beginning of a period returns one candle
more (`extra`).

**AlertPipeline.** A candle is its closing price, and `price` is what the market did; the feeder's cache
says which candles a rule has. The feeder asks for as many candles as the rule with the largest cache needs
(`AlertTestMain.java:76-85`), so the cache of a rule is a suffix of that one (`Cached`). `last` holds the flag each kind of rule keeps (`lastActivated`,
`lastCrossover`, `lastDifferenceOverMin`; only the second can be null). `Watch` is
`RuleWatcher.feedChartData`, which skips the first feed; `Check` is its loop over the rules, and
`DoStrategy` the message. A message is a chain of stages, and `text` is what each stage's template holds:
`Filled` writes over it, `Delivered` leaves it restored, `NotReady` and `NotSent` are the exceptions
before and after a stage is filled in. The watcher catches them, so the feeder's cycle goes on.

**ServerMonitor.** `thread` and `attempts` are the two retry loops of `ServerVSCthread`. `Put` is a put
into the unsynchronised map: while another thread runs it may lose entries and leave a bucket without
end (`looped`). `Collect` and `StopThread` are one turn of the collecting loop (get, stop): a thread can still put
in between, too late for this query and never into a later one's map, because each has its own. A result is its cycle and
whether it lists players. `status` and `players` count rows. The VALUES list of a statement is empty
when there is nothing to insert, and the statement then fails (`StatusRows`, `PlayerRows` are guards).

**InferenceServer.** A prediction is the set of model slots it was made by, with the bytes it was made
from; `Shape` says what the bytes are. `Miss` submits one inference per slot to the executor,
`GatherReturns` and `GatherRaises` are the two ways in which `gather` resumes the handler. Requests are
numbered in the order in which they arrive.

**StatusPage.** A page works on `data`, its copy of the cookie; `flags` are the two flags the buttons
negate; `panel` is where bootstrap's collapse of a server stands, and `TransitionEnd` is the end of its
animation. A setting is in the set when it is on. `Load` is the document's ready handler: without a cookie
`JSON.parse` of undefined throws and the page stays without a `statusManager` (`"dead"`), so that a first
cookie can only come from an earlier version; with one the tools of the cookie are applied, which saves
it again. The request at load never fills the list: `getRecentResults.jsp` answers no valid JSON, and the
timer calls `requestLoop` without its `this` (`TimerFires` throws). `stale` and `touched` are history.

**CombinePipeline.** `input` is the version of each object of a segment (0 if it was not written), `local` the
same of the files on a container's disk, `run` where an invocation stands. A step is one request to S3:
a listing (all its pages), a download, an upload. `Download` takes a file that is there already.
`Deliver` gives a message to a container that is free or to a new one with an empty disk; `Fail` is an
exception or the time limit at any point. A summary has rows for some of the `Measures`, which `PutInput` chooses
anew for every version (`summaries`). The frames of an export say for each segment and measure which version the
row is from, or 0 for the dummy values that `buildTimeSeriesFrame` inserts when the lookup throws
(`TimeSeriesWorkflow.py:125-131`): the summary was not listed, or it has no row `summaryMetric.<type>.<group>`. A
summary whose rows have another length than the first one's columns throws outside that `try`, which is `Fail`. An export keeps
what the invocation began with (`began`, `warm`) for the properties. That the frame of the prices
(CoinGecko) has a row for every segment is assumed.

**WizardStep** and the wizards. `inAction`, `disabled` and `verdict` are data of the card; `timers` counts
the results of a step that are still to come. `Click` is `processData` of the steps with a timer: the guard
in `processingStarted` returns from itself only, so that every click adds a timer. A step whose `v-if`
turns false is destroyed and starts anew when it is shown again; its timers write to what nobody shows,
so they are dropped (`Finish`). A host is its row, a form the length of its name and its port.
`currentFormData` is `form`; `savedIn` is the host whose `formInput` is the same object, which is why
`EditForm` writes there too. In `AddHubWizard` the texts are typed or not; `IPresult` passes FALSE to the
card even on success, `SerialResult` shows step 3 whatever the result, and the call of the API in step 3
is a placeholder.

**MachineDashboard.** `expanded` is the header's own flag behind its label, `open` the collapses, which get
the toggle by id. A dialog is opened by the function it has put into its button. `editNameValue` is data of
`MachineEdit`, mounted with the machine: Cancel loses nothing. `checks` counts the timers of the name
check, which judge the name in the box when they fire.

## 4. The runs

| Run | Instance | Shows |
|---|---|---|
| `trade_feeder` | 2 markets, ids up to 4, page limit 2, 2 runs | gaps are warned about, the watermark is backed by the table and never moves back, nothing is fed a third time, every trade is passed unless the thread ends |
| `trade_feeder_torn` | the same | **violated**: a cycle that ends between two markets makes the next run skip trades |
| `backtest_server` | 2 requests, up to 5 segments, batches of 2, 40 % | sound answers, batches as barriers, refinement of the contract, every request answered |
| `single_backtest` | 3 prices, every request, 10 pullback candles, 13 candles in all | the target pays, fees add up, skips are due, every backtest ends |
| `climate` | 3 temperatures, readings on both sides of each threshold | never fan against heater unless a command failed, conditions are read again and again |
| `candle_feeder` | 2 markets, cache of 3, 5 periods | the cache is a series, holes have one of two causes, cycles go on |
| `alert_pipeline` | 1 market, 4 periods, 3 prices, a rule of each kind, 2 stages | alerts on crossings and only on them, messages tell of the candle that caused them |
| `server_monitor` | 2 servers, 2 attempts, 3 iterations | snapshots, status rows for players, repeats only after failures, iterations end |
| `inference_server` | 3 requests, 3 bodies, 2 models, 2 threads | own and complete answers, sound cache, no repeated inference, every request answered |
| `status_page` | 2 pages, 2 panels, any first cookie or none | a page differs from the cookie only after another page saved, labels are true of panels that stood still |
| `combine_pipeline` | 2 segments, one summary written twice with or without a row, 2 measures, 2 containers, 2 deliveries, folders of 2 files | all frames are of one version of a summary, dummy or old rows are explained, announced folders are whole |
| `control_panel` | 1 hub, 2 hosts, 2 timers per step, 4 forms, one text per field, 2 hubs with a machine each | shown steps have their input, spinners have a result to come, forms stay with their machine, later steps stay, only typing spoils a form |

Why the bounds are enough. *Two markets* are what it takes for a cycle to fail between two, and for one
market to cancel another's counter. *Four trade ids and a page of two* let a page end before it meets
an old trade, a trade arrive between head and page, and a foreign market take an id; *two runs* are one
restart. *Five segments in batches of two* give two full batches and a short one, and 40 % of five
tolerates two failures, in one batch or spread over two. *Five periods with a cache of three* let the
cache be filled, cut, and left with a hole that moves out again. For alerts, *one market* is enough because
markets share nothing but the feeder's counter, which `candle_feeder` runs with two; *three prices*
lie below, between and above the thresholds of the rules, and *four periods* are one more than the
longest rule looks at. *Three iterations* let a query fail
after a success and succeed again. *Three requests* are two that race and one that comes later. A backtest has the code's own *ten candles* for a pullback, one to enter and two to exit;
its *three prices* are two that differ by exactly the fees of a trade, and one that is worth them. For the list in the browser, *two pages* are one that saves and one
that does not know; *two panels* are one that was clicked by itself and one that was not. For the ETL, *two segments*
can share a start time or not, *two deliveries* to *two containers* are a retry on a warm disk, a retry
on a new one, or two at a time; *a summary written twice* is one that is newer than the file on a disk, and of *two measures* it has one or both, so that the old and the new one may differ in their rows (the other segment's summary is always whole); *two files* make
a folder that is half uploaded. In the control panel *two timers* are a second click, *two hosts* one with and one without a name
of its own, and of *four forms* each is valid or not by its name and by its port. Every
bound is named in the module that declares it. Deadlock checking is off where the system may stop: the
threads end, and bounded counters run out.

The violated property is stated by a comment of the repository; `findings` in `PROJECT.json` quotes it. Other places
where the code differs from what it or a document says, met while modelling:

- `PollingCandleChartFeeder.java:51-59` widens the next request by what a failure missed, but one counter
  serves all markets: the success of the next market resets it, and the first market's candle stays missing.
  `HolesAreExplained` names this cause (`forgot`).
- `switching.js:9` switches the fan and then the heater; if the second command fails, the process ends with the fan switched and
  the heater as it was, and both may be on until a tick completes (`NeverFanAgainstHeater` excludes that time).
- `HTMLalertMessage.java:61-71` restores its template only after a delivery; after a failed one every message of the
  market shows the candle of the failed one (`ShownIsPresent` excepts those markets).
- `climate-control-rf/README.md:16` says the code does not randomly crash; what the async executors of `switching.js`
  and `conditionprovider.js` throw is caught by nobody and ends the process (`BroadcastFails`, `OutdoorMalformed`).
  `README.md:9` describes the fan's rule more simply than `main.js:107` decides it.
- The limit of failures is rounded up, so that a 5 % rate lets one of three segments fail
  (`NoPatternBtHds.provider.ts:157`); `maxBacktestThreads` limits a request, not the server.
- `AddMachineStep_P.vue:73` means to keep the user from clicking again, but only leaves its own function. A late
  second result of step 1 can take step 2 back; `ReachedStepsStay` shows that it never takes more.
- A form saved in step 4 of the wizard is the object on the screen, so typing on changes it without
  validation, and the step finishes with it. `AddNewMachine2.vue` does not give step 5 the machines, and step 5
  throws for want of an `outputCallback`.
- "Cancel & lose changes" of the edit dialog keeps the changes in the box (`MachineEdit.vue:59`).
- Step 1 of `AddNewHub` tells its card that it failed when it succeeded (`AddHubStep1.vue:105`), and step 3 calls
  its API when the name is missing (`AddHubStep3.vue`).
- `TimeSeriesWorkflow.py:128` turns every failed lookup into dummy values and goes on: a summary that lacks rows is
  exported and announced like one that was never written.
- `scripts.js:43` parses a cookie that is not there, so that without an old cookie the list tools never work.

Each property of a passing run has a mutant in `PROJECT.json`: an operator beside the mapped one,
with a plausible mistake in it, under which the property fails. They are marked "mutated" in the
modules and used by nothing else.

## 5. Fairness

Liveness rests on what the environment owes the program, because the code sets no timeouts.

- `BitfinexTradeFeeder`, `CandleFeeder`: weak fairness of the feeder's thread. Its requests return or
  throw, its sleeps end. Nothing is assumed of `Start`: nobody has to start the program again.
- `BacktestServer`: weak fairness of every request's limiter and every backtest. Node runs each pending
  callback, and the data service answers or refuses each call.
- `SingleTradeBacktester`: weak fairness of the whole. A candle that is asked for comes or is refused,
  and the data is finite.
- `ClimateControl`: weak fairness of the whole. The timer fires, the batch file loops, and each
  request, sensor reading and radio command ends. A request that hangs for ever stops the real
  controller; that is listed as a hazard.
- `AlertPipeline` promises nothing that must happen in the end: a message may fail each time.
- `ServerMonitor`: weak fairness of the main thread only. Game servers need not answer, which is what
  the fixed wait is for. A lookup in a damaged map may never end, and the property says so.
- `StatusPage`, `CombinePipeline` and `ControlPanel` state safety only: a user need not click, a queue need not
  deliver again for ever, and an invocation may fail each time.
- `InferenceServer`: event loop and executor do not idle while a handler or an inference can go on.

## 6. What is proved

For every value of the constants that satisfies the named assumptions of the module (`FeederAssumption`,
`ServerAssumption`, `BacktesterAssumption`, `ClimateAssumption`, `CandleAssumption`, `AlertAssumption`,
`MonitorAssumption`, `InferenceAssumption`, `CombineAssumption`, and `TimersAssumption`,
`WizardAssumption`, `HubWizardAssumption`, `DashboardAssumption` of the control panel):

- **Trade feeder**: `TypeOK`, `GapsAreWarned`, `WatermarkDurable`, `ResumesForward`, `FedAtMostTwice`.
  `GapsAreWarned` is not inductive: the invariant also says that a market which has been scanned and has
  not warned has everything between the watermark and the head of the cycle in the table or in hand.
  That a page of `limit` trades reaches back far enough when it meets an old trade is the lemma the
  argument turns on. `WatermarkDurable` needs that the market of the head trade is scanned with a limit
  that is not zero.
- **Backtesting server**: `TypeOK`, `AnswerSound`, `BatchBarrier` and `MeetsContract`. The invariant is a
  conjunction per request: what has not arrived is untouched, indices below `queue` have been started
  and those outside the batch have settled (`Layout`), `b` batches account for `queue` (`Progress`),
  results and rejections are the settled jobs of earlier batches (`Accounts`), and answers were
  given with all of these (`Answered`). The refinement follows: starting, settling and answering map
  to steps of the contract, the rest to stutters. Of `EveryRequestAnswered` the safety part is proved:
  every step after start-up lowers a natural number of one request and leaves those of the others
  (`RequestsAreFinite`), and a request without an answer can go on or awaits a backtest that is under way,
  never one that nobody started (`RequestsNeverStall`).
- **Backtest of a trade**: `TypeOK`, `TargetPays`, `FeesExplainProfit`, `SkipMissesNothing`. The invariant
  adds that an entry costs what it was weighed with, and is worthwhile unless forced (`Weighed`), and
  what the scan for a pullback has seen (`Scanning`). The first property then comes down to
  arithmetic (`WorthwhilePays`), from the one assumption that an exit's fee is at most a taker's. A backtest
  has at most two steps more than there are candles (`BacktestsAreFinite`).
- **Climate control**: `TypeOK` and `NeverFanAgainstHeater`, from the fact that the fan was set from
  the reports the heater is set from. It holds through exits and restarts, up to a failed command.
- **Candle polling**: `TypeOK`, `CacheIsSeries`, `HolesAreExplained`. The invariant bounds the missed time by
  a period per failure (`Missing`), says that every cache is a series that ends no later than the cycle
  (`CachesAreSeries`), and that a cache which nobody has cancelled a failure of is a run of candles without a
  hole that reaches the window of the market's next request (`CachesReach`): the window is as wide as what was
  missed, less the one period by which a punctual cycle is later. The lemma the argument turns on is about
  `Merge`: of a series no newer than the new candles the ones before them stay, as a prefix
  (`KeptIsPrefix`), so a run and the window that touches it make the newest run (`MergeOfRun`).
- **Alert pipeline**: `AlertTypeOK`, `AlertsOnCrossings`, `ShownIsPresent`, and `PipelineRunsTheFeeder`: every
  step of the pipeline is one of `CandleFeeder` or a stutter, so that the invariant above holds of it, too.
  For the second the invariant says that each rule remembers the side of its threshold on which the last check
  has found the market's own history, not what was fed (`SidesAreRemembered`), and that a watcher checks no
  later than it is fed and alerts only at checks (`ChecksInOrder`). It is preserved because a cache without a
  hole holds at a check exactly the history that the rule asks for (`CachedIsHistory`) and new prices do
  not change old ones (`PastPricesStay`). What a rule computes of its candles is left open, so the theorem
  holds for every rule that computes something. For the messages the invariant is that a market without a
  failed message has all its templates in place; a delivery preserves it because every stage is restored, and
  a stage that throws puts the market among the failed ones.
- **Server monitor**: `TypeOK`, `SnapshotOfOneCycle`, `PlayersHaveStatus`, `StoredAgainOnlyAfterFailures`. The
  first needs that map and results of a running query hold its own cycle (`Fresh`) and that no thread
  outlives its query (`Phases`), though it may outlive the reading of its entry; the second that between the two inserts there is one more status row than
  player list for all that is about to be stored (`Ahead`); the last that every row was stored in the cycle
  of its query or in one up to which all queries failed (`StoredByCycles`).
- **Server list**: `PageTypeOK`, `OnlyOtherPagesOverwrite`, `PanelsFollowTheLabel`, from the invariant that the
  flag behind a button is the setting in the page's own copy, and that a panel which stood still at the last
  click and was not clicked itself is where that click sent it or on its way there.
- **Inference server**: `TypeOK`, `AnswerIsOwn`, `CacheIsSound`, from the invariant that an inference
  only ends well when the bytes have the form its endpoint expects (`Owned`); `InferredOnce`, because
  what has been answered is in the cache (`AnsweredIsCached`). As for the backtesting server, the work of a
  request is finite (`RequestsAreFinite`), and while a request waits some handler or thread can go on
  (`RequestsNeverStall`): the inferences that failed requests leave running cannot starve the executor for good.
- **ETL**: `CombineTypeOK`, `RowsAreExplained`, `AnnouncedIsWhole`. The invariant follows an invocation from
  listing to listing: what it has listed was in the bucket, what it has listed is on the disk once
  downloaded, and a file that is older than the bucket's was there when it began. What a version of a summary
  holds never changes (`ExplainedKept`), and a disk has no version that was not written (`Stored`), so that the rows
  of an export stay those of one version. `OrderedSegments` chooses
  least segments; that there are any is `LeastExists`.
- **Control panel**: `TypeOK`, all properties of its run, and two facts about the dashboard that no run
  checks: the label of a hub agrees with the collapses of its machines
  (`CollapsesFollowTheirHub`), and a name marked valid and not edited since may be taken
  (`VerdictIsOfTheName`). The invariant adds that a step that is not shown
  is a new card without timers (`Hidden`), so that a result comes from a step that is shown and has its own
  input, and that a card in action has a timer (`Spinning`), also when a step is hidden with its timers. The steps
  form a `Chain`: step 3 shows all rows of the table, and while step 4 or 5 is shown the step before it is
  shown with its button disabled, so that no second result can take it back. Only step 1 can give a second
  result that takes step 2 back.

Sequences that are filtered or sorted are written without recursion (`Kept`, `OrderedSegments`: the k-th
element is CHOSEN by its rank), so that instead of an induction a least or a greatest counterexample
does (`LeastExists`, `GreatestExists`, from `WFMin` of the library).

A run checks the type invariants of `AlertPipeline` (which includes that of `CandleFeeder`), `StatusPage` and
`CombinePipeline`; the others are stated by theorems only.

Every safety and action property that a passing run checks is stated by a theorem. Only model-checked are the
liveness properties (`EveryTradePassed`, `EveryRequestAnswered` of both servers, `KeepsReading`, `CyclesGoOn`
of feeder and monitor, `Settles`): fairness and ENABLED are beyond the prover. Of `Settles` and the two
`EveryRequestAnswered` it proves the parts without fairness, that steps run out and, for the servers, that the
guards of a next step hold; that the guards make it possible, and fairness makes it happen, is left to TLC. The violated property needs
a behaviour, which a run finds and a proof does not.

## 7. Not modelled

Configuration files, logging, formatting, and network protocols. Prices and returns, as far as nothing
modelled depends on them. The exponential moving average, whose state is a floating-point number,
`ChartFeedCache`, which nothing constructs, and the removal of consumers, which nothing calls. Quantities other than 1, which scale costs and
fees alike, and the grouping of results. The read queries of `unturned3SL` and its open database connections, whose
number depends on the driver's clean-up. The vendored, compiled and example code. Of the ETL
prices and the values of measures, with the files of the CoinGecko bucket, and `sync` of `S3Wrappers.py`, which nothing calls. Of the server
list what fills it, which no page reaches. Of the control panel the routine table (its template reads `rtProps`,
which it does not declare, so nothing is rendered), the power and reset buttons, which only log, the header and the
group page, and files nothing imports (`MachineEditName.ts`, `MachineStatusModal.vue`). The return map and
configuration of the inference server, `BatchRateLimiter`, which nothing uses, and `fuel-economy-AI`, a straight line of
code around a vendored network, have the status `not_modelled` in `PROJECT.json`.
