------------------------ MODULE BitfinexTradeFeeder ------------------------
(***************************************************************************)
(* The trade recorder of coin-tradingbot: one BitfinexPollingTradeFeeder   *)
(* polls the exchange and feeds the trades it has not seen to a            *)
(* TradeRecorder, which inserts them into the database.                    *)
(*                                                                         *)
(* A feed cycle (feed()) asks every market for its newest trade, derives   *)
(* from the newest id how many trades can have been missed, then asks each *)
(* market for that many trades and stores the ones newer than lastTrade.   *)
(* Every request is a step of its own: the exchange keeps trading between  *)
(* them, and each may throw, which ends the thread.  After that somebody   *)
(* may start the program again; it resumes from the newest stored trade.   *)
(*                                                                         *)
(* A trade is its id.  Ids come from one counter that all the markets of   *)
(* the exchange share, and time order is id order.                         *)
(***************************************************************************)
EXTENDS Integers, FiniteSets

CONSTANTS
    Markets,     \* the markets with a consumer (getConsumingMarketIDs)
    QueryLimit,  \* bitfinexTradeQueryLimit
    MaxId,       \* bound: the last trade id the exchange issues
    MaxRuns      \* bound: how often the program is started

ASSUME FeederAssumption ==
    /\ Markets # {} /\ IsFiniteSet(Markets)
    /\ QueryLimit \in Nat \ {0}
    /\ MaxId \in Nat \ {0}
    /\ MaxRuns \in Nat \ {0}

VARIABLES
    trades,      \* exchange: the trades made so far, per consumed market
    newest,      \* exchange: the last id issued, to any market
    db,          \* database: table tradehistory, per market
    pc,          \* where the feeder thread is
    stop,        \* ChartFeeder.stop
    lastId,      \* lastTrade.tradeID; 1 is the dummy trade of an empty table
    mostRecent,  \* mostRecentT.tradeID of the running cycle
    limit,       \* maxMissedTrades of the running cycle
    todo,        \* markets the running loop of feed() has not visited
    cur,         \* the market whose trades are being stored, in a set
    result,      \* the trades getPastTradesAfterID returned for cur
    startSecond, \* the clock still shows the second in which lastTrade was set
    floor,       \* newest trade whose API timestamp is before the recording began
    runs,        \* history: how often the program was started
    startId,     \* history: lastTrade when this run began
    warned,      \* history: markets that logged "did not find all missed trades"
    fed          \* history: how often this run fed a trade to its consumers

exchangeVars == <<trades, newest>>
cycleVars == <<mostRecent, limit, todo, cur, result>>
historyVars == <<runs, startId, warned, fed>>
vars == <<trades, newest, db, pc, stop, lastId, mostRecent, limit, todo, cur,
          result, startSecond, floor, runs, startId, warned, fed>>

Ids == 2 .. MaxId

Stored == UNION {db[m] : m \in Markets}

MinOf(a, b) == IF a <= b THEN a ELSE b

\* What the API returns for limit_trades = n: the n newest trades of a market.
NewestOf(S, n) == {t \in S : Cardinality({u \in S : u > t}) < n}

\* The test that ends the scan of getPastTradesAfterID.  Only the dummy trade
\* carries a time; the API's timestamps are whole seconds, floor is the last
\* trade they place before that time.  Mutated: one trade too early.
IsOld_TooEarly(t) == t <= lastId + 1 \/ (lastId = 1 /\ t <= floor)
IsOld(t) == t <= lastId \/ (lastId = 1 /\ t <= floor)

TypeOK ==
    /\ trades \in [Markets -> SUBSET Ids]
    /\ newest \in 1 .. MaxId
    /\ db \in [Markets -> SUBSET Ids]
    /\ pc \in {"down", "idle", "head", "fetch", "store"}
    /\ stop \in BOOLEAN
    /\ lastId \in Nat \ {0}
    /\ mostRecent \in Nat \ {0}
    /\ limit \in Nat
    /\ todo \in SUBSET Markets
    /\ cur \in SUBSET Markets
    /\ result \in SUBSET Ids
    /\ startSecond \in BOOLEAN
    /\ floor \in Nat \ {0}
    /\ runs \in 0 .. MaxRuns
    /\ startId \in Nat \ {0}
    /\ warned \in SUBSET Markets
    /\ fed \in [Ids -> Nat]

Init ==
    /\ trades = [m \in Markets |-> {}]
    /\ newest = 1
    /\ db = [m \in Markets |-> {}]
    /\ pc = "down"
    /\ stop = FALSE
    /\ lastId = 1 /\ mostRecent = 1 /\ limit = 0
    /\ todo = {} /\ cur = {} /\ result = {}
    /\ startSecond = FALSE
    /\ floor = 1
    /\ runs = 0 /\ startId = 1
    /\ warned = {}
    /\ fed = [t \in Ids |-> 0]

-----------------------------------------------------------------------------
(* The exchange *)

\* The API dates a trade of the second in which the recording began before it.
Issue ==
    /\ newest < MaxId
    /\ newest' = newest + 1
    /\ floor' = IF startSecond THEN newest + 1 ELSE floor

NewTrade(m) ==
    /\ Issue
    /\ trades' = [trades EXCEPT ![m] = @ \cup {newest + 1}]
    /\ UNCHANGED <<db, pc, stop, lastId, cycleVars, startSecond, historyVars>>

\* A trade in a market nobody consumes takes an id all the same.
ForeignTrade ==
    /\ Issue
    /\ UNCHANGED <<trades, db, pc, stop, lastId, cycleVars, startSecond, historyVars>>

SecondElapses ==
    /\ startSecond
    /\ startSecond' = FALSE
    /\ UNCHANGED <<exchangeVars, db, pc, stop, lastId, cycleVars, floor, historyVars>>

-----------------------------------------------------------------------------
(* The feeder *)

\* The head of feed(): every market is to be asked for its newest trade.
EnterFeed(from) ==
    /\ pc' = "head"
    /\ mostRecent' = from
    /\ todo' = Markets
    /\ limit' = 0 /\ cur' = {} /\ result' = {}

\* Program start: initialFeed finds the newest stored trade.  The query is
\* ORDER BY TradeID DESC LIMIT 1 over all markets; with an empty table
\* lastTrade is a dummy with id 1 and the current time.
Start ==
    /\ pc = "down" /\ runs < MaxRuns
    /\ runs' = runs + 1
    /\ stop' = FALSE
    /\ \/ /\ Stored = {}
          /\ lastId' = 1
          /\ floor' = newest /\ startSecond' = TRUE
       \/ /\ \E t \in Stored : (\A u \in Stored : u <= t) /\ lastId' = t
          /\ startSecond' = FALSE
          /\ UNCHANGED floor
    /\ startId' = lastId' /\ warned' = {} /\ fed' = [t \in Ids |-> 0]
    /\ EnterFeed(lastId')
    /\ UNCHANGED <<exchangeVars, db>>

\* The loop of runThread.  The flag is a plain field written by another
\* thread, so a raised flag may go unseen for a cycle.
BeginCycle ==
    /\ pc = "idle"
    /\ EnterFeed(lastId)
    /\ UNCHANGED <<exchangeVars, db, stop, lastId, startSecond, floor, historyVars>>

SeeStop ==
    /\ pc = "idle" /\ stop
    /\ pc' = "down"
    /\ UNCHANGED <<exchangeVars, db, stop, lastId, cycleVars, startSecond, floor, historyVars>>

Stop ==
    /\ pc # "down" /\ ~stop
    /\ stop' = TRUE
    /\ UNCHANGED <<exchangeVars, db, pc, lastId, cycleVars, startSecond, floor, historyVars>>

\* One answer to getDescendingTradeHistory(1, 1, mk).
QueryHead(m) ==
    /\ pc = "head" /\ m \in todo
    /\ \/ /\ \A t \in trades[m] : t <= mostRecent
          /\ UNCHANGED mostRecent
       \/ \E t \in trades[m] :
             /\ \A u \in trades[m] : u <= t
             /\ t > mostRecent
             /\ mostRecent' = t
    /\ todo' = todo \ {m}
    /\ UNCHANGED <<exchangeVars, db, pc, stop, lastId, limit, cur, result,
                   startSecond, floor, historyVars>>

\* maxMissedTrades; mutated: an off-by-one that forgets that the newest trade itself
\* is missing.
MaxMissedTrades_Between == MinOf(mostRecent - lastId - 1, QueryLimit)
MaxMissedTrades == MinOf(mostRecent - lastId, QueryLimit)

SetLimit ==
    /\ pc = "head" /\ todo = {}
    /\ limit' = MaxMissedTrades
    /\ pc' = "fetch"
    /\ todo' = Markets
    /\ UNCHANGED <<exchangeVars, db, stop, lastId, mostRecent, cur, result,
                   startSecond, floor, historyVars>>

\* getPastTradesAfterID: scan newest first, keep what is not old, warn when the
\* scan ended without meeting an old trade.
Fetch(m) ==
    /\ pc = "fetch" /\ m \in todo
    /\ LET page == NewestOf(trades[m], limit)
       IN  /\ result' = {t \in page : ~IsOld(t)}
           /\ warned' = IF \E t \in page : IsOld(t) THEN warned ELSE warned \cup {m}
    /\ todo' = todo \ {m} /\ cur' = {m}
    /\ pc' = "store"
    /\ UNCHANGED <<exchangeVars, db, stop, lastId, mostRecent, limit,
                   startSecond, floor, runs, startId, fed>>

\* feedChartData: the recorder's INSERT IGNORE, one statement.
Store ==
    /\ pc = "store"
    /\ db' = [m \in Markets |-> IF m \in cur THEN db[m] \cup result ELSE db[m]]
    /\ fed' = [t \in Ids |-> IF t \in result THEN fed[t] + 1 ELSE fed[t]]
    /\ cur' = {} /\ result' = {}
    /\ pc' = "fetch"
    /\ UNCHANGED <<exchangeVars, stop, lastId, mostRecent, limit, todo,
                   startSecond, floor, runs, startId, warned>>

\* The new watermark; mutated: the assignment is missing.
NewWatermark_Unset == lastId
NewWatermark == mostRecent

EndFeed ==
    /\ pc = "fetch" /\ todo = {}
    /\ lastId' = NewWatermark
    /\ pc' = "idle"
    /\ UNCHANGED <<exchangeVars, db, stop, cycleVars, startSecond, floor, historyVars>>

\* A request throws, in any phase, or the process dies: feed() throws, so does
\* runThread, and the thread is gone.  A failing INSERT may have taken effect.
GoDown ==
    /\ pc # "down"
    /\ pc' = "down"
    /\ UNCHANGED <<exchangeVars, stop, lastId, cycleVars, startSecond, floor, historyVars>>
    /\ \/ UNCHANGED db
       \/ /\ pc = "store"
          /\ db' = [m \in Markets |-> IF m \in cur THEN db[m] \cup result ELSE db[m]]

-----------------------------------------------------------------------------
Exchange == ForeignTrade \/ SecondElapses \/ \E m \in Markets : NewTrade(m)

Cycle ==
    \/ BeginCycle \/ SetLimit \/ Store \/ EndFeed
    \/ \E m \in Markets : QueryHead(m) \/ Fetch(m)

Next == Exchange \/ Cycle \/ Start \/ Stop \/ SeeStop \/ GoDown

\* The thread's own steps: every request is answered or throws.
Fairness == WF_vars(Cycle)

Spec == Init /\ [][Next]_vars /\ Fairness

-----------------------------------------------------------------------------
\* The trades of m that this run has taken responsibility for: made after the
\* recording began and after the trade the run resumed from, up to lastTrade.
Covered(m) == {t \in trades[m] : floor < t /\ startId < t /\ t <= lastId}

\* The warning of getPastTradesAfterID is complete: within a run of the program a
\* trade that the watermark has passed and that was not stored implies that the
\* scan of its market ran out of trades and said so.
GapsAreWarned == \A m \in Markets \ warned : Covered(m) \subseteq db[m]

\* The watermark is durable: once it has passed the trades that precede the
\* recording, some stored trade is at least as new, so that the next run's query
\* for the newest stored trade cannot fall behind it.
WatermarkDurable == lastId > floor => \E t \in Stored : t >= lastId

\* A run that starts never goes back behind the point the last run had reached.
ResumesForward == [][Start => lastId' >= lastId \/ lastId <= floor]_vars

\* Trades newer than the head the cycle saw are fed now and again by the next
\* cycle, but never a third time by the same run.
FedAtMostTwice == \A t \in Ids : fed[t] <= 2

\* A trade does not stay unnoticed: the watermark passes it unless the thread dies.
EveryTradePassed ==
    \A t \in Ids : (\E m \in Markets : t \in trades[m]) ~> (lastId >= t \/ pc = "down")

\* The promise over a restart: whatever the new watermark passes that the old one
\* had not passed is in the table.
ResumeSkipsNothing ==
    [][Start => \A m \in Markets :
          {t \in trades[m] : floor < t /\ lastId < t /\ t <= lastId'} \subseteq db[m]]_vars
=============================================================================
