---------------------------- MODULE CandleFeeder ----------------------------
(***************************************************************************)
(* The alert side of coin-tradingbot: a PollingCandleChartFeeder asks the  *)
(* exchange once per candle period for the candles of every market, and a  *)
(* RuleWatcher per market hands them to its rule, which caches the last    *)
(* candleCacheNum of them.  One counter, cycleTimeMissedMs, widens the     *)
(* window of the next request, of whatever market, after a failure.        *)
(*                                                                         *)
(* Time is counted in candle periods: a candle is the period that closed   *)
(* it.  Every request is a step; the clock moves at any time.              *)
(***************************************************************************)
EXTENDS Integers, Sequences, FiniteSets

CONSTANTS
    Markets,    \* the markets with a RuleWatcher (getConsumingMarketIDs)
    CacheNum,   \* candleCacheNum, and the candleNum of the initial feed
    WaitFirst,  \* config pccf_waitAfterInitialFeed
    MaxPeriod   \* bound: the last period

ASSUME CandleAssumption ==
    /\ Markets # {} /\ IsFiniteSet(Markets)
    /\ CacheNum \in Nat \ {0}
    /\ WaitFirst \in BOOLEAN
    /\ MaxPeriod \in Nat

VARIABLES
    now,     \* the current period
    pc,      \* where the feeder is
    start,   \* startTime of the running cycle
    wakeAt,  \* the period the thread sleeps for
    todo,    \* the markets the running loop has not visited
    missed,  \* cycleTimeMissedMs, in periods
    cache,   \* per market: cachedCandles of its rule
    overran, \* history: a cycle began later than in the period after the last one
    forgot   \* history: markets whose failure another market's success cancelled

vars == <<now, pc, start, wakeAt, todo, missed, cache, overran, forgot>>

TypeOK ==
    /\ now \in 0 .. MaxPeriod /\ start \in 0 .. MaxPeriod /\ wakeAt \in 0 .. MaxPeriod + 1
    /\ pc \in {"initial", "sleep", "poll", "dead"}
    /\ todo \in SUBSET Markets
    /\ missed \in 0 .. (start + 1) * Cardinality(Markets)
    /\ cache \in [Markets -> Seq(Int)]
    /\ overran \in BOOLEAN
    /\ forgot \in SUBSET Markets

Init ==
    /\ now = 0 /\ start = 0 /\ wakeAt = 0
    /\ pc = "initial"
    /\ todo = Markets
    /\ missed = 0
    /\ cache = [m \in Markets |-> <<>>]
    /\ overran = FALSE
    /\ forgot = {}

-----------------------------------------------------------------------------
(* Rule.feedChartData *)

\* getCandlestickHistory answers oldest first.
Candles(first, last) == [i \in 1 .. last - first + 1 |-> first + i - 1]

\* The candles of old that new has no copy of, in their order.
Kept(old, new) ==
    LET copies == {new[i] : i \in DOMAIN new}
        places == {i \in DOMAIN old : old[i] \notin copies}
        Nth(k) == CHOOSE i \in places : Cardinality(places \cap 1 .. i) = k
    IN  [k \in 1 .. Cardinality(places) |-> old[Nth(k)]]

\* The oldest make room.
Newest(s, n) == IF Len(s) <= n THEN s ELSE SubSeq(s, Len(s) - n + 1, Len(s))

\* addNewCandles: a new candle replaces its old copy.  Mutated: the old copies stay.
Merge_KeepOld(old, new) == Newest(old \o new, CacheNum)
Merge(old, new) == Newest(Kept(old, new) \o new, CacheNum)

\* The first feed is not cut to size.
FeedChartData(m, new) ==
    cache' = [cache EXCEPT ![m] = IF @ = <<>> THEN new ELSE Merge(@, new)]

-----------------------------------------------------------------------------
\* getMostRecentDataIntervalTimestampMultipleMs.
NextMultiple == now + 1

Clock ==
    /\ now < MaxPeriod
    /\ now' = now + 1
    /\ UNCHANGED <<pc, start, wakeAt, todo, missed, cache, overran, forgot>>

\* initialFeed: a request at the very beginning of a period returns one candle
\* more (extra).
InitialFeed(m, extra) ==
    /\ pc = "initial" /\ m \in todo
    /\ todo' = todo \ {m}
    /\ UNCHANGED <<now, pc, start, wakeAt, missed, overran, forgot>>
    /\ FeedChartData(m, Candles(start - CacheNum + 1 - extra, start))

\* It throws on the first error and the program ends.
InitialFeedFails ==
    /\ pc = "initial" /\ todo # {}
    /\ pc' = "dead"
    /\ UNCHANGED <<now, start, wakeAt, todo, missed, cache, overran, forgot>>

\* The thread starts, and sleeps until the period ends or polls at once.
StartThread ==
    /\ pc = "initial" /\ todo = {}
    /\ pc' = "sleep"
    /\ wakeAt' = IF WaitFirst THEN NextMultiple ELSE now
    /\ UNCHANGED <<now, start, todo, missed, cache, overran, forgot>>

BeginCycle ==
    /\ pc = "sleep" /\ now >= wakeAt
    /\ pc' = "poll"
    /\ start' = now
    /\ todo' = Markets
    /\ overran' = (overran \/ now > start + 1)
    /\ UNCHANGED <<now, wakeAt, missed, cache, forgot>>

Window(extra) == Candles(start - missed - extra, start)

\* cycleTimeMissedMs = 0 is executed if no error; mutated: it never grows.
MissedAfterError_Unchanged == missed
MissedAfterError == missed + 1

Poll(m, extra) ==
    /\ pc = "poll" /\ m \in todo
    /\ missed' = 0
    /\ forgot' = IF missed > 0 THEN forgot \cup (Markets \ {m}) ELSE forgot
    /\ todo' = todo \ {m}
    /\ UNCHANGED <<now, pc, start, wakeAt, overran>>
    /\ FeedChartData(m, Window(extra))

\* Mutated: the exception is not caught.
PollFails_Throws(m, extra) ==
    /\ pc = "poll" /\ m \in todo /\ pc' = "dead"
    /\ UNCHANGED <<now, start, wakeAt, todo, missed, cache, overran, forgot>>

\* The request fails, or a consumer throws after its rule has cached the candles.
PollFails(m, extra) ==
    /\ pc = "poll" /\ m \in todo
    /\ missed' = MissedAfterError
    /\ todo' = todo \ {m}
    /\ UNCHANGED <<now, pc, start, wakeAt, overran, forgot>>
    /\ UNCHANGED cache \/ FeedChartData(m, Window(extra))

EndCycle ==
    /\ pc = "poll" /\ todo = {}
    /\ pc' = "sleep"
    /\ wakeAt' = NextMultiple
    /\ UNCHANGED <<now, start, todo, missed, cache, overran, forgot>>

-----------------------------------------------------------------------------
Feed == \E m \in Markets, extra \in 0 .. 1 :
    InitialFeed(m, extra) \/ PollFails(m, extra) \/ Poll(m, extra)

Thread == Feed \/ StartThread \/ BeginCycle \/ EndCycle

Next == Clock \/ Thread \/ InitialFeedFails

Spec == Init /\ [][Next]_vars /\ WF_vars(Clock) /\ WF_vars(Thread)

-----------------------------------------------------------------------------
\* The list a rule decides on is a time series: oldest first, no candle twice,
\* none from the future, whatever was fed twice or again; and only the initial
\* feed (period 0) can leave it longer than candleCacheNum.
CacheIsSeries ==
    \A m \in Markets :
        LET s == cache[m]
        IN  /\ \A i, j \in 1 .. Len(s) : i < j => s[i] < s[j]
            /\ \A i \in 1 .. Len(s) : s[i] <= now
            /\ Len(s) > CacheNum => \A i \in 1 .. Len(s) : s[i] <= 0

Contiguous(s) == \A i \in 1 .. Len(s) - 1 : s[i + 1] = s[i] + 1

\* A failure leaves no hole: what it missed is fetched by the next success, unless
\* a cycle took longer than a period or another market's success came between.
HolesAreExplained ==
    ~overran => \A m \in Markets \ forgot : Contiguous(cache[m])

\* Whatever fails, a cycle ends and the next one begins while the clock runs.
CyclesGoOn ==
    /\ pc = "poll" ~> pc = "sleep"
    /\ (pc = "sleep" /\ now < MaxPeriod) ~> pc = "poll"
=============================================================================
