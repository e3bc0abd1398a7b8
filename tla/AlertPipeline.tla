---------------------------- MODULE AlertPipeline ----------------------------
(***************************************************************************)
(* From the exchange to the trader's telephone: CandleFeeder composed with *)
(* an AlertTestRuleWatcher per market, the rules it decides by, and the    *)
(* message it sends.  A message is a chain of stages: an e-mail is one     *)
(* stage, a TradingbotAlertMessage saves a web page and then texts a link  *)
(* to it.  Every stage is an HTMLalertMessage: send() writes the filled-in *)
(* text over the template and restores the template after a delivery.      *)
(*                                                                         *)
(* A candle is its closing price.  What a message says is abstracted to    *)
(* the candle whose values it gives.  The feeder's thread runs consumer,   *)
(* rules and message in one call, so a check is part of the poll.          *)
(***************************************************************************)
EXTENDS CandleFeeder, FiniteSetsExt

CONSTANTS
    Levels,    \* prices
    Before,    \* the price before period 1
    Rules,     \* the rules of a watcher: records with a kind, see Holds
    NumStages  \* 1: EmailAlertMessage; 2: TradingbotAlertMessage

Kinds == {"above", "below", "volatility", "trendline", "average", "difference"}

\* A watcher's cache has room for each of its rules.
ASSUME AlertAssumption ==
    /\ Levels \subseteq Nat \ {0} /\ Before \in Levels
    /\ NumStages \in Nat \ {0}
    /\ \A r \in Rules : r.kind \in Kinds /\ r.num \in 1 .. CacheNum

VARIABLES
    price,      \* per market: the prices of the periods from 1
    fed,        \* per market: not firstFeed
    last,       \* per market and rule: lastActivated, lastCrossover, lastDifferenceOverMin
    text,       \* per market and stage: <<>> for the template, or what it was filled in with
    shown,      \* history: per market, what the last message received said, and when
    checkedAt,  \* history: per market, the period of the last check
    firedAt,    \* history: per market, the period of the last attempt to alert
    failed      \* history: markets with an attempt that was not delivered

watchVars == <<fed, last, text, shown, checkedAt, firedAt, failed>>
alertVars == <<vars, price, watchVars>>

Stages == 1 .. NumStages
Never == -1

AlertTypeOK ==
    /\ TypeOK
    /\ price \in [Markets -> Seq(Levels)]
    /\ \A m \in Markets : Len(price[m]) = now
    /\ fed \in [Markets -> BOOLEAN]
    /\ last \in [Markets -> [Rules -> {"no", "yes", "null"}]]
    /\ \A m \in Markets, r \in Rules : last[m][r] = "null" => r.kind = "average"
    /\ text \in [Markets -> [Stages -> Seq(Int)]]
    /\ shown \in [Markets -> Seq(Int)]
    /\ checkedAt \in [Markets -> Never .. MaxPeriod]
    /\ firedAt \in [Markets -> Never .. MaxPeriod]
    /\ failed \in SUBSET Markets

-----------------------------------------------------------------------------
(* The rules: of the candles s, whose prices are p.  Prices are compared as       *)
(* integers: a ratio is a product.                                               *)

PriceOf(m, c) == IF c >= 1 THEN price[m][c] ELSE Before
PricesOf(m, s) == [i \in DOMAIN s |-> PriceOf(m, s[i])]

\* Rule.cachedCandles: a rule caches r.num candles, the feeder's cache is the
\* one of the rule with the most.
Cached(r, s) == Newest(s, r.num)

Total(p) == LET P(i) == p[i] IN MapThenSumSet(P, DOMAIN p)

\* SimpleMovingAverage over the last n candles, as <<sum, number>>.
MovingAverage(p, n) == LET t == Newest(p, n) IN <<Total(t), Len(t)>>
LessThan(a, b) == a[1] * b[2] < b[1] * a[2]

\* Trendline.getY
LineY(r, c) == r.rate + r.slope * (c - r.from)

\* What checkRule computes from the cached candles.
PriceAbove(r, p) == p[1] > r.rate
PriceBelow(r, p) == p[1] < r.rate
Volatile(r, p) == \E i, j \in DOMAIN p : p[i] * 100 > p[j] * (100 + r.percent)
\* The last candle between from and to decides.
AcrossLine(r, s, p) ==
    LET inRange == {i \in DOMAIN s : s[i] \in r.from .. r.to}
        i == Max(inRange)
    IN  inRange # {} /\ (r.above <=> p[i] > LineY(r, s[i]))
SlowUnderQuick(r, p) == LessThan(MovingAverage(p, r.num), MovingAverage(p, r.quick))
MAsAreClose(r, p) ==
    LET q == MovingAverage(p, r.quick)
        l == MovingAverage(p, r.num)
        Within(a, b) == a[1] * b[2] * 100 <= b[1] * a[2] * (100 + r.percent)
    IN  IF LessThan(q, l) THEN Within(l, q) ELSE Within(q, l)

Holds(r, s, p) ==
    CASE r.kind = "above" -> PriceAbove(r, p)
      [] r.kind = "below" -> PriceBelow(r, p)
      [] r.kind = "volatility" -> Volatile(r, p)
      [] r.kind = "trendline" -> AcrossLine(r, s, p)
      [] r.kind = "average" -> SlowUnderQuick(r, p)
      [] r.kind = "difference" -> MAsAreClose(r, p)

\* Whether r holds for the market that has the candles s.
HoldsOf(r, m, s) == Holds(r, s, PricesOf(m, s))

Flag(holds) == IF holds THEN "yes" ELSE "no"

\* Mutated: the difference rule starts with null, too.
FirstFlag_Null(r) == IF r.kind \in {"average", "difference"} THEN "null" ELSE "no"
FirstFlag(r) == IF r.kind = "average" THEN "null" ELSE "no"

\* Activated when the condition becomes true; the moving averages also when it
\* becomes false.  Mutated: whenever it is true.
Fires_Level(r, old, holds) == holds
Fires(r, old, holds) ==
    IF r.kind \in {"average", "difference"} THEN old # "null" /\ old # Flag(holds)
    ELSE old = "no" /\ holds

-----------------------------------------------------------------------------
(* HTMLalertMessage.send *)

\* What stage s says: what an undelivered message has left in it or in the page
\* it links to, or the present candle.
Says(m, s, present) ==
    LET filled == {k \in 1 .. s : text[m][k] # <<>>}
    IN  IF filled = {} THEN present ELSE text[m][Max(filled)][1]

\* Stages 1 .. n have been filled in and not restored.
Filled(m, n, present) ==
    text' = [text EXCEPT ![m] =
                [s \in Stages |-> IF s <= n THEN <<Says(m, s, present)>> ELSE @[s]]]

\* Mutated: a delivered message is not restored either.
Delivered_NotRestored(m, present) ==
    /\ Filled(m, NumStages, present)
    /\ shown' = [shown EXCEPT ![m] = <<Says(m, NumStages, present), present>>]
    /\ failed' = failed
Delivered(m, present) ==
    /\ shown' = [shown EXCEPT ![m] = <<Says(m, NumStages, present), present>>]
    /\ UNCHANGED <<text, failed>>

\* A stage throws before it is filled in, when its screenshot or its template cannot
\* be had, or after it, when the mail service or the web folder refuses.  The stages
\* before it are delivered, and throw on the exception of the one after them.
NotReady(m, k, present) == Filled(m, k - 1, present)
NotSent(m, k, present) == Filled(m, k, present)

Undelivered(m, k, present) ==
    /\ NotReady(m, k, present) \/ NotSent(m, k, present)
    /\ failed' = failed \cup {m}
    /\ UNCHANGED shown

\* AlertTestRuleWatcher.doStrategy catches the exception.
DoStrategy(m, present) ==
    /\ firedAt' = [firedAt EXCEPT ![m] = start]
    /\ Delivered(m, present) \/ \E k \in Stages : Undelivered(m, k, present)

\* RuleWatcher.feedChartData, after its rules have been fed (cache').  The first
\* feed decides nothing.
Flags(m, s) == [r \in Rules |-> Flag(HoldsOf(r, m, Cached(r, s)))]

Check(m) ==
    LET s == cache'[m]
        fires == {r \in Rules : Fires(r, last[m][r], HoldsOf(r, m, Cached(r, s)))}
    IN  /\ last' = [last EXCEPT ![m] = Flags(m, s)]
        /\ checkedAt' = [checkedAt EXCEPT ![m] = start]
        /\ IF fires = {} THEN UNCHANGED <<text, shown, firedAt, failed>>
           ELSE DoStrategy(m, s[Len(s)])

Watch(m) ==
    /\ fed' = [fed EXCEPT ![m] = TRUE]
    /\ IF fed[m] THEN Check(m) ELSE UNCHANGED <<last, text, shown, checkedAt, firedAt, failed>>

-----------------------------------------------------------------------------
AlertInit ==
    /\ Init
    /\ price = [m \in Markets |-> <<>>]
    /\ fed = [m \in Markets |-> FALSE]
    /\ last = [m \in Markets |-> [r \in Rules |-> FirstFlag(r)]]
    /\ text = [m \in Markets |-> [s \in Stages |-> <<>>]]
    /\ shown = [m \in Markets |-> <<>>]
    /\ checkedAt = [m \in Markets |-> Never]
    /\ firedAt = [m \in Markets |-> Never]
    /\ failed = {}

PriceClock ==
    /\ Clock
    /\ \E p \in [Markets -> Levels] : price' = [m \in Markets |-> Append(price[m], p[m])]
    /\ UNCHANGED watchVars

WatchedFeed ==
    \E m \in Markets, extra \in 0 .. 1 :
        /\ InitialFeed(m, extra) \/ Poll(m, extra)
        /\ Watch(m)
        /\ UNCHANGED price

\* The watcher throws nothing, so a failed poll has fed nothing.
WatchedPollFails ==
    /\ UNCHANGED <<cache, price, watchVars>>
    /\ \E m \in Markets : PollFails(m, 0)

QuietStep ==
    /\ InitialFeedFails \/ StartThread \/ BeginCycle \/ EndCycle
    /\ UNCHANGED <<price, watchVars>>

AlertNext == PriceClock \/ WatchedFeed \/ WatchedPollFails \/ QuietStep

AlertSpec == AlertInit /\ [][AlertNext]_alertVars

-----------------------------------------------------------------------------
\* The candles a rule would have if nothing were ever missed.
History(r, p) == [i \in 1 .. r.num |-> p - r.num + i]

\* Between its last check and the period that the feeder now feeds, the market has
\* crossed r's threshold: upwards, or for the averages either way.  The averages
\* have no side before the first check.
Crossed(r, m) ==
    LET first == checkedAt[m] = Never
        was == ~first /\ HoldsOf(r, m, History(r, checkedAt[m]))
        is == HoldsOf(r, m, History(r, start))
    IN  CASE r.kind = "average" -> ~first /\ was # is
          [] r.kind = "difference" -> was # is
          [] OTHER -> is /\ ~was

\* The trader is alerted at a check exactly when the market itself has crossed a
\* rule's threshold since the check before: candles fed twice or late alert
\* nobody again, and a crossing is noticed after failed polls (RuleWatcher, Rule,
\* PollingCandleChartFeeder).  Holes that the feeder cannot fill are excepted.
AlertsOnCrossings ==
    [][\A m \in Markets :
        (checkedAt'[m] # checkedAt[m] /\ ~overran /\ m \notin forgot) =>
            (firedAt'[m] = start <=> \E r \in Rules : Crossed(r, m))]_alertVars

\* A message tells of the candle that caused it, unless one for the same market
\* has failed before (HTMLalertMessage restores its template).
ShownIsPresent ==
    \A m \in Markets \ failed : shown[m] # <<>> => shown[m][1] = shown[m][2]
=============================================================================
