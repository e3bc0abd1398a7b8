------------------------ MODULE SingleTradeBacktester ------------------------
(***************************************************************************)
(* The backtest of one trade: enterTrade decides whether the trade is worth *)
(* its fees, at once or at one of the next candles, and doTest then feeds   *)
(* the exit strategy candle by candle until it exits.  Every candle is an   *)
(* await on XContinuousHistoricalData, which may reject.                    *)
(*                                                                          *)
(* A candle is its opening price.  The exit strategies are a library's: one *)
(* may exit at its target or, as a stop or another target, at any price.    *)
(* Prices are integers and the quantity is 1, its default; the fee of a     *)
(* price is given by a table.                                               *)
(***************************************************************************)
EXTENDS Integers, FiniteSets

CONSTANTS
    Levels,                   \* prices
    TakerFee, ExitFee,        \* the fee tier: fees of a taker, and of an exit
    MaxPullbackEntryCandles,  \* getDefaultMaxPullbackEntryCandles
    NumCandles                \* bound: the candles the service has

ASSUME BacktesterAssumption ==
    /\ Levels \subseteq Nat \ {0}
    /\ TakerFee \in [Levels -> Nat] /\ ExitFee \in [Levels -> Nat]
    /\ \A p \in Levels : ExitFee[p] <= TakerFee[p]
    /\ MaxPullbackEntryCandles \in Nat \ {0}
    /\ NumCandles \in Nat

VARIABLES
    request,  \* DSingleBacktestParams
    pc,       \* what doTest awaits, or how it has ended
    read,     \* continuousHDS.currCandleInd: candles read
    open,     \* the opening price of the last of them
    offered,  \* history: the opening prices of the candles tried for a pullback
    entry,    \* DTradeEntry
    result    \* DCompleteTradeResult

vars == <<request, pc, read, open, offered, entry, result>>

None == 0
Stages == {"instant", "pullback"}

\* stages is {"instant", "pullback"} when the request does not restrict them; target
\* is None without a ProfitExitStrategy_TargetLimit, or when it has no fixed price.
Requests == [type : {"bullish", "bearish"}, price : Levels, target : Levels \cup {None},
             force : {"none", "instant", "other"}, stages : SUBSET Stages]

Entries == [stage : Stages, forced : {"none", "instant"}, price : Levels, cost : Int]
Results == [target : BOOLEAN, profit : Int, profit_noFee : Int, fees : Nat]

TypeOK ==
    /\ request \in Requests
    /\ pc \in {"begin", "pullback", "entryCandle", "exit", "complete", "skipped", "rejected"}
    /\ read \in 0 .. NumCandles
    /\ open \in Levels \cup {None}
    /\ offered \subseteq Levels
    /\ entry \in Entries \cup {<<>>}
    /\ result \in Results \cup {<<>>}
    /\ pc = "entryCandle" => open \in Levels
    /\ pc \in {"exit", "complete"} => entry # <<>>
    /\ entry # <<>> => pc \in {"exit", "complete", "rejected"}
    /\ pc = "complete" <=> result # <<>>

Init ==
    /\ request \in Requests
    /\ pc = "begin" /\ read = 0 /\ open = None
    /\ offered = {}
    /\ entry = <<>> /\ result = <<>>

-----------------------------------------------------------------------------
Bullish == request.type = "bullish"

\* Mutated: the fee is added to a bearish entry, too.
EntryPriceWithFee_Added(p) == p + TakerFee[p]
EntryPriceWithFee(p) == IF Bullish THEN p + TakerFee[p] ELSE p - TakerFee[p]

\* Without a projected exit price every entry is worthwhile.
EntryWorthwhile(p) ==
    LET x == request.target
    IN  x # None =>
            IF Bullish THEN EntryPriceWithFee(p) + TakerFee[x] < x
            ELSE EntryPriceWithFee(p) - TakerFee[x] > x

Enter(stage, forced, p) ==
    /\ pc' = "exit"
    /\ entry' = [stage |-> stage, forced |-> forced, price |-> p, cost |-> EntryPriceWithFee(p)]
    /\ UNCHANGED result

End(how) ==
    /\ pc' = how
    /\ UNCHANGED <<entry, result>>

-----------------------------------------------------------------------------
(* enterTrade *)

InstantEntry ==
    /\ pc = "begin"
    /\ EntryWorthwhile(request.price) /\ "instant" \in request.stages
    /\ Enter("instant", "none", request.price)
    /\ UNCHANGED <<request, read, open, offered>>

NoInstantEntry ==
    /\ pc = "begin"
    /\ ~(EntryWorthwhile(request.price) /\ "instant" \in request.stages)
    /\ IF "pullback" \in request.stages /\ request.force # "instant" THEN End("pullback")
       ELSE IF request.force = "instant" THEN Enter("instant", "instant", request.price)
       ELSE End("skipped")
    /\ UNCHANGED <<request, read, open, offered>>

\* await continuousHDS.getNextCandle()
NextCandle ==
    /\ read < NumCandles
    /\ read' = read + 1
    /\ open' \in Levels

\* Mutated: the loop ends a candle early.
MorePullbackCandles_Early == read' + 1 < MaxPullbackEntryCandles
MorePullbackCandles == read' < MaxPullbackEntryCandles

TryPullback ==
    /\ pc = "pullback"
    /\ NextCandle
    /\ offered' = offered \cup {open'}
    /\ End(IF EntryWorthwhile(open') THEN "entryCandle"
           ELSE IF MorePullbackCandles THEN "pullback" ELSE "skipped")
    /\ UNCHANGED request

\* The trade is entered in the candle after the one whose opening price it pays.
\* Mutated: at the opening price of its own candle.
PullbackPrice_OfEntryCandle == open'
PullbackPrice == open

PullbackEntry ==
    /\ pc = "entryCandle"
    /\ NextCandle
    /\ Enter("pullback", "none", PullbackPrice)
    /\ UNCHANGED <<request, offered>>

-----------------------------------------------------------------------------
(* doTest and getExitNowResult *)

\* What the exit strategy gains for a price, after the fee.
ExitRevenue(x) == IF Bullish THEN x - ExitFee[x] ELSE x + ExitFee[x]

\* Math.abs(a - b).
Distance(a, b) == IF a < b THEN b - a ELSE a - b

Profit(cost, revenue) == IF Bullish THEN revenue - cost ELSE cost - revenue

FinalResult(x, atTarget) ==
    [target |-> atTarget,
     profit |-> Profit(entry.cost, ExitRevenue(x)),
     profit_noFee |-> Profit(entry.price, x),
     fees |-> Distance(entry.cost, entry.price) + Distance(ExitRevenue(x), x)]

\* The strategy is fed a candle, and may exit.
FeedCandle ==
    /\ pc = "exit"
    /\ NextCandle
    /\ \/ End("exit")
       \/ \E x \in Levels, atTarget \in BOOLEAN :
            /\ atTarget => x = request.target
            /\ pc' = "complete"
            /\ result' = FinalResult(x, atTarget)
            /\ UNCHANGED entry
    /\ UNCHANGED <<request, offered>>

\* A candle cannot be had: the data ends, or the service fails.  Mutated: in the loop
\* of doTest the error is swallowed and the candle asked for again.
Rejected_Retried ==
    /\ pc \in {"pullback", "entryCandle"}
    /\ End("rejected")
    /\ UNCHANGED <<request, read, open, offered>>
Rejected ==
    /\ pc \in {"pullback", "entryCandle", "exit"}
    /\ End("rejected")
    /\ UNCHANGED <<request, read, open, offered>>

Next ==
    \/ InstantEntry \/ NoInstantEntry \/ TryPullback \/ PullbackEntry
    \/ FeedCandle \/ Rejected

\* Each candle that is asked for comes or is refused.
Spec == Init /\ [][Next]_vars /\ WF_vars(Next)

-----------------------------------------------------------------------------
\* A trade that was entered without force, and exits at the target that its entry was
\* weighed against, makes a profit after all fees (SingleTradeBacktester.enterTrade
\* and getExitNowResult).
TargetPays ==
    (pc = "complete" /\ result.target /\ entry.forced = "none") => result.profit > 0

\* What fees take from the profit is what the result says was charged, for either
\* direction (getExitNowResult).
FeesExplainProfit == pc = "complete" => result.profit_noFee - result.profit = result.fees

\* A trade is skipped only when no entry that the request allows was worthwhile: not
\* at once, and not at any of the candles of a pullback, which have all been tried
\* (enterTrade).
SkipMissesNothing ==
    pc = "skipped" =>
        /\ request.force # "instant"
        /\ "instant" \in request.stages => ~EntryWorthwhile(request.price)
        /\ "pullback" \in request.stages =>
              read = MaxPullbackEntryCandles /\ \A p \in offered : ~EntryWorthwhile(p)

\* Every backtest ends (SingleTradeBacktester.doTest).
Settles == <>(pc \in {"complete", "skipped", "rejected"})
=============================================================================
