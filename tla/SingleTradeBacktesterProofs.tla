-------------------- MODULE SingleTradeBacktesterProofs --------------------
(***************************************************************************)
(* Proofs about SingleTradeBacktester, for any prices, fees and candles.   *)
(***************************************************************************)
EXTENDS SingleTradeBacktester, TLAPS

USE BacktesterAssumption

\* What an entry was made for.
Weighed ==
    entry # <<>> =>
        /\ entry.cost = EntryPriceWithFee(entry.price)
        /\ entry.forced = "none" => EntryWorthwhile(entry.price)

\* What the scan for a pullback knows.
Scanning ==
    /\ pc = "begin" => read = 0 /\ offered = {}
    /\ pc \in {"pullback", "entryCandle"} => "pullback" \in request.stages
    /\ pc = "pullback" =>
        /\ read < MaxPullbackEntryCandles
        /\ request.force # "instant"
        /\ "instant" \in request.stages => ~EntryWorthwhile(request.price)
        /\ \A p \in offered : ~EntryWorthwhile(p)
    /\ pc = "entryCandle" => EntryWorthwhile(open)

IInv == TypeOK /\ Weighed /\ Scanning /\ SkipMissesNothing /\ TargetPays /\ FeesExplainProfit

-----------------------------------------------------------------------------
LEMMA RequestType == TypeOK => /\ request.type \in {"bullish", "bearish"}
                               /\ request.price \in Levels
                               /\ request.target \in Levels \cup {None}
BY DEF TypeOK, Requests

LEMMA LevelsArePrices == \A p \in Levels : /\ p \in Int /\ p > 0
                                           /\ TakerFee[p] \in Nat /\ ExitFee[p] \in Nat
                                           /\ ExitFee[p] <= TakerFee[p]
                                           /\ EntryPriceWithFee(p) \in Int
                                           /\ ExitRevenue(p) \in Int
BY DEF EntryPriceWithFee, ExitRevenue, Bullish

\* A worthwhile entry pays for both fees when the trade exits at its target.
LEMMA WorthwhilePays ==
    ASSUME TypeOK, NEW p \in Levels, NEW x \in Levels, x = request.target,
           EntryWorthwhile(p)
    PROVE  Profit(EntryPriceWithFee(p), ExitRevenue(x)) > 0
<1>1. /\ x # None
      /\ x \in Int /\ TakerFee[x] \in Nat /\ ExitFee[x] \in Nat /\ ExitFee[x] <= TakerFee[x]
      /\ EntryPriceWithFee(p) \in Int
  <2> HIDE BacktesterAssumption
  <2>1. x # None BY LevelsArePrices DEF None
  <2>2. x \in Int /\ TakerFee[x] \in Nat /\ ExitFee[x] \in Nat /\ ExitFee[x] <= TakerFee[x]
        BY LevelsArePrices
  <2> QED BY <2>1, <2>2, LevelsArePrices
<1>2. CASE Bullish
  <2>1. EntryPriceWithFee(p) + TakerFee[x] < x BY <1>1, <1>2 DEF EntryWorthwhile
  <2>2. ExitRevenue(x) = x - ExitFee[x] BY <1>2 DEF ExitRevenue
  <2>3. ExitRevenue(x) - EntryPriceWithFee(p) > 0 BY <1>1, <2>1, <2>2
  <2> QED BY <1>2, <2>3 DEF Profit
<1>3. CASE ~Bullish
  <2>1. EntryPriceWithFee(p) - TakerFee[x] > x BY <1>1, <1>3 DEF EntryWorthwhile
  <2>2. ExitRevenue(x) = x + ExitFee[x] BY <1>3 DEF ExitRevenue
  <2>3. EntryPriceWithFee(p) - ExitRevenue(x) > 0 BY <1>1, <2>1, <2>2
  <2> QED BY <1>3, <2>3 DEF Profit
<1> QED BY <1>2, <1>3

\* The two fees are what lies between the two profits.
LEMMA FeesBetweenProfits ==
    ASSUME TypeOK, NEW p \in Levels, NEW x \in Levels
    PROVE  LET cost == EntryPriceWithFee(p)
               fees == Distance(cost, p) + Distance(ExitRevenue(x), x)
           IN  /\ Profit(p, x) - Profit(cost, ExitRevenue(x)) = fees
               /\ fees \in Nat
               /\ Profit(p, x) \in Int /\ Profit(cost, ExitRevenue(x)) \in Int
<1>1. CASE Bullish
      BY <1>1, LevelsArePrices DEF Distance, Profit, EntryPriceWithFee, ExitRevenue
<1>2. CASE ~Bullish
      BY <1>2, LevelsArePrices DEF Distance, Profit, EntryPriceWithFee, ExitRevenue
<1> QED BY <1>1, <1>2

\* The request does not change, and so neither do the judgements on prices.
LEMMA SameJudgement ==
    ASSUME request' = request, NEW p
    PROVE  /\ EntryPriceWithFee(p)' = EntryPriceWithFee(p)
           /\ EntryWorthwhile(p)' = EntryWorthwhile(p)
BY DEF EntryPriceWithFee, EntryWorthwhile, Bullish

LEMMA EnterType ==
    ASSUME TypeOK, NEW s \in Stages, NEW f \in {"none", "instant"}, NEW p \in Levels,
           Enter(s, f, p)
    PROVE  /\ entry' \in Entries /\ entry' # <<>>
           /\ entry'.price = p /\ entry'.forced = f /\ entry'.cost = EntryPriceWithFee(p)
           /\ pc' = "exit" /\ result' = result
<1>1. EntryPriceWithFee(p) \in Int BY LevelsArePrices
<1> QED BY <1>1 DEF Enter, Entries

LEMMA NoEntryYet == TypeOK /\ pc \in {"begin", "pullback", "entryCandle"} => entry = <<>>
BY DEF TypeOK

-----------------------------------------------------------------------------
LEMMA InitIInv == Init => IInv
BY DEF Init, IInv, TypeOK, Weighed, Scanning, SkipMissesNothing, TargetPays, FeesExplainProfit

\* An entry keeps the invariant, whichever it is.
LEMMA EnterIInv ==
    ASSUME IInv, NEW s \in Stages, NEW f \in {"none", "instant"}, NEW p \in Levels,
           pc \in {"begin", "entryCandle"}, Enter(s, f, p), request' = request,
           f = "none" => EntryWorthwhile(p),
           read' \in 0 .. NumCandles, open' \in Levels \cup {None}, offered' = offered
    PROVE  IInv'
<1>1. /\ entry' \in Entries /\ entry' # <<>>
      /\ entry'.price = p /\ entry'.forced = f /\ entry'.cost = EntryPriceWithFee(p)
      /\ pc' = "exit" /\ result' = result
      BY EnterType DEF IInv
<1>2. TypeOK' BY <1>1 DEF IInv, TypeOK
<1>3. Weighed' BY <1>1, SameJudgement DEF Weighed
<1>4. (Scanning /\ SkipMissesNothing /\ TargetPays /\ FeesExplainProfit)'
      BY <1>1 DEF Scanning, SkipMissesNothing, TargetPays, FeesExplainProfit
<1> QED BY <1>2, <1>3, <1>4 DEF IInv

LEMMA StepIInv == IInv /\ [Next]_vars => IInv'
<1> SUFFICES ASSUME IInv, [Next]_vars PROVE IInv' OBVIOUS
<1>0. TypeOK /\ request.price \in Levels BY RequestType DEF IInv
<1>1. CASE InstantEntry
      BY <1>0, <1>1, EnterIInv DEF InstantEntry, Stages, IInv, TypeOK
<1>2. CASE NoInstantEntry
  <2>1. CASE pc' = "exit"
        BY <1>0, <1>2, <2>1, EnterIInv DEF NoInstantEntry, End, Stages, IInv, TypeOK
  <2>2. CASE pc' # "exit"
    <3>1. /\ pc = "begin" /\ pc' \in {"pullback", "skipped"}
          /\ request.force # "instant"
          /\ "instant" \in request.stages => ~EntryWorthwhile(request.price)
          /\ pc' = "pullback" <=> "pullback" \in request.stages
          /\ UNCHANGED <<request, read, open, offered, entry, result>>
          BY <1>2, <2>2 DEF NoInstantEntry, Enter, End
    <3>2. entry = <<>> BY <1>0, <3>1, NoEntryYet
    <3>3. read = 0 /\ offered = {} BY <3>1 DEF IInv, Scanning
    <3>4. TypeOK' BY <1>0, <3>1, <3>2 DEF TypeOK
    <3>5. Weighed' BY <3>1, <3>2 DEF Weighed
    <3>6. Scanning' /\ SkipMissesNothing'
          BY <3>1, <3>3, SameJudgement DEF Scanning, SkipMissesNothing
    <3>7. TargetPays' /\ FeesExplainProfit' BY <3>1 DEF TargetPays, FeesExplainProfit
    <3> QED BY <3>4, <3>5, <3>6, <3>7 DEF IInv
  <2> QED BY <2>1, <2>2
<1>3. CASE TryPullback
  <2>1. /\ pc = "pullback" /\ pc' \in {"pullback", "entryCandle", "skipped"}
        /\ read < NumCandles /\ read' = read + 1 /\ open' \in Levels
        /\ offered' = offered \cup {open'}
        /\ UNCHANGED <<request, entry, result>>
        /\ pc' = "entryCandle" <=> EntryWorthwhile(open')
        /\ pc' = "pullback" => read' < MaxPullbackEntryCandles
        /\ pc' = "skipped" => ~(read' < MaxPullbackEntryCandles)
        BY <1>3 DEF TryPullback, NextCandle, End, MorePullbackCandles
  <2>2. entry = <<>> /\ read \in Nat BY <1>0, <2>1, NoEntryYet DEF TypeOK
  <2>3. /\ "pullback" \in request.stages /\ request.force # "instant"
        /\ read < MaxPullbackEntryCandles
        /\ "instant" \in request.stages => ~EntryWorthwhile(request.price)
        /\ \A p \in offered : ~EntryWorthwhile(p)
        BY <2>1 DEF IInv, Scanning
  <2>4. TypeOK' BY <1>0, <2>1, <2>2 DEF TypeOK
  <2>5. Weighed' BY <2>1, <2>2 DEF Weighed
  <2>6. pc' # "entryCandle" => \A p \in offered' : ~EntryWorthwhile(p) BY <2>1, <2>3
  <2>7. read' = MaxPullbackEntryCandles \/ pc' # "skipped" BY <2>1, <2>2, <2>3
  <2> DEFINE W(p) == EntryWorthwhile(p)
  <2>8. Scanning' /\ SkipMissesNothing'
    <3>1. ASSUME NEW p PROVE EntryWorthwhile(p)' = W(p) BY <2>1, SameJudgement
    <3>2. EntryWorthwhile(open)' = EntryWorthwhile(open')
          BY <2>1 DEF EntryWorthwhile, EntryPriceWithFee, Bullish
    <3>3. EntryWorthwhile(request.price)' = EntryWorthwhile(request.price)
          BY <2>1 DEF EntryWorthwhile, EntryPriceWithFee, Bullish
    <3>4. pc' # "entryCandle" => (\A p \in offered : ~EntryWorthwhile(p))' BY <2>6, <3>1
    <3> QED BY <2>1, <2>3, <2>7, <3>2, <3>3, <3>4 DEF Scanning, SkipMissesNothing
  <2>9. TargetPays' /\ FeesExplainProfit' BY <2>1 DEF TargetPays, FeesExplainProfit
  <2> QED BY <2>4, <2>5, <2>8, <2>9 DEF IInv
<1>4. CASE PullbackEntry
  <2>1. pc = "entryCandle" /\ open \in Levels /\ EntryWorthwhile(open)
        BY <1>4 DEF PullbackEntry, IInv, TypeOK, Scanning
  <2>2. /\ Enter("pullback", "none", open) /\ request' = request /\ offered' = offered
        /\ read' \in 0 .. NumCandles /\ open' \in Levels
        BY <1>0, <1>4 DEF PullbackEntry, NextCandle, PullbackPrice, TypeOK
  <2> QED BY <2>1, <2>2, EnterIInv DEF Stages
<1>5. CASE FeedCandle
  <2>1. /\ pc = "exit" /\ entry # <<>> /\ UNCHANGED <<request, offered, entry>>
        /\ read' \in 0 .. NumCandles /\ open' \in Levels
        /\ entry.price \in Levels /\ entry.cost = EntryPriceWithFee(entry.price)
        /\ entry.forced = "none" => EntryWorthwhile(entry.price)
        BY <1>0, <1>5 DEF FeedCandle, NextCandle, End, TypeOK, Entries, IInv, Weighed
  <2>2. Weighed' BY <2>1, SameJudgement DEF Weighed
  <2>3. CASE pc' = "exit" /\ result' = result
    <3>1. TypeOK' BY <1>0, <2>1, <2>3 DEF TypeOK
    <3>2. (Scanning /\ SkipMissesNothing /\ TargetPays /\ FeesExplainProfit)'
          BY <2>3 DEF Scanning, SkipMissesNothing, TargetPays, FeesExplainProfit
    <3> QED BY <2>2, <3>1, <3>2 DEF IInv
  <2>4. ASSUME NEW x \in Levels, NEW atTarget \in BOOLEAN, atTarget => x = request.target,
               pc' = "complete", result' = FinalResult(x, atTarget)
        PROVE  IInv'
    <3>1. /\ result'.profit_noFee - result'.profit = result'.fees
          /\ result' \in Results
          BY <1>0, <2>1, <2>4, FeesBetweenProfits DEF FinalResult, Results
    <3>2. result' # <<>> BY <2>4 DEF FinalResult
    <3>3. TypeOK' BY <1>0, <2>1, <2>4, <3>1, <3>2 DEF TypeOK
    <3>4. (result'.target /\ entry.forced = "none") => result'.profit > 0
          BY <1>0, <2>1, <2>4, WorthwhilePays DEF FinalResult
    <3>5. (TargetPays /\ FeesExplainProfit)'
          BY <2>1, <3>1, <3>4 DEF TargetPays, FeesExplainProfit
    <3>6. (Scanning /\ SkipMissesNothing)' BY <2>4 DEF Scanning, SkipMissesNothing
    <3> QED BY <2>2, <3>3, <3>5, <3>6 DEF IInv
  <2> QED BY <1>5, <2>3, <2>4 DEF FeedCandle, End
<1>6. CASE Rejected
  <2>1. pc' = "rejected" /\ UNCHANGED <<request, read, open, offered, entry, result>>
        BY <1>6 DEF Rejected, End
  <2>2. pc # "complete" BY <1>6 DEF Rejected
  <2>3. TypeOK' BY <1>0, <2>1, <2>2 DEF TypeOK
  <2>4. Weighed' BY <2>1, SameJudgement DEF IInv, Weighed
  <2>5. (Scanning /\ SkipMissesNothing /\ TargetPays /\ FeesExplainProfit)'
        BY <2>1 DEF Scanning, SkipMissesNothing, TargetPays, FeesExplainProfit
  <2> QED BY <2>3, <2>4, <2>5 DEF IInv
<1>7. CASE UNCHANGED vars
      BY <1>7 DEF vars, IInv, TypeOK, Weighed, Scanning, SkipMissesNothing, TargetPays,
                  FeesExplainProfit, EntryWorthwhile, EntryPriceWithFee, Bullish
<1> QED BY <1>1, <1>2, <1>3, <1>4, <1>5, <1>6, <1>7 DEF Next

-----------------------------------------------------------------------------
\* Type correctness: the fees charged are never negative, and a result comes with
\* its entry.
THEOREM TypeCorrect == Spec => []TypeOK
<1>1. IInv => TypeOK BY DEF IInv
<1> QED BY <1>1, InitIInv, StepIInv, PTL DEF Spec

\* Whatever the prices and the fees, reaching the target of an unforced entry pays.
THEOREM TargetAlwaysPays == Spec => []TargetPays
<1>1. IInv => TargetPays BY DEF IInv
<1> QED BY <1>1, InitIInv, StepIInv, PTL DEF Spec

\* The two profits of a result differ by the fees it lists.
THEOREM FeesAddUp == Spec => []FeesExplainProfit
<1>1. IInv => FeesExplainProfit BY DEF IInv
<1> QED BY <1>1, InitIInv, StepIInv, PTL DEF Spec

\* No trade is skipped while an entry that it allows would have paid.
THEOREM SkipsAreDue == Spec => []SkipMissesNothing
<1>1. IInv => SkipMissesNothing BY DEF IInv
<1> QED BY <1>1, InitIInv, StepIInv, PTL DEF Spec

-----------------------------------------------------------------------------
\* An upper bound of the steps that a backtest still makes: the candles that are left,
\* the decision on an instant entry, and the end.
StepsLeft ==
    (NumCandles - read) +
    CASE pc = "begin" -> 2
      [] pc \in {"pullback", "entryCandle", "exit"} -> 1
      [] OTHER -> 0

LEMMA StepsAreNat == TypeOK => StepsLeft \in Nat
BY DEF TypeOK, StepsLeft

LEMMA StepsGoDown == TypeOK /\ [Next]_vars => [StepsLeft' < StepsLeft]_vars
<1> SUFFICES ASSUME TypeOK, Next PROVE StepsLeft' < StepsLeft
    OBVIOUS
<1>1. read \in 0 .. NumCandles /\ NumCandles \in Nat BY DEF TypeOK
<1>2. CASE InstantEntry \/ NoInstantEntry
  <2>1. pc = "begin" /\ pc' \in {"pullback", "exit", "skipped"} /\ read' = read
        BY <1>2 DEF InstantEntry, NoInstantEntry, Enter, End
  <2> QED BY <1>1, <2>1 DEF StepsLeft
<1>3. CASE TryPullback \/ PullbackEntry \/ FeedCandle
  <2>1. /\ pc \in {"pullback", "entryCandle", "exit"} /\ pc' # "begin"
        /\ read < NumCandles /\ read' = read + 1
        BY <1>3 DEF TryPullback, PullbackEntry, FeedCandle, NextCandle, Enter, End
  <2> QED BY <1>1, <2>1 DEF StepsLeft
<1>4. CASE Rejected
  <2>1. pc \in {"pullback", "entryCandle", "exit"} /\ pc' = "rejected" /\ read' = read
        BY <1>4 DEF Rejected, End
  <2> QED BY <1>1, <2>1 DEF StepsLeft
<1> QED BY <1>2, <1>3, <1>4 DEF Next

\* doTest cannot go on for ever: every step lowers a natural number, so that a backtest
\* ends after two steps more than there are candles.
THEOREM BacktestsAreFinite == Spec => [](StepsLeft \in Nat) /\ [][StepsLeft' < StepsLeft]_vars
BY TypeCorrect, StepsAreNat, StepsGoDown, PTL DEF Spec
=============================================================================
