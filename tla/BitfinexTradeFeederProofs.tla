--------------------- MODULE BitfinexTradeFeederProofs ---------------------
(***************************************************************************)
(* Proofs about BitfinexTradeFeeder, for any finite set of markets, any    *)
(* page limit and any number of trades and restarts.                       *)
(***************************************************************************)
EXTENDS BitfinexTradeFeeder, FiniteSetTheorems, WellFoundedInduction, TLAPS

-----------------------------------------------------------------------------
(* The page of the n newest trades *)

\* Trade ids are numbers.
LEMMA IdsAreNumbers == \A t \in Ids : t \in Nat \ {0}
  BY FeederAssumption DEF Ids

\* Every set of trades is finite.
LEMMA IdsFinite == ASSUME NEW S \in SUBSET Ids PROVE IsFiniteSet(S)
<1>1. MaxId \in Int /\ 2 \in Int
  BY FeederAssumption
<1>2. IsFiniteSet(Ids)
  BY <1>1, FS_Interval DEF Ids
<1> QED
  BY <1>2, FS_Subset

\* A non-empty set of trades has a newest one.
LEMMA NewestExists ==
    ASSUME NEW S \in SUBSET Ids, S # {}
    PROVE  \E t \in S : \A u \in S : u <= t
<1> DEFINE Above(t) == {u \in S : u > t}
           T == {Above(t) : t \in S}
           R == StrictSubsetOrdering(S)
<1>1. IsWellFoundedOn(R, FiniteSubsetsOf(S))
  BY FS_StrictSubsetOrderingWellFounded
<1>2. T \subseteq FiniteSubsetsOf(S) /\ T # {}
  BY IdsFinite, \A X \in SUBSET S : X \in SUBSET Ids DEF FiniteSubsetsOf
<1>3. PICK X \in T : \A Y \in T : ~ (<<Y, X>> \in R)
  <2> HIDE DEF T, R
  <2> QED
    BY <1>1, <1>2, WFMin
<1>4. PICK t \in S : X = Above(t)
  BY <1>3
<1>5. ASSUME NEW u \in S PROVE u <= t
  <2> SUFFICES ASSUME u > t PROVE FALSE
    BY IdsAreNumbers
  <2>0. \A v \in S : v \in Nat
    BY IdsAreNumbers
  <2>1. Above(u) \subseteq Above(t)
    BY <2>0
  <2>2. u \in Above(t) /\ u \notin Above(u)
    BY <2>0
  <2>3. <<Above(u), Above(t)>> \in R
    BY <2>1, <2>2 DEF StrictSubsetOrdering
  <2>4. Above(u) \in T
    OBVIOUS
  <2> QED
    BY <1>3, <1>4, <2>3, <2>4
<1> QED
  BY <1>5

\* The page is upward closed: whatever is newer than a trade on it is on it too.
LEMMA NewestUpClosed ==
    ASSUME NEW S \in SUBSET Ids, NEW n \in Nat,
           NEW t \in NewestOf(S, n), NEW u \in S, t <= u
    PROVE  u \in NewestOf(S, n)
<1> DEFINE A == {v \in S : v > t}
           B == {v \in S : v > u}
<1>1. B \in SUBSET A
  <2>1. t \in Nat /\ \A v \in S : v \in Nat
    BY IdsAreNumbers DEF NewestOf
  <2> QED
    BY <2>1
<1>2. IsFiniteSet(A)
  BY IdsFinite
<1>3. Cardinality(B) <= Cardinality(A)
  BY <1>1, <1>2, FS_Subset
<1>4. Cardinality(A) \in Nat /\ Cardinality(B) \in Nat
  BY <1>1, <1>2, FS_Subset, FS_CardinalityType
<1>5. Cardinality(A) < n
  BY DEF NewestOf
<1>6. Cardinality(B) < n
  BY <1>3, <1>4, <1>5
<1> QED
  BY <1>6 DEF NewestOf

\* A page of at least one trade holds the newest trade.
LEMMA NewestOnPage ==
    ASSUME NEW S \in SUBSET Ids, NEW n \in Nat \ {0},
           NEW t \in S, \A u \in S : u <= t
    PROVE  t \in NewestOf(S, n)
<1>1. ASSUME NEW u \in S, u > t PROVE FALSE
  <2>1. u \in Nat /\ t \in Nat
    BY IdsAreNumbers
  <2> QED
    BY <1>1, <2>1
<1>2. Cardinality({u \in S : u > t}) = 0
  BY <1>1, FS_EmptySet
<1> QED
  BY <1>2 DEF NewestOf

-----------------------------------------------------------------------------
(* Type correctness *)

InCycle == pc \in {"head", "fetch", "store"}

\* The head a cycle measures is not behind lastTrade, so the limit is a number.
HeadAhead == InCycle => lastId <= mostRecent

LEMMA InitTypeOK == Init => TypeOK /\ HeadAhead
<1> SUFFICES ASSUME Init PROVE TypeOK /\ HeadAhead
  OBVIOUS
<1>1. /\ trades \in [Markets -> SUBSET Ids] /\ newest \in 1 .. MaxId
      /\ db \in [Markets -> SUBSET Ids] /\ pc \in {"down", "idle", "head", "fetch", "store"}
  BY FeederAssumption DEF Init
<1>2. stop \in BOOLEAN /\ startSecond \in BOOLEAN
  BY DEF Init
<1>6. fed \in [Ids -> Nat] /\ runs \in 0 .. MaxRuns
  BY FeederAssumption DEF Init
<1>3. /\ lastId \in Nat \ {0} /\ mostRecent \in Nat \ {0} /\ limit \in Nat
      /\ floor \in Nat \ {0} /\ startId \in Nat \ {0}
  BY DEF Init
<1>4. /\ todo \in SUBSET Markets /\ cur \in SUBSET Markets
      /\ result \in SUBSET Ids /\ warned \in SUBSET Markets
  BY DEF Init
<1>5. HeadAhead
  BY DEF Init, HeadAhead, InCycle
<1> QED
  BY <1>1, <1>2, <1>3, <1>4, <1>5, <1>6 DEF TypeOK

LEMMA NextTypeOK == TypeOK /\ HeadAhead /\ [Next]_vars => TypeOK' /\ HeadAhead'
<1> SUFFICES ASSUME TypeOK, HeadAhead, [Next]_vars PROVE TypeOK' /\ HeadAhead'
  OBVIOUS
<1> USE FeederAssumption DEF TypeOK, HeadAhead, InCycle, exchangeVars, cycleVars, historyVars
<1>1. ASSUME NEW m \in Markets, NewTrade(m) PROVE TypeOK' /\ HeadAhead'
  <2>1. newest + 1 \in Ids /\ newest' \in 1 .. MaxId
    BY <1>1 DEF NewTrade, Issue, Ids
  <2> QED
    BY <1>1, <2>1 DEF NewTrade, Issue
<1>2. CASE ForeignTrade
  BY <1>2 DEF ForeignTrade, Issue
<1>3. CASE SecondElapses
  BY <1>3 DEF SecondElapses
<1>4. CASE Start
  <2>1. Stored \subseteq Ids
    BY DEF Stored
  <2>2. lastId' \in Nat \ {0}
    BY <1>4, <2>1, IdsAreNumbers DEF Start
  <2>3. floor' \in Nat \ {0} /\ startSecond' \in BOOLEAN
    <3>1. CASE Stored = {}
      BY <1>4, <3>1 DEF Start
    <3>2. CASE Stored # {}
      BY <1>4, <3>2 DEF Start
    <3> QED
      BY <3>1, <3>2
  <2>4. runs' \in 0 .. MaxRuns /\ fed' \in [Ids -> Nat]
    BY <1>4 DEF Start
  <2>6. stop' \in BOOLEAN
    BY <1>4 DEF Start
  <2>5. mostRecent' = lastId'
    BY <1>4 DEF Start, EnterFeed
  <2> QED
    BY <1>4, <2>2, <2>3, <2>4, <2>5, <2>6 DEF Start, EnterFeed
<1>5. CASE BeginCycle
  BY <1>5 DEF BeginCycle, EnterFeed
<1>6. CASE SeeStop
  BY <1>6 DEF SeeStop
<1>7. CASE Stop
  BY <1>7 DEF Stop
<1>8. ASSUME NEW m \in Markets, QueryHead(m) PROVE TypeOK' /\ HeadAhead'
  BY <1>8, IdsAreNumbers DEF QueryHead
<1>9. CASE SetLimit
  <2>1. limit' \in Nat
    BY <1>9 DEF SetLimit, MaxMissedTrades, MinOf
  <2> QED
    BY <1>9, <2>1 DEF SetLimit, MaxMissedTrades
<1>10. ASSUME NEW m \in Markets, Fetch(m) PROVE TypeOK' /\ HeadAhead'
  BY <1>10 DEF Fetch, NewestOf
<1>11. CASE Store
  <2>1. db' \in [Markets -> SUBSET Ids]
    BY <1>11 DEF Store
  <2>2. fed' \in [Ids -> Nat]
    BY <1>11 DEF Store
  <2> QED
    BY <1>11, <2>1, <2>2 DEF Store
<1>12. CASE EndFeed
  BY <1>12 DEF EndFeed, NewWatermark
<1>13. CASE GoDown
  <2>1. db' \in [Markets -> SUBSET Ids]
    BY <1>13 DEF GoDown
  <2> QED
    BY <1>13, <2>1 DEF GoDown
<1>14. CASE UNCHANGED vars
  BY <1>14 DEF vars
<1> QED
  BY <1>1, <1>2, <1>3, <1>4, <1>5, <1>6, <1>7, <1>8, <1>9, <1>10, <1>11,
     <1>12, <1>13, <1>14 DEF Next, Exchange, Cycle

\* Type correctness: every variable of the feeder stays in its type; in
\* particular the number of trades a cycle asks for is never negative.
THEOREM TypeCorrect == Spec => []TypeOK
BY InitTypeOK, NextTypeOK, PTL DEF Spec

LEMMA HeadAheadCorrect == Spec => [](TypeOK /\ HeadAhead)
BY InitTypeOK, NextTypeOK, PTL DEF Spec
-----------------------------------------------------------------------------
(* The inductive invariants *)

\* Nothing the program holds is newer than the newest trade of the exchange, a
\* market is stored after it left the list of the cycle, and a fetched page holds
\* trades of the market it was asked for that are newer than lastTrade.
Bounds ==
    /\ lastId <= newest /\ mostRecent <= newest /\ floor <= newest
    /\ startId <= lastId
    /\ \A m \in Markets : \A t \in trades[m] : t <= newest
    /\ \A m \in Markets : db[m] \subseteq trades[m]
    /\ pc \in {"idle", "head", "fetch"} => cur = {} /\ result = {}
    /\ pc = "store" => \E m \in Markets \ todo :
                          /\ cur = {m} /\ result \subseteq trades[m]
                          /\ \A t \in result : lastId < t

\* What the running cycle owes a market it has visited.
Owed(m) == {t \in trades[m] : floor < t /\ startId < t /\ t <= mostRecent}

\* A visited market that logged no warning is complete up to the head the cycle
\* measured, counting the page that is about to be stored.
GapInv ==
    /\ GapsAreWarned
    /\ pc \in {"fetch", "store"} =>
          \A m \in Markets \ (todo \cup warned) :
             Owed(m) \subseteq db[m] \cup (IF m \in cur THEN result ELSE {})

\* The newest head of a cycle is a trade of some market; until that market is
\* visited nothing is owed, from then on the page or the table holds a trade at
\* least as new.
Witnessed(m) ==
    \/ m \in todo
    \/ \E t \in db[m] \cup (IF m \in cur THEN result ELSE {}) : t >= mostRecent

WatermarkInv ==
    /\ WatermarkDurable
    /\ InCycle /\ mostRecent > lastId => \E m \in Markets : mostRecent \in trades[m]
    /\ pc \in {"fetch", "store"} /\ mostRecent > lastId => limit > 0
    /\ pc \in {"fetch", "store"} /\ mostRecent > lastId /\ mostRecent > floor =>
          \E m \in Markets : mostRecent \in trades[m] /\ Witnessed(m)

\* A trade that was fed exists, a trade fed twice is behind lastTrade or the head
\* of the cycle, and what an unvisited market can still feed was fed at most once
\* and then lies behind the head.
FedInv ==
    /\ FedAtMostTwice
    /\ \A m1, m2 \in Markets : m1 # m2 => trades[m1] \cap trades[m2] = {}
    /\ \A t \in Ids : fed[t] > 0 => t <= newest
    /\ pc \in {"idle", "head"} => \A t \in Ids : fed[t] > 1 => t <= lastId
    /\ pc = "head" =>
          \A m \in Markets \ todo : \A t \in trades[m] : fed[t] > 0 => t <= mostRecent
    /\ pc \in {"fetch", "store"} =>
          /\ \A t \in Ids : fed[t] > 1 => t <= mostRecent
          /\ \A m \in todo \cup cur : \A t \in trades[m] :
                /\ fed[t] > 0 => t <= mostRecent
                /\ t > lastId => fed[t] <= 1
-----------------------------------------------------------------------------
(* Bounds *)

\* A trade is a positive number of some market.
LEMMA TradesAreNumbers ==
    ASSUME TypeOK
    PROVE  /\ \A m \in Markets : \A t \in trades[m] : t \in Ids /\ t \in Nat /\ t > 0
           /\ \A m \in Markets : \A t \in db[m] : t \in Ids /\ t \in Nat /\ t > 0
           /\ \A t \in result : t \in Ids /\ t \in Nat /\ t > 0
           /\ \A t \in Stored : t \in Ids /\ t \in Nat /\ t > 0
BY IdsAreNumbers DEF TypeOK, Stored

LEMMA InitBounds == Init => Bounds
BY DEF Init, Bounds

LEMMA NextBounds == TypeOK /\ HeadAhead /\ Bounds /\ [Next]_vars => Bounds'
<1> SUFFICES ASSUME TypeOK, HeadAhead, Bounds, [Next]_vars PROVE Bounds'
  OBVIOUS
<1> USE TradesAreNumbers, FeederAssumption
        DEF TypeOK, Bounds, HeadAhead, InCycle, exchangeVars, cycleVars, historyVars
<1>1. ASSUME NEW m \in Markets, NewTrade(m) PROVE Bounds'
  BY <1>1 DEF NewTrade, Issue
<1>2. CASE ForeignTrade
  BY <1>2 DEF ForeignTrade, Issue
<1>3. CASE SecondElapses
  BY <1>3 DEF SecondElapses
<1>4. CASE Start
  <2>1. lastId' <= newest /\ mostRecent' <= newest /\ floor' <= newest /\ startId' = lastId'
    <3>1. CASE Stored = {}
      BY <1>4, <3>1 DEF Start, EnterFeed
    <3>2. CASE Stored # {}
      BY <1>4, <3>2 DEF Start, EnterFeed, Stored
    <3> QED
      BY <3>1, <3>2
  <2> QED
    BY <1>4, <2>1 DEF Start, EnterFeed
<1>5. CASE BeginCycle
  BY <1>5 DEF BeginCycle, EnterFeed
<1>6. CASE SeeStop
  BY <1>6 DEF SeeStop
<1>7. CASE Stop
  BY <1>7 DEF Stop
<1>8. ASSUME NEW m \in Markets, QueryHead(m) PROVE Bounds'
  BY <1>8 DEF QueryHead
<1>9. CASE SetLimit
  BY <1>9 DEF SetLimit, MaxMissedTrades
<1>10. ASSUME NEW m \in Markets, Fetch(m) PROVE Bounds'
  BY <1>10 DEF Fetch, NewestOf, IsOld
<1>11. CASE Store
  BY <1>11 DEF Store
<1>12. CASE EndFeed
  BY <1>12 DEF EndFeed, NewWatermark
<1>13. CASE GoDown
  BY <1>13 DEF GoDown
<1>14. CASE UNCHANGED vars
  BY <1>14 DEF vars
<1> QED
  BY <1>1, <1>2, <1>3, <1>4, <1>5, <1>6, <1>7, <1>8, <1>9, <1>10, <1>11,
     <1>12, <1>13, <1>14 DEF Next, Exchange, Cycle
-----------------------------------------------------------------------------
(* Gaps *)

LEMMA InitGapInv == Init => GapInv
BY DEF Init, GapInv, GapsAreWarned, Covered

\* The scan of one market: without a warning it met an old trade, and then
\* everything newer than that trade was on the page.
LEMMA FetchIsComplete ==
    ASSUME TypeOK, Bounds, GapInv, NEW m \in Markets, Fetch(m), m \notin warned'
    PROVE  Owed(m) \subseteq db[m] \cup result'
<1> SUFFICES ASSUME NEW t \in Owed(m) PROVE t \in db[m] \cup result'
  OBVIOUS
<1> DEFINE page == NewestOf(trades[m], limit)
<1>1. PICK u \in page : IsOld(u)
  BY DEF Fetch, TypeOK
<1>2. m \notin warned
  BY DEF Fetch
<1>3. /\ t \in trades[m] /\ t \in Nat /\ floor < t /\ startId < t /\ t <= mostRecent
      /\ u \in trades[m] /\ u \in Nat
  BY TradesAreNumbers DEF Owed, NewestOf
<1>4. CASE t <= lastId
  <2>1. t \in Covered(m)
    BY <1>3, <1>4 DEF Covered
  <2> QED
    BY <1>2, <2>1 DEF GapInv, GapsAreWarned
<1>5. CASE ~ (t <= lastId)
  <2>1. ~ IsOld(t)
    BY <1>3, <1>5 DEF IsOld, TypeOK
  <2>2. u <= t
    BY <1>1, <1>3, <1>5 DEF IsOld, TypeOK
  <2>3. trades[m] \in SUBSET Ids /\ limit \in Nat
    BY DEF TypeOK
  <2>4. t \in page
    BY <1>1, <1>3, <2>2, <2>3, NewestUpClosed
  <2> QED
    BY <2>1, <2>4 DEF Fetch
<1> QED
  BY <1>4, <1>5

LEMMA NextGapInv == TypeOK /\ HeadAhead /\ Bounds /\ GapInv /\ [Next]_vars => GapInv'
<1> SUFFICES ASSUME TypeOK, HeadAhead, Bounds, GapInv, [Next]_vars PROVE GapInv'
  OBVIOUS
<1> USE TradesAreNumbers, FeederAssumption
        DEF TypeOK, Bounds, GapInv, GapsAreWarned, Covered, Owed,
            exchangeVars, cycleVars, historyVars
<1>1. ASSUME NEW m \in Markets, NewTrade(m) PROVE GapInv'
  <2>1. /\ \A k \in Markets : trades'[k] \subseteq trades[k] \cup {newest + 1}
        /\ floor <= floor' /\ floor' \in Nat
    BY <1>1 DEF NewTrade, Issue
  <2> QED
    BY <1>1, <2>1 DEF NewTrade
<1>2. CASE ForeignTrade
  <2>1. floor <= floor' /\ floor' \in Nat
    BY <1>2 DEF ForeignTrade, Issue
  <2> QED
    BY <1>2, <2>1 DEF ForeignTrade
<1>3. CASE SecondElapses
  BY <1>3 DEF SecondElapses
<1>4. CASE Start
  BY <1>4 DEF Start, EnterFeed
<1>5. CASE BeginCycle
  BY <1>5 DEF BeginCycle, EnterFeed
<1>6. CASE SeeStop
  BY <1>6 DEF SeeStop
<1>7. CASE Stop
  BY <1>7 DEF Stop
<1>8. ASSUME NEW m \in Markets, QueryHead(m) PROVE GapInv'
  BY <1>8 DEF QueryHead
<1>9. CASE SetLimit
  BY <1>9 DEF SetLimit, MaxMissedTrades
<1>10. ASSUME NEW m \in Markets, Fetch(m) PROVE GapInv'
  <2>1. m \notin warned' => Owed(m) \subseteq db[m] \cup result'
    BY <1>10, FetchIsComplete
  <2>2. warned \subseteq warned' /\ cur' = {m} /\ todo' = todo \ {m} /\ cur = {} /\ pc = "fetch"
    BY <1>10 DEF Fetch
  <2>3. UNCHANGED <<trades, db, floor, startId, lastId, mostRecent>>
    BY <1>10 DEF Fetch
  <2>4. ASSUME NEW k \in Markets \ (todo' \cup warned')
        PROVE  Owed(k)' \subseteq db'[k] \cup (IF k \in cur' THEN result' ELSE {})
    <3>1. CASE k = m
      BY <2>1, <2>2, <2>3, <2>4, <3>1
    <3>2. CASE k # m
      BY <2>2, <2>3, <2>4, <3>2
    <3> QED
      BY <3>1, <3>2
  <2> QED
    BY <2>2, <2>3, <2>4
<1>11. CASE Store
  BY <1>11 DEF Store
<1>12. CASE EndFeed
  BY <1>12 DEF EndFeed, NewWatermark
<1>13. CASE GoDown
  BY <1>13 DEF GoDown
<1>14. CASE UNCHANGED vars
  BY <1>14 DEF vars
<1> QED
  BY <1>1, <1>2, <1>3, <1>4, <1>5, <1>6, <1>7, <1>8, <1>9, <1>10, <1>11,
     <1>12, <1>13, <1>14 DEF Next, Exchange, Cycle

\* Within one run of the program, a trade that the watermark has passed is stored
\* or its market logged "did not find all missed trades": for every number of
\* markets, trades, restarts and every page limit.
THEOREM NoUnwarnedGap == Spec => []GapsAreWarned
<1>1. Init => TypeOK /\ HeadAhead /\ Bounds /\ GapInv
  BY InitTypeOK, InitBounds, InitGapInv
<1>2. TypeOK /\ HeadAhead /\ Bounds /\ GapInv /\ [Next]_vars
         => (TypeOK /\ HeadAhead /\ Bounds /\ GapInv)'
  BY NextTypeOK, NextBounds, NextGapInv
<1>3. GapInv => GapsAreWarned
  BY DEF GapInv
<1> QED
  BY <1>1, <1>2, <1>3, PTL DEF Spec
-----------------------------------------------------------------------------
(* The watermark *)

LEMMA InitWatermarkInv == Init => WatermarkInv
BY DEF Init, WatermarkInv, WatermarkDurable, InCycle

\* The market that holds the head of the cycle yields a trade at least as new: a
\* page of one trade is enough, whatever arrived since the head was measured.
LEMMA FetchFindsHead ==
    ASSUME TypeOK, Bounds, NEW m \in Markets, Fetch(m), limit > 0,
           mostRecent \in trades[m], mostRecent > lastId, mostRecent > floor
    PROVE  \E t \in result' : t >= mostRecent
<1>1. trades[m] \in SUBSET Ids /\ trades[m] # {} /\ limit \in Nat \ {0}
  BY DEF TypeOK
<1>2. PICK t \in trades[m] : \A u \in trades[m] : u <= t
  BY <1>1, NewestExists
<1>3. t \in NewestOf(trades[m], limit)
  BY <1>1, <1>2, NewestOnPage
<1>4. t \in Nat /\ t >= mostRecent
  BY <1>2, TradesAreNumbers
<1>5. ~ IsOld(t)
  BY <1>4 DEF IsOld, TypeOK
<1> QED
  BY <1>3, <1>4, <1>5 DEF Fetch

LEMMA NextWatermarkInv ==
    TypeOK /\ HeadAhead /\ Bounds /\ WatermarkInv /\ [Next]_vars => WatermarkInv'
<1> SUFFICES ASSUME TypeOK, HeadAhead, Bounds, WatermarkInv, [Next]_vars
             PROVE  WatermarkInv'
  OBVIOUS
<1> USE TradesAreNumbers, FeederAssumption
        DEF TypeOK, Bounds, HeadAhead, InCycle, WatermarkInv, WatermarkDurable, Witnessed,
            Stored, exchangeVars, cycleVars, historyVars
<1>1. ASSUME NEW m \in Markets, NewTrade(m) PROVE WatermarkInv'
  <2>1. /\ \A k \in Markets : trades[k] \subseteq trades'[k]
        /\ floor <= floor' /\ floor' \in Nat
    BY <1>1 DEF NewTrade, Issue
  <2>2. UNCHANGED <<db, pc, lastId, mostRecent, limit, todo, cur, result>>
    BY <1>1 DEF NewTrade
  <2> QED
    BY <2>1, <2>2
<1>2. CASE ForeignTrade
  <2>1. floor <= floor' /\ floor' \in Nat
    BY <1>2 DEF ForeignTrade, Issue
  <2> QED
    BY <1>2, <2>1 DEF ForeignTrade
<1>3. CASE SecondElapses
  BY <1>3 DEF SecondElapses
<1>4. CASE Start
  <2>1. WatermarkDurable'
    <3>1. CASE Stored = {}
      BY <1>4, <3>1 DEF Start
    <3>2. CASE Stored # {}
      BY <1>4, <3>2 DEF Start
    <3> QED
      BY <3>1, <3>2
  <2>2. mostRecent' = lastId' /\ pc' = "head" /\ lastId' \in Nat
    BY <1>4 DEF Start, EnterFeed
  <2> QED
    BY <2>1, <2>2
<1>5. CASE BeginCycle
  BY <1>5 DEF BeginCycle, EnterFeed
<1>6. CASE SeeStop
  BY <1>6 DEF SeeStop
<1>7. CASE Stop
  BY <1>7 DEF Stop
<1>8. ASSUME NEW m \in Markets, QueryHead(m) PROVE WatermarkInv'
  BY <1>8 DEF QueryHead
<1>9. CASE SetLimit
  BY <1>9 DEF SetLimit, MaxMissedTrades, MinOf
<1>10. ASSUME NEW m \in Markets, Fetch(m) PROVE WatermarkInv'
  <2>1. /\ cur' = {m} /\ todo' = todo \ {m} /\ cur = {} /\ pc = "fetch" /\ pc' = "store"
        /\ UNCHANGED <<trades, db, floor, lastId, mostRecent, limit>>
    BY <1>10 DEF Fetch
  <2>2. ASSUME mostRecent > lastId, mostRecent > floor
        PROVE  \E k \in Markets : mostRecent \in trades[k] /\ Witnessed(k)'
    <3>1. PICK k \in Markets : mostRecent \in trades[k] /\ Witnessed(k)
      BY <2>1, <2>2
    <3>2. CASE k = m
      <4>1. \E t \in result' : t >= mostRecent
        BY <1>10, <2>1, <2>2, <3>1, <3>2, FetchFindsHead
      <4> QED
        BY <2>1, <3>1, <3>2, <4>1
    <3>3. CASE k # m
      BY <2>1, <3>1, <3>3
    <3> QED
      BY <3>2, <3>3
  <2> QED
    BY <2>1, <2>2
<1>11. CASE Store
  <2>1. /\ \A k \in Markets : db'[k] = db[k] \cup (IF k \in cur THEN result ELSE {})
        /\ cur' = {} /\ pc = "store" /\ pc' = "fetch"
        /\ UNCHANGED <<trades, floor, lastId, mostRecent, limit, todo>>
    BY <1>11 DEF Store
  <2>2. \A k \in Markets : Witnessed(k) => Witnessed(k)'
    BY <2>1
  <2>3. WatermarkDurable'
    BY <2>1
  <2> QED
    BY <2>1, <2>2, <2>3
<1>12. CASE EndFeed
  BY <1>12 DEF EndFeed, NewWatermark
<1>13. CASE GoDown
  <2>1. \A k \in Markets : db[k] \subseteq db'[k]
    BY <1>13 DEF GoDown
  <2> QED
    BY <1>13, <2>1 DEF GoDown
<1>14. CASE UNCHANGED vars
  BY <1>14 DEF vars
<1> QED
  BY <1>1, <1>2, <1>3, <1>4, <1>5, <1>6, <1>7, <1>8, <1>9, <1>10, <1>11,
     <1>12, <1>13, <1>14 DEF Next, Exchange, Cycle

WatermarkIInv == TypeOK /\ HeadAhead /\ Bounds /\ WatermarkInv

LEMMA WatermarkIInvCorrect == Spec => []WatermarkIInv
<1>1. Init => WatermarkIInv
  BY InitTypeOK, InitBounds, InitWatermarkInv DEF WatermarkIInv
<1>2. WatermarkIInv /\ [Next]_vars => WatermarkIInv'
  BY NextTypeOK, NextBounds, NextWatermarkInv DEF WatermarkIInv
<1> QED
  BY <1>1, <1>2, PTL DEF Spec

\* The point that lastTrade reached is always backed by a stored trade, once the
\* recording has begun.
THEOREM WatermarkBacked == Spec => []WatermarkDurable
<1>1. WatermarkIInv => WatermarkDurable
  BY DEF WatermarkIInv, WatermarkInv
<1> QED
  BY <1>1, WatermarkIInvCorrect, PTL

\* A restarted feeder resumes at or beyond the point the previous run had reached,
\* so that it never records a stretch of trades a second time.
THEOREM RestartResumesForward == Spec => ResumesForward
<1>1. WatermarkIInv /\ [Next]_vars => [Start => lastId' >= lastId \/ lastId <= floor]_vars
  <2> SUFFICES ASSUME WatermarkIInv, Start, ~ (lastId <= floor)
               PROVE  lastId' >= lastId
    OBVIOUS
  <2> USE DEF WatermarkIInv, TypeOK
  <2>1. PICK t \in Stored : t >= lastId
    BY DEF WatermarkInv, WatermarkDurable
  <2>2. lastId' \in Stored /\ t <= lastId'
    BY <2>1 DEF Start
  <2>3. t \in Nat /\ lastId' \in Nat
    BY <2>1, <2>2, TradesAreNumbers
  <2> QED
    BY <2>1, <2>2, <2>3
<1> QED
  BY <1>1, WatermarkIInvCorrect, PTL DEF Spec, ResumesForward
-----------------------------------------------------------------------------
(* Repeated feeding *)

LEMMA InitFedInv == Init => FedInv
BY DEF Init, FedInv, FedAtMostTwice

LEMMA NextFedInv == TypeOK /\ HeadAhead /\ Bounds /\ FedInv /\ [Next]_vars => FedInv'
<1> SUFFICES ASSUME TypeOK, HeadAhead, Bounds, FedInv, [Next]_vars PROVE FedInv'
  OBVIOUS
<1> USE TradesAreNumbers, IdsAreNumbers
        DEF TypeOK, Bounds, HeadAhead, InCycle, FedInv, FedAtMostTwice,
            exchangeVars, cycleVars, historyVars
<1>1. ASSUME NEW m \in Markets, NewTrade(m) PROVE FedInv'
  <2>1. /\ \A k \in Markets : trades'[k] = trades[k] \cup (IF k = m THEN {newest + 1} ELSE {})
        /\ newest' = newest + 1 /\ newest + 1 \in Ids
        /\ UNCHANGED <<pc, lastId, mostRecent, todo, cur, fed>>
    BY <1>1, FeederAssumption DEF NewTrade, Issue, Ids
  <2>2. fed[newest + 1] = 0
    BY <2>1
  <2>3. \A m1, m2 \in Markets : m1 # m2 => trades'[m1] \cap trades'[m2] = {}
    BY <2>1
  <2>4. pc = "head" => \A k \in Markets \ todo : \A t \in trades'[k] : fed[t] > 0 => t <= mostRecent
    BY <2>1, <2>2
  <2>5. pc \in {"fetch", "store"} =>
           \A k \in todo \cup cur : \A t \in trades'[k] :
              (fed[t] > 0 => t <= mostRecent) /\ (t > lastId => fed[t] <= 1)
    BY <2>1, <2>2
  <2> QED
    BY <2>1, <2>3, <2>4, <2>5
<1>2. CASE ForeignTrade
  BY <1>2 DEF ForeignTrade, Issue
<1>3. CASE SecondElapses
  BY <1>3 DEF SecondElapses
<1>4. CASE Start
  BY <1>4 DEF Start, EnterFeed
<1>5. CASE BeginCycle
  BY <1>5 DEF BeginCycle, EnterFeed
<1>6. CASE SeeStop
  BY <1>6 DEF SeeStop
<1>7. CASE Stop
  BY <1>7 DEF Stop
<1>8. ASSUME NEW m \in Markets, QueryHead(m) PROVE FedInv'
  <2>1. /\ mostRecent <= mostRecent' /\ \A t \in trades[m] : t <= mostRecent'
        /\ mostRecent' \in Nat
    BY <1>8 DEF QueryHead
  <2> QED
    BY <1>8, <2>1 DEF QueryHead
<1>9. CASE SetLimit
  BY <1>9 DEF SetLimit, MaxMissedTrades
<1>10. ASSUME NEW m \in Markets, Fetch(m) PROVE FedInv'
  BY <1>10 DEF Fetch
<1>11. CASE Store
  <2>1. PICK m \in Markets \ todo :
              /\ cur = {m} /\ result \subseteq trades[m]
              /\ \A t \in result : lastId < t
    BY <1>11 DEF Store
  <2>2. /\ \A t \in Ids : fed'[t] = IF t \in result THEN fed[t] + 1 ELSE fed[t]
        /\ cur' = {} /\ pc = "store" /\ pc' = "fetch"
        /\ UNCHANGED <<trades, newest, lastId, mostRecent, todo>>
    BY <1>11 DEF Store
  <2>3. \A t \in result : fed[t] <= 1 /\ (fed[t] > 0 => t <= mostRecent)
    BY <2>1, <2>2
  <2>4. \A k \in todo : \A t \in trades[k] : fed'[t] = fed[t]
    BY <2>1, <2>2
  <2>5. FedAtMostTwice' /\ \A t \in Ids : fed'[t] > 1 => t <= mostRecent
    BY <2>2, <2>3
  <2>6. \A t \in Ids : fed'[t] > 0 => t <= newest
    BY <2>1, <2>2
  <2> QED
    BY <2>2, <2>4, <2>5, <2>6
<1>12. CASE EndFeed
  BY <1>12 DEF EndFeed, NewWatermark
<1>13. CASE GoDown
  BY <1>13 DEF GoDown
<1>14. CASE UNCHANGED vars
  BY <1>14 DEF vars
<1> QED
  BY <1>1, <1>2, <1>3, <1>4, <1>5, <1>6, <1>7, <1>8, <1>9, <1>10, <1>11,
     <1>12, <1>13, <1>14 DEF Next, Exchange, Cycle

\* A run feeds a trade to its consumers at most twice: once by the cycle that was
\* already running when it was made and once by the next.
THEOREM NeverFedThrice == Spec => []FedAtMostTwice
<1>1. Init => TypeOK /\ HeadAhead /\ Bounds /\ FedInv
  BY InitTypeOK, InitBounds, InitFedInv
<1>2. TypeOK /\ HeadAhead /\ Bounds /\ FedInv /\ [Next]_vars
         => (TypeOK /\ HeadAhead /\ Bounds /\ FedInv)'
  BY NextTypeOK, NextBounds, NextFedInv
<1>3. FedInv => FedAtMostTwice
  BY DEF FedInv
<1> QED
  BY <1>1, <1>2, <1>3, PTL DEF Spec
=============================================================================
