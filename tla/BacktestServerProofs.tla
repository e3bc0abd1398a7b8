----------------------- MODULE BacktestServerProofs ------------------------
(***************************************************************************)
(* Proofs about BacktestServer, for any set of requests, any group size,   *)
(* batch size and failure rate.                                            *)
(***************************************************************************)
EXTENDS BacktestServer, FiniteSetTheorems, TLAPS

-----------------------------------------------------------------------------
(* The inductive invariant, for one request.                               *)

Settled == {"ok", "bad"}

\* The backtests that were shifted off the queue by earlier batches.
Past(r) == (1 .. queue[r] - 1) \ batch[r]

\* Before a request is received nothing of it exists.
Untouched(r) ==
    kind[r] = "none" => size[r] = 0 /\ pc[r] = "start"

\* The queue is a suffix of the request, the batch lies just before it, and
\* everything before the batch has settled.
Layout(r) ==
    /\ queue[r] <= size[r] + 1
    /\ batch[r] \subseteq 1 .. queue[r] - 1
    /\ \A i \in Past(r), j \in batch[r] : i < j
    /\ \A j \in Past(r) : job[r][j] \in Settled
    /\ \A j \in 1 .. MaxJobs : j >= queue[r] => job[r][j] = "waiting"
    /\ \A j \in batch[r] : job[r][j] # "waiting"
    /\ Cardinality(batch[r]) <= BatchSize
    /\ pc[r] # "await" => batch[r] = {}

\* b batches, and the awaited one, have been taken off the queue.
Progress(r) ==
    /\ pc[r] = "start" => queue[r] = 1 /\ b[r] = 0 /\ rejections[r] = 0 /\ results[r] = {}
    /\ pc[r] = "loop" => queue[r] = MinOf(b[r] * BatchSize, size[r]) + 1
    /\ pc[r] = "await" => /\ queue[r] = MinOf((b[r] + 1) * BatchSize, size[r]) + 1
                          /\ b[r] < BatchCount(r)
    /\ pc[r] = "loop" => b[r] <= BatchCount(r)

\* The counters are about the batches that have ended.
Accounts(r) ==
    pc[r] \in {"start", "loop", "await"} =>
        /\ answer[r] = "none"
        /\ results[r] = {j \in Past(r) : job[r][j] = "ok"}
        /\ rejections[r] = Cardinality({j \in Past(r) : job[r][j] = "bad"})
        /\ rejections[r] <= Tolerated(kind[r], size[r])

Answered(r) ==
    answer[r] = "ok" =>
        /\ pc[r] = "done" /\ queue[r] = size[r] + 1 /\ batch[r] = {}
        /\ results[r] = {j \in 1 .. size[r] : job[r][j] = "ok"}
        /\ Cardinality({j \in 1 .. size[r] : job[r][j] = "bad"}) <= Tolerated(kind[r], size[r])

RInv(r) == Untouched(r) /\ Layout(r) /\ Progress(r) /\ Accounts(r) /\ Answered(r)

IInv == TypeOK /\ \A r \in Requests : RInv(r)

-----------------------------------------------------------------------------
(* Arithmetic *)

LEMMA DivFacts ==
    ASSUME NEW a \in Nat, NEW y \in Nat \ {0}
    PROVE  a \div y \in Nat /\ y * (a \div y) <= a /\ a < y * (a \div y) + y
  OBVIOUS

LEMMA TimesGrows ==
    ASSUME NEW q \in Nat, NEW y \in Nat \ {0} PROVE y * q >= q
  OBVIOUS

\* CeilDiv rounds up, and not beyond its argument.
LEMMA CeilDivRange ==
    ASSUME NEW x \in Nat, NEW y \in Nat \ {0}
    PROVE  CeilDiv(x, y) \in Nat /\ CeilDiv(x, y) <= x /\ CeilDiv(x, y) * y >= x
<1> DEFINE q == (x + y - 1) \div y
<1>1. x + y - 1 \in Nat OBVIOUS
<1>2. q \in Nat /\ y * q <= x + y - 1 /\ x + y - 1 < y * q + y
      BY <1>1, DivFacts
<1>3. q * y = y * q BY <1>2
<1>4. q <= x
  <2>1. SUFFICES ASSUME q >= x + 1 PROVE FALSE BY <1>2
  <2>2. y * q >= y * (x + 1) BY <1>2, <2>1
  <2>3. y * (x + 1) = y * x + y OBVIOUS
  <2>4. y * x >= x BY TimesGrows
  <2> QED BY <1>2, <2>2, <2>3, <2>4
<1> HIDE DEF q
<1>5. CeilDiv(x, y) = q BY DEF CeilDiv, q
<1> QED BY <1>2, <1>3, <1>4, <1>5

LEMMA BatchesSuffice ==
    ASSUME NEW n \in 0 .. MaxJobs
    PROVE  /\ CeilDiv(n, BatchSize) \in 0 .. MaxJobs
           /\ CeilDiv(n, BatchSize) * BatchSize >= n
<1>1. BatchSize \in Nat \ {0} /\ MaxJobs \in Nat BY ServerAssumption
<1> QED BY <1>1, CeilDivRange

LEMMA ToleratedNat ==
    ASSUME NEW k, NEW n \in Nat PROVE Tolerated(k, n) \in Nat
<1>1. RatePct \in Nat BY ServerAssumption
<1>2. n * RatePct \in Nat BY <1>1
<1>3. CeilDiv(n * RatePct, 100) \in Nat BY <1>2, CeilDivRange
<1> QED BY <1>3 DEF Tolerated

\* Any set of a request's indices is finite and no larger than MaxJobs.
LEMMA IndexSet ==
    ASSUME NEW S \in SUBSET (1 .. MaxJobs)
    PROVE  IsFiniteSet(S) /\ Cardinality(S) \in 0 .. MaxJobs
<1>1. IsFiniteSet(1 .. MaxJobs) /\ Cardinality(1 .. MaxJobs) = MaxJobs
      BY FS_Interval, ServerAssumption
<1>2. IsFiniteSet(S) /\ Cardinality(S) <= MaxJobs BY <1>1, FS_Subset
<1> QED BY <1>2, FS_CardinalityType, ServerAssumption

\* What StartBatch shifts off the queue is an interval of at most BatchSize.
LEMMA ShiftedInterval ==
    ASSUME NEW q \in Nat \ {0}, NEW n \in Nat, q <= n + 1,
           NEW last, last = MinOf(q + BatchSize, n + 1) - 1
    PROVE  /\ last \in Int /\ q <= last + 1 /\ last <= n /\ last < q + BatchSize
           /\ {j \in q .. n : j < q + BatchSize} = q .. last
<1>0. BatchSize \in Nat \ {0} BY ServerAssumption
<1> QED BY <1>0 DEF MinOf

LEMMA IntervalSize ==
    ASSUME NEW q \in Nat, NEW last \in Int, q <= last + 1
    PROVE  Cardinality(q .. last) = last + 1 - q
<1>1. Cardinality(q .. last) = IF q > last THEN 0 ELSE last - q + 1
      BY FS_Interval
<1> QED BY <1>1

-----------------------------------------------------------------------------
(* Preservation *)

\* What a step leaves alone for a request keeps that request's invariant.
LEMMA Frame ==
    ASSUME NEW r \in Requests, RInv(r),
           kind'[r] = kind[r], size'[r] = size[r], pc'[r] = pc[r],
           queue'[r] = queue[r], batch'[r] = batch[r], b'[r] = b[r],
           rejections'[r] = rejections[r], job'[r] = job[r],
           results'[r] = results[r], answer'[r] = answer[r]
    PROVE  RInv(r)'
<1>1. Past(r)' = Past(r) BY DEF Past
<1>2. Untouched(r)' BY DEF RInv, Untouched
<1>3. Layout(r)' BY <1>1 DEF RInv, Layout
<1>4. Progress(r)' BY DEF RInv, Progress, BatchCount
<1>5. Accounts(r)' BY <1>1 DEF RInv, Accounts
<1>6. Answered(r)' BY DEF RInv, Answered
<1> QED BY <1>2, <1>3, <1>4, <1>5, <1>6 DEF RInv

LEMMA InitIInv == Init => IInv
<1> SUFFICES ASSUME Init PROVE IInv OBVIOUS
<1> USE ServerAssumption
<1>1. TypeOK
  <2>1. listening \in BOOLEAN BY DEF Init
  <2>2. job \in [Requests -> [1 .. MaxJobs -> {"waiting", "init", "test", "ok", "bad"}]]
        BY DEF Init
  <2>3. /\ size \in [Requests -> 0 .. MaxJobs] /\ queue \in [Requests -> 1 .. MaxJobs + 1]
        /\ b \in [Requests -> 0 .. MaxJobs] /\ rejections \in [Requests -> 0 .. MaxJobs]
        BY DEF Init
  <2>4. batch \in [Requests -> SUBSET (1 .. MaxJobs)] /\ results \in [Requests -> SUBSET (1 .. MaxJobs)]
        BY DEF Init
  <2> QED BY <2>1, <2>2, <2>3, <2>4 DEF Init, TypeOK
<1>2. ASSUME NEW r \in Requests PROVE RInv(r)
  <2>1. /\ kind[r] = "none" /\ size[r] = 0 /\ pc[r] = "start" /\ queue[r] = 1
        /\ batch[r] = {} /\ b[r] = 0 /\ rejections[r] = 0 /\ results[r] = {}
        /\ answer[r] = "none" /\ \A j \in 1 .. MaxJobs : job[r][j] = "waiting"
        BY DEF Init
  <2>2. Past(r) = {} BY <2>1 DEF Past
  <2>3. Untouched(r) BY <2>1 DEF Untouched
  <2>4. Cardinality({}) = 0 BY FS_EmptySet
  <2>5. Layout(r) BY <2>1, <2>2, <2>4 DEF Layout
  <2>6. Progress(r) BY <2>1 DEF Progress
  <2>7. {j \in {} : job[r][j] = "ok"} = {} /\ {j \in {} : job[r][j] = "bad"} = {} OBVIOUS
  <2>8. 0 <= Tolerated(kind[r], size[r]) BY <2>1, ToleratedNat
  <2>9. Accounts(r) BY <2>1, <2>2, <2>4, <2>7, <2>8 DEF Accounts
  <2>10. Answered(r) BY <2>1 DEF Answered
  <2> QED BY <2>3, <2>5, <2>6, <2>9, <2>10 DEF RInv
<1> QED BY <1>1, <1>2 DEF IInv

LEMMA StartUpStep == IInv /\ (StartUp \/ UNCHANGED vars) => IInv'
<1> SUFFICES ASSUME IInv, StartUp \/ UNCHANGED vars PROVE IInv' OBVIOUS
<1>1. UNCHANGED requestVars
      BY DEF StartUp, CreateApp, ConfigLoaded, Listen, vars, requestVars
<1>2. TypeOK'
      BY <1>1 DEF IInv, TypeOK, StartUp, CreateApp, ConfigLoaded, Listen, vars, requestVars
<1>3. ASSUME NEW r \in Requests PROVE RInv(r)'
      BY <1>1, Frame DEF IInv, requestVars
<1> QED BY <1>2, <1>3 DEF IInv

LEMMA ReceiveStep ==
    ASSUME IInv, NEW r \in Requests, NEW k \in {"single", "group"}, NEW n \in 0 .. MaxJobs,
           Receive(r, k, n)
    PROVE  IInv'
<1> USE ServerAssumption
<1>1. TypeOK' BY DEF IInv, TypeOK, Receive
<1>2. ASSUME NEW q \in Requests, q # r PROVE RInv(q)'
      BY <1>2, Frame DEF IInv, TypeOK, Receive
<1>3. RInv(r)'
  <2>1. /\ kind[r] = "none" /\ kind'[r] = k /\ size'[r] = n
        /\ pc[r] = "start" /\ pc'[r] \in {"loop", "done"} /\ answer'[r] \in {"none", "failed"}
        /\ pc'[r] = "loop" => answer'[r] = "none"
        /\ queue'[r] = 1 /\ batch'[r] = {} /\ b'[r] = 0 /\ rejections'[r] = 0
        /\ results'[r] = {} /\ \A j \in 1 .. MaxJobs : job'[r][j] = "waiting"
    <3>1. kind[r] = "none" /\ pc[r] = "start" BY DEF IInv, RInv, Untouched, Receive
    <3>2. queue[r] = 1 /\ b[r] = 0 /\ rejections[r] = 0 /\ results[r] = {}
          BY <3>1 DEF IInv, RInv, Progress
    <3>3. batch[r] = {} /\ \A j \in 1 .. MaxJobs : job[r][j] = "waiting"
          BY <3>1, <3>2 DEF IInv, RInv, Layout
    <3>4. answer[r] = "none" BY <3>1 DEF IInv, RInv, Accounts
    <3> QED BY <3>1, <3>2, <3>3, <3>4 DEF Receive, IInv, TypeOK
  <2>2. Past(r)' = {} BY <2>1 DEF Past
  <2>3. Untouched(r)' BY <2>1 DEF Untouched
  <2>4. Cardinality({}) = 0 BY FS_EmptySet
  <2>5. Layout(r)' BY <2>1, <2>2, <2>4 DEF Layout
  <2>6. BatchCount(r)' \in Nat BY <2>1, BatchesSuffice DEF BatchCount
  <2>7. Progress(r)' BY <2>1, <2>6 DEF Progress, MinOf
  <2>8. {j \in {} : job'[r][j] = "ok"} = {} /\ {j \in {} : job'[r][j] = "bad"} = {} OBVIOUS
  <2>9. (Tolerated(kind[r], size[r]))' \in Nat BY <2>1, ToleratedNat
  <2>10. Accounts(r)' BY <2>1, <2>2, <2>4, <2>8, <2>9 DEF Accounts
  <2>11. Answered(r)' BY <2>1 DEF Answered
  <2> QED BY <2>3, <2>5, <2>7, <2>10, <2>11 DEF RInv
<1> QED BY <1>1, <1>2, <1>3 DEF IInv

LEMMA StartBatchStep == ASSUME IInv, NEW r \in Requests, StartBatch(r) PROVE IInv'
<1> USE ServerAssumption
<1> DEFINE last == MinOf(queue[r] + BatchSize, size[r] + 1) - 1
           shifted == queue[r] .. last
<1>1. /\ queue[r] \in 1 .. MaxJobs + 1 /\ size[r] \in 0 .. MaxJobs /\ b[r] \in 0 .. MaxJobs
      /\ batch[r] = {} /\ pc[r] = "loop" /\ queue[r] <= size[r] + 1
      /\ kind[r] # "none"
      BY DEF IInv, RInv, Untouched, Layout, TypeOK, StartBatch
<1>last. last = MinOf(queue[r] + BatchSize, size[r] + 1) - 1 OBVIOUS
<1>nat. queue[r] \in Nat \ {0} /\ size[r] \in Nat BY <1>1
<1> HIDE DEF last
<1>2. /\ last \in Int /\ queue[r] <= last + 1 /\ last <= size[r]
      /\ last < queue[r] + BatchSize
      /\ {j \in queue[r] .. size[r] : j < queue[r] + BatchSize} = shifted
      BY <1>1, <1>nat, <1>last, ShiftedInterval
<1>card. Cardinality(shifted) = last + 1 - queue[r]
      BY <1>2, <1>nat, IntervalSize
<1>3. shifted \subseteq 1 .. MaxJobs
      BY <1>1, <1>2
<1>4. /\ queue' = [queue EXCEPT ![r] = last + 1]
      /\ batch' = [batch EXCEPT ![r] = shifted]
      /\ pc' = [pc EXCEPT ![r] = "await"]
      /\ UNCHANGED <<listening, provider, kind, size, b, rejections, results, answer>>
  <2>1. queue' = [queue EXCEPT ![r] = queue[r] + Cardinality(shifted)]
        BY <1>2 DEF StartBatch, NextBatch
  <2>2. queue[r] + Cardinality(shifted) = last + 1
        BY <1>1, <1>2, <1>card
  <2> QED BY <1>2, <2>1, <2>2 DEF StartBatch, NextBatch
<1>5. job' = [job EXCEPT ![r] =
                 [j \in 1 .. MaxJobs |-> IF j \in shifted THEN "init" ELSE job[r][j]]]
      BY <1>2 DEF StartBatch, NextBatch
<1>6. TypeOK'
  <2>2. queue' \in [Requests -> 1 .. MaxJobs + 1]
        BY <1>1, <1>2, <1>3, <1>4 DEF IInv, TypeOK
  <2>3. batch' \in [Requests -> SUBSET (1 .. MaxJobs)]
        BY <1>3, <1>4 DEF IInv, TypeOK
  <2>4. job' \in [Requests -> [1 .. MaxJobs -> {"waiting", "init", "test", "ok", "bad"}]]
        BY <1>5 DEF IInv, TypeOK
  <2> QED BY <2>2, <2>3, <2>4, <1>4 DEF IInv, TypeOK
<1>7. ASSUME NEW q \in Requests, q # r PROVE RInv(q)'
      BY <1>4, <1>5, <1>7, Frame DEF IInv, TypeOK
<1>8. RInv(r)'
  <2>1. /\ queue'[r] = last + 1 /\ batch'[r] = shifted
        /\ pc'[r] = "await" /\ kind'[r] = kind[r] /\ size'[r] = size[r] /\ b'[r] = b[r]
        /\ rejections'[r] = rejections[r] /\ results'[r] = results[r] /\ answer'[r] = answer[r]
        BY <1>4 DEF IInv, TypeOK
  <2>2. \A j \in 1 .. MaxJobs : job'[r][j] = IF j \in shifted THEN "init" ELSE job[r][j]
        BY <1>5 DEF IInv, TypeOK
  <2>3. Past(r) = 1 .. queue[r] - 1 /\ Past(r)' = Past(r)
        BY <1>1, <1>2, <2>1 DEF Past
  <2>4. Untouched(r)' BY <1>1, <2>1 DEF Untouched
  <2>5. \A j \in Past(r) : j \in 1 .. MaxJobs /\ j \notin shifted /\ job'[r][j] = job[r][j]
        BY <1>1, <1>2, <2>2, <2>3
  <2>6. Layout(r)'
    <3>1. queue'[r] <= size'[r] + 1 BY <1>1, <1>2, <2>1
    <3>2. batch'[r] \subseteq 1 .. queue'[r] - 1 BY <1>1, <1>2, <2>1
    <3>3. \A i \in Past(r)', j \in batch'[r] : i < j BY <1>1, <1>2, <2>1, <2>3
    <3>4. \A j \in Past(r)' : job'[r][j] \in Settled
          BY <2>3, <2>5 DEF IInv, RInv, Layout
    <3>5. \A j \in 1 .. MaxJobs : j >= queue'[r] => job'[r][j] = "waiting"
      <4>1. \A j \in 1 .. MaxJobs : j >= queue[r] => job[r][j] = "waiting"
            BY DEF IInv, RInv, Layout
      <4> QED BY <1>1, <1>2, <2>1, <2>2, <4>1
    <3>6. \A j \in batch'[r] : job'[r][j] # "waiting"
          BY <1>3, <2>1, <2>2
    <3> QED BY <3>1, <3>2, <3>3, <3>4, <3>5, <3>6, <1>1, <1>2, <1>card, <2>1, ServerAssumption DEF Layout
  <2>7. Progress(r)'
    <3>1. queue[r] = MinOf(b[r] * BatchSize, size[r]) + 1 /\ b[r] < BatchCount(r)
          BY <1>1 DEF IInv, RInv, Progress, StartBatch
    <3>2. (b[r] + 1) * BatchSize = b[r] * BatchSize + BatchSize
          BY <1>1
    <3>3. b[r] * BatchSize \in Nat BY <1>1
    <3>4. MinOf(queue[r] + BatchSize, size[r] + 1) = MinOf((b[r] + 1) * BatchSize, size[r]) + 1
          BY <3>1, <3>2, <3>3, <1>1 DEF MinOf
    <3>5. last + 1 = MinOf(queue[r] + BatchSize, size[r] + 1) BY <1>last, <1>nat DEF MinOf
    <3>6. queue'[r] = MinOf((b'[r] + 1) * BatchSize, size'[r]) + 1 BY <2>1, <3>4, <3>5
    <3> QED BY <3>1, <3>6, <2>1 DEF Progress, BatchCount
  <2>8. Accounts(r)'
    <3>1. {j \in Past(r)' : job'[r][j] = "ok"} = {j \in Past(r) : job[r][j] = "ok"}
          BY <2>3, <2>5
    <3>2. {j \in Past(r)' : job'[r][j] = "bad"} = {j \in Past(r) : job[r][j] = "bad"}
          BY <2>3, <2>5
    <3>3. Accounts(r) BY DEF IInv, RInv
    <3> QED BY <1>1, <2>1, <3>1, <3>2, <3>3 DEF Accounts
  <2>9. Answered(r)'
    <3>1. answer[r] = "none" BY <1>1 DEF IInv, RInv, Accounts
    <3> QED BY <3>1, <2>1 DEF Answered
  <2> QED BY <2>4, <2>6, <2>7, <2>8, <2>9 DEF RInv
<1> QED BY <1>6, <1>7, <1>8 DEF IInv

\* A backtest that runs belongs to its request's batch, and its request waits
\* for that batch.
LEMMA RunningInBatch ==
    ASSUME IInv, NEW r \in Requests, NEW j \in 1 .. MaxJobs, job[r][j] \in {"init", "test"}
    PROVE  j \in batch[r] /\ j \notin Past(r) /\ j < queue[r] /\ pc[r] = "await"
<1>1. queue[r] \in Nat BY ServerAssumption DEF IInv, TypeOK
<1>2. Layout(r) BY DEF IInv, RInv
<1>3. j < queue[r] /\ j \notin Past(r) BY <1>1, <1>2 DEF Layout, Settled
<1>4. j \in batch[r] BY <1>1, <1>3 DEF Past
<1> QED BY <1>2, <1>3, <1>4 DEF Layout

LEMMA BacktestStep ==
    ASSUME IInv, NEW r \in Requests, NEW j \in 1 .. MaxJobs, Backtest(r, j)
    PROVE  IInv'
<1> USE ServerAssumption
<1>1. PICK s \in {"test", "ok", "bad"} :
         /\ job[r][j] \in {"init", "test"}
         /\ job' = [job EXCEPT ![r][j] = s]
         /\ UNCHANGED <<listening, provider, kind, size, pc, queue, batch, b,
                        rejections, results, answer>>
      BY DEF Backtest, Init_Settles, Test_Settles
<1>2. TypeOK'
  <2>1. job' \in [Requests -> [1 .. MaxJobs -> {"waiting", "init", "test", "ok", "bad"}]]
        BY <1>1 DEF IInv, TypeOK
  <2> QED BY <2>1, <1>1 DEF IInv, TypeOK
<1>3. ASSUME NEW q \in Requests, q # r PROVE RInv(q)'
      BY <1>1, <1>3, Frame DEF IInv, TypeOK
<1>4. RInv(r)'
  <2>1. j \in batch[r] /\ j \notin Past(r) /\ j < queue[r] /\ pc[r] = "await"
        BY <1>1, RunningInBatch
  <2>2. \A i \in 1 .. MaxJobs : job'[r][i] = IF i = j THEN s ELSE job[r][i]
        BY <1>1 DEF IInv, TypeOK
  <2>3. Past(r)' = Past(r) /\ Past(r) \subseteq 1 .. MaxJobs
    <3>1. queue[r] \in 1 .. MaxJobs + 1 BY DEF IInv, TypeOK
    <3> QED BY <1>1, <3>1 DEF Past
  <2>4. Untouched(r)' BY <1>1 DEF IInv, RInv, Untouched
  <2>5. Layout(r)'
    <3>1. Layout(r) BY DEF IInv, RInv
    <3>2. batch[r] \subseteq 1 .. MaxJobs /\ queue[r] \in Nat BY DEF IInv, TypeOK
    <3>3. \A i \in Past(r)' : job'[r][i] \in Settled BY <2>1, <2>2, <2>3, <3>1 DEF Layout
    <3>4. \A i \in 1 .. MaxJobs : i >= queue[r] => job'[r][i] = "waiting"
          BY <2>1, <2>2, <3>1, <3>2 DEF Layout
    <3>5. \A i \in batch[r] : job'[r][i] # "waiting" BY <2>2, <3>1, <3>2 DEF Layout
    <3> QED BY <1>1, <2>3, <3>1, <3>3, <3>4, <3>5 DEF Layout
  <2>6. Progress(r)' BY <1>1 DEF IInv, RInv, Progress, BatchCount
  <2>7. Accounts(r)'
    <3>1. /\ {i \in Past(r)' : job'[r][i] = "ok"} = {i \in Past(r) : job[r][i] = "ok"}
          /\ {i \in Past(r)' : job'[r][i] = "bad"} = {i \in Past(r) : job[r][i] = "bad"}
          BY <2>1, <2>2, <2>3
    <3> QED BY <1>1, <3>1 DEF IInv, RInv, Accounts
  <2>8. Answered(r)' BY <1>1, <2>1 DEF IInv, RInv, Answered
  <2> QED BY <2>4, <2>5, <2>6, <2>7, <2>8 DEF RInv
<1> QED BY <1>2, <1>3, <1>4 DEF IInv

\* The backtests of a past or awaited batch that failed, counted together.
LEMMA BadOnesAdd ==
    ASSUME IInv, NEW r \in Requests
    PROVE  LET before == {j \in Past(r) : job[r][j] = "bad"}
               now == {j \in batch[r] : job[r][j] = "bad"}
           IN  /\ Cardinality(before \cup now) = Cardinality(before) + Cardinality(now)
               /\ Cardinality(before \cup now) \in 0 .. MaxJobs
               /\ Cardinality(now) \in Nat
<1> DEFINE before == {j \in Past(r) : job[r][j] = "bad"}
           now == {j \in batch[r] : job[r][j] = "bad"}
<1>1. queue[r] \in 1 .. MaxJobs + 1 /\ batch[r] \subseteq 1 .. MaxJobs
      BY DEF IInv, TypeOK
<1>2. before \subseteq 1 .. MaxJobs /\ now \subseteq 1 .. MaxJobs /\ before \cap now = {}
      BY <1>1, ServerAssumption DEF Past
<1> HIDE DEF before, now
<1>3. /\ IsFiniteSet(before) /\ Cardinality(before) \in 0 .. MaxJobs
      /\ IsFiniteSet(now) /\ Cardinality(now) \in 0 .. MaxJobs
      /\ Cardinality(before \cup now) \in 0 .. MaxJobs
      BY <1>2, IndexSet
<1>4. Cardinality(before \cup now)
         = Cardinality(before) + Cardinality(now) - Cardinality(before \cap now)
      BY <1>3, FS_Union
<1>5. Cardinality(before \cap now) = 0 BY <1>2, FS_EmptySet
<1>6. Cardinality(before \cup now) = Cardinality(before) + Cardinality(now)
      BY <1>3, <1>4, <1>5
<1> QED BY <1>3, <1>6, ServerAssumption DEF before, now

LEMMA EndBatchStep == ASSUME IInv, NEW r \in Requests, EndBatch(r) PROVE IInv'
<1> USE ServerAssumption
<1> DEFINE before == {j \in Past(r) : job[r][j] = "bad"}
           now == {j \in batch[r] : job[r][j] = "bad"}
           ct == rejections[r] + Cardinality(now)
<1>1. /\ pc[r] = "await" /\ answer[r] = "none" /\ rejections[r] = Cardinality(before)
      /\ results[r] = {j \in Past(r) : job[r][j] = "ok"}
      /\ queue[r] \in 1 .. MaxJobs + 1 /\ batch[r] \subseteq 1 .. queue[r] - 1
      /\ b[r] \in 0 .. MaxJobs /\ b[r] < BatchCount(r)
      /\ kind[r] # "none"
      /\ \A j \in batch[r] : job[r][j] \in Settled
      BY DEF EndBatch, BatchSettled, IInv, RInv, Layout, Progress, Accounts, Untouched, TypeOK, Settled
<1>2. Cardinality(before \cup now) = ct /\ Cardinality(before \cup now) \in 0 .. MaxJobs
      BY <1>1, BadOnesAdd
<1>3. BatchCount(r) \in 0 .. MaxJobs BY BatchesSuffice DEF IInv, TypeOK, BatchCount
<1>4. /\ rejections' = [rejections EXCEPT ![r] = ct]
      /\ batch' = [batch EXCEPT ![r] = {}]
      /\ UNCHANGED <<listening, provider, kind, size, queue, job>>
      BY DEF EndBatch, BatchSettled, RejectionsNow
<1>5. \/ /\ ct > Tolerated(kind[r], size[r])
         /\ pc' = [pc EXCEPT ![r] = "done"]
         /\ answer' = [answer EXCEPT ![r] = "failed"]
         /\ UNCHANGED <<results, b>>
      \/ /\ ~(ct > Tolerated(kind[r], size[r]))
         /\ pc' = [pc EXCEPT ![r] = "loop"]
         /\ results' = [results EXCEPT ![r] = results[r] \cup {j \in batch[r] : job[r][j] = "ok"}]
         /\ b' = [b EXCEPT ![r] = b[r] + 1]
         /\ UNCHANGED answer
      BY DEF EndBatch, BatchSettled, RejectionsNow
<1> HIDE DEF ct
<1>6. TypeOK'
  <2>1. rejections' \in [Requests -> 0 .. MaxJobs] BY <1>2, <1>4 DEF IInv, TypeOK
  <2>2. batch' \in [Requests -> SUBSET (1 .. MaxJobs)] BY <1>4 DEF IInv, TypeOK
  <2>3. b' \in [Requests -> 0 .. MaxJobs]
    <3>1. b' = b \/ b' = [b EXCEPT ![r] = b[r] + 1] BY <1>5
    <3>2. b[r] + 1 \in 0 .. MaxJobs BY <1>1, <1>3
    <3> QED BY <3>1, <3>2 DEF IInv, TypeOK
  <2>4. results' \in [Requests -> SUBSET (1 .. MaxJobs)]
    <3>1. \/ results' = results
          \/ results' = [results EXCEPT ![r] = results[r] \cup {j \in batch[r] : job[r][j] = "ok"}]
          BY <1>5
    <3>2. results[r] \cup {j \in batch[r] : job[r][j] = "ok"} \subseteq 1 .. MaxJobs
          BY DEF IInv, TypeOK
    <3> QED BY <3>1, <3>2 DEF IInv, TypeOK
  <2>5. /\ pc' \in [Requests -> {"start", "loop", "await", "done"}]
        /\ answer' \in [Requests -> {"none", "ok", "failed"}]
        BY <1>5 DEF IInv, TypeOK
  <2> QED BY <2>1, <2>2, <2>3, <2>4, <2>5, <1>4 DEF IInv, TypeOK
<1>7. ASSUME NEW q \in Requests, q # r PROVE RInv(q)'
      BY <1>4, <1>5, <1>7, Frame DEF IInv, TypeOK
<1>8. RInv(r)'
  <2>1. /\ rejections'[r] = ct /\ batch'[r] = {} /\ kind'[r] = kind[r]
        /\ size'[r] = size[r] /\ queue'[r] = queue[r] /\ job' = job
        BY <1>4 DEF IInv, TypeOK
  <2>2. \/ pc'[r] = "done" /\ answer'[r] = "failed"
        \/ /\ ~(ct > Tolerated(kind[r], size[r]))
           /\ pc'[r] = "loop" /\ answer'[r] = "none" /\ b'[r] = b[r] + 1
           /\ results'[r] = results[r] \cup {j \in batch[r] : job[r][j] = "ok"}
        BY <1>1, <1>5 DEF IInv, TypeOK
  <2>3. Past(r)' = Past(r) \cup batch[r] BY <1>1, <2>1 DEF Past
  <2>4. Untouched(r)' BY <1>1, <2>1 DEF Untouched
  <2>5. Layout(r)'
    <3>1. \A j \in Past(r)' : job'[r][j] \in Settled
          BY <1>1, <2>1, <2>3 DEF IInv, RInv, Layout
    <3>2. Cardinality({}) <= BatchSize BY FS_EmptySet
    <3> QED BY <2>1, <3>1, <3>2 DEF IInv, RInv, Layout
  <2>6. Progress(r)'
    <3>1. queue[r] = MinOf((b[r] + 1) * BatchSize, size[r]) + 1
          BY <1>1 DEF IInv, RInv, Progress
    <3>2. pc'[r] = "loop" => b'[r] = b[r] + 1 BY <2>2
    <3>3. pc'[r] = "loop" => queue'[r] = MinOf(b'[r] * BatchSize, size'[r]) + 1
          BY <2>1, <3>1, <3>2
    <3>4. pc'[r] = "loop" => b'[r] <= BatchCount(r)'
          BY <1>1, <1>3, <2>1, <3>2 DEF BatchCount
    <3> QED BY <2>2, <3>3, <3>4 DEF Progress
  <2>7. Accounts(r)'
    <3>1. /\ {j \in Past(r)' : job'[r][j] = "ok"}
               = {j \in Past(r) : job[r][j] = "ok"} \cup {j \in batch[r] : job[r][j] = "ok"}
          /\ {j \in Past(r)' : job'[r][j] = "bad"} = before \cup now
          BY <2>1, <2>3
    <3>2. Tolerated(kind[r], size[r]) \in Nat BY ToleratedNat DEF IInv, TypeOK
    <3>3. ct \in Nat BY <1>2
    <3>4. pc'[r] = "loop" => results'[r] = {j \in Past(r)' : job'[r][j] = "ok"}
          BY <1>1, <2>2, <3>1
    <3>5. rejections'[r] = Cardinality({j \in Past(r)' : job'[r][j] = "bad"})
          BY <1>2, <2>1, <3>1
    <3>6. pc'[r] = "loop" => rejections'[r] <= Tolerated(kind'[r], size'[r])
          BY <2>1, <2>2, <3>2, <3>3
    <3> QED BY <2>2, <3>4, <3>5, <3>6 DEF Accounts
  <2>8. Answered(r)' BY <2>2 DEF Answered
  <2> QED BY <2>4, <2>5, <2>6, <2>7, <2>8 DEF RInv
<1> QED BY <1>6, <1>7, <1>8 DEF IInv

\* When the loop of run() ends, the queue is empty and everything has settled.
LEMMA LoopOver ==
    ASSUME IInv, NEW r \in Requests, Answer(r)
    PROVE  queue[r] = size[r] + 1 /\ Past(r) = 1 .. size[r]
<1>1. /\ queue[r] = MinOf(b[r] * BatchSize, size[r]) + 1 /\ batch[r] = {}
      BY DEF Answer, IInv, RInv, Progress, Layout
<1>2. b[r] * BatchSize >= size[r]
      BY BatchesSuffice DEF Answer, IInv, TypeOK, BatchCount
<1>3. size[r] \in Nat /\ b[r] * BatchSize \in Nat
      BY ServerAssumption DEF IInv, TypeOK
<1>4. queue[r] = size[r] + 1 BY <1>1, <1>2, <1>3 DEF MinOf
<1> QED BY <1>1, <1>3, <1>4 DEF Past

LEMMA AnswerStep == ASSUME IInv, NEW r \in Requests, Answer(r) PROVE IInv'
<1>1. /\ pc' = [pc EXCEPT ![r] = "done"]
      /\ \E a \in {"ok", "failed"} : answer' = [answer EXCEPT ![r] = a]
      /\ UNCHANGED <<listening, provider, kind, size, queue, batch, b, rejections,
                     job, results>>
      BY DEF Answer
<1>2. TypeOK' BY <1>1 DEF IInv, TypeOK
<1>3. ASSUME NEW q \in Requests, q # r PROVE RInv(q)'
      BY <1>1, <1>3, Frame DEF IInv, TypeOK
<1>4. RInv(r)'
  <2>1. pc[r] = "loop" /\ pc'[r] = "done" BY <1>1 DEF Answer, IInv, TypeOK
  <2>2. Past(r)' = Past(r) BY <1>1 DEF Past
  <2>3. Untouched(r)' BY <1>1, <2>1 DEF IInv, RInv, Untouched
  <2>4. Layout(r)' BY <1>1, <2>1, <2>2 DEF IInv, RInv, Layout
  <2>5. Progress(r)' BY <2>1 DEF Progress
  <2>6. Accounts(r)' BY <2>1 DEF Accounts
  <2>7. Answered(r)'
    <3>1. batch[r] = {} BY <2>1 DEF IInv, RInv, Layout
    <3>2. Accounts(r) BY DEF IInv, RInv
    <3>3. /\ results[r] = {j \in 1 .. size[r] : job[r][j] = "ok"}
          /\ rejections[r] = Cardinality({j \in 1 .. size[r] : job[r][j] = "bad"})
          /\ rejections[r] <= Tolerated(kind[r], size[r])
          BY <2>1, <3>2, LoopOver DEF Accounts
    <3>4. queue[r] = size[r] + 1 BY LoopOver
    <3> QED BY <1>1, <2>1, <3>1, <3>3, <3>4 DEF Answered
  <2> QED BY <2>3, <2>4, <2>5, <2>6, <2>7 DEF RInv
<1> QED BY <1>2, <1>3, <1>4 DEF IInv

LEMMA StepIInv == IInv /\ [Next]_vars => IInv'
<1> SUFFICES ASSUME IInv, [Next]_vars PROVE IInv' OBVIOUS
<1>1. CASE StartUp \/ UNCHANGED vars BY <1>1, StartUpStep
<1>2. CASE \E r \in Requests : Arrival(r) BY <1>2, ReceiveStep DEF Arrival
<1>3. CASE \E r \in Requests : StartBatch(r) BY <1>3, StartBatchStep
<1>4. CASE \E r \in Requests : EndBatch(r) BY <1>4, EndBatchStep
<1>5. CASE \E r \in Requests : Answer(r) BY <1>5, AnswerStep
<1>6. CASE \E r \in Requests, j \in 1 .. MaxJobs : Backtest(r, j) BY <1>6, BacktestStep
<1> QED BY <1>1, <1>2, <1>3, <1>4, <1>5, <1>6 DEF Next, Limiter

LEMMA IInvHolds == Spec => []IInv
BY InitIInv, StepIInv, PTL DEF Spec

-----------------------------------------------------------------------------
(* Theorems *)

\* Type correctness: among others, the queue never runs past the segments and the
\* loop counter of run() stays within the number of batches.
THEOREM TypeCorrect == Spec => []TypeOK
<1>1. IInv => TypeOK BY DEF IInv
<1> QED BY <1>1, IInvHolds, PTL

\* An "ok" of doGroupBacktest or doSingleBacktest accounts for every backtest of
\* the request, whatever the order in which they settled.
THEOREM AnswersAreSound == Spec => []AnswerSound
<1>1. ASSUME IInv PROVE AnswerSound
  <2> SUFFICES ASSUME NEW r \in Requests, answer[r] = "ok"
               PROVE  /\ JobsIn(r, {"waiting", "init", "test"}) = {}
                      /\ results[r] = JobsIn(r, {"ok"})
                      /\ Cardinality(JobsIn(r, {"bad"})) <= Tolerated(kind[r], size[r])
      BY DEF AnswerSound
  <2>1. Answered(r) /\ Layout(r) /\ size[r] \in Nat
        BY <1>1, ServerAssumption DEF IInv, RInv, TypeOK
  <2>2. Past(r) = 1 .. size[r] BY <2>1 DEF Answered, Past
  <2>3. \A j \in 1 .. size[r] : job[r][j] \in Settled BY <2>1, <2>2 DEF Layout
  <2>4. JobsIn(r, {"waiting", "init", "test"}) = {} BY <2>3 DEF JobsIn, Settled
  <2>5. /\ JobsIn(r, {"ok"}) = {j \in 1 .. size[r] : job[r][j] = "ok"}
        /\ JobsIn(r, {"bad"}) = {j \in 1 .. size[r] : job[r][j] = "bad"}
        BY DEF JobsIn
  <2> QED BY <2>1, <2>4, <2>5 DEF Answered
<1> QED BY <1>1, IInvHolds, PTL

\* The batches of FuncBatchRateLimiter.run() never overlap and never exceed
\* maxBacktestThreads, whatever the number of segments.
THEOREM BatchesAreBarriers == Spec => []BatchBarrier
<1>1. ASSUME IInv PROVE BatchBarrier
  <2> SUFFICES ASSUME NEW r \in Requests
               PROVE  /\ Cardinality(JobsIn(r, {"init", "test"})) <= BatchSize
                      /\ \A i, j \in 1 .. size[r] :
                            job[r][j] \in {"init", "test"} /\ i \notin batch[r] =>
                               job[r][i] \in (IF i < j THEN {"ok", "bad"} ELSE {"waiting"})
      BY DEF BatchBarrier
  <2>1. /\ Layout(r) /\ size[r] \in 0 .. MaxJobs
        /\ batch[r] \subseteq 1 .. MaxJobs /\ queue[r] \in Nat
        BY <1>1, ServerAssumption DEF IInv, RInv, TypeOK
  <2>2. \A j \in 1 .. size[r] : job[r][j] \in {"init", "test"} => j \in batch[r]
        BY <1>1, <2>1, RunningInBatch, ServerAssumption
  <2>3. Cardinality(JobsIn(r, {"init", "test"})) <= BatchSize
    <3>1. JobsIn(r, {"init", "test"}) \subseteq batch[r] BY <2>2 DEF JobsIn
    <3>2. IsFiniteSet(batch[r]) /\ Cardinality(batch[r]) \in Nat
          BY <2>1, IndexSet, ServerAssumption
    <3>3. Cardinality(JobsIn(r, {"init", "test"})) <= Cardinality(batch[r])
          BY <3>1, <3>2, FS_Subset
    <3>4. Cardinality(JobsIn(r, {"init", "test"})) \in Nat
          BY <3>1, <3>2, FS_Subset, FS_CardinalityType
    <3> QED BY <2>1, <3>2, <3>3, <3>4, ServerAssumption DEF Layout
  <2>4. ASSUME NEW i \in 1 .. size[r], NEW j \in 1 .. size[r],
               job[r][j] \in {"init", "test"}, i \notin batch[r]
        PROVE  job[r][i] \in (IF i < j THEN {"ok", "bad"} ELSE {"waiting"})
    <3>1. j \in batch[r] /\ j < queue[r] BY <2>1, <2>2, <2>4 DEF Layout
    <3>2. CASE i < queue[r]
      <4>1. i \in Past(r) BY <2>1, <2>4, <3>2 DEF Past
      <4> QED BY <2>1, <3>1, <4>1 DEF Layout, Settled
    <3>3. CASE ~(i < queue[r])
      <4>1. i \in 1 .. MaxJobs /\ i >= queue[r] BY <2>1, <3>3, ServerAssumption
      <4>2. ~(i < j) BY <2>1, <3>1, <4>1
      <4> QED BY <2>1, <4>1, <4>2 DEF Layout
    <3> QED BY <3>2, <3>3
  <2> QED BY <2>3, <2>4
<1> QED BY <1>1, IInvHolds, PTL

-----------------------------------------------------------------------------
(* Refinement *)

\* The contract's own copy of Cardinality.
LEMMA SameCardinality == ASSUME NEW S PROVE Contract!Cardinality(S) = Cardinality(S)
BY DEF Contract!Cardinality, Cardinality

LEMMA NoneRunning ==
    ASSUME IInv, NEW r \in Requests, pc[r] # "await"
    PROVE  Contract!JobsIn(r, {"init", "test"}) = {}
<1>1. size[r] \in 0 .. MaxJobs BY DEF IInv, TypeOK
<1> QED BY <1>1, RunningInBatch, ServerAssumption DEF Contract!JobsIn, Contract!Jobs

LEMMA StartBatchBegins ==
    ASSUME IInv, NEW r \in Requests, StartBatch(r) PROVE Contract!Begin(r)
<1> DEFINE S == {j \in queue[r] .. size[r] : j < queue[r] + BatchSize}
<1>1. /\ pc[r] = "loop" /\ kind[r] # "none" /\ answer[r] = "none"
      /\ queue[r] \in 1 .. MaxJobs + 1 /\ size[r] \in 0 .. MaxJobs
      /\ \A j \in 1 .. MaxJobs : j >= queue[r] => job[r][j] = "waiting"
      BY DEF StartBatch, NextBatch, IInv, RInv, Untouched, Layout, Accounts, TypeOK
<1>2. IInv' BY StartBatchStep
<1>3. batch'[r] = S BY DEF StartBatch, NextBatch, IInv, TypeOK
<1>4. Cardinality(S) <= BatchSize BY <1>2, <1>3 DEF IInv, RInv, Layout
<1>5. S \subseteq Contract!JobsIn(r, {"waiting"})
      BY <1>1, ServerAssumption DEF Contract!JobsIn, Contract!Jobs
<1>6. Contract!JobsIn(r, Contract!Started) \cup S = S
      BY <1>1, NoneRunning DEF Contract!Started
<1>7. job' = [job EXCEPT ![r] =
                 [j \in 1 .. MaxJobs |-> IF j \in S THEN "init" ELSE job[r][j]]]
      BY DEF StartBatch, NextBatch
<1>8. UNCHANGED <<kind, size, results, answer>> BY DEF StartBatch, NextBatch
<1> HIDE DEF S
<1>9. Cardinality(Contract!JobsIn(r, Contract!Started) \cup S) <= BatchSize
      BY <1>4, <1>6
<1>10. S \in SUBSET Contract!JobsIn(r, {"waiting"}) BY <1>5
<1>11. \E T \in SUBSET Contract!JobsIn(r, {"waiting"}) :
          /\ Cardinality(Contract!JobsIn(r, Contract!Started) \cup T) <= BatchSize
          /\ job' = [job EXCEPT ![r] =
                       [j \in 1 .. MaxJobs |-> IF j \in T THEN "init" ELSE job[r][j]]]
  <2> WITNESS S \in SUBSET Contract!JobsIn(r, {"waiting"})
  <2> QED BY <1>7, <1>9
<1> QED BY <1>1, <1>8, <1>11, SameCardinality DEF Contract!Begin

LEMMA BacktestAdvances ==
    ASSUME IInv, NEW r \in Requests, NEW j \in 1 .. MaxJobs, Backtest(r, j)
    PROVE  j \in Contract!Jobs(r) /\ Contract!Advance(r, j)
<1>1. job[r][j] \in {"init", "test"} BY DEF Backtest, Init_Settles, Test_Settles
<1>2. j < queue[r] /\ pc[r] = "await" BY <1>1, RunningInBatch
<1>3. /\ queue[r] <= size[r] + 1 /\ answer[r] = "none"
      /\ queue[r] \in 1 .. MaxJobs + 1 /\ size[r] \in 0 .. MaxJobs
      BY <1>2 DEF IInv, RInv, Layout, Accounts, TypeOK
<1>4. j \in 1 .. size[r] BY <1>2, <1>3, ServerAssumption
<1>5. \/ job[r][j] = "init" /\ \E s \in {"test", "bad"} : job' = [job EXCEPT ![r][j] = s]
      \/ job[r][j] = "test" /\ \E s \in {"ok", "bad"} : job' = [job EXCEPT ![r][j] = s]
      BY DEF Backtest, Init_Settles, Test_Settles
<1>6. UNCHANGED <<kind, size, results, answer>>
      BY DEF Backtest, Init_Settles, Test_Settles
<1> QED BY <1>3, <1>4, <1>5, <1>6 DEF Contract!Jobs, Contract!Advance

LEMMA EndBatchCollectsOrFails ==
    ASSUME IInv, NEW r \in Requests, EndBatch(r)
    PROVE  Contract!Collect(r) \/ Contract!Fail(r)
<1> DEFINE before == {j \in Past(r) : job[r][j] = "bad"}
           now == {j \in batch[r] : job[r][j] = "bad"}
           ct == rejections[r] + Cardinality(now)
           bads == Contract!JobsIn(r, {"bad"})
<1>1. /\ pc[r] = "await" /\ answer[r] = "none" /\ kind[r] # "none"
      /\ rejections[r] = Cardinality(before)
      /\ queue[r] \in 1 .. MaxJobs + 1 /\ size[r] \in 0 .. MaxJobs
      /\ queue[r] <= size[r] + 1 /\ batch[r] \subseteq 1 .. queue[r] - 1
      /\ \A j \in 1 .. MaxJobs : j >= queue[r] => job[r][j] = "waiting"
      /\ \A j \in batch[r] : job[r][j] \in {"ok", "bad"}
      BY DEF EndBatch, BatchSettled, IInv, RInv, Layout, Accounts, Untouched, TypeOK
<1>2. \A j \in 1 .. MaxJobs : job[r][j] \notin {"init", "test"}
      BY <1>1, RunningInBatch
<1>3. UNCHANGED <<kind, size, job>> BY DEF EndBatch, BatchSettled, RejectionsNow
<1>4. CASE UNCHANGED answer
  <2>1. UNCHANGED results \/ results' = [results EXCEPT ![r] =
                                results[r] \cup {j \in batch[r] : job[r][j] = "ok"}]
        BY DEF EndBatch, BatchSettled, RejectionsNow
  <2>2. {j \in batch[r] : job[r][j] = "ok"} \in SUBSET Contract!JobsIn(r, {"ok"})
        BY <1>1, ServerAssumption DEF Contract!JobsIn, Contract!Jobs
  <2>3. results = [results EXCEPT ![r] = results[r] \cup {}] BY DEF IInv, TypeOK
  <2>4. {} \in SUBSET Contract!JobsIn(r, {"ok"}) OBVIOUS
  <2>5. \E S \in SUBSET Contract!JobsIn(r, {"ok"}) :
           results' = [results EXCEPT ![r] = results[r] \cup S]
        BY <2>1, <2>2, <2>3, <2>4
  <2> QED BY <1>1, <1>3, <1>4, <2>5 DEF Contract!Collect
<1>5. CASE ~ UNCHANGED answer
  <2>1. /\ ct > Tolerated(kind[r], size[r])
        /\ answer' = [answer EXCEPT ![r] = "failed"] /\ UNCHANGED results
        BY <1>5 DEF EndBatch, BatchSettled, RejectionsNow
  <2>2. bads = before \cup now
    <3>1. bads \subseteq 1 .. size[r] /\ \A j \in bads : job[r][j] = "bad"
          BY DEF Contract!JobsIn, Contract!Jobs
    <3>2. \A j \in bads : j \in Past(r) \cup batch[r]
          BY <1>1, <3>1, ServerAssumption DEF Past
    <3>3. before \cup now \subseteq bads
          BY <1>1, ServerAssumption DEF Past, Contract!JobsIn, Contract!Jobs
    <3> QED BY <3>1, <3>2, <3>3
  <2>3. Cardinality(before \cup now) = Cardinality(before) + Cardinality(now)
        BY BadOnesAdd
  <2>4. Cardinality(bads) = ct BY <1>1, <2>2, <2>3
  <2>5. Contract!JobsIn(r, Contract!Started) = {}
        BY <1>1, <1>2, ServerAssumption DEF Contract!JobsIn, Contract!Jobs, Contract!Started
  <2> HIDE DEF ct, bads
  <2>6. Cardinality(Contract!JobsIn(r, {"bad"})) > Tolerated(kind[r], size[r])
        BY <2>1, <2>4 DEF bads
  <2> QED BY <1>1, <1>3, <2>1, <2>5, <2>6, SameCardinality DEF Contract!Fail
<1> QED BY <1>4, <1>5

LEMMA AnswerSucceedsOrFails ==
    ASSUME IInv, NEW r \in Requests, Answer(r)
    PROVE  Contract!Succeed(r) \/ Contract!Fail(r)
<1>1. /\ pc[r] = "loop" /\ kind[r] # "none" /\ Accounts(r)
      /\ \A j \in Past(r) : job[r][j] \in Settled
      BY DEF Answer, IInv, RInv, Untouched, Layout
<1>2. Past(r) = 1 .. size[r] BY LoopOver
<1>3. answer[r] = "none" BY <1>1 DEF Accounts
<1>4. Contract!JobsIn(r, Contract!Started) = {}
      BY <1>1, NoneRunning DEF Contract!Started
<1>5. /\ Contract!JobsIn(r, {"waiting"}) = {}
      /\ Contract!JobsIn(r, {"waiting"} \cup Contract!Started) = {}
      BY <1>1, <1>2 DEF Contract!JobsIn, Contract!Jobs, Contract!Started, Settled
<1>6. UNCHANGED <<kind, size, job, results>> BY DEF Answer
<1>7. CASE answer' = [answer EXCEPT ![r] = "ok"]
  <2>1. Contract!JobsIn(r, {"ok"}) = {j \in Past(r) : job[r][j] = "ok"}
        BY <1>2 DEF Contract!JobsIn, Contract!Jobs
  <2>2. Contract!JobsIn(r, {"bad"}) = {j \in Past(r) : job[r][j] = "bad"}
        BY <1>2 DEF Contract!JobsIn, Contract!Jobs
  <2>3. Cardinality(Contract!JobsIn(r, {"bad"})) <= Tolerated(kind[r], size[r])
        BY <1>1, <2>2 DEF Accounts
  <2>4. results[r] = Contract!JobsIn(r, {"ok"}) BY <1>1, <2>1 DEF Accounts
  <2> QED BY <1>1, <1>3, <1>5, <1>6, <1>7, <2>3, <2>4, SameCardinality DEF Contract!Succeed
<1>8. CASE answer' = [answer EXCEPT ![r] = "failed"]
      BY <1>1, <1>3, <1>4, <1>5, <1>6, <1>8 DEF Contract!Fail
<1> QED BY <1>7, <1>8 DEF Answer

\* NoPatternBtProvider_HDS with its rate limiter does what BacktestContract says:
\* every step of a request is a step of the contract or none.
THEOREM ServerMeetsContract == Spec => MeetsContract
<1>1. Init => Contract!Init BY DEF Init, Contract!Init
<1>2. IInv /\ [Next]_vars => [Contract!Next]_Contract!vars
  <2> SUFFICES ASSUME IInv, [Next]_vars PROVE [Contract!Next]_Contract!vars OBVIOUS
  <2>1. CASE StartUp \/ UNCHANGED vars
        BY <2>1 DEF StartUp, CreateApp, ConfigLoaded, Listen, requestVars, vars, Contract!vars
  <2>2. CASE \E r \in Requests : Arrival(r)
    <3>1. PICK r \in Requests, k \in {"single", "group"}, n \in 0 .. MaxJobs : Receive(r, k, n)
          BY <2>2 DEF Arrival
    <3>2. /\ kind[r] = "none" /\ UNCHANGED <<job, results>>
          /\ kind' = [kind EXCEPT ![r] = k] /\ size' = [size EXCEPT ![r] = n]
          /\ answer' \in {answer, [answer EXCEPT ![r] = "failed"]}
          BY <3>1 DEF Receive
    <3>3. Contract!Accept(r) BY <3>2 DEF Contract!Accept
    <3> QED BY <3>3 DEF Contract!Next
  <2>3. CASE \E r \in Requests : StartBatch(r) BY <2>3, StartBatchBegins DEF Contract!Next
  <2>4. CASE \E r \in Requests : EndBatch(r)
        BY <2>4, EndBatchCollectsOrFails DEF Contract!Next
  <2>5. CASE \E r \in Requests : Answer(r) BY <2>5, AnswerSucceedsOrFails DEF Contract!Next
  <2>6. CASE \E r \in Requests, j \in 1 .. MaxJobs : Backtest(r, j)
        BY <2>6, BacktestAdvances DEF Contract!Next
  <2> QED BY <2>1, <2>2, <2>3, <2>4, <2>5, <2>6 DEF Next, Limiter
<1> QED BY <1>1, <1>2, IInvHolds, PTL DEF Spec, MeetsContract, Contract!Spec

-----------------------------------------------------------------------------
(* Requests get on.  Liveness itself is left to the run; proved is what it     *)
(* rests on: nobody waits in vain, and the waiting is finite.                  *)

Unstarted(r) == {j \in 1 .. MaxJobs : job[r][j] \in {"waiting", "init"}}
Unsettled(r) == {j \in 1 .. MaxJobs : job[r][j] \in {"waiting", "init", "test"}}

\* What is left of run(): two steps per batch, and the answer.
LimiterLeft(r) ==
    CASE pc[r] = "start" -> 2 * MaxJobs + 2
      [] pc[r] = "loop" -> 2 * (BatchCount(r) - b[r]) + 1
      [] pc[r] = "await" -> 2 * (BatchCount(r) - b[r])
      [] OTHER -> 0

StepsLeft(r) == Cardinality(Unstarted(r)) + Cardinality(Unsettled(r)) + LimiterLeft(r)

LEMMA BatchCounts ==
    ASSUME IInv, NEW r \in Requests
    PROVE  /\ MaxJobs \in Nat /\ BatchCount(r) \in 0 .. MaxJobs /\ b[r] \in 0 .. MaxJobs
           /\ pc[r] \in {"loop", "await"} => b[r] <= BatchCount(r)
<1>1. size[r] \in 0 .. MaxJobs /\ b[r] \in 0 .. MaxJobs BY DEF IInv, TypeOK
<1>2. BatchCount(r) \in 0 .. MaxJobs BY <1>1, BatchesSuffice DEF BatchCount
<1>3. pc[r] = "loop" => b[r] <= BatchCount(r) BY DEF IInv, RInv, Progress
<1>4. pc[r] = "await" => b[r] < BatchCount(r) BY DEF IInv, RInv, Progress
<1> QED BY <1>1, <1>2, <1>3, <1>4, ServerAssumption

LEMMA StepsAreNat == ASSUME IInv, NEW r \in Requests PROVE StepsLeft(r) \in Nat
<1>1. LimiterLeft(r) \in Nat BY BatchCounts DEF LimiterLeft
<1>2. Cardinality(Unstarted(r)) \in Nat BY IndexSet DEF Unstarted
<1>3. Cardinality(Unsettled(r)) \in Nat BY IndexSet DEF Unsettled
<1> QED BY <1>1, <1>2, <1>3 DEF StepsLeft

\* What a step leaves alone costs a request nothing.
LEMMA StepsStay ==
    ASSUME NEW r \in Requests, job'[r] = job[r], pc'[r] = pc[r], b'[r] = b[r], size'[r] = size[r]
    PROVE  StepsLeft(r)' = StepsLeft(r)
BY DEF StepsLeft, Unstarted, Unsettled, LimiterLeft, BatchCount

\* A step of the limiter, or an arrival: the backtests are as far from their end as before.
LEMMA LimiterStepCounts ==
    ASSUME IInv, IInv', NEW r \in Requests, Unstarted(r)' = Unstarted(r),
           Unsettled(r)' = Unsettled(r), LimiterLeft(r)' < LimiterLeft(r)
    PROVE  StepsLeft(r)' < StepsLeft(r)
<1>1. LimiterLeft(r) \in Nat BY BatchCounts DEF LimiterLeft
<1>2. LimiterLeft(r)' \in Nat
  <2>1. \A q \in Requests :
           /\ MaxJobs \in Nat /\ BatchCount(q)' \in 0 .. MaxJobs /\ b'[q] \in 0 .. MaxJobs
           /\ pc'[q] \in {"loop", "await"} => b'[q] <= BatchCount(q)'
    <3>1. ASSUME NEW q \in Requests
          PROVE  size'[q] \in 0 .. MaxJobs /\ b'[q] \in 0 .. MaxJobs
          BY DEF IInv, TypeOK
    <3>2. ASSUME NEW q \in Requests PROVE BatchCount(q)' \in 0 .. MaxJobs
          BY <3>1, BatchesSuffice DEF BatchCount
    <3>3. ASSUME NEW q \in Requests
          PROVE  /\ pc'[q] = "loop" => b'[q] <= BatchCount(q)'
                 /\ pc'[q] = "await" => b'[q] < BatchCount(q)'
          BY DEF IInv, RInv, Progress
    <3> QED BY <3>1, <3>2, <3>3, ServerAssumption
  <2> QED BY <2>1 DEF LimiterLeft
<1>3. Cardinality(Unstarted(r)) \in Nat BY IndexSet DEF Unstarted
<1>4. Cardinality(Unsettled(r)) \in Nat BY IndexSet DEF Unsettled
<1>5. /\ StepsLeft(r)' = Cardinality(Unstarted(r)) + Cardinality(Unsettled(r)) + LimiterLeft(r)'
      /\ StepsLeft(r) = Cardinality(Unstarted(r)) + Cardinality(Unsettled(r)) + LimiterLeft(r)
      BY DEF StepsLeft
<1> HIDE DEF LimiterLeft, StepsLeft, Unstarted, Unsettled
<1> QED BY <1>1, <1>2, <1>3, <1>4, <1>5

LEMMA ArrivalCounts ==
    ASSUME IInv, IInv', NEW r \in Requests, Arrival(r)
    PROVE  /\ StepsLeft(r)' < StepsLeft(r)
           /\ \A q \in Requests \ {r} : StepsLeft(q)' = StepsLeft(q)
<1>1. PICK k \in {"single", "group"}, n \in 0 .. MaxJobs : Receive(r, k, n) BY DEF Arrival
<1>2. /\ pc[r] = "start" /\ pc'[r] \in {"loop", "done"} /\ b'[r] = 0 /\ size'[r] = n
      /\ job' = job
      BY <1>1 DEF Receive, IInv, RInv, Untouched, Progress, TypeOK
<1>3. Unstarted(r)' = Unstarted(r) /\ Unsettled(r)' = Unsettled(r)
      BY <1>2 DEF Unstarted, Unsettled
<1>4. BatchCount(r)' \in 0 .. MaxJobs BY <1>2, BatchesSuffice DEF BatchCount
<1>5. LimiterLeft(r)' < LimiterLeft(r) BY <1>2, <1>4, ServerAssumption DEF LimiterLeft
<1>6. ASSUME NEW q \in Requests \ {r} PROVE StepsLeft(q)' = StepsLeft(q)
      BY <1>1, StepsStay DEF Receive, IInv, TypeOK
<1> QED BY <1>3, <1>5, <1>6, LimiterStepCounts

LEMMA LimiterCounts ==
    ASSUME IInv, IInv', NEW r \in Requests, Limiter(r)
    PROVE  /\ StepsLeft(r)' < StepsLeft(r)
           /\ \A q \in Requests \ {r} : StepsLeft(q)' = StepsLeft(q)
<1>1. ASSUME NEW q \in Requests \ {r} PROVE StepsLeft(q)' = StepsLeft(q)
      BY StepsStay DEF Limiter, StartBatch, EndBatch, Answer, IInv, TypeOK
<1>2. MaxJobs \in Nat /\ BatchCount(r) \in 0 .. MaxJobs /\ b[r] \in 0 .. MaxJobs
      BY BatchCounts
<1>3. BatchCount(r)' = BatchCount(r)
      BY DEF BatchCount, Limiter, StartBatch, EndBatch, Answer
<1>4. CASE StartBatch(r)
  <2>1. LimiterLeft(r)' < LimiterLeft(r)
    <3>1. pc[r] = "loop" /\ pc'[r] = "await" /\ b'[r] = b[r]
          BY <1>4 DEF StartBatch, IInv, TypeOK
    <3> QED BY <3>1, <1>2, <1>3 DEF LimiterLeft
  <2>2. \A j \in NextBatch(r) : j \in 1 .. MaxJobs => job[r][j] = "waiting"
    <3>1. \A j \in 1 .. MaxJobs : j >= queue[r] => job[r][j] = "waiting"
          BY DEF IInv, RInv, Layout
    <3>2. queue[r] \in Int /\ size[r] \in Int BY ServerAssumption DEF IInv, TypeOK
    <3> QED BY <3>1, <3>2 DEF NextBatch
  <2>3. \A j \in 1 .. MaxJobs :
           job'[r][j] = IF j \in NextBatch(r) THEN "init" ELSE job[r][j]
        BY <1>4 DEF StartBatch, IInv, TypeOK
  <2>4. Unstarted(r)' = Unstarted(r) /\ Unsettled(r)' = Unsettled(r)
        BY <2>2, <2>3 DEF Unstarted, Unsettled
  <2> QED BY <1>1, <2>1, <2>4, LimiterStepCounts
<1>5. CASE EndBatch(r)
  <2>1. LimiterLeft(r)' < LimiterLeft(r)
    <3>1. /\ pc[r] = "await"
          /\ \/ pc'[r] = "done"
             \/ pc'[r] = "loop" /\ b'[r] = b[r] + 1
      <4>1. /\ pc[r] = "await"
            /\ \/ pc' = [pc EXCEPT ![r] = "done"]
               \/ pc' = [pc EXCEPT ![r] = "loop"] /\ b' = [b EXCEPT ![r] = b[r] + 1]
            BY <1>5 DEF EndBatch, RejectionsNow
      <4> QED BY <4>1 DEF IInv, TypeOK
    <3>2. b[r] < BatchCount(r) BY <3>1 DEF IInv, RInv, Progress
    <3> QED BY <3>1, <3>2, <1>2, <1>3 DEF LimiterLeft
  <2>2. Unstarted(r)' = Unstarted(r) /\ Unsettled(r)' = Unsettled(r)
        BY <1>5 DEF EndBatch, Unstarted, Unsettled
  <2> QED BY <1>1, <2>1, <2>2, LimiterStepCounts
<1>6. CASE Answer(r)
  <2>1. LimiterLeft(r)' < LimiterLeft(r)
    <3>1. pc[r] = "loop" /\ pc'[r] = "done" /\ b[r] = BatchCount(r)
          BY <1>6 DEF Answer, IInv, TypeOK
    <3> QED BY <3>1, <1>2 DEF LimiterLeft
  <2>2. Unstarted(r)' = Unstarted(r) /\ Unsettled(r)' = Unsettled(r)
        BY <1>6 DEF Answer, Unstarted, Unsettled
  <2> QED BY <1>1, <2>1, <2>2, LimiterStepCounts
<1> QED BY <1>4, <1>5, <1>6 DEF Limiter

LEMMA BacktestCounts ==
    ASSUME IInv, IInv', NEW r \in Requests, NEW j \in 1 .. MaxJobs, Backtest(r, j)
    PROVE  /\ StepsLeft(r)' < StepsLeft(r)
           /\ \A q \in Requests \ {r} : StepsLeft(q)' = StepsLeft(q)
<1>1. /\ UNCHANGED <<pc, b, size>>
      /\ \E s \in {"test", "ok", "bad"} :
            /\ job' = [job EXCEPT ![r][j] = s]
            /\ \/ job[r][j] = "init"
               \/ job[r][j] = "test" /\ s # "test"
      BY DEF Backtest, Init_Settles, Test_Settles
<1>2. ASSUME NEW q \in Requests \ {r} PROVE StepsLeft(q)' = StepsLeft(q)
      BY <1>1, StepsStay DEF IInv, TypeOK
<1>3. \A i \in 1 .. MaxJobs : i # j => job'[r][i] = job[r][i]
      BY <1>1 DEF IInv, TypeOK
<1>4. /\ job'[r][j] \in {"test", "ok", "bad"}
      /\ job[r][j] \in {"init", "test"}
      /\ job[r][j] = "test" => job'[r][j] # "test"
      BY <1>1 DEF IInv, TypeOK
<1>5. Unstarted(r)' = Unstarted(r) \ {j} BY <1>3, <1>4 DEF Unstarted
<1>6. Unsettled(r)' = IF job'[r][j] = "test" THEN Unsettled(r) ELSE Unsettled(r) \ {j}
      BY <1>3, <1>4 DEF Unsettled
<1>7. LimiterLeft(r)' = LimiterLeft(r) BY <1>1 DEF LimiterLeft, BatchCount
<1>8. LimiterLeft(r) \in Nat BY BatchCounts DEF LimiterLeft
<1>9. /\ IsFiniteSet(Unstarted(r)) /\ Cardinality(Unstarted(r)) \in Nat
      /\ IsFiniteSet(Unsettled(r)) /\ Cardinality(Unsettled(r)) \in Nat
      BY IndexSet DEF Unstarted, Unsettled
<1>10. j \in Unsettled(r) BY <1>4 DEF Unsettled
<1>11. Cardinality(Unsettled(r) \ {j}) = Cardinality(Unsettled(r)) - 1
       BY <1>9, <1>10, FS_RemoveElement
<1>12. Cardinality(Unstarted(r) \ {j}) \in Nat
       /\ Cardinality(Unstarted(r) \ {j}) <= Cardinality(Unstarted(r))
       BY <1>9, FS_Subset, FS_CardinalityType
<1>13. job'[r][j] = "test" =>
          Cardinality(Unstarted(r) \ {j}) = Cardinality(Unstarted(r)) - 1
  <2>1. job'[r][j] = "test" => j \in Unstarted(r) BY <1>4 DEF Unstarted
  <2> QED BY <1>9, <2>1, FS_RemoveElement
<1>14. /\ StepsLeft(r) = Cardinality(Unstarted(r)) + Cardinality(Unsettled(r)) + LimiterLeft(r)
       /\ StepsLeft(r)' = Cardinality(Unstarted(r)') + Cardinality(Unsettled(r)') + LimiterLeft(r)'
       BY DEF StepsLeft
<1>15. /\ Cardinality(Unstarted(r)') = Cardinality(Unstarted(r) \ {j})
       /\ Cardinality(Unsettled(r)') =
             IF job'[r][j] = "test" THEN Cardinality(Unsettled(r))
                                    ELSE Cardinality(Unsettled(r) \ {j})
       BY <1>5, <1>6
<1> HIDE DEF LimiterLeft, StepsLeft, Unstarted, Unsettled
<1>16. ASSUME job'[r][j] = "test" PROVE StepsLeft(r)' < StepsLeft(r)
       BY <1>7, <1>8, <1>9, <1>13, <1>14, <1>15, <1>16
<1>17. ASSUME job'[r][j] # "test" PROVE StepsLeft(r)' < StepsLeft(r)
       BY <1>7, <1>8, <1>9, <1>11, <1>12, <1>14, <1>15, <1>17
<1> QED BY <1>2, <1>16, <1>17

\* No request goes on for ever, and none costs another a step: whatever happens
\* after start-up, one request comes nearer to its end and the others stay where
\* they are.  (run()'s loop is bounded and the two calls of a backtest settle once.)
THEOREM RequestsAreFinite ==
    Spec => /\ [](\A r \in Requests : StepsLeft(r) \in Nat)
            /\ [][\/ StartUp
                  \/ \E r \in Requests :
                        /\ StepsLeft(r)' < StepsLeft(r)
                        /\ \A q \in Requests \ {r} : StepsLeft(q)' = StepsLeft(q)]_vars
<1>1. IInv => \A r \in Requests : StepsLeft(r) \in Nat BY StepsAreNat
<1>2. ASSUME IInv, IInv', [Next]_vars
      PROVE  [\/ StartUp
              \/ \E r \in Requests :
                    /\ StepsLeft(r)' < StepsLeft(r)
                    /\ \A q \in Requests \ {r} : StepsLeft(q)' = StepsLeft(q)]_vars
  <2>1. CASE \E r \in Requests : Arrival(r) BY <1>2, <2>1, ArrivalCounts
  <2>2. CASE \E r \in Requests : Limiter(r) BY <1>2, <2>2, LimiterCounts
  <2>3. CASE \E r \in Requests, j \in 1 .. MaxJobs : Backtest(r, j)
        BY <1>2, <2>3, BacktestCounts
  <2> QED BY <1>2, <2>1, <2>2, <2>3 DEF Next
<1> QED BY <1>1, <1>2, IInvHolds, PTL DEF Spec

\* A request that was received and has no answer is in run().
InRun(r) ==
    /\ pc[r] = "start" => kind[r] = "none"
    /\ pc[r] = "done" => answer[r] # "none"

\* Its limiter can go on at once, or one of the backtests it awaits is running.
CanGoOn(r) ==
    \/ pc[r] = "loop" /\ (b[r] < BatchCount(r) \/ b[r] = BatchCount(r))
    \/ pc[r] = "await" /\ BatchSettled(r)
    \/ pc[r] = "await" /\ \E j \in batch[r] : job[r][j] \in {"init", "test"}

LEMMA InRunKept ==
    ASSUME IInv, [Next]_vars, NEW q \in Requests, InRun(q) PROVE InRun(q)'
<1>1. CASE StartUp \/ UNCHANGED vars
      BY <1>1 DEF StartUp, CreateApp, ConfigLoaded, Listen, vars, requestVars, InRun
<1>2. CASE \E r \in Requests : Arrival(r)
  <2>1. PICK r \in Requests, k \in {"single", "group"}, n \in 0 .. MaxJobs : Receive(r, k, n)
        BY <1>2 DEF Arrival
  <2> QED BY <2>1 DEF Receive, InRun, IInv, TypeOK
<1>3. CASE \E r \in Requests : StartBatch(r) BY <1>3 DEF StartBatch, InRun, IInv, TypeOK
<1>4. CASE \E r \in Requests : EndBatch(r) BY <1>4 DEF EndBatch, InRun, IInv, TypeOK
<1>5. CASE \E r \in Requests : Answer(r) BY <1>5 DEF Answer, InRun, IInv, TypeOK
<1>6. CASE \E r \in Requests, j \in 1 .. MaxJobs : Backtest(r, j)
      BY <1>6 DEF Backtest, Init_Settles, Test_Settles, InRun
<1> QED BY <1>1, <1>2, <1>3, <1>4, <1>5, <1>6 DEF Next, Limiter

\* No request is stuck: while it has no answer, either run() can take its next
\* step or it awaits a backtest that is itself under way; it never waits for one
\* that nobody started.  (The awaits of runBatch_tolerateFailure.)
THEOREM RequestsNeverStall ==
    Spec => [](\A r \in Requests :
                  kind[r] # "none" /\ answer[r] = "none" => CanGoOn(r))
<1> DEFINE I == \A r \in Requests : InRun(r)
<1>1. Init => I BY DEF Init, InRun
<1>2. ASSUME IInv, I, [Next]_vars PROVE I' BY <1>2, InRunKept
<1>3. ASSUME IInv, I, NEW r \in Requests, kind[r] # "none", answer[r] = "none"
      PROVE  CanGoOn(r)
  <2>1. pc[r] \in {"loop", "await"} BY <1>3 DEF InRun, IInv, TypeOK
  <2>2. CASE pc[r] = "loop" BY <1>3, <2>2, BatchCounts DEF CanGoOn
  <2>3. CASE pc[r] = "await"
    <3>1. \A j \in batch[r] : job[r][j] # "waiting" BY <1>3 DEF IInv, RInv, Layout
    <3>2. \A j \in batch[r] : job[r][j] \in {"waiting", "init", "test", "ok", "bad"}
          BY <1>3 DEF IInv, TypeOK
    <3> QED BY <2>3, <3>1, <3>2 DEF CanGoOn, BatchSettled
  <2> QED BY <2>1, <2>2, <2>3
<1> HIDE DEF I
<1>4. IInv /\ I => \A r \in Requests : kind[r] # "none" /\ answer[r] = "none" => CanGoOn(r)
      BY <1>3
<1> QED BY <1>1, <1>2, <1>4, IInvHolds, PTL DEF Spec
=============================================================================
