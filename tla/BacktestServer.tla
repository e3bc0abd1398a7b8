-------------------------- MODULE BacktestServer ---------------------------
(***************************************************************************)
(* tradingbot-historical-backtesting-server: NoPatternBtService hands a    *)
(* request to NoPatternBtProvider_HDS, which runs one backtest (single) or *)
(* one per segment (group).  A group goes through a FuncBatchRateLimiter:  *)
(* the functions of a batch are shifted off the queue and started          *)
(* together, the batch ends when all have settled, and the run is given up *)
(* when the rejections of all batches so far exceed what is tolerable.     *)
(*                                                                         *)
(* Node runs one callback at a time; requests and backtests interleave at  *)
(* their awaits, which are the steps below.                                *)
(***************************************************************************)
EXTENDS Integers, FiniteSets

CONSTANTS
    Requests,   \* the HTTP requests the server may receive
    MaxJobs,    \* bound: segments of a group request
    BatchSize,  \* config maxBacktestThreads
    RatePct     \* GROUP_BACKTEST_MAX_ALLOWED_FAILURE_RATE, in percent

ASSUME ServerAssumption ==
    /\ MaxJobs \in Nat \ {0}
    /\ BatchSize \in Nat \ {0}
    /\ RatePct \in 0 .. 100

VARIABLES
    listening,   \* bootstrap() has reached app.listen
    provider,    \* NoPatternBtService.provider and the load() it waits for
    kind, size,  \* per request: what was asked for, and for how many segments
    pc,          \* per request: where doGroupBacktest / run() is
    queue,       \* per request: first index still in jobFuncs
    batch,       \* per request: the batch being awaited
    b,           \* per request: loop counter of run()
    rejections,  \* per request: rejectionCt
    job,         \* per request and index: state of the backtest
    results,     \* per request: indices whose results are in allResults
    answer       \* per request: "none", "ok" or "failed"

vars == <<listening, provider, kind, size, pc, queue, batch, b, rejections,
          job, results, answer>>
requestVars == <<kind, size, pc, queue, batch, b, rejections, job, results, answer>>

MinOf(x, y) == IF x <= y THEN x ELSE y

CeilDiv_Floor(x, y) == x \div y
CeilDiv(x, y) == (x + y - 1) \div y

\* maxFailedSingleBacktestCt; a single request tolerates no failure.
Tolerated(k, n) == IF k = "single" THEN 0 ELSE CeilDiv(n * RatePct, 100)

BatchCount(r) == CeilDiv(size[r], BatchSize)

Contract == INSTANCE BacktestContract WITH Limit <- BatchSize

TypeOK ==
    /\ listening \in BOOLEAN
    /\ provider \in {"unset", "loading", "ready", "failed"}
    /\ kind \in [Requests -> {"none", "single", "group"}]
    /\ size \in [Requests -> 0 .. MaxJobs]
    /\ pc \in [Requests -> {"start", "loop", "await", "done"}]
    /\ queue \in [Requests -> 1 .. MaxJobs + 1]
    /\ batch \in [Requests -> SUBSET (1 .. MaxJobs)]
    /\ b \in [Requests -> 0 .. MaxJobs]
    /\ rejections \in [Requests -> 0 .. MaxJobs]
    /\ job \in [Requests -> [1 .. MaxJobs -> {"waiting", "init", "test", "ok", "bad"}]]
    /\ results \in [Requests -> SUBSET (1 .. MaxJobs)]
    /\ answer \in [Requests -> {"none", "ok", "failed"}]

Init ==
    /\ listening = FALSE
    /\ provider = "unset"
    /\ kind = [r \in Requests |-> "none"]
    /\ size = [r \in Requests |-> 0]
    /\ pc = [r \in Requests |-> "start"]
    /\ queue = [r \in Requests |-> 1]
    /\ batch = [r \in Requests |-> {}]
    /\ b = [r \in Requests |-> 0]
    /\ rejections = [r \in Requests |-> 0]
    /\ job = [r \in Requests |-> [j \in 1 .. MaxJobs |-> "waiting"]]
    /\ results = [r \in Requests |-> {}]
    /\ answer = [r \in Requests |-> "none"]

-----------------------------------------------------------------------------
(* Start-up: Nest builds the service, whose constructor starts loading the *)
(* configuration and does not wait for it.                                 *)

CreateApp ==
    /\ provider = "unset"
    /\ provider' = "loading"
    /\ UNCHANGED <<listening, requestVars>>

\* The then() of the constructor, or an unhandled rejection of load().
ConfigLoaded ==
    /\ provider = "loading"
    /\ provider' \in {"ready", "failed"}
    /\ UNCHANGED <<listening, requestVars>>

Listen ==
    /\ provider # "unset" /\ ~listening
    /\ listening' = TRUE
    /\ UNCHANGED <<provider, requestVars>>

-----------------------------------------------------------------------------
(* Requests *)

\* Without a provider the call is a TypeError, caught and passed on.
Receive(r, k, n) ==
    /\ listening /\ kind[r] = "none"
    /\ k = "single" => n = 1
    /\ kind' = [kind EXCEPT ![r] = k]
    /\ size' = [size EXCEPT ![r] = n]
    /\ IF provider = "ready"
       THEN pc' = [pc EXCEPT ![r] = "loop"] /\ UNCHANGED answer
       ELSE /\ pc' = [pc EXCEPT ![r] = "done"]
            /\ answer' = [answer EXCEPT ![r] = "failed"]
    /\ UNCHANGED <<listening, provider, queue, batch, b, rejections, job, results>>

\* The functions of the next batch.
NextBatch(r) == {j \in queue[r] .. size[r] : j < queue[r] + BatchSize}

\* runBatch_tolerateFailure up to its await: shift and start.
StartBatch(r) ==
    /\ pc[r] = "loop" /\ b[r] < BatchCount(r)
    /\ LET shifted == NextBatch(r)
       IN  /\ batch' = [batch EXCEPT ![r] = shifted]
           /\ queue' = [queue EXCEPT ![r] = @ + Cardinality(shifted)]
           /\ job' = [job EXCEPT ![r] =
                        [j \in 1 .. MaxJobs |-> IF j \in shifted THEN "init" ELSE @[j]]]
    /\ pc' = [pc EXCEPT ![r] = "await"]
    /\ UNCHANGED <<listening, provider, kind, size, b, rejections, results, answer>>

\* doSingleBacktest: the dataset request settles, then the test does.
Init_Settles(r, j, s) ==
    /\ job[r][j] = "init" /\ s \in {"test", "bad"}
    /\ job' = [job EXCEPT ![r][j] = s]
    /\ UNCHANGED <<listening, provider, kind, size, pc, queue, batch, b,
                   rejections, results, answer>>

Test_Settles(r, j, s) ==
    /\ job[r][j] = "test" /\ s \in {"ok", "bad"}
    /\ job' = [job EXCEPT ![r][j] = s]
    /\ UNCHANGED <<listening, provider, kind, size, pc, queue, batch, b,
                   rejections, results, answer>>

\* What run() awaits; mutated: the first to settle, or none may reject.
BatchSettled_Race(r) == batch[r] = {} \/ \E j \in batch[r] : job[r][j] \in {"ok", "bad"}
BatchSettled_AllOk(r) == \A j \in batch[r] : job[r][j] = "ok"
BatchSettled(r) == \A j \in batch[r] : job[r][j] \in {"ok", "bad"}

\* The rejections once the batch has been counted; mutated: only its own.
RejectionsNow_OfBatch(r) == Cardinality({j \in batch[r] : job[r][j] = "bad"})
RejectionsNow(r) == rejections[r] + Cardinality({j \in batch[r] : job[r][j] = "bad"})

\* runBatch_tolerateFailure after its await: count the rejections, over all
\* batches, and either give up or add the batch's results.
EndBatch(r) ==
    /\ pc[r] = "await" /\ BatchSettled(r)
    /\ LET ct == RejectionsNow(r)
       IN  /\ rejections' = [rejections EXCEPT ![r] = ct]
           /\ IF ct > Tolerated(kind[r], size[r])
              THEN /\ pc' = [pc EXCEPT ![r] = "done"]
                   /\ answer' = [answer EXCEPT ![r] = "failed"]
                   /\ UNCHANGED <<results, b>>
              ELSE /\ pc' = [pc EXCEPT ![r] = "loop"]
                   /\ results' = [results EXCEPT ![r] =
                                    @ \cup {j \in batch[r] : job[r][j] = "ok"}]
                   /\ b' = [b EXCEPT ![r] = @ + 1]
                   /\ UNCHANGED answer
    /\ batch' = [batch EXCEPT ![r] = {}]
    /\ UNCHANGED <<listening, provider, kind, size, queue, job>>

\* run() returns; a group's results are grouped, which may throw.
Answer(r) ==
    /\ pc[r] = "loop" /\ b[r] = BatchCount(r)
    /\ pc' = [pc EXCEPT ![r] = "done"]
    /\ \/ answer' = [answer EXCEPT ![r] = "ok"]
       \/ kind[r] = "group" /\ answer' = [answer EXCEPT ![r] = "failed"]
    /\ UNCHANGED <<listening, provider, kind, size, queue, batch, b, rejections,
                   job, results>>

-----------------------------------------------------------------------------
StartUp == CreateApp \/ ConfigLoaded \/ Listen

Arrival(r) == \E k \in {"single", "group"}, n \in 0 .. MaxJobs : Receive(r, k, n)

Limiter(r) == StartBatch(r) \/ EndBatch(r) \/ Answer(r)

Backtest(r, j) ==
    \E s \in {"test", "ok", "bad"} : Init_Settles(r, j, s) \/ Test_Settles(r, j, s)

Next ==
    \/ StartUp
    \/ \E r \in Requests : Arrival(r) \/ Limiter(r)
    \/ \E r \in Requests, j \in 1 .. MaxJobs : Backtest(r, j)

\* The event loop runs every pending callback, and the historical data service
\* answers or refuses every call.
Fairness ==
    /\ \A r \in Requests : WF_vars(Limiter(r))
    /\ \A r \in Requests, j \in 1 .. MaxJobs : WF_vars(Backtest(r, j))

Spec == Init /\ [][Next]_vars /\ Fairness

-----------------------------------------------------------------------------
JobsIn(r, S) == {j \in 1 .. size[r] : job[r][j] \in S}

\* An answer "ok" stands for the whole request: all its backtests have finished,
\* the successful ones are exactly the results, and the failed ones, over all
\* batches together, are no more than tolerated.
AnswerSound ==
    \A r \in Requests : answer[r] = "ok" =>
        /\ JobsIn(r, {"waiting", "init", "test"}) = {}
        /\ results[r] = JobsIn(r, {"ok"})
        /\ Cardinality(JobsIn(r, {"bad"})) <= Tolerated(kind[r], size[r])

\* The limiter is a barrier: while a backtest of a request runs, every one before
\* it in the request's order and outside its batch has settled and every one
\* behind the batch has not begun, so that at most BatchSize run at once.
BatchBarrier ==
    \A r \in Requests :
        /\ Cardinality(JobsIn(r, {"init", "test"})) <= BatchSize
        /\ \A i, j \in 1 .. size[r] :
              job[r][j] \in {"init", "test"} /\ i \notin batch[r] =>
                 job[r][i] \in (IF i < j THEN {"ok", "bad"} ELSE {"waiting"})

\* The server's answers are those of the contract, step by step.
MeetsContract == Contract!Spec

\* Every request that is received is answered.
EveryRequestAnswered == \A r \in Requests : kind[r] # "none" ~> answer[r] # "none"
=============================================================================
