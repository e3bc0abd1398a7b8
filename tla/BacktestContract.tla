------------------------- MODULE BacktestContract --------------------------
(***************************************************************************)
(* What the backtesting server promises for a request, without batches:    *)
(* each of its backtests runs at most once, never more than Limit of them  *)
(* at the same time, an answer "ok" carries exactly the successful ones    *)
(* and comes when all have finished and few enough failed, and after an    *)
(* answer of either kind nothing runs any more.                            *)
(***************************************************************************)
EXTENDS Integers, FiniteSets

CONSTANTS Requests, MaxJobs, Limit, Tolerated(_, _)

VARIABLES kind, size, job, results, answer

vars == <<kind, size, job, results, answer>>

Jobs(r) == 1 .. size[r]
Started == {"init", "test"}
JobsIn(r, S) == {j \in Jobs(r) : job[r][j] \in S}

Init ==
    /\ kind = [r \in Requests |-> "none"]
    /\ size = [r \in Requests |-> 0]
    /\ job = [r \in Requests |-> [j \in 1 .. MaxJobs |-> "waiting"]]
    /\ results = [r \in Requests |-> {}]
    /\ answer = [r \in Requests |-> "none"]

Accept(r) ==
    /\ kind[r] = "none"
    /\ \E k \in {"single", "group"}, n \in 0 .. MaxJobs :
          /\ kind' = [kind EXCEPT ![r] = k]
          /\ size' = [size EXCEPT ![r] = n]
    /\ UNCHANGED <<job, results>>
    /\ answer' \in {answer, [answer EXCEPT ![r] = "failed"]}

Begin(r) ==
    /\ kind[r] # "none" /\ answer[r] = "none"
    /\ \E S \in SUBSET JobsIn(r, {"waiting"}) :
          /\ Cardinality(JobsIn(r, Started) \cup S) <= Limit
          /\ job' = [job EXCEPT ![r] =
                        [j \in 1 .. MaxJobs |-> IF j \in S THEN "init" ELSE @[j]]]
    /\ UNCHANGED <<kind, size, results, answer>>

Advance(r, j) ==
    /\ answer[r] = "none"
    /\ \/ job[r][j] = "init" /\ \E s \in {"test", "bad"} : job' = [job EXCEPT ![r][j] = s]
       \/ job[r][j] = "test" /\ \E s \in {"ok", "bad"} : job' = [job EXCEPT ![r][j] = s]
    /\ UNCHANGED <<kind, size, results, answer>>

\* A finished backtest is counted towards the answer.
Collect(r) ==
    /\ answer[r] = "none"
    /\ \E S \in SUBSET JobsIn(r, {"ok"}) : results' = [results EXCEPT ![r] = @ \cup S]
    /\ UNCHANGED <<kind, size, job, answer>>

Succeed(r) ==
    /\ kind[r] # "none" /\ answer[r] = "none"
    /\ JobsIn(r, {"waiting"} \cup Started) = {}
    /\ results[r] = JobsIn(r, {"ok"})
    /\ Cardinality(JobsIn(r, {"bad"})) <= Tolerated(kind[r], size[r])
    /\ answer' = [answer EXCEPT ![r] = "ok"]
    /\ UNCHANGED <<kind, size, job, results>>

Fail(r) ==
    /\ kind[r] # "none" /\ answer[r] = "none"
    /\ JobsIn(r, Started) = {}
    /\ \/ Cardinality(JobsIn(r, {"bad"})) > Tolerated(kind[r], size[r])
       \/ JobsIn(r, {"waiting"}) = {}
    /\ answer' = [answer EXCEPT ![r] = "failed"]
    /\ UNCHANGED <<kind, size, job, results>>

Next == \E r \in Requests :
    \/ Accept(r) \/ Begin(r) \/ Collect(r) \/ Succeed(r) \/ Fail(r)
    \/ \E j \in Jobs(r) : Advance(r, j)

Spec == Init /\ [][Next]_vars
=============================================================================
