----------------------- MODULE InferenceServerProofs -----------------------
(***************************************************************************)
(* Proofs about InferenceServer, for any number of requests, bodies, model *)
(* slots and workers.  The invariant ties the tasks to the request they    *)
(* were started for: a finished inference had bytes of the form its        *)
(* endpoint expects (Owned), which is what makes the cache, filled by both *)
(* endpoints under one key, sound.  A request that is answered is in the   *)
(* cache (AnsweredIsCached), so its bytes are never inferred again.        *)
(*                                                                         *)
(* The second half is about CombinePipeline, the export of backtest        *)
(* results: a run holds, wherever it is, only versions of files that the   *)
(* store had while the run went on (RunOK).                                *)
(***************************************************************************)
EXTENDS InferenceServer, CombinePipeline, FiniteSetTheorems, WellFoundedInduction, TLAPS

\* Nothing is left over in a request that has not arrived; a finished inference
\* fits its endpoint.
Owned ==
    \A r \in Requests :
        /\ pc[r] = "idle" => answer[r].status = "none" /\ \A t \in Types : task[r][t] = "off"
        /\ \A t \in Types : task[r][t] = "ok" => Shape[body[r]] = endpoint[r]

IInv == TypeOK /\ Owned /\ AnswerIsOwn /\ CacheIsSound

-----------------------------------------------------------------------------
LEMMA AnswerTypes ==
    /\ \A status \in {"none", "400", "500"} : Without(status) \in Answers
    /\ \A v \in Predictions : [status |-> "ok", value |-> v] \in Answers
  BY DEF Without, Answers

\* What a request infers are predictions, and, once every model has answered, all
\* of them, of its own bytes.
LEMMA InferredIsOwn ==
    ASSUME TypeOK, NEW r \in Requests, pc[r] # "idle"
    PROVE  /\ Inferred(r) \in Predictions
           /\ Inferred(r).body = body[r] /\ Inferred(r).form = endpoint[r]
           /\ AllInferred(r) => Complete(Inferred(r))
  <1>1. body[r] \in Bodies /\ endpoint[r] \in {"single", "batch"}
    BY DEF TypeOK
  <1>2. Inferred(r) \in Predictions
    BY <1>1 DEF Inferred, Predictions
  <1>3. AllInferred(r) => Complete(Inferred(r))
    BY DEF AllInferred, Complete, Inferred
  <1> QED BY <1>2, <1>3 DEF Inferred

LEMMA InitIInv == Init => IInv
  <1> SUFFICES ASSUME Init PROVE IInv OBVIOUS
  <1>1. TypeOK
    BY AnswerTypes DEF Init, TypeOK
  <1>2. Owned /\ AnswerIsOwn /\ CacheIsSound
    BY DEF Init, Owned, AnswerIsOwn, CacheIsSound, Without
  <1> QED BY <1>1, <1>2 DEF IInv

LEMMA ArrivalStep ==
    ASSUME IInv, NEW r \in Requests, Arrival(r) PROVE IInv'
  <1> USE DEF IInv
  <1>1. PICK e \in {"single", "batch"}, k \in Bodies : Receive(r, e, k)
    BY DEF Arrival
  <1>2. TypeOK'
    BY <1>1 DEF Receive, TypeOK
  <1>3. answer[r].status = "none" /\ \A t \in Types : task[r][t] = "off"
    BY <1>1 DEF Receive, Owned
  <1>4. Owned'
    BY <1>1, <1>3 DEF Receive, Owned, TypeOK
  <1>5. AnswerIsOwn'
    BY <1>1, <1>3 DEF Receive, AnswerIsOwn, TypeOK
  <1>6. CacheIsSound'
    BY <1>1 DEF Receive, CacheIsSound, Complete
  <1> QED BY <1>2, <1>4, <1>5, <1>6

LEMMA ExecutorStep ==
    ASSUME IInv, Executor PROVE IInv'
  <1> USE DEF IInv
  <1>1. PICK r \in Requests, t \in Types, result \in {"running", "ok", "raised"} :
           /\ task[r][t] # "off"
           /\ result = "ok" => Shape[body[r]] = endpoint[r]
           /\ task' = [task EXCEPT ![r][t] = result]
           /\ UNCHANGED <<pc, endpoint, body, cacheDict, answer>>
    BY DEF Executor, WorkerTakes, WorkerEnds
  <1>2. TypeOK'
    BY <1>1 DEF TypeOK
  <1>3. \A q \in Requests, s \in Types :
           task'[q][s] = IF q = r /\ s = t THEN result ELSE task[q][s]
    BY <1>1 DEF TypeOK
  <1>4. pc[r] # "idle"
    BY <1>1 DEF Owned
  <1>5. Owned'
    BY <1>1, <1>3, <1>4 DEF Owned
  <1>6. AnswerIsOwn' /\ CacheIsSound'
    BY <1>1 DEF AnswerIsOwn, CacheIsSound, Complete
  <1> QED BY <1>2, <1>5, <1>6

\* A reply that carries complete predictions of the request's own bytes, or none,
\* keeps what the invariant says of answers.
LEMMA ReplyStep ==
    ASSUME IInv, NEW r \in Requests, pc[r] # "idle", NEW a \in Answers, Reply(r, a),
           UNCHANGED <<endpoint, body, task>>,
           a.status = "ok" =>
              a.value.body = body[r] /\ a.value.form = endpoint[r] /\ Complete(a.value)
    PROVE  /\ pc' \in [Requests -> {"idle", "read", "gather", "done"}]
           /\ answer' \in [Requests -> Answers]
           /\ \A q \in Requests : pc'[q] # "idle" => pc[q] # "idle"
           /\ Owned' /\ AnswerIsOwn'
  <1> USE DEF IInv
  <1>1. /\ pc' \in [Requests -> {"idle", "read", "gather", "done"}]
        /\ answer' \in [Requests -> Answers]
    BY DEF Reply, TypeOK
  <1>2. \A q \in Requests : /\ pc'[q] = IF q = r THEN "done" ELSE pc[q]
                            /\ answer'[q] = IF q = r THEN a ELSE answer[q]
    BY DEF Reply, TypeOK
  <1>3. Owned'
    BY <1>2 DEF Owned
  <1>4. AnswerIsOwn'
    BY <1>2 DEF AnswerIsOwn, Complete
  <1> QED BY <1>1, <1>2, <1>3, <1>4

LEMMA HandlerStep ==
    ASSUME IInv, NEW r \in Requests, Handler(r) PROVE IInv'
  <1> USE DEF IInv
  <1>0. pc[r] # "idle" /\ body[r] \in Bodies
    BY DEF Handler, BadRequest, Hit, Miss, GatherReturns, GatherRaises, TypeOK
  <1>1. CASE BadRequest(r) \/ GatherRaises(r)
    <2>1. PICK a \in {Without("400"), Without("500")} :
             Reply(r, a) /\ UNCHANGED <<endpoint, body, task, cacheDict>>
      BY <1>1 DEF BadRequest, GatherRaises
    <2>2. a \in Answers /\ a.status # "ok"
      BY AnswerTypes DEF Without
    <2>3. /\ pc' \in [Requests -> {"idle", "read", "gather", "done"}]
          /\ answer' \in [Requests -> Answers]
          /\ \A q \in Requests : pc'[q] # "idle" => pc[q] # "idle"
          /\ Owned' /\ AnswerIsOwn'
      BY <1>0, <2>1, <2>2, ReplyStep
    <2>4. TypeOK'
      BY <2>1, <2>3 DEF TypeOK
    <2>5. CacheIsSound'
      BY <2>1 DEF CacheIsSound, Complete
    <2> QED BY <2>3, <2>4, <2>5
  <1>2. CASE Hit(r)
    <2> DEFINE v == cacheDict[body[r]]
               a == Response(r, v)
    <2>1. Cached(r) = v /\ v # NoPredictions
      BY <1>2 DEF Hit, Cached
    <2>2. v \in Predictions /\ v.body = body[r] /\ Complete(v)
      BY <1>0, <2>1 DEF TypeOK, CacheIsSound
    <2>3. a \in Answers
      BY <2>2, AnswerTypes DEF Response
    <2>4. a.status = "ok" =>
             a.value.body = body[r] /\ a.value.form = endpoint[r] /\ Complete(a.value)
      BY <2>2 DEF Response, Without
    <2>5. Reply(r, a) /\ UNCHANGED <<endpoint, body, task, cacheDict>>
      BY <1>2, <2>1 DEF Hit
    <2> HIDE DEF a
    <2>6. /\ pc' \in [Requests -> {"idle", "read", "gather", "done"}]
          /\ answer' \in [Requests -> Answers]
          /\ \A q \in Requests : pc'[q] # "idle" => pc[q] # "idle"
          /\ Owned' /\ AnswerIsOwn'
      BY <1>0, <2>3, <2>4, <2>5, ReplyStep
    <2>7. TypeOK'
      BY <2>5, <2>6 DEF TypeOK
    <2>8. CacheIsSound'
      BY <2>5 DEF CacheIsSound, Complete
    <2> QED BY <2>6, <2>7, <2>8
  <1>3. CASE Miss(r)
    <2>1. TypeOK'
      BY <1>3 DEF Miss, TypeOK
    <2>2. \A q \in Requests, t \in Types :
             task'[q][t] = IF q = r THEN "queued" ELSE task[q][t]
      BY <1>3 DEF Miss, TypeOK
    <2>3. \A q \in Requests : pc'[q] = IF q = r THEN "gather" ELSE pc[q]
      BY <1>3 DEF Miss, TypeOK
    <2>4. Owned'
      BY <1>3, <2>2, <2>3 DEF Miss, Owned
    <2>5. AnswerIsOwn' /\ CacheIsSound'
      BY <1>3 DEF Miss, AnswerIsOwn, CacheIsSound, Complete
    <2> QED BY <2>1, <2>4, <2>5
  <1>4. CASE GatherReturns(r)
    <2> DEFINE v == Inferred(r)
               a == Response(r, v)
    <2>1. /\ v \in Predictions /\ v.body = body[r] /\ v.form = endpoint[r] /\ Complete(v)
      BY <1>0, <1>4, InferredIsOwn DEF GatherReturns
    <2>2. Shape[body[r]] = endpoint[r]
      BY <1>4, InferenceAssumption DEF GatherReturns, AllInferred, Owned
    <2> HIDE DEF v
    <2>3. a = [status |-> "ok", value |-> v]
      BY <2>1 DEF Response
    <2>4. a \in Answers /\ a.value = v
      BY <2>1, <2>3, AnswerTypes
    <2>5. Reply(r, a) /\ UNCHANGED <<endpoint, body, task>>
      BY <1>4 DEF GatherReturns, v
    <2>6. \A k \in Bodies : \/ cacheDict'[k] = cacheDict[k]
                            \/ k = body[r] /\ cacheDict'[k] = v
      BY <1>0, <1>4 DEF GatherReturns, Put, TypeOK, v
    <2>7. cacheDict' \in [Bodies -> Predictions \cup {NoPredictions}]
      BY <1>0, <1>4, <2>1 DEF GatherReturns, Put, TypeOK, v
    <2> HIDE DEF a
    <2>8. /\ pc' \in [Requests -> {"idle", "read", "gather", "done"}]
          /\ answer' \in [Requests -> Answers]
          /\ \A q \in Requests : pc'[q] # "idle" => pc[q] # "idle"
          /\ Owned' /\ AnswerIsOwn'
      BY <1>0, <2>1, <2>4, <2>5, ReplyStep
    <2>9. TypeOK'
      BY <2>5, <2>7, <2>8 DEF TypeOK
    <2>10. CacheIsSound'
      BY <2>1, <2>2, <2>6 DEF CacheIsSound, Complete
    <2> QED BY <2>8, <2>9, <2>10
  <1> QED BY <1>1, <1>2, <1>3, <1>4 DEF Handler

LEMMA NextIInv == IInv /\ [Next]_vars => IInv'
  <1> SUFFICES ASSUME IInv, [Next]_vars PROVE IInv' OBVIOUS
  <1>1. CASE UNCHANGED vars
    BY <1>1 DEF vars, IInv, TypeOK, Owned, AnswerIsOwn, CacheIsSound, Complete
  <1> QED BY <1>1, ArrivalStep, ExecutorStep, HandlerStep DEF Next, Work

LEMMA Invariance == Spec => []IInv
  BY InitIInv, NextIInv, PTL DEF Spec

\* Every variable keeps its type.
THEOREM TypeCorrect == Spec => []TypeOK
  BY Invariance, PTL DEF IInv

\* An answer is made of all the predictions of the request's own bytes.
THEOREM AnswersAreOwn == Spec => []AnswerIsOwn
  BY Invariance, PTL DEF IInv

\* The cache that both endpoints share never holds partial or foreign predictions.
THEOREM CacheStaysSound == Spec => []CacheIsSound
  BY Invariance, PTL DEF IInv

\* Whoever was answered left predictions of its bytes in the cache.
AnsweredIsCached ==
    \A q \in Requests :
        ~CacheDisabled /\ answer[q].status = "ok" => cacheDict[body[q]] # NoPredictions

LEMMA PredictionsAreSome == \A v \in Predictions : v # NoPredictions
  <1> SUFFICES ASSUME NEW v \in Predictions PROVE v # NoPredictions OBVIOUS
  <1>1. DOMAIN v = {"body", "form", "fields"}
    BY DEF Predictions
  <1>2. DOMAIN NoPredictions = {}
    BY DEF NoPredictions
  <1> QED BY <1>1, <1>2

LEMMA AnsweredStep == IInv /\ AnsweredIsCached /\ [Next]_vars => AnsweredIsCached'
  <1> SUFFICES ASSUME IInv, AnsweredIsCached, [Next]_vars,
                      NEW q \in Requests, ~CacheDisabled, answer'[q].status = "ok"
               PROVE  cacheDict'[body'[q]] # NoPredictions
    BY DEF AnsweredIsCached
  <1> USE DEF IInv
  <1>1. ASSUME NEW r \in Requests, Arrival(r) PROVE cacheDict'[body'[q]] # NoPredictions
    <2>1. answer[r].status = "none" /\ answer' = answer /\ cacheDict' = cacheDict
      BY <1>1 DEF Arrival, Receive, Owned
    <2>2. q # r /\ body'[q] = body[q]
      BY <1>1, <2>1 DEF Arrival, Receive, TypeOK
    <2> QED BY <2>1, <2>2 DEF AnsweredIsCached
  <1>2. CASE Executor \/ UNCHANGED vars
    BY <1>2 DEF Executor, WorkerTakes, WorkerEnds, vars, AnsweredIsCached
  <1>3. ASSUME NEW r \in Requests, BadRequest(r) \/ GatherRaises(r) \/ Miss(r)
        PROVE  cacheDict'[body'[q]] # NoPredictions
    <2>1. body' = body /\ cacheDict' = cacheDict
      BY <1>3 DEF BadRequest, GatherRaises, Miss
    <2>2. answer[q].status = "ok"
      <3>1. CASE Miss(r)
        BY <3>1 DEF Miss
      <3>2. CASE BadRequest(r) \/ GatherRaises(r)
        <4>1. PICK a \in {Without("400"), Without("500")} : answer' = [answer EXCEPT ![r] = a]
          BY <3>2 DEF BadRequest, GatherRaises, Reply
        <4>2. a.status # "ok"
          BY DEF Without
        <4> QED BY <4>1, <4>2 DEF TypeOK
      <3> QED BY <1>3, <3>1, <3>2
    <2> QED BY <2>1, <2>2 DEF AnsweredIsCached
  <1>4. ASSUME NEW r \in Requests, Hit(r) PROVE cacheDict'[body'[q]] # NoPredictions
    <2>1. body' = body /\ cacheDict' = cacheDict /\ cacheDict[body[r]] # NoPredictions
      BY <1>4 DEF Hit, Cached
    <2>2. q # r => answer'[q] = answer[q]
      BY <1>4 DEF Hit, Reply, TypeOK
    <2> QED BY <2>1, <2>2 DEF AnsweredIsCached
  <1>5. ASSUME NEW r \in Requests, GatherReturns(r) PROVE cacheDict'[body'[q]] # NoPredictions
    <2>1. pc[r] # "idle" /\ body[r] \in Bodies /\ body' = body
      BY <1>5 DEF GatherReturns, TypeOK
    <2>2. Inferred(r) # NoPredictions
      BY <2>1, InferredIsOwn, PredictionsAreSome
    <2>3. /\ cacheDict'[body[r]] # NoPredictions
          /\ \A k \in Bodies : k # body[r] => cacheDict'[k] = cacheDict[k]
      BY <1>5, <2>1, <2>2 DEF GatherReturns, Put, TypeOK
    <2>4. q # r => answer'[q] = answer[q]
      BY <1>5 DEF GatherReturns, Reply, TypeOK
    <2>5. CASE q # r
      <3>1. answer[q].status = "ok" /\ pc[q] # "idle"
        BY <2>4, <2>5 DEF Owned
      <3>2. body[q] \in Bodies /\ cacheDict[body[q]] # NoPredictions
        BY <3>1 DEF TypeOK, AnsweredIsCached
      <3> QED BY <2>1, <2>3, <3>2
    <2> QED BY <2>1, <2>3, <2>5
  <1> QED BY <1>1, <1>2, <1>3, <1>4, <1>5 DEF Next, Work, Handler

\* Bytes that were answered once are in the cache, so no later request misses them.
THEOREM NeverInferredAgain == Spec => InferredOnce
  <1>1. Init => AnsweredIsCached
    BY DEF Init, AnsweredIsCached, Without
  <1>2. AnsweredIsCached =>
           \A r, q \in Requests :
              ~CacheDisabled /\ answer[q].status = "ok" /\ body[q] = body[r] => ~Miss(r)
    BY DEF AnsweredIsCached, Miss, Cached
  <1>3. AnsweredIsCached /\ [Next]_vars =>
           [\A r, q \in Requests :
              ~CacheDisabled /\ answer[q].status = "ok" /\ body[q] = body[r] => ~Miss(r)]_vars
    BY <1>2
  <1>4. Spec => []AnsweredIsCached
    BY <1>1, InitIInv, NextIInv, AnsweredStep, PTL DEF Spec
  <1> QED BY <1>3, <1>4, PTL DEF Spec, InferredOnce

-----------------------------------------------------------------------------
(* Requests get on.  Proved is what EveryRequestAnswered rests on: somebody    *)
(* can always work, and the work is finite.                                    *)

\* Inferences are created when the request starts to wait for them.
Phases ==
    \A r \in Requests, t \in Types :
        /\ pc[r] \in {"idle", "read"} => task[r][t] = "off"
        /\ pc[r] = "gather" => task[r][t] # "off"

Unstarted(r) == {t \in Types : task[r][t] \in {"off", "queued"}}
Unended(r) == {t \in Types : task[r][t] \in {"off", "queued", "running"}}

\* What is left of a handler.
HandlerLeft(r) ==
    CASE pc[r] = "idle" -> 3 [] pc[r] = "read" -> 2 [] pc[r] = "gather" -> 1 [] OTHER -> 0

StepsLeft(r) == Cardinality(Unstarted(r)) + Cardinality(Unended(r)) + HandlerLeft(r)

\* A handler that can take its next step, or an inference that can start or end.
CanWork ==
    \/ \E r \in Requests : \/ pc[r] = "read"
                           \/ pc[r] = "gather" /\ (AllInferred(r) \/ Raised(r))
    \/ \E r \in Requests, t \in Types : \/ task[r][t] = "running"
                                        \/ task[r][t] = "queued" /\ Busy < Workers

LEMMA HandlerEffect ==
    ASSUME IInv, NEW r \in Requests, Handler(r)
    PROVE  /\ \A q \in Requests \ {r} : pc'[q] = pc[q] /\ task'[q] = task[q]
           /\ \/ pc[r] \in {"read", "gather"} /\ pc'[r] = "done" /\ task'[r] = task[r]
              \/ /\ pc[r] = "read" /\ pc'[r] = "gather"
                 /\ \A t \in Types : task'[r][t] = "queued"
<1>1. CASE Miss(r) BY <1>1 DEF Miss, IInv, TypeOK
<1>2. CASE BadRequest(r) \/ Hit(r) \/ GatherReturns(r) \/ GatherRaises(r)
  <2>1. /\ pc[r] \in {"read", "gather"} /\ pc' = [pc EXCEPT ![r] = "done"] /\ task' = task
    BY <1>2 DEF BadRequest, Hit, GatherReturns, GatherRaises, Reply
  <2> QED BY <2>1 DEF IInv, TypeOK
<1> QED BY <1>1, <1>2 DEF Handler

LEMMA ExecutorEffect ==
    ASSUME IInv, Executor
    PROVE  \E r \in Requests, t \in Types :
              /\ pc' = pc
              /\ \A q \in Requests \ {r} : task'[q] = task[q]
              /\ \A s \in Types \ {t} : task'[r][s] = task[r][s]
              /\ \/ task[r][t] = "queued" /\ task'[r][t] = "running"
                 \/ task[r][t] = "running" /\ task'[r][t] \in {"ok", "raised"}
<1>1. PICK r \in Requests, t \in Types : WorkerTakes(r, t) \/ WorkerEnds(r, t)
      BY DEF Executor
<1>2. \E result \in {"running", "ok", "raised"} :
         /\ \/ task[r][t] = "queued" /\ result = "running"
            \/ task[r][t] = "running" /\ result # "running"
         /\ task' = [task EXCEPT ![r][t] = result] /\ pc' = pc
      BY <1>1 DEF WorkerTakes, WorkerEnds
<1> QED BY <1>2 DEF IInv, TypeOK

LEMMA PhasesKept == IInv /\ Phases /\ [Next]_vars => Phases'
<1> SUFFICES ASSUME IInv, Phases, [Next]_vars PROVE Phases' OBVIOUS
<1>1. CASE UNCHANGED vars BY <1>1 DEF vars, Phases
<1>2. ASSUME NEW r \in Requests, Arrival(r) PROVE Phases'
      BY <1>2 DEF Arrival, Receive, Phases, IInv, TypeOK
<1>3. CASE Executor
  <2>1. PICK r \in Requests, t \in Types :
           /\ pc' = pc
           /\ \A q \in Requests \ {r} : task'[q] = task[q]
           /\ \A s \in Types \ {t} : task'[r][s] = task[r][s]
           /\ \/ task[r][t] = "queued" /\ task'[r][t] = "running"
              \/ task[r][t] = "running" /\ task'[r][t] \in {"ok", "raised"}
    BY <1>3, ExecutorEffect
  <2> QED BY <2>1 DEF Phases
<1>4. ASSUME NEW r \in Requests, Handler(r) PROVE Phases'
      BY <1>4, HandlerEffect DEF Phases
<1> QED BY <1>1, <1>2, <1>3, <1>4 DEF Next, Work

LEMMA TypesCount ==
    ASSUME NEW r \in Requests
    PROVE  /\ IsFiniteSet(Unstarted(r)) /\ Cardinality(Unstarted(r)) \in Nat
           /\ IsFiniteSet(Unended(r)) /\ Cardinality(Unended(r)) \in Nat
<1>1. Unstarted(r) \subseteq Types /\ Unended(r) \subseteq Types BY DEF Unstarted, Unended
<1> QED BY <1>1, InferenceAssumption, FS_Subset, FS_CardinalityType

LEMMA StepsAreNat == ASSUME NEW r \in Requests PROVE StepsLeft(r) \in Nat
<1>1. HandlerLeft(r) \in Nat BY DEF HandlerLeft
<1> QED BY <1>1, TypesCount DEF StepsLeft

\* A step of a handler, or an arrival: as many inferences are left as before.
LEMMA HandlerStepCounts ==
    ASSUME NEW r \in Requests, Unstarted(r)' = Unstarted(r), Unended(r)' = Unended(r),
           HandlerLeft(r)' < HandlerLeft(r)
    PROVE  StepsLeft(r)' < StepsLeft(r)
<1>1. HandlerLeft(r) \in Nat /\ HandlerLeft(r)' \in Nat BY DEF HandlerLeft
<1>2. /\ StepsLeft(r)' = Cardinality(Unstarted(r)) + Cardinality(Unended(r)) + HandlerLeft(r)'
      /\ StepsLeft(r) = Cardinality(Unstarted(r)) + Cardinality(Unended(r)) + HandlerLeft(r)
      BY DEF StepsLeft
<1>3. Cardinality(Unstarted(r)) \in Nat /\ Cardinality(Unended(r)) \in Nat BY TypesCount
<1> HIDE DEF HandlerLeft, StepsLeft, Unstarted, Unended
<1> QED BY <1>1, <1>2, <1>3

LEMMA HandlerCounts ==
    ASSUME IInv, Phases, NEW r \in Requests, Handler(r) \/ Arrival(r)
    PROVE  /\ StepsLeft(r)' < StepsLeft(r)
           /\ \A q \in Requests \ {r} : StepsLeft(q)' = StepsLeft(q)
<1>1. /\ \A q \in Requests \ {r} : pc'[q] = pc[q] /\ task'[q] = task[q]
      /\ \/ pc[r] \in {"read", "gather"} /\ pc'[r] = "done" /\ task'[r] = task[r]
         \/ pc[r] = "read" /\ pc'[r] = "gather" /\ \A t \in Types : task'[r][t] = "queued"
         \/ pc[r] = "idle" /\ pc'[r] = "read" /\ task'[r] = task[r]
  <2>1. CASE Handler(r) BY <2>1, HandlerEffect
  <2>2. CASE Arrival(r) BY <2>2 DEF Arrival, Receive, IInv, TypeOK
  <2> QED BY <2>1, <2>2
<1>2. Unstarted(r)' = Unstarted(r) /\ Unended(r)' = Unended(r)
      BY <1>1 DEF Phases, Unstarted, Unended
<1>3. HandlerLeft(r)' < HandlerLeft(r) BY <1>1 DEF HandlerLeft
<1>4. ASSUME NEW q \in Requests \ {r} PROVE StepsLeft(q)' = StepsLeft(q)
      BY <1>1 DEF StepsLeft, Unstarted, Unended, HandlerLeft
<1> QED BY <1>2, <1>3, <1>4, HandlerStepCounts

LEMMA ExecutorCounts ==
    ASSUME IInv, Executor
    PROVE  \E r \in Requests : /\ StepsLeft(r)' < StepsLeft(r)
                               /\ \A q \in Requests \ {r} : StepsLeft(q)' = StepsLeft(q)
<1>1. PICK r \in Requests, t \in Types :
         /\ pc' = pc
         /\ \A q \in Requests \ {r} : task'[q] = task[q]
         /\ \A s \in Types \ {t} : task'[r][s] = task[r][s]
         /\ \/ task[r][t] = "queued" /\ task'[r][t] = "running"
            \/ task[r][t] = "running" /\ task'[r][t] \in {"ok", "raised"}
      BY ExecutorEffect
<1>2. ASSUME NEW q \in Requests \ {r} PROVE StepsLeft(q)' = StepsLeft(q)
      BY <1>1 DEF StepsLeft, Unstarted, Unended, HandlerLeft
<1>3. \/ /\ t \in Unstarted(r) /\ Unstarted(r)' = Unstarted(r) \ {t}
         /\ Unended(r)' = Unended(r)
      \/ /\ t \in Unended(r) /\ Unended(r)' = Unended(r) \ {t}
         /\ Unstarted(r)' = Unstarted(r)
  <2>1. CASE task[r][t] = "queued" BY <1>1, <2>1 DEF Unstarted, Unended
  <2>2. CASE task[r][t] = "running" BY <1>1, <2>2 DEF Unstarted, Unended
  <2> QED BY <1>1, <2>1, <2>2
<1>4. \/ /\ Cardinality(Unstarted(r))' = Cardinality(Unstarted(r)) - 1
         /\ Cardinality(Unended(r))' = Cardinality(Unended(r))
      \/ /\ Cardinality(Unended(r))' = Cardinality(Unended(r)) - 1
         /\ Cardinality(Unstarted(r))' = Cardinality(Unstarted(r))
  <2>1. /\ t \in Unstarted(r) =>
             Cardinality(Unstarted(r) \ {t}) = Cardinality(Unstarted(r)) - 1
        /\ t \in Unended(r) => Cardinality(Unended(r) \ {t}) = Cardinality(Unended(r)) - 1
    BY TypesCount, FS_RemoveElement
  <2> QED BY <1>3, <2>1
<1>5. HandlerLeft(r)' = HandlerLeft(r) /\ HandlerLeft(r) \in Nat BY <1>1 DEF HandlerLeft
<1>6. /\ StepsLeft(r)' = Cardinality(Unstarted(r))' + Cardinality(Unended(r))' + HandlerLeft(r)'
      /\ StepsLeft(r) = Cardinality(Unstarted(r)) + Cardinality(Unended(r)) + HandlerLeft(r)
      BY DEF StepsLeft
<1>7. Cardinality(Unstarted(r)) \in Nat /\ Cardinality(Unended(r)) \in Nat BY TypesCount
<1>8. StepsLeft(r)' < StepsLeft(r)
  <2> HIDE DEF HandlerLeft, StepsLeft, Unstarted, Unended
  <2> QED BY <1>4, <1>5, <1>6, <1>7
<1> QED BY <1>2, <1>8

\* The work is finite: every step of a handler or of the executor, the stragglers of
\* failed requests included, brings one request nearer to its end and none back.
THEOREM RequestsAreFinite ==
    Spec => /\ [](\A r \in Requests : StepsLeft(r) \in Nat)
            /\ [][\E r \in Requests :
                     /\ StepsLeft(r)' < StepsLeft(r)
                     /\ \A q \in Requests \ {r} : StepsLeft(q)' = StepsLeft(q)]_vars
<1>1. Init => Phases BY DEF Init, Phases
<1>2. ASSUME IInv, Phases, [Next]_vars
      PROVE  [\E r \in Requests :
                 /\ StepsLeft(r)' < StepsLeft(r)
                 /\ \A q \in Requests \ {r} : StepsLeft(q)' = StepsLeft(q)]_vars
  <2>1. CASE \E r \in Requests : Handler(r) \/ Arrival(r) BY <1>2, <2>1, HandlerCounts
  <2>2. CASE Executor BY <1>2, <2>2, ExecutorCounts
  <2> QED BY <1>2, <2>1, <2>2 DEF Next, Work
<1>3. \A r \in Requests : StepsLeft(r) \in Nat BY StepsAreNat
<1> QED BY <1>1, <1>2, <1>3, Invariance, PhasesKept, PTL DEF Spec

\* Nobody waits for ever for a thread: while a request that arrived has no answer, a
\* handler or a worker can go on, however many threads the inferences of failed
\* requests hold (gather() leaves them running) and however few there are.
THEOREM RequestsNeverStall ==
    Spec => []((\E r \in Requests : pc[r] \notin {"idle", "done"}) => CanWork)
<1>1. Init => Phases BY DEF Init, Phases
<1>2. ASSUME IInv, Phases, NEW r \in Requests, pc[r] \notin {"idle", "done"}
      PROVE  CanWork
  <2>1. pc[r] \in {"read", "gather"} BY <1>2 DEF IInv, TypeOK
  <2>2. CASE pc[r] = "gather" /\ ~AllInferred(r) /\ ~Raised(r)
    <3>1. PICK t \in Types : task[r][t] \in {"queued", "running"}
          BY <1>2, <2>2 DEF AllInferred, Raised, Phases, IInv, TypeOK
    <3>2. CASE \A q \in Requests, s \in Types : task[q][s] # "running"
      <4>1. {p \in Requests \X Types : task[p[1]][p[2]] = "running"} = {} BY <3>2
      <4>2. Busy = 0 BY <4>1, FS_EmptySet DEF Busy
      <4>3. Busy < Workers BY <4>2, InferenceAssumption
      <4> QED BY <3>1, <3>2, <4>3 DEF CanWork
    <3> QED BY <3>2 DEF CanWork
  <2> QED BY <2>1, <2>2 DEF CanWork
<1>3. IInv /\ Phases => ((\E r \in Requests : pc[r] \notin {"idle", "done"}) => CanWork)
      BY <1>2
<1> QED BY <1>1, <1>3, Invariance, PhasesKept, PTL DEF Spec

-----------------------------------------------------------------------------
(* CombinePipeline *)

\* A set of numbers has a least one, and a bounded one a greatest: what takes the
\* place of inductions over the segments and folders below.
LEMMA LeastExists ==
    ASSUME NEW T \in SUBSET Nat, T # {}
    PROVE  \E x \in T : \A y \in T : x <= y
<1> DEFINE R == OpToRel(<, Nat)
<1>1. \A x, y \in Nat : <<y, x>> \in R <=> y < x
  BY DEF OpToRel
<1>2. IsWellFoundedOn(R, Nat)
  BY NatLessThanWellFounded
<1> HIDE DEF R
<1>3. PICK x \in T : \A y \in T : ~(<<y, x>> \in R)
  BY <1>2, WFMin
<1>4. ASSUME NEW y \in T PROVE x <= y
  <2>1. x \in Nat /\ y \in Nat
    OBVIOUS
  <2>2. ~(y < x)
    BY <1>1, <1>3, <2>1
  <2> QED
    BY <2>1, <2>2
<1> QED
  BY <1>4

LEMMA GreatestExists ==
    ASSUME NEW n \in Nat, NEW T \in SUBSET (1 .. n), T # {}
    PROVE  \E x \in T : \A y \in T : y <= x
<1> DEFINE U == {k \in Nat : \A y \in T : y <= k}
<1>1. U \in SUBSET Nat /\ n \in U
  OBVIOUS
<1>2. PICK x \in U : \A y \in U : x <= y
  BY <1>1, LeastExists
<1>3. x \in T
  <2> SUFFICES ASSUME x \notin T PROVE FALSE
    OBVIOUS
  <2>1. \A y \in T : y <= x - 1 /\ y >= 1
    BY <1>2
  <2>2. PICK y \in T : TRUE
    OBVIOUS
  <2>3. x - 1 \in Nat
    BY <2>1, <2>2
  <2>4. x - 1 \in U
    BY <2>1, <2>3
  <2> QED
    BY <2>4, <1>2
<1> QED
  BY <1>2, <1>3

-----------------------------------------------------------------------------
\* Of every segment that had results at the beginning, S has one with the same start time.
Covers(S, began, times) ==
    \A s \in Segments :
        began["results"][s] > 0 => \E t \in S : times[t] = times[s]

\* The bucket only grows after an invocation began.
BeganEarlier(r, bucket) == \A k \in Kinds, s \in Segments : r.began[k][s] <= bucket[k][s]

\* A summary on the disk was there when the invocation began, or was loaded since.
FilesAreKnown(r, files) ==
    \A s \in Segments : files["grid"][s] = r.warm[s] \/ files["grid"][s] >= r.began["grid"][s]

\* What was there at the beginning is listed.
ListedAll(r) == \A s \in Segments : r.began[r.at][s] > 0 => s \in r.listed

\* Listed summaries exist, and those that are done are on the disk.
Loaded(r, files, bucket) ==
    \A s \in r.listed : bucket["grid"][s] > 0 /\ (s \in r.todo \/ files["grid"][s] # 0)

RunOK(r, files, bucket, times, folders) ==
    r.at # "idle" =>
        /\ BeganEarlier(r, bucket)
        /\ FilesAreKnown(r, files)
        /\ r.at \in Kinds => ListedAll(r)
        /\ r.at = "grid" => Loaded(r, files, bucket) /\ Covers(r.segments, r.began, times)
        /\ r.at = "uploading" => r.folder \in 1 .. folders

\* The disk holds no summary that was not written yet.
Stored(files, bucket) == \A s \in Segments : files["grid"][s] <= bucket["grid"][s]

\* The rows of s, in all frames, are those of one version of its summary, 0 for none.
AreOf(rows, version, versions) ==
    \A m \in Measures :
        rows[m] = IF version # 0 /\ m \in versions[version] THEN version ELSE 0

ExportExplained(e, written) ==
    \A s \in DOMAIN e.rows : \E version \in 0 .. Len(written[s]) :
        /\ AreOf(e.rows[s], version, written[s])
        /\ version = 0 => e.began["grid"][s] = 0
        /\ version < e.began["grid"][s] => version = e.warm[s]

ExportOK(e, times, written) ==
    /\ ExportExplained(e, written)
    /\ Covers(DOMAIN e.rows, e.began, times)
    /\ e.answered => e.files = NumFiles

Folders == UNION {ExportType(S) : S \in SUBSET Segments}

\* The type invariant, with the folders as a sequence.
CombineForm ==
    /\ startTime \in [Segments -> StartTimes]
    /\ input \in Versions
    /\ summaries \in [Segments -> Seq(SUBSET Measures)]
    /\ local \in [Containers -> Versions]
    /\ run \in [Containers -> RunType]
    /\ exports \in Seq(Folders)
    /\ deliveries \in 0 .. MaxDeliveries

CombineInv ==
    /\ CombineForm
    /\ \A c \in Containers : RunOK(run[c], local[c], input, startTime, Len(exports))
    /\ \A s \in Segments : Len(summaries[s]) = input["grid"][s]
    /\ \A c \in Containers : Stored(local[c], input)
    /\ \A i \in 1 .. Len(exports) : ExportOK(exports[i], startTime, summaries)

LEMMA InvImplies == CombineInv => RowsAreExplained /\ AnnouncedIsWhole
<1> SUFFICES ASSUME CombineInv PROVE RowsAreExplained /\ AnnouncedIsWhole
  OBVIOUS
<1>1. DOMAIN exports = 1 .. Len(exports)
  BY DEF CombineInv, CombineForm
<1> QED
  BY <1>1 DEF CombineInv, ExportOK, ExportExplained, AreOf, Covers, RowsAreExplained,
     AnnouncedIsWhole

LEMMA CombineInitInv == CombineInit => CombineInv
<1> SUFFICES ASSUME CombineInit PROVE CombineInv
  OBVIOUS
<1>1. NoFiles \in Versions
  BY DEF NoFiles, Versions
<1>2. CombineForm
  BY <1>1, CombineAssumption DEF CombineInit, CombineForm, RunType, Idle
<1>3. \A s \in Segments : Len(summaries[s]) = input["grid"][s]
  BY DEF CombineInit, NoFiles, Kinds
<1>4. \A c \in Containers : Stored(local[c], input)
  BY DEF CombineInit, NoFiles, Kinds, Stored
<1> QED
  BY <1>2, <1>3, <1>4 DEF CombineInit, CombineInv, RunOK, Idle

-----------------------------------------------------------------------------
(* What one container's step leaves alone *)

Waiting == [at : {"listing results"}, began : Versions, warm : [Segments -> Nat]]
Fetching == [at : {"results", "grid"}, began : Versions, warm : [Segments -> Nat],
             listed : SUBSET Segments, todo : SUBSET Segments, segments : SUBSET Segments]
Sending == [at : {"uploading"}, began : Versions, warm : [Segments -> Nat], folder : Nat]

LEMMA RunTypes ==
    /\ RunType = {Idle} \cup Waiting \cup Fetching \cup Sending
    /\ Idle.at = "idle"
    /\ \A r \in Waiting : r.at = "listing results"
    /\ \A r \in Fetching : r.at \in Kinds
    /\ \A r \in Sending : r.at = "uploading"
    /\ Kinds = {"results", "grid"}
  BY DEF RunType, Idle, Kinds, Waiting, Fetching, Sending

LEMMA RunsAtWork ==
    ASSUME NEW r \in RunType, r.at # "idle"
    PROVE  r.began \in Versions /\ r.warm \in [Segments -> Nat]
<1>1. r \in Waiting \cup Fetching \cup Sending
  BY RunTypes
<1> QED
  BY <1>1 DEF Waiting, Fetching, Sending

LEMMA RunsByPlace ==
    ASSUME NEW r \in RunType
    PROVE  /\ r.at = "listing results" => r \in Waiting
           /\ r.at \in Kinds => r \in Fetching
           /\ r.at = "uploading" => r \in Sending
  BY RunTypes

\* A larger bucket and more folders do not disturb an invocation.
LEMMA RunOKKept ==
    ASSUME NEW r \in RunType, NEW files, NEW old \in Versions, NEW new \in Versions, NEW times,
           NEW m \in Nat, NEW n \in Nat, m <= n,
           \A k \in Kinds, s \in Segments : old[k][s] <= new[k][s],
           RunOK(r, files, old, times, m)
    PROVE  RunOK(r, files, new, times, n)
<1> SUFFICES ASSUME r.at # "idle"
             PROVE  /\ BeganEarlier(r, new)
                    /\ r.at = "grid" => Loaded(r, files, new)
                    /\ r.at = "uploading" => r.folder \in 1 .. n
  BY DEF RunOK
<1>0. "grid" \in Kinds
  BY DEF Kinds
<1>1. r.began \in Versions
  BY RunsAtWork
<1>2. BeganEarlier(r, new)
  BY <1>1 DEF RunOK, BeganEarlier, Versions
<1>3. r.at = "grid" => r.listed \subseteq Segments
  BY RunsByPlace, <1>0 DEF Fetching
<1>4. r.at = "grid" => Loaded(r, files, new)
  BY <1>0, <1>3 DEF RunOK, Loaded, Versions
<1>5. r.at = "uploading" => r.folder \in 1 .. n
  BY DEF RunOK
<1> QED
  BY <1>2, <1>4, <1>5

\* A step of container c that leaves the bucket alone and appends to the folders, if anything.
LEMMA StepOfContainer ==
    ASSUME CombineInv, NEW c \in Containers, NEW r \in RunType, NEW files \in Versions,
           run' = [run EXCEPT ![c] = r], local' = [local EXCEPT ![c] = files],
           UNCHANGED <<startTime, input, summaries>>, deliveries' \in 0 .. MaxDeliveries,
           exports' \in Seq(Folders), Len(exports) <= Len(exports'),
           RunOK(r, files, input, startTime, Len(exports')), Stored(files, input),
           \A i \in 1 .. Len(exports') : ExportOK(exports'[i], startTime, summaries)
    PROVE  CombineInv'
<1>0. /\ run \in [Containers -> RunType] /\ local \in [Containers -> Versions]
      /\ input \in Versions /\ exports \in Seq(Folders)
      /\ startTime \in [Segments -> StartTimes] /\ summaries \in [Segments -> Seq(SUBSET Measures)]
  BY DEF CombineInv, CombineForm
<1>1. CombineForm'
  BY <1>0 DEF CombineForm
<1>2. ASSUME NEW d \in Containers
      PROVE  RunOK(run'[d], local'[d], input, startTime, Len(exports'))
  <2>1. CASE d = c
    BY <1>0, <2>1
  <2>2. CASE d # c
    <3>1. run'[d] = run[d] /\ local'[d] = local[d] /\ run[d] \in RunType
      BY <1>0, <2>2
    <3>2. RunOK(run[d], local[d], input, startTime, Len(exports))
      BY DEF CombineInv
    <3>3. \A k \in Kinds, s \in Segments : input[k][s] <= input[k][s]
      BY <1>0 DEF Versions
    <3>4. Len(exports) \in Nat /\ Len(exports') \in Nat
      BY <1>0
    <3>5. RunOK(run[d], local[d], input, startTime, Len(exports'))
      BY <1>0, <3>1, <3>2, <3>3, <3>4, RunOKKept
    <3> QED
      BY <3>1, <3>5
  <2> QED
    BY <2>1, <2>2
<1> QED
  BY <1>1, <1>2 DEF CombineInv

-----------------------------------------------------------------------------
(* The steps *)

LEMMA InvTypes ==
    ASSUME CombineInv
    PROVE  /\ run \in [Containers -> RunType] /\ local \in [Containers -> Versions]
           /\ input \in Versions /\ exports \in Seq(Folders) /\ Len(exports) \in Nat
           /\ startTime \in [Segments -> StartTimes] /\ deliveries \in 0 .. MaxDeliveries
           /\ \A i \in 1 .. Len(exports) : exports[i] \in Folders
           /\ \A c \in Containers : Stored(local[c], input)
           /\ \A s \in Segments : Len(summaries[s]) = input["grid"][s]
           /\ summaries \in [Segments -> Seq(SUBSET Measures)]
  BY DEF CombineInv, CombineForm

\* StepOfContainer where the folders are left alone, too.
LEMMA StepWithoutFolder ==
    ASSUME CombineInv, NEW c \in Containers, NEW r \in RunType, NEW files \in Versions,
           run' = [run EXCEPT ![c] = r], local' = [local EXCEPT ![c] = files],
           UNCHANGED <<startTime, input, summaries, exports>>, deliveries' \in 0 .. MaxDeliveries,
           RunOK(r, files, input, startTime, Len(exports)), Stored(files, input)
    PROVE  CombineInv'
<1>1. \A i \in 1 .. Len(exports') : ExportOK(exports'[i], startTime, summaries)
  BY DEF CombineInv
<1>2. exports' \in Seq(Folders) /\ Len(exports) <= Len(exports')
  BY InvTypes
<1>3. RunOK(r, files, input, startTime, Len(exports'))
  OBVIOUS
<1> QED
  BY <1>1, <1>2, <1>3, StepOfContainer

\* What a version of a summary holds never changes: new ones leave the rows explained.
LEMMA ExplainedKept ==
    ASSUME NEW e \in Folders, NEW old \in [Segments -> Seq(SUBSET Measures)],
           NEW new \in [Segments -> Seq(SUBSET Measures)],
           \A s \in Segments : /\ Len(old[s]) <= Len(new[s])
                             /\ \A v \in 1 .. Len(old[s]) : new[s][v] = old[s][v],
           ExportExplained(e, old)
    PROVE  ExportExplained(e, new)
<1>1. DOMAIN e.rows \subseteq Segments
  BY DEF Folders, ExportType
<1>2. ASSUME NEW s \in DOMAIN e.rows
      PROVE  \E version \in 0 .. Len(new[s]) :
                /\ AreOf(e.rows[s], version, new[s])
                /\ version = 0 => e.began["grid"][s] = 0
                /\ version < e.began["grid"][s] => version = e.warm[s]
  <2>1. PICK version \in 0 .. Len(old[s]) :
           /\ AreOf(e.rows[s], version, old[s])
           /\ version = 0 => e.began["grid"][s] = 0
           /\ version < e.began["grid"][s] => version = e.warm[s]
    BY DEF ExportExplained
  <2>2. /\ Len(old[s]) \in Nat /\ Len(new[s]) \in Nat /\ Len(old[s]) <= Len(new[s])
        /\ \A v \in 1 .. Len(old[s]) : new[s][v] = old[s][v]
    BY <1>1
  <2>3. version \in 0 .. Len(new[s])
    BY <2>2
  <2>4. version # 0 => new[s][version] = old[s][version]
    BY <2>2
  <2>5. AreOf(e.rows[s], version, new[s])
    BY <2>1, <2>4 DEF AreOf
  <2> QED
    BY <2>1, <2>3, <2>5
<1> QED
  BY <1>2 DEF ExportExplained

LEMMA PutInputKeeps ==
    ASSUME CombineInv, NEW k \in Kinds, NEW s \in Segments, PutInput(k, s)
    PROVE  CombineInv'
<1>0. input \in Versions /\ "grid" \in Kinds
  BY InvTypes DEF Kinds
<1>1. input' \in Versions /\ \A j \in Kinds, t \in Segments : input[j][t] <= input'[j][t]
  BY <1>0 DEF PutInput, Versions
<1>2. /\ summaries' \in [Segments -> Seq(SUBSET Measures)]
      /\ \A t \in Segments :
            /\ Len(summaries'[t]) = input'["grid"][t]
            /\ Len(summaries[t]) <= Len(summaries'[t])
            /\ \A v \in 1 .. Len(summaries[t]) : summaries'[t][v] = summaries[t][v]
  <2>0. /\ summaries \in [Segments -> Seq(SUBSET Measures)]
        /\ \A t \in Segments : Len(summaries[t]) = input["grid"][t]
        /\ \A t \in Segments : Len(summaries[t]) \in Nat
    BY InvTypes
  <2>1. CASE k = "results"
    <3>1. summaries' = summaries /\ \A t \in Segments : input'["grid"][t] = input["grid"][t]
      BY <1>0, <2>1 DEF PutInput, Versions
    <3> QED
      BY <2>0, <3>1
  <2>2. CASE k = "grid"
    <3>1. PICK content \in Contents[s] :
             summaries' = [summaries EXCEPT ![s] = Append(@, content)]
      BY <2>2 DEF PutInput
    <3>2. content \in SUBSET Measures
      BY CombineAssumption
    <3>3. /\ Append(summaries[s], content) \in Seq(SUBSET Measures)
          /\ Len(Append(summaries[s], content)) = Len(summaries[s]) + 1
          /\ \A v \in 1 .. Len(summaries[s]) : Append(summaries[s], content)[v] = summaries[s][v]
      BY <2>0, <3>2
    <3>4. /\ \A t \in Segments : summaries'[t] = IF t = s THEN Append(summaries[s], content)
                                                 ELSE summaries[t]
          /\ \A t \in Segments : input'["grid"][t] = IF t = s THEN input["grid"][t] + 1
                                                     ELSE input["grid"][t]
      BY <1>0, <2>0, <2>2, <3>1 DEF PutInput, Versions
    <3>5. summaries' \in [Segments -> Seq(SUBSET Measures)]
      BY <2>0, <3>1, <3>3
    <3> QED
      BY <2>0, <3>3, <3>4, <3>5
  <2> QED
    BY <2>1, <2>2 DEF Kinds
<1>3. CombineForm'
  BY <1>1, <1>2 DEF PutInput, CombineInv, CombineForm
<1>4. ASSUME NEW c \in Containers
      PROVE  /\ RunOK(run[c], local[c], input', startTime, Len(exports))
             /\ Stored(local[c], input')
  <2>1. RunOK(run[c], local[c], input, startTime, Len(exports)) /\ run[c] \in RunType
    BY InvTypes DEF CombineInv
  <2>2. RunOK(run[c], local[c], input', startTime, Len(exports))
    BY <1>0, <1>1, <2>1, InvTypes, RunOKKept
  <2>3. ASSUME NEW t \in Segments PROVE local[c]["grid"][t] <= input'["grid"][t]
    <3>1. local[c]["grid"][t] <= input["grid"][t] /\ input["grid"][t] <= input'["grid"][t]
      BY <1>0, <1>1, InvTypes DEF Stored
    <3>2. /\ local[c]["grid"][t] \in Nat /\ input["grid"][t] \in Nat
          /\ input'["grid"][t] \in Nat
      BY <1>0, <1>1, InvTypes DEF Versions
    <3> QED
      BY <3>1, <3>2
  <2> QED
    BY <2>2, <2>3 DEF Stored
<1>5. ASSUME NEW i \in 1 .. Len(exports) PROVE ExportOK(exports[i], startTime, summaries')
  <2>1. exports[i] \in Folders /\ ExportOK(exports[i], startTime, summaries)
    BY InvTypes DEF CombineInv
  <2>2. summaries \in [Segments -> Seq(SUBSET Measures)] /\ ExportExplained(exports[i], summaries)
    BY <2>1, InvTypes DEF ExportOK
  <2>3. ExportExplained(exports[i], summaries')
    BY <1>2, <2>1, <2>2, ExplainedKept
  <2> QED
    BY <2>1, <2>3 DEF ExportOK
<1> QED
  BY <1>2, <1>3, <1>4, <1>5 DEF PutInput, CombineInv

LEMMA DeliverKeeps ==
    ASSUME CombineInv, NEW c \in Containers, NEW isNew \in BOOLEAN, Deliver(c, isNew)
    PROVE  CombineInv'
<1> DEFINE files == IF isNew THEN NoFiles ELSE local[c]
           r == [at |-> "listing results", began |-> input, warm |-> files["grid"]]
<1>0. "grid" \in Kinds /\ "listing results" \notin Kinds
  BY DEF Kinds
<1>1. files \in Versions /\ Stored(files, input)
  <2>1. files \in Versions
    BY InvTypes DEF NoFiles, Versions
  <2>2. \A s \in Segments : NoFiles["grid"][s] = 0
    BY <1>0 DEF NoFiles
  <2>3. \A s \in Segments : input["grid"][s] \in Nat
    <3>1. input \in Versions
      BY InvTypes
    <3> QED
      BY <1>0, <3>1 DEF Versions
  <2>4. Stored(NoFiles, input)
    BY <2>2, <2>3 DEF Stored
  <2> QED
    BY <2>1, <2>4, InvTypes
<1>2. local' = [local EXCEPT ![c] = files]
  BY InvTypes DEF Deliver
<1>3. run' = [run EXCEPT ![c] = r]
  BY <1>2, InvTypes DEF Deliver
<1>4. files["grid"] \in [Segments -> Nat]
  BY <1>0, <1>1 DEF Versions
<1>5. r \in RunType
  BY <1>4, InvTypes DEF RunType
<1>6. /\ r.at = "listing results" /\ r.began = input /\ r.warm = files["grid"]
  OBVIOUS
<1> HIDE DEF files, r
<1>7. BeganEarlier(r, input)
  <2>1. \A k \in Kinds, s \in Segments : input[k][s] <= input[k][s]
    BY InvTypes DEF Versions
  <2>2. \A k \in Kinds, s \in Segments : r.began[k][s] <= input[k][s]
    BY <1>6, <2>1
  <2> QED
    BY <2>2 DEF BeganEarlier
<1>8. RunOK(r, files, input, startTime, Len(exports))
  BY <1>0, <1>6, <1>7 DEF RunOK, FilesAreKnown
<1>9. deliveries' \in 0 .. MaxDeliveries
  <2>1. deliveries \in 0 .. MaxDeliveries /\ MaxDeliveries \in Nat
    BY InvTypes, CombineAssumption
  <2>2. deliveries < MaxDeliveries /\ deliveries' = deliveries + 1
    BY DEF Deliver
  <2> QED
    BY <2>1, <2>2
<1> QED
  BY <1>1, <1>2, <1>3, <1>5, <1>8, <1>9, StepWithoutFolder DEF Deliver

LEMMA FailKeeps == ASSUME CombineInv, NEW c \in Containers, Fail(c) PROVE CombineInv'
<1>1. Idle \in RunType /\ RunOK(Idle, local[c], input, startTime, Len(exports))
  BY DEF RunType, RunOK, Idle
<1>2. local' = [local EXCEPT ![c] = local[c]] /\ local[c] \in Versions
  BY InvTypes DEF Fail
<1> QED
  BY <1>1, <1>2, InvTypes, StepWithoutFolder DEF Fail

LEMMA ListResultsKeeps ==
    ASSUME CombineInv, NEW c \in Containers, ListResults(c)
    PROVE  CombineInv'
<1> DEFINE old == run[c]
           L == Listed("results")
           r == [at |-> "results", began |-> old.began, warm |-> old.warm,
                 listed |-> L, todo |-> L, segments |-> {}]
<1>0. old \in RunType /\ old.at = "listing results" /\ "results" \in Kinds
  BY InvTypes DEF ListResults, Kinds
<1>1. old.began \in Versions /\ old.warm \in [Segments -> Nat]
  BY <1>0, RunsAtWork
<1>2. L \in SUBSET Segments
  BY DEF Listed
<1>3. r \in RunType
  BY <1>1, <1>2 DEF RunType
<1>4. run' = [run EXCEPT ![c] = r] /\ local' = [local EXCEPT ![c] = local[c]]
  BY InvTypes DEF ListResults
<1>5. r.at = "results" /\ r.began = old.began /\ r.warm = old.warm /\ r.listed = L
  OBVIOUS
<1> HIDE DEF old, r
<1>6. RunOK(old, local[c], input, startTime, Len(exports))
  BY DEF CombineInv, old
<1>7. ASSUME NEW s \in Segments, r.began[r.at][s] > 0 PROVE s \in r.listed
  <2>1. old.began["results"][s] <= input["results"][s]
    BY <1>0, <1>6 DEF RunOK, BeganEarlier
  <2>2. old.began["results"][s] \in Nat /\ input["results"][s] \in Nat
    BY <1>0, <1>1, InvTypes DEF Versions
  <2>3. input["results"][s] > 0
    BY <1>5, <1>7, <2>1, <2>2
  <2> QED
    BY <1>5, <2>3 DEF Listed
<1>8. RunOK(r, local[c], input, startTime, Len(exports))
  BY <1>0, <1>5, <1>6, <1>7 DEF RunOK, BeganEarlier, FilesAreKnown, ListedAll
<1>9. local[c] \in Versions /\ Stored(local[c], input) /\ deliveries' \in 0 .. MaxDeliveries
  BY InvTypes DEF ListResults
<1> QED
  BY <1>3, <1>4, <1>8, <1>9, StepWithoutFolder DEF ListResults

\* A summary is taken from the bucket only when the disk has none.
LEMMA DownloadKeeps == ASSUME CombineInv, NEW c \in Containers, Download(c) PROVE CombineInv'
<1> DEFINE old == run[c]
           k == old.at
           s == CHOOSE t \in old.todo : \A u \in old.todo : t <= u
           files == IF local[c][k][s] # 0 THEN local[c]
                    ELSE [local[c] EXCEPT ![k][s] = input[k][s]]
           r == [old EXCEPT !.todo = @ \ {s}]
<1>0. old \in RunType /\ k \in Kinds /\ old.todo # {} /\ old.at # "idle" /\ old.at # "uploading"
  BY InvTypes DEF Download, Kinds
<1>1. old \in Fetching
  BY <1>0, RunsByPlace
<1>2. old.todo \in SUBSET Nat /\ old.todo \subseteq Segments
  BY <1>1 DEF Fetching, Segments
<1>3. s \in old.todo
  <2>1. \E t \in old.todo : \A u \in old.todo : t <= u
    BY <1>0, <1>2, LeastExists
  <2> QED
    BY <2>1
<1>4. s \in Segments
  BY <1>2, <1>3
<1>4a. /\ run' = [run EXCEPT ![c].todo = @ \ {s}]
       /\ local' = IF local[c][k][s] # 0 THEN local
                   ELSE [local EXCEPT ![c][k][s] = input[k][s]]
       /\ UNCHANGED <<startTime, input, summaries, exports, deliveries>>
  BY DEF Download
<1> HIDE DEF s
<1>5. run' = [run EXCEPT ![c] = r]
  BY <1>4a
<1> HIDE DEF k
<1>6. local' = [local EXCEPT ![c] = files]
  BY <1>4a, InvTypes
<1>7. files \in Versions
  BY <1>0, <1>4, InvTypes DEF Versions
<1>8. /\ r \in Fetching /\ r.at = old.at /\ r.began = old.began /\ r.warm = old.warm
      /\ r.listed = old.listed /\ r.segments = old.segments /\ r.todo = old.todo \ {s}
  BY <1>1 DEF Fetching
<1>9. \A t \in Segments :
        files["grid"][t] = IF k = "grid" /\ t = s /\ local[c]["grid"][s] = 0
                           THEN input["grid"][s] ELSE local[c]["grid"][t]
  BY <1>0, <1>4, InvTypes DEF Versions, Kinds
<1> HIDE DEF files, r, old
<1>10. RunOK(old, local[c], input, startTime, Len(exports))
  BY DEF CombineInv, old
<1>11. old.began \in Versions /\ "grid" \in Kinds /\ input \in Versions
  BY <1>0, RunsAtWork, InvTypes DEF Kinds
<1>12. FilesAreKnown(r, files)
  <2>1. old.began["grid"][s] <= input["grid"][s]
    BY <1>0, <1>4, <1>10, <1>11 DEF RunOK, BeganEarlier
  <2>2. old.began["grid"][s] \in Nat /\ input["grid"][s] \in Nat
    BY <1>4, <1>11 DEF Versions
  <2> QED
    BY <1>0, <1>4, <1>8, <1>9, <1>10, <2>1, <2>2 DEF RunOK, FilesAreKnown
<1>13. r.at = "grid" => Loaded(r, files, input) /\ Covers(r.segments, r.began, startTime)
  <2> SUFFICES ASSUME r.at = "grid" PROVE Loaded(r, files, input)
    BY <1>0, <1>8, <1>10 DEF RunOK
  <2>1. Loaded(old, local[c], input) /\ k = "grid"
    BY <1>0, <1>8, <1>10 DEF RunOK, k
  <2>2. r.listed \subseteq Segments
    BY <1>1, <1>8 DEF Fetching
  <2>3. ASSUME NEW t \in r.listed PROVE input["grid"][t] > 0 /\ (t \in r.todo \/ files["grid"][t] # 0)
    <3>1. input["grid"][t] > 0 /\ (t \in old.todo \/ local[c]["grid"][t] # 0) /\ t \in Segments
      BY <1>8, <2>1, <2>2, <2>3 DEF Loaded
    <3>2. CASE t = s
      BY <1>9, <2>1, <3>1, <3>2
    <3>3. CASE t # s
      BY <1>8, <1>9, <3>1, <3>3
    <3> QED
      BY <3>2, <3>3
  <2> QED
    BY <2>3 DEF Loaded
<1>14. RunOK(r, files, input, startTime, Len(exports))
  BY <1>0, <1>8, <1>10, <1>12, <1>13 DEF RunOK, BeganEarlier, ListedAll
<1>15. r \in RunType
  BY <1>8, RunTypes
<1>16. ASSUME NEW t \in Segments PROVE files["grid"][t] <= input["grid"][t]
  <2>1. local[c]["grid"][t] <= input["grid"][t] /\ input["grid"][t] \in Nat
    BY <1>11, InvTypes DEF Stored, Versions
  <2> QED
    BY <1>9, <1>16, <2>1
<1> QED
  BY <1>4a, <1>5, <1>6, <1>7, <1>14, <1>15, <1>16, InvTypes, StepWithoutFolder DEF Stored

\* Of the listed segments with one start time the last one is kept.
LEMMA SegmentsCover ==
    ASSUME NEW L \in SUBSET Segments, NEW s \in L
    PROVE  \E t \in OrderedSegments(L) : startTime[t] = startTime[s]
<1> DEFINE T == {t \in L : startTime[t] = startTime[s]}
<1>1. NumSegments \in Nat /\ T \in SUBSET (1 .. NumSegments) /\ T # {}
  BY CombineAssumption DEF Segments
<1>2. PICK x \in T : \A y \in T : y <= x
  BY <1>1, GreatestExists
<1> QED
  BY <1>2 DEF OrderedSegments

LEMMA ListGridSummariesKeeps ==
    ASSUME CombineInv, NEW c \in Containers, ListGridSummaries(c)
    PROVE  CombineInv'
<1> DEFINE old == run[c]
           L == Listed("grid")
           S == OrderedSegments(old.listed)
           r == [old EXCEPT !.at = "grid", !.listed = L, !.todo = L, !.segments = S]
<1>0. /\ old \in RunType /\ old.at = "results" /\ old.todo = {}
      /\ "results" \in Kinds /\ "grid" \in Kinds
  BY InvTypes DEF ListGridSummaries, Kinds
<1>1. old \in Fetching
  BY <1>0, RunsByPlace
<1>2. L \in SUBSET Segments /\ S \in SUBSET Segments /\ old.listed \in SUBSET Segments
  BY <1>1 DEF Listed, OrderedSegments, Fetching
<1>3. run' = [run EXCEPT ![c] = r] /\ local' = [local EXCEPT ![c] = local[c]]
  BY InvTypes DEF ListGridSummaries
<1> HIDE DEF S, L
<1>4. /\ r \in Fetching /\ r.at = "grid" /\ r.began = old.began /\ r.warm = old.warm
      /\ r.listed = L /\ r.todo = L /\ r.segments = S
  BY <1>1, <1>2 DEF Fetching
<1> HIDE DEF old, r
<1>5. RunOK(old, local[c], input, startTime, Len(exports))
  BY DEF CombineInv, old
<1>6. old.began \in Versions /\ input \in Versions
  BY <1>0, RunsAtWork, InvTypes
<1>7. ListedAll(r)
  <2> SUFFICES ASSUME NEW s \in Segments, old.began["grid"][s] > 0 PROVE s \in L
    BY <1>4 DEF ListedAll
  <2>1. old.began["grid"][s] <= input["grid"][s]
    BY <1>0, <1>5 DEF RunOK, BeganEarlier
  <2>2. old.began["grid"][s] \in Nat /\ input["grid"][s] \in Nat
    BY <1>0, <1>6 DEF Versions
  <2>3. input["grid"][s] > 0
    BY <2>1, <2>2
  <2> QED
    BY <2>3 DEF Listed, L
<1>8. Loaded(r, local[c], input)
  BY <1>4 DEF Loaded, Listed, L
<1>9. Covers(r.segments, r.began, startTime)
  <2> SUFFICES ASSUME NEW s \in Segments, old.began["results"][s] > 0
               PROVE  \E t \in S : startTime[t] = startTime[s]
    BY <1>4 DEF Covers
  <2>1. s \in old.listed
    BY <1>0, <1>5 DEF RunOK, ListedAll
  <2> QED
    BY <1>2, <2>1, SegmentsCover DEF S
<1>10. RunOK(r, local[c], input, startTime, Len(exports))
  BY <1>0, <1>4, <1>5, <1>7, <1>8, <1>9 DEF RunOK, BeganEarlier, FilesAreKnown
<1>11. /\ r \in RunType /\ local[c] \in Versions /\ Stored(local[c], input)
       /\ deliveries' \in 0 .. MaxDeliveries
  BY <1>4, RunTypes, InvTypes DEF ListGridSummaries
<1> QED
  BY <1>3, <1>10, <1>11, StepWithoutFolder DEF ListGridSummaries

\* Where a segment's rows come from is settled by the files of an invocation that has
\* fetched all that was listed.
LEMMA ExportKeeps == ASSUME CombineInv, NEW c \in Containers, Export(c) PROVE CombineInv'
<1> DEFINE old == run[c]
           rows == Rows(old.segments, old.listed, local[c]["grid"])
           e == [rows |-> rows, files |-> 0, answered |-> FALSE,
                 began |-> old.began, warm |-> old.warm]
           r == [at |-> "uploading", began |-> old.began, warm |-> old.warm,
                 folder |-> Len(exports')]
<1>0. old \in RunType /\ old.at = "grid" /\ old.todo = {} /\ "grid" \in Kinds
  BY InvTypes DEF Export, Kinds
<1>1. old \in Fetching /\ old.began \in Versions /\ old.warm \in [Segments -> Nat]
  BY <1>0, RunsByPlace, RunsAtWork
<1>2. old.segments \in SUBSET Segments /\ old.listed \in SUBSET Segments
  BY <1>1 DEF Fetching
<1>3. /\ exports' = Append(exports, e) /\ run' = [run EXCEPT ![c] = r]
      /\ UNCHANGED <<startTime, input, summaries, local, deliveries>>
  BY DEF Export
<1>4. local[c]["grid"] \in [Segments -> Nat]
  BY <1>0, InvTypes DEF Versions
<1>5. /\ rows \in [old.segments -> [Measures -> Nat]] /\ DOMAIN rows = old.segments
      /\ \A s \in old.segments :
            rows[s] = IF s \in old.listed THEN RowsOf(s, local[c]["grid"][s]) ELSE Dummies
  BY <1>2, <1>4 DEF Rows, RowsOf, Dummies
<1>6. NumFiles \in Nat
  BY CombineAssumption
<1> HIDE DEF rows
<1>7. e \in Folders
  <2>1. rows \in UNION {[S -> [Measures -> Nat]] : S \in SUBSET Segments}
    BY <1>2, <1>5
  <2> QED
    BY <1>1, <1>6, <2>1 DEF Folders, ExportType
<1>8. /\ e.rows = rows /\ e.began = old.began /\ e.warm = old.warm /\ ~e.answered
      /\ r.at = "uploading" /\ r.began = old.began /\ r.warm = old.warm
      /\ r.folder = Len(exports')
  OBVIOUS
<1>9. /\ Len(exports') = Len(exports) + 1 /\ exports' \in Seq(Folders)
      /\ exports'[Len(exports) + 1] = e
      /\ \A i \in 1 .. Len(exports) : exports'[i] = exports[i]
  <2> HIDE DEF e
  <2> QED
    BY <1>3, <1>7, InvTypes
<1>10. r \in RunType
  <2>1. Len(exports') \in Nat
    BY <1>9, InvTypes
  <2> QED
    BY <1>1, <2>1 DEF RunType
<1> HIDE DEF e, r, old
<1>11. RunOK(old, local[c], input, startTime, Len(exports))
  BY DEF CombineInv, old
<1>12. ExportExplained(e, summaries)
  <2> SUFFICES ASSUME NEW s \in old.segments
               PROVE  \E version \in 0 .. Len(summaries[s]) :
                         /\ AreOf(rows[s], version, summaries[s])
                         /\ version = 0 => old.began["grid"][s] = 0
                         /\ version < old.began["grid"][s] => version = old.warm[s]
    BY <1>5, <1>8 DEF ExportExplained
  <2>1. /\ s \in Segments /\ old.began["grid"][s] \in Nat
        /\ rows[s] = IF s \in old.listed THEN RowsOf(s, local[c]["grid"][s]) ELSE Dummies
        /\ Len(summaries[s]) \in Nat
    BY <1>0, <1>1, <1>2, <1>5, InvTypes DEF Versions
  <2>2. CASE s \in old.listed
    <3> DEFINE version == local[c]["grid"][s]
    <3>1. version # 0 /\ version \in Nat
      BY <1>0, <1>4, <1>11, <2>1, <2>2 DEF RunOK, Loaded
    <3>2. version = old.warm[s] \/ version >= old.began["grid"][s]
      BY <1>0, <1>11, <2>1 DEF RunOK, FilesAreKnown
    <3>3. version <= Len(summaries[s])
      BY <2>1, InvTypes DEF Stored
    <3>4. rows[s] = RowsOf(s, version)
      BY <2>1, <2>2
    <3> HIDE DEF version
    <3>5. AreOf(rows[s], version, summaries[s])
      BY <3>1, <3>4 DEF AreOf, RowsOf
    <3>6. version \in 0 .. Len(summaries[s])
      BY <2>1, <3>1, <3>3
    <3>7. version < old.began["grid"][s] => version = old.warm[s]
      BY <2>1, <3>1, <3>2
    <3> QED
      BY <3>1, <3>5, <3>6, <3>7
  <2>3. CASE s \notin old.listed
    <3>1. ~(old.began["grid"][s] > 0)
      BY <1>0, <1>11, <2>1, <2>3 DEF RunOK, ListedAll
    <3>2. AreOf(rows[s], 0, summaries[s])
      BY <2>1, <2>3 DEF AreOf, Dummies
    <3>3. 0 \in 0 .. Len(summaries[s]) /\ old.began["grid"][s] = 0
      BY <2>1, <3>1
    <3> QED
      BY <3>2, <3>3
  <2> QED
    BY <2>2, <2>3
<1>13. ExportOK(e, startTime, summaries)
  BY <1>0, <1>5, <1>8, <1>11, <1>12 DEF ExportOK, RunOK
<1>14. ASSUME NEW i \in 1 .. Len(exports') PROVE ExportOK(exports'[i], startTime, summaries)
  <2>1. CASE i = Len(exports) + 1
    BY <1>9, <1>13, <2>1
  <2>2. CASE i # Len(exports) + 1
    <3>1. i \in 1 .. Len(exports)
      BY <1>9, <2>2, InvTypes
    <3> QED
      BY <1>9, <3>1 DEF CombineInv
  <2> QED
    BY <2>1, <2>2
<1>15. RunOK(r, local[c], input, startTime, Len(exports'))
  <2>1. Len(exports') \in 1 .. Len(exports')
    BY <1>9, InvTypes
  <2>2. "uploading" \notin Kinds
    BY DEF Kinds
  <2> QED
    BY <1>0, <1>8, <1>11, <2>1, <2>2 DEF RunOK, BeganEarlier, FilesAreKnown
<1>16. local' = [local EXCEPT ![c] = local[c]] /\ local[c] \in Versions /\ Stored(local[c], input)
       /\ Len(exports) <= Len(exports') /\ deliveries' \in 0 .. MaxDeliveries
  BY <1>3, <1>9, InvTypes
<1> QED
  BY <1>3, <1>9, <1>10, <1>14, <1>15, <1>16, StepOfContainer

\* What Upload and Answer change of a folder does not touch its rows.
LEMMA FolderStep ==
    ASSUME CombineInv, NEW c \in Containers, NEW r \in RunType, NEW f \in 1 .. Len(exports),
           NEW e \in Folders, exports' = [exports EXCEPT ![f] = e],
           e.rows = exports[f].rows, e.began = exports[f].began, e.warm = exports[f].warm,
           e.answered => e.files = NumFiles,
           run' = [run EXCEPT ![c] = r],
           UNCHANGED <<startTime, input, summaries, local, deliveries>>,
           RunOK(r, local[c], input, startTime, Len(exports))
    PROVE  CombineInv'
<1>1. /\ exports' \in Seq(Folders) /\ Len(exports') = Len(exports)
      /\ \A i \in 1 .. Len(exports) : exports'[i] = IF i = f THEN e ELSE exports[i]
  BY InvTypes
<1>2. \A i \in 1 .. Len(exports) : ExportOK(exports[i], startTime, summaries)
  BY DEF CombineInv
<1>3. ExportOK(e, startTime, summaries)
  BY <1>2 DEF ExportOK, ExportExplained
<1>4. \A i \in 1 .. Len(exports') : ExportOK(exports'[i], startTime, summaries)
  BY <1>1, <1>2, <1>3
<1>5. /\ local' = [local EXCEPT ![c] = local[c]] /\ local[c] \in Versions /\ Stored(local[c], input)
      /\ Len(exports) <= Len(exports') /\ deliveries' \in 0 .. MaxDeliveries
  BY <1>1, InvTypes
<1> QED
  BY <1>1, <1>4, <1>5, StepOfContainer

LEMMA UploadingFolder ==
    ASSUME CombineInv, NEW c \in Containers, run[c].at = "uploading"
    PROVE  run[c].folder \in 1 .. Len(exports) /\ exports[run[c].folder] \in Folders
<1>1. RunOK(run[c], local[c], input, startTime, Len(exports))
  BY DEF CombineInv
<1> QED
  BY <1>1, InvTypes DEF RunOK

LEMMA UploadKeeps == ASSUME CombineInv, NEW c \in Containers, Upload(c) PROVE CombineInv'
<1> DEFINE f == run[c].folder
           e == [exports[f] EXCEPT !.files = @ + 1]
<1>1. f \in 1 .. Len(exports) /\ exports[f] \in Folders /\ exports[f].files < NumFiles
  BY UploadingFolder DEF Upload
<1>2. NumFiles \in Nat
  BY CombineAssumption
<1>3. exports[f].files \in 0 .. NumFiles
  BY <1>1 DEF Folders, ExportType
<1>4. exports[f].files + 1 \in 0 .. NumFiles
  BY <1>1, <1>2, <1>3
<1>5. /\ e \in Folders /\ e.rows = exports[f].rows /\ e.began = exports[f].began
      /\ e.warm = exports[f].warm /\ e.answered = exports[f].answered
  <2>1. PICK S \in SUBSET Segments : exports[f] \in ExportType(S)
    BY <1>1 DEF Folders
  <2> HIDE DEF f
  <2>2. /\ e \in ExportType(S) /\ e.rows = exports[f].rows /\ e.began = exports[f].began
        /\ e.warm = exports[f].warm /\ e.answered = exports[f].answered
    BY <1>4, <2>1 DEF ExportType
  <2> QED BY <2>2 DEF Folders
<1>6. ExportOK(exports[f], startTime, summaries)
  BY <1>1 DEF CombineInv
<1>7. ~e.answered
  BY <1>1, <1>2, <1>5, <1>6, <1>3 DEF ExportOK
<1>8. exports' = [exports EXCEPT ![f] = e]
  BY <1>1, InvTypes DEF Upload
<1>9. run' = [run EXCEPT ![c] = run[c]]
      /\ UNCHANGED <<startTime, input, summaries, local, deliveries>>
  BY InvTypes DEF Upload
<1> HIDE DEF e, f
<1>10. run[c] \in RunType /\ RunOK(run[c], local[c], input, startTime, Len(exports))
  BY InvTypes DEF CombineInv
<1> QED
  BY <1>1, <1>5, <1>7, <1>8, <1>9, <1>10, FolderStep

LEMMA AnswerKeeps == ASSUME CombineInv, NEW c \in Containers, Answer(c) PROVE CombineInv'
<1> DEFINE f == run[c].folder
           e == [exports[f] EXCEPT !.answered = TRUE]
<1>1. f \in 1 .. Len(exports) /\ exports[f] \in Folders /\ exports[f].files = NumFiles
  BY UploadingFolder DEF Answer, Uploaded
<1>2. /\ e \in Folders /\ e.rows = exports[f].rows /\ e.began = exports[f].began
      /\ e.warm = exports[f].warm /\ e.files = NumFiles
  <2>1. PICK S \in SUBSET Segments : exports[f] \in ExportType(S)
    BY <1>1 DEF Folders
  <2> HIDE DEF f
  <2>2. /\ e \in ExportType(S) /\ e.rows = exports[f].rows /\ e.began = exports[f].began
        /\ e.warm = exports[f].warm /\ e.files = exports[f].files
    BY <2>1 DEF ExportType
  <2> QED BY <1>1, <2>2 DEF Folders
<1>3. exports' = [exports EXCEPT ![f] = e]
  BY <1>1, InvTypes DEF Answer
<1>4. run' = [run EXCEPT ![c] = Idle]
      /\ UNCHANGED <<startTime, input, summaries, local, deliveries>>
  BY DEF Answer
<1> HIDE DEF e, f
<1>5. Idle \in RunType /\ RunOK(Idle, local[c], input, startTime, Len(exports))
  BY DEF RunType, RunOK, Idle
<1> QED
  BY <1>1, <1>2, <1>3, <1>4, <1>5, FolderStep

LEMMA CombineStepInv == CombineInv /\ [CombineNext]_combineVars => CombineInv'
<1> SUFFICES ASSUME CombineInv, [CombineNext]_combineVars PROVE CombineInv'
  OBVIOUS
<1>1. ASSUME NEW k \in Kinds, NEW s \in Segments, PutInput(k, s) PROVE CombineInv'
  BY <1>1, PutInputKeeps
<1>2. ASSUME NEW c \in Containers, NEW isNew \in BOOLEAN, Deliver(c, isNew) PROVE CombineInv'
  BY <1>2, DeliverKeeps
<1>3. ASSUME NEW c \in Containers,
             \/ Fail(c) \/ ListResults(c) \/ Download(c) \/ ListGridSummaries(c)
             \/ Export(c) \/ Upload(c) \/ Answer(c)
      PROVE  CombineInv'
  BY <1>3, FailKeeps, ListResultsKeeps, DownloadKeeps, ListGridSummariesKeeps, ExportKeeps,
     UploadKeeps, AnswerKeeps
<1>4. CASE UNCHANGED combineVars
  BY <1>4 DEF combineVars, CombineInv, CombineForm
<1> QED
  BY <1>1, <1>2, <1>3, <1>4 DEF CombineNext

\* Invocations, disks and folders keep their form.
THEOREM CombineTypeCorrect == CombineSpec => []CombineTypeOK
<1>1. ASSUME NEW e \in Folders
      PROVE  DOMAIN e.rows \subseteq Segments /\ e \in ExportType(DOMAIN e.rows)
  BY DEF Folders, ExportType
<1>2. CombineInv => \A i \in DOMAIN exports : exports[i] \in Folders
  BY DEF CombineInv, CombineForm
<1>3. CombineInv => CombineTypeOK
  BY <1>1, <1>2 DEF CombineInv, CombineForm, CombineTypeOK
<1> QED
  BY <1>3, CombineInitInv, CombineStepInv, PTL DEF CombineSpec

\* All frames show a segment's rows of one version of its summary, dummy values exactly for
\* the measures that version lacks (the exception buildTimeSeriesFrame catches); there is
\* no version only if there was no summary when the invocation began, and an old one only
\* if an earlier invocation left it on the disk (S3Wrappers.py takes what is there),
\* however deliveries overlap and fail.
THEOREM RowsHaveAnExplanation == CombineSpec => []RowsAreExplained
  BY InvImplies, CombineInitInv, CombineStepInv, PTL DEF CombineSpec

\* lambda_handler only announces folders that are complete, and cover the start time of
\* every segment that had results when it began.
THEOREM AnnouncedFoldersAreWhole == CombineSpec => []AnnouncedIsWhole
  BY InvImplies, CombineInitInv, CombineStepInv, PTL DEF CombineSpec

=============================================================================
