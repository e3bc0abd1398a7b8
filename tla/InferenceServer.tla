-------------------------- MODULE InferenceServer --------------------------
(***************************************************************************)
(* tradingbot-ai-regression-server: two endpoints take a pickled array,    *)
(* one chart frame or a batch of them, look its bytes up in a cache that   *)
(* both share, and on a miss let every model infer in an executor thread,  *)
(* await them all with gather(), cache the predictions and answer.         *)
(*                                                                         *)
(* One event loop runs the handlers, which interleave at their awaits; the *)
(* executor's threads run the inferences.  gather() passes the first       *)
(* exception on and lets the other inferences of the request go on.        *)
(*                                                                         *)
(* The models are deterministic: a prediction stands for the model and the *)
(* bytes it was made from.                                                 *)
(***************************************************************************)
EXTENDS Integers, FiniteSets

CONSTANTS
    MaxRequests,   \* bound: the HTTP requests the server may receive
    Bodies,        \* the bytes they may carry
    Shape,         \* what the bytes are: "single", "batch" or "garbage"
    Types,         \* DPredictionType: the fields of an answer, one model slot each
    Outcome,       \* config.outcome of the model in each slot, from its folder's name
    Workers,       \* threads of the default executor
    CacheDisabled  \* config.server.disableCache

ASSUME InferenceAssumption ==
    /\ MaxRequests \in Nat
    /\ Shape \in [Bodies -> {"single", "batch", "garbage"}]
    /\ Types # {} /\ IsFiniteSet(Types)
    /\ Workers \in Nat \ {0}
    /\ CacheDisabled \in BOOLEAN

VARIABLES
    pc,        \* per request: where its handler is
    endpoint,  \* per request: the endpoint it was sent to
    body,      \* per request: its bytes
    task,      \* per request and model slot: the inference
    cacheDict, \* per bytes: the cached predictions
    answer     \* per request: status and predictions

vars == <<pc, endpoint, body, task, cacheDict, answer>>

\* Requests are numbered as they arrive.
Requests == 1 .. MaxRequests

\* Predictions: made from which bytes, in which form, by which models per field.
Predictions == [body : Bodies, form : {"single", "batch"}, fields : [Types -> SUBSET Types]]
NoPredictions == <<>>
NoBody == <<>>

Answers == [status : {"none", "ok", "400", "500"}, value : Predictions \cup {NoPredictions}]
Without(status) == [status |-> status, value |-> NoPredictions]

TypeOK ==
    /\ pc \in [Requests -> {"idle", "read", "gather", "done"}]
    /\ endpoint \in [Requests -> {"none", "single", "batch"}]
    /\ body \in [Requests -> Bodies \cup {NoBody}]
    /\ \A r \in Requests : pc[r] # "idle" => endpoint[r] # "none" /\ body[r] \in Bodies
    /\ task \in [Requests -> [Types -> {"off", "queued", "running", "ok", "raised"}]]
    /\ cacheDict \in [Bodies -> Predictions \cup {NoPredictions}]
    /\ answer \in [Requests -> Answers]

Init ==
    /\ pc = [r \in Requests |-> "idle"]
    /\ endpoint = [r \in Requests |-> "none"]
    /\ body = [r \in Requests |-> NoBody]
    /\ task = [r \in Requests |-> [t \in Types |-> "off"]]
    /\ cacheDict = [k \in Bodies |-> NoPredictions]
    /\ answer = [r \in Requests |-> Without("none")]

-----------------------------------------------------------------------------
(* The handlers *)

Receive(r, e, k) ==
    /\ pc[r] = "idle" /\ \A q \in 1 .. r - 1 : pc[q] # "idle"
    /\ pc' = [pc EXCEPT ![r] = "read"]
    /\ endpoint' = [endpoint EXCEPT ![r] = e]
    /\ body' = [body EXCEPT ![r] = k]
    /\ UNCHANGED <<task, cacheDict, answer>>

Reply(r, a) ==
    /\ pc' = [pc EXCEPT ![r] = "done"]
    /\ answer' = [answer EXCEPT ![r] = a]

\* The response model validates the predictions it is built from; mutated: no model.
Response_Unchecked(r, value) == [status |-> "ok", value |-> value]
Response(r, value) ==
    IF value.form = endpoint[r] THEN [status |-> "ok", value |-> value] ELSE Without("500")

BadRequest(r) ==
    /\ pc[r] = "read" /\ Shape[body[r]] = "garbage"
    /\ Reply(r, Without("400"))
    /\ UNCHANGED <<endpoint, body, task, cacheDict>>

\* cacheBin.get
Cached(r) == IF CacheDisabled THEN NoPredictions ELSE cacheDict[body[r]]

Hit(r) ==
    /\ pc[r] = "read" /\ Shape[body[r]] # "garbage" /\ Cached(r) # NoPredictions
    /\ Reply(r, Response(r, Cached(r)))
    /\ UNCHANGED <<endpoint, body, task, cacheDict>>

Miss(r) ==
    /\ pc[r] = "read" /\ Shape[body[r]] # "garbage" /\ Cached(r) = NoPredictions
    /\ pc' = [pc EXCEPT ![r] = "gather"]
    /\ task' = [task EXCEPT ![r] = [t \in Types |-> "queued"]]
    /\ UNCHANGED <<endpoint, body, cacheDict, answer>>

\* What gather() waits for; mutated: exceptions count as results, and no exception
\* is ever seen.
AllInferred_OrRaised(r) == \A t \in Types : task[r][t] \in {"ok", "raised"}
AllInferred(r) == \A t \in Types : task[r][t] = "ok"
Raised_Never(r) == FALSE
Raised(r) == \E t \in Types : task[r][t] = "raised"

\* The predictions of a request: a model's answer goes to the field of its outcome.
Inferred(r) ==
    [body |-> body[r], form |-> endpoint[r],
     fields |-> [t \in Types |-> {s \in Types : Outcome[s] = t /\ task[r][s] = "ok"}]]

\* cacheBin.put; mutated: batches are not cached.
Put_SingleOnly(r) ==
    IF CacheDisabled \/ endpoint[r] = "batch" THEN cacheDict
    ELSE [cacheDict EXCEPT ![body[r]] = Inferred(r)]
Put(r) == IF CacheDisabled THEN cacheDict ELSE [cacheDict EXCEPT ![body[r]] = Inferred(r)]

GatherReturns(r) ==
    /\ pc[r] = "gather" /\ AllInferred(r)
    /\ cacheDict' = Put(r)
    /\ Reply(r, Response(r, Inferred(r)))
    /\ UNCHANGED <<endpoint, body, task>>

GatherRaises(r) ==
    /\ pc[r] = "gather" /\ Raised(r)
    /\ Reply(r, Without("500"))
    /\ UNCHANGED <<endpoint, body, task, cacheDict>>

-----------------------------------------------------------------------------
(* The executor *)

Busy == Cardinality({p \in Requests \X Types : task[p[1]][p[2]] = "running"})

WorkerTakes(r, t) ==
    /\ task[r][t] = "queued" /\ Busy < Workers
    /\ task' = [task EXCEPT ![r][t] = "running"]
    /\ UNCHANGED <<pc, endpoint, body, cacheDict, answer>>

\* model.predict refuses an array of the wrong dimensions, and may fail otherwise;
\* so may the map from classes to returns.
WorkerEnds(r, t) ==
    /\ task[r][t] = "running"
    /\ \E result \in {"ok", "raised"} :
          /\ result = "ok" => Shape[body[r]] = endpoint[r]
          /\ task' = [task EXCEPT ![r][t] = result]
    /\ UNCHANGED <<pc, endpoint, body, cacheDict, answer>>

-----------------------------------------------------------------------------
Handler(r) == BadRequest(r) \/ Hit(r) \/ Miss(r) \/ GatherReturns(r) \/ GatherRaises(r)

Executor == \E r \in Requests, t \in Types : WorkerTakes(r, t) \/ WorkerEnds(r, t)

Arrival(r) == \E e \in {"single", "batch"}, k \in Bodies : Receive(r, e, k)

Work == Executor \/ \E r \in Requests : Handler(r)

Next == Work \/ \E r \in Requests : Arrival(r)

\* Neither the loop nor the executor idles while a handler or an inference can go on.
Spec == Init /\ [][Next]_vars /\ WF_vars(Work)

-----------------------------------------------------------------------------
\* Every model that serves a field has answered.
Complete(v) == v.fields = [t \in Types |-> {s \in Types : Outcome[s] = t}]

\* A request that is answered "ok", from the cache or by inference, gets all the
\* predictions of its own bytes, in the form of its endpoint.
AnswerIsOwn ==
    \A r \in Requests : answer[r].status = "ok" =>
        /\ answer[r].value.body = body[r]
        /\ answer[r].value.form = endpoint[r]
        /\ Complete(answer[r].value)

\* A request that fails half-way, or races another with the same bytes, leaves no
\* partial predictions in the cache, and the cache never holds for some bytes what
\* was inferred in a form the bytes do not have.
CacheIsSound ==
    \A k \in Bodies : cacheDict[k] # NoPredictions =>
        /\ cacheDict[k].body = k /\ cacheDict[k].form = Shape[k]
        /\ Complete(cacheDict[k])

\* Bytes that have been answered once are not inferred again.
InferredOnce ==
    [][\A r, q \in Requests :
          ~CacheDisabled /\ answer[q].status = "ok" /\ body[q] = body[r] => ~Miss(r)]_vars

\* Every request is answered, also when stragglers of failed requests hold threads:
\* of the requests that arrive, none is left waiting in the end.
EveryRequestAnswered == <>[](\A r \in Requests : pc[r] \in {"idle", "done"})
=============================================================================
