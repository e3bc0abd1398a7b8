--------------------------- MODULE ServerMonitor ---------------------------
(***************************************************************************)
(* unturned3SL: the loop of Main asks the Steam master for the game        *)
(* servers, starts one ServerVSCthread per server, waits a fixed time,     *)
(* takes what the threads have put into the callback map, stops them,      *)
(* publishes the results, and inserts the published results into the       *)
(* database.                                                               *)
(*                                                                         *)
(* A thread asks for the server's info and then for its players, each      *)
(* queryRetries times at most, and puts a result or an exception.  The map *)
(* is a plain HashMap (Java 7): puts of running threads may lose entries,  *)
(* and may leave a bucket in which get() never ends.                       *)
(***************************************************************************)
EXTENDS Integers, FiniteSets

CONSTANTS
    Hosts,      \* the game servers the master may name
    Retries,    \* config serverRCONthread_queryRetries
    MaxCycles   \* bound: iterations of the loop of main

ASSUME MonitorAssumption ==
    /\ Hosts # {} /\ IsFiniteSet(Hosts)
    /\ Retries \in Nat \ {0}
    /\ MaxCycles \in Nat \ {0}

VARIABLES
    pc,          \* where the main thread is
    stop,        \* Main.stop
    cycle,       \* the running iteration, the time stamp of its results
    todo,        \* the hosts getResults has not collected
    thread,      \* per host: what its ServerVSCthread asks for
    attempts,    \* per host: attempts of its thread
    callbackMap, \* per host: what its thread has put
    looped,      \* the callback map has a bucket without end
    results,     \* per host: results of the getResults that runs
    lastResults, \* per host: the published results
    published,   \* the cycle that published them; 0 while lastResults is null
    status,      \* table statusresults: rows per host and cycle
    players,     \* table playerresults: lists of players per host and cycle
    failed       \* history: cycles whose queryMaster threw

threadVars == <<thread, attempts, callbackMap, looped>>
tables == <<status, players>>
vars == <<pc, stop, cycle, todo, threadVars, results, lastResults, published,
          tables, failed>>

Cycles == 1 .. MaxCycles

\* What a thread puts: an exception, or a result with or without players.
Answers == [cycle : Cycles, kind : {"error", "empty", "players"}]
NoAnswer == [cycle |-> 0, kind |-> "none"]
IsResult(a) == a.kind \in {"empty", "players"}
Results == {a \in Answers : IsResult(a)} \cup {NoAnswer}

TypeOK ==
    /\ pc \in {"loop", "query", "collect", "save", "players", "hung", "ended"}
    /\ stop \in BOOLEAN
    /\ cycle \in 0 .. MaxCycles
    /\ todo \in SUBSET Hosts
    /\ thread \in [Hosts -> {"off", "info", "players"}]
    /\ attempts \in [Hosts -> 0 .. Retries - 1]
    /\ callbackMap \in [Hosts -> Answers \cup {NoAnswer}]
    /\ looped \in BOOLEAN
    /\ results \in [Hosts -> Results]
    /\ lastResults \in [Hosts -> Results]
    /\ published \in 0 .. MaxCycles
    /\ status \in [Hosts -> [Cycles -> Nat]]
    /\ players \in [Hosts -> [Cycles -> Nat]]
    /\ failed \in SUBSET Cycles

Nothing == [h \in Hosts |-> NoAnswer]
NoRows == [h \in Hosts |-> [c \in Cycles |-> 0]]

\* Without its configuration main returns at once.
Init ==
    /\ pc \in {"loop", "ended"}
    /\ stop = FALSE
    /\ cycle = 0
    /\ todo = {}
    /\ thread = [h \in Hosts |-> "off"]
    /\ attempts = [h \in Hosts |-> 0]
    /\ callbackMap = Nothing /\ looped = FALSE
    /\ results = Nothing /\ lastResults = Nothing /\ published = 0
    /\ status = NoRows /\ players = NoRows
    /\ failed = {}

-----------------------------------------------------------------------------
(* The ServerVSCthreads *)

Running == {h \in Hosts : thread[h] # "off"}

\* callbackMap.put and the end of the thread.
Put(h, kind) ==
    /\ \E lost \in IF Running = {h} THEN {{}} ELSE SUBSET Hosts :
          callbackMap' = [g \in Hosts |->
              IF g \in lost THEN NoAnswer
              ELSE IF g = h THEN [cycle |-> cycle, kind |-> kind]
              ELSE callbackMap[g]]
    /\ looped' \in IF Running = {h} THEN {looped} ELSE {looped, TRUE}
    /\ thread' = [thread EXCEPT ![h] = "off"]
    /\ attempts' = [attempts EXCEPT ![h] = 0]

LastAttempt(h) == attempts[h] + 1 = Retries

\* getServerInfo() or getPlayers() throws.
AttemptFails(h) ==
    /\ thread[h] # "off"
    /\ \/ LastAttempt(h) /\ Put(h, "error")
       \/ /\ ~LastAttempt(h)
          /\ attempts' = [attempts EXCEPT ![h] = @ + 1]
          /\ UNCHANGED <<thread, callbackMap, looped>>
    /\ UNCHANGED <<pc, stop, cycle, todo, results, lastResults, published, tables, failed>>

InfoAnswered(h) ==
    /\ thread[h] = "info"
    /\ thread' = [thread EXCEPT ![h] = "players"]
    /\ attempts' = [attempts EXCEPT ![h] = 0]
    /\ UNCHANGED <<pc, stop, cycle, todo, callbackMap, looped, results,
                   lastResults, published, tables, failed>>

PlayersAnswered(h) ==
    /\ thread[h] = "players"
    /\ \E kind \in {"empty", "players"} : Put(h, kind)
    /\ UNCHANGED <<pc, stop, cycle, todo, results, lastResults, published, tables, failed>>

\* The socket cannot be opened, or the answers are not those of a game server.
QueryRefused(h) ==
    /\ \/ thread[h] = "info" /\ attempts[h] = 0
       \/ thread[h] = "players"
    /\ Put(h, "error")
    /\ UNCHANGED <<pc, stop, cycle, todo, results, lastResults, published, tables, failed>>

-----------------------------------------------------------------------------
(* The main thread *)

\* The flag is a plain field that another thread sets: a raised flag may go
\* unseen for a cycle.
BeginCycle ==
    /\ pc = "loop" /\ cycle < MaxCycles
    /\ cycle' = cycle + 1
    /\ pc' = "query"
    /\ UNCHANGED <<stop, todo, threadVars, results, lastResults, published, tables, failed>>

SeeStop ==
    /\ pc = "loop" /\ stop
    /\ pc' = "ended"
    /\ UNCHANGED <<stop, cycle, todo, threadVars, results, lastResults,
                   published, tables, failed>>

\* The servlet context is destroyed.
Stop ==
    /\ ~stop
    /\ stop' = TRUE
    /\ UNCHANGED <<pc, cycle, todo, threadVars, results, lastResults, published, tables, failed>>

\* The master query throws; main logs it and saves what was published before.
MasterFails ==
    /\ pc = "query"
    /\ pc' = "save"
    /\ failed' = failed \cup {cycle}
    /\ UNCHANGED <<stop, cycle, todo, threadVars, results, lastResults, published, tables>>

\* Every manager has a map of its own; mutated: one map for all.
NewCallbackMap_Shared == callbackMap
NewCallbackMap == Nothing

\* The master names some servers, and getResults starts their threads.
MasterAnswers(S) ==
    /\ pc = "query"
    /\ pc' = "collect"
    /\ todo' = S
    /\ thread' = [h \in Hosts |-> IF h \in S THEN "info" ELSE "off"]
    /\ attempts' = [h \in Hosts |-> 0]
    /\ callbackMap' = NewCallbackMap /\ looped' = FALSE
    /\ results' = Nothing
    /\ UNCHANGED <<stop, cycle, lastResults, published, tables, failed>>

\* The wait is over whatever has been answered; mutated: it joins the threads.
WaitOver_Join == \A h \in todo : callbackMap[h] # NoAnswer
WaitOver == TRUE

\* The collecting loop stops a thread before it turns to the next host.
LastIsStopped == Running \subseteq todo

\* get(hosts[i])
Collect(h) ==
    /\ pc = "collect" /\ h \in todo /\ LastIsStopped /\ WaitOver
    /\ todo' = todo \ {h}
    /\ results' = [results EXCEPT ![h] =
                      IF IsResult(callbackMap[h]) THEN callbackMap[h] ELSE NoAnswer]
    /\ UNCHANGED <<pc, stop, cycle, threadVars, lastResults, published, tables, failed>>

\* svts[i].stop(), unless the thread has put its answer, too late, and ended by itself.
StopThread(h) ==
    /\ pc = "collect" /\ h \notin todo /\ thread[h] # "off"
    /\ thread' = [thread EXCEPT ![h] = "off"]
    /\ attempts' = [attempts EXCEPT ![h] = 0]
    /\ UNCHANGED <<pc, stop, cycle, todo, callbackMap, looped, results, lastResults,
                   published, tables, failed>>

GetLoops ==
    /\ pc = "collect" /\ todo # {} /\ LastIsStopped /\ looped
    /\ pc' = "hung"
    /\ UNCHANGED <<stop, cycle, todo, threadVars, results, lastResults,
                   published, tables, failed>>

\* What queryMaster publishes; mutated: silent servers keep their old result.
NewResults_Merged ==
    [h \in Hosts |-> IF results[h] = NoAnswer THEN lastResults[h] ELSE results[h]]
NewResults == results

EndQuery ==
    /\ pc = "collect" /\ todo = {} /\ LastIsStopped
    /\ lastResults' = NewResults
    /\ published' = cycle
    /\ pc' = "save"
    /\ UNCHANGED <<stop, cycle, todo, threadVars, results, tables, failed>>

-----------------------------------------------------------------------------
(* saveLastResultsToDB *)

\* One INSERT for all published results of one of the kinds.
Insert(table, kinds) ==
    [h \in Hosts |-> [c \in Cycles |->
        IF lastResults[h].cycle = c /\ lastResults[h].kind \in kinds
        THEN table[h][c] + 1 ELSE table[h][c]]]

\* Without results, or without players, the statement ends after VALUES.
StatusRows == published # 0 /\ \E h \in Hosts : lastResults[h] # NoAnswer
PlayerRows == \E h \in Hosts : lastResults[h].kind = "players"

InsertStatus ==
    /\ pc = "save" /\ StatusRows
    /\ status' = Insert(status, {"empty", "players"})
    /\ pc' = "players"
    /\ UNCHANGED <<stop, cycle, todo, threadVars, results, lastResults,
                   published, players, failed>>

InsertPlayers ==
    /\ pc = "players" /\ PlayerRows
    /\ players' = Insert(players, {"players"})
    /\ pc' = "loop"
    /\ UNCHANGED <<stop, cycle, todo, threadVars, results, lastResults,
                   published, status, failed>>

\* Connecting or a statement throws, the statement executed or not, and the rest
\* is skipped; mutated: every statement has a try of its own.
StatusFails_Continue ==
    /\ pc = "save" /\ pc' = "players"
    /\ UNCHANGED <<stop, cycle, todo, threadVars, results, lastResults, published, tables, failed>>
StatusFails ==
    /\ pc = "save"
    /\ status' \in {status} \cup (IF StatusRows THEN {Insert(status, {"empty", "players"})} ELSE {})
    /\ pc' = "loop"
    /\ UNCHANGED <<stop, cycle, todo, threadVars, results, lastResults,
                   published, players, failed>>

PlayersFail ==
    /\ pc = "players"
    /\ players' \in {players} \cup (IF PlayerRows THEN {Insert(players, {"players"})} ELSE {})
    /\ pc' = "loop"
    /\ UNCHANGED <<stop, cycle, todo, threadVars, results, lastResults,
                   published, status, failed>>

-----------------------------------------------------------------------------
ServerThread(h) ==
    AttemptFails(h) \/ InfoAnswered(h) \/ PlayersAnswered(h) \/ QueryRefused(h)

QueryMaster ==
    \/ MasterFails \/ EndQuery
    \/ \E S \in SUBSET Hosts : MasterAnswers(S)
    \/ \E h \in Hosts : Collect(h) \/ StopThread(h)

SaveLastResultsToDB == InsertStatus \/ InsertPlayers \/ StatusFails \/ PlayersFail

MainThread == BeginCycle \/ QueryMaster \/ SaveLastResultsToDB

Next == MainThread \/ SeeStop \/ Stop \/ GetLoops \/ \E h \in Hosts : ServerThread(h)

\* Only the main thread goes on by itself: the master and the database answer or
\* throw, and sleeps end.  A game server owes nobody an answer.
Spec == Init /\ [][Next]_vars /\ WF_vars(MainThread)

-----------------------------------------------------------------------------
\* What is published is one snapshot: every result was taken by the query that
\* published it, whatever late threads of earlier queries have put.
SnapshotOfOneCycle ==
    \A h \in Hosts : lastResults[h] # NoAnswer => lastResults[h].cycle = published

\* A list of players in the database belongs to a status row, also when saving
\* failed half-way or saved the same results again.
PlayersHaveStatus ==
    \A h \in Hosts, c \in Cycles : players[h][c] <= status[h][c]

\* The results of a cycle are stored by that cycle, and again only by the cycles
\* right behind it whose query failed.
StoredAgainOnlyAfterFailures ==
    \A h \in Hosts, c \in Cycles :
        status[h][c] <= Cardinality({d \in c .. cycle : c + 1 .. d \subseteq failed})

\* Silent servers do not hold the loop up: an iteration ends, unless a race of the
\* threads has broken the map, and the next one begins, unless it was stopped.
CyclesGoOn ==
    /\ pc = "query" ~> pc \in {"loop", "hung"}
    /\ (pc = "loop" /\ cycle < MaxCycles) ~> pc \in {"query", "ended"}
=============================================================================
