------------------------ MODULE ServerMonitorProofs ------------------------
(***************************************************************************)
(* Proofs about ServerMonitor, for any number of game servers, retries and *)
(* iterations.  What is published is a snapshot because every manager      *)
(* starts with an empty map and only collects what its own threads have    *)
(* put (Fresh); player lists have status rows because between the two      *)
(* inserts every list that is about to be stored has a status row that no  *)
(* list uses yet (Ahead); results are stored again by failures only because*)
(* every cycle since the one that published them has failed (FailedSince). *)
(*                                                                         *)
(* The second half is about StatusPage, the browser's side of the program, *)
(* for any panels, settings and pages.  The label of a page is true of its *)
(* panels because the flags a page negates are the settings it works on    *)
(* (FlagsAreData).                                                         *)
(***************************************************************************)
EXTENDS ServerMonitor, StatusPage, FiniteSetTheorems, TLAPS

\* While results are collected, map and results hold answers of this cycle only.
Fresh ==
    pc = "collect" =>
        /\ cycle \in Cycles
        /\ \A h \in Hosts :
              /\ callbackMap[h] # NoAnswer => callbackMap[h].cycle = cycle
              /\ results[h] # NoAnswer => results[h].cycle = cycle

\* A query belongs to an iteration; a thread lives while results are collected,
\* for ever when a broken map holds the main thread.
Phases ==
    /\ pc \in {"query", "collect", "hung"} => cycle \in Cycles
    /\ \A h \in Hosts : thread[h] # "off" => pc \in {"collect", "hung"}

\* Between the two inserts there is a status row for every list to be stored.
Ahead ==
    pc = "players" =>
        \A h \in Hosts, c \in Cycles :
            lastResults[h].cycle = c /\ lastResults[h].kind = "players"
                => players[h][c] + 1 <= status[h][c]

IInv == TypeOK /\ Phases /\ Fresh /\ SnapshotOfOneCycle /\ PlayersHaveStatus /\ Ahead

-----------------------------------------------------------------------------
\* The two kinds of table update keep tables tables.
LEMMA InsertType ==
    ASSUME NEW table \in [Hosts -> [Cycles -> Nat]], NEW kinds
    PROVE  Insert(table, kinds) \in [Hosts -> [Cycles -> Nat]]
  BY DEF Insert

\* The outcome of a put: whatever is lost, an entry of the new map is one of the
\* old map, the new answer, or nothing.
LEMMA PutEffect ==
    ASSUME TypeOK, cycle \in Cycles, NEW h \in Hosts,
           NEW kind \in {"error", "empty", "players"}, Put(h, kind)
    PROVE  /\ callbackMap' \in [Hosts -> Answers \cup {NoAnswer}]
           /\ looped' \in BOOLEAN
           /\ thread' \in [Hosts -> {"off", "info", "players"}]
           /\ attempts' \in [Hosts -> 0 .. Retries - 1]
           /\ \A g \in Hosts : thread'[g] # "off" => thread[g] # "off"
           /\ \A g \in Hosts : \/ callbackMap'[g] = NoAnswer
                               \/ callbackMap'[g] = callbackMap[g]
                               \/ callbackMap'[g] = [cycle |-> cycle, kind |-> kind]
  <1>1. PICK lost \in SUBSET Hosts :
           callbackMap' = [g \in Hosts |->
              IF g \in lost THEN NoAnswer
              ELSE IF g = h THEN [cycle |-> cycle, kind |-> kind]
              ELSE callbackMap[g]]
    BY DEF Put
  <1>2. [cycle |-> cycle, kind |-> kind] \in Answers
    BY DEF Answers
  <1>3. callbackMap' \in [Hosts -> Answers \cup {NoAnswer}]
    BY <1>1, <1>2 DEF TypeOK
  <1>4. \A g \in Hosts : \/ callbackMap'[g] = NoAnswer
                         \/ callbackMap'[g] = callbackMap[g]
                         \/ callbackMap'[g] = [cycle |-> cycle, kind |-> kind]
    BY <1>1
  <1>5. looped' \in BOOLEAN
    BY DEF Put, TypeOK
  <1>6. 0 \in 0 .. Retries - 1
    BY MonitorAssumption
  <1>7. /\ thread' \in [Hosts -> {"off", "info", "players"}]
        /\ \A g \in Hosts : thread'[g] # "off" => thread[g] # "off"
        /\ attempts' \in [Hosts -> 0 .. Retries - 1]
    BY <1>6 DEF Put, TypeOK
  <1> QED BY <1>3, <1>4, <1>5, <1>7

LEMMA InitIInv == Init => IInv
  <1> SUFFICES ASSUME Init PROVE IInv OBVIOUS
  <1>1. 0 \in 0 .. Retries - 1
    BY MonitorAssumption
  <1>2. TypeOK
    <2>1. Nothing \in [Hosts -> Answers \cup {NoAnswer}] /\ Nothing \in [Hosts -> Results]
      BY DEF Nothing, Results
    <2>2. NoRows \in [Hosts -> [Cycles -> Nat]]
      BY DEF NoRows
    <2>3. 0 \in 0 .. MaxCycles
      BY MonitorAssumption
    <2>4. [h \in Hosts |-> 0] \in [Hosts -> 0 .. Retries - 1]
      BY <1>1
    <2>5. [h \in Hosts |-> "off"] \in [Hosts -> {"off", "info", "players"}]
      OBVIOUS
    <2> QED BY <2>1, <2>2, <2>3, <2>4, <2>5 DEF Init, TypeOK
  <1>3. Phases /\ Fresh
    BY DEF Init, Phases, Fresh
  <1>4. SnapshotOfOneCycle /\ PlayersHaveStatus /\ Ahead
    BY DEF Init, SnapshotOfOneCycle, PlayersHaveStatus, Ahead, Nothing, NoRows
  <1> QED BY <1>2, <1>3, <1>4 DEF IInv

\* A step of a server's thread disturbs the map only.
LEMMA ThreadStep ==
    ASSUME IInv, NEW h \in Hosts, ServerThread(h) PROVE IInv'
  <1> USE DEF IInv
  <1>1. /\ thread[h] # "off"
        /\ UNCHANGED <<pc, stop, cycle, todo, results, lastResults, published, tables, failed>>
    BY DEF ServerThread, AttemptFails, InfoAnswered, PlayersAnswered, QueryRefused, tables
  <1>2. cycle \in Cycles /\ pc \in {"collect", "hung"}
    BY <1>1 DEF Phases
  <1>3. /\ callbackMap' \in [Hosts -> Answers \cup {NoAnswer}]
        /\ looped' \in BOOLEAN
        /\ thread' \in [Hosts -> {"off", "info", "players"}]
        /\ attempts' \in [Hosts -> 0 .. Retries - 1]
        /\ \A g \in Hosts : thread'[g] # "off" => thread[g] # "off"
        /\ \A g \in Hosts : \/ callbackMap'[g] = NoAnswer
                            \/ callbackMap'[g] = callbackMap[g]
                            \/ callbackMap'[g].cycle = cycle
    <2>1. ASSUME NEW kind \in {"error", "empty", "players"}, Put(h, kind) PROVE <1>3!:
      <3>1. /\ callbackMap' \in [Hosts -> Answers \cup {NoAnswer}]
            /\ looped' \in BOOLEAN
            /\ thread' \in [Hosts -> {"off", "info", "players"}]
            /\ attempts' \in [Hosts -> 0 .. Retries - 1]
            /\ \A g \in Hosts : thread'[g] # "off" => thread[g] # "off"
            /\ \A g \in Hosts : \/ callbackMap'[g] = NoAnswer
                                \/ callbackMap'[g] = callbackMap[g]
                                \/ callbackMap'[g] = [cycle |-> cycle, kind |-> kind]
        BY <2>1, <1>2, PutEffect
      <3> QED BY <3>1
    <2>2. CASE /\ AttemptFails(h) /\ ~LastAttempt(h)
               /\ UNCHANGED <<thread, callbackMap, looped>>
               /\ attempts' = [attempts EXCEPT ![h] = @ + 1]
      <3>2. attempts[h] \in 0 .. Retries - 1 /\ attempts \in [Hosts -> 0 .. Retries - 1]
        BY DEF TypeOK
      <3>3. attempts[h] + 1 # Retries
        BY <2>2 DEF LastAttempt
      <3>4. Retries \in Nat
        BY MonitorAssumption
      <3>1. attempts[h] + 1 \in 0 .. Retries - 1
        BY <3>2, <3>3, <3>4
      <3> QED BY <2>2, <3>1 DEF TypeOK
    <2>3. CASE InfoAnswered(h)
      <3>1. 0 \in 0 .. Retries - 1
        BY MonitorAssumption
      <3> QED BY <2>3, <3>1 DEF InfoAnswered, TypeOK
    <2> QED BY <2>1, <2>2, <2>3
            DEF ServerThread, AttemptFails, PlayersAnswered, QueryRefused
  <1>4. TypeOK'
    BY <1>1, <1>3 DEF TypeOK, tables
  <1>5. Phases'
    BY <1>1, <1>2, <1>3 DEF Phases
  <1>6. Fresh'
    BY <1>1, <1>2, <1>3 DEF Fresh
  <1>7. SnapshotOfOneCycle' /\ PlayersHaveStatus' /\ Ahead'
    BY <1>1 DEF SnapshotOfOneCycle, PlayersHaveStatus, Ahead, tables
  <1> QED BY <1>4, <1>5, <1>6, <1>7

\* A step that touches neither tables nor what is published, and does not enter
\* the phase between the two inserts, leaves the promises about them alone.
LEMMA QuietStep ==
    ASSUME SnapshotOfOneCycle, PlayersHaveStatus,
           UNCHANGED <<lastResults, published, status, players>>, pc' # "players"
    PROVE  SnapshotOfOneCycle' /\ PlayersHaveStatus' /\ Ahead'
  BY DEF SnapshotOfOneCycle, PlayersHaveStatus, Ahead

LEMMA QueryStep ==
    ASSUME IInv, QueryMaster PROVE IInv'
  <1> USE DEF IInv
  <1>0. 0 \in 0 .. Retries - 1
    BY MonitorAssumption
  <1>1. CASE MasterFails
    <2>1. TypeOK' /\ Phases' /\ Fresh'
      BY <1>1 DEF MasterFails, TypeOK, Phases, Fresh, threadVars, tables
    <2>2. SnapshotOfOneCycle' /\ PlayersHaveStatus' /\ Ahead'
      BY <1>1, QuietStep DEF MasterFails, tables
    <2> QED BY <2>1, <2>2
  <1>2. ASSUME NEW S \in SUBSET Hosts, MasterAnswers(S) PROVE IInv'
    <2>1. TypeOK'
      BY <1>0, <1>2 DEF MasterAnswers, TypeOK, NewCallbackMap, Nothing, Results, tables
    <2>2. Phases' /\ Fresh'
      BY <1>2 DEF MasterAnswers, Phases, Fresh, NewCallbackMap, Nothing
    <2>3. SnapshotOfOneCycle' /\ PlayersHaveStatus' /\ Ahead'
      BY <1>2, QuietStep DEF MasterAnswers, tables
    <2> QED BY <2>1, <2>2, <2>3
  <1>3. ASSUME NEW h \in Hosts, Collect(h) PROVE IInv'
    <2>1. (IF IsResult(callbackMap[h]) THEN callbackMap[h] ELSE NoAnswer) \in Results
      BY DEF TypeOK, Results, IsResult, NoAnswer
    <2>2. TypeOK'
      BY <1>3, <2>1 DEF Collect, TypeOK, threadVars, tables
    <2>3. Phases' /\ Fresh'
      BY <1>3 DEF Collect, Phases, Fresh, TypeOK, threadVars
    <2>4. SnapshotOfOneCycle' /\ PlayersHaveStatus' /\ Ahead'
      BY <1>3, QuietStep DEF Collect, tables
    <2> QED BY <2>2, <2>3, <2>4
  <1>4. ASSUME NEW h \in Hosts, StopThread(h) PROVE IInv'
    <2>1. TypeOK'
      BY <1>0, <1>4 DEF StopThread, TypeOK, tables
    <2>2. Phases' /\ Fresh'
      BY <1>4 DEF StopThread, Phases, Fresh, TypeOK
    <2>3. SnapshotOfOneCycle' /\ PlayersHaveStatus' /\ Ahead'
      BY <1>4, QuietStep DEF StopThread, tables
    <2> QED BY <2>1, <2>2, <2>3
  <1>5. CASE EndQuery
    <2>1. TypeOK'
      BY <1>5 DEF EndQuery, TypeOK, NewResults, threadVars, tables
    <2>2. \A h \in Hosts : thread'[h] = "off"
      BY <1>5 DEF EndQuery, LastIsStopped, Running, threadVars
    <2>3. Phases'
      BY <1>5, <2>2 DEF EndQuery, Phases
    <2>4. Fresh' /\ Ahead'
      BY <1>5 DEF EndQuery, Fresh, Ahead
    <2>5. SnapshotOfOneCycle' /\ PlayersHaveStatus'
      BY <1>5 DEF EndQuery, Fresh, SnapshotOfOneCycle, PlayersHaveStatus, NewResults, tables
    <2> QED BY <2>1, <2>3, <2>4, <2>5
  <1> QED BY <1>1, <1>2, <1>3, <1>4, <1>5 DEF QueryMaster

\* What an insert adds: one row for each published result of the kinds.
LEMMA InsertCounts ==
    ASSUME NEW table \in [Hosts -> [Cycles -> Nat]], NEW kinds,
           NEW h \in Hosts, NEW c \in Cycles
    PROVE  /\ table[h][c] <= Insert(table, kinds)[h][c]
           /\ Insert(table, kinds)[h][c] <= table[h][c] + 1
           /\ lastResults[h].cycle = c /\ lastResults[h].kind \in kinds
                 => Insert(table, kinds)[h][c] = table[h][c] + 1
           /\ ~(lastResults[h].cycle = c /\ lastResults[h].kind \in kinds)
                 => Insert(table, kinds)[h][c] = table[h][c]
  <1>1. table[h][c] \in Nat
    OBVIOUS
  <1>2. Insert(table, kinds)[h][c] =
           IF lastResults[h].cycle = c /\ lastResults[h].kind \in kinds
           THEN table[h][c] + 1 ELSE table[h][c]
    BY DEF Insert
  <1> QED BY <1>1, <1>2

LEMMA SaveStep ==
    ASSUME IInv, SaveLastResultsToDB PROVE IInv'
  <1> USE DEF IInv
  <1>1. status \in [Hosts -> [Cycles -> Nat]] /\ players \in [Hosts -> [Cycles -> Nat]]
    BY DEF TypeOK
  <1>2. pc \in {"save", "players"} /\ pc' \in {"loop", "players"}
    BY DEF SaveLastResultsToDB, InsertStatus, InsertPlayers, StatusFails, PlayersFail
  <1>3. UNCHANGED <<stop, cycle, todo, threadVars, results, lastResults, published, failed>>
    BY DEF SaveLastResultsToDB, InsertStatus, InsertPlayers, StatusFails, PlayersFail
  <1>4. /\ status' \in {status, Insert(status, {"empty", "players"})}
        /\ players' \in {players, Insert(players, {"players"})}
    BY DEF SaveLastResultsToDB, InsertStatus, InsertPlayers, StatusFails, PlayersFail
  <1>5. status' \in [Hosts -> [Cycles -> Nat]] /\ players' \in [Hosts -> [Cycles -> Nat]]
    BY <1>1, <1>4, InsertType
  <1>6. TypeOK'
    BY <1>2, <1>3, <1>5 DEF TypeOK, threadVars
  <1>7. \A h \in Hosts : thread[h] = "off"
    BY <1>2 DEF Phases
  <1>8. Phases' /\ Fresh'
    BY <1>2, <1>3, <1>7 DEF Phases, Fresh, threadVars
  <1>9. SnapshotOfOneCycle'
    BY <1>3 DEF SnapshotOfOneCycle
  <1>10. ASSUME NEW h \in Hosts, NEW c \in Cycles
         PROVE  /\ players'[h][c] <= status'[h][c]
                /\ pc' = "players" /\ lastResults[h].cycle = c
                      /\ lastResults[h].kind = "players"
                      => players'[h][c] + 1 <= status'[h][c]
    <2>1. /\ status[h][c] \in Nat /\ players[h][c] \in Nat
          /\ status'[h][c] \in Nat /\ players'[h][c] \in Nat
      BY <1>1, <1>5
    <2>2. players[h][c] <= status[h][c]
      BY DEF PlayersHaveStatus
    <2>3. CASE InsertStatus
      <3>1. /\ players'[h][c] = players[h][c]
            /\ status' = Insert(status, {"empty", "players"})
        BY <2>3 DEF InsertStatus
      <3>2. status[h][c] <= status'[h][c]
        BY <1>1, <3>1, InsertCounts
      <3>3. lastResults[h].cycle = c /\ lastResults[h].kind = "players"
               => status'[h][c] = status[h][c] + 1
        BY <1>1, <3>1, InsertCounts
      <3> QED BY <2>1, <2>2, <3>1, <3>2, <3>3
    <2>4. CASE StatusFails
      <3>1. players'[h][c] = players[h][c] /\ pc' = "loop"
        BY <2>4 DEF StatusFails
      <3>2. status[h][c] <= status'[h][c]
        BY <1>1, <1>4, <2>1, InsertCounts
      <3> QED BY <2>1, <2>2, <3>1, <3>2
    <2>5. CASE InsertPlayers \/ PlayersFail
      <3>1. status'[h][c] = status[h][c] /\ pc = "players" /\ pc' = "loop"
        BY <2>5 DEF InsertPlayers, PlayersFail
      <3>2. CASE lastResults[h].cycle = c /\ lastResults[h].kind = "players"
        <4>1. players[h][c] + 1 <= status[h][c]
          BY <3>1, <3>2 DEF Ahead
        <4>2. players'[h][c] <= players[h][c] + 1
          BY <1>1, <1>4, <2>1, InsertCounts
        <4> QED BY <2>1, <3>1, <4>1, <4>2
      <3>3. CASE ~(lastResults[h].cycle = c /\ lastResults[h].kind = "players")
        <4>1. Insert(players, {"players"})[h][c] = players[h][c]
          BY <1>1, <3>3, InsertCounts
        <4>2. players'[h][c] = players[h][c]
          BY <1>4, <4>1
        <4> QED BY <2>1, <2>2, <3>1, <4>2
      <3> QED BY <3>2, <3>3
    <2> QED BY <2>3, <2>4, <2>5 DEF SaveLastResultsToDB
  <1>11. PlayersHaveStatus' /\ Ahead'
    BY <1>3, <1>10 DEF PlayersHaveStatus, Ahead
  <1> QED BY <1>6, <1>8, <1>9, <1>11

LEMMA NextIInv == IInv /\ [Next]_vars => IInv'
  <1> SUFFICES ASSUME IInv, [Next]_vars PROVE IInv' OBVIOUS
  <1>1. CASE BeginCycle
    <2>1. cycle + 1 \in Cycles /\ cycle + 1 \in 0 .. MaxCycles
      BY <1>1, MonitorAssumption DEF BeginCycle, IInv, TypeOK, Cycles
    <2>2. TypeOK'
      BY <1>1, <2>1 DEF BeginCycle, IInv, TypeOK, threadVars, tables
    <2>3. Phases' /\ Fresh'
      BY <1>1, <2>1 DEF BeginCycle, IInv, Phases, Fresh, threadVars
    <2>4. SnapshotOfOneCycle' /\ PlayersHaveStatus' /\ Ahead'
      BY <1>1, QuietStep DEF BeginCycle, IInv, tables
    <2> QED BY <2>2, <2>3, <2>4 DEF IInv
  <1>2. CASE SeeStop \/ GetLoops
    <2>1. TypeOK'
      BY <1>2 DEF SeeStop, GetLoops, IInv, TypeOK, threadVars, tables
    <2>2. Phases' /\ Fresh'
      BY <1>2 DEF SeeStop, GetLoops, IInv, Phases, Fresh, threadVars
    <2>3. SnapshotOfOneCycle' /\ PlayersHaveStatus' /\ Ahead'
      BY <1>2, QuietStep DEF SeeStop, GetLoops, IInv, tables
    <2> QED BY <2>1, <2>2, <2>3 DEF IInv
  <1>3. CASE Stop \/ UNCHANGED vars
    <2>1. TypeOK'
      BY <1>3 DEF Stop, vars, IInv, TypeOK, threadVars, tables
    <2>2. Phases' /\ Fresh'
      BY <1>3 DEF Stop, vars, IInv, Phases, Fresh, threadVars
    <2>3. SnapshotOfOneCycle' /\ PlayersHaveStatus' /\ Ahead'
      BY <1>3 DEF Stop, vars, IInv, SnapshotOfOneCycle, PlayersHaveStatus, Ahead, tables
    <2> QED BY <2>1, <2>2, <2>3 DEF IInv
  <1> QED
    BY <1>1, <1>2, <1>3, ThreadStep, QueryStep, SaveStep DEF Next, MainThread

LEMMA Invariance == Spec => []IInv
  BY InitIInv, NextIInv, PTL DEF Spec

\* Every variable keeps its type.
THEOREM TypeCorrect == Spec => []TypeOK
  BY Invariance, PTL DEF IInv

\* Main.lastResults never mixes the answers of two queries.
THEOREM PublishesSnapshots == Spec => []SnapshotOfOneCycle
  BY Invariance, PTL DEF IInv

\* A list of players in the database always has its status row.
THEOREM NoOrphanedPlayers == Spec => []PlayersHaveStatus
  BY Invariance, PTL DEF IInv

-----------------------------------------------------------------------------
\* The cycles up to top that may store the results of cycle c: c itself, and those
\* with only failed queries since.
StoringCycles(c, top, fails) == {d \in c .. top : c + 1 .. d \subseteq fails}

\* The cycles that are through with saving.
Saved == IF pc \in {"query", "collect", "hung", "save"} THEN cycle - 1 ELSE cycle

\* Every cycle since the last one that published has failed, the running one too
\* once its query is over.
FailedSince ==
    /\ pc \in {"query", "collect", "hung"} =>
          published < cycle /\ published + 1 .. cycle - 1 \subseteq failed
    /\ pc \notin {"query", "collect", "hung"} =>
          published <= cycle /\ published + 1 .. cycle \subseteq failed
    /\ pc \in {"query", "collect", "hung", "save", "players"} => cycle \in Cycles

\* No results have been stored more often than cycles could store them.
StoredByCycles ==
    \A h \in Hosts, c \in Cycles :
        status[h][c] <= Cardinality(StoringCycles(c, Saved, failed))

StoredInv == FailedSince /\ StoredByCycles

LEMMA StoringCyclesGrow ==
    ASSUME NEW c \in Nat, NEW n \in Int, NEW m \in Int, n <= m,
           NEW F, NEW G, F \subseteq G
    PROVE  /\ IsFiniteSet(StoringCycles(c, n, F))
           /\ Cardinality(StoringCycles(c, n, F)) \in Nat
           /\ Cardinality(StoringCycles(c, n, F)) <= Cardinality(StoringCycles(c, m, G))
  <1>1. IsFiniteSet(c .. n) /\ IsFiniteSet(c .. m)
    BY FS_Interval
  <1>2. IsFiniteSet(StoringCycles(c, n, F)) /\ IsFiniteSet(StoringCycles(c, m, G))
    BY <1>1, FS_Subset DEF StoringCycles
  <1>3. StoringCycles(c, n, F) \subseteq StoringCycles(c, m, G)
    BY DEF StoringCycles
  <1> QED BY <1>2, <1>3, FS_Subset, FS_CardinalityType

\* The last cycle of an unbroken row of failures adds one.
LEMMA StoringCyclesNext ==
    ASSUME NEW c \in Nat, NEW n \in Nat, c <= n, NEW F, c + 1 .. n \subseteq F
    PROVE  Cardinality(StoringCycles(c, n, F)) = Cardinality(StoringCycles(c, n - 1, F)) + 1
  <1>1. IsFiniteSet(StoringCycles(c, n - 1, F))
    BY StoringCyclesGrow
  <1>2. n \notin StoringCycles(c, n - 1, F)
    BY DEF StoringCycles
  <1>3. StoringCycles(c, n, F) = StoringCycles(c, n - 1, F) \cup {n}
    BY DEF StoringCycles
  <1> QED BY <1>1, <1>2, <1>3, FS_AddElement

\* Only the inserts of the status table store, and what they store was published.
LEMMA StoreStep ==
    ASSUME IInv, StoredInv, SaveLastResultsToDB PROVE StoredInv'
  <1> USE DEF IInv, StoredInv
  <1>1. /\ pc \in {"save", "players"} /\ pc' \in {"loop", "players"}
        /\ UNCHANGED <<cycle, lastResults, published, failed>>
        /\ \/ pc = "save" /\ status' \in {status, Insert(status, {"empty", "players"})}
           \/ pc = "players" /\ status' = status
    BY DEF SaveLastResultsToDB, InsertStatus, InsertPlayers, StatusFails, PlayersFail
  <1>2. /\ published \in Nat /\ cycle \in Nat /\ cycle \in Cycles
        /\ published <= cycle /\ published + 1 .. cycle \subseteq failed
        /\ status \in [Hosts -> [Cycles -> Nat]]
    BY <1>1, MonitorAssumption DEF TypeOK, FailedSince
  <1>3. FailedSince'
    BY <1>1, <1>2 DEF FailedSince
  <1>4. Saved' = cycle
    BY <1>1 DEF Saved
  <1>5. ASSUME NEW h \in Hosts, NEW c \in Cycles
        PROVE  status'[h][c] <= Cardinality(StoringCycles(c, cycle, failed))
    <2>1. c \in Nat /\ status[h][c] \in Nat
      BY <1>2, MonitorAssumption DEF Cycles
    <2>2. status[h][c] <= Cardinality(StoringCycles(c, Saved, failed))
      BY DEF StoredByCycles
    <2>3. CASE status' = status
      <3>1. Saved \in Int /\ Saved <= cycle
        BY <1>2 DEF Saved
      <3>2. /\ Cardinality(StoringCycles(c, Saved, failed)) \in Nat
            /\ Cardinality(StoringCycles(c, cycle, failed)) \in Nat
            /\ Cardinality(StoringCycles(c, Saved, failed))
                  <= Cardinality(StoringCycles(c, cycle, failed))
        BY <1>2, <2>1, <3>1, StoringCyclesGrow
      <3> QED BY <2>1, <2>2, <2>3, <3>2
    <2>4. CASE pc = "save" /\ status' = Insert(status, {"empty", "players"})
      <3>1. Saved = cycle - 1 /\ Saved \in Int
        BY <1>2, <2>4 DEF Saved
      <3>2. /\ Cardinality(StoringCycles(c, cycle - 1, failed)) \in Nat
            /\ Cardinality(StoringCycles(c, cycle, failed)) \in Nat
            /\ Cardinality(StoringCycles(c, cycle - 1, failed))
                  <= Cardinality(StoringCycles(c, cycle, failed))
        BY <1>2, <2>1, <3>1, StoringCyclesGrow
      <3>3. CASE lastResults[h].cycle = c /\ lastResults[h].kind \in {"empty", "players"}
        <4>1. lastResults[h] # NoAnswer
          BY <3>3 DEF NoAnswer
        <4>2. c = published
          BY <3>3, <4>1 DEF SnapshotOfOneCycle
        <4>3. Cardinality(StoringCycles(c, cycle, failed))
                 = Cardinality(StoringCycles(c, cycle - 1, failed)) + 1
          BY <1>2, <2>1, <4>2, StoringCyclesNext
        <4>4. status'[h][c] = status[h][c] + 1
          BY <1>2, <2>4, <3>3, InsertCounts
        <4> QED BY <2>1, <2>2, <3>1, <3>2, <4>3, <4>4
      <3>4. CASE ~(lastResults[h].cycle = c /\ lastResults[h].kind \in {"empty", "players"})
        <4>1. status'[h][c] = status[h][c]
          BY <1>2, <2>4, <3>4, InsertCounts
        <4> QED BY <2>1, <2>2, <3>1, <3>2, <4>1
      <3> QED BY <3>3, <3>4
    <2> QED BY <1>1, <2>3, <2>4
  <1>6. StoredByCycles'
    BY <1>1, <1>4, <1>5 DEF StoredByCycles
  <1> QED BY <1>3, <1>6

\* What any other step does to the variables the promise is about.
LEMMA OtherStep ==
    ASSUME IInv, StoredInv, [Next]_vars, ~SaveLastResultsToDB
    PROVE  /\ status' = status
           /\ \/ UNCHANGED <<pc, cycle, published, failed>>
              \/ BeginCycle \/ SeeStop \/ MasterFails \/ EndQuery
              \/ /\ pc \in {"query", "collect"} /\ pc' \in {"collect", "hung"}
                 /\ UNCHANGED <<cycle, published, failed>>
  <1>1. ASSUME NEW h \in Hosts, ServerThread(h)
        PROVE  UNCHANGED <<pc, cycle, published, status, failed>>
    BY <1>1 DEF ServerThread, AttemptFails, InfoAnswered, PlayersAnswered, QueryRefused, tables
  <1>2. ASSUME NEW S \in SUBSET Hosts, MasterAnswers(S)
        PROVE  /\ pc = "query" /\ pc' = "collect"
               /\ UNCHANGED <<cycle, published, status, failed>>
    BY <1>2 DEF MasterAnswers, tables
  <1>3. ASSUME NEW h \in Hosts, Collect(h) \/ StopThread(h)
        PROVE  UNCHANGED <<pc, cycle, published, status, failed>>
    BY <1>3 DEF Collect, StopThread, tables
  <1>4. CASE GetLoops
    BY <1>4 DEF GetLoops, tables
  <1>5. CASE Stop \/ UNCHANGED vars
    BY <1>5 DEF Stop, vars, tables
  <1>6. CASE BeginCycle \/ SeeStop \/ MasterFails \/ EndQuery
    BY <1>6 DEF BeginCycle, SeeStop, MasterFails, EndQuery, tables
  <1> QED BY <1>1, <1>2, <1>3, <1>4, <1>5, <1>6 DEF Next, MainThread, QueryMaster

LEMMA StoredStep == IInv /\ StoredInv /\ [Next]_vars => StoredInv'
  <1> SUFFICES ASSUME IInv, StoredInv, [Next]_vars PROVE StoredInv' OBVIOUS
  <1> USE DEF StoredInv
  <1>1. cycle \in Nat /\ published \in Nat /\ failed \subseteq Cycles
    BY MonitorAssumption DEF IInv, TypeOK
  <1>2. CASE SaveLastResultsToDB
    BY <1>2, StoreStep
  <1>3. CASE ~SaveLastResultsToDB
    <2>1. status' = status
      BY <1>3, OtherStep
    <2>2. FailedSince' /\ failed \subseteq failed' /\ Saved \in Int /\ Saved' \in Int /\ Saved <= Saved'
      <3>1. CASE UNCHANGED <<pc, cycle, published, failed>>
        BY <1>1, <3>1 DEF FailedSince, Saved
      <3>2. CASE BeginCycle
        <4>1. /\ pc = "loop" /\ pc' = "query" /\ cycle' = cycle + 1
              /\ UNCHANGED <<published, failed>>
          BY <3>2 DEF BeginCycle
        <4>2. cycle + 1 \in Cycles
          BY <1>1, <3>2, MonitorAssumption DEF BeginCycle, Cycles, IInv, TypeOK
        <4>3. cycle' - 1 = cycle
          BY <1>1, <4>1
        <4> QED BY <1>1, <4>1, <4>2, <4>3 DEF FailedSince, Saved
      <3>3. CASE SeeStop
        BY <1>1, <3>3 DEF SeeStop, FailedSince, Saved
      <3>4. CASE MasterFails
        <4>1. /\ pc = "query" /\ pc' = "save" /\ failed' = failed \cup {cycle}
              /\ UNCHANGED <<cycle, published>>
          BY <3>4 DEF MasterFails
        <4> QED BY <1>1, <4>1 DEF FailedSince, Saved
      <3>5. CASE EndQuery
        <4>1. /\ pc = "collect" /\ pc' = "save" /\ published' = cycle
              /\ UNCHANGED <<cycle, failed>>
          BY <3>5 DEF EndQuery
        <4> QED BY <1>1, <4>1 DEF FailedSince, Saved
      <3>6. CASE /\ pc \in {"query", "collect"} /\ pc' \in {"collect", "hung"}
                 /\ UNCHANGED <<cycle, published, failed>>
        BY <1>1, <3>6 DEF FailedSince, Saved
      <3> QED BY <1>3, <3>1, <3>2, <3>3, <3>4, <3>5, <3>6, OtherStep
    <2>3. ASSUME NEW h \in Hosts, NEW c \in Cycles
          PROVE  status'[h][c] <= Cardinality(StoringCycles(c, Saved', failed'))
      <3>1. c \in Nat /\ status[h][c] \in Nat
        BY MonitorAssumption DEF Cycles, IInv, TypeOK
      <3>2. status[h][c] <= Cardinality(StoringCycles(c, Saved, failed))
        BY DEF StoredByCycles
      <3>3. /\ Cardinality(StoringCycles(c, Saved, failed)) \in Nat
            /\ Cardinality(StoringCycles(c, Saved', failed')) \in Nat
            /\ Cardinality(StoringCycles(c, Saved, failed))
                  <= Cardinality(StoringCycles(c, Saved', failed'))
        BY <2>2, <3>1, StoringCyclesGrow
      <3> QED BY <2>1, <3>1, <3>2, <3>3
    <2> QED BY <2>2, <2>3 DEF StoredByCycles
  <1> QED BY <1>2, <1>3

LEMMA InitStored == Init => StoredInv
  <1> SUFFICES ASSUME Init PROVE StoredInv OBVIOUS
  <1>1. FailedSince
    BY DEF Init, FailedSince
  <1>2. ASSUME NEW h \in Hosts, NEW c \in Cycles
        PROVE  status[h][c] <= Cardinality(StoringCycles(c, Saved, failed))
    <2>1. status[h][c] = 0
      BY DEF Init, NoRows
    <2>2. c \in Nat /\ Saved \in Int
      BY DEF Init, Saved, Cycles
    <2>3. Cardinality(StoringCycles(c, Saved, failed)) \in Nat
      BY <2>2, StoringCyclesGrow
    <2> QED BY <2>1, <2>3
  <1> QED BY <1>1, <1>2 DEF StoredInv, StoredByCycles

LEMMA StoredInvIsEnough == IInv /\ StoredInv => StoredAgainOnlyAfterFailures
  <1> SUFFICES ASSUME IInv, StoredInv, NEW h \in Hosts, NEW c \in Cycles
               PROVE  status[h][c] <= Cardinality({d \in c .. cycle : c + 1 .. d \subseteq failed})
    BY DEF StoredAgainOnlyAfterFailures
  <1>1. c \in Nat /\ status[h][c] \in Nat /\ cycle \in Int
    <2>1. status \in [Hosts -> [Cycles -> Nat]] /\ cycle \in 0 .. MaxCycles
      BY DEF IInv, TypeOK
    <2> QED BY <2>1, MonitorAssumption DEF Cycles
  <1>2. status[h][c] <= Cardinality(StoringCycles(c, Saved, failed))
    BY DEF StoredInv, StoredByCycles
  <1>3. Saved \in Int /\ Saved <= cycle
    BY <1>1 DEF Saved
  <1>4. /\ Cardinality(StoringCycles(c, Saved, failed)) \in Nat
        /\ Cardinality(StoringCycles(c, cycle, failed)) \in Nat
        /\ Cardinality(StoringCycles(c, Saved, failed))
              <= Cardinality(StoringCycles(c, cycle, failed))
    BY <1>1, <1>3, StoringCyclesGrow
  <1>5. status[h][c] <= Cardinality(StoringCycles(c, cycle, failed))
    BY <1>1, <1>2, <1>4
  <1> QED BY <1>5 DEF StoringCycles

\* Main saves the results of a query in the cycle of that query, and again only in
\* cycles that follow it with nothing but failed queries in between.
THEOREM StoredByFailuresOnly == Spec => []StoredAgainOnlyAfterFailures
  <1>1. Spec => [](IInv /\ StoredInv)
    BY InitStored, StoredStep, InitIInv, NextIInv, PTL DEF Spec
  <1> QED BY <1>1, StoredInvIsEnough, PTL

-----------------------------------------------------------------------------
\* The data a page works on and the flags its buttons negate are the same settings.
FlagsAreData == \A p \in Live : page[p].flags = page[p].data

PageInv ==
    /\ PageTypeOK
    /\ FlagsAreData
    /\ OnlyOtherPagesOverwrite
    /\ PanelsFollowTheLabel

LEMMA NewPageType == NewPage \in PageType
  BY DEF NewPage, PageType

\* A list tool only ever changes the setting it is named for, in the data and in the flags.
LEMMA ToggleToolEffect ==
    ASSUME NEW pg \in PageType, NEW s \in Settings
    PROVE  /\ ToggleTool(pg, s) \in PageType
           /\ ToggleTool(pg, s).phase = pg.phase
           /\ ToggleTool(pg, s).timer = pg.timer
           /\ ToggleTool(pg, s).data =
                IF s \notin pg.flags THEN pg.data \cup {s} ELSE pg.data \ {s}
           /\ ToggleTool(pg, s).flags =
                IF s \notin pg.flags THEN pg.flags \cup {s} ELSE pg.flags \ {s}
           /\ s # "expandAll" => ToggleTool(pg, s).panel = pg.panel
           /\ s = "expandAll" => \A q \in Panels : ToggleTool(pg, s).panel[q] =
                (IF s \notin pg.flags THEN Show(pg.panel[q]) ELSE Hide(pg.panel[q]))
<1> DEFINE on == s \notin pg.flags
           shown == [q \in Panels |-> IF on THEN Show(pg.panel[q]) ELSE Hide(pg.panel[q])]
           new == ToggleTool(pg, s)
<1>1. shown \in [Panels -> {"closed", "opening", "open", "closing"}]
  BY DEF Show, Hide, PageType
<1>2. Flipped(pg.data, s, on) \in SUBSET Settings /\ Flipped(pg.flags, s, on) \in SUBSET Settings
  BY DEF Flipped, PageType
<1>3. new = [pg EXCEPT !.data = Flipped(pg.data, s, on), !.flags = Flipped(pg.flags, s, on),
                       !.panel = IF s # "expandAll" THEN pg.panel ELSE shown]
  BY DEF ToggleTool, Recorded, PageType
<1> HIDE DEF on, shown, new
<1>4. /\ new.phase = pg.phase /\ new.timer = pg.timer
      /\ new.data = Flipped(pg.data, s, on) /\ new.flags = Flipped(pg.flags, s, on)
      /\ new.panel = IF s # "expandAll" THEN pg.panel ELSE shown
  BY <1>3 DEF PageType
<1>5. new \in PageType
  BY <1>1, <1>2, <1>3 DEF PageType
<1> QED
  BY <1>4, <1>5 DEF on, shown, new, Flipped


\* Settings of the cookie that are TRUE are applied by clicking their tools, which records
\* them again: the page starts with the flags of its cookie.
LEMMA ApplyEffect ==
    ASSUME NEW D \in SUBSET Settings
    PROVE  LET pg == ApplyCookieBehaviors(Loaded(D))
           IN  /\ pg \in PageType /\ pg.data = D /\ pg.flags = D
               /\ \A q \in Panels :
                    pg.panel[q] = IF "expandAll" \in D THEN "opening" ELSE "closed"
<1> DEFINE p0 == Loaded(D)
           p1 == Applied(p0, "expandAll")
           p2 == Applied(p1, "hideQuickStatus")
<1>0. "expandAll" \in Settings /\ "hideQuickStatus" \in Settings
      /\ Settings = {"expandAll", "hideQuickStatus"}
  BY DEF Settings
<1>1. /\ p0 \in PageType /\ p0.data = D /\ p0.flags = {}
      /\ \A q \in Panels : p0.panel[q] = "closed"
  BY DEF Loaded, NewPage, PageType
<1> HIDE DEF p0
<1>2. /\ p1 \in PageType /\ p1.data = D /\ p1.flags = D \cap {"expandAll"}
      /\ \A q \in Panels : p1.panel[q] = IF "expandAll" \in D THEN "opening" ELSE "closed"
  <2>1. CASE "expandAll" \in D
    <3>1. p1 = ToggleTool(p0, "expandAll")
      BY <2>1, <1>1 DEF Applied
    <3>2. "expandAll" \notin p0.flags
      BY <1>1
    <3> HIDE DEF p1
    <3>3. p1.data = p0.data \cup {"expandAll"} /\ p1.flags = p0.flags \cup {"expandAll"}
          /\ p1 \in PageType /\ \A q \in Panels : p1.panel[q] = Show(p0.panel[q])
      BY <3>1, <3>2, <1>0, <1>1, ToggleToolEffect
    <3> QED
      BY <3>3, <2>1, <1>1 DEF Show
  <2>2. CASE "expandAll" \notin D
    <3>1. p1 = p0
      BY <2>2, <1>1 DEF Applied
    <3> QED
      BY <3>1, <2>2, <1>1
  <2> QED
    BY <2>1, <2>2
<1> HIDE DEF p1
<1>3. /\ p2 \in PageType /\ p2.data = D /\ p2.flags = D /\ p2.panel = p1.panel
  <2>1. CASE "hideQuickStatus" \in D
    <3>1. p2 = ToggleTool(p1, "hideQuickStatus")
      BY <2>1, <1>2 DEF Applied
    <3>2. "hideQuickStatus" \notin p1.flags
      BY <1>2
    <3> HIDE DEF p2
    <3>3. p2.data = p1.data \cup {"hideQuickStatus"}
          /\ p2.flags = p1.flags \cup {"hideQuickStatus"}
          /\ p2 \in PageType /\ p2.panel = p1.panel
      BY <3>1, <3>2, <1>0, <1>2, ToggleToolEffect
    <3>4. p2.data = D
      BY <3>3, <2>1, <1>2
    <3>5. \A x : x \in p2.flags <=> x \in D
      BY <3>3, <2>1, <1>0, <1>2
    <3> QED
      BY <3>3, <3>4, <3>5
  <2>2. CASE "hideQuickStatus" \notin D
    <3>1. p2 = p1
      BY <2>2, <1>2 DEF Applied
    <3> QED
      BY <3>1, <2>2, <1>2, <1>0
  <2> QED
    BY <2>1, <2>2
<1> QED
  BY <1>2, <1>3 DEF ApplyCookieBehaviors, p0, p1

LEMMA PageInitInv == PageInit => PageInv
<1> SUFFICES ASSUME PageInit PROVE PageInv
  OBVIOUS
<1>1. PageTypeOK
  BY NewPageType DEF PageInit, PageTypeOK
<1>2. Live = {}
  BY DEF PageInit, Live, NewPage
<1> QED
  BY <1>1, <1>2 DEF PageInv, FlagsAreData, OnlyOtherPagesOverwrite, PanelsFollowTheLabel

\* A page that saves leaves the others with what the cookie was.
LEMMA SaveKeepsOthers ==
    ASSUME PageInv, NEW p \in Pages, NEW data \in SUBSET Settings, Save(p, data),
           NEW r \in Live, r # p
    PROVE  cookie' = <<page[r].flags>> \/ r \in stale'
  BY DEF Save, PageInv, OnlyOtherPagesOverwrite

\* What the steps have in common: all pages but one are left alone.
LEMMA OtherPages ==
    ASSUME PageInv, NEW p \in Pages, NEW new \in PageType,
           page' = [page EXCEPT ![p] = new],
           cookie' \in {<<>>} \cup {<<S>> : S \in SUBSET Settings},
           stale' \in SUBSET Pages, touched' \in [Pages -> SUBSET Panels],
           \A r \in Pages \ {p} : touched'[r] = touched[r],
           \A r \in Live \ {p} : cookie' = <<page[r].flags>> \/ r \in stale',
           new.phase = "live" =>
              /\ new.flags = new.data
              /\ cookie' = <<new.flags>> \/ p \in stale'
              /\ \A q \in Panels \ touched'[p] :
                    new.panel[q] \in {"open", "opening"} <=> "expandAll" \in new.flags
    PROVE  PageInv'
<1>1. PageTypeOK'
  BY DEF PageInv, PageTypeOK
<1>2. \A r \in Pages : page'[r] = IF r = p THEN new ELSE page[r]
  BY DEF PageInv, PageTypeOK
<1>3. ASSUME NEW r \in Live'
      PROVE  /\ r \in Pages
             /\ r = p => page'[r] = new /\ new.phase = "live"
             /\ r # p => r \in Live /\ page'[r] = page[r]
  BY <1>2, <1>3 DEF Live
<1>4. FlagsAreData'
  BY <1>3 DEF PageInv, FlagsAreData
<1>5. OnlyOtherPagesOverwrite'
  BY <1>3 DEF PageInv, OnlyOtherPagesOverwrite
<1>6. PanelsFollowTheLabel'
  BY <1>3 DEF PageInv, PanelsFollowTheLabel
<1> QED
  BY <1>1, <1>4, <1>5, <1>6 DEF PageInv


LEMMA LoadKeeps == ASSUME PageInv, NEW p \in Pages, Load(p) PROVE PageInv'
<1>0. page \in [Pages -> PageType] /\ stale \in SUBSET Pages
      /\ touched \in [Pages -> SUBSET Panels]
      /\ cookie \in {<<>>} \cup {<<S>> : S \in SUBSET Settings}
  BY DEF PageInv, PageTypeOK
<1>1. p \notin Live
  BY DEF Load, Live
<1>2. touched' \in [Pages -> SUBSET Panels] /\ touched'[p] = {}
      /\ \A r \in Pages \ {p} : touched'[r] = touched[r]
  BY <1>0 DEF Load
<1>3. CASE cookie = <<>>
  <2> DEFINE new == [page[p] EXCEPT !.phase = "dead"]
  <2>1. new \in PageType /\ new.phase = "dead"
    BY <1>0 DEF PageType
  <2>2. page' = [page EXCEPT ![p] = new] /\ UNCHANGED <<cookie, stale>>
    BY <1>3 DEF Load
  <2> HIDE DEF new
  <2>3. \A r \in Live \ {p} : cookie' = <<page[r].flags>> \/ r \in stale'
    BY <2>2 DEF PageInv, OnlyOtherPagesOverwrite
  <2> QED
    BY <1>0, <1>2, <2>1, <2>2, <2>3, OtherPages
<1>4. CASE cookie # <<>>
  <2> DEFINE loaded == Loaded(cookie[1])
             applied == ApplyCookieBehaviors(loaded)
             new == [applied EXCEPT !.phase = "live", !.timer = TRUE]
  <2>1. cookie[1] \in SUBSET Settings /\ cookie = <<cookie[1]>>
    BY <1>0, <1>4
  <2>2. /\ applied \in PageType /\ applied.data = cookie[1] /\ applied.flags = cookie[1]
        /\ \A q \in Panels :
             applied.panel[q] = IF "expandAll" \in cookie[1] THEN "opening" ELSE "closed"
    BY <2>1, ApplyEffect
  <2>3. /\ page' = [page EXCEPT ![p] = new]
        /\ IF applied = loaded THEN cookie' = cookie /\ stale' = stale \ {p}
           ELSE Save(p, applied.data)
    BY <1>4 DEF Load
  <2> HIDE DEF loaded, applied
  <2>4. /\ new \in PageType /\ new.data = cookie[1] /\ new.flags = cookie[1]
        /\ new.panel = applied.panel
    BY <2>2 DEF PageType
  <2> HIDE DEF new
  <2>5. cookie' = cookie /\ stale' = stale \ {p}
    BY <2>1, <2>2, <2>3 DEF Save
  <2>6. \A r \in Live \ {p} : cookie' = <<page[r].flags>> \/ r \in stale'
    BY <2>5 DEF PageInv, OnlyOtherPagesOverwrite
  <2>7. cookie' = <<new.flags>>
    BY <2>1, <2>4, <2>5
  <2>8. \A q \in Panels : new.panel[q] \in {"open", "opening"} <=> "expandAll" \in new.flags
    BY <2>2, <2>4
  <2> QED
    BY <1>0, <1>2, <2>3, <2>4, <2>5, <2>6, <2>7, <2>8, OtherPages
<1> QED
  BY <1>3, <1>4

LEMMA CloseKeeps == ASSUME PageInv, NEW p \in Pages, Close(p) PROVE PageInv'
<1>0. page \in [Pages -> PageType] /\ stale \in SUBSET Pages
      /\ touched \in [Pages -> SUBSET Panels]
      /\ cookie \in {<<>>} \cup {<<S>> : S \in SUBSET Settings}
  BY DEF PageInv, PageTypeOK
<1>1. touched' \in [Pages -> SUBSET Panels] /\ \A r \in Pages \ {p} : touched'[r] = touched[r]
  BY <1>0 DEF Close
<1>2. \A r \in Live \ {p} : cookie' = <<page[r].flags>> \/ r \in stale'
  BY DEF Close, PageInv, OnlyOtherPagesOverwrite
<1>3. NewPage.phase # "live"
  BY DEF NewPage
<1> QED
  BY <1>0, <1>1, <1>2, <1>3, NewPageType, OtherPages DEF Close

\* A click saves the settings the page then shows; the expand tool moves every panel that
\* stands still to what its new label says.
LEMMA ClickToolKeeps ==
    ASSUME PageInv, NEW p \in Pages, NEW s \in Settings, ClickTool(p, s)
    PROVE  PageInv'
<1> DEFINE new == ToggleTool(page[p], s)
<1>0. /\ page \in [Pages -> PageType] /\ stale \in SUBSET Pages
      /\ touched \in [Pages -> SUBSET Panels]
      /\ page[p] \in PageType /\ page[p].phase = "live" /\ page[p].flags = page[p].data
      /\ page[p].data \in SUBSET Settings /\ p \in Live
  BY DEF PageInv, PageTypeOK, PageType, ClickTool, Live, FlagsAreData
<1>1. /\ new \in PageType /\ new.phase = page[p].phase
      /\ new.flags = (IF s \notin page[p].flags THEN page[p].flags \cup {s} ELSE page[p].flags \ {s})
      /\ new.data = (IF s \notin page[p].flags THEN page[p].data \cup {s} ELSE page[p].data \ {s})
      /\ s # "expandAll" => new.panel = page[p].panel
      /\ s = "expandAll" => \A q \in Panels : new.panel[q] =
           (IF s \notin page[p].flags THEN Show(page[p].panel[q]) ELSE Hide(page[p].panel[q]))
  BY <1>0, ToggleToolEffect, ZenonT(30)
<1>2. page' = [page EXCEPT ![p] = new]
  BY DEF ClickTool
<1> HIDE DEF new
<1>1a. new.phase = "live" /\ new.flags = new.data
  BY <1>0, <1>1
<1>3. page'[p] = new /\ Save(p, new.data)
  BY <1>0, <1>2 DEF ClickTool
<1>4. new.data \in SUBSET Settings
  BY <1>0, <1>1
<1>5. /\ cookie' = <<new.flags>>
      /\ cookie' \in {<<>>} \cup {<<S>> : S \in SUBSET Settings}
      /\ stale' \in SUBSET Pages
  BY <1>0, <1>1a, <1>3, <1>4 DEF Save, Live
<1>6. \A r \in Live \ {p} : cookie' = <<page[r].flags>> \/ r \in stale'
  BY <1>3, <1>4, SaveKeepsOthers
<1>7. /\ touched' \in [Pages -> SUBSET Panels]
      /\ \A r \in Pages \ {p} : touched'[r] = touched[r]
      /\ touched'[p] = IF s # "expandAll" THEN touched[p]
                       ELSE {q \in Panels : Moving(page[p].panel[q])}
  BY <1>0 DEF ClickTool
<1>8. ASSUME NEW q \in Panels \ touched'[p]
      PROVE  new.panel[q] \in {"open", "opening"} <=> "expandAll" \in new.flags
  <2>1. CASE s # "expandAll"
    <3>1. page[p].panel[q] \in {"open", "opening"} <=> "expandAll" \in page[p].flags
      BY <1>0, <1>7, <1>8, <2>1 DEF PageInv, PanelsFollowTheLabel
    <3>2. "expandAll" \in new.flags <=> "expandAll" \in page[p].flags
      BY <1>0, <1>1, <2>1
    <3> QED
      BY <1>1, <2>1, <3>1, <3>2
  <2>2. CASE s = "expandAll"
    <3>1. page[p].panel[q] \in {"open", "closed"}
      BY <1>0, <1>7, <1>8, <2>2 DEF Moving, PageType
    <3>2. "expandAll" \in new.flags <=> "expandAll" \notin page[p].flags
      BY <1>0, <1>1, <2>2
    <3> QED
      BY <1>1, <2>2, <3>1, <3>2 DEF Show, Hide
  <2> QED
    BY <2>1, <2>2
<1> QED
  BY <1>0, <1>1, <1>2, <1>5, <1>6, <1>7, <1>8, <1>1a, OtherPages

\* What touches neither settings nor cookie.
LEMMA PanelStepKeeps ==
    ASSUME PageInv, NEW p \in Pages, NEW new \in PageType,
           page' = [page EXCEPT ![p] = new], UNCHANGED <<cookie, stale>>,
           new.phase = page[p].phase, new.data = page[p].data, new.flags = page[p].flags,
           touched' \in [Pages -> SUBSET Panels], touched[p] \subseteq touched'[p],
           \A r \in Pages \ {p} : touched'[r] = touched[r],
           \A q \in Panels \ touched'[p] :
              new.panel[q] \in {"open", "opening"} <=> page[p].panel[q] \in {"open", "opening"}
    PROVE  PageInv'
<1>0. stale \in SUBSET Pages /\ cookie \in {<<>>} \cup {<<S>> : S \in SUBSET Settings}
  BY DEF PageInv, PageTypeOK
<1>1. \A r \in Live : cookie' = <<page[r].flags>> \/ r \in stale'
  BY DEF PageInv, OnlyOtherPagesOverwrite
<1>2. ASSUME new.phase = "live"
      PROVE  /\ new.flags = new.data
             /\ cookie' = <<new.flags>> \/ p \in stale'
             /\ \A q \in Panels \ touched'[p] :
                   new.panel[q] \in {"open", "opening"} <=> "expandAll" \in new.flags
  <2>1. p \in Live
    BY <1>2 DEF Live
  <2> QED
    BY <1>1, <2>1 DEF PageInv, FlagsAreData, PanelsFollowTheLabel
<1> QED
  BY <1>0, <1>1, <1>2, OtherPages

LEMMA ClickTitleKeeps ==
    ASSUME PageInv, NEW p \in Pages, NEW q \in Panels, ClickTitle(p, q)
    PROVE  PageInv'
<1> DEFINE new == [page[p] EXCEPT !.panel[q] = Toggle(@)]
<1>0. page \in [Pages -> PageType] /\ touched \in [Pages -> SUBSET Panels]
  BY DEF PageInv, PageTypeOK
<1>1. new \in PageType
  BY <1>0 DEF PageType, Toggle, Show, Hide
<1>2. /\ new.phase = page[p].phase /\ new.data = page[p].data /\ new.flags = page[p].flags
      /\ \A o \in Panels \ {q} : new.panel[o] = page[p].panel[o]
  BY <1>0 DEF PageType
<1>3. page' = [page EXCEPT ![p] = new] /\ UNCHANGED <<cookie, stale>>
  BY <1>0 DEF ClickTitle
<1>4. touched' \in [Pages -> SUBSET Panels] /\ touched'[p] = touched[p] \cup {q}
      /\ \A r \in Pages \ {p} : touched'[r] = touched[r]
  BY <1>0 DEF ClickTitle
<1> HIDE DEF new
<1> QED
  BY <1>1, <1>2, <1>3, <1>4, PanelStepKeeps

\* The end of a transition does not change the side a panel is on.
LEMMA TransitionEndKeeps ==
    ASSUME PageInv, NEW p \in Pages, NEW q \in Panels, TransitionEnd(p, q)
    PROVE  PageInv'
<1> DEFINE new == [page[p] EXCEPT !.panel[q] = Complete(@)]
<1>0. page \in [Pages -> PageType] /\ touched \in [Pages -> SUBSET Panels]
  BY DEF PageInv, PageTypeOK
<1>1. new \in PageType
  BY <1>0 DEF PageType, Complete
<1>2. /\ new.phase = page[p].phase /\ new.data = page[p].data /\ new.flags = page[p].flags
      /\ \A o \in Panels \ {q} : new.panel[o] = page[p].panel[o]
      /\ new.panel[q] = Complete(page[p].panel[q])
  BY <1>0 DEF PageType
<1>3. page' = [page EXCEPT ![p] = new] /\ UNCHANGED <<cookie, stale, touched>>
  BY <1>0 DEF TransitionEnd
<1>4. page[p].panel[q] \in {"opening", "closing"}
  BY DEF TransitionEnd, Moving
<1>5. new.panel[q] \in {"open", "opening"} <=> page[p].panel[q] \in {"open", "opening"}
  BY <1>2, <1>4 DEF Complete
<1> HIDE DEF new
<1> QED
  BY <1>0, <1>1, <1>2, <1>3, <1>5, PanelStepKeeps

LEMMA TimerFiresKeeps == ASSUME PageInv, NEW p \in Pages, TimerFires(p) PROVE PageInv'
<1> DEFINE new == [page[p] EXCEPT !.timer = FALSE]
<1>0. page \in [Pages -> PageType] /\ touched \in [Pages -> SUBSET Panels]
  BY DEF PageInv, PageTypeOK
<1>1. /\ new \in PageType
      /\ new.phase = page[p].phase /\ new.data = page[p].data /\ new.flags = page[p].flags
      /\ new.panel = page[p].panel
  BY <1>0 DEF PageType
<1>2. page' = [page EXCEPT ![p] = new] /\ UNCHANGED <<cookie, stale, touched>>
  BY DEF TimerFires
<1> HIDE DEF new
<1> QED
  BY <1>0, <1>1, <1>2, PanelStepKeeps

LEMMA PageStepInv == PageInv /\ [PageNext]_pageVars => PageInv'
<1> SUFFICES ASSUME PageInv, [PageNext]_pageVars PROVE PageInv'
  OBVIOUS
<1>1. CASE PageNext
  <2>1. PICK p \in Pages :
          \/ Load(p) \/ Close(p) \/ TimerFires(p)
          \/ \E s \in Settings : ClickTool(p, s)
          \/ \E q \in Panels : ClickTitle(p, q) \/ TransitionEnd(p, q)
    BY <1>1 DEF PageNext
  <2> QED
    BY <2>1, LoadKeeps, CloseKeeps, TimerFiresKeeps, ClickToolKeeps, ClickTitleKeeps,
       TransitionEndKeeps
<1>2. CASE UNCHANGED pageVars
  BY <1>2 DEF pageVars, PageInv, PageTypeOK, Live, FlagsAreData, OnlyOtherPagesOverwrite,
              PanelsFollowTheLabel
<1> QED
  BY <1>1, <1>2

\* Whatever is clicked in whatever order, every page of the list keeps its form.
THEOREM PagesTypeCorrect == PageSpec => []PageTypeOK
<1>1. PageInv => PageTypeOK
  BY DEF PageInv
<1> QED
  BY <1>1, PageInitInv, PageStepInv, PTL DEF PageSpec

\* A page shows what the cookie would give a new page until another page has saved other
\* settings over it (scripts.js saves the whole copy).
THEOREM OthersOverwrite == PageSpec => []OnlyOtherPagesOverwrite
<1>1. PageInv => OnlyOtherPagesOverwrite
  BY DEF PageInv
<1> QED
  BY <1>1, PageInitInv, PageStepInv, PTL DEF PageSpec

\* The label of the expand button is true of every panel that stood still at the last click
\* on it and was not clicked itself, however bootstrap's transitions end.
THEOREM LabelIsTrueOfPanels == PageSpec => []PanelsFollowTheLabel
<1>1. PageInv => PanelsFollowTheLabel
  BY DEF PageInv
<1> QED
  BY <1>1, PageInitInv, PageStepInv, PTL DEF PageSpec

=============================================================================
