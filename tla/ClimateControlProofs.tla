----------------------- MODULE ClimateControlProofs ------------------------
(***************************************************************************)
(* Proofs about ClimateControl, for any readings and any thresholds.       *)
(***************************************************************************)
EXTENDS ClimateControl, TLAPS

\* What keeps the outlets apart: a tick that is about to switch the heater has
\* set the fan for the same readings, and a heater that is not there is off.
Apart ==
    /\ pc = "heater" => (fan => FanOn)
    /\ ~HeaterEnabled => ~heater
    /\ NeverFanAgainstHeater

\* executeAction never decides for both outlets at once.
LEMMA NotBothDecided == ~(FanOn /\ HeaterOn)
BY DEF FanOn, HeaterOn

LEMMA InitApart == Init => Apart
BY DEF Init, Apart, NeverFanAgainstHeater

LEMMA StepApart == Apart /\ [Next]_vars => Apart'
<1> SUFFICES ASSUME Apart, [Next]_vars PROVE Apart' OBVIOUS
<1>1. CASE Tick
      BY <1>1 DEF Tick, Apart, NeverFanAgainstHeater
<1>2. CASE Read
      BY <1>2 DEF Read, OutdoorAnswers, IndoorAnswers, Apart, NeverFanAgainstHeater
<1>3. CASE OutdoorFails \/ OutdoorMalformed \/ IndoorFails
      BY <1>3 DEF OutdoorFails, OutdoorMalformed, IndoorFails, Apart, NeverFanAgainstHeater
<1>4. CASE SwitchFan
  <2>1. FanOn' = FanOn
        BY <1>4 DEF SwitchFan, FanOn, InsideTooHot, InsideTooCold, ColderOutside
  <2> QED BY <1>4, <2>1 DEF SwitchFan, Apart, NeverFanAgainstHeater
<1>5. CASE SwitchHeater
  <2>1. CASE HeaterEnabled
        BY <1>5, <2>1, NotBothDecided DEF SwitchHeater, Apart, NeverFanAgainstHeater
  <2>2. CASE ~HeaterEnabled
        BY <1>5, <2>2 DEF SwitchHeater, Apart, NeverFanAgainstHeater
  <2> QED BY <2>1, <2>2
<1>6. CASE BroadcastFails
      BY <1>6 DEF BroadcastFails, Apart, NeverFanAgainstHeater
<1>7. CASE Restart
      BY <1>7 DEF Restart, Apart, NeverFanAgainstHeater
<1>8. CASE UNCHANGED vars
  <2>1. FanOn' = FanOn
        BY <1>8 DEF vars, FanOn, InsideTooHot, InsideTooCold, ColderOutside
  <2> QED BY <1>8, <2>1 DEF vars, Apart, NeverFanAgainstHeater
<1> QED BY <1>1, <1>2, <1>3, <1>4, <1>5, <1>6, <1>7, <1>8 DEF Next

\* Type correctness, with the reports a decision is made on being there.
THEOREM TypeCorrect == Spec => []TypeOK
<1>0. NoReport \notin Reports BY DEF NoReport, Reports
<1>1. Init => TypeOK BY DEF Init, TypeOK
<1>2. TypeOK /\ [Next]_vars => TypeOK'
  <2> SUFFICES ASSUME TypeOK, [Next]_vars PROVE TypeOK' OBVIOUS
  <2>1. FanOn \in BOOLEAN /\ HeaterOn \in BOOLEAN BY DEF FanOn, HeaterOn
  <2> USE DEF TypeOK
  <2>2. CASE Tick BY <2>2 DEF Tick
  <2>3. CASE Read
    <3>1. PICK report \in Reports : OutdoorAnswers(report) \/ IndoorAnswers(report)
          BY <2>3 DEF Read
    <3>2. report # NoReport BY <1>0
    <3>3. CASE OutdoorAnswers(report) BY <3>2, <3>3 DEF OutdoorAnswers
    <3>4. CASE IndoorAnswers(report) BY <3>2, <3>4 DEF IndoorAnswers
    <3> QED BY <3>1, <3>3, <3>4
  <2>4. CASE OutdoorFails \/ OutdoorMalformed \/ IndoorFails
        BY <2>4 DEF OutdoorFails, OutdoorMalformed, IndoorFails
  <2>5. CASE SwitchFan \/ SwitchHeater BY <2>1, <2>5 DEF SwitchFan, SwitchHeater
  <2>6. CASE BroadcastFails BY <2>1, <2>6 DEF BroadcastFails
  <2>7. CASE Restart BY <2>7 DEF Restart
  <2>8. CASE UNCHANGED vars BY <2>8 DEF vars
  <2> QED BY <2>2, <2>3, <2>4, <2>5, <2>6, <2>7, <2>8 DEF Next
<1> QED BY <1>1, <1>2, PTL DEF Spec

\* Whatever the readings, the exits and restarts, once both outlets were switched the
\* window fan works against the heater only between two commands or after a failed one.
THEOREM NeverBoth == Spec => []NeverFanAgainstHeater
<1>1. Apart => NeverFanAgainstHeater BY DEF Apart
<1> QED BY <1>1, InitApart, StepApart, PTL DEF Spec
=============================================================================
