--------------------------- MODULE ClimateControl ---------------------------
(***************************************************************************)
(* climate-control-rf: a tick asks a weather service and an indoor sensor, *)
(* decides, and sends radio codes to the fan's and the heater's outlets;   *)
(* then a timer starts the next tick.                                      *)
(*                                                                         *)
(* Every promise a tick awaits is a step.  A promise whose async executor  *)
(* throws is never settled: the tick never ends and no timer is set again. *)
(* With nothing pending the process exits, as it does on an exception in a *)
(* callback (pc = "gone"), and the batch file's loop starts it again.      *)
(***************************************************************************)
EXTENDS Integers

CONSTANTS
    Temps, Dewpts,     \* bound: the readings that can be returned
    MinTemp, MaxTemp,  \* config.indoor_minTemp, indoor_maxTemp
    DewptTH,           \* config.dewptTH
    HeaterEnabled      \* config.heater_enabled

ASSUME ClimateAssumption ==
    /\ Temps \subseteq Int /\ Dewpts \subseteq Int
    /\ MinTemp \in Int /\ MaxTemp \in Int /\ DewptTH \in Int
    /\ MinTemp <= MaxTemp
    /\ HeaterEnabled \in BOOLEAN

VARIABLES
    pc,         \* what the tick awaits; "wait" is the timer
    outReport,  \* let outReport
    inReport,   \* let inReport
    fan,        \* the last code sent to the fan's outlet
    heater,     \* the last code sent to the heater's outlet
    settled     \* history: a tick has switched both outlets, and no command failed since

vars == <<pc, outReport, inReport, fan, heater, settled>>

Reports == [temp : Temps, dewpt : Dewpts]
NoReport == <<>>

TypeOK ==
    /\ pc \in {"wait", "outdoor", "indoor", "fan", "heater", "gone"}
    /\ outReport \in Reports \cup {NoReport}
    /\ inReport \in Reports \cup {NoReport}
    /\ fan \in BOOLEAN /\ heater \in BOOLEAN /\ settled \in BOOLEAN
    /\ pc \in {"indoor", "fan", "heater"} => outReport # NoReport
    /\ pc \in {"fan", "heater"} => inReport # NoReport

Init ==
    /\ pc = "outdoor"
    /\ outReport = NoReport /\ inReport = NoReport
    /\ fan \in BOOLEAN /\ heater \in BOOLEAN
    /\ ~HeaterEnabled => ~heater
    /\ settled = FALSE

-----------------------------------------------------------------------------
(* The decision of executeAction *)

ColderOutside == outReport.temp < inReport.temp
InsideTooCold == inReport.temp < MinTemp
InsideTooHot == inReport.temp > MaxTemp

FanOn ==
    \/ InsideTooHot /\ ColderOutside
    \/ ~InsideTooHot /\ InsideTooCold /\ ~ColderOutside
    \/ ~InsideTooHot /\ ~InsideTooCold /\ outReport.dewpt + DewptTH < inReport.dewpt

\* Mutated: whenever it is too cold.
HeaterOn_WheneverCold == HeaterEnabled /\ ~InsideTooHot /\ InsideTooCold
HeaterOn == HeaterEnabled /\ ~InsideTooHot /\ InsideTooCold /\ ColderOutside

-----------------------------------------------------------------------------
(* The tick *)

Tick ==
    /\ pc = "wait"
    /\ pc' = "outdoor"
    /\ outReport' = NoReport /\ inReport' = NoReport
    /\ UNCHANGED <<fan, heater, settled>>

OutdoorAnswers(report) ==
    /\ pc = "outdoor"
    /\ outReport' = report
    /\ pc' = "indoor"
    /\ UNCHANGED <<inReport, fan, heater, settled>>

\* The request fails: caught, rejected, logged by tick.
OutdoorFails ==
    /\ pc = "outdoor"
    /\ pc' = "wait"
    /\ UNCHANGED <<outReport, inReport, fan, heater, settled>>

\* JSON.parse throws in the "end" callback, or the answer has no data[0] and the
\* executor of getOutdoorReport throws.
OutdoorMalformed ==
    /\ pc = "outdoor"
    /\ pc' = "gone"
    /\ UNCHANGED <<outReport, inReport, fan, heater, settled>>

IndoorAnswers(report) ==
    /\ pc = "indoor"
    /\ inReport' = report
    /\ pc' = "fan"
    /\ UNCHANGED <<outReport, fan, heater, settled>>

IndoorFails ==
    /\ pc = "indoor"
    /\ pc' = "wait"
    /\ UNCHANGED <<outReport, inReport, fan, heater, settled>>

SwitchFan ==
    /\ pc = "fan"
    /\ fan' = FanOn
    /\ pc' = "heater"
    /\ UNCHANGED <<outReport, inReport, heater, settled>>

\* Without a heater heaterSwitch only logs.
SwitchHeater ==
    /\ pc = "heater"
    /\ heater' = IF HeaterEnabled THEN HeaterOn ELSE heater
    /\ pc' = "wait"
    /\ settled' = TRUE
    /\ UNCHANGED <<outReport, inReport, fan>>

\* The codesend command reports an error, with its code sent or not: the await in
\* the executor of fanSwitch or heaterSwitch throws.
BroadcastFails ==
    /\ pc' = "gone"
    /\ \/ pc = "fan" /\ fan' \in {fan, FanOn} /\ UNCHANGED heater
       \/ pc = "heater" /\ HeaterEnabled /\ heater' \in {heater, HeaterOn} /\ UNCHANGED fan
    /\ settled' = FALSE
    /\ UNCHANGED <<outReport, inReport>>

\* "start fan controller.bat"; mutated: without its loop.
Restart_Never == pc = "gone" /\ UNCHANGED vars
Restart ==
    /\ pc = "gone"
    /\ pc' = "outdoor"
    /\ outReport' = NoReport /\ inReport' = NoReport
    /\ UNCHANGED <<fan, heater, settled>>

-----------------------------------------------------------------------------
Read == \E report \in Reports : OutdoorAnswers(report) \/ IndoorAnswers(report)

Next ==
    \/ Tick \/ Read \/ SwitchFan \/ SwitchHeater
    \/ OutdoorFails \/ OutdoorMalformed \/ IndoorFails \/ BroadcastFails
    \/ Restart

\* The timer fires, the batch file's loop goes on, and every request, reading and
\* command ends one way or another.
Spec == Init /\ [][Next]_vars /\ WF_vars(Next)

-----------------------------------------------------------------------------
\* Once a tick has switched both outlets, the window fan does not blow against the
\* heater except between the two commands of a tick: neither while later readings fail
\* nor while the process is gone or has started again, until a command itself fails
\* and leaves one outlet as it was.
NeverFanAgainstHeater == settled /\ pc # "heater" => ~(fan /\ heater)

\* Control goes on: whatever fails, the conditions are read again.
KeepsReading == []<>(pc = "outdoor")
=============================================================================
