---------------------------- MODULE AddHubWizard ----------------------------
(***************************************************************************)
(* AddNewHub and its three steps: confirm the public IP address of a hub,  *)
(* find it by its serial number, register it under a name.  The validators *)
(* are placeholders that accept every text, so a text is NoText or not.    *)
(*                                                                         *)
(* Step 1 reports its success as a failure to its card: the button stays   *)
(* enabled, and another address can be confirmed at any time.  Step 2      *)
(* shows step 3 whatever its result.                                       *)
(***************************************************************************)
EXTENDS WizardStep

CONSTANTS
    IPs, SerialNumbers, Names,  \* what is typed into the steps' inputs
    NoText                      \* ""

ASSUME HubWizardAssumption == NoText \notin IPs \cup SerialNumbers \cup Names

VARIABLES
    hubStep,    \* per step: its card
    hubShown,   \* the steps with showSteps TRUE
    ipInput, serialInput, nameInput,  \* the inputs of the steps
    step2IP,                          \* step 2's prop hubGlobalIP_input
    step3IP, step3Serial              \* step 3's props

hubVars == <<hubStep, hubShown, ipInput, serialInput, nameInput, step2IP, step3IP, step3Serial>>

HubSteps == 1 .. 3
Text(S) == S \cup {NoText}

HubWizardTypeOK ==
    /\ hubStep \in [HubSteps -> StepType]
    /\ hubShown \in SUBSET HubSteps
    /\ ipInput \in Text(IPs) /\ step2IP \in Text(IPs) /\ step3IP \in Text(IPs)
    /\ serialInput \in Text(SerialNumbers) /\ step3Serial \in Text(SerialNumbers)
    /\ nameInput \in Text(Names)

HubWizardInit ==
    /\ hubStep = [s \in HubSteps |-> NewStep] /\ hubShown = {1}
    /\ ipInput = NoText /\ serialInput = NoText /\ nameInput = NoText
    /\ step2IP = NoText /\ step3IP = NoText /\ step3Serial = NoText

\* The view is left.
HubWizardReset ==
    /\ hubStep' = [s \in HubSteps |-> NewStep] /\ hubShown' = {1}
    /\ ipInput' = NoText /\ serialInput' = NoText /\ nameInput' = NoText
    /\ step2IP' = NoText /\ step3IP' = NoText /\ step3Serial' = NoText

-----------------------------------------------------------------------------
\* processData of each step.
ClickHubStep(s) ==
    /\ s \in hubShown /\ CanClick(hubStep[s]) /\ hubStep[s].timers < MaxTimers
    /\ hubStep' = [hubStep EXCEPT ![s] = Waiting(@)]
    /\ UNCHANGED <<hubShown, ipInput, serialInput, nameInput, step2IP, step3IP, step3Serial>>

ClickConfirm == ClickHubStep(1)
ClickSearch == ClickHubStep(2)
ClickRegister == ClickHubStep(3)

TypeIP(t) ==
    /\ ipInput # t /\ ipInput' = t
    /\ UNCHANGED <<hubStep, hubShown, serialInput, nameInput, step2IP, step3IP, step3Serial>>
TypeSerial(t) ==
    /\ 2 \in hubShown /\ serialInput # t /\ serialInput' = t
    /\ UNCHANGED <<hubStep, hubShown, ipInput, nameInput, step2IP, step3IP, step3Serial>>
TypeHubName(t) ==
    /\ 3 \in hubShown /\ nameInput # t /\ nameInput' = t
    /\ UNCHANGED <<hubStep, hubShown, ipInput, serialInput, step2IP, step3IP, step3Serial>>

AcceptsIP(t) == t # NoText

\* step1_finish and step2_finish.
ShownAfterIP(success) == IF success THEN hubShown \cup {2} ELSE hubShown \ {2}
ShownAfterSerial == hubShown \cup {3}

\* A step 2 that is hidden is destroyed with its timers and input.
IPresult ==
    LET success == AcceptsIP(ipInput)
        card1 == Answered(hubStep[1], FALSE)
    IN  /\ hubStep[1].timers > 0
        /\ hubShown' = ShownAfterIP(success)
        /\ hubStep' = IF success /\ 2 \in hubShown
                      THEN [hubStep EXCEPT ![1] = card1]
                      ELSE [hubStep EXCEPT ![1] = card1, ![2] = NewStep]
        /\ serialInput' = IF success /\ 2 \in hubShown THEN serialInput ELSE NoText
        /\ step2IP' = IF success THEN ipInput ELSE step2IP
        /\ UNCHANGED <<ipInput, nameInput, step3IP, step3Serial>>

\* The pair of the address and the serial number on success, and step 3 in any case.
SerialResult ==
    LET success == serialInput # NoText
    IN  /\ hubStep[2].timers > 0
        /\ hubStep' = [hubStep EXCEPT ![2] = Answered(@, success)]
        /\ hubShown' = ShownAfterSerial
        /\ step3IP' = IF success THEN step2IP ELSE step3IP
        /\ step3Serial' = IF success THEN serialInput ELSE step3Serial
        /\ UNCHANGED <<ipInput, serialInput, nameInput, step2IP>>

\* addNewHubAPIcall, a placeholder, is called in the branch that fails.
NameResult ==
    /\ hubStep[3].timers > 0
    /\ hubStep' = [hubStep EXCEPT ![3] = Answered(@, nameInput # NoText)]
    /\ UNCHANGED <<hubShown, ipInput, serialInput, nameInput, step2IP, step3IP, step3Serial>>

HubWizardNext ==
    \/ ClickConfirm \/ ClickSearch \/ ClickRegister
    \/ \E t \in Text(IPs) : TypeIP(t)
    \/ \E t \in Text(SerialNumbers) : TypeSerial(t)
    \/ \E t \in Text(Names) : TypeHubName(t)
    \/ IPresult \/ SerialResult \/ NameResult

-----------------------------------------------------------------------------
\* However often and late the steps answer, a serial number is only looked for at
\* an address that was confirmed, and step 3 has both details of the hub it
\* registers or (step 2 shows it even after a failure) neither.
HubDetailsComeTogether ==
    /\ 2 \in hubShown => step2IP # NoText
    /\ step3IP = NoText <=> step3Serial = NoText
=============================================================================
