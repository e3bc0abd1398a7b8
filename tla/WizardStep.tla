----------------------------- MODULE WizardStep -----------------------------
(***************************************************************************)
(* AddMachineStep_P, the card both wizards of the control panel are made   *)
(* of: a button that starts the step's work, a spinner, and a verdict.     *)
(* The work of most steps is a timer (a request, later) whose result       *)
(* arrives in processResult; nothing cancels it, and the guard against a   *)
(* second click is in processingStarted, not in the step that set it.      *)
(***************************************************************************)
EXTENDS Integers

CONSTANT MaxTimers  \* bound: results of one step that are under way

ASSUME TimersAssumption == MaxTimers \in Nat \ {0}

\* The card of a step that has just been mounted.
NewStep == [inAction |-> FALSE, disabled |-> FALSE, verdict |-> "none", timers |-> 0]

StepType == [
    inAction : BOOLEAN,                     \* processingStarted, not yet Finished
    disabled : BOOLEAN,                     \* buttonDisabled
    verdict  : {"none", "valid", "invalid"},\* buttonValidClass
    timers   : 0 .. MaxTimers]              \* results that are still to arrive

CanClick(st) == ~st.disabled

\* SubheadingSpinner: the card calls setSpinnerShow where it sets inAction.
SpinnerShown(st) == st.inAction

ProcessingStarted(st) == [st EXCEPT !.inAction = TRUE]

\* Mutated: the button stays enabled, the spinner stays.
ProcessingFinished_Enabled(st, success) ==
    [st EXCEPT !.inAction = FALSE, !.verdict = IF success THEN "valid" ELSE "invalid"]
ProcessingFinished_Spinning(st, success) ==
    [st EXCEPT !.disabled = success, !.verdict = IF success THEN "valid" ELSE "invalid"]
ProcessingFinished(st, success) ==
    [st EXCEPT !.inAction = FALSE,
               !.disabled = success,
               !.verdict = IF success THEN "valid" ELSE "invalid"]

\* processData of a step with a timer, and the beginning of its processResult.
Waiting(st) == [ProcessingStarted(st) EXCEPT !.timers = @ + 1]
Answered(st, success) == [ProcessingFinished(st, success) EXCEPT !.timers = @ - 1]
=============================================================================
