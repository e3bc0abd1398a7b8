---------------------------- MODULE ControlPanel ----------------------------
(***************************************************************************)
(* The resetter control panel: RRFcontainer shows one view at a time in    *)
(* its router-view, a view that is left is destroyed with its timers, and  *)
(* a view that is entered starts anew.  What outlives the views is the     *)
(* module TestHostTableData with the forms the hosts have saved.           *)
(***************************************************************************)
EXTENDS AddMachineWizard, AddHubWizard, MachineDashboard

VARIABLE view  \* the view in router-view

vars == <<wizardVars, hubVars, dashVars, view>>

Views == {"dashboard", "addMachine", "addHub"}

TypeOK ==
    /\ WizardTypeOK /\ HubWizardTypeOK /\ DashboardTypeOK
    /\ view \in Views

Init ==
    /\ WizardInit /\ HubWizardInit /\ DashboardInit
    /\ view = "dashboard"

\* A link of the navigation.  The dialogs cover it.
Go(v) ==
    /\ v # view /\ dialog = <<>>
    /\ view' = v
    /\ WizardReset /\ HubWizardReset /\ DashboardReset

Next ==
    \/ view = "addMachine" /\ WizardNext /\ UNCHANGED <<hubVars, dashVars, view>>
    \/ view = "addHub" /\ HubWizardNext /\ UNCHANGED <<wizardVars, dashVars, view>>
    \/ view = "dashboard" /\ DashboardNext /\ UNCHANGED <<wizardVars, hubVars, view>>
    \/ \E v \in Views : Go(v)

Spec == Init /\ [][Next]_vars

-----------------------------------------------------------------------------
\* A spinner that turns has a result coming that will stop it, in every step of both
\* wizards, however often its button was clicked and whatever step was hidden meanwhile.
SpinnersHaveResult ==
    /\ \A s \in Steps : SpinnerShown(step[s]) => step[s].timers > 0
    /\ \A s \in HubSteps : SpinnerShown(hubStep[s]) => hubStep[s].timers > 0

\* In both wizards, whatever is clicked twice and whenever the results arrive, a step
\* that is shown has been given what it works on.
ShownStepsHaveInput == StepsHaveTheirInput /\ HubDetailsComeTogether
=============================================================================
