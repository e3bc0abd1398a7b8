-------------------------- MODULE AddMachineWizard --------------------------
(***************************************************************************)
(* AddNewMachine2 and its five steps: choose a hub, let it list the hosts  *)
(* of its network, select hosts, fill a form for each (a machine's saved   *)
(* form is its formInput), finish.  A step is mounted while showSteps says *)
(* so and starts anew each time.                                           *)
(*                                                                         *)
(* The hosts are one array of the module TestHostTableData: the rows of    *)
(* the table, the chosen hosts and the machines of step 4 are the same     *)
(* objects, and what a form saved outlives the wizard.  A form is saved by *)
(* reference: until another machine is shown, typing changes what was      *)
(* saved.  A host is its row in the table.                                 *)
(***************************************************************************)
EXTENDS WizardStep, FiniteSets

CONSTANTS
    Hubs,        \* hubOptions
    NoHub,       \* nothing selected; hubID -1
    NumHosts,    \* rows of TestHostTableData
    LocalName,   \* per row: the length of its NetBIOS name
    NameLengths, \* a newName is its length; the input takes 30 characters
    Ports        \* what is typed as apiPort

ASSUME WizardAssumption ==
    /\ NoHub \notin Hubs
    /\ NumHosts \in Nat \ {0}
    /\ NameLengths \subseteq 0 .. 30 /\ LocalName \in [1 .. NumHosts -> NameLengths]
    /\ Ports \subseteq Int /\ 3333 \in Ports

Rows == 1 .. NumHosts
NoRow == 0
Steps == 1 .. 5
Forms == [newName : NameLengths, apiPort : Ports]

VARIABLES
    step,        \* per step: its card
    shown,       \* the steps with showSteps TRUE
    selectedHub, \* of step 1's drop-down list
    hubID,       \* step 2's input
    tableItems,  \* step 3's input: the rows of the host table
    selected,    \* HostTable.selected, by row instead of MAC address
    machines,    \* step 4's input: chosenHosts
    current,     \* MachinePropertiesSelect.currentMachine
    form,        \* currentFormData
    savedIn,     \* the machine whose formInput is the object currentFormData
    formInput    \* per host: <<>> without the property, else <<form>>

wizardVars == <<step, shown, selectedHub, hubID, tableItems, selected, machines,
                current, form, savedIn, formInput>>

WizardTypeOK ==
    /\ step \in [Steps -> StepType]
    /\ shown \in SUBSET Steps
    /\ selectedHub \in Hubs \cup {NoHub} /\ hubID \in Hubs \cup {NoHub}
    /\ tableItems \in SUBSET Rows /\ selected \in SUBSET Rows /\ machines \in SUBSET Rows
    /\ current \in Rows \cup {NoRow} /\ savedIn \in Rows \cup {NoRow}
    /\ form \in Forms
    /\ formInput \in [Rows -> {<<>>} \cup {<<f>> : f \in Forms}]

FormDefaults(name) == [newName |-> name, apiPort |-> 3333]

\* AddNewMachine2 is created: the first step is shown, nothing is chosen.
NewSession ==
    /\ step = [s \in Steps |-> NewStep] /\ shown = {1}
    /\ selectedHub = NoHub /\ hubID = NoHub
    /\ tableItems = {} /\ selected = {} /\ machines = {}
    /\ current = NoRow /\ savedIn = NoRow /\ form = FormDefaults(LocalName[1])

WizardInit == NewSession /\ formInput = [r \in Rows |-> <<>>]

\* The view is left: its components are destroyed, the hosts keep their forms.
WizardReset ==
    /\ step' = [s \in Steps |-> NewStep] /\ shown' = {1}
    /\ selectedHub' = NoHub /\ hubID' = NoHub
    /\ tableItems' = {} /\ selected' = {} /\ machines' = {}
    /\ current' = NoRow /\ savedIn' = NoRow /\ form' = FormDefaults(LocalName[1])
    /\ UNCHANGED formInput

-----------------------------------------------------------------------------
(* The steps that end with outputCallback(output) *)

\* showSteps.step(s+1) = success.
\* Mutated: the following step is shown whatever the result.
ShownAfter_Always(s, success) == shown \cup {s + 1}
ShownAfter(s, success) == IF success THEN shown \cup {s + 1} ELSE shown \ {s + 1}

\* v-if destroys the step it hides, and what its timers bring is lost: the result
\* finds no spinner to stop.
Mounted(t) == t \in shown' /\ t \notin shown
Destroyed(t) == t \in shown /\ t \notin shown'

\* Step s has its result; card is its new card.
Finish(s, card, success) ==
    /\ shown' = ShownAfter(s, success)
    /\ step' = [t \in Steps |->
                  IF t = s THEN card
                  ELSE IF Mounted(t) \/ Destroyed(t) THEN NewStep ELSE step[t]]

\* processData of the steps with a timer.
Click(s) ==
    /\ s \in shown /\ CanClick(step[s]) /\ step[s].timers < MaxTimers
    /\ step' = [step EXCEPT ![s] = Waiting(@)]
    /\ UNCHANGED <<shown, selectedHub, hubID, tableItems, selected, machines,
                   current, form, savedIn, formInput>>

ClickUseHub == Click(1)
ClickRetrieveHosts == Click(2)
ClickFinishAdding == Click(5)

SelectHub(h) ==
    /\ selectedHub # h /\ selectedHub' = h
    /\ UNCHANGED <<step, shown, hubID, tableItems, selected, machines,
                   current, form, savedIn, formInput>>

\* The selection is read when the result arrives, not when the button was clicked.
HubResult ==
    LET success == selectedHub # NoHub
    IN  /\ step[1].timers > 0
        /\ Finish(1, Answered(step[1], success), success)
        /\ hubID' = IF success THEN selectedHub ELSE hubID
        /\ UNCHANGED <<selectedHub, tableItems, selected, machines,
                       current, form, savedIn, formInput>>

\* Every hub answers with the test data; input.hubID < 1 is the only failure.
HubAnswers == hubID # NoHub

HostsResult ==
    /\ step[2].timers > 0
    /\ Finish(2, Answered(step[2], HubAnswers), HubAnswers)
    /\ tableItems' = IF HubAnswers THEN Rows ELSE tableItems
    /\ selected' = IF Mounted(3) THEN {} ELSE selected
    /\ UNCHANGED <<selectedHub, hubID, machines, current, form, savedIn, formInput>>

-----------------------------------------------------------------------------
(* Step 3: HostTable *)

SetSelected(S) ==
    /\ 3 \in shown /\ selected # S
    /\ selected' = S
    /\ UNCHANGED <<step, shown, selectedHub, hubID, tableItems, machines,
                   current, form, savedIn, formInput>>

CheckBox(r) == r \in tableItems /\
    SetSelected(IF r \in selected THEN selected \ {r} ELSE selected \cup {r})
SelectAll == SetSelected(tableItems)
ClearAll == SetSelected({})

\* getChosenMachines, in the order of the table.
ChosenMachines == tableItems \cap selected

FirstOf(S) == CHOOSE r \in S : \A q \in S : r <= q

\* beforeMount of MachinePropertiesSelect: the defaults, even for a machine with a
\* saved form.
FinishSelection ==
    LET success == ChosenMachines # {}
    IN  /\ 3 \in shown /\ CanClick(step[3])
        /\ Finish(3, ProcessingFinished(ProcessingStarted(step[3]), success), success)
        /\ machines' = IF success THEN ChosenMachines ELSE machines
        /\ IF Mounted(4)
           THEN /\ current' = FirstOf(machines')
                /\ form' = FormDefaults(LocalName[current'])
                /\ savedIn' = NoRow
           ELSE UNCHANGED <<current, form, savedIn>>
        /\ UNCHANGED <<selectedHub, hubID, tableItems, selected, formInput>>

-----------------------------------------------------------------------------
(* Step 4: MachinePropertiesSelect *)

\* validateMachineForm.  Mutated: min(0) for the length of the name.
Valid_Unnamed(f) == f.newName <= 30 /\ f.apiPort >= 1 /\ f.apiPort <= 65535
Valid(f) == f.newName >= 1 /\ f.newName <= 30 /\ f.apiPort >= 1 /\ f.apiPort <= 65535

EditForm(f) ==
    /\ 4 \in shown /\ form # f
    /\ form' = f
    /\ formInput' = IF savedIn = NoRow THEN formInput ELSE [formInput EXCEPT ![savedIn] = <<f>>]
    /\ UNCHANGED <<step, shown, selectedHub, hubID, tableItems, selected, machines,
                   current, savedIn>>

\* loadMachineForm for the machine that is shown now.
\* Mutated: a machine without a form keeps the one on the screen.
LoadMachineForm_Kept(r) ==
    /\ current' = r
    /\ IF formInput[r] # <<>> THEN form' = formInput[r][1] /\ savedIn' = r
       ELSE UNCHANGED <<form, savedIn>>
LoadMachineForm(r) ==
    /\ current' = r
    /\ IF formInput[r] # <<>> THEN form' = formInput[r][1] /\ savedIn' = r
       ELSE form' = FormDefaults(LocalName[r]) /\ savedIn' = NoRow

Later == {r \in machines : r > current}

\* A valid form is saved and the page is turned if there is another; an invalid one
\* takes back what was saved.
SaveForm ==
    /\ 4 \in shown
    /\ IF Valid(form)
       THEN /\ formInput' = [formInput EXCEPT ![current] = <<form>>]
            /\ IF Later # {} THEN LoadMachineForm(FirstOf(Later))
               ELSE savedIn' = current /\ UNCHANGED <<current, form>>
       ELSE /\ formInput' = [formInput EXCEPT ![current] = <<>>]
            /\ savedIn' = NoRow /\ UNCHANGED <<current, form>>
    /\ UNCHANGED <<step, shown, selectedHub, hubID, tableItems, selected, machines>>

TurnPage(r) ==
    /\ 4 \in shown /\ r \in machines \ {current}
    /\ LoadMachineForm(r)
    /\ UNCHANGED <<step, shown, selectedHub, hubID, tableItems, selected, machines, formInput>>

AllFormInputSuccessful == \A r \in machines : formInput[r] # <<>>

\* The machines are in the result, but AddNewMachine2 does not give them to step 5.
FinishProperties ==
    /\ 4 \in shown /\ CanClick(step[4])
    /\ Finish(4, ProcessingFinished(ProcessingStarted(step[4]), AllFormInputSuccessful),
              AllFormInputSuccessful)
    /\ UNCHANGED <<selectedHub, hubID, tableItems, selected, machines,
                   current, form, savedIn, formInput>>

-----------------------------------------------------------------------------
\* Step 5 has no outputCallback: after the verdict its processResult throws.
FinishResult(success) ==
    /\ step[5].timers > 0
    /\ step' = [step EXCEPT ![5] = Answered(@, success)]
    /\ UNCHANGED <<shown, selectedHub, hubID, tableItems, selected, machines,
                   current, form, savedIn, formInput>>

Results == HubResult \/ HostsResult \/ \E success \in BOOLEAN : FinishResult(success)

WizardNext ==
    \/ ClickUseHub \/ ClickRetrieveHosts \/ ClickFinishAdding
    \/ \E h \in Hubs \cup {NoHub} : SelectHub(h)
    \/ \E r \in Rows : CheckBox(r) \/ TurnPage(r)
    \/ SelectAll \/ ClearAll \/ FinishSelection
    \/ \E f \in Forms : EditForm(f)
    \/ SaveForm \/ FinishProperties
    \/ Results

-----------------------------------------------------------------------------
\* Whatever is clicked twice and whenever the results arrive, a step that is shown
\* has what it works on: a hub to scan, hosts to choose from, and a machine on the
\* screen of step 4 (whose template would throw without one).
StepsHaveTheirInput ==
    /\ 2 \in shown => hubID \in Hubs
    /\ 3 \in shown => tableItems # {}
    /\ 4 \in shown => current \in machines /\ machines \subseteq tableItems

\* Typing never reaches the saved form of a machine that is not on the screen: if
\* the form is an object some machine has saved, it is that machine.
FormIsOfShownMachine ==
    savedIn # NoRow => savedIn = current /\ formInput[savedIn] = <<form>>

\* The hole in step 4 is exactly this one: a form that is not valid gets into a
\* machine only by typing on after it was saved, while it is still on the screen.
OnlyTypingSpoilsForms ==
    [][\A r \in Rows :
         formInput'[r] # formInput[r] /\ formInput'[r] # <<>> =>
             LET f == formInput'[r][1]
             IN  (f.newName >= 1 /\ f.apiPort >= 1 /\ f.apiPort <= 65535) \/ savedIn = r]_wizardVars

\* Only step 2 can be taken back (by a late second result of step 1): while the
\* view stays, steps 3, 4 and 5 stay.
ReachedStepsStay == [][NewSession' \/ \A s \in 3 .. 5 : s \in shown => s \in shown']_wizardVars
=============================================================================
