------------------------- MODULE ControlPanelProofs -------------------------
(***************************************************************************)
(* Proofs about ControlPanel, for any hubs, hosts, texts and machines and  *)
(* any number of results under way.  A shown step of the wizard for        *)
(* machines has its input because the steps are finished in a chain: a     *)
(* step that is hidden has no timers (Hidden), so a result comes from a    *)
(* step that is shown and has its own input, and the button of a step      *)
(* stays disabled while the step after it is shown (Chain).                *)
(***************************************************************************)
EXTENDS ControlPanel, WellFoundedInduction, TLAPS

Hidden == \A s \in Steps : s \notin shown => step[s] = NewStep

Spinning == \A s \in Steps : step[s].inAction => step[s].timers > 0

Chain ==
    /\ 2 \in shown => hubID \in Hubs
    /\ 3 \in shown => tableItems = Rows
    /\ 4 \in shown => 3 \in shown /\ step[3].disabled /\ current \in machines
    /\ 5 \in shown => 4 \in shown /\ step[4].disabled

WizardInv == WizardTypeOK /\ Hidden /\ Spinning /\ Chain /\ FormIsOfShownMachine

HubHidden == \A s \in HubSteps : s \notin hubShown => hubStep[s] = NewStep

HubSpinning == \A s \in HubSteps : hubStep[s].inAction => hubStep[s].timers > 0

HubWizardInv ==
    HubWizardTypeOK /\ HubHidden /\ HubSpinning /\ HubDetailsComeTogether

DashboardInv == DashboardTypeOK /\ CollapsesFollowTheirHub /\ VerdictIsOfTheName

IInv == WizardInv /\ HubWizardInv /\ DashboardInv /\ view \in Views

-----------------------------------------------------------------------------
\* The first row of a choice of rows exists.
LEMMA FirstOfIsMember ==
    ASSUME NEW S \in SUBSET Rows, S # {}
    PROVE  FirstOf(S) \in S
  <1>1. Rows \subseteq Nat
    BY WizardAssumption DEF Rows
  <1>2. PICK r \in S : \A q \in S : ~ (<<q, r>> \in OpToRel(<, Nat))
    BY <1>1, WFMin, NatLessThanWellFounded
  <1>3. \A q \in S : ~(q < r)
    BY <1>1, <1>2 DEF OpToRel
  <1>4. \E x \in S : \A q \in S : x <= q
    BY <1>1, <1>3
  <1> QED BY <1>4 DEF FirstOf

LEMMA NewCard == NewStep \in StepType /\ ~NewStep.inAction /\ NewStep.timers = 0
  BY TimersAssumption DEF NewStep, StepType

\* A card stays a card, and spins only while a result is to come.
LEMMA Cards ==
    ASSUME NEW st \in StepType, NEW success \in BOOLEAN
    PROVE  /\ st.timers < MaxTimers =>
                Waiting(st) \in StepType /\ Waiting(st).timers > 0
                  /\ Waiting(st).disabled = st.disabled
           /\ st.timers > 0 =>
                Answered(st, success) \in StepType /\ ~Answered(st, success).inAction
                  /\ Answered(st, success).disabled = success
           /\ LET done == ProcessingFinished(ProcessingStarted(st), success)
              IN  done \in StepType /\ ~done.inAction /\ done.disabled = success
  <1> USE TimersAssumption DEF StepType
  <1>2. ASSUME st.timers < MaxTimers
        PROVE  Waiting(st) \in StepType /\ Waiting(st).timers > 0
                 /\ Waiting(st).disabled = st.disabled
    <2> DEFINE started == ProcessingStarted(st)
    <2>1. started \in StepType /\ started.timers = st.timers /\ started.disabled = st.disabled
      BY DEF ProcessingStarted
    <2>2. started.timers + 1 \in 0 .. MaxTimers /\ started.timers + 1 > 0
      BY <1>2, <2>1
    <2>3. Waiting(st) = [started EXCEPT !.timers = started.timers + 1]
      BY DEF Waiting
    <2> HIDE DEF started
    <2> QED BY <2>1, <2>2, <2>3
  <1>3. ASSUME st.timers > 0
        PROVE  Answered(st, success) \in StepType /\ ~Answered(st, success).inAction
                 /\ Answered(st, success).disabled = success
    <2> DEFINE finished == ProcessingFinished(st, success)
    <2>1. /\ finished \in StepType /\ finished.timers = st.timers
          /\ ~finished.inAction /\ finished.disabled = success
      BY DEF ProcessingFinished
    <2>2. finished.timers - 1 \in 0 .. MaxTimers
      BY <1>3, <2>1
    <2>3. Answered(st, success) = [finished EXCEPT !.timers = finished.timers - 1]
      BY DEF Answered
    <2> HIDE DEF finished
    <2> QED BY <2>1, <2>2, <2>3
  <1>4. LET done == ProcessingFinished(ProcessingStarted(st), success)
        IN  done \in StepType /\ ~done.inAction /\ done.disabled = success
    BY DEF ProcessingStarted, ProcessingFinished
  <1> QED BY <1>2, <1>3, <1>4

\* What a step that ends with outputCallback does to the cards and to what is shown.
LEMMA FinishStep ==
    ASSUME WizardTypeOK, Hidden, Spinning,
           NEW s \in 1 .. 4, s \in shown,
           NEW card \in StepType, ~card.inAction, NEW success \in BOOLEAN,
           Finish(s, card, success)
    PROVE  /\ step' \in [Steps -> StepType] /\ shown' \in SUBSET Steps
           /\ Hidden' /\ Spinning'
           /\ step'[s] = card
           /\ s + 1 \in shown' <=> success
           /\ \A t \in Steps \ {s + 1} :
                 /\ t \in shown' <=> t \in shown
                 /\ t # s => step'[t] = step[t]
  <1>1. s \in Steps /\ s + 1 \in Steps /\ s # s + 1
    BY DEF Steps
  <1>2. NewStep \in StepType /\ ~NewStep.inAction
    BY NewCard
  <1>3. shown' = IF success THEN shown \cup {s + 1} ELSE shown \ {s + 1}
    BY DEF Finish, ShownAfter
  <1>4. step' = [t \in Steps |-> IF t = s THEN card
                   ELSE IF (t \in shown' /\ t \notin shown) \/ (t \in shown /\ t \notin shown')
                        THEN NewStep ELSE step[t]]
    BY DEF Finish, Mounted, Destroyed
  <1>5. step \in [Steps -> StepType] /\ shown \in SUBSET Steps
    BY DEF WizardTypeOK
  <1>6. step' \in [Steps -> StepType] /\ shown' \in SUBSET Steps
    BY <1>1, <1>2, <1>3, <1>4, <1>5
  <1>7. Hidden'
    <2> SUFFICES ASSUME NEW t \in Steps, t \notin shown' PROVE step'[t] = NewStep
      BY DEF Hidden
    <2>1. t # s
      BY <1>1, <1>3
    <2>2. CASE t \in shown
      BY <2>1, <2>2, <1>4
    <2>3. CASE t \notin shown
      BY <2>1, <2>3, <1>4 DEF Hidden
    <2> QED BY <2>2, <2>3
  <1>8. Spinning'
    BY <1>2, <1>4 DEF Spinning
  <1>9. \A t \in Steps \ {s + 1} : (t \in shown' <=> t \in shown) /\ (t # s => step'[t] = step[t])
    BY <1>3, <1>4
  <1> QED BY <1>1, <1>3, <1>4, <1>6, <1>7, <1>8, <1>9

\* A result comes from a step that is shown.
LEMMA TimersAreShown ==
    ASSUME Hidden, NEW s \in Steps, step[s].timers > 0
    PROVE  s \in shown
  <1> QED BY NewCard DEF Hidden

-----------------------------------------------------------------------------
LEMMA WizardStart == WizardInit => WizardInv
  <1> SUFFICES ASSUME WizardInit PROVE WizardInv
    OBVIOUS
  <1>1. NewStep \in StepType /\ ~NewStep.inAction
    BY NewCard
  <1>2. 1 \in Rows /\ NoRow \notin Rows
    BY WizardAssumption DEF Rows, NoRow
  <1>3. FormDefaults(LocalName[1]) \in Forms
    BY <1>2, WizardAssumption DEF FormDefaults, Forms, Rows
  <1>4. WizardTypeOK
    BY <1>1, <1>3 DEF WizardInit, NewSession, WizardTypeOK, Steps
  <1>5. Hidden /\ Spinning /\ Chain
    BY <1>1 DEF WizardInit, NewSession, Hidden, Spinning, Chain, Steps
  <1>6. FormIsOfShownMachine
    BY DEF WizardInit, NewSession, FormIsOfShownMachine
  <1> QED BY <1>4, <1>5, <1>6 DEF WizardInv

LEMMA WizardLeft ==
    ASSUME WizardInv, WizardReset
    PROVE  WizardInv'
  <1>1. NewStep \in StepType /\ ~NewStep.inAction
    BY NewCard
  <1>2. 1 \in Rows /\ NoRow \notin Rows
    BY WizardAssumption DEF Rows, NoRow
  <1>3. FormDefaults(LocalName[1]) \in Forms
    BY <1>2, WizardAssumption DEF FormDefaults, Forms, Rows
  <1>4. WizardTypeOK'
    BY <1>1, <1>3 DEF WizardReset, WizardTypeOK, Steps, WizardInv
  <1>5. Hidden' /\ Spinning' /\ Chain'
    BY <1>1 DEF WizardReset, Hidden, Spinning, Chain, Steps
  <1>6. FormIsOfShownMachine'
    BY DEF WizardReset, FormIsOfShownMachine
  <1> QED BY <1>4, <1>5, <1>6 DEF WizardInv

\* The defaults of a machine, and what is loaded for it.
LEMMA LoadedForm ==
    ASSUME WizardInv, NEW r \in Rows, LoadMachineForm(r), formInput' = formInput
    PROVE  current' = r /\ savedIn' \in Rows \cup {NoRow} /\ form' \in Forms
             /\ FormIsOfShownMachine'
  <1>1. NoRow \notin Rows /\ FormDefaults(LocalName[r]) \in Forms
    BY WizardAssumption DEF Rows, NoRow, FormDefaults, Forms
  <1>2. formInput \in [Rows -> {<<>>} \cup {<<f>> : f \in Forms}]
    BY DEF WizardInv, WizardTypeOK
  <1>3. CASE formInput[r] # <<>>
    <2>1. PICK f \in Forms : formInput[r] = <<f>>
      BY <1>2, <1>3
    <2> QED BY <1>1, <1>3, <2>1 DEF LoadMachineForm, FormIsOfShownMachine
  <1>4. CASE formInput[r] = <<>>
    BY <1>1, <1>4 DEF LoadMachineForm, FormIsOfShownMachine
  <1> QED BY <1>3, <1>4

\* Every operation of the wizard keeps the invariant.
LEMMA WizardStepInv ==
    ASSUME WizardInv, WizardNext
    PROVE  WizardInv'
  <1> USE DEF WizardInv
  <1>0. 1 \in Rows /\ NoRow \notin Rows /\ Rows \subseteq Nat
    BY WizardAssumption DEF Rows, NoRow
  <1>1. ASSUME NEW s \in {1, 2, 5}, Click(s) PROVE WizardInv'
    <2>1. s \in Steps /\ s \in shown /\ step[s] \in StepType
      BY <1>1 DEF Steps, Click, WizardTypeOK
    <2>2. Waiting(step[s]) \in StepType /\ Waiting(step[s]).timers > 0
            /\ Waiting(step[s]).disabled = step[s].disabled
      BY <1>1, <2>1, Cards DEF Click
    <2>3. step' = [step EXCEPT ![s] = Waiting(step[s])]
      BY <1>1 DEF Click
    <2>4. UNCHANGED <<shown, selectedHub, hubID, tableItems, selected, machines,
                      current, form, savedIn, formInput>>
      BY <1>1 DEF Click
    <2>5. WizardTypeOK'
      BY <2>1, <2>2, <2>3, <2>4 DEF WizardTypeOK
    <2>6. Hidden' /\ Spinning'
      BY <2>1, <2>2, <2>3, <2>4 DEF WizardTypeOK, Hidden, Spinning
    <2>7. \A t \in Steps : step'[t].disabled = step[t].disabled
      BY <2>1, <2>2, <2>3 DEF WizardTypeOK
    <2>8. Chain'
      BY <2>4, <2>7 DEF Chain, Steps
    <2>9. FormIsOfShownMachine'
      BY <2>4 DEF FormIsOfShownMachine
    <2> QED BY <2>5, <2>6, <2>8, <2>9
  <1>2. ASSUME NEW h \in Hubs \cup {NoHub}, SelectHub(h) PROVE WizardInv'
    BY <1>2 DEF SelectHub, WizardTypeOK, Hidden, Spinning, Chain, FormIsOfShownMachine
  <1>3. ASSUME NEW S \in SUBSET Rows, SetSelected(S) PROVE WizardInv'
    BY <1>3 DEF SetSelected, WizardTypeOK, Hidden, Spinning, Chain, FormIsOfShownMachine
  <1>4. ASSUME NEW r \in Rows, CheckBox(r) PROVE WizardInv'
    <2>1. selected \in SUBSET Rows
      BY DEF WizardTypeOK
    <2>2. (IF r \in selected THEN selected \ {r} ELSE selected \cup {r}) \in SUBSET Rows
      BY <2>1
    <2> QED BY <1>3, <1>4, <2>2 DEF CheckBox
  <1>5. ASSUME NEW r \in Rows, TurnPage(r) PROVE WizardInv'
    <2>1. UNCHANGED <<step, shown, selectedHub, hubID, tableItems, selected, machines, formInput>>
            /\ r \in machines /\ LoadMachineForm(r)
      BY <1>5 DEF TurnPage
    <2>2. current' = r /\ savedIn' \in Rows \cup {NoRow} /\ form' \in Forms /\ FormIsOfShownMachine'
      BY <2>1, LoadedForm
    <2>3. WizardTypeOK'
      BY <2>1, <2>2 DEF WizardTypeOK
    <2>4. Hidden' /\ Spinning' /\ Chain'
      BY <2>1, <2>2 DEF Hidden, Spinning, Chain
    <2> QED BY <2>2, <2>3, <2>4
  <1>6. ASSUME SelectAll \/ ClearAll PROVE WizardInv'
    BY <1>3, <1>6 DEF SelectAll, ClearAll, WizardTypeOK
  <1>7. ASSUME NEW f \in Forms, EditForm(f) PROVE WizardInv'
    <2>1. UNCHANGED <<step, shown, selectedHub, hubID, tableItems, selected, machines,
                      current, savedIn>> /\ form' = f
      BY <1>7 DEF EditForm
    <2>2. formInput' = IF savedIn = NoRow THEN formInput ELSE [formInput EXCEPT ![savedIn] = <<f>>]
      BY <1>7 DEF EditForm
    <2>3. savedIn \in Rows \cup {NoRow} /\ formInput \in [Rows -> {<<>>} \cup {<<g>> : g \in Forms}]
      BY DEF WizardTypeOK
    <2>4. formInput' \in [Rows -> {<<>>} \cup {<<g>> : g \in Forms}]
      BY <2>2, <2>3
    <2>5. WizardTypeOK'
      BY <2>1, <2>4 DEF WizardTypeOK
    <2>6. Hidden' /\ Spinning' /\ Chain'
      BY <2>1 DEF Hidden, Spinning, Chain
    <2>7. FormIsOfShownMachine'
      BY <2>1, <2>2, <2>3 DEF FormIsOfShownMachine
    <2> QED BY <2>5, <2>6, <2>7
  <1>8. ASSUME SaveForm PROVE WizardInv'
    <2>1. UNCHANGED <<step, shown, selectedHub, hubID, tableItems, selected, machines>>
            /\ 4 \in shown /\ current \in machines /\ machines \in SUBSET Rows
      BY <1>8 DEF SaveForm, Chain, WizardTypeOK
    <2>2. /\ form \in Forms /\ savedIn \in Rows \cup {NoRow}
          /\ formInput \in [Rows -> {<<>>} \cup {<<g>> : g \in Forms}]
      BY DEF WizardTypeOK
    <2>3. /\ current' \in machines /\ savedIn' \in Rows \cup {NoRow} /\ form' \in Forms
          /\ formInput' \in [Rows -> {<<>>} \cup {<<g>> : g \in Forms}]
          /\ FormIsOfShownMachine'
      <3>1. CASE Valid(form) /\ Later # {}
        <4>1. formInput' = [formInput EXCEPT ![current] = <<form>>]
                /\ LoadMachineForm(FirstOf(Later))
          BY <1>8, <3>1 DEF SaveForm
        <4>2. FirstOf(Later) \in Later /\ Later \in SUBSET machines
          BY <2>1, <3>1, FirstOfIsMember DEF Later
        <4> DEFINE r == FirstOf(Later)
        <4>3. r \in Rows /\ r # current /\ r \in machines
          <5>1. r \in machines /\ r > current
            BY <4>2 DEF Later
          <5>2. machines \subseteq Rows /\ current \in Nat
            BY <1>0, <2>1
          <5> HIDE DEF r
          <5>3. r \in Rows /\ r \in Nat
            BY <1>0, <5>1, <5>2
          <5> QED BY <5>1, <5>2, <5>3
        <4>4. formInput[r] \in {<<>>} \cup {<<g>> : g \in Forms} /\ formInput'[r] = formInput[r]
          BY <2>1, <2>2, <4>1, <4>3
        <4>5. formInput' \in [Rows -> {<<>>} \cup {<<g>> : g \in Forms}]
          BY <2>1, <2>2, <4>1
        <4>6. FormDefaults(LocalName[r]) \in Forms
          BY <4>3, WizardAssumption DEF Rows, FormDefaults, Forms
        <4>7. /\ current' = r
              /\ IF formInput[r] # <<>> THEN form' = formInput[r][1] /\ savedIn' = r
                 ELSE form' = FormDefaults(LocalName[r]) /\ savedIn' = NoRow
          BY <4>1 DEF LoadMachineForm
        <4> HIDE DEF r
        <4>8. CASE formInput[r] # <<>>
          <5>1. PICK g \in Forms : formInput[r] = <<g>>
            BY <4>4, <4>8
          <5> QED BY <4>3, <4>4, <4>5, <4>7, <4>8, <5>1 DEF FormIsOfShownMachine
        <4>9. CASE formInput[r] = <<>>
          BY <4>3, <4>5, <4>6, <4>7, <4>9 DEF FormIsOfShownMachine
        <4> QED BY <4>8, <4>9
      <3>2. CASE Valid(form) /\ Later = {}
        BY <1>8, <2>1, <2>2, <3>2 DEF SaveForm, FormIsOfShownMachine
      <3>3. CASE ~Valid(form)
        BY <1>8, <2>1, <2>2, <3>3 DEF SaveForm, FormIsOfShownMachine
      <3> QED BY <3>1, <3>2, <3>3
    <2>4. WizardTypeOK'
      BY <2>1, <2>3 DEF WizardTypeOK
    <2>5. Hidden' /\ Spinning' /\ Chain'
      BY <2>1, <2>3 DEF Hidden, Spinning, Chain
    <2> QED BY <2>3, <2>4, <2>5
  <1>9. ASSUME HubResult PROVE WizardInv'
    <2> DEFINE success == selectedHub # NoHub
               card == Answered(step[1], success)
    <2>1. /\ step[1].timers > 0 /\ Finish(1, card, success)
          /\ hubID' = IF success THEN selectedHub ELSE hubID
          /\ UNCHANGED <<selectedHub, tableItems, selected, machines,
                         current, form, savedIn, formInput>>
      BY <1>9 DEF HubResult
    <2>2. 1 \in shown /\ step[1] \in StepType /\ success \in BOOLEAN
      BY <2>1, TimersAreShown DEF Steps, WizardTypeOK
    <2>3. card \in StepType /\ ~card.inAction
      BY <2>1, <2>2, Cards
    <2> HIDE DEF card, success
    <2>4. /\ step' \in [Steps -> StepType] /\ shown' \in SUBSET Steps /\ Hidden' /\ Spinning'
          /\ 2 \in shown' <=> success
          /\ \A t \in 3 .. 5 : (t \in shown' <=> t \in shown) /\ step'[t] = step[t]
      BY <2>1, <2>2, <2>3, FinishStep DEF Steps
    <2>5. hubID' \in Hubs \cup {NoHub} /\ (success => hubID' \in Hubs)
      BY <2>1 DEF success, WizardTypeOK
    <2>6. WizardTypeOK'
      BY <2>1, <2>4, <2>5 DEF WizardTypeOK
    <2>7. Chain'
      BY <2>1, <2>4, <2>5 DEF Chain
    <2>8. FormIsOfShownMachine'
      BY <2>1 DEF FormIsOfShownMachine
    <2> QED BY <2>4, <2>6, <2>7, <2>8
  <1>10. ASSUME HostsResult PROVE WizardInv'
    <2> DEFINE success == HubAnswers
               card == Answered(step[2], success)
    <2>1. step[2].timers > 0 /\ 2 \in shown /\ step[2] \in StepType /\ success \in BOOLEAN
      BY <1>10, TimersAreShown DEF HostsResult, Steps, WizardTypeOK, HubAnswers
    <2>2. success
      BY <2>1, WizardAssumption DEF HubAnswers, Chain
    <2>3. /\ Finish(2, card, success) /\ tableItems' = Rows
          /\ selected' = (IF Mounted(3) THEN {} ELSE selected)
          /\ UNCHANGED <<selectedHub, hubID, machines, current, form, savedIn, formInput>>
      <3>1. Finish(2, Answered(step[2], HubAnswers), HubAnswers)
              /\ tableItems' = IF HubAnswers THEN Rows ELSE tableItems
        BY <1>10 DEF HostsResult
      <3> QED BY <1>10, <2>2, <3>1 DEF HostsResult
    <2>4. card \in StepType /\ ~card.inAction
      BY <2>1, Cards
    <2> HIDE DEF card, success
    <2>5. /\ step' \in [Steps -> StepType] /\ shown' \in SUBSET Steps /\ Hidden' /\ Spinning'
          /\ 3 \in shown'
          /\ \A t \in {2, 4, 5} : t \in shown' <=> t \in shown
          /\ step'[4] = step[4]
      <3>1. 2 \in 1 .. 4 /\ WizardTypeOK /\ Hidden /\ Spinning
        OBVIOUS
      <3>2. /\ step' \in [Steps -> StepType] /\ shown' \in SUBSET Steps /\ Hidden' /\ Spinning'
            /\ 2 + 1 \in shown' <=> success
            /\ \A t \in Steps \ {2 + 1} :
                 (t \in shown' <=> t \in shown) /\ (t # 2 => step'[t] = step[t])
        BY <2>1, <2>3, <2>4, <3>1, FinishStep
      <3> QED BY <2>2, <3>2 DEF Steps
    <2>6. 4 \in shown => step'[3] = step[3]
      BY <2>3, <2>5 DEF Finish, Mounted, Destroyed, Chain, Steps
    <2>7. WizardTypeOK'
      BY <2>3, <2>5 DEF WizardTypeOK
    <2>8. Chain'
      BY <2>3, <2>5, <2>6 DEF Chain
    <2>9. FormIsOfShownMachine'
      BY <2>3 DEF FormIsOfShownMachine
    <2> QED BY <2>5, <2>7, <2>8, <2>9
  <1>11. ASSUME FinishSelection PROVE WizardInv'
    <2> DEFINE success == ChosenMachines # {}
               card == ProcessingFinished(ProcessingStarted(step[3]), success)
    <2>1. /\ 3 \in shown /\ CanClick(step[3]) /\ Finish(3, card, success)
          /\ machines' = IF success THEN ChosenMachines ELSE machines
          /\ IF Mounted(4)
             THEN /\ current' = FirstOf(machines')
                  /\ form' = FormDefaults(LocalName[current'])
                  /\ savedIn' = NoRow
             ELSE UNCHANGED <<current, form, savedIn>>
          /\ UNCHANGED <<selectedHub, hubID, tableItems, selected, formInput>>
      BY <1>11 DEF FinishSelection
    <2>2. 4 \notin shown /\ 5 \notin shown
      BY <2>1 DEF CanClick, Chain
    <2>3. step[3] \in StepType /\ success \in BOOLEAN
      BY DEF WizardTypeOK, Steps
    <2>4. card \in StepType /\ ~card.inAction /\ card.disabled = success
      BY <2>3, Cards
    <2>5. ChosenMachines \in SUBSET Rows
      BY DEF ChosenMachines, WizardTypeOK
    <2>6. success => ChosenMachines # {}
      OBVIOUS
    <2> HIDE DEF card, success
    <2>7. /\ step' \in [Steps -> StepType] /\ shown' \in SUBSET Steps /\ Hidden' /\ Spinning'
          /\ step'[3] = card /\ (4 \in shown' <=> success)
          /\ \A t \in {2, 3, 5} : t \in shown' <=> t \in shown
      BY <2>1, <2>3, <2>4, FinishStep DEF Steps
    <2>8. machines' \in SUBSET Rows
      BY <2>1, <2>5 DEF WizardTypeOK
    <2>9. /\ current' \in Rows \cup {NoRow} /\ savedIn' \in Rows \cup {NoRow} /\ form' \in Forms
          /\ 4 \in shown' => current' \in machines'
          /\ FormIsOfShownMachine'
      <3>1. CASE success
        <4>1. machines' = ChosenMachines /\ machines' # {}
          BY <2>1, <2>6, <3>1
        <4>2. Mounted(4)
          BY <2>2, <2>7, <3>1 DEF Mounted
        <4>3. current' = FirstOf(machines') /\ savedIn' = NoRow
                /\ form' = FormDefaults(LocalName[current'])
          BY <2>1, <4>2
        <4>4. current' \in machines' /\ current' \in Rows
          BY <2>8, <4>1, <4>3, FirstOfIsMember
        <4>5. FormDefaults(LocalName[current']) \in Forms
          BY <4>4, WizardAssumption DEF Rows, FormDefaults, Forms
        <4> QED BY <4>3, <4>4, <4>5 DEF FormIsOfShownMachine
      <3>2. CASE ~success
        <4>1. UNCHANGED <<current, form, savedIn, formInput>> /\ 4 \notin shown'
          BY <2>1, <2>7, <3>2 DEF Mounted
        <4> QED BY <4>1 DEF WizardTypeOK, FormIsOfShownMachine
      <3> QED BY <3>1, <3>2
    <2>10. WizardTypeOK'
      BY <2>1, <2>7, <2>8, <2>9 DEF WizardTypeOK
    <2>11. Chain'
      BY <2>1, <2>2, <2>4, <2>7, <2>9 DEF Chain
    <2> QED BY <2>7, <2>9, <2>10, <2>11
  <1>12. ASSUME FinishProperties PROVE WizardInv'
    <2> DEFINE success == AllFormInputSuccessful
               card == ProcessingFinished(ProcessingStarted(step[4]), success)
    <2>1. /\ 4 \in shown /\ CanClick(step[4]) /\ Finish(4, card, success)
          /\ UNCHANGED <<selectedHub, hubID, tableItems, selected, machines,
                         current, form, savedIn, formInput>>
      BY <1>12 DEF FinishProperties
    <2>2. step[4] \in StepType /\ success \in BOOLEAN
      BY DEF WizardTypeOK, Steps, AllFormInputSuccessful
    <2>3. card \in StepType /\ ~card.inAction /\ card.disabled = success
      BY <2>2, Cards
    <2> HIDE DEF card, success
    <2>4. /\ step' \in [Steps -> StepType] /\ shown' \in SUBSET Steps /\ Hidden' /\ Spinning'
          /\ step'[4] = card /\ (5 \in shown' <=> success) /\ step'[3] = step[3]
          /\ \A t \in 2 .. 4 : t \in shown' <=> t \in shown
      BY <2>1, <2>2, <2>3, FinishStep DEF Steps
    <2>5. WizardTypeOK'
      BY <2>1, <2>4 DEF WizardTypeOK
    <2>6. Chain'
      BY <2>1, <2>3, <2>4 DEF Chain
    <2>7. FormIsOfShownMachine'
      BY <2>1 DEF FormIsOfShownMachine
    <2> QED BY <2>4, <2>5, <2>6, <2>7
  <1>13. ASSUME NEW success \in BOOLEAN, FinishResult(success) PROVE WizardInv'
    <2>1. /\ step[5].timers > 0 /\ step' = [step EXCEPT ![5] = Answered(step[5], success)]
          /\ UNCHANGED <<shown, selectedHub, hubID, tableItems, selected, machines,
                         current, form, savedIn, formInput>>
      BY <1>13 DEF FinishResult
    <2>2. 5 \in shown /\ 5 \in Steps /\ step[5] \in StepType
      BY <2>1, TimersAreShown DEF Steps, WizardTypeOK
    <2>3. Answered(step[5], success) \in StepType /\ ~Answered(step[5], success).inAction
      BY <2>1, <2>2, Cards
    <2>4. WizardTypeOK'
      BY <2>1, <2>2, <2>3 DEF WizardTypeOK
    <2>5. Hidden' /\ Spinning'
      BY <2>1, <2>2, <2>3 DEF WizardTypeOK, Hidden, Spinning
    <2>6. step'[3] = step[3] /\ step'[4] = step[4]
      BY <2>1 DEF WizardTypeOK, Steps
    <2>7. Chain'
      BY <2>1, <2>6 DEF Chain
    <2>8. FormIsOfShownMachine'
      BY <2>1 DEF FormIsOfShownMachine
    <2> QED BY <2>4, <2>5, <2>7, <2>8
  <1> QED BY <1>1, <1>2, <1>4, <1>5, <1>6, <1>7, <1>8, <1>9, <1>10, <1>11, <1>12, <1>13
          DEF WizardNext, Results, ClickUseHub, ClickRetrieveHosts, ClickFinishAdding

\* No operation of the wizard takes steps 3, 4 and 5 back: the step before does not
\* finish a second time, or finishes well.
LEMMA StepsStay ==
    ASSUME WizardInv, WizardNext
    PROVE  \A s \in 3 .. 5 : s \in shown => s \in shown'
  <1> USE DEF WizardInv
  <1>1. ASSUME NEW s \in {1, 2, 5}, Click(s) PROVE shown' = shown
    BY <1>1 DEF Click
  <1>2. ASSUME NEW h \in Hubs \cup {NoHub}, SelectHub(h) PROVE shown' = shown
    BY <1>2 DEF SelectHub
  <1>3. ASSUME NEW r \in Rows, CheckBox(r) \/ TurnPage(r) PROVE shown' = shown
    BY <1>3 DEF CheckBox, SetSelected, TurnPage
  <1>4. ASSUME SelectAll \/ ClearAll PROVE shown' = shown
    BY <1>4 DEF SelectAll, ClearAll, SetSelected
  <1>5. ASSUME NEW f \in Forms, EditForm(f) PROVE shown' = shown
    BY <1>5 DEF EditForm
  <1>6. ASSUME SaveForm PROVE shown' = shown
    BY <1>6 DEF SaveForm
  <1>7. ASSUME NEW success \in BOOLEAN, FinishResult(success) PROVE shown' = shown
    BY <1>7 DEF FinishResult
  <1>8. ASSUME HubResult PROVE shown \ {2} \subseteq shown'
    BY <1>8 DEF HubResult, Finish, ShownAfter
  <1>9. ASSUME HostsResult PROVE shown \subseteq shown'
    <2>1. 2 \in shown
      BY <1>9, TimersAreShown DEF HostsResult, Steps
    <2>2. HubAnswers
      BY <2>1, WizardAssumption DEF HubAnswers, Chain
    <2> QED BY <1>9, <2>2 DEF HostsResult, Finish, ShownAfter
  <1>10. ASSUME FinishSelection PROVE shown \subseteq shown'
    <2>1. 4 \notin shown
      BY <1>10 DEF FinishSelection, CanClick, Chain
    <2> QED BY <1>10, <2>1 DEF FinishSelection, Finish, ShownAfter
  <1>11. ASSUME FinishProperties PROVE shown \subseteq shown'
    <2>1. 5 \notin shown
      BY <1>11 DEF FinishProperties, CanClick, Chain
    <2> QED BY <1>11, <2>1 DEF FinishProperties, Finish, ShownAfter
  <1> QED BY <1>1, <1>2, <1>3, <1>4, <1>5, <1>6, <1>7, <1>8, <1>9, <1>10, <1>11
          DEF WizardNext, Results, ClickUseHub, ClickRetrieveHosts, ClickFinishAdding

\* A form that gets into a machine is valid or is typed into the object it has saved.
LEMMA FormsAreValidOrTyped ==
    ASSUME WizardInv, WizardNext, NEW r \in Rows,
           formInput'[r] # formInput[r], formInput'[r] # <<>>
    PROVE  LET f == formInput'[r][1]
           IN  (f.newName >= 1 /\ f.apiPort >= 1 /\ f.apiPort <= 65535) \/ savedIn = r
  <1>0. formInput \in [Rows -> {<<>>} \cup {<<g>> : g \in Forms}]
    BY DEF WizardInv, WizardTypeOK
  <1>1. ASSUME NEW f \in Forms, EditForm(f) PROVE savedIn = r
    BY <1>0, <1>1 DEF EditForm
  <1>2. ASSUME SaveForm
        PROVE  LET f == formInput'[r][1]
               IN  f.newName >= 1 /\ f.apiPort >= 1 /\ f.apiPort <= 65535
    <2>1. CASE Valid(form)
      <3>1. formInput' = [formInput EXCEPT ![current] = <<form>>]
        BY <1>2, <2>1 DEF SaveForm
      <3>2. formInput'[r] = <<form>>
        BY <1>0, <3>1
      <3>3. form.newName >= 1 /\ form.apiPort >= 1 /\ form.apiPort <= 65535
        BY <2>1 DEF Valid
      <3> QED BY <3>2, <3>3
    <2>2. CASE ~Valid(form)
      BY <1>0, <1>2, <2>2 DEF SaveForm
    <2> QED BY <2>1, <2>2
  <1>3. ASSUME NEW s \in {1, 2, 5}, Click(s) PROVE FALSE
    BY <1>3 DEF Click
  <1>4. ASSUME NEW h \in Hubs \cup {NoHub}, SelectHub(h) PROVE FALSE
    BY <1>4 DEF SelectHub
  <1>5. ASSUME NEW q \in Rows, CheckBox(q) \/ TurnPage(q) PROVE FALSE
    BY <1>5 DEF CheckBox, SetSelected, TurnPage
  <1>6. ASSUME SelectAll \/ ClearAll PROVE FALSE
    BY <1>6 DEF SelectAll, ClearAll, SetSelected
  <1>7. ASSUME FinishSelection PROVE FALSE
    BY <1>7 DEF FinishSelection
  <1>8. ASSUME FinishProperties PROVE FALSE
    BY <1>8 DEF FinishProperties
  <1>9. ASSUME Results PROVE FALSE
    BY <1>9 DEF Results, HubResult, HostsResult, FinishResult
  <1> QED BY <1>1, <1>2, <1>3, <1>4, <1>5, <1>6, <1>7, <1>8, <1>9
          DEF WizardNext, ClickUseHub, ClickRetrieveHosts, ClickFinishAdding

-----------------------------------------------------------------------------
LEMMA HubWizardStart == HubWizardInit => HubWizardInv
  BY NewCard DEF HubWizardInit, HubWizardInv, HubWizardTypeOK, HubHidden, HubSpinning,
                 HubDetailsComeTogether, HubSteps, Text

LEMMA HubWizardLeft ==
    ASSUME HubWizardInv, HubWizardReset
    PROVE  HubWizardInv'
  BY NewCard DEF HubWizardReset, HubWizardInv, HubWizardTypeOK, HubHidden, HubSpinning,
                 HubDetailsComeTogether, HubSteps, Text

\* A result comes from a step of the hub wizard that is shown.
LEMMA HubTimersAreShown ==
    ASSUME HubHidden, NEW s \in HubSteps, hubStep[s].timers > 0
    PROVE  s \in hubShown
  BY NewCard DEF HubHidden

\* Every operation of the wizard for hubs keeps its invariant.
LEMMA HubWizardStepInv ==
    ASSUME HubWizardInv, HubWizardNext
    PROVE  HubWizardInv'
  <1> USE DEF HubWizardInv
  <1>1. ASSUME NEW s \in HubSteps, ClickHubStep(s) PROVE HubWizardInv'
    <2>1. hubStep' = [hubStep EXCEPT ![s] = Waiting(hubStep[s])] /\ s \in hubShown
            /\ UNCHANGED <<hubShown, ipInput, serialInput, nameInput, step2IP, step3IP, step3Serial>>
      BY <1>1 DEF ClickHubStep
    <2>2. Waiting(hubStep[s]) \in StepType /\ Waiting(hubStep[s]).timers > 0
      BY <1>1, Cards DEF ClickHubStep, HubWizardTypeOK
    <2>3. HubWizardTypeOK'
      BY <2>1, <2>2 DEF HubWizardTypeOK
    <2>4. HubHidden' /\ HubSpinning'
      BY <2>1, <2>2 DEF HubWizardTypeOK, HubHidden, HubSpinning
    <2>5. HubDetailsComeTogether'
      BY <2>1 DEF HubDetailsComeTogether
    <2> QED BY <2>3, <2>4, <2>5
  <1>2. ASSUME \/ \E t \in Text(IPs) : TypeIP(t)
               \/ \E t \in Text(SerialNumbers) : TypeSerial(t)
               \/ \E t \in Text(Names) : TypeHubName(t)
        PROVE  HubWizardInv'
    BY <1>2 DEF TypeIP, TypeSerial, TypeHubName, HubWizardTypeOK, HubHidden, HubSpinning,
                HubDetailsComeTogether
  <1>3. ASSUME IPresult PROVE HubWizardInv'
    <2> DEFINE success == AcceptsIP(ipInput)
               card1 == Answered(hubStep[1], FALSE)
    <2>1. /\ hubStep[1].timers > 0
          /\ hubShown' = IF success THEN hubShown \cup {2} ELSE hubShown \ {2}
          /\ hubStep' = IF success /\ 2 \in hubShown
                        THEN [hubStep EXCEPT ![1] = card1]
                        ELSE [hubStep EXCEPT ![1] = card1, ![2] = NewStep]
          /\ serialInput' = IF success /\ 2 \in hubShown THEN serialInput ELSE NoText
          /\ step2IP' = IF success THEN ipInput ELSE step2IP
          /\ UNCHANGED <<ipInput, nameInput, step3IP, step3Serial>>
      BY <1>3 DEF IPresult, ShownAfterIP
    <2>2. 1 \in hubShown /\ hubStep[1] \in StepType
      BY <2>1, HubTimersAreShown DEF HubSteps, HubWizardTypeOK
    <2>3. card1 \in StepType /\ ~card1.inAction
      BY <2>1, <2>2, Cards
    <2>4. success => ipInput # NoText
      BY DEF AcceptsIP
    <2> HIDE DEF card1, success
    <2>5. HubWizardTypeOK'
      BY <2>1, <2>3, NewCard DEF HubWizardTypeOK, HubSteps, Text
    <2>6. HubHidden'
      BY <2>1, <2>2 DEF HubHidden, HubSteps, HubWizardTypeOK
    <2>7. HubSpinning'
      BY <2>1, <2>3, NewCard DEF HubSpinning, HubSteps, HubWizardTypeOK
    <2>8. HubDetailsComeTogether'
      BY <2>1, <2>4 DEF HubDetailsComeTogether
    <2> QED BY <2>5, <2>6, <2>7, <2>8
  <1>4. ASSUME SerialResult PROVE HubWizardInv'
    <2> DEFINE success == serialInput # NoText
               card == Answered(hubStep[2], success)
    <2>1. /\ hubStep[2].timers > 0
          /\ hubStep' = [hubStep EXCEPT ![2] = card]
          /\ hubShown' = hubShown \cup {3}
          /\ step3IP' = IF success THEN step2IP ELSE step3IP
          /\ step3Serial' = IF success THEN serialInput ELSE step3Serial
          /\ UNCHANGED <<ipInput, serialInput, nameInput, step2IP>>
      BY <1>4 DEF SerialResult, ShownAfterSerial
    <2>2. 2 \in hubShown /\ hubStep[2] \in StepType
      BY <2>1, HubTimersAreShown DEF HubSteps, HubWizardTypeOK
    <2>3. card \in StepType /\ ~card.inAction
      BY <2>1, <2>2, Cards
    <2>4. HubDetailsComeTogether'
      BY <2>1, <2>2 DEF HubDetailsComeTogether
    <2> HIDE DEF card
    <2>5. HubWizardTypeOK'
      BY <2>1, <2>3 DEF HubWizardTypeOK, HubSteps
    <2>6. HubHidden' /\ HubSpinning'
      BY <2>1, <2>2, <2>3 DEF HubHidden, HubSpinning, HubSteps, HubWizardTypeOK
    <2> QED BY <2>4, <2>5, <2>6
  <1>5. ASSUME NameResult PROVE HubWizardInv'
    <2> DEFINE card == Answered(hubStep[3], nameInput # NoText)
    <2>1. /\ hubStep[3].timers > 0 /\ hubStep' = [hubStep EXCEPT ![3] = card]
          /\ UNCHANGED <<hubShown, ipInput, serialInput, nameInput, step2IP, step3IP, step3Serial>>
      BY <1>5 DEF NameResult
    <2>2. 3 \in hubShown /\ hubStep[3] \in StepType
      BY <2>1, HubTimersAreShown DEF HubSteps, HubWizardTypeOK
    <2>3. card \in StepType /\ ~card.inAction
      BY <2>1, <2>2, Cards
    <2> HIDE DEF card
    <2>4. HubWizardTypeOK'
      BY <2>1, <2>3 DEF HubWizardTypeOK, HubSteps
    <2>5. HubHidden' /\ HubSpinning'
      BY <2>1, <2>2, <2>3 DEF HubHidden, HubSpinning, HubSteps, HubWizardTypeOK
    <2>6. HubDetailsComeTogether'
      BY <2>1 DEF HubDetailsComeTogether
    <2> QED BY <2>4, <2>5, <2>6
  <1> QED BY <1>1, <1>2, <1>3, <1>4, <1>5
          DEF HubWizardNext, HubSteps, ClickConfirm, ClickSearch, ClickRegister

-----------------------------------------------------------------------------
LEMMA DashboardStart == DashboardInit => DashboardInv
  BY DashboardAssumption DEF DashboardInit, NamesAtFirst, DashboardInv, DashboardTypeOK,
     CollapsesFollowTheirHub, VerdictIsOfTheName

LEMMA DashboardLeft ==
    ASSUME DashboardInv, DashboardReset
    PROVE  DashboardInv'
  BY DashboardAssumption DEF DashboardReset, NamesAtFirst, DashboardInv, DashboardTypeOK,
     CollapsesFollowTheirHub, VerdictIsOfTheName

\* Every operation of the dashboard keeps its invariant.
LEMMA DashboardStepInv ==
    ASSUME DashboardInv, DashboardNext
    PROVE  DashboardInv'
  <1> USE DEF DashboardInv
  <1>1. ASSUME NEW h \in DashHubs, ToggleHub(h) PROVE DashboardInv'
    <2>1. /\ expanded' = [expanded EXCEPT ![h] = ~expanded[h]]
          /\ open' = [m \in Machines |-> open[m] # (HubOf[m] = h)]
          /\ UNCHANGED <<dialog, editNameValue, verdict, checks, edited>>
      BY <1>1 DEF ToggleHub, CollapseID
    <2>2. DashboardTypeOK'
      BY <2>1 DEF DashboardTypeOK
    <2>3. CollapsesFollowTheirHub'
      <3> SUFFICES ASSUME NEW m \in Machines PROVE open'[m] <=> expanded'[HubOf[m]]
        BY DEF CollapsesFollowTheirHub
      <3>1. HubOf[m] \in DashHubs /\ open[m] \in BOOLEAN /\ expanded[HubOf[m]] \in BOOLEAN
              /\ (open[m] <=> expanded[HubOf[m]])
        BY DashboardAssumption DEF DashboardTypeOK, CollapsesFollowTheirHub
      <3>2. expanded'[HubOf[m]] = IF HubOf[m] = h THEN ~expanded[HubOf[m]] ELSE expanded[HubOf[m]]
        BY <2>1, <3>1 DEF DashboardTypeOK
      <3>3. open'[m] = (open[m] # (HubOf[m] = h))
        BY <2>1
      <3> QED BY <3>1, <3>2, <3>3
    <2>4. VerdictIsOfTheName'
      BY <2>1 DEF VerdictIsOfTheName
    <2> QED BY <2>2, <2>3, <2>4
  <1>2. ASSUME \/ \E m \in Machines : OpenEdit(m) \/ OpenDelete(m)
               \/ CloseDialog
        PROVE  DashboardInv'
    BY <1>2 DEF OpenEdit, OpenDelete, ClickButton, ButtonVisible, OpenDialog, Kinds, CloseDialog,
                DashboardTypeOK, CollapsesFollowTheirHub, VerdictIsOfTheName
  <1>3. ASSUME NEW m \in Machines, NEW t \in Texts, OnInput(m, t) PROVE DashboardInv'
    BY <1>3 DEF OnInput, DashboardTypeOK, CollapsesFollowTheirHub, VerdictIsOfTheName
  <1>4. ASSUME NEW m \in Machines, ProcessData(m) PROVE DashboardInv'
    BY <1>4, DashboardAssumption
       DEF ProcessData, DashboardTypeOK, CollapsesFollowTheirHub, VerdictIsOfTheName
  <1>5. ASSUME NEW m \in Machines, NEW refused \in BOOLEAN, ProcessResult(m, refused)
        PROVE  DashboardInv'
    BY <1>5, DashboardAssumption
       DEF ProcessResult, Acceptable, DashboardTypeOK, CollapsesFollowTheirHub, VerdictIsOfTheName
  <1> QED BY <1>1, <1>2, <1>3, <1>4, <1>5 DEF DashboardNext

-----------------------------------------------------------------------------
LEMMA WizardStutters ==
    ASSUME WizardInv, UNCHANGED wizardVars PROVE WizardInv'
  BY DEF wizardVars, WizardInv, WizardTypeOK, Hidden, Spinning, Chain, FormIsOfShownMachine

LEMMA HubWizardStutters ==
    ASSUME HubWizardInv, UNCHANGED hubVars PROVE HubWizardInv'
  BY DEF hubVars, HubWizardInv, HubWizardTypeOK, HubHidden, HubSpinning, HubDetailsComeTogether

LEMMA DashboardStutters ==
    ASSUME DashboardInv, UNCHANGED dashVars PROVE DashboardInv'
  BY DEF dashVars, DashboardInv, DashboardTypeOK, CollapsesFollowTheirHub, VerdictIsOfTheName

\* The views do not disturb each other.
LEMMA Inductive == Init /\ [][Next]_vars => []IInv
  <1>1. Init => IInv
    BY WizardStart, HubWizardStart, DashboardStart DEF Init, IInv, Views
  <1>2. ASSUME IInv, [Next]_vars PROVE IInv'
    <2> USE DEF IInv
    <2>1. CASE view = "addMachine" /\ WizardNext /\ UNCHANGED <<hubVars, dashVars, view>>
      BY <1>2, <2>1, WizardStepInv, HubWizardStutters, DashboardStutters
    <2>2. CASE view = "addHub" /\ HubWizardNext /\ UNCHANGED <<wizardVars, dashVars, view>>
      BY <1>2, <2>2, HubWizardStepInv, WizardStutters, DashboardStutters
    <2>3. CASE view = "dashboard" /\ DashboardNext /\ UNCHANGED <<wizardVars, hubVars, view>>
      BY <1>2, <2>3, DashboardStepInv, WizardStutters, HubWizardStutters
    <2>4. ASSUME NEW v \in Views, Go(v) PROVE IInv'
      BY <1>2, <2>4, WizardLeft, HubWizardLeft, DashboardLeft DEF Go
    <2>5. CASE UNCHANGED vars
      BY <1>2, <2>5, WizardStutters, HubWizardStutters, DashboardStutters DEF vars
    <2> QED BY <1>2, <2>1, <2>2, <2>3, <2>4, <2>5 DEF Next
  <1> QED BY <1>1, <1>2, PTL

\* Type correctness: the cards, forms, texts and dialogs of all views.
THEOREM TypeCorrect == Spec => []TypeOK
  <1>1. IInv => TypeOK
    BY DEF IInv, WizardInv, HubWizardInv, DashboardInv, TypeOK
  <1> QED BY <1>1, Inductive, PTL DEF Spec

\* A step that is shown, of either wizard, has been given what it works on.
THEOREM StepsHaveInput == Spec => []ShownStepsHaveInput
  <1>1. IInv => ShownStepsHaveInput
    <2>1. 1 \in Rows
      BY WizardAssumption DEF Rows
    <2> QED BY <2>1 DEF IInv, WizardInv, HubWizardInv, WizardTypeOK, Chain,
                        ShownStepsHaveInput, StepsHaveTheirInput
  <1> QED BY <1>1, Inductive, PTL DEF Spec

\* Typing never reaches the saved form of a machine that is not on the screen.
THEOREM FormsStayApart == Spec => []FormIsOfShownMachine
  <1>1. IInv => FormIsOfShownMachine
    BY DEF IInv, WizardInv
  <1> QED BY <1>1, Inductive, PTL DEF Spec

\* A spinner that turns has a result coming.
THEOREM SpinnersStop == Spec => []SpinnersHaveResult
  <1>1. IInv => SpinnersHaveResult
    BY DEF IInv, WizardInv, HubWizardInv, Spinning, HubSpinning, SpinnersHaveResult, SpinnerShown
  <1> QED BY <1>1, Inductive, PTL DEF Spec

\* The label of a hub's header is true of each of its machines.
THEOREM LabelsAreTrue == Spec => []CollapsesFollowTheirHub
  <1>1. IInv => CollapsesFollowTheirHub
    BY DEF IInv, DashboardInv
  <1> QED BY <1>1, Inductive, PTL DEF Spec

\* A name is marked valid only if it may be taken, or was typed on after the verdict.
THEOREM VerdictsAreTrue == Spec => []VerdictIsOfTheName
  <1>1. IInv => VerdictIsOfTheName
    BY DEF IInv, DashboardInv
  <1> QED BY <1>1, Inductive, PTL DEF Spec

\* Steps 3, 4 and 5 are not taken back before the view is left.
THEOREM StepsStayReached == Spec => ReachedStepsStay
  <1>1. ASSUME IInv, [Next]_vars
        PROVE  [NewSession' \/ \A s \in 3 .. 5 : s \in shown => s \in shown']_wizardVars
    <2>1. CASE view = "addMachine" /\ WizardNext
      BY <1>1, <2>1, StepsStay DEF IInv
    <2>2. ASSUME NEW v \in Views, Go(v) PROVE NewSession'
      BY <2>2 DEF Go, WizardReset, NewSession
    <2> QED BY <1>1, <2>1, <2>2 DEF Next, vars
  <1> QED BY <1>1, Inductive, PTL DEF Spec, ReachedStepsStay

\* A form that is not valid gets into a machine only by typing on after it was saved.
THEOREM InvalidFormsAreTyped == Spec => OnlyTypingSpoilsForms
  <1> DEFINE A == \A r \in Rows :
         formInput'[r] # formInput[r] /\ formInput'[r] # <<>> =>
             LET f == formInput'[r][1]
             IN  (f.newName >= 1 /\ f.apiPort >= 1 /\ f.apiPort <= 65535) \/ savedIn = r
  <1>1. ASSUME IInv, [Next]_vars PROVE [A]_wizardVars
    <2>1. CASE view = "addMachine" /\ WizardNext
      <3>1. WizardInv
        BY <1>1 DEF IInv
      <3> QED BY <2>1, <3>1, FormsAreValidOrTyped
    <2>2. ASSUME NEW v \in Views, Go(v) PROVE A
      BY <2>2 DEF Go, WizardReset
    <2> QED BY <1>1, <2>1, <2>2 DEF Next, vars
  <1> QED BY <1>1, Inductive, PTL DEF Spec, OnlyTypingSpoilsForms
=============================================================================
