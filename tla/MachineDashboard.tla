-------------------------- MODULE MachineDashboard --------------------------
(***************************************************************************)
(* RRFdashboard: a HubStatus card per hub, whose header shows and hides    *)
(* the MachineStatus of its machines, and per machine the dialogs to edit  *)
(* and to delete it.  A header and the collapses know each other only by   *)
(* the collapse's id: the header flips its own flag and sends the id.      *)
(*                                                                         *)
(* The edit dialog holds MachineEdit, which is mounted with the machine    *)
(* and not with the dialog: what was typed, its verdict and the checks     *)
(* under way survive Cancel.  A check judges the name that is in the box   *)
(* when its timer fires.                                                   *)
(***************************************************************************)
EXTENDS Integers

CONSTANTS
    DashHubs,     \* the hubs of the dashboard
    Machines,
    HubOf,        \* per machine: its hub
    MachineName,  \* per machine: its name, among Texts
    Texts,        \* what can be typed as a new name, without spaces around it
    EmptyText,    \* "", among Texts
    FirstText,    \* "machinename", what the box holds at first
    MaxChecks     \* bound: checks of one name that are under way

ASSUME DashboardAssumption ==
    /\ HubOf \in [Machines -> DashHubs]
    /\ MachineName \in [Machines -> Texts \ {EmptyText}]
    /\ FirstText \in Texts
    /\ MaxChecks \in Nat \ {0}

VARIABLES
    expanded,  \* per hub: cardBodyExpanded of its header
    open,      \* per machine: its b-collapse is visible
    dialog,    \* <<>>, or the dialog that is open: <<"edit" or "delete", machine>>
    editNameValue,  \* per machine: the name in the box
    verdict,   \* per machine: inputValidClass of its MachineEditName
    checks,    \* per machine: processResults to come
    edited     \* history, per machine: typed after the last verdict

Kinds == {"edit", "delete"}

dashVars == <<expanded, open, dialog, editNameValue, verdict, checks, edited>>

DashboardTypeOK ==
    /\ expanded \in [DashHubs -> BOOLEAN] /\ open \in [Machines -> BOOLEAN]
    /\ dialog \in {<<>>} \cup (Kinds \X Machines)
    /\ editNameValue \in [Machines -> Texts]
    /\ verdict \in [Machines -> {"none", "valid", "invalid"}]
    /\ checks \in [Machines -> 0 .. MaxChecks]
    /\ edited \in [Machines -> BOOLEAN]

\* The box of MachineEdit: editNameValue is not the machine's name.
NamesAtFirst == [m \in Machines |-> FirstText]

DashboardInit ==
    /\ expanded = [h \in DashHubs |-> FALSE] /\ open = [m \in Machines |-> FALSE]
    /\ dialog = <<>>
    /\ editNameValue = NamesAtFirst
    /\ verdict = [m \in Machines |-> "none"]
    /\ checks = [m \in Machines |-> 0]
    /\ edited = [m \in Machines |-> FALSE]

\* The view is left.
DashboardReset ==
    /\ expanded' = [h \in DashHubs |-> FALSE] /\ open' = [m \in Machines |-> FALSE]
    /\ dialog' = <<>>
    /\ editNameValue' = NamesAtFirst
    /\ verdict' = [m \in Machines |-> "none"]
    /\ checks' = [m \in Machines |-> 0]
    /\ edited' = [m \in Machines |-> FALSE]

-----------------------------------------------------------------------------
\* cardBodyCollapseID: "cardBody-" and the hub's id.
CollapseID(h) == h

\* The button in the header of h: v-b-toggle flips the collapses with its id.
ToggleHub(h) ==
    /\ dialog = <<>>
    /\ expanded' = [expanded EXCEPT ![h] = ~@]
    /\ open' = [m \in Machines |-> open[m] # (CollapseID(HubOf[m]) = CollapseID(h))]
    /\ UNCHANGED <<dialog, editNameValue, verdict, checks, edited>>

\* A machine's buttons are in its collapse; a dialog covers them.
ButtonVisible(m) == dialog = <<>> /\ open[m]

OpenDialog(kind, m) ==
    /\ dialog' = <<kind, m>>
    /\ UNCHANGED <<expanded, open, editNameValue, verdict, checks, edited>>

\* clickTest calls onClickCallback, into which the dialog has put its openModal.
ClickButton(kind, m) == ButtonVisible(m) /\ OpenDialog(kind, m)

OpenEdit(m) == ClickButton("edit", m)
OpenDelete(m) == ClickButton("delete", m)

\* OK or cancel (or, of the delete dialog, its backdrop).  OK calls okButtonCallback
\* first: a placeholder that logs what it would do, a name whatever its verdict.
CloseDialog ==
    /\ dialog # <<>>
    /\ dialog' = <<>>
    /\ UNCHANGED <<expanded, open, editNameValue, verdict, checks, edited>>

-----------------------------------------------------------------------------
(* MachineEditName *)

OnInput(m, t) ==
    /\ dialog = <<"edit", m>> /\ editNameValue[m] # t
    /\ editNameValue' = [editNameValue EXCEPT ![m] = t]
    /\ edited' = [edited EXCEPT ![m] = TRUE]
    /\ UNCHANGED <<expanded, open, dialog, verdict, checks>>

ProcessData(m) ==
    /\ dialog = <<"edit", m>> /\ checks[m] < MaxChecks
    /\ checks' = [checks EXCEPT ![m] = @ + 1]
    /\ UNCHANGED <<expanded, open, dialog, editNameValue, verdict, edited>>

Acceptable(m, t) == t # EmptyText /\ t # MachineName[m]

\* An acceptable name can be refused by chance (the processor's answer, later).
ProcessResult(m, refused) ==
    /\ checks[m] > 0
    /\ checks' = [checks EXCEPT ![m] = @ - 1]
    /\ verdict' = [verdict EXCEPT ![m] =
                     IF Acceptable(m, editNameValue[m]) /\ ~refused THEN "valid" ELSE "invalid"]
    /\ edited' = [edited EXCEPT ![m] = FALSE]
    /\ UNCHANGED <<expanded, open, dialog, editNameValue>>

DashboardNext ==
    \/ \E h \in DashHubs : ToggleHub(h)
    \/ \E m \in Machines : OpenEdit(m) \/ OpenDelete(m)
    \/ CloseDialog
    \/ \E m \in Machines, t \in Texts : OnInput(m, t)
    \/ \E m \in Machines : ProcessData(m)
    \/ \E m \in Machines, refused \in BOOLEAN : ProcessResult(m, refused)

-----------------------------------------------------------------------------
\* The label of a header ("Hide machines") agrees with every machine of its hub,
\* although the two are told separately.
CollapsesFollowTheirHub == \A m \in Machines : open[m] <=> expanded[HubOf[m]]

\* A name is marked valid only if it may be taken: whatever was typed while the check
\* was under way, the dialog closed or another check begun.  Only typing after the
\* verdict leaves a mark that is not the name's.
VerdictIsOfTheName ==
    \A m \in Machines :
        verdict[m] = "valid" /\ ~edited[m] =>
            editNameValue[m] # EmptyText /\ editNameValue[m] # MachineName[m]
=============================================================================
