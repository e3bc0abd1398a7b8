\* Two hosts, one with a name; one machine per hub on the dashboard.
SPECIFICATION Spec
CONSTANTS
    h175 = h175
    Hubs = {h175}
    NoHub = NoHub
    NumHosts = 2
    LocalName <- UnnamedAndNamed
    NameLengths = {0, 8}
    Ports = {3333, 65536}
    MaxTimers = 2
    IPs = {"10.0.0.1"}
    SerialNumbers = {"SN1"}
    Names = {"hub"}
    NoText = ""
    DashHubs = {1, 2}
    Machines = {1, 2}
    HubOf <- OneMachineEach
    MachineName <- Rigs
    Texts = {"", "machinename", "rig"}
    EmptyText = ""
    FirstText = "machinename"
    MaxChecks = 1
INVARIANTS
    FormIsOfShownMachine
    SpinnersHaveResult
    ShownStepsHaveInput
PROPERTIES
    ReachedStepsStay
    OnlyTypingSpoilsForms
