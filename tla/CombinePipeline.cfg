\* Two segments, two containers, the message delivered twice; a summary of the second
\* segment may lack a row.
SPECIFICATION CombineSpec
CONSTANTS
    container1 = container1
    container2 = container2
    Containers <- TwoContainers
    NumSegments = 2
    StartTimes <- TwoTimes
    monday = monday
    tuesday = tuesday
    profit = profit
    stopped = stopped
    Measures <- TwoMeasures
    Contents <- SecondLacksOne
    NumFiles = 2
    MaxVersion <- OneWrittenTwice
    MaxDeliveries = 2
SYMMETRY TwoByTwo
INVARIANTS
    CombineTypeOK
    RowsAreExplained
    AnnouncedIsWhole
CHECK_DEADLOCK FALSE
