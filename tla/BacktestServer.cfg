\* Two requests of up to five segments, batches of two, up to two failures tolerated.
SPECIFICATION Spec
CONSTANTS
    r1 = r1
    r2 = r2
    Requests <- TwoRequests
    MaxJobs = 5
    BatchSize = 2
    RatePct = 40
INVARIANTS
    AnswerSound
    BatchBarrier
PROPERTIES
    MeetsContract
    EveryRequestAnswered
CHECK_DEADLOCK FALSE
