\* Three requests with the same or other bytes, to the right or the wrong endpoint.
SPECIFICATION Spec
CONSTANTS
    frame = frame
    frames = frames
    junk = junk
    MaxRequests = 3
    Bodies <- MCBodies
    Shape <- MCShape
    Types <- MCTypes
    Outcome <- MCOutcome
    Workers = 2
    CacheDisabled = FALSE
INVARIANTS
    AnswerIsOwn
    CacheIsSound
PROPERTIES
    InferredOnce
    EveryRequestAnswered
CHECK_DEADLOCK FALSE
