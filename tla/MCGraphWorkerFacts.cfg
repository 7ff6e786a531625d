\* One worker, two entities and the fact between them, emitted in that order.
CONSTANTS
    entA = entA
    entB = entB
    fact = fact
    parsed = parsed
    None = None
    Events = {entA, entB, fact}
    Workers = {w1}
    Tokens = {1, 2, 3}
    CreatedAt <- CreatedInSequence
    Payload <- MCPayload
    Poison = {}
    Stoppable = {}
    BatchSize = 3
    LeaseDuration = 1
    MaxBackoff = 2
    OverflowExponent = 9
    AttemptCap = 1
SPECIFICATION Spec
INVARIANTS CompletedFactsFindable
CHECK_DEADLOCK FALSE
