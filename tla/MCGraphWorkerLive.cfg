\* One worker that may crash at any step, one poisonous event: progress.
CONSTANTS
    entA = entA
    entB = entB
    fact = fact
    parsed = parsed
    None = None
    Events = {parsed, entA, entB}
    Workers = {w1}
    Tokens = {1, 2, 3}
    CreatedAt <- CreatedInSequence
    Payload <- MCPayload
    Poison = {entA}
    Stoppable = {}
    BatchSize = 2
    LeaseDuration = 1
    MaxBackoff = 3
    OverflowExponent = 9
    AttemptCap = 2
SPECIFICATION FairSpec
PROPERTIES EventuallyCompleted ImplementsFairDelivery
CHECK_DEADLOCK FALSE
