\* Two workers racing over two events with leases of two units: safety.
CONSTANTS
    entA = entA
    entB = entB
    fact = fact
    parsed = parsed
    None = None
    Events = {entA, fact}
    Workers = {w1, w2}
    Tokens = {1, 2, 3, 4}
    CreatedAt <- OneTransaction
    Payload <- MCPayload
    Poison = {}
    Stoppable = {w1}
    BatchSize = 2
    LeaseDuration = 2
    MaxBackoff = 5
    OverflowExponent = 9
    AttemptCap = 2
SPECIFICATION Spec
INVARIANTS CompletedIsProjected OneValidClaim
PROPERTIES CompletedIsFinal LeaseProtectsClaim ImplementsDelivery
CHECK_DEADLOCK FALSE
