\* Two evidence ids, so an attempt can cite what only the other one retrieved.
CONSTANTS
    Ids = {e1, e2}
    MaxClaims = 2
    MaxRetries = 1
    None = None
SPECIFICATION Spec
INVARIANTS OutcomesAreModelled AnswerIsGrounded AnswersOrFails
CHECK_DEADLOCK FALSE
