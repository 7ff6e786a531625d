\* The store works: answers should be delivered.
CONSTANTS
    None = None
    Calls = {c1, c2}
    Users = {u1, u2}
    Versions = {v1, v2}
    MaxRetries = 1
    Unreliable = {}
SPECIFICATION Spec
INVARIANTS AnswersAreDelivered
CHECK_DEADLOCK FALSE
