\* Two calls, either of which may be a replay of the other; one of them may fail.
CONSTANTS
    None = None
    Calls = {c1, c2}
    Users = {u1, u2}
    Versions = {v1, v2}
    MaxRetries = 1
    Unreliable = {c1}
SPECIFICATION FairSpec
INVARIANTS AnswerIsRecorded ReplayOfFinalRun
PROPERTIES TerminalIsFrozen EveryRunEnds
CHECK_DEADLOCK FALSE
