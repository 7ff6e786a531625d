\* Two transition requests on one proposal; two review calls on two items and runs of
\* two tenants; two requests that race for the provider's two keys; three cases
\* over two fixtures.
CONSTANTS
    alice = alice
    bob = bob
    t1 = t1
    t2 = t2
    None = None
    Operators = {alice, bob}
    Tenant <- MCTenant
    Global = {bob}
    Ids = {p1}
    Calls = {c1, c2}
    EvalRuns = {e1, e2}
    Runs = {1, 2}
    RunTenant <- MCRunTenant
    Items = {i1, i2}
    Decisions = {"approved", "rejected"}
    ReviewCalls = {v1, v2}
    Requests = {r1, r2}
    Kids = {"k1", "k2"}
    Tokens <- MCTokens
    AuthSettings <- MCSettings
    Missing = Missing
    gateway = gateway
    store = store
    ghost = ghost
    Fixtures = {gateway, store}
    Cases <- MCCases
    NoName = NoName
SPECIFICATION MCSpec
INVARIANTS NoBypass SoundWithoutRaces TenantIsolation AnswerIsOwn GrantedWasVerified NothingLeftRunning
PROPERTIES UncontendedIsAnswered
CHECK_DEADLOCK FALSE
