\* One worker with one slot and two jobs, each claimed at most twice.
CONSTANTS
    Jobs = {j1, j2}
    Tenants = {t1}
    Workers = {w1}
    NoOwner = NoOwner
    MaxAttempts = 2
    Capacities = {1}
    Limits = {0}
    InitialLimit = 0
    MaxSwitches = 0
    MaxRegistrations = 2
    MaxFaults = 2
    Claims = 2
    Tenant <- MCTenant
    MaxClaims <- MCMaxClaims
SPECIFICATION RuntimeSpec
INVARIANT RunsWithinCapacity
PROPERTY DiesOfItsHandler
CHECK_DEADLOCK FALSE
