\* Two jobs, one of them claimed up to three times, contend for one slot of the quota, which is
\* switched while repairs race with claims; progress by time and the scan alone.
CONSTANTS
    Jobs = {j1, j2}
    Tenants = {t1}
    Workers = {w1, w2}
    NoOwner = NoOwner
    MaxAttempts = 1
    Capacities = {2}
    Limits = {0, 1}
    InitialLimit = 1
    MaxSwitches = 2
    MaxRegistrations = 1
    Repeated = {j1}
    Claims = 3
    Tenant <- MCTenant
    MaxClaims <- MCMaxClaims
SPECIFICATION FairSpec
INVARIANTS
    OneOpenAttempt
    AcksAreTrue
    CounterExact
PROPERTIES
    QuietLeaseEnds
    CountersHeal
CHECK_DEADLOCK FALSE
