\* One Run and two workers that may restart: the whole life of a Run, with a recovery
\* that hands it from one session or worker to the next and an approval, under fairness
\* of the scan and of time only.  The profile is not audited: an audited one only takes
\* fewer steps.
CONSTANTS
    LeaseTTL = 2
    AttemptTTL = 3
    ApprovalTTL = 1
    MaxRecoveries = 1
    Workers = {w1, w2}
    NoWorker = NoWorker
    Runs = {r1}
    Tenant <- MCTenant
    Profile <- MCProfile
    Audited = {}
    Serves <- MCServes
    Capacity <- MCCapacity
    RunTimeout = 3
    SessionTTL = 2
    MaxSessions = 2
    MaxTime = 3
SPECIFICATION FairSpec
INVARIANTS
    OneOpenAttempt
    RecoveryAccounting
    SlotsMatchOwners
PROPERTIES
    ProgressNeedsAuthority
    ImplementsAuthority
    EveryRunEnds
CHECK_DEADLOCK FALSE
