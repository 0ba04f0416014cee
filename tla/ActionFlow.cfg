SPECIFICATION Spec
CONSTANTS
    f1 = f1
    t1 = t1
    c1 = c1
    c2 = c2
    Tickets = {t1}
    Misplaced = {}
    Datasets <- MCDatasets
    Seed <- MCSeed
    Uploads <- MCUploads
    SeedIndex <- MCSeedIndex
    Keys = {}
    NoSnapshot = NoSnapshot
    Families = {f1}
    TicketOf <- MCTicketOf
    NoReceipt = NoReceipt
    MaxAttempts = 2
    MaxRuns = 2
    MaxPermits = 2
    Clients = {c1, c2}
    NoQuery = NoQuery
    NoAction = NoAction
SYMMETRY MCSymmetry
VIEW MCView
INVARIANTS
    AppliedOnApprovedFacts
    TenantQueryExclusive
PROPERTIES
    ImplementsEffect
CHECK_DEADLOCK FALSE
