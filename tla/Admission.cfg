SPECIFICATION Spec
CONSTANTS
    h1 = h1
    h2 = h2
    t1 = t1
    b1 = b1
    b2 = b2
    k1 = k1
    k2 = k2
    NoBusiness = NoBusiness
    Tickets = {t1}
    Misplaced = {}
    Datasets <- MCDatasets
    Seed <- MCSeed
    Uploads <- MCUploads
    SeedIndex <- MCSeedIndex
    Keys <- MCKeys
    NoSnapshot = NoSnapshot
    Handlers = {h1, h2}
    Requests <- MCRequests
    TenantSlots = 2
    TotalSlots = 2
    MaxOthers = 1
    NoHandler = NoHandler
    NoRequest = NoRequest
    NoReply = NoReply
SYMMETRY MCSymmetry
INVARIANTS
    AnswersAgree
    OneActiveRun
    SlotsExact
CHECK_DEADLOCK FALSE
