\* A recoverable Run shares batch and tenant with an audited or a plain one: reports,
\* conflicts, lost attempts and corrections of up to three chats, and a policy search
\* of four calls.
CONSTANTS
    Runs = {r1, r2}
    Audits = {"ok", "mode"}
    Offered <- MCOffered
    MaxRecoveries = 1
    MaxCalls = 5
    MaxSteps = 4
    Assignments <- MCAssignments
    Accounts <- MCAccounts
    AccountOf <- MCAccountOf
    Limits <- MCLimits
    Budget <- MCBudget
    Usages <- MCUsages
SPECIFICATION Spec
INVARIANTS
    CommitsRestOnOwnCall
    LedgerBalance
PROPERTIES
    StopIsFinal
    ChatHoldsBatch
CHECK_DEADLOCK FALSE
