CONSTANTS
    a1 = a1
    a2 = a2
    r1 = r1
    r2 = r2
    r3 = r3
    None = None
    Account = {a1}
    TierSkus = {"sara_core"}
    AtsSkus = {"ats_90d"}
    Ats90 = "ats_90d"
    Request = {r1, r2}
    Env = {"subscription_change", "refund"}
    MaxUpdates = 1
    MaxCrashes = 0
SPECIFICATION FairSpec
CHECK_DEADLOCK FALSE
INVARIANTS
    NoStrandedPayment
PROPERTIES
    CompletedIsGranted
