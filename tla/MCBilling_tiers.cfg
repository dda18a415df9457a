CONSTANTS
    a1 = a1
    a2 = a2
    r1 = r1
    r2 = r2
    r3 = r3
    None = None
    Account = {a1}
    TierSkus = {"sara_core", "sara_pro"}
    AtsSkus = {"ats_90d"}
    Ats90 = "ats_90d"
    Request = {r1, r2}
    Env = {}
    MaxUpdates = 0
    MaxCrashes = 0
SPECIFICATION Spec
CHECK_DEADLOCK FALSE
INVARIANT OnePaidTier
