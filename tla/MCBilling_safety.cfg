CONSTANTS
    a1 = a1
    a2 = a2
    r1 = r1
    r2 = r2
    r3 = r3
    None = None
    Account = {a1}
    TierSkus = {"sara_pro"}
    AtsSkus = {"ats_90d"}
    Ats90 = "ats_90d"
    Request = {r1, r2}
    Env = {"stripe_error", "delayed_payment", "reservation_lapse", "entitlement_lapse", "refund", "subscription_change"}
    MaxUpdates = 1
    MaxCrashes = 1
SPECIFICATION Spec
CHECK_DEADLOCK FALSE
SYMMETRY Symmetry
INVARIANTS
    TypeOK
    OneIntroLicence
    EntitlementBacked
    MarkedMeansGranted
    RunningCheckoutOwnsReservation
PROPERTIES
    KeepsPromise
