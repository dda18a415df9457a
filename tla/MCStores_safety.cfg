CONSTANTS
    c1 = c1
    c2 = c2
    c3 = c3
    k1 = k1
    k2 = k2
    i1 = i1
    b1 = b1
    b2 = b2
    b3 = b3
    None = None
    Call = {c1, c2, c3}
    Store = {"ats", "governance", "sovereignty"}
    Key = {k1, k2}
    Item = {i1}
    Body = {b1, b2, b3}
    Unofficial = {b3}
    Env = {"sqlite_error"}
    MaxCrashes = 1
SPECIFICATION Spec
CHECK_DEADLOCK FALSE
SYMMETRY Symmetry
INVARIANTS
    StoresTypeOK
    OneWritePerKey
    OutcomeIsTrue
    ReplayIsMine
PROPERTIES
    FirstRowStays
    RecordedIsFinal
    StoresMutateOnce
