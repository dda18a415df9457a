CONSTANTS
    c1 = c1
    r1 = r1
    r2 = r2
    f1 = f1
    f2 = f2
    s1 = s1
    s2 = s2
    gateway = gateway
    council = council
    None = None
    Coroutine = {c1, r1, r2, f1, f2}
    Call = {c1, r1, r2}
    Ledger = {gateway, council}
    Solve = {r1, r2}
    Forget = {f1, f2}
    Session = {s1, s2}
    Gateway = gateway
    MaxItems = 1
    Recent = 1
    Env = {}
    MaxCrashes = 0
SPECIFICATION Spec
CHECK_DEADLOCK FALSE
INVARIANTS
    AppendsSerialize
