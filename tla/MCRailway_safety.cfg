CONSTANTS
    c1 = c1
    c2 = c2
    c3 = c3
    k1 = k1
    k2 = k2
    m1 = m1
    m2 = m2
    o1 = o1
    o2 = o2
    None = None
    Call = {c1, c2, c3}
    Key = {k1, k2}
    Commit = {m1, m2}
    Outsider = {o1, o2}
    Initial = o1
    Env = {"read_error", "no_answer", "ledger_error", "outsider"}
    MaxCrashes = 1
SPECIFICATION Spec
CHECK_DEADLOCK FALSE
SYMMETRY Symmetry
INVARIANTS
    BridgeTypeOK
    OneSubmission
    RecordIsTrue
    AnswerIsMine
PROPERTIES
    OutcomeIsFinal
    MutatesOnce
