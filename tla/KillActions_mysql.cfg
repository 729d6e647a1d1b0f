SPECIFICATION Spec
CONSTANTS
    Pid = {p1, p2}
    MaxUse = 2
    Slot = {}
    NoPid = NoPid
    Operator = {o1}
    Worker = {w1}
    Postgres = FALSE
INVARIANT RefusedWereMissingOrProtected
