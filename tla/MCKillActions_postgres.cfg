SPECIFICATION Spec
CONSTANTS
    Pid = {p1, p2}
    MaxUse = 2
    Slot = {s1}
    NoPid = NoPid
    Operator = {o1}
    Worker = {w1}
    Postgres = TRUE
INVARIANT TypeOK
INVARIANT EffectsAudited
INVARIANT CreditedWereKilled
INVARIANT RefusedWereMissingOrProtected
INVARIANT CacheShowsFinishedActions
SYMMETRY Symmetry
