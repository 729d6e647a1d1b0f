SPECIFICATION Spec
CONSTANTS
    User = {alice, bob}
    Admin = {bob}
    Request = {r1, r2, r3}
    Execution = {e1}
    Autocommits = FALSE
    MaxApplied = 2
INVARIANT RecordIsTruthful
INVARIANT AppliedTwiceOnlyIfExcused
INVARIANT EffectsAudited
PROPERTY DecisionIsFinal
