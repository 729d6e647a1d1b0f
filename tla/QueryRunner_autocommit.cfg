SPECIFICATION Spec
CONSTANTS
    User = {alice, bob}
    Admin = {bob}
    Request = {r1, r2}
    Execution = {e1, e2}
    Autocommits = TRUE
    MaxApplied = 2
INVARIANT PreviewChangesNothing
