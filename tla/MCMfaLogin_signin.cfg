SPECIFICATION Spec
CONSTANTS
    Users = {u1, u2}
    Browsers = {b1, b2}
    Addresses = {a1, a2}
    NoAddress = NoAddress
    Enrolling = {u1}
    NoUser = NoUser
    MaxEnrolments = 2
    CodeCount = 1
    Limit = 1
    StepUp = 1
INVARIANT TypeOK
INVARIANT CodeAcceptedOnce
INVARIANT EnrolledSecretIsProved
INVARIANT SessionFlagsProved
INVARIANT AttemptsBounded
PROPERTY EnrolmentKept
SYMMETRY Symmetry
