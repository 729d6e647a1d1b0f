SPECIFICATION Spec
CONSTANTS
  Admin = {a1, a2}
  User = {u1}
  Id = {i1, i2}
  Right = {drop}
  Group = {g1}
  Name = {n1, n2}
  Endpoint = {e1, e2}
  Control = {c1}
  NoControl = none
  NoPassword = blank
SYMMETRY Symmetry
INVARIANTS
  ReadOnlyHoldsNothing
  GrantsAreTheLastSaved
  ListedAreViewable
  ControlPasswordFits
  RemovalsAudited
  MembersShareName
  ExclusionsRespected
CHECK_DEADLOCK FALSE
