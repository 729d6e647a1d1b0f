SPECIFICATION Spec
CONSTANTS
    WeekLength = 2
    MaxTime = 3
    Destinations = 2
    Loop = {a, b}
INVARIANT OneReportPerWeek
INVARIANT MarkerMeansSent
