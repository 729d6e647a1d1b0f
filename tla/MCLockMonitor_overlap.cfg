SPECIFICATION Spec
CONSTANTS
    Pid = {1, 2}
    Key <- OnePair
    Killable = {1}
    Poller = {p1, p2}
    Incident = {i1, i2}
    StormThreshold = 0
    ScheduleEnabled = FALSE
INVARIANT OneOpenIncidentPerKey
PROPERTY ManualKillSticks
PROPERTY NoRepeatedCard
