SPECIFICATION FairSpec
CONSTANTS
    Pid = {1, 2, 3}
    Key <- Pairs
    Killable = {}
    Poller = {p1}
    Incident = {i1, i2}
    StormThreshold = 2
    ScheduleEnabled = FALSE
PROPERTY AnnouncementConverges
