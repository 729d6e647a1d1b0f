SPECIFICATION FairSpec
CONSTANTS
    Worker = {w1, w2}
    Owner = {o1, o2, o3}
    NoOwner = NoOwner
    Interval = 2
    LeaseFloor = 4
    PauseFloor = 1
    ErrorPause = 3
    MaxDelay = 2
    CycleLimit = 6
INVARIANT OneUnexpiredHolder
PROPERTY MonitoringResumes
