SPECIFICATION FairSpec
CONSTANTS
    Execution = {e1, e2}
    Alert = {i1, i2}
    Poller = {p1}
    Webhooks = 2
INVARIANT AlertedMeansSent
INVARIANT SentIsMarked
INVARIANT IncidentSentOnce
PROPERTY LongQueryReported
