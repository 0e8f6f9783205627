CONSTANTS
    tracker = tracker
    request = request
    s1 = s1
    s2 = s2
    none = none
    None = none
    Tracker = tracker
    Requests = {request}
    Shipments = {s1}
    Providers = {"aftership", "ship24"}
    EnrolsOnUpdate = {"ship24"}
    Refuses = {"ship24"}
    NaiveTimes = FALSE
    RawStatuses = {"exception", "delivered"}
    Possible <- Attempt
    InOrder = FALSE
    DefaultStatuses = {"unknown", "label_created"}
    ManualStatuses = {}
    Deletable = {s1}
    Datable = {}
    MaxTime = 2
    MaxSwitches = 0
    MaxFailures = 1
SPECIFICATION FairSpec
PROPERTIES
    EventIsRecorded
CHECK_DEADLOCK FALSE
