CONSTANTS
    tracker = tracker
    request = request
    s1 = s1
    s2 = s2
    none = none
    None = none
    Tracker = tracker
    Requests = {}
    Shipments = {s1, s2}
    Providers = {"seventeentrack", "ship24"}
    EnrolsOnUpdate = {"ship24"}
    Refuses = {"seventeentrack", "ship24"}
    NaiveTimes = TRUE
    RawStatuses = {"exception", "undelivered"}
    Possible <- Undated
    InOrder = FALSE
    DefaultStatuses = {"unknown", "label_created"}
    ManualStatuses = {}
    Deletable = {s1}
    Datable = {s1}
    MaxTime = 1
    MaxSwitches = 1
    MaxFailures = 1
SPECIFICATION Spec
INVARIANTS
    RegisteredIsAccepted
    DelayIsSetByUser
PROPERTIES
    ImplementsParcelTables
CHECK_DEADLOCK FALSE
