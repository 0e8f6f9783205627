CONSTANTS
    tracker = tracker
    request = request
    s1 = s1
    s2 = s2
    none = none
    None = none
    Tracker = tracker
    Requests = {request}
    Shipments = {s1}
    Providers = {"trackingmore"}
    EnrolsOnUpdate = {}
    Refuses = {}
    NaiveTimes = FALSE
    RawStatuses = {"delivered", "vendor_code"}
    Possible <- Delivery
    InOrder = TRUE
    DefaultStatuses = {"unknown", "label_created"}
    ManualStatuses = {}
    Deletable = {}
    Datable = {}
    MaxTime = 2
    MaxSwitches = 0
    MaxFailures = 0
SPECIFICATION Spec
INVARIANT
    StatusFromLatestEvent
CHECK_DEADLOCK FALSE
