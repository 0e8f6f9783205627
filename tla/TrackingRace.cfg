CONSTANTS
    tracker = tracker
    request = request
    s1 = s1
    s2 = s2
    none = none
    None = none
    Tracker = tracker
    Requests = {request}
    Shipments = {s1}
    Providers = {"aftership"}
    EnrolsOnUpdate = {}
    Refuses = {}
    NaiveTimes = FALSE
    RawStatuses = {"delivered", "vendor_code"}
    Possible <- Delivery
    InOrder = FALSE
    DefaultStatuses = {"unknown"}
    ManualStatuses = {"delivered"}
    Deletable = {s1}
    Datable = {s1}
    MaxTime = 2
    MaxSwitches = 0
    MaxFailures = 1
SPECIFICATION Spec
INVARIANTS
    TypeOK
    StatusHasEvent
    DeliveredIsDated
    StatusIsAnnounced
PROPERTIES
    ReplyIsRecorded
    ImplementsShipmentHistory
CHECK_DEADLOCK FALSE
