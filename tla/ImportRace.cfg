CONSTANTS
    worker = worker
    request = request
    a1 = a1
    a2 = a2
    f1 = f1
    f2 = f2
    none = none
    None = none
    Worker = worker
    Requests = {request}
    Accounts = {a1}
    Users = {"ann", "bob"}
    Owner <- OneOwner
    Folders = {f1, f2}
    FoldersOf <- AnyFolder
    MaxUid = 2
    Limit = 1
    Msgs = {"m1", "m4", "m5"}
    Delivers <- AnyMail
    Poison = {"m5"}
    Content <- MCContent
    Numbers = {"n1", "dhl-t1"}
    Trackings = {"t1", "t2"}
    Carriers = {"dhl"}
    MaxFailures = 1
SPECIFICATION Spec
INVARIANTS
    TypeOK
    WatermarkSafe
    ImportedIsAnnounced
PROPERTIES
    WatermarkMonotone
    CaughtUp
CHECK_DEADLOCK FALSE
