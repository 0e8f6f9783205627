CONSTANTS
    worker = worker
    request = request
    a1 = a1
    a2 = a2
    f1 = f1
    f2 = f2
    none = none
    None = none
    Worker = worker
    Requests = {request}
    Accounts = {a1, a2}
    Users = {"ann", "bob"}
    Owner <- OneOwner
    Folders = {f1, f2}
    FoldersOf <- OwnFolder
    MaxUid = 2
    Limit = 2
    Msgs = {"m1", "m2", "m3"}
    Delivers <- SharedMail
    Poison = {}
    Content <- MCContent
    Numbers = {"n1", "dhl-t1"}
    Trackings = {"t1", "t2"}
    Carriers = {"dhl"}
    MaxFailures = 0
SPECIFICATION Spec
INVARIANTS
    RecordedIsPersisted
    WatermarkSafe
PROPERTIES
    ImplementsImportedMail
CHECK_DEADLOCK FALSE
