CONSTANTS
    worker = worker
    request = request
    a1 = a1
    a2 = a2
    f1 = f1
    f2 = f2
    none = none
    None = none
    Worker = worker
    Requests = {}
    Accounts = {a1, a2}
    Users = {"ann", "bob"}
    Owner <- OneOwner
    Folders = {f1}
    FoldersOf <- AnyFolder
    MaxUid = 2
    Limit = 1
    Msgs = {"m5", "m6"}
    Delivers <- AnyMail
    Poison = {}
    Content <- MCContent
    Numbers = {"n1", "dhl-t1"}
    Trackings = {"t1", "t2"}
    Carriers = {"dhl"}
    MaxFailures = 0
SPECIFICATION FairSpec
PROPERTIES
    SteadyProgress
CHECK_DEADLOCK FALSE
