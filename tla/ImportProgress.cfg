CONSTANTS
    worker = worker
    request = request
    a1 = a1
    a2 = a2
    f1 = f1
    f2 = f2
    none = none
    None = none
    Worker = worker
    Requests = {request}
    Accounts = {a1, a2}
    Users = {"ann", "bob"}
    Owner <- TwoOwners
    Folders = {f1, f2}
    FoldersOf <- OwnFolder
    MaxUid = 2
    Limit = 2
    Msgs = {"m5", "m6"}
    Delivers <- KnownMail
    Poison = {}
    Content <- MCContent
    Numbers = {"n1", "dhl-t1"}
    Trackings = {"t1", "t2"}
    Carriers = {"dhl"}
    MaxFailures = 0
SPECIFICATION FairSpec
PROPERTIES
    BatchProgress
CHECK_DEADLOCK FALSE
