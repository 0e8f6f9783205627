CONSTANTS
    ann = ann
    bob = bob
    o1 = o1
    o2 = o2
    o3 = o3
    s1 = s1
    s2 = s2
    a1 = a1
    a2 = a2
    Users = {ann, bob}
    Orders = {o1, o2, o3}
    OwnerOf <- MCOwnerOf
    Shipments = {s1, s2}
    OrderOf <- MCOrderOf
    NewStatuses = {"delayed", "delivered"}
    Limit = 1
    Mqtt = Mqtt
    None = None
    MaxDay = 1
    Deployments <- DefaultDriver
    PollTicks = 1
    PublishTicks = 2
    Worker = Worker
    Request = Request
    Mailboxes = {a1, a2}
    AuthType <- MCAuthType
    Tokens = {1, 2, 3, 4, 5}
SPECIFICATION FairSpec
PROPERTIES
    AccountSyncedByDefault
CHECK_DEADLOCK FALSE
