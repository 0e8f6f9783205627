SPECIFICATION FairSpec
CONSTANTS
    microsoft = microsoft
    google = google
    a1 = a1
    a2 = a2
    a3 = a3
    f1 = f1
    r1 = r1
    r2 = r2
    None = None
    Providers = {microsoft, google}
    Flows = {f1}
    Accounts = {a1, a2, a3}
    InitialAuth <- OneMailbox
    Reqs = {r1, r2}
    MaxFaults = 1
INVARIANTS
    TypeOK
    TokenOnce
    TokenFitsMailbox
PROPERTIES
    CompletedIsKept
    ImplementsTokenCustody
    SignInEnds
