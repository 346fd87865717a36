SPECIFICATION Spec
CONSTANTS
    h1 = h1
    main = main
    t1 = t1
    u1 = u1
    Users = {u1}
    Cores = {main}
    Main = main
    Tags = {t1}
    Handlers = {h1}
    Requests = {"create"}
    Jobs = {"review", "record", "renew"}
    Faults = {}
    Unowned = {}
    Patient = TRUE
    MaxTime = 1
    MaxUsed = 1
    MaxKey = 1
    MaxCalls = 3
    NoUser = NoUser
    NoConfig = NoConfig
    NoPlan = NoPlan
    Profiles <- LimitedOnly
    Edits <- NoEdits
INVARIANT AccessMatchesStatus
