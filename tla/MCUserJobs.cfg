SPECIFICATION Spec
CONSTANTS
    h1 = h1
    main = main
    t1 = t1
    u1 = u1
    Users = {u1}
    Cores = {main}
    Main = main
    Tags = {t1}
    Handlers = {h1}
    Requests = {"create", "delete", "active_next", "delete_expired"}
    Jobs = {"review", "record", "renew"}
    Faults = {}
    Unowned = {}
    Patient = FALSE
    MaxTime = 2
    MaxUsed = 2
    MaxKey = 1
    MaxCalls = 1
    NoUser = NoUser
    NoConfig = NoConfig
    NoPlan = NoPlan
    Profiles <- JobProfiles
    Edits <- NoEdits
INVARIANT HoldIsStarted
