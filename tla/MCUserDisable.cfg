SPECIFICATION Spec
CONSTANTS
    h1 = h1
    h2 = h2
    main = main
    t1 = t1
    u1 = u1
    Users = {u1}
    Cores = {main}
    Main = main
    Tags = {t1}
    Handlers = {h1, h2}
    Requests = {"create", "modify", "revoke", "restart", "disable_all"}
    Jobs = {"review", "record"}
    Faults = {"lost"}
    Unowned = {}
    Patient = FALSE
    MaxTime = 0
    MaxUsed = 1
    MaxKey = 2
    MaxCalls = 1
    NoUser = NoUser
    NoConfig = NoConfig
    NoPlan = NoPlan
    Profiles <- LimitedOnly
    Edits <- SwitchOnly
PROPERTY DisabledUntilModified
 
