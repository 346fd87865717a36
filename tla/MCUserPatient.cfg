SPECIFICATION Spec
CONSTANTS
    h1 = h1
    main = main
    node = node
    t1 = t1
    t2 = t2
    u1 = u1
    Users = {u1}
    Cores = {main, node}
    Main = main
    Tags = {t1, t2}
    Handlers = {h1}
    Requests = {"create", "modify", "delete", "reset", "restart", "reset_all", "disable_all", "activate_all", "delete_expired"}
    Jobs = {"review", "record"}
    Faults = {"crash", "panel"}
    Unowned = {}
    Patient = TRUE
    MaxTime = 2
    MaxUsed = 1
    MaxKey = 1
    MaxCalls = 3
    NoUser = NoUser
    NoConfig = NoConfig
    NoPlan = NoPlan
    Profiles <- PatientProfiles
    Edits <- PatientEdits
INVARIANT TypeOK
INVARIANT AccessMatchesStatus
