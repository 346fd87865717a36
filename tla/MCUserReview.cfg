SPECIFICATION FairSpec
CONSTANTS
    h1 = h1
    main = main
    t1 = t1
    u1 = u1
    u2 = u2
    Users = {u1, u2}
    Cores = {main}
    Main = main
    Tags = {t1}
    Handlers = {h1}
    Requests = {"create", "delete"}
    Jobs = {"review", "record"}
    Faults = {}
    Unowned = {}
    Patient = FALSE
    MaxTime = 1
    MaxUsed = 1
    MaxKey = 1
    MaxCalls = 2
    NoUser = NoUser
    NoConfig = NoConfig
    NoPlan = NoPlan
    Profiles <- ReviewProfiles
    Edits <- NoEdits
PROPERTY LapseIsNoticed
PROPERTY HoldEnds
PROPERTY CutOffUnlessOvertaken
