\* Disabling and deleting a node while attempts and a health check are under way.
CONSTANTS
    Base = 1
    Cap = 1
    Threshold = 1
    MaxFailures = 1
    MaxLag = 1
    Nodes = {n1}
    Threads = {t1}
    Requests = {"add", "modify", "disable", "delete"}
    Faults = {}
    NoNode = NoNode
SPECIFICATION FairSpec
PROPERTY DisabledNodeLeaves
