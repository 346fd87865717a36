\* Is an enabled node still retried after it was modified during an attempt?
CONSTANTS
    Base = 1
    Cap = 1
    Threshold = 1
    MaxFailures = 1
    MaxLag = 0
    Nodes = {n1}
    Threads = {t1, t2}
    Requests = {"add", "modify"}
    Faults = {}
    NoNode = NoNode
SPECIFICATION Spec
INVARIANT EnabledNodeIsWatched
