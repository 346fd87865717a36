\* One attempt at a time, every fault of the node and its link.
CONSTANTS
    Base = 1
    Cap = 1
    Threshold = 1
    MaxFailures = 1
    MaxLag = 0
    Nodes = {n1}
    Threads = {t1}
    Requests = {"add", "restart_nodes"}
    Faults = {"link", "crash", "reboot"}
    NoNode = NoNode
SPECIFICATION FairSpec
PROPERTIES NodeRecovers OnlySuccessForgets
