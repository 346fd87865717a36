\* Overlapping attempts, restarts of cores, nodes and the panel.
CONSTANTS
    Base = 1
    Cap = 1
    Threshold = 1
    MaxFailures = 1
    MaxLag = 0
    Nodes = {n1}
    Threads = {t1, t2}
    Requests = {"add", "reconnect", "restart_core", "restart_nodes"}
    Faults = {"crash", "reboot", "panel"}
    NoNode = NoNode
SPECIFICATION Spec
SYMMETRY ThreadSymmetry
VIEW AnonymousObjects
INVARIANTS TypeOK FlagsAreHeld EnabledNodeIsWatched
