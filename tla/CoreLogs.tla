-------------------------------- MODULE CoreLogs -------------------------------
(***************************************************************************)
(* The log pane of the dialog for the core.  Lines that a socket delivers  *)
(* are gathered in a buffer that outlives the dialog; a debounced function *)
(* shows the buffer.  The lines are numbered as they come.                 *)
(***************************************************************************)
EXTENDS Naturals, Sequences

CONSTANTS
    Nodes,             \* the nodes whose logs can be followed
    Panel,             \* the panel itself
    MaxNumberOfLogs,   \* 500
    MaxShown,          \* 40
    MaxLines, MaxOpens \* bounds: lines received, dialogs opened

VARIABLES
    open, opens,
    selectedNode,
    logsTmp,           \* the buffer
    pending,           \* what the debounced updateLogs was called with
    logs,              \* the lines in the pane
    lines              \* how many lines were received

vars == <<open, opens, selectedNode, logsTmp, pending, logs, lines>>

Nothing == << >>

Parameters == MaxNumberOfLogs \in Nat

OnEditingCore ==
    /\ ~open
    /\ opens < MaxOpens
    /\ open' = TRUE /\ opens' = opens + 1
    /\ selectedNode' = Panel
    /\ pending' = Nothing /\ logs' = << >>
    /\ UNCHANGED <<logsTmp, lines>>

\* Mutant: the buffer is not emptied.
UnmountOnly ==
    /\ open
    /\ open' = FALSE
    /\ UNCHANGED <<opens, selectedNode, pending, logs, lines, logsTmp>>

Unmount ==
    /\ open
    /\ open' = FALSE
    /\ logsTmp' = << >>
    /\ UNCHANGED <<opens, selectedNode, pending, logs, lines>>

\* The pane is emptied, the buffer is not.
HandleLog(node) ==
    /\ open
    /\ node # selectedNode
    /\ selectedNode' = node
    /\ logs' = << >>
    /\ UNCHANGED <<open, opens, logsTmp, pending, lines>>

\* Of a buffer that is too long the lines that are too many are kept, not dropped:
\* splice returns what it removes.
Cut(buffer) ==
    IF Len(buffer) > MaxNumberOfLogs
    THEN SubSeq(buffer, 1, Len(buffer) - MaxNumberOfLogs)
    ELSE buffer

OnMessage ==
    /\ open
    /\ lines < MaxLines
    /\ lines' = lines + 1
    /\ logsTmp' = Cut(Append(logsTmp, [number |-> lines', node |-> selectedNode, opened |-> opens]))
    /\ pending' = logsTmp'
    /\ UNCHANGED <<open, opens, selectedNode, logs>>

UpdateLogs ==
    /\ open /\ pending # Nothing
    /\ pending' = Nothing
    /\ logs' = IF Len(pending) < MaxShown THEN pending ELSE logs
    /\ UNCHANGED <<open, opens, selectedNode, logsTmp, lines>>

--------------------------------------------------------------------------------
Init ==
    /\ open = FALSE /\ opens = 0
    /\ selectedNode = Panel
    /\ logsTmp = << >> /\ pending = Nothing /\ logs = << >>
    /\ lines = 0

Next ==
    \/ OnEditingCore \/ Unmount \/ OnMessage \/ UpdateLogs
    \/ \E node \in Nodes \cup {Panel} : HandleLog(node)

Spec == Init /\ [][Next]_vars

--------------------------------------------------------------------------------
Line == [number : Nat, node : Nodes \cup {Panel}, opened : Nat]

TypeOK ==
    /\ open \in BOOLEAN /\ opens \in Nat /\ lines \in Nat
    /\ selectedNode \in Nodes \cup {Panel}
    /\ logsTmp \in Seq(Line) /\ pending \in Seq(Line) /\ logs \in Seq(Line)

\* The buffer outlives the dialog and is cut in the middle of a stream; still the
\* pane shows each line once, in the order they came, and of this opening only.
PaneIsOfThisOpening ==
    open => /\ \A i \in DOMAIN logs : logs[i].opened = opens
            /\ \A i, j \in DOMAIN logs : i < j => logs[i].number < logs[j].number
================================================================================
