\* Every tool of the dashboard on a small instance.  Gb = 21 and Grid = 10 keep the
\* ratio that formatting a limit depends on, at least two steps to a byte.
CONSTANTS
  Gb = 21
  Grid = 10
  NoQuery = NoQuery
  NoUser = NoUser
  NoRow = NoRow
  NoData = NoData
  NoNode = NoNode
  NoConfig = NoConfig
  EmptyForm = EmptyForm
  Panel = Panel
  Nobody = Nobody
  \* The form of a user.
  Inbounds <- ChosenInbounds
  Limits = {0, 1, 5}
  Steps = {0, 1, 3}
  MaxEdits = 3
  \* The list of users.
  Texts = {"", "a"}
  Columns = {"username"}
  PageStatuses = {"", "active"}
  PageLimits = {1, 2}
  Totals = {0, 6}
  Width = 5
  MaxPageRequests = 2
  MaxOffset = 5
  \* The dialogs of a user.
  Users = {1, 2}
  Contents = {"c"}
  MaxSaves = 2
  MaxFlight = 1
  \* The dialog of the hosts.
  Tags = {"a", "b"}
  MaxHostEdits = 2
  MaxRows = 2
  MaxHostRequests = 3
  \* The dialog of the nodes.
  Names = {"a", "b"}
  Count = 1
  MaxNodeRequests = 2
  MaxNodeOpens = 2
  \* The dialog of the core and its logs.
  Configs = {"c", "d"}
  MaxRounds = 2
  MaxCoreEdits = 3
  Nodes = {"n"}
  MaxNumberOfLogs = 3
  MaxShown = 3
  MaxLines = 5
  MaxLogOpens = 2
  \* The filter above a chart.
  FilterOptions = {"7h", "1m"}
  CustomOptions = {"2d"}
  Default = "1m"
  Dates = {1, 2}
  MaxUsageRequests = 3
  \* The session, and the links of a row.
  Admins = {"r", "a"}
  Sudo = {"r"}
  MaxLogins = 3
  Links <- ChosenLinks
  MaxTimers = 3

SPECIFICATION SmallSpec

\* Each tool stops at its bounds, and a closed dialog need never be opened again.
CHECK_DEADLOCK FALSE

CONSTRAINT Attentive

INVARIANTS
  ToolsTyped
  ListAnswersFilters
  PagerLeadsEverywhere
  QuietTableIsCurrent
  ChartIsOfOpenUser
  PaneIsOfThisOpening
  ChartAnswersFilter
  MenuIsOfAdmin
  LoggedOutIsOut
  TickGoes
  CounterIsOfOpenUser
PROPERTIES
  EditsGoToTheOpenUser
  RevokedKeyStaysOut
  HoldIsAccepted
  CheckedIsGranted
  LimitComesBack
  HostsKeepDraft
  NewErrorsAreShown
  SaveKeepsDisabled
  CoreKeepsDraft
