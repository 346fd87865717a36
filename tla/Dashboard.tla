-------------------------------- MODULE Dashboard -------------------------------
(***************************************************************************)
(* The tools of the dashboard.  The administrator works with one of them,  *)
(* chosen at first, and the others stay as they are: the tools share       *)
(* nothing but the token, so that interleaving them would add states and   *)
(* no behaviour.  The constants and variables of the modules keep their    *)
(* names; those that several modules have are given the name of the tool   *)
(* as well.  The form of a user is extended and not instantiated, so that  *)
(* its properties are checked under their own names.                       *)
(***************************************************************************)
EXTENDS UserForm

CONSTANTS
    Texts, Columns, PageStatuses, PageLimits, Totals, Width, MaxPageRequests, MaxOffset,
    NoQuery,
    Users, Contents, MaxSaves, MaxFlight, NoUser,
    Tags, MaxHostEdits, MaxRows, MaxHostRequests,
    Names, Count, MaxNodeRequests, MaxNodeOpens, NoData, NoNode,
    Configs, NoConfig, EmptyForm, MaxRounds, MaxCoreEdits,
    Nodes, Panel, MaxNumberOfLogs, MaxShown, MaxLines, MaxLogOpens,
    FilterOptions, CustomOptions, Default, Dates, MaxUsageRequests,
    Admins, Sudo, Nobody, MaxLogins,
    Links, MaxTimers

VARIABLES
    desk,   \* the tool the administrator works with, chosen at first
    mounted, filters, box, pagePending, pageLoading, pageFlight, list, current,
    pageRequests,
    db, keys, userFlight, table, creating, editing, userDeleting, resetting,
    revoking, resettingAll, userForm, saving, userChart, saves, userHasty, userSmooth,
    hostOpen, hostIsLoading, hostIsPostLoading, listed, hostForm, rows,
    hostAccordions, errors, submitted, hostFlight, hostServer, hostEdits,
    hostRequests, hostDirty, hostCalm,
    nodeServer, nodes, fetch, nodeFlight, nodeOpens, isEditing, forms,
    nodeAccordions, nodeDeleting, nodeRequests, nodeHasty, overlooked,
    coreOpen, coreIsLoading, coreIsPostLoading, config, coreForm, editor, coreFlight,
    coreServer, rounds, coreEdits, coreDirty, coreCalm,
    logOpen, logOpens, selectedNode, logsTmp, logPending, logs, lines,
    showing, usageVisible, usageFilter, radio, customOpen, tabIndex, startDate,
    endDate, usageChart, usageFlight, usageRequests, renewed, usageSmooth,
    token, page, loader, sessionLoading, logins, query, user, isSuccess, events,
    alone, patient,
    copied, timers, QRcodeLinks, subscribeUrl, index

Pg == INSTANCE UsersPage WITH
    Statuses <- PageStatuses, Limits <- PageLimits, MaxRequests <- MaxPageRequests,
    pending <- pagePending, loading <- pageLoading, flight <- pageFlight,
    requests <- pageRequests

Ud == INSTANCE UserDialog WITH
    flight <- userFlight, deleting <- userDeleting, form <- userForm,
    chart <- userChart, hasty <- userHasty, smooth <- userSmooth

Hd == INSTANCE HostsDialog WITH
    MaxEdits <- MaxHostEdits, MaxRequests <- MaxHostRequests,
    open <- hostOpen, isLoading <- hostIsLoading, isPostLoading <- hostIsPostLoading,
    form <- hostForm, accordions <- hostAccordions, flight <- hostFlight,
    server <- hostServer, edits <- hostEdits, requests <- hostRequests,
    dirty <- hostDirty, calm <- hostCalm

Nd == INSTANCE NodesDialog WITH
    MaxRequests <- MaxNodeRequests, MaxOpens <- MaxNodeOpens,
    server <- nodeServer, flight <- nodeFlight, opens <- nodeOpens,
    accordions <- nodeAccordions, deleting <- nodeDeleting, requests <- nodeRequests,
    hasty <- nodeHasty

Co == INSTANCE CoreSettings WITH
    MaxEdits <- MaxCoreEdits,
    open <- coreOpen, isLoading <- coreIsLoading, isPostLoading <- coreIsPostLoading,
    form <- coreForm, flight <- coreFlight, server <- coreServer, edits <- coreEdits,
    dirty <- coreDirty, calm <- coreCalm

Lo == INSTANCE CoreLogs WITH
    MaxOpens <- MaxLogOpens,
    open <- logOpen, opens <- logOpens, pending <- logPending

Us == INSTANCE UsageFilter WITH
    MaxRequests <- MaxUsageRequests,
    chart <- usageChart, flight <- usageFlight, requests <- usageRequests,
    smooth <- usageSmooth

Se == INSTANCE Session WITH
    loading <- sessionLoading

Sh == INSTANCE ShareLinks

pageVars == <<
    mounted, filters, box, pagePending, pageLoading, pageFlight, list, current,
    pageRequests>>
userVars == <<
    db, keys, userFlight, table, creating, editing, userDeleting, resetting,
    revoking, resettingAll, userForm, saving, userChart, saves, userHasty, userSmooth>>
hostVars == <<
    hostOpen, hostIsLoading, hostIsPostLoading, listed, hostForm, rows,
    hostAccordions, errors, submitted, hostFlight, hostServer, hostEdits,
    hostRequests, hostDirty, hostCalm>>
nodeVars == <<
    nodeServer, nodes, fetch, nodeFlight, nodeOpens, isEditing, forms,
    nodeAccordions, nodeDeleting, nodeRequests, nodeHasty, overlooked>>
coreVars == <<
    coreOpen, coreIsLoading, coreIsPostLoading, config, coreForm, editor, coreFlight,
    coreServer, rounds, coreEdits, coreDirty, coreCalm>>
logVars == <<logOpen, logOpens, selectedNode, logsTmp, logPending, logs, lines>>
usageVars == <<
    showing, usageVisible, usageFilter, radio, customOpen, tabIndex, startDate,
    endDate, usageChart, usageFlight, usageRequests, renewed, usageSmooth>>
sessionVars == <<
    token, page, loader, sessionLoading, logins, query, user, isSuccess, events,
    alone, patient>>
linkVars == <<copied, timers, QRcodeLinks, subscribeUrl, index>>

--------------------------------------------------------------------------------
\* The assumptions of the modules that have any.
ASSUME DashboardAssumption ==
    /\ Parameters /\ Pg!Parameters /\ Ud!Parameters /\ Hd!Parameters /\ Nd!Parameters
    /\ Co!Parameters /\ Lo!Parameters /\ Us!Parameters /\ Se!Parameters /\ Sh!Parameters

Tools == {"users", "user", "form", "hosts", "nodes", "core", "logs", "usage", "session",
          "links"}

DashboardInit ==
    /\ desk \in Tools
    /\ Pg!Init /\ Ud!Init /\ Init /\ Hd!Init /\ Nd!Init
    /\ Co!Init /\ Lo!Init /\ Us!Init /\ Se!Init /\ Sh!Init

Others(d) ==
    /\ UNCHANGED desk
    /\ IF d = "users" THEN TRUE ELSE UNCHANGED pageVars
    /\ IF d = "user" THEN TRUE ELSE UNCHANGED userVars
    /\ IF d = "form" THEN TRUE ELSE UNCHANGED vars
    /\ IF d = "hosts" THEN TRUE ELSE UNCHANGED hostVars
    /\ IF d = "nodes" THEN TRUE ELSE UNCHANGED nodeVars
    /\ IF d = "core" THEN TRUE ELSE UNCHANGED coreVars
    /\ IF d = "logs" THEN TRUE ELSE UNCHANGED logVars
    /\ IF d = "usage" THEN TRUE ELSE UNCHANGED usageVars
    /\ IF d = "session" THEN TRUE ELSE UNCHANGED sessionVars
    /\ IF d = "links" THEN TRUE ELSE UNCHANGED linkVars

AtUsersPage == desk = "users" /\ Pg!Next /\ Others("users")
AtUserDialog == desk = "user" /\ Ud!Next /\ Others("user")
AtUserForm == desk = "form" /\ Next /\ Others("form")
AtHostsDialog == desk = "hosts" /\ Hd!Next /\ Others("hosts")
AtNodesDialog == desk = "nodes" /\ Nd!Next /\ Others("nodes")
AtCoreSettings == desk = "core" /\ Co!Next /\ Others("core")
AtCoreLogs == desk = "logs" /\ Lo!Next /\ Others("logs")
AtUsageFilter == desk = "usage" /\ Us!Next /\ Others("usage")
AtSession == desk = "session" /\ Se!Next /\ Others("session")
AtShareLinks == desk = "links" /\ Sh!Next /\ Others("links")

DashboardNext ==
    \/ AtUsersPage \/ AtUserDialog \/ AtUserForm \/ AtHostsDialog
    \/ AtNodesDialog \/ AtCoreSettings \/ AtCoreLogs \/ AtUsageFilter
    \/ AtSession \/ AtShareLinks

dashboardVars == <<
    desk, pageVars, userVars, vars, hostVars, nodeVars, coreVars,
    logVars, usageVars, sessionVars, linkVars>>

DashboardSpec == DashboardInit /\ [][DashboardNext]_dashboardVars

--------------------------------------------------------------------------------
\* The variables of every tool are what its module says.
ToolsTyped ==
    /\ desk = "users" => Pg!TypeOK
    /\ desk = "user" => Ud!TypeOK
    /\ desk = "form" => TypeOK
    /\ desk = "hosts" => Hd!TypeOK
    /\ desk = "nodes" => Nd!TypeOK
    /\ desk = "core" => Co!TypeOK
    /\ desk = "logs" => Lo!TypeOK
    /\ desk = "usage" => Us!TypeOK
    /\ desk = "session" => Se!TypeOK
    /\ desk = "links" => Sh!TypeOK

\* fetchUsers, onFilterChange: with the newest answer in, the table is what the
\* filters ask for.
ListAnswersFilters == desk = "users" => Pg!ListAnswersFilters

\* generatePageItems, Pagination: the page items ascend from the first to the last page
\* and contain the current one, no button leads out of the list.
PagerLeadsEverywhere == desk = "users" => Pg!PagerLeadsEverywhere

\* createUser, editUser, deleteUser and the others refetch: a quiet table is current.
QuietTableIsCurrent == desk = "user" => Ud!QuietTableIsCurrent

\* fetchUsageWithFilter: the chart is about the user of the dialog.
ChartIsOfOpenUser == desk = "user" => Ud!ChartIsOfOpenUser

\* submit: an edit goes to the user the dialog is about.
EditsGoToTheOpenUser == Ud!EditsGoToTheOpenUser

\* revokeSubscription: a careful administrator never saves a revoked key.
RevokedKeyStaysOut == Ud!RevokedKeyStaysOut

\* HostsDialog, reset: no list that arrives takes away what was changed, a form that was
\* opened or applied is what the server has.
HostsKeepDraft == Hd!HostsKeepDraft

\* HostsDialog, accordions: an error that comes up while the list is on the screen, or
\* comes back to it with the list, is shown.
NewErrorsAreShown == Hd!NewErrorsAreShown

\* NodeForm: saving without touching the switch disables and enables nothing.
SaveKeepsDisabled == Nd!SaveKeepsDisabled

\* CoreSettingsModal: no late answer takes away what was typed, an unchanged form is
\* what the server has.
CoreKeepsDraft == Co!CoreKeepsDraft

\* CoreSettingsModal, updateLogs: each line once, in order, of this opening.
PaneIsOfThisOpening == desk = "logs" => Lo!PaneIsOfThisOpening

\* UsageFilter, fetchUsageWithFilter: the chart is of the period chosen last, and of the
\* default one after a revocation.
ChartAnswersFilter == desk = "usage" => Us!ChartAnswersFilter

\* Header, useGetUser: the sudo menu is offered to a sudo administrator.
MenuIsOfAdmin == desk = "session" => Se!MenuIsOfAdmin

\* Login, Router: no dashboard without a token, no login page with one left over.
LoggedOutIsOut == desk = "session" => Se!LoggedOutIsOut

\* ActionButtons: a tick goes away.
TickGoes == desk = "links" => Sh!TickGoes

\* QRCodeDialog: the counter and the subscription are of the user who is shown.
CounterIsOfOpenUser == desk = "links" => Sh!CounterIsOfOpenUser
================================================================================
