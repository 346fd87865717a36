-------------------------------- MODULE Session --------------------------------
(***************************************************************************)
(* Logging in and out of the dashboard: the token in the storage of the    *)
(* browser, the router with its loader, the query for the administrator    *)
(* that the header's menu depends on.  The query is kept from one visit of *)
(* the page to the next and is not sent again while it is on its way.      *)
(***************************************************************************)
EXTENDS Naturals, Lists

CONSTANTS
    Admins,       \* administrators, a token for each
    Sudo,         \* those of them who are sudo
    Nobody,       \* no token, no data, no request
    MaxLogins     \* bound: logins, changes by another tab and focus events

VARIABLES
    token,        \* what the storage holds
    page,         \* the page that is shown: "blank" at first, "login" or "dashboard"
    loader,       \* the token the loader was started with
    loading,      \* loading of the login page
    logins,       \* logins on their way
    query,        \* the token the query for the administrator was sent with
    user, isSuccess,  \* the data of the query and how it went last
    events,
    alone,        \* no other tab has changed the token
    patient       \* nothing was begun while a login or the query was on its way

vars == <<token, page, loader, loading, logins, query, user, isSuccess, events, alone, patient>>

\* No token is a token of nobody.
Parameters == Nobody \notin Admins /\ "none" \notin Admins /\ Nobody # "none"

Requests == Admins \cup {Nobody, "none"}

Happens == events < MaxLogins /\ events' = events + 1

\* Mutant: the token is left where it is.
MountLoginOnly ==
    /\ page' = "login"
    /\ token' = token
    /\ loader' = "none"
    /\ loading' = FALSE

\* The page for logging in removes the token, however one came to it.
MountLogin ==
    /\ page' = "login"
    /\ token' = Nobody
    /\ loader' = "none"
    /\ loading' = FALSE

\* The header asks for the administrator when it is mounted, if nobody asks already.
MountDashboard ==
    /\ page' = "dashboard"
    /\ query' = IF query = "none" THEN token ELSE query

(***************************************************************************)
(* The login page and the router.                                          *)
(***************************************************************************)
Login(admin) ==
    /\ page = "login" /\ ~loading
    /\ Happens
    /\ loading' = TRUE
    /\ logins' = Append(logins, admin)
    /\ patient' = (patient /\ logins = << >> /\ loader = "none" /\ query = "none")
    /\ UNCHANGED <<token, page, loader, query, user, isSuccess, alone>>

LoginAnswered(i) ==
    /\ token' = logins[i]
    /\ loader' = token'
    /\ loading' = FALSE
    /\ logins' = RemoveAt(logins, i)
    /\ UNCHANGED <<page, query, user, isSuccess, events, alone, patient>>

LoginFails(i) ==
    /\ loading' = FALSE
    /\ logins' = RemoveAt(logins, i)
    /\ UNCHANGED <<token, page, loader, query, user, isSuccess, events, alone, patient>>

\* The address of the dashboard is entered.
Navigate ==
    /\ page = "login" /\ loader = "none"
    /\ loader' = token
    /\ patient' = (patient /\ logins = << >>)
    /\ UNCHANGED <<token, page, loading, logins, query, user, isSuccess, events, alone>>

\* fetchAdminLoader; a page that is shown already is not mounted again.
LoaderAnswered ==
    /\ loader \in Admins
    /\ loader' = "none"
    /\ IF page = "dashboard" THEN UNCHANGED <<page, query>> ELSE MountDashboard
    /\ UNCHANGED <<token, loading, logins, user, isSuccess, events, alone, patient>>

\* errorElement.
LoaderFails ==
    /\ loader # "none"
    /\ MountLogin
    /\ UNCHANGED <<logins, query, user, isSuccess, events, alone, patient>>

Logout ==
    /\ page = "dashboard"
    /\ MountLogin
    /\ patient' = (patient /\ logins = << >> /\ query = "none")
    /\ UNCHANGED <<logins, query, user, isSuccess, events, alone>>

OtherTab(admin) ==
    /\ Happens
    /\ token' = admin
    /\ alone' = FALSE
    /\ UNCHANGED <<page, loader, loading, logins, query, user, isSuccess, patient>>

(***************************************************************************)
(* The query and the menu.                                                 *)
(***************************************************************************)
WindowFocus ==
    /\ page = "dashboard" /\ query = "none"
    /\ Happens
    /\ query' = token
    /\ UNCHANGED <<token, page, loader, loading, logins, user, isSuccess, alone, patient>>

QueryAnswered ==
    /\ query \in Admins
    /\ query' = "none"
    /\ user' = query /\ isSuccess' = TRUE
    /\ UNCHANGED <<token, page, loader, loading, logins, events, alone, patient>>

\* The data stays; after the last retry the query is not a success.
QueryFails ==
    /\ query # "none"
    /\ query' = "none"
    /\ isSuccess' = FALSE
    /\ UNCHANGED <<token, page, loader, loading, logins, user, events, alone, patient>>

\* Mutant: any data counts.
IsSudoOfData == user \in Sudo

\* Of a query that failed the data does not count.
IsSudo == isSuccess /\ user \in Sudo

--------------------------------------------------------------------------------
Init ==
    /\ token \in Admins \cup {Nobody}
    /\ page = "blank" /\ loader = token /\ loading = FALSE
    /\ logins = << >>
    /\ query = "none" /\ user = Nobody /\ isSuccess = FALSE
    /\ events = 0 /\ alone = TRUE /\ patient = TRUE

Next ==
    \/ \E admin \in Admins : Login(admin) \/ OtherTab(admin)
    \/ \E i \in DOMAIN logins : LoginAnswered(i) \/ LoginFails(i)
    \/ Navigate \/ LoaderAnswered \/ LoaderFails \/ Logout
    \/ WindowFocus \/ QueryAnswered \/ QueryFails

Spec == Init /\ [][Next]_vars

--------------------------------------------------------------------------------
TypeOK ==
    /\ token \in Admins \cup {Nobody}
    /\ page \in {"blank", "login", "dashboard"}
    /\ loader \in Requests /\ query \in Requests
    /\ loading \in BOOLEAN /\ isSuccess \in BOOLEAN
    /\ alone \in BOOLEAN /\ patient \in BOOLEAN
    /\ logins \in Seq(Admins)
    /\ user \in Admins \cup {Nobody}
    /\ events \in Nat

\* Accounts may be changed, and the query may fail after it has answered: the menu
\* of a sudo administrator is offered to nobody else, once no answer is awaited.
MenuIsOfAdmin ==
    alone /\ patient /\ page = "dashboard" /\ query = "none" /\ IsSudo => token \in Sudo

\* Of an administrator who waits for the answers: the dashboard is never shown
\* without a token, and the page for logging in never stands with one that is left
\* over, whether it was reached by logging out or through the loader's failure.
LoggedOutIsOut ==
    alone /\ patient =>
        /\ page = "dashboard" => token # Nobody
        /\ page = "login" /\ loader = "none" => token = Nobody
================================================================================
