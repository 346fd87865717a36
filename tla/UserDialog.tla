------------------------------- MODULE UserDialog ------------------------------
(***************************************************************************)
(* The dialog that creates and edits a user, the dialogs that delete,      *)
(* reset and revoke, and the requests they make.  An administrator works   *)
(* on copies: the table is a copy of the rows, editingUser a copy of a row *)
(* of the table, the form a copy of editingUser.  A save sends the whole   *)
(* form back.                                                              *)
(*                                                                         *)
(* A row is the key its links are made of and the rest of its content.     *)
(* One administrator works; the server is external.                        *)
(***************************************************************************)
EXTENDS Integers, FiniteSets, Functions, Lists

CONSTANTS
    Users, Contents,
    MaxSaves,      \* bound: requests that change rows
    MaxFlight,     \* bound: requests on their way, a save or a chart may be one more
    NoUser         \* the empty user name, and nobody's usage

VARIABLES
    db,            \* the rows of the server
    keys,          \* keys given out so far
    flight,        \* requests on their way, oldest first
    table,         \* users of DashboardContext
    creating,      \* isCreatingNewUser
    editing,       \* editingUser: no row or one
    deleting, resetting, revoking,  \* the user the dialog asks about, or nobody
    resettingAll,  \* isResetingAllUsage
    form,          \* the values of the form
    saving,        \* loading of UserDialog
    chart,         \* whose usage the chart shows
    saves,         \* how many requests that change rows there have been
    hasty,         \* the administrator has acted while a request was on its way
    smooth         \* no answer overtook another, and none that was needed is missing

dialogVars == <<creating, editing, deleting, resetting, revoking, resettingAll>>
pathVars   == <<saves, hasty, smooth>>
vars == <<db, keys, flight, table, dialogVars, form, saving, chart, pathVars>>

Row == [key : Nat, content : Contents]
NoRows == << >>

GetDefaultValues == [user |-> NoUser, key |-> 0, content |-> CHOOSE c \in Contents : TRUE]

FormatUser(rows) ==
    LET u == CHOOSE v \in DOMAIN rows : TRUE
    IN  [user |-> u, key |-> rows[u].key, content |-> rows[u].content]

\* Mutant: a schema that takes any user name.
ValidAnyName(values) == values \in [user : Users \cup {NoUser}, key : Nat, content : Contents]

\* The schema asks for a user name; of the rest nothing matters here.
Valid(values) == values.user # NoUser

(***************************************************************************)
(* Requests.                                                               *)
(***************************************************************************)
Request(kind, user, row) ==
    [kind |-> kind, user |-> user, row |-> row, state |-> "sent", answer |-> NoRows]

NoContent == [key |-> 0, content |-> CHOOSE c \in Contents : TRUE]
ListUsers == Request("users", NoUser, NoContent)
UsageOf(u) == Request("usage", u, NoContent)

Saves   == {"create", "edit"}
Changes == Saves \cup {"delete", "reset", "revoke", "reset_all"}

Accepts(r) ==
    CASE r.kind = "create" -> r.user \notin DOMAIN db
      [] r.kind \in {"edit", "delete", "reset", "revoke", "usage"} -> r.user \in DOMAIN db
      [] OTHER -> TRUE

\* The server carries a request out.  A new row and a revoked one get a new key,
\* an edited one gets the key it was sent.
Serve(i) ==
    LET r   == flight[i]
        new == [u \in DOMAIN db \cup {r.user} |->
                   IF u = r.user THEN [r.row EXCEPT !.key = keys + 1] ELSE db[u]]
    IN  /\ r.state = "sent"
        /\ Accepts(r)
        /\ db' = CASE r.kind = "create" -> new
                   [] r.kind = "edit"   -> [db EXCEPT ![r.user] = r.row]
                   [] r.kind = "revoke" -> [db EXCEPT ![r.user].key = keys + 1]
                   [] r.kind = "delete" -> Restrict(db, DOMAIN db \ {r.user})
                   [] OTHER             -> db
        /\ keys' = IF r.kind \in {"create", "revoke"} THEN keys + 1 ELSE keys
        /\ flight' = [flight EXCEPT ![i].state = "ok", ![i].answer =
                        IF r.kind = "revoke" THEN Restrict(db', {r.user})
                        ELSE IF r.kind = "users" THEN db' ELSE NoRows]
        /\ UNCHANGED <<table, dialogVars, form, saving, chart, pathVars>>

Reject(i) ==
    /\ flight[i].state = "sent"
    /\ flight' = [flight EXCEPT ![i].state = "failed"]
    /\ UNCHANGED <<db, keys, table, dialogVars, form, saving, chart, pathVars>>

\* The change is made, but the answer does not arrive.
Lose(i) ==
    /\ flight[i].state = "ok" /\ flight[i].kind \in Changes
    /\ flight' = [flight EXCEPT ![i].state = "failed"]
    /\ smooth' = FALSE
    /\ UNCHANGED <<db, keys, table, dialogVars, form, saving, chart, saves, hasty>>

(***************************************************************************)
(* Answers.                                                                *)
(***************************************************************************)
Arrived(i, state) ==
    /\ flight[i].state = state
    /\ smooth' = (smooth /\ i = 1 /\ ~(state = "failed" /\ flight[i].kind \in {"users", "usage"}))
    /\ UNCHANGED <<db, keys, saves, hasty>>

Answered(i, next) == flight' = RemoveAt(flight, i) \o next

UsersArrive(i) ==
    /\ flight[i].kind = "users"
    /\ Arrived(i, "ok")
    /\ table' = flight[i].answer
    /\ Answered(i, << >>)
    /\ UNCHANGED <<dialogVars, form, saving, chart>>

\* The subscription to the inbounds resets the form, whatever is in it.
InboundsArrive(i) ==
    /\ flight[i].kind = "inbounds"
    /\ Arrived(i, "ok")
    /\ form' = GetDefaultValues
    /\ Answered(i, << >>)
    /\ UNCHANGED <<table, dialogVars, saving, chart>>

UsageArrives(i) ==
    /\ flight[i].kind = "usage"
    /\ Arrived(i, "ok")
    /\ chart' = flight[i].user
    /\ Answered(i, << >>)
    /\ UNCHANGED <<table, dialogVars, form, saving>>

OnClose ==
    /\ form' = GetDefaultValues
    /\ creating' = FALSE
    /\ editing' = NoRows

\* A saved form closes the dialog, the one that is open by now.
\* Mutant: an edit does not ask for the list again.
SavedSilently(i) ==
    /\ flight[i].kind \in Saves
    /\ Arrived(i, "ok")
    /\ OnClose
    /\ saving' = FALSE
    /\ Answered(i, IF flight[i].kind = "create" THEN <<ListUsers>> ELSE << >>)
    /\ UNCHANGED <<table, deleting, resetting, revoking, resettingAll, chart>>

Saved(i) ==
    /\ flight[i].kind \in Saves
    /\ Arrived(i, "ok")
    /\ OnClose
    /\ saving' = FALSE
    /\ Answered(i, <<ListUsers>>)
    /\ UNCHANGED <<table, deleting, resetting, revoking, resettingAll, chart>>

DeleteUser(i) ==
    /\ flight[i].kind = "delete"
    /\ Arrived(i, "ok")
    /\ deleting' = {}
    /\ Answered(i, <<ListUsers>>)
    /\ UNCHANGED <<table, creating, editing, resetting, revoking, resettingAll,
                   form, saving, chart>>

ResetDataUsage(i) ==
    /\ flight[i].kind = "reset"
    /\ Arrived(i, "ok")
    /\ resetting' = {}
    /\ Answered(i, <<ListUsers>>)
    /\ UNCHANGED <<table, creating, editing, deleting, revoking, resettingAll,
                   form, saving, chart>>

ResetAllUsage(i) ==
    /\ flight[i].kind = "reset_all"
    /\ Arrived(i, "ok")
    /\ resettingAll' = FALSE
    /\ Answered(i, <<ListUsers>>)
    /\ UNCHANGED <<table, creating, editing, deleting, resetting, revoking,
                   form, saving, chart>>

\* Setting editingUser to a row fills the form with it and asks for its usage.
Edit(rows) ==
    /\ editing' = rows
    /\ form' = FormatUser(rows)

\* Mutant: the dialog keeps the row it was opened with.
RevokeSubscriptionKeeping(i) ==
    /\ flight[i].kind = "revoke"
    /\ Arrived(i, "ok")
    /\ revoking' = {}
    /\ Answered(i, <<ListUsers>>)
    /\ UNCHANGED <<table, creating, editing, form, deleting, resetting, resettingAll,
                   saving, chart>>

\* The dialog is opened on the revoked row, even if it was closed in between.
RevokeSubscription(i) ==
    /\ flight[i].kind = "revoke"
    /\ Arrived(i, "ok")
    /\ revoking' = {}
    /\ Edit(flight[i].answer)
    /\ Answered(i, <<ListUsers, UsageOf(flight[i].user)>>)
    /\ UNCHANGED <<table, creating, deleting, resetting, resettingAll, saving, chart>>

\* A failure is reported; only the dialog of the form waits for it.
Failed(i) ==
    /\ Arrived(i, "failed")
    /\ saving' = (saving /\ flight[i].kind \notin Saves)
    /\ Answered(i, << >>)
    /\ UNCHANGED <<table, dialogVars, form, chart>>

Deliver(i) ==
    \/ UsersArrive(i) \/ InboundsArrive(i) \/ UsageArrives(i)
    \/ Saved(i) \/ DeleteUser(i) \/ ResetDataUsage(i) \/ ResetAllUsage(i)
    \/ RevokeSubscription(i) \/ Failed(i)

(***************************************************************************)
(* The administrator.  A dialog covers what is below it.                   *)
(***************************************************************************)
IsEditing == editing # NoRows
IsOpen    == creating \/ IsEditing
OnTop     == deleting \cup resetting \cup revoking # {} \/ resettingAll
PageFree  == ~IsOpen /\ ~OnTop
FormFree  == IsOpen /\ ~OnTop

Acts ==
    /\ hasty' = (hasty \/ flight # << >>)
    /\ UNCHANGED <<db, keys, table, chart, smooth>>

Sends(r) ==
    /\ Len(flight) < MaxFlight + (IF r.kind \in Saves \cup {"usage"} THEN 1 ELSE 0)
    /\ r.kind \in Changes => saves < MaxSaves
    /\ saves' = IF r.kind \in Changes THEN saves + 1 ELSE saves
    /\ flight' = Append(flight, r)

OnCreateUser ==
    /\ PageFree
    /\ Acts
    /\ creating' = TRUE
    /\ UNCHANGED <<editing, deleting, resetting, revoking, resettingAll, form, saving,
                   saves, flight>>

\* Mutant: the chart is left as it is.
OnEditingUserUncharted(u) ==
    /\ PageFree
    /\ Acts
    /\ Edit(Restrict(table, {u}))
    /\ UNCHANGED <<creating, deleting, resetting, revoking, resettingAll, saving,
                   saves, flight>>

OnEditingUser(u) ==
    /\ PageFree
    /\ Acts
    /\ Edit(Restrict(table, {u}))
    /\ Sends(UsageOf(u))
    /\ UNCHANGED <<creating, deleting, resetting, revoking, resettingAll, saving>>

\* The name of an existing user cannot be changed.
FillIn(values) ==
    /\ FormFree /\ ~saving
    /\ Acts
    /\ IsEditing => values.user = form.user
    /\ form' = values
    /\ UNCHANGED <<dialogVars, saving, saves, flight>>

Submit ==
    /\ FormFree /\ ~saving
    /\ Valid(form)
    /\ Acts
    /\ saving' = TRUE
    /\ Sends(Request(IF IsEditing THEN "edit" ELSE "create", form.user,
                     [key |-> form.key, content |-> form.content]))
    /\ UNCHANGED <<dialogVars, form>>

\* Escape and a click beside the dialog close it while it is saved, too.
Close ==
    /\ FormFree
    /\ Acts
    /\ OnClose
    /\ UNCHANGED <<deleting, resetting, revoking, resettingAll, saving, saves, flight>>

OnDeletingUser ==
    /\ FormFree /\ IsEditing
    /\ Acts
    /\ deleting' = DOMAIN editing
    /\ OnClose
    /\ UNCHANGED <<resetting, revoking, resettingAll, saving, saves, flight>>

HandleResetUsage ==
    /\ FormFree /\ IsEditing
    /\ Acts
    /\ resetting' = DOMAIN editing
    /\ UNCHANGED <<creating, editing, deleting, revoking, resettingAll, form, saving,
                   saves, flight>>

HandleRevokeSubscription ==
    /\ FormFree /\ IsEditing
    /\ Acts
    /\ revoking' = DOMAIN editing
    /\ UNCHANGED <<creating, editing, deleting, resetting, resettingAll, form, saving,
                   saves, flight>>

OnResetAllUsage ==
    /\ PageFree
    /\ Acts
    /\ resettingAll' = TRUE
    /\ UNCHANGED <<creating, editing, deleting, resetting, revoking, form, saving,
                   saves, flight>>

\* The four dialogs that ask: their buttons work as often as they are clicked.
Confirm(kind, users) ==
    /\ Acts
    /\ \E u \in users : Sends(Request(kind, u, NoContent))
    /\ UNCHANGED <<dialogVars, form, saving>>

OnDelete    == Confirm("delete", deleting)
OnReset     == Confirm("reset", resetting)
OnRevoke    == Confirm("revoke", revoking)
OnResetAll  == Confirm("reset_all", {NoUser : x \in {y \in {0} : resettingAll}})

Cancel ==
    /\ OnTop
    /\ Acts
    /\ deleting' = {} /\ resetting' = {} /\ revoking' = {} /\ resettingAll' = FALSE
    /\ UNCHANGED <<creating, editing, form, saving, saves, flight>>

--------------------------------------------------------------------------------
Parameters ==
    /\ Contents # {}
    /\ NoUser \notin Users

Init ==
    /\ \E there \in SUBSET Users :
           db = [u \in there |-> [key |-> 1, content |-> GetDefaultValues.content]]
    /\ keys = 1
    /\ flight = <<ListUsers, Request("inbounds", NoUser, NoContent)>>
    /\ table = NoRows
    /\ creating = FALSE /\ editing = NoRows
    /\ deleting = {} /\ resetting = {} /\ revoking = {} /\ resettingAll = FALSE
    /\ form = GetDefaultValues
    /\ saving = FALSE
    /\ chart = NoUser
    /\ saves = 0 /\ hasty = FALSE /\ smooth = TRUE

Next ==
    \/ \E i \in DOMAIN flight : Serve(i) \/ Reject(i) \/ Lose(i) \/ Deliver(i)
    \/ OnCreateUser \/ Submit \/ Close \/ OnDeletingUser \/ HandleResetUsage
    \/ HandleRevokeSubscription \/ OnResetAllUsage
    \/ OnDelete \/ OnReset \/ OnRevoke \/ OnResetAll \/ Cancel
    \/ \E u \in DOMAIN table : OnEditingUser(u)
    \/ \E u \in Users \cup {NoUser}, c \in Contents :
           FillIn([form EXCEPT !.user = u, !.content = c])

Spec == Init /\ [][Next]_vars

--------------------------------------------------------------------------------
Somebody == Users \cup {NoUser}

IsRows(f) == DOMAIN f \subseteq Somebody /\ \A u \in DOMAIN f : f[u] \in Row

TypeOK ==
    /\ IsRows(db) /\ IsRows(table) /\ IsRows(editing)
    /\ Cardinality(DOMAIN editing) <= 1
    /\ keys \in Nat
    /\ \A i \in DOMAIN flight :
           /\ flight[i].kind \in Changes \cup {"users", "inbounds", "usage"}
           /\ flight[i].user \in Somebody
           /\ flight[i].row \in Row
           /\ IsRows(flight[i].answer)
           /\ flight[i].state \in {"sent", "ok", "failed"}
    /\ \A s \in {deleting, resetting, revoking} : s \subseteq Somebody /\ Cardinality(s) <= 1
    /\ form \in [user : Somebody, key : Nat, content : Contents]
    /\ chart \in Somebody
    /\ {creating, resettingAll, saving, hasty, smooth} \subseteq BOOLEAN
    /\ saves \in Nat

\* The form may be emptied under the dialog by the inbounds that arrive late;
\* an edit still goes to the user the dialog is about, with a key of that user.
EditsGoToTheOpenUser ==
    [][Len(flight') > Len(flight) /\ Last(flight').kind = "edit" =>
          Last(flight').user \in DOMAIN editing /\ Last(flight').row.key # 0]_vars

\* Every change is followed by a request for the list: with no answer missing or
\* overtaken the table ends up as the server is.
QuietTableIsCurrent == smooth /\ flight = << >> => table = db

\* Of an administrator who waits for the answers no save puts back a key that was
\* revoked, although the table, the dialog and the form each hold a copy of it.
RevokedKeyStaysOut ==
    [][~hasty' /\ smooth =>
          \A u \in DOMAIN db \cap DOMAIN db' : db'[u].key >= db[u].key]_vars

\* The chart of the dialog is about the user of the dialog.
ChartIsOfOpenUser ==
    smooth /\ IsEditing /\ (\A i \in DOMAIN flight : flight[i].kind # "usage") =>
        chart \in DOMAIN editing
================================================================================
