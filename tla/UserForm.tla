-------------------------------- MODULE UserForm -------------------------------
(***************************************************************************)
(* The fields of the dialog for a user: status, data limit, expiry, the    *)
(* days of a user on hold, the protocols and their inbounds.  The fields   *)
(* are conversions of a row and depend on each other; saving converts them *)
(* back.                                                                   *)
(*                                                                         *)
(* A save and its answer are one step here: UserDialog is about what comes *)
(* between.  The server is external, its row is what this form sends and   *)
(* reads: access maps each proxy of the user to the inbounds it may use.   *)
(***************************************************************************)
EXTENDS DataLimit, FiniteSets

CONSTANTS
    Inbounds,    \* the inbounds of each protocol, none for some
    Limits,      \* data limits of rows, in bytes, 0 for none
    Steps,       \* what is typed as data limit
    MaxEdits,    \* bound: fields changed in all
    NoRow

VARIABLES
    row,         \* the user at the server
    dialog,      \* "closed", "create" or "edit"
    values,      \* the values of the form
    expanded,    \* expandedAccordions: the protocols whose inbounds are shown
    edits

vars == <<row, dialog, values, expanded, edits>>

Protocols  == DOMAIN Inbounds
AllTags    == UNION {Inbounds[p] : p \in Protocols}
Statuses   == {"active", "disabled", "limited", "expired", "on_hold"}
Strategies == {"no_reset", "month"}

Access == UNION {[ps -> SUBSET AllTags] : ps \in SUBSET Protocols}
Rows   == [status : Statuses, limit : Nat, strategy : Strategies, expire : BOOLEAN,
           hold : BOOLEAN, access : Access]
Values == [status : Statuses, limit : Nat, strategy : Strategies,
           expire : {"null", "zero", "date"}, hold : BOOLEAN,
           selected : SUBSET Protocols, inbounds : [Protocols -> SUBSET AllTags]]

\* Limits are bytes, what is typed is steps of the grid, and NoRow is no row.
Parameters ==
    /\ Limits \subseteq Nat /\ Steps \subseteq Nat
    /\ Inbounds \in [Protocols -> SUBSET AllTags]
    /\ NoRow \notin Rows

(***************************************************************************)
(* From the row to the form and back.                                      *)
(***************************************************************************)
FormatUser(user) ==
    [status   |-> user.status,
     limit    |-> Shown(user.limit),
     strategy |-> user.strategy,
     expire   |-> IF user.expire THEN "date" ELSE "null",
     hold     |-> user.hold,
     selected |-> DOMAIN user.access,
     inbounds |-> [p \in Protocols |-> IF p \in DOMAIN user.access THEN user.access[p] ELSE {}]]

GetDefaultValues ==
    [status |-> "active", limit |-> 0, strategy |-> "no_reset", expire |-> "null",
     hold |-> FALSE,
     selected |-> {p \in Protocols : Inbounds[p] # {}}, inbounds |-> Inbounds]

Schema(form) ==
    /\ form.selected # {}
    /\ form.status = "on_hold" => form.hold

\* Inbounds that are empty are left out; the days are sent of a user on hold only.
Body(form) ==
    [status   |-> IF form.status \in {"active", "disabled", "on_hold"}
                  THEN form.status ELSE "active",
     limit    |-> Stored(form.limit),
     strategy |-> IF Stored(form.limit) > 0 THEN form.strategy ELSE "no_reset",
     expire   |-> form.expire,
     hold     |-> form.status = "on_hold",
     proxies  |-> form.selected,
     inbounds |-> [p \in {q \in Protocols : form.inbounds[q] # {}} |-> form.inbounds[p]]]

(***************************************************************************)
(* The server: it wants a user on hold without expiry, it grants a proxy   *)
(* of which nothing is said what it had, a new one all there is.           *)
(***************************************************************************)
Accepts(body) == ~(body.status = "on_hold" /\ (body.expire = "date" \/ ~body.hold))

Granted(body, had) ==
    [p \in body.proxies |->
        IF p \in DOMAIN body.inbounds THEN body.inbounds[p]
        ELSE IF p \in DOMAIN had THEN had[p]
        ELSE Inbounds[p]]

Written(body, user) ==
    [status   |-> body.status,
     limit    |-> body.limit,
     strategy |-> body.strategy,
     expire   |-> body.expire = "date" \/ (body.expire = "null" /\ user # NoRow /\ user.expire),
     hold     |-> body.hold \/ (user # NoRow /\ user.hold),
     access   |-> Granted(body, IF user = NoRow THEN << >> ELSE user.access)]

\* Limits are reached, users expire, holds end.
Lapse ==
    /\ row # NoRow
    /\ edits < MaxEdits
    /\ edits' = edits + 1
    /\ \/ /\ row.status = "active"
          /\ \E status \in {"limited", "expired"} : row' = [row EXCEPT !.status = status]
       \/ /\ row.status = "on_hold"
          /\ row' = [row EXCEPT !.status = "active", !.expire = TRUE, !.hold = FALSE]
    /\ UNCHANGED <<dialog, values, expanded>>

(***************************************************************************)
(* Opening, saving and closing.                                            *)
(***************************************************************************)
OnCreateUser ==
    /\ dialog = "closed"
    /\ dialog' = "create"
    /\ UNCHANGED <<row, values, expanded, edits>>

OnEditingUser ==
    /\ dialog = "closed" /\ row # NoRow
    /\ dialog' = "edit"
    /\ values' = FormatUser(row)
    /\ UNCHANGED <<row, expanded, edits>>

OnClose ==
    /\ dialog' = "closed"
    /\ values' = GetDefaultValues
    /\ expanded' = {}

Close ==
    /\ dialog # "closed"
    /\ OnClose
    /\ UNCHANGED <<row, edits>>

\* A user that was created takes the place of the one there was.
Submit ==
    /\ dialog # "closed"
    /\ Schema(values)
    /\ Accepts(Body(values))
    /\ row' = Written(Body(values), IF dialog = "edit" THEN row ELSE NoRow)
    /\ OnClose
    /\ UNCHANGED edits

(***************************************************************************)
(* The fields.                                                             *)
(***************************************************************************)
Change(form) ==
    /\ dialog # "closed"
    /\ edits < MaxEdits
    /\ edits' = edits + 1
    /\ values' = form
    /\ UNCHANGED <<row, dialog>>

SwitchStatus ==
    /\ dialog = "edit"
    /\ Change([values EXCEPT !.status = IF @ = "active" THEN "disabled" ELSE "active"])
    /\ UNCHANGED expanded

SwitchOnHold ==
    /\ dialog = "create"
    /\ Change([values EXCEPT !.status = IF @ = "on_hold" THEN "active" ELSE "on_hold"])
    /\ UNCHANGED expanded

TypeLimit(steps) ==
    /\ Change([values EXCEPT !.limit = steps])
    /\ UNCHANGED expanded

\* Shown with a limit only.
SelectStrategy(strategy) ==
    /\ values.limit > 0
    /\ Change([values EXCEPT !.strategy = strategy])
    /\ UNCHANGED expanded

\* Mutant: the days do not take the place of the expiry date.
TypeDurationOnly(typed) ==
    /\ values.status = "on_hold"
    /\ Change([values EXCEPT !.hold = typed])
    /\ UNCHANGED expanded

\* The days and the date take each other's place.
TypeDuration(typed) ==
    /\ values.status = "on_hold"
    /\ Change([values EXCEPT !.hold = typed, !.expire = "null"])
    /\ UNCHANGED expanded

PickExpiry(date) ==
    /\ values.status # "on_hold"
    /\ Change([values EXCEPT !.expire = date, !.hold = FALSE])
    /\ UNCHANGED expanded

\* Mutant: a protocol that is checked keeps the inbounds it had.
CheckProtocolOnly(p) ==
    /\ p \notin values.selected
    /\ Inbounds[p] # {}
    /\ Change([values EXCEPT !.selected = @ \cup {p}])
    /\ expanded' = expanded \cap values'.selected

\* "active all inbounds when a proxy selected"
CheckProtocol(p) ==
    /\ p \notin values.selected
    /\ Inbounds[p] # {}
    /\ Change([values EXCEPT !.selected = @ \cup {p}, !.inbounds[p] = Inbounds[p]])
    /\ expanded' = expanded \cap values'.selected

UncheckProtocol(p) ==
    /\ p \in values.selected
    /\ Change([values EXCEPT !.selected = @ \ {p}])
    /\ expanded' = expanded \cap values'.selected

Toggled(p) == IF p \in expanded THEN expanded \ {p} ELSE expanded \cup {p}

ToggleAccordion(p) ==
    /\ p \in values.selected
    /\ Inbounds[p] # {}
    /\ Change(values)
    /\ expanded' = Toggled(p)

\* One inbound checked or unchecked; without the last the protocol goes.
CheckInbound(p, tags) ==
    /\ p \in expanded
    /\ Change([values EXCEPT !.inbounds[p] = tags,
                             !.selected = IF tags = {} THEN @ \ {p} ELSE @])
    /\ expanded' = IF tags = {} THEN Toggled(p) ELSE expanded

--------------------------------------------------------------------------------
Init ==
    /\ \/ row = NoRow
       \/ \E limit \in Limits, p \in Protocols :
              row = [status |-> "active", limit |-> limit, strategy |-> "no_reset",
                     expire |-> limit > 0, hold |-> FALSE, access |-> [q \in {p} |-> {}]]
    /\ dialog = "closed"
    /\ values = GetDefaultValues
    /\ expanded = {}
    /\ edits = 0

Next ==
    \/ OnCreateUser \/ OnEditingUser \/ Submit \/ Close \/ Lapse
    \/ SwitchStatus \/ SwitchOnHold
    \/ \E steps \in Steps : TypeLimit(steps)
    \/ \E strategy \in Strategies : SelectStrategy(strategy)
    \/ \E typed \in BOOLEAN : TypeDuration(typed)
    \/ \E date \in {"zero", "date"} : PickExpiry(date)
    \/ \E p \in Protocols :
          \/ CheckProtocol(p) \/ UncheckProtocol(p) \/ ToggleAccordion(p)
          \/ \E tag \in Inbounds[p] :
                \/ CheckInbound(p, values.inbounds[p] \cup {tag})
                \/ CheckInbound(p, values.inbounds[p] \ {tag})

Spec == Init /\ [][Next]_vars

--------------------------------------------------------------------------------
TypeOK ==
    /\ row \in Rows \cup {NoRow}
    /\ dialog \in {"closed", "create", "edit"}
    /\ values \in Values
    /\ expanded \subseteq Protocols
    /\ edits \in Nat

\* A save over a hold that ended since the dialog was opened: the user is on hold
\* again and keeps the expiry date that the end of the hold gave it.
HeldTwice == row # NoRow /\ row.status = "on_hold" /\ row.expire

\* A form that is on hold for some days is one the server takes.
Fits(form) == form.status = "on_hold" /\ form.hold => Accepts(Body(form))

\* A form that is opened is never refused for the rule that a user on hold has no
\* expiry date, and does not become one that is, in whatever order date, days and
\* switches are used.
HoldIsAccepted ==
    [][/\ dialog' # "closed"
       /\ IF dialog = "closed" THEN ~HeldTwice ELSE Fits(values)
       => Fits(values')]_vars

Saved == dialog # "closed" /\ dialog' = "closed" /\ row' # row

\* A saved user may use exactly the inbounds that were checked, although what is
\* empty is left out of the request and means "all" or "as before" there.
CheckedIsGranted ==
    [][Saved => \A p \in values.selected : row'.access[p] = values.inbounds[p]]_vars

\* The limit that was saved is the limit the dialog shows when it is opened again:
\* editing a user time and again does not move the limit.
LimitComesBack == [][Saved => Shown(row'.limit) = values.limit]_vars
================================================================================
