------------------------------ MODULE HostsDialog ------------------------------
(***************************************************************************)
(* The dialog for the hosts of the inbounds.  It edits a form that is reset *)
(* to each list that arrives while the dialog is open, and puts the whole  *)
(* form back.  rows is the copy of the form that useFieldArray renders: it *)
(* follows the operations on the list, not what is typed.                  *)
(*                                                                         *)
(* The server is external.  Somebody else may change the hosts, too.       *)
(***************************************************************************)
EXTENDS Naturals, Lists

CONSTANTS
    Tags,         \* the inbounds that have hosts
    MaxEdits,     \* bound: changes of the form in all
    MaxRows,      \* bound: hosts of an inbound
    MaxRequests   \* bound: requests in all

VARIABLES
    open,            \* isEditingHosts
    isLoading, isPostLoading,
    listed,          \* the store holds a list
    form, rows,
    accordions,      \* openAccordions
    errors,          \* the inbounds the form has errors for
    submitted,       \* the form was submitted since it was reset
    flight,          \* requests on their way, oldest first
    server,          \* the hosts at the server
    edits, requests,
    dirty,           \* the form holds changes that were not saved
    calm             \* since it was opened with no request on its way, no answer is
                     \* missing, nothing was applied early, nobody else saved

screenVars == <<open, accordions, errors, submitted>>
vars == <<screenVars, isLoading, isPostLoading, listed, form, rows, flight, server,
          edits, requests, dirty, calm>>

\* A configuration without inbounds is refused by the panel.
Parameters == Tags # {}

\* Of the optional fields it matters whether any was set.
Host == [remark : {"", "text"}, address : {"", "text"}, port : {"null", "text", "number"},
         options : BOOLEAN, flags : BOOLEAN, is_disabled : BOOLEAN]

NewHost == [remark |-> "", address |-> "", port |-> "null", options |-> FALSE,
            flags |-> FALSE, is_disabled |-> FALSE]

OldHost == [NewHost EXCEPT !.remark = "text", !.address = "text", !.port = "number"]

Forms == [Tags -> Seq(Host)]
Blank == [tag \in Tags |-> << >>]

HostOk(host) == host.remark # "" /\ host.address # ""

Faulty(hosts) == {tag \in DOMAIN hosts : \E i \in DOMAIN hosts[tag] : ~HostOk(hosts[tag][i])}

\* What the schema makes of the form: a port that was typed becomes a number.
Parsed(hosts) ==
    [tag \in DOMAIN hosts |->
        [i \in DOMAIN hosts[tag] |->
            [hosts[tag][i] EXCEPT !.port = IF @ = "text" THEN "number" ELSE @]]]

(***************************************************************************)
(* The accordions, which are mounted while there is a list and none loads. *)
(***************************************************************************)
\* Mutant: the list of before stays on the screen while the new one loads.
ListingEarly == open /\ listed

Listing == open /\ listed /\ ~isLoading

\* Mutant: the accordions are toggled one by one in copies of the same state.
ToggledEach(tags) ==
    IF tags = {} THEN accordions
    ELSE LET tag == CHOOSE t \in tags : TRUE
         IN  (accordions \ {tag}) \cup ({tag} \ accordions)

\* toggleAccordion changes the state in place: several calls in a commit add up.
Toggled(tags) == (accordions \ tags) \cup (tags \ accordions)

(***************************************************************************)
(* Requests.                                                               *)
(***************************************************************************)
Send(kind, body) ==
    /\ requests < MaxRequests
    /\ requests' = requests + 1
    /\ flight' = Append(flight, [kind |-> kind, body |-> body, state |-> "sent"])

FetchHosts ==
    /\ isLoading' = TRUE
    /\ Send("get", << >>)

\* A list that is put replaces the hosts of the inbounds it names.
Serve(i) ==
    /\ flight[i].state = "sent"
    /\ IF flight[i].kind = "put"
       THEN server' = [tag \in Tags |-> IF tag \in DOMAIN flight[i].body
                                        THEN flight[i].body[tag] ELSE server[tag]]
       ELSE UNCHANGED server
    /\ flight' = [flight EXCEPT ![i].state = "done",
                     ![i].body = IF flight[i].kind = "get" THEN server ELSE @]
    /\ UNCHANGED <<screenVars, isLoading, isPostLoading, listed, form, rows, edits,
                   requests, dirty, calm>>

\* form.reset, if the dialog is open.
Reset(hosts) ==
    IF open
    THEN /\ form' = hosts /\ rows' = hosts
         /\ errors' = {} /\ submitted' = FALSE
         /\ dirty' = FALSE
    ELSE UNCHANGED <<form, rows, errors, submitted, dirty>>

HostsArrive(i) ==
    /\ flight[i].kind = "get" /\ flight[i].state = "done"
    /\ listed' = TRUE
    /\ isLoading' = FALSE
    /\ Reset(flight[i].body)
    /\ flight' = RemoveAt(flight, i)
    /\ UNCHANGED <<open, accordions, isPostLoading, server, edits, requests, calm>>

\* The users are asked for then; the store keeps the hosts it had.
Saved(i) ==
    /\ flight[i].kind = "put" /\ flight[i].state = "done"
    /\ isPostLoading' = FALSE
    /\ dirty' = (dirty /\ flight[i].body # Parsed(form))
    /\ flight' = RemoveAt(flight, i)
    /\ UNCHANGED <<screenVars, isLoading, listed, form, rows, server, edits, requests, calm>>

\* Failed, before or after the server did what it was asked for.  The list the store
\* had comes back to the screen when there is no newer one: with the form and the
\* errors there were, and a form that was never reset is filled with empty lists.
Failed(i) ==
    /\ flight[i].kind = "get" => flight[i].state = "sent"
    /\ isLoading' = (isLoading /\ flight[i].kind # "get")
    /\ isPostLoading' = (isPostLoading /\ flight[i].kind # "put")
    /\ calm' = FALSE
    /\ flight' = RemoveAt(flight, i)
    /\ IF open /\ listed /\ isLoading /\ ~isLoading'
       THEN /\ accordions' = Toggled(errors \ accordions)
            /\ form' = IF form = << >> THEN Blank ELSE form
            /\ rows' = form'
       ELSE UNCHANGED <<accordions, form, rows>>
    /\ UNCHANGED <<open, errors, submitted, listed, server, edits, requests, dirty>>

SomebodyElseSaves(tag) ==
    /\ edits < MaxEdits
    /\ edits' = edits + 1
    /\ server[tag] # << >>
    /\ server' = [server EXCEPT ![tag][1].is_disabled = ~@]
    /\ calm' = FALSE
    /\ UNCHANGED <<screenVars, isLoading, isPostLoading, listed, form, rows, flight,
                   requests, dirty>>

(***************************************************************************)
(* The dialog.                                                             *)
(***************************************************************************)
\* The list loads before the dialog is drawn: no accordion is mounted yet.
OnEditingHosts ==
    /\ ~open
    /\ open' = TRUE
    /\ FetchHosts
    /\ calm' = (flight = << >>)
    /\ UNCHANGED <<accordions, errors, submitted, isPostLoading, listed, form, rows, server,
                   edits, dirty>>

OnClose ==
    /\ open
    /\ open' = FALSE
    /\ accordions' = {}
    /\ dirty' = FALSE
    /\ UNCHANGED <<errors, submitted, isLoading, isPostLoading, listed, form, rows, flight,
                   server, edits, requests, calm>>

ToggleAccordion(tag) ==
    /\ Listing
    /\ accordions' = Toggled({tag})
    /\ UNCHANGED <<open, errors, submitted, isLoading, isPostLoading, listed, form, rows,
                   flight, server, edits, requests, dirty, calm>>

\* The form goes to the server if the schema takes it; if not, the accordions with
\* errors open, those that are mounted.  The button is there while the list is
\* loading, too.
HandleFormSubmit ==
    /\ open /\ ~isPostLoading
    /\ submitted' = TRUE
    /\ errors' = Faulty(form)
    /\ IF errors' = {}
       THEN /\ isPostLoading' = TRUE
            /\ Send("put", Parsed(form))
            /\ calm' = (calm /\ ~isLoading)
            /\ UNCHANGED accordions
       ELSE /\ accordions' = IF Listing THEN Toggled(errors' \ accordions) ELSE accordions
            /\ UNCHANGED <<isPostLoading, flight, requests, calm>>
    /\ UNCHANGED <<open, isLoading, listed, form, rows, server, edits, dirty>>

(***************************************************************************)
(* The hosts of an inbound.                                                *)
(***************************************************************************)
Shown(tag) == Listing /\ tag \in accordions

\* A form that was submitted is checked again with every change.
Change(tag, hosts) ==
    /\ Shown(tag)
    /\ edits < MaxEdits
    /\ edits' = edits + 1
    /\ form' = [form EXCEPT ![tag] = hosts]
    /\ dirty' = TRUE
    /\ errors' = IF submitted THEN (errors \ {tag}) \cup (Faulty(form') \cap {tag}) ELSE errors
    /\ UNCHANGED <<open, accordions, submitted, isLoading, isPostLoading, listed, flight,
                   server, requests, calm>>

ChangeRows(tag, hosts) ==
    /\ Len(hosts) <= MaxRows
    /\ Change(tag, hosts)
    /\ rows' = form'

HandleAddHost(tag) == ChangeRows(tag, Append(form[tag], NewHost))

\* A copy of the row as it was rendered, without what was typed since.
DuplicateHost(tag, i) == ChangeRows(tag, InsertAt(form[tag], i + 1, rows[tag][i]))

RemoveHost(tag, i) == ChangeRows(tag, RemoveAt(form[tag], i))

MoveHostPosition(tag, i, j) ==
    ChangeRows(tag, [form[tag] EXCEPT ![i] = form[tag][j], ![j] = form[tag][i]])

SetField(tag, host) == Change(tag, host) /\ UNCHANGED rows

\* TypeNames is for sni, host and path, TypeTricks for fragment and noise.
TypeRemark(tag, i)  == \E text \in {"", "text"} :
                           SetField(tag, [form[tag] EXCEPT ![i].remark = text])
TypeAddress(tag, i) == \E text \in {"", "text"} :
                           SetField(tag, [form[tag] EXCEPT ![i].address = text])
TypePort(tag, i)    == SetField(tag, [form[tag] EXCEPT ![i].port = "text"])
TypeNames(tag, i)   == SetField(tag, [form[tag] EXCEPT ![i].options = TRUE])
SetSecurity(tag, i) == SetField(tag, [form[tag] EXCEPT ![i].options = TRUE])
TypeTricks(tag, i)  == SetField(tag, [form[tag] EXCEPT ![i].options = TRUE])
CheckFlags(tag, i)  == SetField(tag, [form[tag] EXCEPT ![i].flags = ~@])
SwitchHost(tag, i)  == SetField(tag, [form[tag] EXCEPT ![i].is_disabled = ~@])

Fields(tag, i) ==
    \/ TypeRemark(tag, i) \/ TypeAddress(tag, i) \/ TypePort(tag, i) \/ TypeNames(tag, i)
    \/ SetSecurity(tag, i) \/ TypeTricks(tag, i) \/ CheckFlags(tag, i) \/ SwitchHost(tag, i)

--------------------------------------------------------------------------------
Init ==
    /\ open = FALSE /\ accordions = {} /\ errors = {} /\ submitted = FALSE
    /\ isLoading = FALSE /\ isPostLoading = FALSE /\ listed = FALSE
    /\ form = << >> /\ rows = << >>
    /\ flight = << >>
    /\ server = [tag \in Tags |-> <<OldHost>>]
    /\ edits = 0 /\ requests = 0
    /\ dirty = FALSE /\ calm = TRUE

Next ==
    \/ OnEditingHosts \/ OnClose \/ HandleFormSubmit
    \/ \E i \in DOMAIN flight : Serve(i) \/ HostsArrive(i) \/ Saved(i) \/ Failed(i)
    \/ \E tag \in Tags : SomebodyElseSaves(tag) \/ ToggleAccordion(tag)
    \/ \E tag \in DOMAIN form :
          \/ HandleAddHost(tag)
          \/ \E i \in DOMAIN form[tag] :
                \/ DuplicateHost(tag, i) \/ RemoveHost(tag, i) \/ Fields(tag, i)
                \/ \E j \in {i - 1, i + 1} \cap DOMAIN form[tag] : MoveHostPosition(tag, i, j)

Spec == Init /\ [][Next]_vars

--------------------------------------------------------------------------------
TypeOK ==
    /\ {open, isLoading, isPostLoading, listed, submitted, dirty, calm} \subseteq BOOLEAN
    /\ form \in Forms \cup {<< >>} /\ rows \in Forms \cup {<< >>} /\ server \in Forms
    /\ accordions \subseteq Tags /\ errors \subseteq Tags
    /\ \A i \in DOMAIN flight :
           /\ flight[i].kind \in {"get", "put"} /\ flight[i].state \in {"sent", "done"}
           /\ flight[i].body \in Forms \cup {<< >>}
    /\ edits \in Nat /\ requests \in Nat

\* To which the dialog for the hosts is a detail.
Mode ==
    CASE ~open         -> "closed"
      [] open /\ ~calm -> "astray"
      [] open /\ calm /\ dirty -> "edited"
      [] OTHER         -> IF flight = << >> THEN "clean" ELSE "waiting"

\* A form that was never filled names no inbound and changes nothing.
Puts == {i \in DOMAIN flight : /\ flight[i].kind = "put" /\ flight[i].state = "sent"
                               /\ flight[i].body # << >>}

Editor == INSTANCE Draft WITH
    Documents <- Forms, NoDraft <- << >>, mode <- Mode,
    draft <- IF Mode \in {"clean", "edited"} THEN Parsed(form) ELSE << >>,
    sent <- {flight[i].body : i \in Puts}

\* The form is reset to every list that arrives, and neither closing nor saving
\* touches the list in the store.  Still, of an administrator who opened the dialog
\* with nothing on its way: what was changed is never taken away by an answer, and
\* a form that was opened or applied is what the server has.
HostsKeepDraft == Editor!Spec

\* What there is to tell of the errors: nothing while no accordion is mounted.
Told == IF Listing THEN errors ELSE {}

\* An error that comes up while the list is on the screen, or that is there when the
\* list comes back to it because a newer one could not be had, is on the screen too,
\* also when several inbounds have one and their accordions are closed.  Of a form
\* that was refused while the list loads nothing is claimed: no accordion opens then,
\* and the list that arrives takes the errors away.
NewErrorsAreShown == [][\A tag \in Told' \ Told : Shown(tag)']_vars
================================================================================
