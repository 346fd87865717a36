------------------------------ MODULE NodesDialog ------------------------------
(***************************************************************************)
(* The dialog for the nodes.  The list of nodes is a query that is repeated *)
(* every three seconds while the dialog is open and kept when it is closed; *)
(* a mutation that succeeds invalidates it, which does nothing while the   *)
(* list is being fetched.  Each node has a form that copies the node when  *)
(* it is mounted and not again.  Accordions are known by their place.      *)
(*                                                                         *)
(* One administrator works; the server is external.  A node that connects  *)
(* is connected here.                                                      *)
(***************************************************************************)
EXTENDS Naturals, Lists

CONSTANTS
    Names,        \* names of nodes, enough for those there are and new ones
    Count,        \* nodes at first
    MaxRequests,  \* bound: mutations in all
    MaxOpens,     \* bound: how often the dialog is opened
    NoData, NoNode

VARIABLES
    server,      \* the nodes at the server, in the order of their ids
    nodes,       \* the data of the query
    fetch,       \* the request for the list: "none", "sent" or "back", and the list
    flight,      \* mutations on their way
    opens,       \* how often the dialog was opened
    isEditing,   \* isEditingNodes
    forms,       \* the forms mounted, by the name that is their key
    accordions,  \* openAccordions, the places of what is open
    deleting,    \* deletingNode
    requests, hasty, overlooked

vars == <<server, nodes, fetch, flight, opens, isEditing, forms, accordions, deleting,
          requests, hasty, overlooked>>

NoFetch   == [state |-> "none", list |-> << >>]
SentFetch == [state |-> "sent", list |-> << >>]

Status == {"connected", "error", "disabled"}
Node   == [id : Nat, name : Names, status : Status]
New    == [id |-> 0, name |-> "", status |-> "connected"]

Form(node) == [id |-> node.id, name |-> node.name, status |-> node.status, touched |-> FALSE]

\* NodeForm copies its node when its key is new.
Mounted(list) ==
    IF list = NoData THEN << >>
    ELSE [n \in {node.name : node \in ToSet(list)} |->
             IF n \in DOMAIN forms THEN forms[n]
             ELSE Form(CHOOSE node \in ToSet(list) : node.name = n)]

(***************************************************************************)
(* The query.                                                              *)
(***************************************************************************)
RefetchInterval ==
    /\ isEditing /\ fetch = NoFetch
    /\ fetch' = SentFetch
    /\ UNCHANGED <<server, nodes, flight, opens, isEditing, forms, accordions, deleting,
                   requests, hasty, overlooked>>

\* A list that has left the server does not know of the change.
InvalidateQueries ==
    /\ fetch' = IF fetch = NoFetch THEN SentFetch ELSE fetch
    /\ overlooked' = (overlooked \/ fetch.state = "back")

ServeList ==
    /\ fetch.state = "sent"
    /\ fetch' = [state |-> "back", list |-> server]
    /\ UNCHANGED <<server, nodes, flight, opens, isEditing, forms, accordions, deleting,
                   requests, hasty, overlooked>>

NodesArrive ==
    /\ fetch.state = "back"
    /\ nodes' = fetch.list
    /\ forms' = IF isEditing THEN Mounted(nodes') ELSE << >>
    /\ fetch' = NoFetch
    /\ UNCHANGED <<server, flight, opens, isEditing, accordions, deleting, requests, hasty,
                   overlooked>>

\* After the last retry the data stays as it is.
FetchFails ==
    /\ fetch.state = "sent"
    /\ fetch' = NoFetch
    /\ overlooked' = TRUE
    /\ UNCHANGED <<server, nodes, flight, opens, isEditing, forms, accordions, deleting,
                   requests, hasty>>

(***************************************************************************)
(* Mutations.                                                              *)
(***************************************************************************)
Known(id)    == {i \in DOMAIN server : server[i].id = id}
Taken(n, id) == \E i \in DOMAIN server : server[i].name = n /\ server[i].id # id

Served(i, list) ==
    /\ flight[i].state = "sent"
    /\ server' = list
    /\ flight' = [flight EXCEPT ![i].state = "ok"]
    /\ UNCHANGED <<nodes, fetch, opens, isEditing, forms, accordions, deleting, requests,
                   hasty, overlooked>>

ServePut(i) ==
    LET r == flight[i]
    IN  /\ r.kind = "put" /\ ~Taken(r.name, r.id)
        /\ \E k \in Known(r.id) :
               Served(i, [server EXCEPT ![k].name = r.name, ![k].status =
                             IF r.status = "disabled" THEN "disabled" ELSE "connected"])

ServePost(i) ==
    LET newest == IF server = << >> THEN 0 ELSE Last(server).id
    IN  /\ flight[i].kind = "post" /\ ~Taken(flight[i].name, 0)
        /\ Served(i, Append(server, [id |-> newest + 1, name |-> flight[i].name,
                                     status |-> "connected"]))

ServeDelete(i) ==
    /\ flight[i].kind = "delete"
    /\ \E k \in Known(flight[i].id) : Served(i, RemoveAt(server, k))

ServeReconnect(i) ==
    /\ flight[i].kind = "reconnect"
    /\ \E k \in Known(flight[i].id) :
           Served(i, [server EXCEPT ![k].status = IF @ = "error" THEN "connected" ELSE @])

\* Connections break while the dialog is open; it takes a request to mend them here.
ConnectionBreaks(i) ==
    /\ server[i].status = "connected"
    /\ isEditing
    /\ server' = [server EXCEPT ![i].status = "error"]
    /\ UNCHANGED <<nodes, fetch, flight, opens, isEditing, forms, accordions, deleting,
                   requests, hasty, overlooked>>

Arrives(i, kinds) ==
    /\ flight[i].state = "ok" /\ flight[i].kind \in kinds
    /\ flight' = RemoveAt(flight, i)
    /\ UNCHANGED <<server, nodes, opens, isEditing, forms, requests, hasty>>

\* Mutant: the list is not asked for again.
UpdatedSilently(i) ==
    /\ Arrives(i, {"put", "reconnect"})
    /\ UNCHANGED <<fetch, overlooked, accordions, deleting>>

Updated(i) ==
    /\ Arrives(i, {"put", "reconnect"})
    /\ InvalidateQueries
    /\ UNCHANGED <<accordions, deleting>>

Added(i) ==
    /\ Arrives(i, {"post"})
    /\ InvalidateQueries
    /\ accordions' = {}
    /\ UNCHANGED deleting

\* deleteCallback closes the accordions.
Deleted(i) ==
    /\ Arrives(i, {"delete"})
    /\ deleting' = NoNode
    /\ InvalidateQueries
    /\ accordions' = {}

\* Refused, or carried out and the answer lost.
MutationFails(i) ==
    /\ flight' = RemoveAt(flight, i)
    /\ overlooked' = (overlooked \/ flight[i].state = "ok")
    /\ UNCHANGED <<server, nodes, fetch, opens, isEditing, forms, accordions, deleting,
                   requests, hasty>>

(***************************************************************************)
(* The administrator.                                                      *)
(***************************************************************************)
DialogFree == isEditing /\ deleting = NoNode

\* What is done while a change, the list after it or the first list is not there yet
\* is hasty.
Acts ==
    /\ hasty' = \/ hasty
                \/ flight # << >>
                \/ fetch # NoFetch /\ requests > 0
                \/ nodes = NoData /\ isEditing
    /\ UNCHANGED <<server, nodes, fetch, overlooked>>

Mutate(kind, form) ==
    /\ requests < MaxRequests
    /\ requests' = requests + 1
    /\ flight' = Append(flight, [kind |-> kind, id |-> form.id, name |-> form.name,
                                 status |-> form.status, state |-> "sent",
                                 untouched |-> kind = "put" /\ ~form.touched,
                                 opened |-> opens])

OnEditingNodes ==
    /\ ~isEditing
    /\ opens < MaxOpens
    /\ opens' = opens + 1
    /\ isEditing' = TRUE
    /\ forms' = Mounted(nodes)
    /\ Acts
    /\ UNCHANGED <<flight, accordions, deleting, requests>>

OnClose ==
    /\ DialogFree
    /\ isEditing' = FALSE
    /\ forms' = << >>
    /\ accordions' = {}
    /\ Acts
    /\ UNCHANGED <<flight, opens, deleting, requests>>

\* The form for a new node has the place after the last one.
ToggleAccordion(i) ==
    /\ DialogFree
    /\ accordions' = IF i \in accordions THEN accordions \ {i} ELSE accordions \cup {i}
    /\ Acts
    /\ UNCHANGED <<flight, opens, isEditing, forms, deleting, requests>>

Opened(i) == DialogFree /\ i \in accordions

\* The switch; it is on for any status but "disabled".
SwitchStatus(i) ==
    LET n == nodes[i].name
    IN  /\ Opened(i)
        /\ ~forms[n].touched
        /\ forms' = [forms EXCEPT ![n].touched = TRUE, ![n].status =
                        IF @ = "disabled" THEN "connected" ELSE "disabled"]
        /\ Acts
        /\ UNCHANGED <<flight, opens, isEditing, accordions, deleting, requests>>

TypeName(i, name) ==
    /\ Opened(i)
    /\ forms' = [forms EXCEPT ![nodes[i].name].name = name]
    /\ Acts
    /\ UNCHANGED <<flight, opens, isEditing, accordions, deleting, requests>>

Busy(kind, id) ==
    \E k \in DOMAIN flight :
        flight[k].kind = kind /\ flight[k].id = id /\ flight[k].opened = opens

UpdateNode(i) ==
    LET form == forms[nodes[i].name]
    IN  /\ Opened(i)
        /\ ~Busy("put", form.id)
        /\ Mutate("put", form)
        /\ Acts
        /\ UNCHANGED <<opens, isEditing, forms, accordions, deleting>>

ReconnectNode(i) ==
    /\ Opened(i)
    /\ nodes[i].status = "error"
    /\ ~Busy("reconnect", nodes[i].id)
    /\ Mutate("reconnect", Form(nodes[i]))
    /\ Acts
    /\ UNCHANGED <<opens, isEditing, forms, accordions, deleting>>

AddNode(name) ==
    /\ Opened(IF nodes = NoData THEN 1 ELSE Len(nodes) + 1)
    /\ ~Busy("post", New.id)
    /\ Mutate("post", Form([New EXCEPT !.name = name]))
    /\ Acts
    /\ UNCHANGED <<opens, isEditing, forms, accordions, deleting>>

SetDeletingNode(i) ==
    /\ Opened(i)
    /\ deleting' = nodes[i]
    /\ Acts
    /\ UNCHANGED <<flight, opens, isEditing, forms, accordions, requests>>

CancelDelete ==
    /\ deleting # NoNode
    /\ deleting' = NoNode
    /\ Acts
    /\ UNCHANGED <<flight, opens, isEditing, forms, accordions, requests>>

\* The button works as often as it is clicked.
OnDelete ==
    /\ deleting # NoNode
    /\ Mutate("delete", Form(deleting))
    /\ Acts
    /\ UNCHANGED <<opens, isEditing, forms, accordions, deleting>>

--------------------------------------------------------------------------------
Parameters == Count \in Nat /\ NoData \notin Seq(Node)

Init ==
    /\ \E named \in [1 .. Count -> Names] :
          /\ \A i, j \in 1 .. Count : named[i] = named[j] => i = j
          /\ server = [i \in 1 .. Count |-> [id |-> i, name |-> named[i], status |-> "connected"]]
    /\ nodes = NoData /\ fetch = SentFetch /\ flight = << >>
    /\ opens = 0 /\ isEditing = FALSE
    /\ forms = << >> /\ accordions = {} /\ deleting = NoNode
    /\ requests = 0 /\ hasty = FALSE /\ overlooked = FALSE

Places == IF nodes = NoData THEN {} ELSE DOMAIN nodes

Next ==
    \/ RefetchInterval \/ ServeList \/ NodesArrive \/ FetchFails
    \/ \E i \in DOMAIN flight :
          \/ ServePut(i) \/ ServePost(i) \/ ServeDelete(i) \/ ServeReconnect(i)
          \/ Updated(i) \/ Added(i) \/ Deleted(i) \/ MutationFails(i)
    \/ \E i \in DOMAIN server : ConnectionBreaks(i)
    \/ OnEditingNodes \/ OnClose \/ CancelDelete \/ OnDelete
    \/ ToggleAccordion(IF nodes = NoData THEN 1 ELSE Len(nodes) + 1)
    \/ \E name \in Names : AddNode(name)
    \/ \E i \in Places :
          \/ ToggleAccordion(i) \/ SwitchStatus(i) \/ UpdateNode(i) \/ ReconnectNode(i)
          \/ SetDeletingNode(i)
          \/ \E name \in Names : TypeName(i, name)

Spec == Init /\ [][Next]_vars

--------------------------------------------------------------------------------
TypeOK ==
    /\ server \in Seq(Node)
    /\ nodes = NoData \/ nodes \in Seq(Node)
    /\ fetch \in [state : {"none", "sent", "back"}, list : Seq(Node)]
    /\ \A n \in DOMAIN forms : forms[n] \in [id : Nat, name : Names, status : Status, touched : BOOLEAN]
    /\ accordions \subseteq Nat
    /\ deleting = NoNode \/ deleting \in Node
    /\ {isEditing, hasty, overlooked} \subseteq BOOLEAN
    /\ opens \in Nat /\ requests \in Nat
    /\ \A i \in DOMAIN flight :
           /\ flight[i].kind \in {"put", "post", "delete", "reconnect"}
           /\ flight[i].state \in {"sent", "ok"}

Disabled(list) == {list[i].id : i \in {j \in DOMAIN list : list[j].status = "disabled"}}

\* A save of a form in which the switch was not touched disables no node and enables
\* none, though the form still has the status from when it was mounted.
SaveKeepsDisabled ==
    [][~hasty /\ ~overlooked /\ Disabled(server') # Disabled(server) =>
          ~ \E i \in DOMAIN flight : flight[i].untouched /\ ServePut(i)]_vars
================================================================================
