------------------------------- MODULE UsersPage -------------------------------
(***************************************************************************)
(* The list of users in the dashboard: DashboardContext's filters and      *)
(* requests, the search box of Filters, the sorting and the rows of        *)
(* UsersTable, the buttons of Pagination.                                  *)
(*                                                                         *)
(* A page is named by the offset of its first user, not by its number: the *)
(* number is offset / limit and need not be whole, because the page size   *)
(* may change under an offset.  The server is external: it answers a query *)
(* with the page that was asked for and some total.                        *)
(***************************************************************************)
EXTENDS Integers, Lists

CONSTANTS
    Texts,        \* what may be typed into the search box, "" included
    Columns,      \* the columns with a sort handle
    Statuses,     \* the options of the status filter, "" is none
    Limits,       \* the page sizes offered
    Totals,       \* how many users may match a query
    Width,        \* page items shown at most: odd and at least 5
    MaxRequests,  \* bound: requests for the list after the first
    MaxOffset,    \* bound: offsets the buttons lead to
    NoQuery       \* in place of the query, for the request for the inbounds

VARIABLES
    mounted,   \* the page has issued its first requests
    filters,   \* filters of DashboardContext
    box,       \* the text in the search box
    pending,   \* the text the debounced setSearchField will apply
    loading,   \* loading of DashboardContext
    flight,    \* requests on their way, oldest first
    list,      \* users of DashboardContext: the query answered and the total
    current,   \* whether the newest request for the list was answered, and
               \* no answer overtook another on the way there
    requests   \* how many requests for the list there have been since

vars == <<mounted, filters, box, pending, loading, flight, list, current, requests>>

More   == -1       \* an ellipsis among the page items
NoText == "none"
Blank  == ""         \* an empty search box, no filter

NewestFirst == [by |-> "created_at", down |-> TRUE]
Sorts   == [by : {"created_at"} \cup Columns, down : BOOLEAN]
Queries == [search : Texts, sort : Sorts, status : Statuses, limit : Limits, offset : Int]

(***************************************************************************)
(* Requests.                                                               *)
(***************************************************************************)
\* Asking for the list with the filters given; a list that is asked for again
\* is not current until the answer is there.
FetchUsers(query) ==
    /\ requests < MaxRequests
    /\ requests' = requests + 1
    /\ loading' = TRUE
    /\ flight' = Append(flight, query)
    /\ current' = IF flight # << >> /\ current = "overtaken" THEN current ELSE "waiting"

\* Mutant: the list is asked for before the filters are set.
OnFilterChangeLate(change) ==
    /\ filters' = change
    /\ FetchUsers(filters)

OnFilterChange(change) ==
    /\ filters' = change
    /\ FetchUsers(filters')

Mount ==
    /\ ~mounted
    /\ mounted' = TRUE
    /\ loading' = TRUE
    /\ flight' = <<filters, NoQuery>>
    /\ UNCHANGED <<filters, box, pending, list, current, requests>>

\* Every request ends the spinner, the one for the inbounds too.
Settled(ok) == loading' = FALSE

Answer(i) ==
    LET query == flight[i]
    IN  /\ IF query = NoQuery
           THEN UNCHANGED <<list, current>>
           ELSE /\ \E total \in Totals : list' = [of |-> query, total |-> total]
                /\ current' = IF i # 1 \/ current = "overtaken" THEN "overtaken"
                              ELSE IF \A j \in 2 .. Len(flight) : flight[j] = NoQuery THEN "yes"
                              ELSE "waiting"
        /\ flight' = RemoveAt(flight, i)
        /\ Settled(TRUE)
        /\ UNCHANGED <<mounted, filters, box, pending, requests>>

Failure(i) ==
    /\ flight' = RemoveAt(flight, i)
    /\ Settled(FALSE)
    /\ current' = IF i # 1 /\ flight[i] # NoQuery THEN "overtaken" ELSE current
    /\ UNCHANGED <<mounted, filters, box, pending, list, requests>>

Refresh ==
    /\ mounted /\ ~loading
    /\ FetchUsers(filters)
    /\ UNCHANGED <<mounted, filters, box, pending, list>>

(***************************************************************************)
(* Search, sorting and the status filter.                                  *)
(***************************************************************************)
Type(text) ==
    /\ mounted
    /\ text # box
    /\ box' = text
    /\ pending' = text
    /\ UNCHANGED <<mounted, filters, loading, flight, list, current, requests>>

SetSearchField ==
    /\ pending # NoText
    /\ OnFilterChange([filters EXCEPT !.offset = 0, !.search = pending])
    /\ pending' = NoText
    /\ UNCHANGED <<mounted, box, list>>

\* The button is there while a search is applied; a pending one stays pending.
Clear ==
    /\ filters.search # Blank
    /\ box' = Blank
    /\ OnFilterChange([filters EXCEPT !.offset = 0, !.search = Blank])
    /\ UNCHANGED <<mounted, pending, list>>

\* Ascending, descending, back to the newest first; the offset stays.
HandleSort(column) ==
    LET next == IF filters.sort.by # column THEN [by |-> column, down |-> FALSE]
                ELSE IF filters.sort.down THEN NewestFirst ELSE [by |-> column, down |-> TRUE]
    IN  /\ mounted
        /\ OnFilterChange([filters EXCEPT !.sort = next])
        /\ UNCHANGED <<mounted, box, pending, list>>

\* The select is bound to the sorting, so that it always shows the empty option:
\* to choose that one is no change, and a filter stays.
HandleStatusFilter(status) ==
    /\ mounted
    /\ status # Blank
    /\ OnFilterChange([filters EXCEPT !.status = status])
    /\ UNCHANGED <<mounted, box, pending, list>>

(***************************************************************************)
(* Pagination.                                                             *)
(***************************************************************************)
Larger(a, b)  == IF a > b THEN a ELSE b
Smaller(a, b) == IF a < b THEN a ELSE b

NoPages(total, limit) == (total + limit - 1) \div limit

\* Mutant: the window is not held back at the last page.
FirstItemLoose(pages, at, limit) == Larger(0, at - (Width \div 2) * limit)

\* generatePageItems in offsets: at most Width items around the current one, the
\* outermost replaced by the first and the last page and an ellipsis.
FirstItem(pages, at, limit) ==
    Larger(0, Smaller((pages - Width) * limit, at - (Width \div 2) * limit))

GeneratePageItems(pages, at, limit) ==
    LET left    == FirstItem(pages, at, limit)
        final   == (pages - 1) * limit
        item(i) == (i - 1) * limit + left
    IN  IF pages < Width
        THEN [i \in 1 .. pages |-> (i - 1) * limit]
        ELSE [i \in 1 .. Width |->
                 CASE i = 1 /\ left > 0                      -> 0
                   [] i = 2 /\ left > 0                      -> More
                   [] i = Width /\ item(Width) < final       -> final
                   [] i = Width - 1 /\ item(Width) < final   -> More
                   [] OTHER                                  -> item(i)]

Pages     == NoPages(list.total, filters.limit)
PageItems == GeneratePageItems(Pages, filters.offset, filters.limit)

CanGoBack == ~(filters.offset = 0 \/ Pages = 0)
CanGoNext == ~(filters.offset + filters.limit = Pages * filters.limit \/ Pages = 0)

Targets ==
    {PageItems[i] : i \in {j \in DOMAIN PageItems : PageItems[j] # More}}
    \cup {filters.offset - filters.limit : x \in {y \in {0} : CanGoBack}}
    \cup {filters.offset + filters.limit : x \in {y \in {0} : CanGoNext}}

ChangePage(offset) ==
    /\ mounted
    /\ offset \in Targets
    /\ offset \in -MaxOffset .. MaxOffset
    /\ OnFilterChange([filters EXCEPT !.offset = offset])
    /\ UNCHANGED <<mounted, box, pending, list>>

\* The offset stays, whatever page size it was a multiple of.
HandlePageSizeChange(limit) ==
    /\ mounted
    /\ limit # filters.limit
    /\ OnFilterChange([filters EXCEPT !.limit = limit])
    /\ UNCHANGED <<mounted, box, pending, list>>

--------------------------------------------------------------------------------
Parameters ==
    /\ Blank \in Texts /\ NoText \notin Texts
    /\ Blank \in Statuses
    /\ NoQuery \notin Queries
    /\ Limits \subseteq Nat \ {0}
    /\ Totals \subseteq Nat
    /\ MaxOffset \in Nat
    /\ Width \in Nat /\ Width >= 5 /\ Width % 2 = 1

Init ==
    /\ mounted = FALSE
    /\ filters \in [search : {Blank}, sort : {NewestFirst}, status : {Blank},
                    limit : Limits, offset : {0}]
    /\ box = Blank
    /\ pending = NoText
    /\ loading = TRUE
    /\ flight = << >>
    /\ list = [of |-> NoQuery, total |-> 0]
    /\ current = "waiting"
    /\ requests = 0

Next ==
    \/ Mount \/ Refresh \/ SetSearchField \/ Clear
    \/ \E i \in DOMAIN flight : Answer(i) \/ Failure(i)
    \/ \E text \in Texts : Type(text)
    \/ \E column \in Columns : HandleSort(column)
    \/ \E status \in Statuses : HandleStatusFilter(status)
    \/ \E offset \in Targets : ChangePage(offset)
    \/ \E limit \in Limits : HandlePageSizeChange(limit)

Spec == Init /\ [][Next]_vars

--------------------------------------------------------------------------------
TypeOK ==
    /\ mounted \in BOOLEAN
    /\ filters \in Queries
    /\ box \in Texts
    /\ pending \in Texts \cup {NoText}
    /\ loading \in BOOLEAN
    /\ flight \in Seq(Queries \cup {NoQuery})
    /\ list \in [of : Queries \cup {NoQuery}, total : Totals \cup {0}]
    /\ current \in {"waiting", "overtaken", "yes"}
    /\ requests \in Nat

\* Once the newest request is answered and nothing overtook it, the table shows
\* what the filters ask for, whatever was typed, sorted and paged meanwhile.
ListAnswersFilters == current = "yes" => list.of = filters

Aligned == filters.offset % filters.limit = 0 /\ filters.offset \in 0 .. list.total - 1

\* "Always include first and last page", "around current page": the page items
\* ascend from the first to the last page, one of them is the current page, and from
\* a page of the list every button leads to a page of the list.
PagerLeadsEverywhere ==
    Aligned =>
        LET shown == {i \in DOMAIN PageItems : PageItems[i] # More}
        IN  /\ PageItems[1] = 0
            /\ PageItems[Len(PageItems)] = (Pages - 1) * filters.limit
            /\ \E i \in shown : PageItems[i] = filters.offset
            /\ \A i, j \in shown : i < j => PageItems[i] < PageItems[j]
            /\ \A offset \in Targets : offset \in 0 .. list.total - 1
================================================================================
