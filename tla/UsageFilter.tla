------------------------------ MODULE UsageFilter ------------------------------
(***************************************************************************)
(* The choice of a period above a chart of usage, in the dialog of a user  *)
(* and in the one of the nodes: a row of radio buttons, a popup with more  *)
(* of them, and a calendar on which two clicks make a range.  The parent   *)
(* remembers the choice and asks for the chart, the choice itself lives as *)
(* long as it is on the screen.                                            *)
(***************************************************************************)
EXTENDS Integers, Lists

CONSTANTS
    FilterOptions,   \* the radio buttons in the row
    CustomOptions,   \* those of the popup
    Default,         \* "1m"
    Dates,           \* days of the calendar
    MaxRequests      \* bound: charts asked for

VARIABLES
    showing,         \* the dialog is open
    usageVisible,    \* the chart is shown in it
    usageFilter,     \* the choice the parent remembers
    radio,           \* the radio button that is checked
    customOpen, tabIndex, startDate, endDate,
    chart, flight,   \* the period of the chart, those that were asked for
    requests,
    renewed,         \* the user was replaced since the last choice
    smooth           \* no answer overtook another or is missing

parentVars == <<showing, usageVisible, usageFilter>>
popupVars  == <<customOpen, tabIndex, startDate, endDate>>
vars == <<parentVars, popupVars, radio, chart, flight, requests, renewed, smooth>>

Nothing == 0
Custom  == "custom"
Options == FilterOptions \cup CustomOptions

\* Days are numbered from 1, the default is one of the radio buttons.
Parameters == Default \in FilterOptions /\ Dates \subseteq Nat \ {Nothing}

Period(filter, start, end) == [filter |-> filter, start |-> start, end |-> end]

FetchUsageWithFilter(period) ==
    /\ requests < MaxRequests
    /\ requests' = requests + 1
    /\ flight' = Append(flight, period)

Answer(i) ==
    /\ chart' = flight[i]
    /\ flight' = RemoveAt(flight, i)
    /\ smooth' = (smooth /\ i = 1)
    /\ UNCHANGED <<parentVars, popupVars, radio, requests, renewed>>

\* Nobody hears of a failure.
Failure(i) ==
    /\ flight' = RemoveAt(flight, i)
    /\ smooth' = FALSE
    /\ UNCHANGED <<parentVars, popupVars, radio, chart, requests, renewed>>

(***************************************************************************)
(* The parent.                                                             *)
(***************************************************************************)
\* The choice on the screen starts from what the parent remembers.
Mounted ==
    /\ radio' = usageFilter
    /\ customOpen' = FALSE /\ tabIndex' = 0
    /\ startDate' = Nothing /\ endDate' = Nothing

Open ==
    /\ ~showing
    /\ showing' = TRUE
    /\ Mounted
    /\ FetchUsageWithFilter(Period(Default, Nothing, Nothing))
    /\ UNCHANGED <<usageVisible, usageFilter, chart, renewed, smooth>>

\* A revocation that is confirmed puts another object in the place of the user: the
\* dialog asks for the default period, the choice on the screen hears nothing of it.
EditingUserReplaced ==
    /\ showing
    /\ FetchUsageWithFilter(Period(Default, Nothing, Nothing))
    /\ renewed' = TRUE
    /\ UNCHANGED <<parentVars, popupVars, radio, chart, smooth>>

\* Mutant: the choice is remembered.
OnCloseOnly ==
    /\ showing
    /\ showing' = FALSE
    /\ usageVisible' = FALSE
    /\ renewed' = FALSE
    /\ UNCHANGED <<usageFilter, popupVars, radio, chart, flight, requests, smooth>>

OnClose ==
    /\ showing
    /\ showing' = FALSE
    /\ usageVisible' = FALSE
    /\ usageFilter' = Default
    /\ renewed' = FALSE
    /\ UNCHANGED <<popupVars, radio, chart, flight, requests, smooth>>

\* The button of the dialog of a user; the dialog of the nodes shows it always.
ToggleUsage ==
    /\ showing
    /\ usageVisible' = ~usageVisible
    /\ Mounted
    /\ UNCHANGED <<showing, usageFilter, chart, flight, requests, renewed, smooth>>

OnChange(filter, period) ==
    /\ usageFilter' = filter
    /\ FetchUsageWithFilter(period)
    /\ renewed' = FALSE
    /\ UNCHANGED <<showing, usageVisible, chart, smooth>>

(***************************************************************************)
(* The choice.                                                             *)
(***************************************************************************)
OnScreen == showing /\ usageVisible

\* A radio button that is checked already does nothing.
Choose(value) ==
    /\ OnScreen
    /\ \/ value \in FilterOptions /\ tabIndex = 0
       \/ value \in CustomOptions /\ tabIndex = 0 /\ customOpen
    /\ value # radio
    /\ radio' = value
    /\ customOpen' = FALSE
    /\ OnChange(value, Period(value, Nothing, Nothing))
    /\ UNCHANGED <<tabIndex, startDate, endDate>>

\* Over the relative tab the box starts a new range, over the absolute one it
\* shows the range there is.
OpenCustom ==
    /\ OnScreen /\ ~customOpen
    /\ customOpen' = TRUE
    /\ IF tabIndex = 0 THEN startDate' = Nothing /\ endDate' = Nothing
                       ELSE UNCHANGED <<startDate, endDate>>
    /\ UNCHANGED <<parentVars, tabIndex, radio, chart, flight, requests, renewed,
                   smooth>>

CloseCustom ==
    /\ OnScreen /\ customOpen
    /\ customOpen' = FALSE
    /\ UNCHANGED <<parentVars, tabIndex, startDate, endDate, radio, chart, flight, requests,
                   renewed, smooth>>

SetTabIndex ==
    /\ OnScreen /\ customOpen
    /\ tabIndex' = 1 - tabIndex
    /\ UNCHANGED <<parentVars, customOpen, startDate, endDate, radio, chart, flight, requests,
                   renewed, smooth>>

\* What the calendar makes of a click: a day before the start starts anew.
Picked(day) ==
    IF startDate # Nothing /\ endDate = Nothing /\ day >= startDate
    THEN [start |-> startDate, end |-> day]
    ELSE [start |-> day, end |-> Nothing]

\* A click after the range was complete clears it.
NextDates(day) ==
    IF endDate # Nothing /\ Picked(day).end = Nothing
    THEN startDate' = Nothing /\ endDate' = Nothing
    ELSE startDate' = Picked(day).start /\ endDate' = Picked(day).end

OnDateChange(day) ==
    /\ OnScreen /\ customOpen /\ tabIndex = 1
    /\ NextDates(day)
    /\ IF Picked(day).end # Nothing
       THEN /\ customOpen' = FALSE
            /\ OnChange(Custom, Period(Custom, startDate', endDate'))
       ELSE UNCHANGED <<parentVars, customOpen, chart, flight, requests, renewed, smooth>>
    /\ UNCHANGED <<tabIndex, radio>>

--------------------------------------------------------------------------------
Init ==
    /\ showing = FALSE /\ usageVisible = FALSE /\ usageFilter = Default
    /\ radio = Default
    /\ customOpen = FALSE /\ tabIndex = 0 /\ startDate = Nothing /\ endDate = Nothing
    /\ chart = Period(Default, Nothing, Nothing)
    /\ flight = << >> /\ requests = 0 /\ renewed = FALSE /\ smooth = TRUE

Next ==
    \/ Open \/ OnClose \/ EditingUserReplaced
    \/ ToggleUsage \/ OpenCustom \/ CloseCustom \/ SetTabIndex
    \/ \E i \in DOMAIN flight : Answer(i) \/ Failure(i)
    \/ \E value \in Options : Choose(value)
    \/ \E day \in Dates : OnDateChange(day)

Spec == Init /\ [][Next]_vars

--------------------------------------------------------------------------------
Periods == [filter : Options \cup {Custom}, start : Dates \cup {Nothing}, end : Dates \cup {Nothing}]

TypeOK ==
    /\ {showing, usageVisible, customOpen, renewed, smooth} \subseteq BOOLEAN
    /\ {usageFilter, radio} \subseteq Options \cup {Custom}
    /\ tabIndex \in {0, 1} /\ requests \in Nat
    /\ {startDate, endDate} \subseteq Dates \cup {Nothing}
    /\ chart \in Periods /\ flight \in Seq(Periods)

\* However the clicks on the calendar fall, no range is shown or asked for that ends
\* before it starts.  With no answer overtaken or missing the chart is of the period
\* chosen last, whether the choice was hidden or the dialog closed in between, and a
\* radio button that was chosen is the one that is checked.  A confirmed revocation
\* breaks the agreement: from then to the next choice the chart is of the default
\* period, whatever is checked.
ChartAnswersFilter ==
    /\ endDate # Nothing => startDate # Nothing /\ startDate <= endDate
    /\ \A i \in DOMAIN flight : flight[i].start <= flight[i].end
    /\ smooth /\ OnScreen /\ flight = << >> =>
           /\ chart.filter = IF renewed THEN Default ELSE usageFilter
           /\ usageFilter # Custom => radio = usageFilter
================================================================================
