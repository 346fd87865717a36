---------------------------- MODULE Dashboard_proofs ----------------------------
(***************************************************************************)
(* Proofs about the tools of the dashboard, for any values of their        *)
(* constants.  Each tool is proved correct by itself; the dashboard takes  *)
(* no steps but those of the tools.                                        *)
(***************************************************************************)
EXTENDS Dashboard, SequenceTheorems, TLAPS

(***************************************************************************)
(* Sequences.                                                              *)
(***************************************************************************)
\* What RemoveAt of Lists is.
Without(s, i) == SubSeq(s, 1, i - 1) \o SubSeq(s, i + 1, Len(s))

\* What a sequence holds.
LEMMA ElementIn == ASSUME NEW S, NEW s \in Seq(S), NEW i \in DOMAIN s PROVE s[i] \in S
  BY LenProperties

\* The sequence without one of its elements: those behind it move up.
LEMMA Removal ==
    ASSUME NEW S, NEW s \in Seq(S), NEW i \in DOMAIN s
    PROVE  /\ Without(s, i) \in Seq(S)
           /\ Len(Without(s, i)) = Len(s) - 1
           /\ \A k \in 1 .. Len(s) - 1 : Without(s, i)[k] = IF k < i THEN s[k] ELSE s[k + 1]
  <1> DEFINE before == SubSeq(s, 1, i - 1)
             after == SubSeq(s, i + 1, Len(s))
  <1>1. i \in 1 .. Len(s) /\ Len(s) \in Nat /\ \A k \in 1 .. Len(s) : s[k] \in S
    BY LenProperties
  <1>2. /\ before \in Seq(S) /\ Len(before) = i - 1
        /\ \A k \in 1 .. i - 1 : before[k] = s[k]
    BY <1>1, SubSeqProperties
  <1>3. /\ after \in Seq(S) /\ Len(after) = Len(s) - i
        /\ \A k \in 1 .. Len(s) - i : after[k] = s[i + k]
    BY <1>1, SubSeqProperties
  <1>4. Without(s, i) = before \o after
    BY DEF Without
  <1> HIDE DEF before, after
  <1>5. /\ before \o after \in Seq(S)
        /\ Len(before \o after) = Len(before) + Len(after)
        /\ \A k \in 1 .. Len(before) + Len(after) :
              (before \o after)[k] = IF k <= Len(before) THEN before[k] ELSE after[k - Len(before)]
    BY <1>2, <1>3, ConcatProperties
  <1>6. ASSUME NEW k \in 1 .. Len(s) - 1
        PROVE  (before \o after)[k] = IF k < i THEN s[k] ELSE s[k + 1]
    <2>1. /\ i \in Int /\ k \in Int /\ k \in 1 .. Len(before) + Len(after)
          /\ Len(before) = i - 1
      BY <1>1, <1>2, <1>3
    <2>2. (before \o after)[k] = IF k <= i - 1 THEN before[k] ELSE after[k - (i - 1)]
      BY <1>5, <2>1
    <2>3. CASE k < i
      BY <1>2, <2>1, <2>2, <2>3
    <2>4. CASE ~(k < i)
      <3>1. k - (i - 1) \in 1 .. Len(s) - i /\ i + (k - (i - 1)) = k + 1 /\ ~(k <= i - 1)
        BY <1>1, <2>1, <2>4
      <3>2. after[k - (i - 1)] = s[i + (k - (i - 1))]
        BY <1>3, <3>1
      <3> QED
        BY <2>2, <2>4, <3>1, <3>2
    <2> QED
      BY <2>3, <2>4
  <1>7. Len(before) + Len(after) = Len(s) - 1
    BY <1>1, <1>2, <1>3
  <1>8. before \o after \in Seq(S) /\ Len(before \o after) = Len(s) - 1
    BY <1>5, <1>7
  <1> QED
    BY <1>4, <1>6, <1>8

--------------------------------------------------------------------------------
(***************************************************************************)
(* ShareLinks.                                                             *)
(***************************************************************************)
LEMMA DashboardOfLinks == DashboardSpec => Sh!Spec
  <1>1. DashboardInit => Sh!Init
    BY DEF DashboardInit
  <1>2. [DashboardNext]_dashboardVars => [Sh!Next]_(Sh!vars)
    BY DEF DashboardNext, dashboardVars, linkVars, Sh!vars, Others, AtUsersPage,
           AtUserDialog, AtUserForm, AtHostsDialog, AtNodesDialog, AtCoreSettings,
           AtCoreLogs, AtUsageFilter, AtSession, AtShareLinks
  <1> QED
    BY <1>1, <1>2, PTL DEF DashboardSpec, Sh!Spec

\* The slider stays at a link.
LEMMA TurnIsLink ==
    ASSUME NEW n \in Nat \ {0}, NEW k \in Nat, NEW step \in {1, n - 1}
    PROVE  (k + step) % n \in Nat /\ (k + step) % n < n
  OBVIOUS

LinksInv == Sh!TypeOK /\ Sh!TickGoes /\ Sh!CounterIsOfOpenUser

LEMMA LinksHold == Sh!Spec => []LinksInv
  <1> USE DashboardAssumption DEF LinksInv, Sh!Parameters, Sh!TypeOK, Sh!TickGoes,
          Sh!CounterIsOfOpenUser, Sh!LinkedUsers, Sh!Null, Sh!Buttons
  <1>1. Sh!Init => LinksInv
    BY DEF Sh!Init
  <1>2. LinksInv /\ [Sh!Next]_(Sh!vars) => LinksInv'
    <2> SUFFICES ASSUME LinksInv, [Sh!Next]_(Sh!vars) PROVE LinksInv'
      OBVIOUS
    <2>1. CASE Sh!TimerFires \/ Sh!OnClose
      BY <2>1 DEF Sh!TimerFires, Sh!OnClose
    <2>2. ASSUME NEW button \in Sh!Buttons, Sh!Copy(button) PROVE LinksInv'
      BY <2>2 DEF Sh!Copy
    <2>3. ASSUME NEW u \in Sh!LinkedUsers, Sh!ShowQRCode(u) PROVE LinksInv'
      <3>1. Links[u] \in Nat \ {0}
        OBVIOUS
      <3> QED
        BY <2>3, <3>1 DEF Sh!ShowQRCode
    <2>4. ASSUME QRcodeLinks # Sh!Null, NEW step \in {1, Links[QRcodeLinks] - 1},
                 Sh!AfterChange(step)
          PROVE  LinksInv'
      <3>1. Links[QRcodeLinks] \in Nat \ {0}
        BY <2>4
      <3>2. index' \in Nat /\ index' < Links[QRcodeLinks]
        BY <2>4, <3>1, TurnIsLink DEF Sh!AfterChange
      <3> QED
        BY <2>4, <3>2 DEF Sh!AfterChange
    <2>5. CASE UNCHANGED Sh!vars
      BY <2>5 DEF Sh!vars
    <2> QED
      BY <2>1, <2>2, <2>3, <2>4, <2>5 DEF Sh!Next
  <1> QED
    BY <1>1, <1>2, PTL DEF Sh!Spec

\* ActionButtons: a tick goes away, however the timers of the two buttons overlap.
THEOREM DashboardTickGoes == DashboardSpec => []TickGoes
  <1>1. LinksInv => TickGoes
    BY DEF LinksInv, TickGoes
  <1> QED
    BY <1>1, DashboardOfLinks, LinksHold, PTL

\* QRCodeDialog: whoever was shown before, the counter under the codes is of a link of
\* the user who is shown, and the subscription beside them is that user's.
THEOREM DashboardCounterIsOfOpenUser == DashboardSpec => []CounterIsOfOpenUser
  <1>1. LinksInv => CounterIsOfOpenUser
    BY DEF LinksInv, CounterIsOfOpenUser
  <1> QED
    BY <1>1, DashboardOfLinks, LinksHold, PTL

--------------------------------------------------------------------------------
(***************************************************************************)
(* UsageFilter.                                                            *)
(***************************************************************************)
LEMMA DashboardOfUsage == DashboardSpec => Us!Spec
  <1>1. DashboardInit => Us!Init
    BY DEF DashboardInit
  <1>2. [DashboardNext]_dashboardVars => [Us!Next]_(Us!vars)
    BY DEF DashboardNext, dashboardVars, usageVars, Us!vars, Us!parentVars, Us!popupVars,
           Others, AtUsersPage, AtUserDialog, AtUserForm, AtHostsDialog, AtNodesDialog,
           AtCoreSettings, AtCoreLogs, AtUsageFilter, AtSession, AtShareLinks
  <1> QED
    BY <1>1, <1>2, PTL DEF DashboardSpec, Us!Spec

\* The range on the calendar, and those that were asked for, end after they start.
RangesRun ==
    /\ endDate # Us!Nothing => startDate # Us!Nothing /\ startDate <= endDate
    /\ \A i \in DOMAIN usageFlight : usageFlight[i].start <= usageFlight[i].end

\* The choice as the chart will have it, once everything is answered in order.
Newest == IF usageFlight = << >> THEN usageChart ELSE usageFlight[Len(usageFlight)]

\* The dialog closes with the default choice; while it is open the newest request is
\* for the choice, unless the user was replaced since, and the radio button follows.
ChoiceIsAsked ==
    /\ ~showing => usageFilter = Default /\ ~renewed
    /\ showing /\ usageSmooth => Newest.filter = IF renewed THEN Default ELSE usageFilter
    /\ showing /\ usageFilter # Us!Custom => radio = usageFilter

UsageInv == Us!TypeOK /\ RangesRun /\ ChoiceIsAsked

\* A request is for a period, and the newest from then on.
LEMMA AskingForPeriod ==
    ASSUME UsageInv, NEW period \in Us!Periods, period.start <= period.end,
           Us!FetchUsageWithFilter(period)
    PROVE  /\ usageFlight' \in Seq(Us!Periods) /\ usageRequests' \in Nat
           /\ \A i \in DOMAIN usageFlight' : usageFlight'[i].start <= usageFlight'[i].end
           /\ usageFlight' # << >> /\ usageFlight'[Len(usageFlight')] = period
  <1> USE DEF UsageInv, Us!TypeOK, RangesRun, Us!FetchUsageWithFilter
  <1>1. /\ usageFlight' = Append(usageFlight, period)
        /\ usageFlight \in Seq(Us!Periods) /\ usageRequests' \in Nat
    OBVIOUS
  <1>2. /\ usageFlight' \in Seq(Us!Periods)
        /\ Len(usageFlight') = Len(usageFlight) + 1
        /\ \A i \in 1 .. Len(usageFlight) : usageFlight'[i] = usageFlight[i]
        /\ usageFlight'[Len(usageFlight) + 1] = period
    BY <1>1, AppendProperties
  <1>3. DOMAIN usageFlight = 1 .. Len(usageFlight) /\ Len(usageFlight) \in Nat
        /\ DOMAIN usageFlight' = 1 .. Len(usageFlight) + 1
    BY <1>1, <1>2, LenProperties
  <1>4. usageFlight' # << >>
    BY <1>2, <1>3, EmptySeq
  <1>5. ASSUME NEW i \in DOMAIN usageFlight'
        PROVE  usageFlight'[i].start <= usageFlight'[i].end
    <2>1. CASE i \in DOMAIN usageFlight
      BY <1>2, <1>3, <2>1
    <2>2. CASE i = Len(usageFlight) + 1
      BY <1>2, <2>2
    <2> QED
      BY <1>3, <2>1, <2>2
  <1> QED
    BY <1>1, <1>2, <1>4, <1>5

\* What is on its way shrinks by one, and keeps its last element or was the last itself.
LEMMA UsageRemoved ==
    ASSUME UsageInv, NEW i \in DOMAIN usageFlight, usageFlight' = Us!RemoveAt(usageFlight, i)
    PROVE  /\ usageFlight' \in Seq(Us!Periods)
           /\ \A k \in DOMAIN usageFlight' : usageFlight'[k].start <= usageFlight'[k].end
           /\ i = 1 => IF usageFlight' = << >>
                       THEN usageFlight[1] = usageFlight[Len(usageFlight)]
                       ELSE usageFlight'[Len(usageFlight')] = usageFlight[Len(usageFlight)]
  <1> USE DEF UsageInv, Us!TypeOK, RangesRun
  <1>1. usageFlight' = Without(usageFlight, i) /\ usageFlight \in Seq(Us!Periods)
    BY DEF Without, Us!RemoveAt
  <1>2. /\ usageFlight' \in Seq(Us!Periods) /\ Len(usageFlight') = Len(usageFlight) - 1
        /\ \A k \in 1 .. Len(usageFlight) - 1 :
              usageFlight'[k] = IF k < i THEN usageFlight[k] ELSE usageFlight[k + 1]
    BY <1>1, Removal
  <1>3. /\ DOMAIN usageFlight = 1 .. Len(usageFlight) /\ Len(usageFlight) \in Nat
        /\ DOMAIN usageFlight' = 1 .. Len(usageFlight) - 1
    BY <1>1, <1>2, LenProperties
  <1>4. ASSUME NEW k \in DOMAIN usageFlight' PROVE usageFlight'[k].start <= usageFlight'[k].end
    <2>1. k \in DOMAIN usageFlight /\ k + 1 \in DOMAIN usageFlight
      BY <1>3
    <2>2. usageFlight'[k] \in {usageFlight[k], usageFlight[k + 1]}
      BY <1>2, <1>3
    <2> QED
      BY <2>1, <2>2
  <1>5. CASE usageFlight' = << >>
    <2>1. Len(usageFlight) = 1
      BY <1>2, <1>3, <1>5, EmptySeq
    <2> QED
      BY <1>2, <1>4, <1>5, <2>1
  <1>6. CASE usageFlight' # << >>
    <2>1. Len(usageFlight) - 1 # 0
      BY <1>2, <1>6, EmptySeq
    <2>2. Len(usageFlight) - 1 \in 1 .. Len(usageFlight) - 1
      BY <1>3, <2>1
    <2> QED
      BY <1>2, <1>3, <1>4, <1>6, <2>2
  <1> QED
    BY <1>5, <1>6

LEMMA UsageHolds == Us!Spec => []UsageInv
  <1> USE DashboardAssumption DEF Us!Parameters, Us!Nothing
  <1>1. Us!Init => UsageInv
    <2> SUFFICES ASSUME Us!Init PROVE UsageInv
      OBVIOUS
    <2>1. usageFlight = << >> /\ usageFlight \in Seq(Us!Periods) /\ DOMAIN usageFlight = {}
      BY EmptySeq DEF Us!Init
    <2>2. usageChart \in Us!Periods /\ usageChart.filter = Default
      BY DEF Us!Init, Us!Periods, Us!Period, Us!Options
    <2>3. Default \in Us!Options
      BY DEF Us!Options
    <2> QED
      BY <2>1, <2>2, <2>3 DEF UsageInv, Us!TypeOK, RangesRun, ChoiceIsAsked, Newest, Us!Init
  <1>2. UsageInv /\ [Us!Next]_(Us!vars) => UsageInv'
    <2> SUFFICES ASSUME UsageInv, [Us!Next]_(Us!vars) PROVE UsageInv'
      OBVIOUS
    <2> USE DEF UsageInv, Us!TypeOK, RangesRun, ChoiceIsAsked
    <2>1. CASE Us!Open
      <3> DEFINE period == Us!Period(Default, 0, 0)
      <3>1. period \in Us!Periods /\ period.start <= period.end /\ period.filter = Default
        BY DEF Us!Period, Us!Periods, Us!Options
      <3>2. Us!FetchUsageWithFilter(period)
        BY <2>1 DEF Us!Open
      <3> HIDE DEF period
      <3>3. /\ usageFlight' \in Seq(Us!Periods) /\ usageRequests' \in Nat
            /\ \A i \in DOMAIN usageFlight' : usageFlight'[i].start <= usageFlight'[i].end
            /\ Newest'.filter = Default
        BY <3>1, <3>2, AskingForPeriod DEF Newest
      <3>4. usageFilter = Default /\ UNCHANGED <<usageVisible, usageFilter, usageChart, renewed, usageSmooth>>
        BY <2>1 DEF Us!Open
      <3>5. /\ radio' = usageFilter /\ customOpen' = FALSE /\ tabIndex' = 0
            /\ startDate' = 0 /\ endDate' = 0 /\ showing' = TRUE
        BY <2>1 DEF Us!Open, Us!Mounted
      <3> QED
        BY <3>3, <3>4, <3>5
    <2>2. CASE Us!OnClose
      <3>1. Default \in Us!Options
        BY DEF Us!Options
      <3> QED
        BY <2>2, <3>1 DEF Us!OnClose, Us!popupVars, Newest
    <2>3. CASE Us!ToggleUsage
      BY <2>3 DEF Us!ToggleUsage, Us!Mounted, Newest
    <2>4. CASE Us!OpenCustom \/ Us!CloseCustom \/ Us!SetTabIndex
      <3>1. UNCHANGED <<Us!parentVars, radio, usageChart, usageFlight, usageRequests,
                        renewed, usageSmooth>>
        BY <2>4 DEF Us!OpenCustom, Us!CloseCustom, Us!SetTabIndex
      <3>2. UNCHANGED <<startDate, endDate>> \/ (startDate' = 0 /\ endDate' = 0)
        BY <2>4 DEF Us!OpenCustom, Us!CloseCustom, Us!SetTabIndex
      <3>3. customOpen' \in BOOLEAN
        BY <2>4 DEF Us!OpenCustom, Us!CloseCustom, Us!SetTabIndex
      <3>4. tabIndex' \in {0, 1}
        BY <2>4 DEF Us!OpenCustom, Us!CloseCustom, Us!SetTabIndex
      <3>5. customOpen' \in BOOLEAN /\ tabIndex' \in {0, 1}
        BY <3>3, <3>4
      <3>6. Us!TypeOK' /\ RangesRun'
        BY <3>1, <3>2, <3>5 DEF Us!parentVars
      <3>7. ChoiceIsAsked'
        BY <3>1 DEF Us!parentVars, Newest
      <3> QED
        BY <3>6, <3>7
    <2>5. ASSUME NEW i \in DOMAIN usageFlight, Us!Answer(i) PROVE UsageInv'
      <3>1. /\ usageChart' = usageFlight[i] /\ usageFlight' = Us!RemoveAt(usageFlight, i)
            /\ usageSmooth' = (usageSmooth /\ i = 1)
            /\ UNCHANGED <<showing, usageVisible, usageFilter, customOpen, tabIndex,
                           startDate, endDate, radio, usageRequests, renewed>>
        BY <2>5 DEF Us!Answer, Us!parentVars, Us!popupVars
      <3>2. usageChart' \in Us!Periods
        BY <3>1, LenProperties
      <3>3. usageFlight # << >> /\ usageSmooth' \in BOOLEAN
        BY <3>1, EmptySeq
      <3>4. usageSmooth' => Newest' = Newest
        BY <3>1, <3>3, UsageRemoved DEF Newest
      <3> QED
        BY <3>1, <3>2, <3>3, <3>4, UsageRemoved
    <2>6. ASSUME NEW i \in DOMAIN usageFlight, Us!Failure(i) PROVE UsageInv'
      <3>1. /\ usageFlight' = Us!RemoveAt(usageFlight, i) /\ usageSmooth' = FALSE
            /\ UNCHANGED <<showing, usageVisible, usageFilter, customOpen, tabIndex,
                           startDate, endDate, radio, usageChart, usageRequests, renewed>>
        BY <2>6 DEF Us!Failure, Us!parentVars, Us!popupVars
      <3> QED
        BY <3>1, UsageRemoved
    <2>7. ASSUME NEW value \in Us!Options, Us!Choose(value) PROVE UsageInv'
      <3> DEFINE period == Us!Period(value, 0, 0)
      <3>1. period \in Us!Periods /\ period.start <= period.end /\ period.filter = value
        BY DEF Us!Period, Us!Periods
      <3>2. Us!FetchUsageWithFilter(period)
        BY <2>7 DEF Us!Choose, Us!OnChange
      <3> HIDE DEF period
      <3>3. /\ usageFlight' \in Seq(Us!Periods) /\ usageRequests' \in Nat
            /\ \A i \in DOMAIN usageFlight' : usageFlight'[i].start <= usageFlight'[i].end
            /\ Newest'.filter = value
        BY <3>1, <3>2, AskingForPeriod DEF Newest
      <3>4. /\ showing /\ radio' = value /\ usageFilter' = value /\ customOpen' = FALSE
            /\ renewed' = FALSE
            /\ UNCHANGED <<showing, usageVisible, usageChart, usageSmooth, tabIndex,
                           startDate, endDate>>
        BY <2>7 DEF Us!Choose, Us!OnChange, Us!OnScreen
      <3> QED
        BY <3>3, <3>4
    <2>8. ASSUME NEW day \in Dates, Us!OnDateChange(day) PROVE UsageInv'
      <3>1. /\ {startDate', endDate'} \subseteq Dates \cup {0}
            /\ endDate' # 0 => startDate' # 0 /\ startDate' <= endDate'
            /\ Us!Picked(day).end # 0 => endDate' # 0
        BY <2>8 DEF Us!OnDateChange, Us!NextDates, Us!Picked
      <3>2. UNCHANGED <<tabIndex, radio>> /\ showing
        BY <2>8 DEF Us!OnDateChange, Us!OnScreen
      <3>3. CASE Us!Picked(day).end # 0
        <4> DEFINE period == Us!Period(Us!Custom, startDate', endDate')
        <4>1. /\ period \in Us!Periods /\ period.start <= period.end
              /\ period.filter = Us!Custom
          BY <3>1, <3>3 DEF Us!Period, Us!Periods
        <4>2. /\ Us!FetchUsageWithFilter(period) /\ usageFilter' = Us!Custom
              /\ customOpen' = FALSE /\ renewed' = FALSE
              /\ UNCHANGED <<showing, usageVisible, usageChart, usageSmooth>>
          BY <2>8, <3>3 DEF Us!OnDateChange, Us!OnChange
        <4> HIDE DEF period
        <4>3. /\ usageFlight' \in Seq(Us!Periods) /\ usageRequests' \in Nat
              /\ \A i \in DOMAIN usageFlight' : usageFlight'[i].start <= usageFlight'[i].end
              /\ Newest'.filter = Us!Custom
          BY <4>1, <4>2, AskingForPeriod DEF Newest
        <4> QED
          BY <3>1, <3>2, <4>2, <4>3
      <3>4. CASE Us!Picked(day).end = 0
        <4>1. UNCHANGED <<showing, usageVisible, usageFilter, customOpen, usageChart,
                          usageFlight, usageRequests, renewed, usageSmooth>>
          BY <2>8, <3>4 DEF Us!OnDateChange, Us!parentVars
        <4> QED
          BY <3>1, <3>2, <4>1 DEF Newest
      <3> QED
        BY <3>3, <3>4
    <2>9. CASE UNCHANGED Us!vars
      BY <2>9 DEF Us!vars, Us!parentVars, Us!popupVars, Newest
    <2>10. CASE Us!EditingUserReplaced
      <3> DEFINE period == Us!Period(Default, 0, 0)
      <3>1. period \in Us!Periods /\ period.start <= period.end /\ period.filter = Default
        BY DEF Us!Period, Us!Periods, Us!Options
      <3>2. Us!FetchUsageWithFilter(period)
        BY <2>10 DEF Us!EditingUserReplaced
      <3> HIDE DEF period
      <3>3. /\ usageFlight' \in Seq(Us!Periods) /\ usageRequests' \in Nat
            /\ \A i \in DOMAIN usageFlight' : usageFlight'[i].start <= usageFlight'[i].end
            /\ Newest'.filter = Default
        BY <3>1, <3>2, AskingForPeriod DEF Newest
      <3>4. /\ showing /\ renewed' = TRUE
            /\ UNCHANGED <<showing, usageVisible, usageFilter, customOpen, tabIndex,
                           startDate, endDate, radio, usageChart, usageSmooth>>
        BY <2>10 DEF Us!EditingUserReplaced, Us!parentVars, Us!popupVars
      <3> QED
        BY <3>3, <3>4
    <2> QED
      BY <2>1, <2>2, <2>3, <2>4, <2>5, <2>6, <2>7, <2>8, <2>9, <2>10 DEF Us!Next
  <1> QED
    BY <1>1, <1>2, PTL DEF Us!Spec

\* UsageFilter, fetchUsageWithFilter: no range ends before it starts, and once every
\* answer has come in order the chart on the screen is of the period chosen last, or of
\* the default one if a revocation replaced the user since.
THEOREM DashboardChartAnswersFilter == DashboardSpec => []ChartAnswersFilter
  <1>1. UsageInv => ChartAnswersFilter
    BY DEF UsageInv, RangesRun, ChoiceIsAsked, Newest, ChartAnswersFilter,
           Us!ChartAnswersFilter, Us!OnScreen
  <1> QED
    BY <1>1, DashboardOfUsage, UsageHolds, PTL

--------------------------------------------------------------------------------
(***************************************************************************)
(* Session.                                                                *)
(***************************************************************************)
LEMMA DashboardOfSession == DashboardSpec => Se!Spec
  <1>1. DashboardInit => Se!Init
    BY DEF DashboardInit
  <1>2. [DashboardNext]_dashboardVars => [Se!Next]_(Se!vars)
    BY DEF DashboardNext, dashboardVars, sessionVars, Se!vars, Others, AtUsersPage,
           AtUserDialog, AtUserForm, AtHostsDialog, AtNodesDialog, AtCoreSettings,
           AtCoreLogs, AtUsageFilter, AtSession, AtShareLinks
  <1> QED
    BY <1>1, <1>2, PTL DEF DashboardSpec, Se!Spec

\* A login that was answered or has failed is no longer on its way.
LEMMA LoginRemoved ==
    ASSUME logins \in Seq(Admins), NEW i \in DOMAIN logins
    PROVE  /\ Se!RemoveAt(logins, i) \in Seq(Admins)
           /\ Len(Se!RemoveAt(logins, i)) = Len(logins) - 1
  BY Removal DEF Without, Se!RemoveAt

\* The variables are what they are said to be.
LEMMA SessionTyped == Se!Spec => []Se!TypeOK
  <1> USE DEF Se!TypeOK, Se!Requests
  <1>1. Se!Init => Se!TypeOK
    <2> SUFFICES ASSUME Se!Init PROVE Se!TypeOK
      OBVIOUS
    <2>1. logins \in Seq(Admins)
      BY EmptySeq DEF Se!Init
    <2> QED
      BY <2>1 DEF Se!Init
  <1>2. Se!TypeOK /\ [Se!Next]_(Se!vars) => Se!TypeOK'
    <2> SUFFICES ASSUME Se!TypeOK, [Se!Next]_(Se!vars) PROVE Se!TypeOK'
      OBVIOUS
    <2>1. ASSUME NEW admin \in Admins, Se!Login(admin) PROVE Se!TypeOK'
      <3>1. logins' \in Seq(Admins) /\ events' \in Nat
        BY <2>1, AppendProperties DEF Se!Login, Se!Happens
      <3>2. patient' \in BOOLEAN /\ sessionLoading' \in BOOLEAN
        BY <2>1 DEF Se!Login
      <3> QED
        BY <2>1, <3>1, <3>2 DEF Se!Login
    <2>2. ASSUME NEW admin \in Admins, Se!OtherTab(admin) PROVE Se!TypeOK'
      <3>1. events' \in Nat
        BY <2>2 DEF Se!OtherTab, Se!Happens
      <3> QED
        BY <2>2, <3>1 DEF Se!OtherTab
    <2>3. ASSUME NEW i \in DOMAIN logins, Se!LoginAnswered(i) \/ Se!LoginFails(i) PROVE Se!TypeOK'
      <3>1. logins' \in Seq(Admins) /\ logins[i] \in Admins
        BY <2>3, LoginRemoved, LenProperties DEF Se!LoginAnswered, Se!LoginFails
      <3> QED
        BY <2>3, <3>1 DEF Se!LoginAnswered, Se!LoginFails
    <2>4. CASE Se!Navigate \/ Se!LoaderAnswered \/ Se!LoaderFails \/ Se!Logout
      BY <2>4 DEF Se!Navigate, Se!LoaderAnswered, Se!LoaderFails, Se!Logout, Se!MountLogin, Se!MountDashboard
    <2>5. CASE Se!WindowFocus
      <3>1. events' \in Nat
        BY <2>5 DEF Se!WindowFocus, Se!Happens
      <3> QED
        BY <2>5, <3>1 DEF Se!WindowFocus
    <2>6. CASE Se!QueryAnswered \/ Se!QueryFails
      BY <2>6 DEF Se!QueryAnswered, Se!QueryFails
    <2>7. CASE UNCHANGED Se!vars
      BY <2>7 DEF Se!vars
    <2> QED
      BY <2>1, <2>2, <2>3, <2>4, <2>5, <2>6, <2>7 DEF Se!Next
  <1> QED
    BY <1>1, <1>2, PTL DEF Se!Spec

(***************************************************************************)
(* With one tab and an administrator who waits: the loader carries the     *)
(* token, a login is waited for on the login page, the query is sent from  *)
(* the dashboard with the token of that visit.                             *)
(***************************************************************************)
LoaderHasToken == alone /\ loader # "none" => loader = token

LoginWaits ==
    patient /\ logins # << >> =>
        page = "login" /\ loader = "none" /\ sessionLoading /\ Len(logins) = 1

DashboardIsLoaded ==
    /\ patient /\ page = "dashboard" => loader = "none"
    /\ patient /\ page # "dashboard" => query = "none"
    /\ page = "blank" => loader # "none"

QueryHasToken ==
    alone /\ patient /\ page = "dashboard" =>
        IF query = "none" THEN isSuccess => user = token ELSE query = token

Waiting ==
    LoaderHasToken /\ LoginWaits /\ DashboardIsLoaded /\ QueryHasToken /\ Se!LoggedOutIsOut

LEMMA WaitingHolds == Se!Spec => []Waiting
  <1> USE DashboardAssumption DEF Se!Parameters
  <1>1. Se!Init => Waiting
    BY DEF Se!Init, Se!Parameters, Waiting, LoaderHasToken, LoginWaits, DashboardIsLoaded,
           QueryHasToken, Se!LoggedOutIsOut
  <1>2. Se!TypeOK /\ Waiting /\ [Se!Next]_(Se!vars) => Waiting'
    <2> SUFFICES ASSUME Se!TypeOK, Waiting, [Se!Next]_(Se!vars) PROVE Waiting'
      OBVIOUS
    <2> USE DEF Waiting, LoaderHasToken, LoginWaits, DashboardIsLoaded, QueryHasToken,
                Se!LoggedOutIsOut, Se!TypeOK, Se!Requests, Se!Parameters
    <2>1. ASSUME NEW admin \in Admins, Se!Login(admin) PROVE Waiting'
      BY <2>1 DEF Se!Login
    <2>2. ASSUME NEW admin \in Admins, Se!OtherTab(admin) PROVE Waiting'
      BY <2>2 DEF Se!OtherTab
    <2>3. ASSUME NEW i \in DOMAIN logins, Se!LoginAnswered(i) \/ Se!LoginFails(i) PROVE Waiting'
      <3>1. /\ logins' \in Seq(Admins) /\ Len(logins') = Len(logins) - 1
            /\ logins # << >> /\ logins[i] \in Admins
        BY <2>3, LoginRemoved, LenProperties, EmptySeq DEF Se!LoginAnswered, Se!LoginFails
      <3>2. patient => Len(logins') = 0
        BY <3>1
      <3>3. patient => logins' = << >>
        BY <3>1, <3>2, EmptySeq
      <3> QED
        BY <2>3, <3>1, <3>3 DEF Se!LoginAnswered, Se!LoginFails
    <2>4. CASE Se!Navigate
      BY <2>4 DEF Se!Navigate
    <2>5. CASE Se!LoaderAnswered
      BY <2>5 DEF Se!LoaderAnswered, Se!MountDashboard
    <2>6. CASE Se!LoaderFails
      BY <2>6 DEF Se!LoaderFails, Se!MountLogin
    <2>7. CASE Se!Logout
      BY <2>7 DEF Se!Logout, Se!MountLogin
    <2>8. CASE Se!WindowFocus
      BY <2>8 DEF Se!WindowFocus
    <2>9. CASE Se!QueryAnswered \/ Se!QueryFails
      BY <2>9 DEF Se!QueryAnswered, Se!QueryFails
    <2>10. CASE UNCHANGED Se!vars
      BY <2>10 DEF Se!vars
    <2> QED
      BY <2>1, <2>2, <2>3, <2>4, <2>5, <2>6, <2>7, <2>8, <2>9, <2>10 DEF Se!Next
  <1> QED
    BY <1>1, <1>2, SessionTyped, PTL DEF Se!Spec

\* Login removes the token when it is mounted, however the page was reached, and the
\* router shows the dashboard only to a token its loader was answered for: with one tab
\* and one login at a time nobody is half logged out.
THEOREM DashboardLoggedOutIsOut == DashboardSpec => []LoggedOutIsOut
  <1>1. Waiting => LoggedOutIsOut
    BY DEF Waiting, LoggedOutIsOut
  <1> QED
    BY <1>1, DashboardOfSession, WaitingHolds, PTL

\* The query of useGetUser is cached over a change of accounts.  Whoever waits for it
\* before logging out is never offered the menu of a sudo administrator without being one.
THEOREM DashboardMenuIsOfAdmin == DashboardSpec => []MenuIsOfAdmin
  <1>1. Waiting => MenuIsOfAdmin
    BY DEF Waiting, QueryHasToken, MenuIsOfAdmin, Se!MenuIsOfAdmin, Se!IsSudo
  <1> QED
    BY <1>1, DashboardOfSession, WaitingHolds, PTL

--------------------------------------------------------------------------------
(***************************************************************************)
(* CoreLogs.                                                               *)
(***************************************************************************)
LEMMA DashboardOfLogs == DashboardSpec => Lo!Spec
  <1>1. DashboardInit => Lo!Init
    BY DEF DashboardInit
  <1>2. [DashboardNext]_dashboardVars => [Lo!Next]_(Lo!vars)
    BY DEF DashboardNext, dashboardVars, logVars, Lo!vars, Others, AtUsersPage,
           AtUserDialog, AtUserForm, AtHostsDialog, AtNodesDialog, AtCoreSettings,
           AtCoreLogs, AtUsageFilter, AtSession, AtShareLinks
  <1> QED
    BY <1>1, <1>2, PTL DEF DashboardSpec, Lo!Spec

\* Lines of the present opening, each once and in the order they came.
IsStream(s) ==
    /\ \A i \in DOMAIN s : s[i].opened = logOpens /\ s[i].number <= lines
    /\ \A i, j \in DOMAIN s : i < j => s[i].number < s[j].number

\* The buffer is empty while the dialog is closed; while it is open the buffer, what
\* the debounced function was called with and the pane are of this opening.
StreamsKept ==
    IF logOpen THEN IsStream(logsTmp) /\ IsStream(logPending) /\ IsStream(logs)
            ELSE logsTmp = << >>

LogInv == Lo!TypeOK /\ StreamsKept

LEMMA EmptyIsStream == IsStream(<< >>) /\ IsStream(<< >>)'
  BY EmptySeq DEF IsStream

\* The buffer with one line more, the oldest lines of it when it is too long.
LEMMA MessageIsStream ==
    ASSUME Lo!TypeOK, IsStream(logsTmp), Lo!OnMessage
    PROVE  /\ logsTmp' \in Seq(Lo!Line) /\ IsStream(logsTmp)'
  <1> DEFINE line == [number |-> lines + 1, node |-> selectedNode, opened |-> logOpens]
             longer == Append(logsTmp, line)
  <1>1. /\ lines' = lines + 1 /\ lines \in Nat /\ logOpens' = logOpens
        /\ logsTmp' = Lo!Cut(longer)
    BY DEF Lo!OnMessage, Lo!TypeOK
  <1>2. line \in Lo!Line /\ logsTmp \in Seq(Lo!Line)
    BY DEF Lo!TypeOK, Lo!Line
  <1>3. /\ longer \in Seq(Lo!Line) /\ Len(longer) = Len(logsTmp) + 1
        /\ \A i \in 1 .. Len(logsTmp) : longer[i] = logsTmp[i]
        /\ longer[Len(logsTmp) + 1] = line
    BY <1>2, AppendProperties
  <1>4. /\ Len(logsTmp) \in Nat /\ DOMAIN logsTmp = 1 .. Len(logsTmp)
        /\ DOMAIN longer = 1 .. Len(logsTmp) + 1
    BY <1>2, <1>3, LenProperties
  <1>5. \A i \in DOMAIN logsTmp : /\ logsTmp[i].opened = logOpens
                                  /\ logsTmp[i].number <= lines /\ logsTmp[i].number \in Nat
    <2>1. \A i \in DOMAIN logsTmp : logsTmp[i] \in Lo!Line
      BY <1>2, ElementIn
    <2> QED
      BY <2>1 DEF IsStream, Lo!Line
  <1>6. line.number = lines + 1 /\ line.opened = logOpens
    OBVIOUS
  <1> HIDE DEF line, longer
  <1>7. \A i \in DOMAIN longer : longer[i].opened = logOpens /\ longer[i].number <= lines + 1
    <2> TAKE i \in DOMAIN longer
    <2>1. CASE i \in DOMAIN logsTmp
      BY <1>1, <1>3, <1>4, <1>5, <2>1
    <2>2. CASE i = Len(logsTmp) + 1
      BY <1>1, <1>3, <1>6, <2>2
    <2> QED
      BY <1>4, <2>1, <2>2
  <1>8. \A i, j \in DOMAIN longer : i < j => longer[i].number < longer[j].number
    <2> SUFFICES ASSUME NEW i \in DOMAIN longer, NEW j \in DOMAIN longer, i < j
                 PROVE  longer[i].number < longer[j].number
      OBVIOUS
    <2>1. i \in DOMAIN logsTmp /\ longer[i] = logsTmp[i]
      BY <1>3, <1>4
    <2>2. CASE j \in DOMAIN logsTmp
      BY <1>3, <1>4, <2>1, <2>2 DEF IsStream
    <2>3. CASE j = Len(logsTmp) + 1
      BY <1>1, <1>3, <1>5, <1>6, <2>1, <2>3
    <2> QED
      BY <1>4, <2>2, <2>3
  <1>9. CASE ~(Len(longer) > MaxNumberOfLogs)
    <2>1. logsTmp' = longer
      BY <1>1, <1>9 DEF Lo!Cut
    <2> QED
      BY <1>1, <1>3, <1>7, <1>8, <2>1 DEF IsStream
  <1>10. CASE Len(longer) > MaxNumberOfLogs
    <2> DEFINE n == Len(longer) - MaxNumberOfLogs
    <2>1. logsTmp' = SubSeq(longer, 1, n)
      BY <1>1, <1>10 DEF Lo!Cut
    <2>2. n \in Nat /\ n <= Len(longer)
      BY <1>3, <1>4, <1>10, DashboardAssumption DEF Lo!Parameters
    <2> HIDE DEF n
    <2>3. /\ logsTmp' \in Seq(Lo!Line) /\ Len(logsTmp') = n
          /\ \A i \in 1 .. n : logsTmp'[i] = longer[i]
      BY <1>3, <1>4, <2>1, <2>2, SubSeqProperties
    <2>4. DOMAIN logsTmp' = 1 .. n /\ 1 .. n \subseteq DOMAIN longer
      BY <1>3, <1>4, <2>2, <2>3, LenProperties
    <2> QED
      BY <1>1, <1>7, <1>8, <2>3, <2>4 DEF IsStream
  <1> QED
    BY <1>9, <1>10

LEMMA LogsHold == Lo!Spec => []LogInv
  <1>1. Lo!Init => LogInv
    <2> SUFFICES ASSUME Lo!Init PROVE Lo!TypeOK /\ StreamsKept
      BY DEF LogInv
    <2>1. /\ logOpen = FALSE /\ logOpens = 0 /\ lines = 0 /\ selectedNode = Panel
          /\ logsTmp = << >> /\ logPending = << >> /\ logs = << >>
      BY DEF Lo!Init, Lo!Nothing
    <2>2. << >> \in Seq(Lo!Line)
      BY EmptySeq
    <2>3. Lo!TypeOK
      BY <2>1, <2>2 DEF Lo!TypeOK
    <2> QED
      BY <2>1, <2>3 DEF StreamsKept
  <1>2. LogInv /\ [Lo!Next]_(Lo!vars) => LogInv'
    <2> SUFFICES ASSUME LogInv, [Lo!Next]_(Lo!vars) PROVE LogInv'
      OBVIOUS
    <2> USE DEF LogInv, StreamsKept
    <2>1. CASE Lo!OnEditingCore
      <3>1. /\ logOpen' = TRUE /\ logsTmp' = << >> /\ logPending' = << >> /\ logs' = << >>
            /\ UNCHANGED lines /\ logOpens' = logOpens + 1 /\ selectedNode' = Panel
        BY <2>1 DEF Lo!OnEditingCore, Lo!Nothing
      <3> QED
        BY <3>1, EmptyIsStream, EmptySeq DEF Lo!TypeOK, IsStream
    <2>2. CASE Lo!Unmount
      BY <2>2, EmptySeq DEF Lo!Unmount, Lo!TypeOK
    <2>3. ASSUME NEW node \in Nodes \cup {Panel}, Lo!HandleLog(node) PROVE LogInv'
      <3>1. /\ logOpen /\ logs' = << >> /\ selectedNode' = node
            /\ UNCHANGED <<logOpen, logOpens, logsTmp, logPending, lines>>
        BY <2>3 DEF Lo!HandleLog
      <3> QED
        BY <3>1, EmptyIsStream, EmptySeq DEF Lo!TypeOK, IsStream
    <2>4. CASE Lo!OnMessage
      <3>1. /\ logOpen /\ logPending' = logsTmp' /\ lines' = lines + 1
            /\ UNCHANGED <<logOpen, logOpens, selectedNode, logs>>
        BY <2>4 DEF Lo!OnMessage
      <3>2. logsTmp' \in Seq(Lo!Line) /\ IsStream(logsTmp)'
        BY <2>4, <3>1, MessageIsStream
      <3>3. IsStream(logs)'
        <4>1. \A i \in DOMAIN logs : logs[i].number \in Nat
          <5>1. \A i \in DOMAIN logs : logs[i] \in Lo!Line
            BY ElementIn DEF Lo!TypeOK
          <5> QED
            BY <5>1 DEF Lo!Line
        <4> QED
          BY <3>1, <4>1 DEF IsStream, Lo!TypeOK
      <3> QED
        BY <3>1, <3>2, <3>3 DEF Lo!TypeOK, IsStream
    <2>5. CASE Lo!UpdateLogs
      <3>1. /\ logOpen /\ logPending' = << >> /\ logs' \in {logPending, logs}
            /\ UNCHANGED <<logOpen, logOpens, selectedNode, logsTmp, lines>>
        BY <2>5 DEF Lo!UpdateLogs, Lo!Nothing
      <3> QED
        BY <3>1, EmptyIsStream, EmptySeq DEF Lo!TypeOK, IsStream
    <2>6. CASE UNCHANGED Lo!vars
      BY <2>6 DEF Lo!vars, Lo!TypeOK, IsStream
    <2> QED
      BY <2>1, <2>2, <2>3, <2>4, <2>5, <2>6 DEF Lo!Next
  <1> QED
    BY <1>1, <1>2, PTL DEF Lo!Spec

\* CoreSettingsModal, updateLogs: the buffer outlives the dialog and is cut in the middle
\* of a stream; still the pane shows lines of this opening, each once and in order.
THEOREM DashboardPaneIsOfThisOpening == DashboardSpec => []PaneIsOfThisOpening
  <1>1. LogInv => PaneIsOfThisOpening
    BY DEF LogInv, StreamsKept, IsStream, PaneIsOfThisOpening, Lo!PaneIsOfThisOpening
  <1> QED
    BY <1>1, DashboardOfLogs, LogsHold, PTL

--------------------------------------------------------------------------------
(***************************************************************************)
(* UsersPage.                                                              *)
(***************************************************************************)
LEMMA DashboardOfPage == DashboardSpec => Pg!Spec
  <1>1. DashboardInit => Pg!Init
    BY DEF DashboardInit
  <1>2. [DashboardNext]_dashboardVars => [Pg!Next]_(Pg!vars)
    BY DEF DashboardNext, dashboardVars, pageVars, Pg!vars, Others, AtUsersPage,
           AtUserDialog, AtUserForm, AtHostsDialog, AtNodesDialog, AtCoreSettings,
           AtCoreLogs, AtUsageFilter, AtSession, AtShareLinks
  <1> QED
    BY <1>1, <1>2, PTL DEF DashboardSpec, Pg!Spec

\* Unless answers overtook each other, the last query on its way is the filters.
EndsAtFilters(s, f) ==
    \A k \in DOMAIN s :
        s[k] # NoQuery /\ (\A j \in DOMAIN s : j > k => s[j] = NoQuery) => s[k] = f

PageInv ==
    /\ Pg!TypeOK
    /\ Pg!ListAnswersFilters
    /\ current # "overtaken" => EndsAtFilters(pageFlight, filters)

Asks == Pg!Queries \cup {NoQuery}

\* A request for the list asks for the filters, whatever is on its way.
LEMMA AskingForList ==
    ASSUME PageInv, filters' \in Pg!Queries, Pg!FetchUsers(filters'),
           UNCHANGED <<mounted, list>>, box' \in Texts, pagePending' \in Texts \cup {Pg!NoText}
    PROVE  PageInv'
  <1> USE DEF PageInv, Pg!TypeOK, Asks
  <1>1. /\ pageFlight' = Append(pageFlight, filters') /\ pageFlight \in Seq(Asks)
        /\ filters' \in Asks
    BY DEF Pg!FetchUsers
  <1>2. /\ pageFlight' \in Seq(Asks) /\ Len(pageFlight') = Len(pageFlight) + 1
        /\ pageFlight'[Len(pageFlight) + 1] = filters'
    BY <1>1, AppendProperties
  <1>3. /\ Len(pageFlight) \in Nat /\ DOMAIN pageFlight' = 1 .. Len(pageFlight) + 1
        /\ DOMAIN pageFlight = 1 .. Len(pageFlight)
    BY <1>1, <1>2, LenProperties
  <1>4. /\ pageLoading' = TRUE /\ pageRequests' \in Nat
        /\ current' \in {"waiting", "overtaken"}
    BY DEF Pg!FetchUsers
  <1>5. Pg!TypeOK' /\ Pg!ListAnswersFilters'
    BY <1>2, <1>4 DEF Pg!ListAnswersFilters
  <1>6. filters' # NoQuery => EndsAtFilters(pageFlight', filters')
    <2> SUFFICES ASSUME filters' # NoQuery, NEW k \in DOMAIN pageFlight',
                        \A j \in DOMAIN pageFlight' : j > k => pageFlight'[j] = NoQuery
                 PROVE  pageFlight'[k] = filters'
      BY DEF EndsAtFilters
    <2>1. k = Len(pageFlight) + 1
      BY <1>2, <1>3
    <2> QED
      BY <1>2, <2>1
  <1>7. filters' # NoQuery
    BY DashboardAssumption DEF Pg!Parameters
  <1> QED
    BY <1>5, <1>6, <1>7

\* Without its oldest request, or the one for the inbounds, what is on its way still
\* ends at the filters.
LEMMA PageRemoved ==
    ASSUME NEW s \in Seq(Asks), NEW f, NEW i \in DOMAIN s, EndsAtFilters(s, f),
           i = 1 \/ s[i] = NoQuery
    PROVE  EndsAtFilters(Without(s, i), f)
  <1> DEFINE t == Without(s, i)
  <1>1. /\ t \in Seq(Asks) /\ Len(t) = Len(s) - 1
        /\ \A k \in 1 .. Len(s) - 1 : t[k] = IF k < i THEN s[k] ELSE s[k + 1]
    BY Removal
  <1>2. DOMAIN s = 1 .. Len(s) /\ Len(s) \in Nat /\ DOMAIN t = 1 .. Len(s) - 1
    BY <1>1, LenProperties
  <1> HIDE DEF t
  <1>3. ASSUME NEW k \in DOMAIN t, t[k] # NoQuery, \A j \in DOMAIN t : j > k => t[j] = NoQuery
        PROVE  t[k] = f
    <2> DEFINE m == IF k < i THEN k ELSE k + 1
    <2>1. m \in DOMAIN s /\ t[k] = s[m]
      BY <1>1, <1>2, <1>3
    <2>2. ASSUME NEW j \in DOMAIN s, j > m PROVE s[j] = NoQuery
      <3>1. CASE j = i
        BY <1>2, <2>2, <3>1
      <3>2. CASE j < i
        <4>1. j \in DOMAIN t /\ j > k /\ t[j] = s[j]
          BY <1>1, <1>2, <2>2, <3>2
        <4> QED
          BY <1>3, <4>1
      <3>3. CASE j > i
        <4>1. j - 1 \in DOMAIN t /\ ~(j - 1 < i) /\ (j - 1) + 1 = j /\ j - 1 > k
          BY <1>2, <2>2, <3>3
        <4>2. t[j - 1] = s[j]
          BY <1>1, <1>2, <4>1
        <4> QED
          BY <1>3, <4>1, <4>2
      <3> QED
        BY <1>2, <3>1, <3>2, <3>3
    <2> QED
      BY <1>3, <2>1, <2>2 DEF EndsAtFilters
  <1> QED
    BY <1>3 DEF t, EndsAtFilters

\* A search starts at the first page.
LEMMA FirstPage ==
    ASSUME filters \in Pg!Queries
    PROVE  [filters EXCEPT !.offset = 0] \in Pg!Queries
  BY DEF Pg!Queries

LEMMA PageHolds == Pg!Spec => []PageInv
  <1> USE DashboardAssumption DEF Pg!Parameters
  <1>1. Pg!Init => PageInv
    <2> SUFFICES ASSUME Pg!Init PROVE PageInv
      OBVIOUS
    <2>1. pageFlight \in Seq(Asks) /\ DOMAIN pageFlight = {}
      BY EmptySeq DEF Pg!Init
    <2>2. Pg!NewestFirst \in Pg!Sorts
      BY DEF Pg!Sorts, Pg!NewestFirst
    <2>3. filters \in Pg!Queries
      BY <2>2 DEF Pg!Init, Pg!Queries
    <2> QED
      BY <2>1, <2>3 DEF PageInv, Pg!TypeOK, Pg!ListAnswersFilters, EndsAtFilters, Asks,
                        Pg!Init
  <1>2. PageInv /\ [Pg!Next]_(Pg!vars) => PageInv'
    <2> SUFFICES ASSUME PageInv, [Pg!Next]_(Pg!vars) PROVE PageInv'
      OBVIOUS
    <2>f. /\ filters \in Pg!Queries /\ 0 \in Int /\ box \in Texts
          /\ pagePending \in Texts \cup {Pg!NoText}
      BY DEF PageInv, Pg!TypeOK
    <2>s. ASSUME NEW i \in DOMAIN pageFlight
          PROVE  /\ pageFlight \in Seq(Asks) /\ pageFlight[i] \in Asks
                 /\ i \in Int /\ DOMAIN pageFlight = 1 .. Len(pageFlight)
                 /\ Len(pageFlight) \in Nat
                 /\ Pg!RemoveAt(pageFlight, i) = Without(pageFlight, i)
                 /\ Without(pageFlight, i) \in Seq(Asks)
      BY LenProperties, Removal DEF PageInv, Pg!TypeOK, Asks, Without, Pg!RemoveAt
    <2>1. CASE Pg!Mount
      <3>1. pageFlight' = <<filters, NoQuery>> /\ pageFlight' \in Seq(Asks)
        <4>1. filters \in Asks /\ NoQuery \in Asks
          BY <2>f DEF Asks
        <4> QED
          BY <2>1, <4>1 DEF Pg!Mount
      <3>2. EndsAtFilters(pageFlight', filters')
        BY <2>1, <3>1 DEF EndsAtFilters, Pg!Mount
      <3> QED
        BY <2>1, <3>1, <3>2 DEF Pg!Mount, PageInv, Pg!TypeOK, Pg!ListAnswersFilters, Asks
    <2>2. CASE Pg!Refresh
      <3>1. filters' \in Pg!Queries /\ Pg!FetchUsers(filters')
        BY <2>2, <2>f DEF Pg!Refresh
      <3> QED
        BY <2>2, <2>f, <3>1, AskingForList DEF Pg!Refresh
    <2>3. CASE Pg!SetSearchField
      <3>1. pagePending \in Texts
        BY <2>3, <2>f DEF Pg!SetSearchField
      <3>2. filters' \in Pg!Queries /\ Pg!FetchUsers(filters')
        <4> DEFINE first == [filters EXCEPT !.offset = 0]
        <4>1. first \in Pg!Queries
          BY <2>f, FirstPage
        <4>2. filters' = [first EXCEPT !.search = pagePending] /\ Pg!FetchUsers(filters')
          BY <2>3 DEF Pg!SetSearchField, Pg!OnFilterChange
        <4> HIDE DEF first
        <4> QED
          BY <2>f, <3>1, <4>1, <4>2 DEF Pg!Queries
      <3> QED
        BY <2>3, <2>f, <3>2, AskingForList DEF Pg!SetSearchField
    <2>4. CASE Pg!Clear
      <3>1. filters' \in Pg!Queries /\ Pg!FetchUsers(filters')
        <4> DEFINE first == [filters EXCEPT !.offset = 0]
        <4>1. first \in Pg!Queries
          BY <2>f, FirstPage
        <4>2. filters' = [first EXCEPT !.search = Pg!Blank] /\ Pg!FetchUsers(filters')
          BY <2>4 DEF Pg!Clear, Pg!OnFilterChange
        <4> HIDE DEF first
        <4> QED
          BY <2>f, <4>1, <4>2 DEF Pg!Queries
      <3> QED
        BY <2>4, <2>f, <3>1, AskingForList DEF Pg!Clear
    <2>5. ASSUME NEW i \in DOMAIN pageFlight, Pg!Answer(i) PROVE PageInv'
      <3>1. /\ pageFlight' = Without(pageFlight, i) /\ pageFlight' \in Seq(Asks)
            /\ pageLoading' = FALSE
            /\ UNCHANGED <<mounted, filters, box, pagePending, pageRequests>>
        BY <2>5, <2>s DEF Pg!Answer, Pg!Settled
      <3>2. CASE pageFlight[i] = NoQuery
        <4>1. UNCHANGED <<list, current>>
          BY <2>5, <3>2 DEF Pg!Answer
        <4>2. current # "overtaken" => EndsAtFilters(pageFlight', filters)
          BY <2>s, <3>1, <3>2, PageRemoved DEF PageInv
        <4> QED
          BY <3>1, <4>1, <4>2 DEF PageInv, Pg!TypeOK, Pg!ListAnswersFilters, Asks
      <3>3. CASE pageFlight[i] # NoQuery
        <4>1. /\ list' \in [of : {pageFlight[i]}, total : Totals]
              /\ current' = IF i # 1 \/ current = "overtaken" THEN "overtaken"
                            ELSE IF \A j \in 2 .. Len(pageFlight) : pageFlight[j] = NoQuery
                            THEN "yes" ELSE "waiting"
          BY <2>5, <3>3 DEF Pg!Answer
        <4>2. list'.of = pageFlight[i] /\ list' \in [of : Asks, total : Totals \cup {0}]
          BY <2>s, <4>1
        <4>3. CASE current' = "overtaken"
          BY <3>1, <4>2, <4>3 DEF PageInv, Pg!TypeOK, Pg!ListAnswersFilters, Asks
        <4>4. CASE current' # "overtaken"
          <5>1. i = 1 /\ EndsAtFilters(pageFlight, filters)
            BY <4>1, <4>4 DEF PageInv
          <5>2. EndsAtFilters(pageFlight', filters)
            BY <2>s, <3>1, <5>1, PageRemoved
          <5>3. current' = "yes" => pageFlight[1] = filters
            BY <2>s, <3>3, <4>1, <5>1 DEF EndsAtFilters
          <5> QED
            BY <3>1, <4>1, <4>2, <5>1, <5>2, <5>3
            DEF PageInv, Pg!TypeOK, Pg!ListAnswersFilters, Asks
        <4> QED
          BY <4>3, <4>4
      <3> QED
        BY <3>2, <3>3
    <2>6. ASSUME NEW i \in DOMAIN pageFlight, Pg!Failure(i) PROVE PageInv'
      <3>1. /\ pageFlight' = Without(pageFlight, i) /\ pageFlight' \in Seq(Asks)
            /\ pageLoading' = FALSE
            /\ UNCHANGED <<mounted, filters, box, pagePending, list, pageRequests>>
            /\ current' = IF i # 1 /\ pageFlight[i] # NoQuery THEN "overtaken" ELSE current
        BY <2>6, <2>s DEF Pg!Failure, Pg!Settled
      <3>2. current' # "overtaken" => EndsAtFilters(pageFlight', filters)
        BY <2>s, <3>1, PageRemoved DEF PageInv
      <3> QED
        BY <3>1, <3>2 DEF PageInv, Pg!TypeOK, Pg!ListAnswersFilters, Asks
    <2>7. ASSUME NEW text \in Texts, Pg!Type(text) PROVE PageInv'
      BY <2>7 DEF Pg!Type, PageInv, Pg!TypeOK, Pg!ListAnswersFilters
    <2>8. ASSUME NEW column \in Columns, Pg!HandleSort(column) PROVE PageInv'
      <3> DEFINE next == IF filters.sort.by # column THEN [by |-> column, down |-> FALSE]
                         ELSE IF filters.sort.down THEN Pg!NewestFirst
                         ELSE [by |-> column, down |-> TRUE]
      <3>1. next \in Pg!Sorts
        BY DEF Pg!NewestFirst, Pg!Sorts
      <3>2. filters' = [filters EXCEPT !.sort = next] /\ Pg!FetchUsers(filters')
        BY <2>8 DEF Pg!HandleSort, Pg!OnFilterChange
      <3> HIDE DEF next
      <3>3. filters' \in Pg!Queries /\ Pg!FetchUsers(filters')
        BY <2>f, <3>1, <3>2 DEF Pg!Queries
      <3> QED
        BY <2>8, <2>f, <3>3, AskingForList DEF Pg!HandleSort
    <2>9. ASSUME NEW status \in PageStatuses, Pg!HandleStatusFilter(status) PROVE PageInv'
      <3>1. filters' = [filters EXCEPT !.status = status] /\ Pg!FetchUsers(filters')
        BY <2>9 DEF Pg!HandleStatusFilter, Pg!OnFilterChange
      <3>2. filters' \in Pg!Queries
        BY <2>f, <3>1 DEF Pg!Queries
      <3> QED
        BY <2>9, <2>f, <3>1, <3>2, AskingForList DEF Pg!HandleStatusFilter
    <2>10. ASSUME NEW offset \in Pg!Targets, Pg!ChangePage(offset) PROVE PageInv'
      <3>1. offset \in Int
        BY <2>10 DEF Pg!ChangePage
      <3>2. filters' = [filters EXCEPT !.offset = offset] /\ Pg!FetchUsers(filters')
        BY <2>10 DEF Pg!ChangePage, Pg!OnFilterChange
      <3>3. filters' \in Pg!Queries
        BY <2>f, <3>1, <3>2 DEF Pg!Queries
      <3> QED
        BY <2>10, <2>f, <3>2, <3>3, AskingForList DEF Pg!ChangePage
    <2>11. ASSUME NEW limit \in PageLimits, Pg!HandlePageSizeChange(limit) PROVE PageInv'
      <3>1. filters' = [filters EXCEPT !.limit = limit] /\ Pg!FetchUsers(filters')
        BY <2>11 DEF Pg!HandlePageSizeChange, Pg!OnFilterChange
      <3>2. filters' \in Pg!Queries
        BY <2>f, <3>1 DEF Pg!Queries
      <3> QED
        BY <2>11, <2>f, <3>1, <3>2, AskingForList DEF Pg!HandlePageSizeChange
    <2>12. CASE UNCHANGED Pg!vars
      BY <2>12 DEF Pg!vars, PageInv, Pg!TypeOK, Pg!ListAnswersFilters
    <2> QED
      BY <2>1, <2>2, <2>3, <2>4, <2>5, <2>6, <2>7, <2>8, <2>9, <2>10, <2>11, <2>12
      DEF Pg!Next
  <1> QED
    BY <1>1, <1>2, PTL DEF Pg!Spec

\* fetchUsers, onFilterChange: with the newest answer in and none overtaken, the table is
\* what the filters ask for.
THEOREM DashboardListAnswersFilters == DashboardSpec => []ListAnswersFilters
  <1>1. PageInv => ListAnswersFilters
    BY DEF PageInv, ListAnswersFilters
  <1> QED
    BY <1>1, DashboardOfPage, PageHolds, PTL

\* Dividing by the page size.
LEMMA Division ==
    ASSUME NEW m \in Nat, NEW n \in Nat \ {0}
    PROVE  /\ m \div n \in Nat
           /\ (m \div n) * n <= m /\ m < (m \div n) * n + n
           /\ m % n = 0 => m = (m \div n) * n
  OBVIOUS

\* Pages and offsets come in the same order.
LEMMA Scaling ==
    ASSUME NEW n \in Nat \ {0}, NEW a \in Int, NEW b \in Int
    PROVE  /\ a * n \in Int /\ (a + 1) * n = a * n + n /\ (a - 1) * n = a * n - n
           /\ a < b <=> a * n < b * n
           /\ a <= b <=> a * n <= b * n
           /\ a < b => a * n + n <= b * n
           /\ a >= 0 <=> a * n >= 0
  <1>1. a * n \in Int /\ b * n \in Int /\ (a + 1) * n = a * n + n /\ (a - 1) * n = a * n - n
    OBVIOUS
  <1>2. \A d \in Nat : d * n >= 0 /\ (d > 0 => d * n >= n)
    OBVIOUS
  <1>3. \A x, y \in Int : x <= y => y * n = x * n + (y - x) * n
    OBVIOUS
  <1>4. \A x, y \in Int : x <= y => x * n <= y * n
    BY <1>2, <1>3
  <1>5. \A x, y \in Int : x < y => x * n + n <= y * n
    BY <1>2, <1>3
  <1>6. 0 * n = 0
    OBVIOUS
  <1>7. /\ a < b => a * n + n <= b * n
        /\ a <= b => a * n <= b * n
        /\ b < a => b * n + n <= a * n
        /\ b <= a => b * n <= a * n
        /\ a >= 0 => a * n >= 0
        /\ a < 0 => a * n + n <= 0
    BY <1>4, <1>5, <1>6
  <1> QED
    BY <1>1, <1>7

\* Offsets that start a page of the list, and the number of pages.
LEMMA PagesOfList ==
    ASSUME NEW n \in Nat \ {0}, NEW total \in Nat \ {0}
    PROVE  /\ Pg!NoPages(total, n) \in Nat \ {0}
           /\ \A a \in Int : a * n \in 0 .. total - 1 <=> a \in 0 .. Pg!NoPages(total, n) - 1
  <1> DEFINE p == Pg!NoPages(total, n)
  <1>1. p \in Nat /\ p * n <= total + n - 1 /\ total + n - 1 < p * n + n
    <2>1. total + n - 1 \in Nat
      OBVIOUS
    <2>2. p = (total + n - 1) \div n
      BY DEF Pg!NoPages
    <2> QED
      BY <2>1, <2>2, Division
  <1> HIDE DEF p
  <1>2. p * n \in Int /\ (p - 1) * n = p * n - n
    BY <1>1, Scaling
  <1>3. p # 0
    BY <1>1, Scaling
  <1>4. ASSUME NEW a \in Int
        PROVE  a * n \in 0 .. total - 1 <=> a \in 0 .. p - 1
    <2>1. a * n \in Int /\ (a >= 0 <=> a * n >= 0)
      BY Scaling
    <2>2. a <= p - 1 => a * n <= (p - 1) * n
      BY <1>1, Scaling
    <2>3. a >= p => a * n >= p * n
      BY <1>1, Scaling
    <2> QED
      BY <1>1, <1>2, <2>1, <2>2, <2>3
  <1> QED
    BY <1>1, <1>3, <1>4 DEF p

\* The page an item leads to.
PageOfItem(p, l, i) ==
    IF i = 1 THEN 0 ELSE IF i = Width /\ l < p - Width THEN p - 1 ELSE l + i - 1

\* The first page of the window.
FirstShown(p, a) ==
    Pg!Larger(0, Pg!Smaller(p - Width, a - (Width \div 2)))

LEMMA WidthIsOdd ==
    /\ Width \in Nat /\ Width >= 5
    /\ Width \div 2 \in Nat /\ Width = 2 * (Width \div 2) + 1
  BY DashboardAssumption DEF Pg!Parameters

\* generatePageItems counts in offsets; this is what it does in pages.
LEMMA WindowInPages ==
    ASSUME NEW n \in Nat \ {0}, NEW p \in Nat, p >= Width, NEW a \in 0 .. p - 1
    PROVE  /\ FirstShown(p, a) \in 0 .. p - Width
           /\ Pg!FirstItem(p, a * n, n) = FirstShown(p, a) * n
  <1> DEFINE h == Width \div 2
  <1>1. h \in Nat /\ Width \in Nat /\ p \in Int /\ a \in Int
    BY WidthIsOdd
  <1> HIDE DEF h
  <1>2. FirstShown(p, a) = Pg!Larger(0, Pg!Smaller(p - Width, a - h))
    BY DEF FirstShown, h
  <1>3. Pg!FirstItem(p, a * n, n) = Pg!Larger(0, Pg!Smaller((p - Width) * n, a * n - h * n))
    BY DEF Pg!FirstItem, h
  <1>4. a * n - h * n = (a - h) * n
    BY <1>1
  <1>5. /\ (p - Width) * n \in Int /\ (a - h) * n \in Int
        /\ p - Width < a - h <=> (p - Width) * n < (a - h) * n
        /\ a - h >= 0 <=> (a - h) * n >= 0
        /\ p - Width >= 0 <=> (p - Width) * n >= 0
    BY <1>1, Scaling
  <1>6. 0 * n = 0
    OBVIOUS
  <1>7. /\ a - h > 0 => (a - h) * n > 0
        /\ p - Width > 0 => (p - Width) * n > 0
    BY <1>1, Scaling
  <1> QED
    BY <1>1, <1>2, <1>3, <1>4, <1>5, <1>6, <1>7 DEF Pg!Larger, Pg!Smaller

\* The page items lead to pages of the list in ascending order, to the first, the last
\* and the current one.
LeadsThrough(items, p, a, n) ==
    \E q \in [DOMAIN items -> 0 .. p - 1], m \in Nat \ {0} :
        /\ DOMAIN items = 1 .. m
        /\ \A i \in DOMAIN items : items[i] = Pg!More \/ items[i] = q[i] * n
        /\ \A i, j \in DOMAIN items :
              items[i] # Pg!More /\ items[j] # Pg!More /\ i < j => q[i] < q[j]
        /\ items[1] = 0 /\ items[m] = (p - 1) * n
        /\ \E i \in DOMAIN items : items[i] = a * n

LEMMA PageItemsInPages ==
    ASSUME NEW n \in Nat \ {0}, NEW p \in Nat \ {0}, NEW a \in 0 .. p - 1,
           NEW items, items = Pg!GeneratePageItems(p, a * n, n)
    PROVE  LeadsThrough(items, p, a, n)
  <1>1. CASE p < Width
    <2>1. items = [i \in 1 .. p |-> (i - 1) * n]
      BY <1>1 DEF Pg!GeneratePageItems
    <2> DEFINE q == [i \in 1 .. p |-> i - 1]
    <2>2. /\ DOMAIN items = 1 .. p
          /\ \A i \in 1 .. p : items[i] = (i - 1) * n /\ q[i] = i - 1
      BY <2>1
    <2>3. q \in [DOMAIN items -> 0 .. p - 1]
      BY <2>2
    <2>4. \A i, j \in DOMAIN items : i < j => q[i] < q[j]
      <3> SUFFICES ASSUME NEW i \in 1 .. p, NEW j \in 1 .. p, i < j PROVE q[i] < q[j]
        BY <2>2
      <3>1. q[i] = i - 1 /\ q[j] = j - 1
        OBVIOUS
      <3> QED
        BY <3>1
    <2>5. items[1] = 0 /\ items[p] = (p - 1) * n
      <3>1. items[1] = (1 - 1) * n /\ (1 - 1) * n = 0
        BY <2>2
      <3> QED
        BY <2>2, <3>1
    <2>6. a + 1 \in DOMAIN items /\ items[a + 1] = a * n
      <3>1. a + 1 \in 1 .. p /\ (a + 1) - 1 = a
        OBVIOUS
      <3> QED
        BY <2>2, <3>1
    <2>7. \A i \in DOMAIN items : items[i] = q[i] * n
      BY <2>2
    <2> HIDE DEF q
    <2> QED
      BY <2>2, <2>3, <2>4, <2>5, <2>6, <2>7 DEF LeadsThrough
  <1>2. CASE p >= Width
    <2> DEFINE l == FirstShown(p, a)
               h == Width \div 2
               final == (p - 1) * n
               item(i) == (i - 1) * n + l * n
               q == [i \in 1 .. Width |->
                        IF i = 1 THEN 0
                        ELSE IF i = Width THEN p - 1 ELSE l + i - 1]
    <2>1. /\ h \in Nat /\ Width \in Nat /\ Width >= 5 /\ Width = 2 * h + 1
          /\ p \in Int /\ a \in Int /\ n \in Int
      BY WidthIsOdd
    <2>2. l \in 0 .. p - Width /\ Pg!FirstItem(p, a * n, n) = l * n
      BY <1>2, <2>1, WindowInPages
    <2>3. l = Pg!Larger(0, Pg!Smaller(p - Width, a - h))
      BY DEF FirstShown
    <2>4. /\ DOMAIN items = 1 .. Width
          /\ \A i \in 1 .. Width :
                items[i] = CASE i = 1 /\ l * n > 0                   -> 0
                             [] i = 2 /\ l * n > 0                   -> Pg!More
                             [] i = Width /\ item(Width) < final     -> final
                             [] i = Width - 1 /\ item(Width) < final -> Pg!More
                             [] OTHER                                -> item(i)
      <3> DEFINE left == Pg!FirstItem(p, a * n, n)
                 place(i) == (i - 1) * n + left
                 g == [i \in 1 .. Width |->
                         CASE i = 1 /\ left > 0                       -> 0
                           [] i = 2 /\ left > 0                       -> Pg!More
                           [] i = Width /\ place(Width) < final       -> final
                           [] i = Width - 1 /\ place(Width) < final   -> Pg!More
                           [] OTHER                                   -> place(i)]
      <3>1. items = IF p < Width THEN [i \in 1 .. p |-> (i - 1) * n] ELSE g
        BY ZenonT(30) DEF Pg!GeneratePageItems
      <3>2. items = g
        <4> HIDE DEF g
        <4> QED
          BY <1>2, <2>1, <3>1
      <3>3. left = l * n
        BY <2>2
      <3> HIDE DEF left, l, final
      <3> QED
        BY <3>2, <3>3
    <2> HIDE DEF l, h
    <2>5. \A i \in Int : item(i) = (l + i - 1) * n
      BY <2>1, <2>2
    <2>6. /\ l * n > 0 <=> l > 0
          /\ item(Width) < final <=> l < p - Width
      <3>1. 0 * n = 0 /\ (l > 0 <=> l * n > 0 * n)
        BY <2>2, Scaling
      <3>2. item(Width) = (l + Width - 1) * n
        BY <2>1, <2>5
      <3>3. l + Width - 1 \in Int /\ p - 1 \in Int
        BY <2>1, <2>2
      <3>4. l + Width - 1 < p - 1 <=> (l + Width - 1) * n < (p - 1) * n
        BY <3>3, Scaling
      <3>5. l + Width - 1 < p - 1 <=> l < p - Width
        BY <2>1, <2>2
      <3> QED
        BY <3>1, <3>2, <3>4, <3>5
    <2> DEFINE N(i) == IF i = 1 THEN 0
                       ELSE IF i = Width THEN p - 1 ELSE l + i - 1
    <2>7. DOMAIN items = 1 .. Width
      BY <2>4
    <2>8. ASSUME NEW i \in 1 .. Width
          PROVE  items[i] = IF i = 2 /\ l > 0 THEN Pg!More
                            ELSE IF i = Width - 1 /\ l < p - Width THEN Pg!More
                            ELSE N(i) * n
      <3>0. 0 * n = 0 /\ i \in Int
        OBVIOUS
      <3>1. items[i] = IF i = 1 /\ l > 0 THEN 0
                       ELSE IF i = 2 /\ l > 0 THEN Pg!More
                       ELSE IF i = Width /\ l < p - Width THEN final
                       ELSE IF i = Width - 1 /\ l < p - Width THEN Pg!More
                       ELSE item(i)
        <4>1. items[i] = CASE i = 1 /\ l > 0                  -> 0
                           [] i = 2 /\ l > 0                  -> Pg!More
                           [] i = Width /\ l < p - Width      -> final
                           [] i = Width - 1 /\ l < p - Width  -> Pg!More
                           [] OTHER                           -> item(i)
          <5> HIDE DEF item, final
          <5> QED
            BY <2>4, <2>6
        <4> HIDE DEF item, final
        <4> QED
          BY <4>1, <2>1
      <3>2. item(i) = (l + i - 1) * n
        BY <2>5, <3>0
      <3> HIDE DEF item
      <3>3. CASE i = 1
        <4>1. l = 0 => l + i - 1 = 0
          BY <2>2, <3>3
        <4> QED
          BY <2>1, <2>2, <3>0, <3>1, <3>2, <3>3, <4>1
      <3>4. CASE i = Width
        <4>1. ~(l < p - Width) => l + i - 1 = p - 1
          BY <2>1, <2>2, <3>4
        <4> QED
          BY <2>1, <2>2, <3>0, <3>1, <3>2, <3>4, <4>1
      <3>5. CASE i # 1 /\ i # Width
        BY <3>1, <3>2, <3>5
      <3> QED
        BY <3>3, <3>4, <3>5
    <2>9. \A i \in 1 .. Width : N(i) \in 0 .. p - 1
      BY <1>2, <2>1, <2>2
    <2>10. \A i, j \in 1 .. Width : i < j => N(i) < N(j) \/ (j = 2 /\ l > 0)
      BY <1>2, <2>1, <2>2
    <2>11. \E i \in 1 .. Width : items[i] = a * n
      <3> DEFINE i == a - l + 1
      <3>1. /\ i \in 1 .. Width /\ ~(i = 2 /\ l > 0) /\ ~(i = Width - 1 /\ l < p - Width)
            /\ N(i) = a
        BY <1>2, <2>1, <2>2, <2>3 DEF Pg!Larger, Pg!Smaller
      <3> HIDE DEF i, N
      <3> QED
        BY <2>8, <3>1
    <2>12. items[1] = 0 /\ items[Width] = (p - 1) * n
      <3>1. 0 * n = 0 /\ 1 \in 1 .. Width /\ Width \in 1 .. Width
            /\ 1 # 2 /\ 1 # Width - 1 /\ Width # 2 /\ Width # Width - 1 /\ Width # 1
        BY <2>1
      <3>2. N(1) = 0 /\ N(Width) = p - 1
        BY <3>1
      <3> HIDE DEF N
      <3> QED
        BY <2>8, <3>1, <3>2
    <2>13. q \in [DOMAIN items -> 0 .. p - 1] /\ \A i \in 1 .. Width : q[i] = N(i)
      BY <2>7, <2>9
    <2>14. \A i, j \in DOMAIN items :
              items[i] # Pg!More /\ items[j] # Pg!More /\ i < j => q[i] < q[j]
      <3> HIDE DEF N, q
      <3>1. \A j \in 1 .. Width : items[j] # Pg!More => ~(j = 2 /\ l > 0)
        BY <2>8
      <3> QED
        BY <2>7, <2>10, <2>13, <3>1
    <2>15. \A i \in DOMAIN items : items[i] = Pg!More \/ items[i] = q[i] * n
      <3> HIDE DEF N, q
      <3> QED
        BY <2>7, <2>8, <2>13
    <2>16. Width \in Nat \ {0}
      BY <2>1
    <2> HIDE DEF q, N
    <2>17. q \in [DOMAIN items -> 0 .. p - 1]
      BY <2>13
    <2> QED
      BY <2>7, <2>11, <2>12, <2>14, <2>15, <2>16, <2>17 DEF LeadsThrough
  <1> QED
    BY <1>1, <1>2, WidthIsOdd

\* generatePageItems, Pagination: from a page of the list the page items ascend from the
\* first to the last page and contain the current one, and no button leads out of the list.
THEOREM DashboardPagerLeadsEverywhere == DashboardSpec => []PagerLeadsEverywhere
  <1>1. ASSUME PageInv, Pg!Aligned
        PROVE  LET shown == {i \in DOMAIN Pg!PageItems : Pg!PageItems[i] # Pg!More}
               IN  /\ Pg!PageItems[1] = 0
                   /\ Pg!PageItems[Len(Pg!PageItems)] = (Pg!Pages - 1) * filters.limit
                   /\ \E i \in shown : Pg!PageItems[i] = filters.offset
                   /\ \A i, j \in shown : i < j => Pg!PageItems[i] < Pg!PageItems[j]
                   /\ \A offset \in Pg!Targets : offset \in 0 .. list.total - 1
    <2> DEFINE n == filters.limit
               total == list.total
               a == filters.offset \div n
               p == Pg!Pages
               items == Pg!PageItems
               shown == {i \in DOMAIN items : items[i] # Pg!More}
    <2>1. n \in Nat \ {0} /\ total \in Nat
      <3>1. filters \in Pg!Queries /\ total \in Totals \cup {0}
        BY <1>1 DEF PageInv, Pg!TypeOK
      <3>2. PageLimits \subseteq Nat \ {0} /\ Totals \subseteq Nat
        BY DashboardAssumption DEF Pg!Parameters
      <3>3. n \in PageLimits
        BY <3>1 DEF Pg!Queries
      <3> HIDE DEF n, total
      <3> QED
        BY <3>1, <3>2, <3>3
    <2>2. /\ filters.offset \in 0 .. total - 1 /\ filters.offset % n = 0
          /\ total \in Nat \ {0} /\ filters.offset \in Nat
      BY <1>1, <2>1 DEF Pg!Aligned
    <2>3. filters.offset = a * n /\ a \in Nat
      BY <2>1, <2>2, Division
    <2>4. p = Pg!NoPages(total, n) /\ items = Pg!GeneratePageItems(p, filters.offset, n)
      BY DEF Pg!Pages, Pg!PageItems
    <2>5. Pg!Targets = {items[i] : i \in {j \in DOMAIN items : items[j] # Pg!More}}
                       \cup {filters.offset - n : x \in {y \in {0} : Pg!CanGoBack}}
                       \cup {filters.offset + n : x \in {y \in {0} : Pg!CanGoNext}}
      BY DEF Pg!Targets
    <2>6. /\ Pg!CanGoBack => filters.offset # 0
          /\ Pg!CanGoNext => filters.offset + n # p * n
      BY DEF Pg!CanGoBack, Pg!CanGoNext
    <2> HIDE DEF n, total, a, p, items
    <2>7. /\ p \in Nat \ {0}
          /\ \A b \in Int : b * n \in 0 .. total - 1 <=> b \in 0 .. p - 1
      BY <2>1, <2>2, <2>4, PagesOfList
    <2>8. a \in 0 .. p - 1
      BY <2>2, <2>3, <2>7
    <2>9. items = Pg!GeneratePageItems(p, a * n, n)
      BY <2>3, <2>4
    <2>10. PICK q \in [DOMAIN items -> 0 .. p - 1], m \in Nat \ {0} :
              /\ DOMAIN items = 1 .. m
              /\ \A i \in DOMAIN items : items[i] = Pg!More \/ items[i] = q[i] * n
              /\ \A i, j \in DOMAIN items :
                    items[i] # Pg!More /\ items[j] # Pg!More /\ i < j => q[i] < q[j]
              /\ items[1] = 0 /\ items[m] = (p - 1) * n
              /\ \E i \in DOMAIN items : items[i] = a * n
      <3>1. LeadsThrough(items, p, a, n)
        BY <2>1, <2>7, <2>8, <2>9, PageItemsInPages
      <3> QED
        BY <3>1 DEF LeadsThrough
    <2>11. Len(items) = m
      BY <2>10
    <2>12. \E i \in shown : items[i] = filters.offset
      BY <2>2, <2>3, <2>10 DEF Pg!More
    <2>13. \A i, j \in shown : i < j => items[i] < items[j]
      <3> SUFFICES ASSUME NEW i \in shown, NEW j \in shown, i < j PROVE items[i] < items[j]
        OBVIOUS
      <3>1. q[i] \in Int /\ q[j] \in Int /\ q[i] < q[j]
        BY <2>10
      <3>2. items[i] = q[i] * n /\ items[j] = q[j] * n
        BY <2>10
      <3> QED
        BY <2>1, <3>1, <3>2, Scaling
    <2>14. ASSUME NEW i \in shown PROVE items[i] \in 0 .. total - 1
      <3>1. q[i] \in 0 .. p - 1 /\ items[i] = q[i] * n
        BY <2>10
      <3> QED
        BY <2>7, <3>1
    <2>15. Pg!CanGoBack => filters.offset - n \in 0 .. total - 1
      <3>1. SUFFICES ASSUME filters.offset # 0 PROVE (a - 1) * n \in 0 .. total - 1
        BY <2>1, <2>3, <2>6, Scaling
      <3>2. 0 * n = 0
        BY <2>1
      <3>3. a - 1 \in 0 .. p - 1
        BY <2>3, <2>7, <2>8, <3>1, <3>2
      <3> QED
        BY <2>7, <3>3
    <2>16. Pg!CanGoNext => filters.offset + n \in 0 .. total - 1
      <3>1. (a + 1) * n = a * n + n
        BY <2>1, <2>3, Scaling
      <3>2. SUFFICES ASSUME a * n + n # p * n PROVE (a + 1) * n \in 0 .. total - 1
        BY <2>3, <2>6, <3>1
      <3>3. a + 1 # p
        BY <3>1, <3>2
      <3>4. a + 1 \in 0 .. p - 1
        BY <2>7, <2>8, <3>3
      <3> QED
        BY <2>7, <3>4
    <2>17. \A offset \in Pg!Targets : offset \in 0 .. total - 1
      BY <2>5, <2>14, <2>15, <2>16
    <2> QED
      BY <2>10, <2>11, <2>12, <2>13, <2>17 DEF n, total, p, items
  <1>2. PageInv => PagerLeadsEverywhere
    BY <1>1 DEF PagerLeadsEverywhere, Pg!PagerLeadsEverywhere
  <1> QED
    BY <1>2, DashboardOfPage, PageHolds, PTL

--------------------------------------------------------------------------------
(***************************************************************************)
(* The form of a user, for any protocols and inbounds, any limits and any  *)
(* number of edits.                                                        *)
(***************************************************************************)
\* Rounding down to bytes and to the nearest step and back is the identity on steps.
LEMMA LimitSettles ==
    ASSUME NEW s \in Nat
    PROVE  Stored(s) \in Nat /\ Shown(Stored(s)) = s
  <1> USE DataLimitAssumption
  <1> DEFINE b == Stored(s)
  <1>1. s * Gb \in Nat
    OBVIOUS
  <1>2. b \in Nat /\ b * Grid <= s * Gb /\ s * Gb < b * Grid + Grid
    <2> DEFINE p == s * Gb
    <2>1. p \in Nat
      BY <1>1
    <2> HIDE DEF p
    <2>2. (p \div Grid) \in Nat /\ (p \div Grid) * Grid <= p /\ p < (p \div Grid) * Grid + Grid
      BY <2>1
    <2> QED
      BY <2>2 DEF p, Stored
  <1> DEFINE q == b * Grid
             r == s * Gb
  <1>3. q \in Nat /\ r \in Nat /\ q <= r /\ r < q + Grid
    BY <1>1, <1>2
  <1>4. Shown(b) = (2 * b * Grid + Gb) \div (2 * Gb)
    BY DEF Shown
  <1>5. 2 * b * Grid = 2 * q
    BY <1>2
  <1>6. s * (2 * Gb) = 2 * r /\ (s + 1) * (2 * Gb) = 2 * r + 2 * Gb
    OBVIOUS
  <1> HIDE DEF q, r, b
  <1>7. s * (2 * Gb) <= 2 * q + Gb /\ 2 * q + Gb < (s + 1) * (2 * Gb)
    BY <1>3, <1>6
  <1>8. \A m \in Nat, n \in Nat \ {0} : s * n <= m /\ m < (s + 1) * n => m \div n = s
    OBVIOUS
  <1>9. 2 * q + Gb \in Nat /\ 2 * Gb \in Nat \ {0}
    BY <1>3
  <1>10. Shown(b) = s
    BY <1>4, <1>5, <1>7, <1>8, <1>9
  <1> QED
    BY <1>2, <1>10 DEF b

LEMMA LimitConversions ==
    ASSUME NEW n \in Nat
    PROVE  Shown(n) \in Nat /\ Stored(n) \in Nat
  <1> USE DataLimitAssumption
  <1>1. n * Grid \in Nat
    OBVIOUS
  <1> DEFINE m == 2 * (n * Grid) + Gb
  <1>2. m \in Nat /\ 2 * Gb \in Nat \ {0} /\ Shown(n) = m \div (2 * Gb)
    BY <1>1 DEF Shown
  <1> HIDE DEF m
  <1>3. m \div (2 * Gb) \in Nat
    BY <1>2
  <1> QED
    BY <1>2, <1>3, LimitSettles

--------------------------------------------------------------------------------
(***************************************************************************)
(* Rows and forms stay well-formed through the conversions.                *)
(***************************************************************************)
LEMMA DefaultIsForm ==
    ASSUME Parameters
    PROVE  GetDefaultValues \in Values
  BY DEF Parameters, GetDefaultValues, Values, Statuses, Strategies

LEMMA FormOfRow ==
    ASSUME NEW r \in Rows
    PROVE  FormatUser(r) \in Values
  <1>1. r.access \in Access /\ r.limit \in Nat
    BY DEF Rows
  <1>2. DOMAIN r.access \subseteq Protocols /\ \A p \in DOMAIN r.access : r.access[p] \subseteq AllTags
    BY <1>1 DEF Access
  <1>3. Shown(r.limit) \in Nat
    BY <1>1, LimitConversions
  <1> QED
    BY <1>2, <1>3 DEF FormatUser, Rows, Values

LEMMA RowOfForm ==
    ASSUME NEW form \in Values, NEW r, r = NoRow \/ r \in Rows
    PROVE  Written(Body(form), r) \in Rows
  <1> DEFINE body == Body(form)
             had == IF r = NoRow THEN << >> ELSE r.access
  <1>1. Stored(form.limit) \in Nat
    BY LimitConversions DEF Values
  <1>2. /\ body.status \in Statuses /\ body.limit \in Nat /\ body.strategy \in Strategies
        /\ body.hold \in BOOLEAN
        /\ body.proxies \subseteq Protocols
        /\ \A p \in DOMAIN body.inbounds : p \in Protocols /\ body.inbounds[p] \subseteq AllTags
    BY <1>1 DEF Body, Values, Statuses, Strategies
  <1>3. \A p \in DOMAIN had : had[p] \subseteq AllTags
    BY DEF Rows, Access
  <1>4. \A p \in Protocols : Inbounds[p] \subseteq AllTags
    BY DEF AllTags
  <1> HIDE DEF body, had
  <1>5. Granted(body, had) \in [body.proxies -> SUBSET AllTags]
    BY <1>2, <1>3, <1>4 DEF Granted
  <1>6. Granted(body, had) \in Access
    BY <1>2, <1>5 DEF Access
  <1>7. (r # NoRow /\ r.expire) \in BOOLEAN /\ (r # NoRow /\ r.hold) \in BOOLEAN
    OBVIOUS
  <1> QED
    BY <1>2, <1>6, <1>7 DEF Written, Rows, had, body

LEMMA RowChanges ==
    ASSUME NEW r \in Rows, NEW status \in Statuses
    PROVE  /\ [r EXCEPT !.status = status] \in Rows
           /\ [r EXCEPT !.status = status, !.expire = TRUE, !.hold = FALSE] \in Rows
  <1> DEFINE s == [r EXCEPT !.status = status]
             e == [s EXCEPT !.expire = TRUE]
             h == [e EXCEPT !.hold = FALSE]
  <1>1. s \in Rows
    BY DEF Rows
  <1> HIDE DEF s
  <1>2. e \in Rows
    BY <1>1 DEF Rows
  <1> HIDE DEF e
  <1>3. h \in Rows
    BY <1>2 DEF Rows
  <1> QED
    BY <1>1, <1>3 DEF s, e, h

LEMMA DateChanges ==
    ASSUME NEW v \in Values, NEW hold \in BOOLEAN, NEW date \in {"null", "zero", "date"}
    PROVE  /\ [v EXCEPT !.hold = hold, !.expire = date] \in Values
           /\ [v EXCEPT !.expire = date, !.hold = hold] \in Values
  <1>1. ASSUME NEW w \in Values PROVE [w EXCEPT !.hold = hold] \in Values
    BY DEF Values
  <1>2. ASSUME NEW w \in Values PROVE [w EXCEPT !.expire = date] \in Values
    BY DEF Values
  <1> QED
    BY <1>1, <1>2

LEMMA SelectedChanges ==
    ASSUME NEW v \in Values, NEW chosen \in SUBSET Protocols
    PROVE  [v EXCEPT !.selected = chosen] \in Values
  BY DEF Values

LEMMA InboundsChange ==
    ASSUME NEW v \in Values, NEW p \in Protocols, NEW tags \in SUBSET AllTags
    PROVE  [v EXCEPT !.inbounds[p] = tags] \in Values
  BY DEF Values

LEMMA Typing ==
    ASSUME Parameters
    PROVE  Spec => []TypeOK
  <1> USE DEF TypeOK
  <1>1. Init => TypeOK
    <2> SUFFICES ASSUME Init PROVE TypeOK
      OBVIOUS
    <2>1. values \in Values
      BY DefaultIsForm DEF Init
    <2>2. ASSUME row # NoRow PROVE row \in Rows
      <3>1. PICK limit \in Limits, p \in Protocols :
                row = [status |-> "active", limit |-> limit, strategy |-> "no_reset",
                       expire |-> limit > 0, hold |-> FALSE, access |-> [q \in {p} |-> {}]]
        BY <2>2 DEF Init
      <3>2. row.access \in Access
        BY <3>1 DEF Access
      <3>3. limit \in Nat
        BY DEF Parameters
      <3> QED
        BY <3>1, <3>2, <3>3 DEF Rows, Statuses, Strategies
    <2> QED
      BY <2>1, <2>2 DEF Init
  <1>2. TypeOK /\ [Next]_vars => TypeOK'
    <2> SUFFICES ASSUME TypeOK, [Next]_vars PROVE TypeOK'
      OBVIOUS
    <2>1. CASE OnCreateUser \/ Close
      BY <2>1, DefaultIsForm DEF OnCreateUser, Close, OnClose
    <2>2. CASE OnEditingUser
      BY <2>2, FormOfRow DEF OnEditingUser
    <2>3. CASE Submit
      BY <2>3, DefaultIsForm, RowOfForm DEF Submit, OnClose
    <2>4. CASE Lapse
      <3>1. row \in Rows
        BY <2>4 DEF Lapse
      <3>2. row' \in Rows
        BY <2>4, <3>1, RowChanges DEF Lapse, Statuses
      <3> QED
        BY <2>4, <3>2 DEF Lapse
    <2>5. CASE SwitchStatus \/ SwitchOnHold
      BY <2>5 DEF SwitchStatus, SwitchOnHold, Change, Values, Statuses
    <2>6. ASSUME NEW steps \in Steps, TypeLimit(steps) PROVE TypeOK'
      BY <2>6 DEF TypeLimit, Change, Values, Parameters
    <2>7. ASSUME NEW strategy \in Strategies, SelectStrategy(strategy) PROVE TypeOK'
      BY <2>7 DEF SelectStrategy, Change, Values
    <2>8. ASSUME NEW typed \in BOOLEAN, TypeDuration(typed) PROVE TypeOK'
      <3>1. values' \in Values
        <4>1. values' = [values EXCEPT !.hold = typed, !.expire = "null"]
          BY <2>8 DEF TypeDuration, Change
        <4> QED
          BY <4>1, DateChanges
      <3> QED
        BY <2>8, <3>1 DEF TypeDuration, Change
    <2>9. ASSUME NEW date \in {"zero", "date"}, PickExpiry(date) PROVE TypeOK'
      <3>1. values' \in Values
        <4>1. values' = [values EXCEPT !.expire = date, !.hold = FALSE]
          BY <2>9 DEF PickExpiry, Change
        <4> QED
          BY <4>1, DateChanges
      <3> QED
        BY <2>9, <3>1 DEF PickExpiry, Change
    <2>10. ASSUME NEW p \in Protocols, CheckProtocol(p) \/ UncheckProtocol(p) \/ ToggleAccordion(p)
           PROVE  TypeOK'
      <3>1. Inbounds[p] \in SUBSET AllTags /\ values.selected \in SUBSET Protocols
        BY DEF Parameters, Values
      <3>2. CASE CheckProtocol(p)
        <4>1. values' = [values EXCEPT !.selected = values.selected \cup {p}, !.inbounds[p] = Inbounds[p]]
          BY <3>2 DEF CheckProtocol, Change
        <4> DEFINE chosen == values.selected \cup {p}
        <4>2. chosen \in SUBSET Protocols
          BY <3>1
        <4> DEFINE next == [values EXCEPT !.selected = chosen]
        <4>3. next \in Values
          BY <4>2, SelectedChanges
        <4>4. values' = [next EXCEPT !.inbounds[p] = Inbounds[p]]
          BY <4>1
        <4> HIDE DEF next
        <4>5. [next EXCEPT !.inbounds[p] = Inbounds[p]] \in Values
          BY <3>1, <4>3, InboundsChange
        <4>6. values' \in Values
          BY <4>4, <4>5
        <4> QED
          BY <3>2, <4>6 DEF CheckProtocol, Change
      <3>3. CASE UncheckProtocol(p)
        <4>1. values' = [values EXCEPT !.selected = values.selected \ {p}]
          BY <3>3 DEF UncheckProtocol, Change
        <4> DEFINE chosen == values.selected \ {p}
        <4>2. chosen \in SUBSET Protocols
          BY <3>1
        <4>3. [values EXCEPT !.selected = chosen] \in Values
          BY <4>2, SelectedChanges
        <4>4. values' \in Values
          BY <4>1, <4>3
        <4> QED
          BY <3>3, <4>4 DEF UncheckProtocol, Change
      <3>4. CASE ToggleAccordion(p)
        BY <3>4 DEF ToggleAccordion, Toggled, Change
      <3> QED
        BY <2>10, <3>2, <3>3, <3>4
    <2>11. ASSUME NEW p \in Protocols, NEW tags \in SUBSET AllTags, CheckInbound(p, tags)
           PROVE  TypeOK'
      <3> DEFINE chosen == IF tags = {} THEN values.selected \ {p} ELSE values.selected
      <3>1. chosen \in SUBSET Protocols
        BY DEF Values
      <3>2. values' = [values EXCEPT !.inbounds[p] = tags, !.selected = chosen]
        BY <2>11 DEF CheckInbound, Change
      <3> DEFINE next == [values EXCEPT !.inbounds[p] = tags]
      <3> HIDE DEF chosen
      <3>3. next \in Values
        BY InboundsChange
      <3>4. values' = [next EXCEPT !.selected = chosen]
        BY <3>2
      <3> HIDE DEF next
      <3>5. values' \in Values
        BY <3>1, <3>3, <3>4, SelectedChanges
      <3> QED
        BY <2>11, <3>5 DEF CheckInbound, Toggled, Change
    <2>12. ASSUME NEW p \in Protocols, NEW tag \in Inbounds[p]
           PROVE  /\ values.inbounds[p] \cup {tag} \in SUBSET AllTags
                  /\ values.inbounds[p] \ {tag} \in SUBSET AllTags
      BY DEF Values, Parameters
    <2>13. CASE UNCHANGED vars
      BY <2>13 DEF vars
    <2> QED
      BY <2>1, <2>2, <2>3, <2>4, <2>5, <2>6, <2>7, <2>8, <2>9, <2>10, <2>11, <2>12, <2>13 DEF Next
  <1> QED
    BY <1>1, <1>2, PTL DEF Spec

--------------------------------------------------------------------------------
\* A limit that was saved is shown again as it was typed, however often the user is
\* edited: bytes and gigabytes are converted with different roundings, in formatUser and
\* in the schema.  Only a save changes a row, and rounding down and to the nearest is
\* the identity on what can be typed.
THEOREM FormLimitComesBack ==
    ASSUME Parameters
    PROVE  Spec => LimitComesBack
  <1>1. TypeOK /\ [Next]_vars => [Saved => Shown(row'.limit) = values.limit]_vars
    <2> SUFFICES ASSUME TypeOK, Next, Saved PROVE Shown(row'.limit) = values.limit
      OBVIOUS
    <2>1. Submit
      BY DEF Saved, Next, OnCreateUser, OnEditingUser, Close, Lapse, SwitchStatus,
             SwitchOnHold, TypeLimit, SelectStrategy, TypeDuration, PickExpiry,
             CheckProtocol, UncheckProtocol, ToggleAccordion, CheckInbound, Change
    <2>2. row'.limit = Stored(values.limit)
      BY <2>1 DEF Submit, Written, Body
    <2>3. values.limit \in Nat
      BY DEF TypeOK, Values
    <2> QED
      BY <2>2, <2>3, LimitSettles
  <1> QED
    BY <1>1, Typing, PTL DEF Spec, LimitComesBack

--------------------------------------------------------------------------------
(***************************************************************************)
(* What the fields depend on each other.                                   *)
(***************************************************************************)
\* A dialog is opened on defaults or on a row, and while a user is created the days of
\* a hold and a date exclude each other, whatever the status is at the time.
Exclusive ==
    /\ dialog = "closed" => values = GetDefaultValues
    /\ dialog = "create" => ~(values.hold /\ values.expire = "date")

LEMMA ExclusiveHolds ==
    ASSUME Parameters
    PROVE  Spec => []Exclusive
  <1>1. Init => Exclusive
    BY DEF Init, Exclusive
  <1>2. TypeOK /\ Exclusive /\ [Next]_vars => Exclusive'
    <2> SUFFICES ASSUME TypeOK, Exclusive, [Next]_vars PROVE Exclusive'
      OBVIOUS
    <2> USE DEF Exclusive
    <2>1. CASE OnCreateUser
      BY <2>1 DEF OnCreateUser, GetDefaultValues
    <2>2. CASE OnEditingUser \/ Lapse
      BY <2>2 DEF OnEditingUser, Lapse
    <2>3. CASE Close \/ Submit
      BY <2>3 DEF Close, Submit, OnClose
    <2>4. ASSUME NEW form, Change(form), values.hold = form.hold, values.expire = form.expire
          PROVE  Exclusive'
      BY <2>4 DEF Change
    <2>5. CASE SwitchStatus \/ SwitchOnHold
      BY <2>5, <2>4 DEF SwitchStatus, SwitchOnHold, TypeOK, Values
    <2>6. ASSUME NEW steps \in Steps, TypeLimit(steps) PROVE Exclusive'
      BY <2>6, <2>4 DEF TypeLimit, TypeOK, Values
    <2>7. ASSUME NEW strategy \in Strategies, SelectStrategy(strategy) PROVE Exclusive'
      BY <2>7, <2>4 DEF SelectStrategy, TypeOK, Values
    <2>8. ASSUME NEW typed \in BOOLEAN, TypeDuration(typed) PROVE Exclusive'
      BY <2>8 DEF TypeDuration, Change, TypeOK, Values
    <2>9. ASSUME NEW date \in {"zero", "date"}, PickExpiry(date) PROVE Exclusive'
      BY <2>9 DEF PickExpiry, Change, TypeOK, Values
    <2>10. ASSUME NEW p \in Protocols, CheckProtocol(p) \/ UncheckProtocol(p) \/ ToggleAccordion(p)
           PROVE  Exclusive'
      BY <2>10, <2>4 DEF CheckProtocol, UncheckProtocol, ToggleAccordion, TypeOK, Values
    <2>11. ASSUME NEW p \in Protocols, NEW tags, CheckInbound(p, tags) PROVE Exclusive'
      BY <2>11, <2>4 DEF CheckInbound, TypeOK, Values
    <2>12. CASE UNCHANGED vars
      BY <2>12 DEF vars
    <2> QED
      BY <2>1, <2>2, <2>3, <2>5, <2>6, <2>7, <2>8, <2>9, <2>10, <2>11, <2>12 DEF Next
  <1> QED
    BY <1>1, <1>2, Typing, PTL DEF Spec

\* What the server refuses is a date besides the days.
LEMMA FitsWithoutDate ==
    ASSUME NEW form
    PROVE  Fits(form) <=> ~(form.status = "on_hold" /\ form.hold /\ form.expire = "date")
  BY DEF Fits, Accepts, Body

\* Nobody who fills in the form for a user on hold is refused for the expiry date, unless
\* the row has one already: the controls of UserDialog each reset a part of what they
\* exclude, and it takes all of them together.
THEOREM FormHoldIsAccepted ==
    ASSUME Parameters
    PROVE  Spec => HoldIsAccepted
  <1> DEFINE Opened == IF dialog = "closed" THEN ~HeldTwice ELSE Fits(values)
  <1>1. TypeOK /\ Exclusive /\ [Next]_vars =>
            [dialog' # "closed" /\ Opened => Fits(values')]_vars
    <2> SUFFICES ASSUME TypeOK, Exclusive, Next, dialog' # "closed", Opened
                 PROVE  Fits(values')
      OBVIOUS
    <2> USE FitsWithoutDate DEF TypeOK, Values
    <2>1. CASE OnCreateUser
      BY <2>1 DEF OnCreateUser, Exclusive, GetDefaultValues
    <2>2. CASE OnEditingUser
      BY <2>2 DEF OnEditingUser, FormatUser, HeldTwice
    <2>3. CASE Close \/ Submit
      BY <2>3 DEF Close, Submit, OnClose
    <2>4. CASE Lapse
      <3>1. dialog # "closed" /\ UNCHANGED values
        BY <2>4 DEF Lapse
      <3> QED
        BY <3>1
    <2>5. ASSUME NEW form, Change(form), values.hold = form.hold, values.expire = form.expire,
                 form.status \in {values.status, "active", "disabled"} \/ dialog = "create"
          PROVE  Fits(values')
      BY <2>5 DEF Change, Exclusive
    <2>6. CASE SwitchStatus \/ SwitchOnHold
      BY <2>6, <2>5 DEF SwitchStatus, SwitchOnHold
    <2>7. ASSUME NEW steps \in Steps, TypeLimit(steps) PROVE Fits(values')
      BY <2>7, <2>5 DEF TypeLimit
    <2>8. ASSUME NEW strategy \in Strategies, SelectStrategy(strategy) PROVE Fits(values')
      BY <2>8, <2>5 DEF SelectStrategy
    <2>9. ASSUME NEW typed \in BOOLEAN, TypeDuration(typed) PROVE Fits(values')
      BY <2>9 DEF TypeDuration, Change
    <2>10. ASSUME NEW date \in {"zero", "date"}, PickExpiry(date) PROVE Fits(values')
      BY <2>10 DEF PickExpiry, Change
    <2>11. ASSUME NEW p \in Protocols, CheckProtocol(p) \/ UncheckProtocol(p) \/ ToggleAccordion(p)
           PROVE  Fits(values')
      BY <2>11, <2>5 DEF CheckProtocol, UncheckProtocol, ToggleAccordion
    <2>12. ASSUME NEW p \in Protocols, NEW tags, CheckInbound(p, tags) PROVE Fits(values')
      BY <2>12, <2>5 DEF CheckInbound
    <2> QED
      BY <2>1, <2>2, <2>3, <2>4, <2>6, <2>7, <2>8, <2>9, <2>10, <2>11, <2>12 DEF Next
  <1> QED
    BY <1>1, Typing, ExclusiveHolds, PTL DEF Spec, HoldIsAccepted

\* A selected protocol with no inbound checked is one whose row has none: the last that
\* is unchecked takes the protocol with it, and one that is selected comes with all.
Kept ==
    /\ dialog = "edit" => row \in Rows
    /\ \A p \in values.selected :
          values.inbounds[p] = {} =>
              dialog = "edit" /\ p \in DOMAIN row.access /\ row.access[p] = {}

LEMMA KeptHolds ==
    ASSUME Parameters
    PROVE  Spec => []Kept
  <1> USE DEF Kept
  <1>1. Init => Kept
    BY DEF Init, GetDefaultValues
  <1>2. TypeOK /\ Exclusive /\ Kept /\ [Next]_vars => Kept'
    <2> SUFFICES ASSUME TypeOK, Exclusive, Kept, [Next]_vars PROVE Kept'
      OBVIOUS
    <2> USE DEF TypeOK
    <2>1. CASE OnCreateUser
      BY <2>1 DEF OnCreateUser, Exclusive, GetDefaultValues
    <2>2. CASE OnEditingUser
      <3>1. row \in Rows /\ row' = row /\ values' = FormatUser(row) /\ dialog' = "edit"
        BY <2>2 DEF OnEditingUser
      <3>2. DOMAIN row.access \subseteq Protocols
        BY <3>1 DEF Rows, Access
      <3>3. /\ values'.selected = DOMAIN row.access
            /\ \A p \in DOMAIN row.access : values'.inbounds[p] = row.access[p]
        BY <3>1, <3>2 DEF FormatUser
      <3> QED
        BY <3>1, <3>3
    <2>3. CASE Close \/ Submit
      BY <2>3 DEF Close, Submit, OnClose, GetDefaultValues
    <2>4. CASE Lapse
      <3>1. row \in Rows /\ UNCHANGED <<dialog, values>>
        BY <2>4 DEF Lapse
      <3>2. row' \in Rows
        BY <2>4, <3>1, RowChanges DEF Lapse, Statuses
      <3>3. row'.access = row.access
        BY <2>4, <3>1 DEF Lapse, Rows
      <3> QED
        BY <3>1, <3>2, <3>3
    <2>5. ASSUME NEW form, Change(form), values.selected = form.selected,
                 values.inbounds = form.inbounds
          PROVE  Kept'
      BY <2>5 DEF Change
    <2>6. CASE SwitchStatus \/ SwitchOnHold
      BY <2>6, <2>5 DEF SwitchStatus, SwitchOnHold, Values
    <2>7. ASSUME NEW steps \in Steps, TypeLimit(steps) PROVE Kept'
      BY <2>7, <2>5 DEF TypeLimit, Values
    <2>8. ASSUME NEW strategy \in Strategies, SelectStrategy(strategy) PROVE Kept'
      BY <2>8, <2>5 DEF SelectStrategy, Values
    <2>9. ASSUME NEW typed \in BOOLEAN, TypeDuration(typed) PROVE Kept'
      BY <2>9, <2>5 DEF TypeDuration, Values
    <2>10. ASSUME NEW date \in {"zero", "date"}, PickExpiry(date) PROVE Kept'
      <3> DEFINE form == [values EXCEPT !.expire = date, !.hold = FALSE]
      <3>1. Change(form)
        BY <2>10 DEF PickExpiry
      <3>2. values.selected = form.selected /\ values.inbounds = form.inbounds
        BY DEF Values
      <3> QED
        BY <2>5, <3>1, <3>2
    <2>11. ASSUME NEW p \in Protocols, CheckProtocol(p) PROVE Kept'
      <3>1. Inbounds[p] # {} /\ UNCHANGED <<row, dialog>>
        BY <2>11 DEF CheckProtocol, Change
      <3>2. values'.selected = values.selected \cup {p}
        BY <2>11 DEF CheckProtocol, Change, Values
      <3>3. values'.inbounds = [values.inbounds EXCEPT ![p] = Inbounds[p]]
        BY <2>11 DEF CheckProtocol, Change, Values
      <3>4. values.inbounds \in [Protocols -> SUBSET AllTags] /\ values.selected \subseteq Protocols
        BY DEF Values
      <3> QED
        BY <3>1, <3>2, <3>3, <3>4
    <2>12. ASSUME NEW p \in Protocols, UncheckProtocol(p) PROVE Kept'
      <3>1. UNCHANGED <<row, dialog>>
        BY <2>12 DEF UncheckProtocol, Change
      <3>2. values'.selected = values.selected \ {p} /\ values'.inbounds = values.inbounds
        BY <2>12 DEF UncheckProtocol, Change, Values
      <3> QED
        BY <3>1, <3>2
    <2>13. ASSUME NEW p \in Protocols, ToggleAccordion(p) PROVE Kept'
      BY <2>13, <2>5 DEF ToggleAccordion
    <2>14. ASSUME NEW p \in Protocols, NEW tags, CheckInbound(p, tags) PROVE Kept'
      <3>1. UNCHANGED <<row, dialog>>
        BY <2>14 DEF CheckInbound, Change
      <3>2. values'.selected = IF tags = {} THEN values.selected \ {p} ELSE values.selected
        BY <2>14 DEF CheckInbound, Change, Values
      <3>3. values'.inbounds = [values.inbounds EXCEPT ![p] = tags]
        BY <2>14 DEF CheckInbound, Change, Values
      <3>4. values.inbounds \in [Protocols -> SUBSET AllTags] /\ values.selected \subseteq Protocols
        BY DEF Values
      <3> QED
        BY <3>1, <3>2, <3>3, <3>4
    <2>15. CASE UNCHANGED vars
      BY <2>15 DEF vars
    <2>16. ASSUME NEW p \in Protocols, NEW tag \in Inbounds[p],
                  \/ CheckInbound(p, values.inbounds[p] \cup {tag})
                  \/ CheckInbound(p, values.inbounds[p] \ {tag})
           PROVE  Kept'
      BY <2>14, <2>16
    <2> HIDE DEF Kept, TypeOK
    <2> QED
      BY <2>1, <2>2, <2>3, <2>4, <2>6, <2>7, <2>8, <2>9, <2>10, <2>11, <2>12, <2>13, <2>15,
         <2>16 DEF Next
  <1> QED
    BY <1>1, <1>2, Typing, ExclusiveHolds, PTL DEF Spec

\* A saved user may use exactly the inbounds that were checked, for any protocols.  What
\* is empty is left out of the request, where it means all of a new proxy and the former
\* ones of an old one; the form has nothing empty that would mean another thing.
THEOREM FormCheckedIsGranted ==
    ASSUME Parameters
    PROVE  Spec => CheckedIsGranted
  <1>1. TypeOK /\ Kept /\ [Next]_vars =>
            [Saved => \A p \in values.selected : row'.access[p] = values.inbounds[p]]_vars
    <2> SUFFICES ASSUME TypeOK, Kept, Next, Saved, NEW p \in values.selected
                 PROVE  row'.access[p] = values.inbounds[p]
      OBVIOUS
    <2>1. Submit
      BY DEF Saved, Next, OnCreateUser, OnEditingUser, Close, Lapse, SwitchStatus,
             SwitchOnHold, TypeLimit, SelectStrategy, TypeDuration, PickExpiry,
             CheckProtocol, UncheckProtocol, ToggleAccordion, CheckInbound, Change
    <2> DEFINE r == IF dialog = "edit" THEN row ELSE NoRow
               had == IF r = NoRow THEN << >> ELSE r.access
    <2>2. row'.access = Granted(Body(values), had)
      BY <2>1 DEF Submit, Written
    <2>3. p \in Protocols
      BY DEF TypeOK, Values
    <2>4. CASE values.inbounds[p] # {}
      BY <2>2, <2>3, <2>4 DEF Granted, Body
    <2>5. CASE values.inbounds[p] = {}
      <3>1. had = row.access /\ p \in DOMAIN row.access /\ row.access[p] = {}
        BY <2>5 DEF Kept, Parameters
      <3> QED
        BY <2>2, <2>3, <2>5, <3>1 DEF Granted, Body
    <2> QED
      BY <2>4, <2>5
  <1> QED
    BY <1>1, Typing, KeptHolds, PTL DEF Spec, CheckedIsGranted

LEMMA DashboardOfForm == DashboardSpec => Spec
  <1>1. DashboardInit => Init
    BY DEF DashboardInit
  <1>2. [DashboardNext]_dashboardVars => [Next]_vars
    BY DEF DashboardNext, dashboardVars, vars, Others, AtUsersPage, AtUserDialog, AtUserForm,
           AtHostsDialog, AtNodesDialog, AtCoreSettings, AtCoreLogs, AtUsageFilter, AtSession,
           AtShareLinks
  <1> QED
    BY <1>1, <1>2, PTL DEF DashboardSpec, Spec

\* UserDialog at the dashboard: what is filled in is taken, granted and shown again.
THEOREM DashboardFormKeepsItsWord ==
    DashboardSpec => HoldIsAccepted /\ CheckedIsGranted /\ LimitComesBack
  <1>1. Parameters
    BY DashboardAssumption
  <1> QED
    BY <1>1, DashboardOfForm, FormHoldIsAccepted, FormCheckedIsGranted, FormLimitComesBack

--------------------------------------------------------------------------------
(***************************************************************************)
(* Dialog for the nodes.                                                   *)
(***************************************************************************)
LEMMA DashboardOfNodes == DashboardSpec => Nd!Spec
  <1>1. DashboardInit => Nd!Init
    BY DEF DashboardInit
  <1>2. [DashboardNext]_dashboardVars => [Nd!Next]_(Nd!vars)
    BY DEF DashboardNext, dashboardVars, nodeVars, Nd!vars, Others, AtUsersPage,
           AtUserDialog, AtUserForm, AtHostsDialog, AtNodesDialog, AtCoreSettings,
           AtCoreLogs, AtUsageFilter, AtSession, AtShareLinks
  <1> QED
    BY <1>1, <1>2, PTL DEF DashboardSpec, Nd!Spec

Mutations ==
    [kind : {"put", "post", "delete", "reconnect"}, id : Nat, name : Names,
     status : Nd!Status, state : {"sent", "ok"}, untouched : BOOLEAN, opened : Nat]

NodeForms == [id : Nat, name : Names, status : Nd!Status, touched : BOOLEAN]

\* A list as the server keeps it: in the order of the ids, each name once.
Numbered(ns) ==
    /\ \A i \in DOMAIN ns : ns[i].id >= 1
    /\ \A i, j \in DOMAIN ns : i < j => ns[i].id < ns[j].id
NamedOnce(ns) == \A i, j \in DOMAIN ns : ns[i].name = ns[j].name => i = j
NodeList(ns) == ns \in Seq(Nd!Node) /\ Numbered(ns) /\ NamedOnce(ns)

NamesOf(ns) == {ns[i].name : i \in DOMAIN ns}

Off(node) == node.status = "disabled"

\* Two lists that differ at most in which connections are broken.
SameNodes(l, m) ==
    /\ Len(l) = Len(m)
    /\ \A i \in DOMAIN l : /\ l[i].id = m[i].id /\ l[i].name = m[i].name
                           /\ Off(l[i]) <=> Off(m[i])

LEMMA SameNodesOrder ==
    ASSUME NEW l \in Seq(Nd!Node), NEW m \in Seq(Nd!Node), NEW o \in Seq(Nd!Node)
    PROVE  /\ SameNodes(l, l)
           /\ SameNodes(l, m) => SameNodes(m, l)
           /\ SameNodes(l, m) /\ SameNodes(m, o) => SameNodes(l, o)
           /\ SameNodes(l, m) => DOMAIN l = DOMAIN m
  <1>1. DOMAIN l = 1 .. Len(l) /\ DOMAIN m = 1 .. Len(m) /\ DOMAIN o = 1 .. Len(o)
    BY LenProperties
  <1>2. SameNodes(l, l)
    BY DEF SameNodes
  <1>3. SameNodes(l, m) => DOMAIN l = DOMAIN m
    BY <1>1 DEF SameNodes
  <1>4. SameNodes(l, m) => SameNodes(m, l)
    BY <1>3 DEF SameNodes
  <1>5. SameNodes(l, m) /\ SameNodes(m, o) => SameNodes(l, o)
    BY <1>3 DEF SameNodes
  <1> QED
    BY <1>2, <1>3, <1>4, <1>5

LEMMA NodeFields ==
    ASSUME NEW l \in Seq(Nd!Node), NEW i \in DOMAIN l
    PROVE  /\ l[i] \in Nd!Node /\ l[i].id \in Nat /\ l[i].name \in Names
           /\ l[i].status \in Nd!Status
           /\ i \in Nat /\ i \in 1 .. Len(l) /\ Len(l) \in Nat /\ DOMAIN l = 1 .. Len(l)
  <1>1. l[i] \in Nd!Node
    BY ElementIn
  <1> QED
    BY <1>1, LenProperties DEF Nd!Node

\* In a list an id is found at one place.
LEMMA OnePlace ==
    ASSUME NEW l, NodeList(l), NEW i \in DOMAIN l, NEW j \in DOMAIN l, l[i].id = l[j].id
    PROVE  i = j
  <1>1. l[i].id \in Nat /\ l[j].id \in Nat /\ i \in Nat /\ j \in Nat
    BY NodeFields DEF NodeList
  <1>2. i < j => l[i].id < l[j].id
    BY DEF NodeList, Numbered
  <1>3. j < i => l[j].id < l[i].id
    BY DEF NodeList, Numbered
  <1> QED
    BY <1>1, <1>2, <1>3

LEMMA EmptyNodeList == NodeList(<< >>)
  <1>1. << >> \in Seq(Nd!Node) /\ DOMAIN << >> = {}
    BY EmptySeq
  <1> QED
    BY <1>1 DEF NodeList, Numbered, NamedOnce

\* One node is another, of the same id and of a name no other node has.
LEMMA NodeReplaced ==
    ASSUME NEW l, NodeList(l), NEW k \in DOMAIN l, NEW m \in Seq(Nd!Node),
           DOMAIN m = DOMAIN l, \A j \in DOMAIN l : j # k => m[j] = l[j],
           m[k].id = l[k].id, \A j \in DOMAIN l : l[j].name = m[k].name => j = k
    PROVE  NodeList(m)
  <1>1. \A j \in DOMAIN l : m[j].id = l[j].id
    OBVIOUS
  <1>2. Numbered(m)
    BY <1>1 DEF NodeList, Numbered
  <1>3. NamedOnce(m)
    BY DEF NodeList, NamedOnce
  <1> QED
    BY <1>2, <1>3 DEF NodeList

\* The newest node has a new name and a new id.
LEMMA NodeAppended ==
    ASSUME NEW l, NodeList(l), NEW node \in Nd!Node,
           node.id = (IF l = << >> THEN 0 ELSE l[Len(l)].id) + 1,
           \A i \in DOMAIN l : l[i].name # node.name
    PROVE  /\ NodeList(Append(l, node))
           /\ \A i \in DOMAIN Append(l, node) :
                 Append(l, node)[i] = node \/ (i \in DOMAIN l /\ Append(l, node)[i] = l[i])
  <1> DEFINE m == Append(l, node)
  <1>1. l \in Seq(Nd!Node) /\ Len(l) \in Nat /\ DOMAIN l = 1 .. Len(l)
    BY LenProperties DEF NodeList
  <1>2. /\ m \in Seq(Nd!Node) /\ Len(m) = Len(l) + 1 /\ m[Len(l) + 1] = node
        /\ \A i \in 1 .. Len(l) : m[i] = l[i]
    BY <1>1, AppendProperties
  <1>3. DOMAIN m = 1 .. Len(l) + 1
    BY <1>2, LenProperties
  <1>4. \A i \in DOMAIN l : l[i].id \in Nat /\ l[i].id >= 1
    BY <1>1, NodeFields DEF NodeList, Numbered
  <1> HIDE DEF m
  <1>5. \A i \in DOMAIN l : l[i].id < node.id
    <2> SUFFICES ASSUME NEW i \in DOMAIN l PROVE l[i].id < node.id
      OBVIOUS
    <2>1. Len(l) \in DOMAIN l /\ i <= Len(l) /\ i \in Nat /\ Len(l) >= 1
      BY <1>1
    <2>2. l # << >>
      BY <2>1, EmptySeq
    <2>3. node.id = l[Len(l)].id + 1
      BY <2>2
    <2>4. i < Len(l) => l[i].id < l[Len(l)].id
      BY <2>1 DEF NodeList, Numbered
    <2>5. l[i].id \in Nat /\ l[Len(l)].id \in Nat
      BY <1>4, <2>1
    <2>6. i = Len(l) \/ i < Len(l)
      BY <1>1, <2>1
    <2> QED
      BY <2>3, <2>4, <2>5, <2>6
  <1>6. node.id >= 1
    <2>1. CASE l = << >>
      BY <2>1
    <2>2. CASE l # << >>
      <3>1. Len(l) \in DOMAIN l
        BY <1>1, <2>2, EmptySeq
      <3> QED
        BY <1>4, <2>2, <3>1
    <2> QED
      BY <2>1, <2>2
  <1>7. \A i \in DOMAIN m : i \in Nat /\ (i = Len(l) + 1 \/ (i \in DOMAIN l /\ i < Len(l) + 1))
    BY <1>1, <1>3
  <1>8. \A i \in DOMAIN m : (i = Len(l) + 1 /\ m[i] = node) \/ (i \in DOMAIN l /\ m[i] = l[i])
    BY <1>1, <1>2, <1>7
  <1>9. \A i \in DOMAIN m : m[i].id >= 1
    BY <1>4, <1>6, <1>8
  <1>10. ASSUME NEW i \in DOMAIN m, NEW j \in DOMAIN m, i < j PROVE m[i].id < m[j].id
    <2>1. i \in DOMAIN l /\ m[i] = l[i]
      BY <1>1, <1>2, <1>7, <1>10
    <2>2. CASE j = Len(l) + 1
      BY <1>2, <1>5, <2>1, <2>2
    <2>3. CASE j \in DOMAIN l
      <3>1. m[j] = l[j]
        BY <1>1, <1>2, <2>3
      <3> QED
        BY <1>10, <2>1, <2>3, <3>1 DEF NodeList, Numbered
    <2> QED
      BY <1>7, <2>2, <2>3
  <1>11. NamedOnce(m)
    <2> SUFFICES ASSUME NEW i \in DOMAIN m, NEW j \in DOMAIN m, m[i].name = m[j].name
                 PROVE  i = j
      BY DEF NamedOnce
    <2>1. i \in DOMAIN l /\ j \in DOMAIN l => i = j
      BY <1>1, <1>2 DEF NodeList, NamedOnce
    <2> QED
      BY <1>8, <2>1
  <1> QED
    BY <1>2, <1>8, <1>9, <1>10, <1>11 DEF NodeList, Numbered, m

\* A node is gone.
LEMMA NodeRemoved ==
    ASSUME NEW l, NodeList(l), NEW k \in DOMAIN l
    PROVE  /\ NodeList(Without(l, k))
           /\ \A i \in DOMAIN Without(l, k) : \E j \in DOMAIN l : Without(l, k)[i] = l[j]
  <1> DEFINE m == Without(l, k)
             at(i) == IF i < k THEN i ELSE i + 1
  <1>0. l \in Seq(Nd!Node)
    BY DEF NodeList
  <1>1. l \in Seq(Nd!Node) /\ Len(l) \in Nat /\ DOMAIN l = 1 .. Len(l)
    BY <1>0, LenProperties
  <1>2. /\ m \in Seq(Nd!Node) /\ Len(m) = Len(l) - 1
        /\ \A i \in 1 .. Len(l) - 1 : m[i] = IF i < k THEN l[i] ELSE l[i + 1]
    BY <1>0, k \in DOMAIN l, Removal, Zenon
  <1>3. DOMAIN m = 1 .. Len(l) - 1
    BY <1>2, LenProperties
  <1> HIDE DEF m
  <1>4. \A i \in DOMAIN m : i \in Nat /\ at(i) \in Nat /\ at(i) \in DOMAIN l /\ m[i] = l[at(i)]
    BY <1>1, <1>2, <1>3
  <1>5. \A i, j \in DOMAIN m : (i < j => at(i) < at(j)) /\ (at(i) = at(j) => i = j)
    BY <1>1, <1>3
  <1> HIDE DEF at
  <1>6. Numbered(m)
    BY <1>4, <1>5 DEF NodeList, Numbered
  <1>7. NamedOnce(m)
    BY <1>4, <1>5 DEF NodeList, NamedOnce
  <1> QED
    BY <1>2, <1>4, <1>6, <1>7 DEF NodeList, m

(***************************************************************************)
(* What the server makes of a mutation.                                    *)
(***************************************************************************)
\* Node k is as the put wants it, and no other one had the name.
PutAt(k, put) ==
    /\ nodeServer[k].id = put.id
    /\ DOMAIN nodeServer' = DOMAIN nodeServer
    /\ \A j \in DOMAIN nodeServer : j # k => nodeServer'[j] = nodeServer[j]
    /\ nodeServer'[k].id = nodeServer[k].id /\ nodeServer'[k].name = put.name
    /\ Off(nodeServer'[k]) <=> Off(put)
    /\ \A j \in DOMAIN nodeServer : nodeServer[j].name = put.name => j = k

LEMMA FieldReplaced ==
    ASSUME NEW l \in Seq(Nd!Node), NEW k \in DOMAIN l, NEW node \in Nd!Node
    PROVE  LET m == [l EXCEPT ![k] = node]
           IN  /\ m \in Seq(Nd!Node) /\ DOMAIN m = DOMAIN l /\ Len(m) = Len(l)
               /\ m[k] = node /\ \A j \in DOMAIN l : j # k => m[j] = l[j]
  <1>1. DOMAIN l = 1 .. Len(l)
    BY LenProperties
  <1> QED
    BY <1>1, ExceptSeq

LEMMA PutServed ==
    ASSUME NodeList(nodeServer), NEW i \in DOMAIN nodeFlight, nodeFlight[i] \in Mutations,
           Nd!ServePut(i)
    PROVE  /\ NodeList(nodeServer')
           /\ \E k \in DOMAIN nodeServer : PutAt(k, nodeFlight[i])
  <1> DEFINE r == nodeFlight[i]
             status == IF r.status = "disabled" THEN "disabled" ELSE "connected"
  <1>1. r \in Mutations /\ ~Nd!Taken(r.name, r.id)
    BY DEF Nd!ServePut
  <1>2. PICK k \in Nd!Known(r.id) :
           Nd!Served(i, [nodeServer EXCEPT ![k].name = r.name, ![k].status = status])
    BY Zenon DEF Nd!ServePut
  <1>3. k \in DOMAIN nodeServer /\ nodeServer[k].id = r.id
    BY <1>2 DEF Nd!Known
  <1>4. /\ r.name \in Names /\ status \in Nd!Status /\ nodeServer[k] \in Nd!Node
        /\ nodeServer \in Seq(Nd!Node) /\ (status = "disabled" <=> Off(r))
    BY <1>1, <1>3, NodeFields DEF Mutations, Nd!Status, NodeList, Off
  <1>5. nodeServer' = [nodeServer EXCEPT ![k].name = r.name, ![k].status = status]
    BY <1>2 DEF Nd!Served
  <1>6. \A j \in DOMAIN nodeServer : nodeServer[j].name = r.name => j = k
    BY <1>1, <1>3, OnePlace DEF Nd!Taken
  <1> HIDE DEF r, status
  <1> DEFINE named == [nodeServer[k] EXCEPT !.name = r.name]
             t == [nodeServer EXCEPT ![k] = named]
             node == [t[k] EXCEPT !.status = status]
  <1>7. nodeServer' = [t EXCEPT ![k] = node]
    BY <1>5, Zenon
  <1>8. named \in Nd!Node /\ named.id = nodeServer[k].id /\ named.name = r.name
    BY <1>4 DEF Nd!Node
  <1> HIDE DEF named
  <1>9. /\ t \in Seq(Nd!Node) /\ DOMAIN t = DOMAIN nodeServer /\ t[k] = named
        /\ \A j \in DOMAIN nodeServer : j # k => t[j] = nodeServer[j]
    BY <1>3, <1>4, <1>8, FieldReplaced
  <1> HIDE DEF t
  <1>10. /\ node \in Nd!Node /\ node.id = nodeServer[k].id /\ node.name = r.name
         /\ node.status = status
    <2>1. t[k] \in Nd!Node /\ t[k].id = nodeServer[k].id /\ t[k].name = r.name
      BY <1>8, <1>9
    <2>2. /\ node \in Nd!Node /\ node.id = t[k].id /\ node.name = t[k].name
          /\ node.status = status
      BY <1>4, <2>1 DEF Nd!Node
    <2> HIDE DEF node
    <2> QED
      BY <2>1, <2>2
  <1> HIDE DEF node
  <1>11. /\ nodeServer' \in Seq(Nd!Node) /\ DOMAIN nodeServer' = DOMAIN nodeServer
         /\ nodeServer'[k] = node
         /\ \A j \in DOMAIN nodeServer : j # k => nodeServer'[j] = nodeServer[j]
    BY <1>3, <1>7, <1>9, <1>10, FieldReplaced
  <1>12. NodeList(nodeServer')
    BY <1>3, <1>6, <1>10, <1>11, NodeReplaced
  <1>13. PutAt(k, r)
    <2>1. Off(nodeServer'[k]) <=> Off(r)
      BY <1>4, <1>10, <1>11 DEF Off
    <2> QED
      BY <1>3, <1>6, <1>10, <1>11, <2>1 DEF PutAt
  <1> QED
    BY <1>3, <1>12, <1>13 DEF r

\* A new node has a name no node had.
LEMMA PostServed ==
    ASSUME NodeList(nodeServer), NEW i \in DOMAIN nodeFlight, nodeFlight[i] \in Mutations,
           Nd!ServePost(i)
    PROVE  /\ NodeList(nodeServer')
           /\ nodeFlight[i].name \notin NamesOf(nodeServer)
           /\ \A j \in DOMAIN nodeServer' :
                 \/ nodeServer'[j].name = nodeFlight[i].name
                 \/ \E k \in DOMAIN nodeServer : nodeServer'[j] = nodeServer[k]
  <1> DEFINE r == nodeFlight[i]
             newest == IF nodeServer = << >> THEN 0 ELSE nodeServer[Len(nodeServer)].id
             node == [id |-> newest + 1, name |-> r.name, status |-> "connected"]
  <1>1. /\ ~Nd!Taken(r.name, 0)
        /\ nodeServer' = Append(nodeServer, node)
    BY DEF Nd!ServePost, Nd!Served, Nd!Last
  <1>2. nodeServer \in Seq(Nd!Node) /\ DOMAIN nodeServer = 1 .. Len(nodeServer)
        /\ Len(nodeServer) \in Nat
    BY LenProperties DEF NodeList
  <1>3. \A j \in DOMAIN nodeServer : nodeServer[j].id \in Nat /\ nodeServer[j].id >= 1
    BY <1>2, NodeFields DEF NodeList, Numbered
  <1>4. newest \in Nat
    <2>1. CASE nodeServer = << >>
      BY <2>1
    <2>2. CASE nodeServer # << >>
      <3>1. Len(nodeServer) \in DOMAIN nodeServer
        BY <1>2, <2>2, EmptySeq
      <3> QED
        BY <1>3, <2>2, <3>1
    <2> QED
      BY <2>1, <2>2
  <1>5. \A j \in DOMAIN nodeServer : nodeServer[j].name # r.name
    BY <1>1, <1>3 DEF Nd!Taken
  <1>6. r.name \in Names /\ "connected" \in Nd!Status
    BY DEF Mutations, Nd!Status
  <1>7. newest = (IF nodeServer = << >> THEN 0 ELSE nodeServer[Len(nodeServer)].id)
    OBVIOUS
  <1> HIDE DEF newest, r
  <1>8. node \in Nd!Node /\ node.id = newest + 1 /\ node.name = r.name
    BY <1>4, <1>6 DEF Nd!Node
  <1> HIDE DEF node
  <1>9. /\ NodeList(Append(nodeServer, node))
        /\ \A j \in DOMAIN Append(nodeServer, node) :
              \/ Append(nodeServer, node)[j] = node
              \/ j \in DOMAIN nodeServer /\ Append(nodeServer, node)[j] = nodeServer[j]
    BY <1>5, <1>7, <1>8, NodeAppended
  <1>10. /\ NodeList(nodeServer')
         /\ \A j \in DOMAIN nodeServer' :
               nodeServer'[j] = node \/ (j \in DOMAIN nodeServer /\ nodeServer'[j] = nodeServer[j])
    BY <1>1, <1>9
  <1>11. r.name \notin NamesOf(nodeServer)
    BY <1>5 DEF NamesOf
  <1> QED
    BY <1>8, <1>10, <1>11 DEF r

LEMMA DeleteServed ==
    ASSUME NodeList(nodeServer), NEW i \in DOMAIN nodeFlight, Nd!ServeDelete(i)
    PROVE  /\ NodeList(nodeServer')
           /\ \A j \in DOMAIN nodeServer' :
                 \E k \in DOMAIN nodeServer : nodeServer'[j] = nodeServer[k]
  <1>1. PICK k \in DOMAIN nodeServer : nodeServer' = Without(nodeServer, k)
    <2>1. PICK k \in Nd!Known(nodeFlight[i].id) : Nd!Served(i, Nd!RemoveAt(nodeServer, k))
      BY DEF Nd!ServeDelete
    <2>2. nodeServer' = Without(nodeServer, k)
      BY <2>1 DEF Nd!Served, Nd!RemoveAt, Without
    <2> QED
      BY <2>1, <2>2 DEF Nd!Known
  <1> QED
    BY <1>1, NodeRemoved

\* A connection that breaks or is mended switches no node on or off.
LEMMA StatusChanges ==
    ASSUME NodeList(nodeServer), NEW k \in DOMAIN nodeServer, NEW node \in Nd!Node,
           nodeServer' = [nodeServer EXCEPT ![k] = node],
           node.id = nodeServer[k].id, node.name = nodeServer[k].name,
           Off(node) <=> Off(nodeServer[k])
    PROVE  NodeList(nodeServer') /\ SameNodes(nodeServer', nodeServer)
  <1>1. nodeServer \in Seq(Nd!Node) /\ NamedOnce(nodeServer)
    BY DEF NodeList
  <1>2. /\ nodeServer' \in Seq(Nd!Node) /\ DOMAIN nodeServer' = DOMAIN nodeServer
        /\ Len(nodeServer') = Len(nodeServer) /\ nodeServer'[k] = node
        /\ \A j \in DOMAIN nodeServer : j # k => nodeServer'[j] = nodeServer[j]
    BY <1>1, FieldReplaced
  <1>3. \A j \in DOMAIN nodeServer : nodeServer[j].name = nodeServer'[k].name => j = k
    BY <1>1, <1>2 DEF NamedOnce
  <1>4. nodeServer'[k].id = nodeServer[k].id
    BY <1>2
  <1>5. NodeList(nodeServer')
    BY NodeList(nodeServer), k \in DOMAIN nodeServer, <1>2, <1>3, <1>4, NodeReplaced, Zenon
  <1> QED
    BY <1>2, <1>5 DEF SameNodes

LEMMA ReconnectServed ==
    ASSUME NodeList(nodeServer), NEW i \in DOMAIN nodeFlight, Nd!ServeReconnect(i)
    PROVE  NodeList(nodeServer') /\ SameNodes(nodeServer', nodeServer)
  <1>1. PICK k \in Nd!Known(nodeFlight[i].id) :
           Nd!Served(i, [nodeServer EXCEPT ![k].status = IF @ = "error" THEN "connected" ELSE @])
    BY Zenon DEF Nd!ServeReconnect
  <1>2. k \in DOMAIN nodeServer
    BY DEF Nd!Known
  <1> DEFINE status == IF nodeServer[k].status = "error" THEN "connected" ELSE nodeServer[k].status
             node == [nodeServer[k] EXCEPT !.status = status]
  <1>3. nodeServer[k].status \in Nd!Status
    BY <1>2, NodeFields DEF NodeList
  <1>4. status \in Nd!Status /\ (status = "disabled" <=> Off(nodeServer[k]))
    BY <1>3 DEF Nd!Status, Off
  <1>5. nodeServer' = [nodeServer EXCEPT ![k] = node]
    BY <1>1, Zenon DEF Nd!Served
  <1> HIDE DEF status
  <1>6. nodeServer[k] \in Nd!Node
    BY <1>2, NodeFields DEF NodeList
  <1>7. node \in Nd!Node /\ node.id = nodeServer[k].id /\ node.name = nodeServer[k].name
        /\ node.status = status
    BY <1>4, <1>6 DEF Nd!Node
  <1> HIDE DEF node
  <1>8. Off(node) <=> Off(nodeServer[k])
    BY <1>4, <1>7 DEF Off
  <1> QED
    BY NodeList(nodeServer), <1>2, <1>5, <1>7, <1>8, StatusChanges, Zenon

LEMMA Breaking ==
    ASSUME NodeList(nodeServer), NEW i \in DOMAIN nodeServer, Nd!ConnectionBreaks(i)
    PROVE  NodeList(nodeServer') /\ SameNodes(nodeServer', nodeServer)
  <1> DEFINE node == [nodeServer[i] EXCEPT !.status = "error"]
  <1>1. nodeServer' = [nodeServer EXCEPT ![i] = node]
    BY Zenon DEF Nd!ConnectionBreaks
  <1>2. "error" \in Nd!Status /\ ~Off(nodeServer[i])
    BY DEF Nd!ConnectionBreaks, Nd!Status, Off
  <1>3. nodeServer[i] \in Nd!Node
    BY NodeFields DEF NodeList
  <1>4. node \in Nd!Node /\ node.id = nodeServer[i].id /\ node.name = nodeServer[i].name
        /\ node.status = "error"
    BY <1>2, <1>3 DEF Nd!Node
  <1> HIDE DEF node
  <1>5. Off(node) <=> Off(nodeServer[i])
    BY <1>2, <1>4 DEF Off
  <1> QED
    BY NodeList(nodeServer), i \in DOMAIN nodeServer, <1>1, <1>4, <1>5, StatusChanges, Zenon

(***************************************************************************)
(* Forms, and mutations on their way.                                      *)
(***************************************************************************)
LEMMA FormOfNode ==
    ASSUME NEW node \in Nd!Node
    PROVE  /\ Nd!Form(node) \in NodeForms
           /\ Nd!Form(node).id = node.id /\ Nd!Form(node).name = node.name
           /\ Nd!Form(node).status = node.status /\ Nd!Form(node).touched = FALSE
  BY DEF Nd!Node, Nd!Form, NodeForms

\* The form for a new node has its name and the id 0.
LEMMA FormOfNewNode ==
    ASSUME NEW name \in Names
    PROVE  Nd!Form([Nd!New EXCEPT !.name = name]) \in NodeForms
  <1>1. \E blank : Nd!New = [id |-> 0, name |-> blank, status |-> "connected"]
    BY Zenon DEF Nd!New
  <1>2. PICK blank : Nd!New = [id |-> 0, name |-> blank, status |-> "connected"]
    BY <1>1, Zenon
  <1> DEFINE node == [Nd!New EXCEPT !.name = name]
  <1>3. node \in Nd!Node
    BY <1>2 DEF Nd!Node, Nd!Status
  <1> HIDE DEF node
  <1>4. Nd!Form(node) \in NodeForms
    BY <1>3, FormOfNode, Zenon
  <1> QED
    BY <1>4 DEF node

\* Of the forms there are the list keeps those whose names it has; the other ones are
\* copies of their nodes.
LEMMA MountedForms ==
    ASSUME NEW l, NodeList(l), l # NoData
    PROVE  /\ DOMAIN Nd!Mounted(l) = NamesOf(l)
           /\ \A n \in NamesOf(l) : n \in DOMAIN forms => Nd!Mounted(l)[n] = forms[n]
           /\ \A i \in DOMAIN l : /\ l[i].name \in NamesOf(l)
                                  /\ l[i].name \notin DOMAIN forms
                                        => Nd!Mounted(l)[l[i].name] = Nd!Form(l[i])
  <1> DEFINE named(n) == CHOOSE node \in Nd!ToSet(l) : node.name = n
             m == [n \in {node.name : node \in Nd!ToSet(l)} |->
                      IF n \in DOMAIN forms THEN forms[n] ELSE Nd!Form(named(n))]
  <1>1. Nd!Mounted(l) = m
    BY DEF Nd!Mounted
  <1>2. {node.name : node \in Nd!ToSet(l)} = NamesOf(l)
    BY DEF Nd!ToSet, NamesOf
  <1>3. \A i \in DOMAIN l : l[i].name \in NamesOf(l)
    BY DEF NamesOf
  <1>4. ASSUME NEW i \in DOMAIN l PROVE named(l[i].name) = l[i]
    <2>1. l[i] \in Nd!ToSet(l)
      BY DEF Nd!ToSet
    <2>2. named(l[i].name) \in Nd!ToSet(l) /\ named(l[i].name).name = l[i].name
      BY <2>1
    <2> HIDE DEF named
    <2>3. PICK j \in DOMAIN l : named(l[i].name) = l[j]
      BY <2>2 DEF Nd!ToSet
    <2>4. NamedOnce(l) /\ l[j].name = l[i].name
      BY <2>2, <2>3 DEF NodeList
    <2> QED
      BY <2>3, <2>4 DEF NamedOnce
  <1> HIDE DEF named
  <1>5. /\ DOMAIN m = NamesOf(l)
        /\ \A n \in NamesOf(l) :
              m[n] = IF n \in DOMAIN forms THEN forms[n] ELSE Nd!Form(named(n))
    BY <1>2
  <1> HIDE DEF m
  <1> QED
    BY <1>1, <1>3, <1>4, <1>5

\* Every form is of a node.
FormsTyped(fs) == \A n \in DOMAIN fs : n \in Names /\ fs[n] \in NodeForms

LEMMA MountedTyped ==
    ASSUME NEW l, NodeList(l), l # NoData, FormsTyped(forms)
    PROVE  FormsTyped(Nd!Mounted(l)) /\ DOMAIN Nd!Mounted(l) = NamesOf(l)
  <1> DEFINE m == Nd!Mounted(l)
  <1>1. /\ DOMAIN m = NamesOf(l)
        /\ \A n \in NamesOf(l) : n \in DOMAIN forms => m[n] = forms[n]
        /\ \A i \in DOMAIN l : l[i].name \notin DOMAIN forms => m[l[i].name] = Nd!Form(l[i])
    BY MountedForms
  <1> HIDE DEF m
  <1>2. ASSUME NEW n \in DOMAIN m PROVE n \in Names /\ m[n] \in NodeForms
    <2>1. PICK i \in DOMAIN l : n = l[i].name
      BY <1>1 DEF NamesOf
    <2>2. l[i] \in Nd!Node /\ l[i].name \in Names
      BY NodeFields DEF NodeList
    <2>3. Nd!Form(l[i]) \in NodeForms
      BY <2>2, FormOfNode, Zenon
    <2>4. CASE n \in DOMAIN forms
      BY <1>1, <2>4 DEF FormsTyped
    <2>5. CASE n \notin DOMAIN forms
      BY <1>1, <2>1, <2>2, <2>3, <2>5
    <2> QED
      BY <2>4, <2>5
  <1> QED
    BY <1>1, <1>2 DEF FormsTyped, m

\* What is asked for is behind everything else.
LEMMA MutationSent ==
    ASSUME nodeFlight \in Seq(Mutations), nodeRequests \in Nat, nodeOpens \in Nat,
           NEW kind \in {"put", "post", "delete", "reconnect"}, NEW form_ \in NodeForms,
           Nd!Mutate(kind, form_)
    PROVE  LET last == Len(nodeFlight) + 1
           IN  /\ nodeFlight' \in Seq(Mutations) /\ Len(nodeFlight') = last
               /\ \A j \in DOMAIN nodeFlight' : j = last \/ j \in DOMAIN nodeFlight
               /\ nodeFlight'[last].kind = kind /\ nodeFlight'[last].state = "sent"
               /\ nodeFlight'[last].id = form_.id /\ nodeFlight'[last].status = form_.status
               /\ nodeFlight'[last].untouched => kind = "put" /\ ~form_.touched
               /\ nodeRequests' \in Nat /\ nodeRequests' > 0
  <1> DEFINE untouched == kind = "put" /\ ~form_.touched
             r == [kind |-> kind, id |-> form_.id, name |-> form_.name,
                   status |-> form_.status, state |-> "sent",
                   untouched |-> untouched, opened |-> nodeOpens]
  <1>1. /\ nodeFlight' = Append(nodeFlight, r) /\ nodeRequests' = nodeRequests + 1
    BY DEF Nd!Mutate
  <1>2. form_.touched \in BOOLEAN /\ form_.id \in Nat /\ form_.name \in Names /\ form_.status \in Nd!Status
    BY DEF NodeForms
  <1>3. untouched \in BOOLEAN /\ (untouched => kind = "put" /\ ~form_.touched)
    OBVIOUS
  <1> HIDE DEF untouched
  <1>4. r \in Mutations
    BY <1>2, <1>3 DEF Mutations
  <1>5. /\ r.kind = kind /\ r.state = "sent" /\ r.id = form_.id /\ r.status = form_.status
        /\ r.untouched = untouched
    OBVIOUS
  <1> HIDE DEF r
  <1>6. /\ nodeFlight' \in Seq(Mutations) /\ Len(nodeFlight') = Len(nodeFlight) + 1
        /\ nodeFlight'[Len(nodeFlight) + 1] = r
    BY <1>1, <1>4, AppendProperties
  <1>7. \A j \in DOMAIN nodeFlight' : j = Len(nodeFlight) + 1 \/ j \in DOMAIN nodeFlight
    BY <1>6, LenProperties
  <1> QED
    BY <1>1, <1>3, <1>5, <1>6, <1>7

LEMMA MutationServed ==
    ASSUME nodeFlight \in Seq(Mutations), NEW i \in DOMAIN nodeFlight, NEW ns,
           Nd!Served(i, ns)
    PROVE  /\ nodeFlight' \in Seq(Mutations) /\ Len(nodeFlight') = Len(nodeFlight)
           /\ DOMAIN nodeFlight' = DOMAIN nodeFlight /\ nodeFlight'[i].state = "ok"
           /\ nodeFlight[i].state = "sent"
           /\ \A j \in DOMAIN nodeFlight : j # i => nodeFlight'[j] = nodeFlight[j]
  <1> DEFINE r == [nodeFlight[i] EXCEPT !.state = "ok"]
  <1>1. nodeFlight' = [nodeFlight EXCEPT ![i] = r] /\ nodeFlight[i].state = "sent"
    BY Zenon DEF Nd!Served
  <1>2. nodeFlight[i] \in Mutations
    BY ElementIn
  <1>3. r \in Mutations /\ r.state = "ok"
    <2> DEFINE m == nodeFlight[i]
    <2>1. m \in Mutations
      BY <1>2
    <2>2. r = [m EXCEPT !.state = "ok"]
      OBVIOUS
    <2> HIDE DEF m, r
    <2>3. r.state = "ok"
      BY <2>1, <2>2 DEF Mutations
    <2>4. r \in Mutations
      BY <2>1, <2>2 DEF Mutations
    <2> QED
      BY <2>3, <2>4
  <1> HIDE DEF r
  <1>4. DOMAIN nodeFlight = 1 .. Len(nodeFlight)
    BY LenProperties
  <1> QED
    BY <1>1, <1>3, <1>4, ExceptSeq

LEMMA MutationGone ==
    ASSUME nodeFlight \in Seq(Mutations), NEW i \in DOMAIN nodeFlight,
           nodeFlight' = Nd!RemoveAt(nodeFlight, i)
    PROVE  nodeFlight' \in Seq(Mutations) /\ Len(nodeFlight') = Len(nodeFlight) - 1
  <1>1. nodeFlight' = Without(nodeFlight, i)
    BY DEF Nd!RemoveAt, Without
  <1> QED
    BY <1>1, Removal

(***************************************************************************)
(* What holds of the dialog also when the administrator is hasty.          *)
(***************************************************************************)
NodesTyped ==
    /\ NodeList(nodeServer)
    /\ nodes # NoData => NodeList(nodes)
    /\ fetch.state \in {"none", "sent", "back"} /\ NodeList(fetch.list)
    /\ fetch = [state |-> fetch.state, list |-> fetch.list]
    /\ nodeFlight \in Seq(Mutations)
    /\ nodeRequests \in Nat /\ nodeOpens \in Nat
    /\ FormsTyped(forms)
    /\ DOMAIN forms = IF isEditing /\ nodes # NoData THEN NamesOf(nodes) ELSE {}
    /\ nodeAccordions \subseteq Nat
    /\ nodeDeleting # NoNode => nodeDeleting \in Nd!Node /\ isEditing
    /\ isEditing \in BOOLEAN /\ nodeHasty \in BOOLEAN /\ overlooked \in BOOLEAN

LEMMA Fetches ==
    /\ Nd!NoFetch.state = "none" /\ Nd!NoFetch.list = << >>
    /\ Nd!SentFetch.state = "sent" /\ Nd!SentFetch.list = << >>
    /\ NodeList(Nd!NoFetch.list) /\ NodeList(Nd!SentFetch.list)
    /\ Nd!NoFetch = [state |-> Nd!NoFetch.state, list |-> Nd!NoFetch.list]
    /\ Nd!SentFetch = [state |-> Nd!SentFetch.state, list |-> Nd!SentFetch.list]
  BY EmptyNodeList DEF Nd!NoFetch, Nd!SentFetch

LEMMA NodesStart == Nd!Init => NodesTyped
  <1> SUFFICES ASSUME Nd!Init PROVE NodesTyped
    OBVIOUS
  <1> USE DashboardAssumption DEF Nd!Parameters
  <1>1. PICK named \in [1 .. Count -> Names] :
           /\ \A i, j \in 1 .. Count : named[i] = named[j] => i = j
           /\ nodeServer = [i \in 1 .. Count |->
                               [id |-> i, name |-> named[i], status |-> "connected"]]
    BY DEF Nd!Init
  <1>2. Count \in Nat
    OBVIOUS
  <1>3. "connected" \in Nd!Status
    BY DEF Nd!Status
  <1>4. DOMAIN nodeServer = 1 .. Count
    BY <1>1
  <1>5. \A i \in 1 .. Count : /\ nodeServer[i] \in Nd!Node /\ nodeServer[i].id = i
                              /\ nodeServer[i].name = named[i]
    BY <1>1, <1>2, <1>3 DEF Nd!Node
  <1>6. nodeServer \in Seq(Nd!Node)
    <2>1. nodeServer \in [1 .. Count -> Nd!Node]
      BY <1>1, <1>5
    <2> QED
      BY <2>1, <1>2, IsASeq
  <1>7. NodeList(nodeServer)
    BY <1>1, <1>2, <1>4, <1>5, <1>6 DEF NodeList, Numbered, NamedOnce
  <1>8. nodeFlight = << >> /\ forms = << >> /\ nodes = NoData /\ fetch = Nd!SentFetch
    BY DEF Nd!Init
  <1>9. nodeFlight \in Seq(Mutations) /\ DOMAIN forms = {}
    BY <1>8, EmptySeq
  <1>10. isEditing = FALSE
    BY DEF Nd!Init
  <1>11. isEditing \in BOOLEAN /\ nodeHasty \in BOOLEAN /\ overlooked \in BOOLEAN
    BY Zenon DEF Nd!Init
  <1>12. /\ nodeRequests \in Nat /\ nodeOpens \in Nat /\ nodeAccordions \subseteq Nat
         /\ nodeDeleting = NoNode
    BY DEF Nd!Init
  <1>13. /\ fetch.state \in {"none", "sent", "back"} /\ NodeList(fetch.list)
         /\ fetch = [state |-> fetch.state, list |-> fetch.list]
    BY <1>8, Fetches
  <1>14. DOMAIN forms = IF isEditing /\ nodes # NoData THEN NamesOf(nodes) ELSE {}
    BY <1>9, <1>10
  <1>15. FormsTyped(forms)
    BY <1>9 DEF FormsTyped
  <1> QED
    BY <1>7, <1>8, <1>9, <1>11, <1>12, <1>13, <1>14, <1>15 DEF NodesTyped

\* The administrator.
LEMMA ActingTyped ==
    ASSUME NodesTyped, Nd!Acts
    PROVE  nodeHasty' \in BOOLEAN /\ UNCHANGED <<nodeServer, nodes, fetch, overlooked>>
  BY DEF Nd!Acts

LEMMA SendingTyped ==
    ASSUME NodesTyped, NEW kind \in {"put", "post", "delete", "reconnect"},
           NEW form_ \in NodeForms, Nd!Mutate(kind, form_), Nd!Acts,
           UNCHANGED <<nodeOpens, isEditing, forms, nodeAccordions, nodeDeleting>>
    PROVE  NodesTyped'
  <1>1. nodeHasty' \in BOOLEAN /\ UNCHANGED <<nodeServer, nodes, fetch, overlooked>>
    BY ActingTyped
  <1>2. nodeFlight' \in Seq(Mutations) /\ nodeRequests' \in Nat
    <2>1. nodeFlight \in Seq(Mutations) /\ nodeRequests \in Nat /\ nodeOpens \in Nat
      BY DEF NodesTyped
    <2> QED
      BY <2>1, MutationSent
  <1> QED
    BY <1>1, <1>2 DEF NodesTyped

LEMMA FormAt ==
    ASSUME NodesTyped, NEW i \in Nd!Places, isEditing
    PROVE  /\ nodes # NoData /\ NodeList(nodes) /\ i \in DOMAIN nodes /\ nodes[i] \in Nd!Node
           /\ nodes[i].name \in DOMAIN forms /\ forms[nodes[i].name] \in NodeForms /\ i \in Nat
  <1>1. nodes # NoData /\ NodeList(nodes) /\ i \in DOMAIN nodes
    BY DEF Nd!Places, NodesTyped
  <1>2. nodes[i] \in Nd!Node /\ i \in Nat
    BY <1>1, NodeFields DEF NodeList
  <1>3. nodes[i].name \in DOMAIN forms
    BY <1>1 DEF NodesTyped, NamesOf
  <1> QED
    BY <1>1, <1>2, <1>3 DEF NodesTyped, FormsTyped

LEMMA OpeningTyped == ASSUME NodesTyped, Nd!OnEditingNodes PROVE NodesTyped'
  <1>1. nodeHasty' \in BOOLEAN /\ UNCHANGED <<nodeServer, nodes, fetch, overlooked>>
    BY ActingTyped DEF Nd!OnEditingNodes
  <1>2. /\ isEditing' = TRUE /\ nodeOpens' \in Nat /\ forms' = Nd!Mounted(nodes)
        /\ UNCHANGED <<nodeFlight, nodeAccordions, nodeDeleting, nodeRequests>>
    BY DEF Nd!OnEditingNodes, NodesTyped
  <1>3. FormsTyped(forms') /\ DOMAIN forms' = IF nodes # NoData THEN NamesOf(nodes) ELSE {}
    <2>1. CASE nodes = NoData
      <3>1. forms' = << >> /\ DOMAIN << >> = {}
        BY <1>2, <2>1, EmptySeq DEF Nd!Mounted
      <3> QED
        BY <2>1, <3>1 DEF FormsTyped
    <2>2. CASE nodes # NoData
      <3>1. NodeList(nodes) /\ FormsTyped(forms)
        BY <2>2 DEF NodesTyped
      <3> QED
        BY <1>2, <2>2, <3>1, MountedTyped
    <2> QED
      BY <2>1, <2>2
  <1> QED
    BY <1>1, <1>2, <1>3 DEF NodesTyped

LEMMA ClosingTyped == ASSUME NodesTyped, Nd!OnClose PROVE NodesTyped'
  <1>1. nodeHasty' \in BOOLEAN /\ UNCHANGED <<nodeServer, nodes, fetch, overlooked>>
    BY ActingTyped DEF Nd!OnClose
  <1>2. /\ isEditing' = FALSE /\ forms' = << >> /\ nodeAccordions' = {} /\ nodeDeleting = NoNode
        /\ UNCHANGED <<nodeFlight, nodeOpens, nodeDeleting, nodeRequests>>
    BY DEF Nd!OnClose, Nd!DialogFree
  <1>3. DOMAIN forms' = {} /\ FormsTyped(forms')
    BY <1>2, EmptySeq DEF FormsTyped
  <1>4. DOMAIN forms' = IF isEditing' /\ nodes' # NoData THEN NamesOf(nodes') ELSE {}
    BY <1>2, <1>3
  <1>5. isEditing' \in BOOLEAN
    BY <1>2, Zenon
  <1>6. /\ NodeList(nodeServer') /\ (nodes' # NoData => NodeList(nodes'))
        /\ fetch'.state \in {"none", "sent", "back"} /\ NodeList(fetch'.list)
        /\ fetch' = [state |-> fetch'.state, list |-> fetch'.list]
        /\ nodeFlight' \in Seq(Mutations)
        /\ nodeRequests' \in Nat /\ nodeOpens' \in Nat /\ overlooked' \in BOOLEAN
        /\ nodeDeleting' = NoNode /\ nodeAccordions' \subseteq Nat
    BY <1>1, <1>2 DEF NodesTyped
  <1> QED
    BY <1>1, <1>3, <1>4, <1>5, <1>6 DEF NodesTyped

LEMMA TogglingTyped ==
    ASSUME NodesTyped, NEW i \in Nat, Nd!ToggleAccordion(i) PROVE NodesTyped'
  <1>1. nodeHasty' \in BOOLEAN /\ UNCHANGED <<nodeServer, nodes, fetch, overlooked>>
    BY ActingTyped DEF Nd!ToggleAccordion
  <1>2. /\ nodeAccordions' \subseteq Nat
        /\ UNCHANGED <<nodeFlight, nodeOpens, isEditing, forms, nodeDeleting, nodeRequests>>
    BY DEF Nd!ToggleAccordion, NodesTyped
  <1> QED
    BY <1>1, <1>2 DEF NodesTyped

\* The switch and the name of a form.
LEMMA FillingTyped ==
    ASSUME NodesTyped, NEW n \in DOMAIN forms, NEW form_ \in NodeForms,
           DOMAIN forms' = DOMAIN forms, forms'[n] = form_,
           \A m \in DOMAIN forms : m # n => forms'[m] = forms[m], Nd!Acts,
           UNCHANGED <<nodeFlight, nodeOpens, isEditing, nodeAccordions, nodeDeleting, nodeRequests>>
    PROVE  NodesTyped'
  <1>1. nodeHasty' \in BOOLEAN /\ UNCHANGED <<nodeServer, nodes, fetch, overlooked>>
    BY ActingTyped
  <1>2. DOMAIN forms' = DOMAIN forms /\ FormsTyped(forms')
    BY DEF NodesTyped, FormsTyped
  <1> QED
    BY <1>1, <1>2 DEF NodesTyped

\* What the switch makes of a form.
Switched(form_) ==
    [form_ EXCEPT !.touched = TRUE,
                  !.status = IF form_.status = "disabled" THEN "connected" ELSE "disabled"]

LEMMA SwitchedForm ==
    ASSUME NEW form_ \in NodeForms
    PROVE  /\ Switched(form_) \in NodeForms /\ Switched(form_).id = form_.id
           /\ Switched(form_).touched = TRUE
  <1> DEFINE status == IF form_.status = "disabled" THEN "connected" ELSE "disabled"
             on == TRUE
             first == [form_ EXCEPT !.touched = on]
             second == [first EXCEPT !.status = status]
  <1>1. status \in Nd!Status
    BY DEF Nd!Status
  <1> HIDE DEF status
  <1>2. on \in BOOLEAN
    OBVIOUS
  <1> HIDE DEF on
  <1>3. first \in NodeForms /\ first.id = form_.id /\ first.touched = on
    BY <1>2 DEF NodeForms
  <1> HIDE DEF first
  <1>4. second \in NodeForms /\ second.id = first.id /\ second.touched = first.touched
    BY <1>1, <1>3 DEF NodeForms
  <1>5. Switched(form_) = second
    BY Zenon DEF Switched, first, status, on
  <1> HIDE DEF second
  <1> QED
    BY <1>3, <1>4, <1>5 DEF on


LEMMA Switching ==
    ASSUME NodesTyped, NEW i \in Nd!Places, Nd!SwitchStatus(i)
    PROVE  LET n == nodes[i].name
           IN  /\ n \in DOMAIN forms /\ ~forms[n].touched /\ isEditing
               /\ DOMAIN forms' = DOMAIN forms /\ forms'[n] = Switched(forms[n])
               /\ \A m \in DOMAIN forms : m # n => forms'[m] = forms[m]
               /\ Nd!Acts
               /\ UNCHANGED <<nodeFlight, nodeOpens, isEditing, nodeAccordions, nodeDeleting,
                              nodeRequests>>
  <1> DEFINE n == nodes[i].name
             first == [forms[n] EXCEPT !.touched = TRUE]
             t == [forms EXCEPT ![n] = first]
             second == [t[n] EXCEPT !.status = IF t[n].status = "disabled" THEN "connected"
                                               ELSE "disabled"]
  <1>1. isEditing /\ ~forms[n].touched
    BY DEF Nd!SwitchStatus, Nd!Opened, Nd!DialogFree
  <1>2. n \in DOMAIN forms /\ forms[n] \in NodeForms
    BY <1>1, FormAt
  <1>3. forms' = [t EXCEPT ![n] = second]
    BY Zenon DEF Nd!SwitchStatus
  <1>4. t[n] = first /\ DOMAIN t = DOMAIN forms /\ \A m \in DOMAIN forms : m # n => t[m] = forms[m]
    BY <1>2
  <1> HIDE DEF first, t
  <1>5. DOMAIN forms' = DOMAIN forms /\ \A m \in DOMAIN forms : m # n => forms'[m] = forms[m]
    BY <1>3, <1>4
  <1>6. forms'[n] = second
    BY <1>2, <1>3, <1>4
  <1>7. second = [first EXCEPT !.status = IF first.status = "disabled" THEN "connected"
                                          ELSE "disabled"]
    BY <1>4, Zenon
  <1> HIDE DEF second
  <1>8. first.status = forms[n].status
    BY <1>2 DEF first, NodeForms
  <1>9. second = [first EXCEPT !.status = IF forms[n].status = "disabled" THEN "connected"
                                          ELSE "disabled"]
    BY <1>7, <1>8, Zenon
  <1>10. second = Switched(forms[n])
    BY <1>9, Zenon DEF first, Switched
  <1>11. /\ Nd!Acts
         /\ UNCHANGED <<nodeFlight, nodeOpens, isEditing, nodeAccordions, nodeDeleting,
                        nodeRequests>>
    BY DEF Nd!SwitchStatus
  <1> QED
    BY <1>1, <1>2, <1>5, <1>6, <1>10, <1>11

LEMMA NamingNode ==
    ASSUME NodesTyped, NEW i \in Nd!Places, NEW name \in Names, Nd!TypeName(i, name)
    PROVE  LET n == nodes[i].name
           IN  /\ n \in DOMAIN forms /\ isEditing
               /\ DOMAIN forms' = DOMAIN forms /\ forms'[n] \in NodeForms
               /\ forms'[n].id = forms[n].id /\ forms'[n].status = forms[n].status
               /\ forms'[n].touched = forms[n].touched
               /\ \A m \in DOMAIN forms : m # n => forms'[m] = forms[m]
               /\ Nd!Acts
               /\ UNCHANGED <<nodeFlight, nodeOpens, isEditing, nodeAccordions, nodeDeleting,
                              nodeRequests>>
  <1> DEFINE n == nodes[i].name
             named == [forms[n] EXCEPT !.name = name]
  <1>1. isEditing
    BY DEF Nd!TypeName, Nd!Opened, Nd!DialogFree
  <1>2. n \in DOMAIN forms /\ forms[n] \in NodeForms
    BY <1>1, FormAt
  <1>3. forms' = [forms EXCEPT ![n] = named]
    BY Zenon DEF Nd!TypeName
  <1>4. /\ named \in NodeForms /\ named.id = forms[n].id /\ named.status = forms[n].status
        /\ named.touched = forms[n].touched
    BY <1>2 DEF NodeForms
  <1> HIDE DEF named
  <1>5. /\ DOMAIN forms' = DOMAIN forms /\ forms'[n] = named
        /\ \A m \in DOMAIN forms : m # n => forms'[m] = forms[m]
    BY <1>2, <1>3
  <1>6. /\ Nd!Acts
        /\ UNCHANGED <<nodeFlight, nodeOpens, isEditing, nodeAccordions, nodeDeleting,
                       nodeRequests>>
    BY DEF Nd!TypeName
  <1> QED
    BY <1>1, <1>2, <1>4, <1>5, <1>6

\* The four mutations, and with what they are sent.
Sends(kind, form_) ==
    /\ Nd!Mutate(kind, form_) /\ Nd!Acts
    /\ UNCHANGED <<nodeOpens, isEditing, forms, nodeAccordions, nodeDeleting>>

LEMMA Updating ==
    ASSUME NodesTyped, NEW i \in Nd!Places, Nd!UpdateNode(i)
    PROVE  isEditing /\ forms[nodes[i].name] \in NodeForms /\ Sends("put", forms[nodes[i].name])
  <1>1. isEditing /\ Sends("put", forms[nodes[i].name])
    BY DEF Nd!UpdateNode, Nd!Opened, Nd!DialogFree, Sends
  <1> QED
    BY <1>1, FormAt

LEMMA SendingOthers ==
    ASSUME NodesTyped,
           \/ \E i \in Nd!Places : Nd!ReconnectNode(i)
           \/ \E name \in Names : Nd!AddNode(name)
           \/ Nd!OnDelete
    PROVE  /\ isEditing
           /\ \E kind \in {"post", "delete", "reconnect"}, form_ \in NodeForms : Sends(kind, form_)
  <1>1. ASSUME NEW i \in Nd!Places, Nd!ReconnectNode(i)
        PROVE  isEditing /\ Nd!Form(nodes[i]) \in NodeForms /\ Sends("reconnect", Nd!Form(nodes[i]))
    <2>1. isEditing /\ Sends("reconnect", Nd!Form(nodes[i]))
      BY <1>1 DEF Nd!ReconnectNode, Nd!Opened, Nd!DialogFree, Sends
    <2>2. nodes[i] \in Nd!Node
      BY <2>1, FormAt
    <2> QED
      BY <2>1, <2>2, FormOfNode, Zenon
  <1>2. ASSUME NEW name \in Names, Nd!AddNode(name)
        PROVE  /\ isEditing
               /\ Nd!Form([Nd!New EXCEPT !.name = name]) \in NodeForms
               /\ Sends("post", Nd!Form([Nd!New EXCEPT !.name = name]))
    <2>1. isEditing
      BY <1>2 DEF Nd!AddNode, Nd!Opened, Nd!DialogFree
    <2>2. Sends("post", Nd!Form([Nd!New EXCEPT !.name = name]))
      BY <1>2, Zenon DEF Nd!AddNode, Sends
    <2> QED
      BY <2>1, <2>2, FormOfNewNode, Zenon
  <1>3. ASSUME Nd!OnDelete
        PROVE  isEditing /\ Nd!Form(nodeDeleting) \in NodeForms /\ Sends("delete", Nd!Form(nodeDeleting))
    <2>1. nodeDeleting \in Nd!Node /\ isEditing
      BY <1>3 DEF Nd!OnDelete, NodesTyped
    <2>2. Sends("delete", Nd!Form(nodeDeleting))
      BY <1>3 DEF Nd!OnDelete, Sends
    <2> QED
      BY <2>1, <2>2, FormOfNode, Zenon
  <1> QED
    BY <1>1, <1>2, <1>3, Zenon

\* The query and the server.
LEMMA AskingTyped == ASSUME NodesTyped, Nd!RefetchInterval PROVE NodesTyped'
  BY Fetches DEF Nd!RefetchInterval, NodesTyped

LEMMA ListingTyped == ASSUME NodesTyped, Nd!ServeList PROVE NodesTyped'
  <1>1. /\ fetch' = [state |-> "back", list |-> nodeServer]
        /\ UNCHANGED <<nodeServer, nodes, nodeFlight, nodeOpens, isEditing, forms,
                       nodeAccordions, nodeDeleting, nodeRequests, nodeHasty, overlooked>>
    BY DEF Nd!ServeList
  <1>2. /\ fetch'.state = "back" /\ fetch'.list = nodeServer
        /\ fetch' = [state |-> fetch'.state, list |-> fetch'.list]
    BY <1>1
  <1> QED
    BY <1>1, <1>2 DEF NodesTyped

LEMMA ArrivingTyped == ASSUME NodesTyped, Nd!NodesArrive PROVE NodesTyped'
  <1>1. /\ nodes' = fetch.list /\ fetch' = Nd!NoFetch
        /\ forms' = IF isEditing THEN Nd!Mounted(nodes') ELSE << >>
        /\ UNCHANGED <<nodeServer, nodeFlight, nodeOpens, isEditing, nodeAccordions,
                       nodeDeleting, nodeRequests, nodeHasty, overlooked>>
    BY DEF Nd!NodesArrive
  <1>2. NodeList(nodes') /\ nodes' # NoData
    BY <1>1, DashboardAssumption DEF NodesTyped, NodeList, Nd!Parameters
  <1>3. FormsTyped(forms') /\ DOMAIN forms' = IF isEditing THEN NamesOf(nodes') ELSE {}
    <2>1. CASE isEditing
      <3>1. FormsTyped(forms)
        BY DEF NodesTyped
      <3> QED
        BY <1>1, <1>2, <2>1, <3>1, MountedTyped
    <2>2. CASE ~isEditing
      BY <1>1, <2>2, EmptySeq DEF FormsTyped
    <2> QED
      BY <2>1, <2>2
  <1> QED
    BY <1>1, <1>2, <1>3, Fetches DEF NodesTyped

LEMMA FetchFailingTyped == ASSUME NodesTyped, Nd!FetchFails PROVE NodesTyped'
  <1>1. overlooked' \in BOOLEAN
    BY Zenon DEF Nd!FetchFails
  <1>2. /\ fetch' = Nd!NoFetch
        /\ UNCHANGED <<nodeServer, nodes, nodeFlight, nodeOpens, isEditing, forms,
                       nodeAccordions, nodeDeleting, nodeRequests, nodeHasty>>
    BY DEF Nd!FetchFails
  <1> QED
    BY <1>1, <1>2, Fetches DEF NodesTyped

LEMMA ServingTyped ==
    ASSUME NodesTyped, NEW i \in DOMAIN nodeFlight,
           Nd!ServePut(i) \/ Nd!ServePost(i) \/ Nd!ServeDelete(i) \/ Nd!ServeReconnect(i)
    PROVE  NodesTyped' /\ \E ns : Nd!Served(i, ns)
  <1>1. \E ns : Nd!Served(i, ns)
    BY Zenon DEF Nd!ServePut, Nd!ServePost, Nd!ServeDelete, Nd!ServeReconnect
  <1>2. NodeList(nodeServer) /\ nodeFlight \in Seq(Mutations)
    BY DEF NodesTyped
  <1>3. nodeFlight[i] \in Mutations
    BY <1>2, ElementIn
  <1>4. NodeList(nodeServer')
    BY <1>2, <1>3, PutServed, PostServed, DeleteServed, ReconnectServed
  <1>5. nodeFlight' \in Seq(Mutations)
    BY <1>1, <1>2, MutationServed
  <1>6. UNCHANGED <<nodes, fetch, nodeOpens, isEditing, forms, nodeAccordions, nodeDeleting,
                    nodeRequests, nodeHasty, overlooked>>
    BY <1>1 DEF Nd!Served
  <1> QED
    BY <1>1, <1>4, <1>5, <1>6 DEF NodesTyped

LEMMA BreakingTyped ==
    ASSUME NodesTyped, NEW i \in DOMAIN nodeServer, Nd!ConnectionBreaks(i) PROVE NodesTyped'
  <1>1. NodeList(nodeServer')
    BY Breaking DEF NodesTyped
  <1>2. UNCHANGED <<nodes, fetch, nodeFlight, nodeOpens, isEditing, forms, nodeAccordions,
                    nodeDeleting, nodeRequests, nodeHasty, overlooked>>
    BY DEF Nd!ConnectionBreaks
  <1> QED
    BY <1>1, <1>2 DEF NodesTyped

\* What every answer does.
LEMMA Answers ==
    ASSUME NodesTyped, NEW i \in DOMAIN nodeFlight,
           Nd!Updated(i) \/ Nd!Added(i) \/ Nd!Deleted(i)
    PROVE  /\ nodeFlight[i].state = "ok" /\ nodeFlight' = Nd!RemoveAt(nodeFlight, i)
           /\ Nd!InvalidateQueries
           /\ nodeAccordions' \subseteq Nat
           /\ nodeDeleting' = nodeDeleting \/ nodeDeleting' = NoNode
           /\ UNCHANGED <<nodeServer, nodes, nodeOpens, isEditing, forms, nodeRequests, nodeHasty>>
  BY DEF Nd!Updated, Nd!Added, Nd!Deleted, Nd!Arrives, NodesTyped

LEMMA AnsweringTyped ==
    ASSUME NodesTyped, NEW i \in DOMAIN nodeFlight,
           Nd!Updated(i) \/ Nd!Added(i) \/ Nd!Deleted(i)
    PROVE  NodesTyped'
  <1>1. nodeFlight' \in Seq(Mutations)
    BY Answers, MutationGone DEF NodesTyped
  <1>2. overlooked' \in BOOLEAN
    <2>1. Nd!InvalidateQueries
      BY Answers
    <2> QED
      BY <2>1, Zenon DEF Nd!InvalidateQueries
  <1>3. fetch' = Nd!SentFetch \/ fetch' = fetch
    BY Answers DEF Nd!InvalidateQueries
  <1>4. /\ fetch'.state \in {"none", "sent", "back"} /\ NodeList(fetch'.list)
        /\ fetch' = [state |-> fetch'.state, list |-> fetch'.list]
    BY <1>3, Fetches DEF NodesTyped
  <1> QED
    BY <1>1, <1>2, <1>4, Answers DEF NodesTyped

LEMMA FailingTyped ==
    ASSUME NodesTyped, NEW i \in DOMAIN nodeFlight, Nd!MutationFails(i) PROVE NodesTyped'
  <1>1. nodeFlight' \in Seq(Mutations)
    BY MutationGone DEF NodesTyped, Nd!MutationFails
  <1>2. overlooked' \in BOOLEAN
    BY Zenon DEF Nd!MutationFails
  <1>3. UNCHANGED <<nodeServer, nodes, fetch, nodeOpens, isEditing, forms, nodeAccordions,
                    nodeDeleting, nodeRequests, nodeHasty>>
    BY DEF Nd!MutationFails
  <1> QED
    BY <1>1, <1>2, <1>3 DEF NodesTyped

\* Which node is to be deleted.
LEMMA DeletingTyped ==
    ASSUME NodesTyped, Nd!CancelDelete \/ \E i \in Nd!Places : Nd!SetDeletingNode(i)
    PROVE  NodesTyped'
  <1>1. Nd!Acts /\ UNCHANGED <<nodeFlight, nodeOpens, isEditing, forms, nodeAccordions, nodeRequests>>
    BY DEF Nd!CancelDelete, Nd!SetDeletingNode
  <1>2. nodeHasty' \in BOOLEAN /\ UNCHANGED <<nodeServer, nodes, fetch, overlooked>>
    BY <1>1, ActingTyped
  <1>3. nodeDeleting' # NoNode => nodeDeleting' \in Nd!Node /\ isEditing
    <2>1. CASE Nd!CancelDelete
      BY <2>1 DEF Nd!CancelDelete
    <2>2. ASSUME NEW i \in Nd!Places, Nd!SetDeletingNode(i)
          PROVE  nodeDeleting' \in Nd!Node /\ isEditing
      <3>1. isEditing /\ nodeDeleting' = nodes[i]
        BY <2>2 DEF Nd!SetDeletingNode, Nd!Opened, Nd!DialogFree
      <3> QED
        BY <3>1, FormAt
    <2> QED
      BY <2>1, <2>2
  <1> QED
    BY <1>1, <1>2, <1>3 DEF NodesTyped

LEMMA PlacesAreNumbers ==
    ASSUME NodesTyped
    PROVE  /\ (IF nodes = NoData THEN 1 ELSE Len(nodes) + 1) \in Nat
           /\ \A i \in Nd!Places : i \in Nat
  <1>1. CASE nodes = NoData
    BY <1>1 DEF Nd!Places
  <1>2. CASE nodes # NoData
    <2>1. nodes \in Seq(Nd!Node)
      BY <1>2 DEF NodesTyped, NodeList
    <2>2. Len(nodes) \in Nat /\ DOMAIN nodes = 1 .. Len(nodes)
      BY <2>1, LenProperties
    <2> QED
      BY <1>2, <2>2 DEF Nd!Places
  <1> QED
    BY <1>1, <1>2

LEMMA NodesStep == NodesTyped /\ [Nd!Next]_(Nd!vars) => NodesTyped'
  <1> SUFFICES ASSUME NodesTyped, [Nd!Next]_(Nd!vars) PROVE NodesTyped'
    OBVIOUS
  <1>1. CASE Nd!RefetchInterval \/ Nd!ServeList \/ Nd!NodesArrive \/ Nd!FetchFails
    BY <1>1, AskingTyped, ListingTyped, ArrivingTyped, FetchFailingTyped
  <1>2. ASSUME NEW i \in DOMAIN nodeFlight,
               Nd!ServePut(i) \/ Nd!ServePost(i) \/ Nd!ServeDelete(i) \/ Nd!ServeReconnect(i)
        PROVE  NodesTyped'
    BY <1>2, ServingTyped
  <1>3. ASSUME NEW i \in DOMAIN nodeFlight, Nd!Updated(i) \/ Nd!Added(i) \/ Nd!Deleted(i)
        PROVE  NodesTyped'
    BY <1>3, AnsweringTyped
  <1>4. ASSUME NEW i \in DOMAIN nodeFlight, Nd!MutationFails(i) PROVE NodesTyped'
    BY <1>4, FailingTyped
  <1>5. ASSUME NEW i \in DOMAIN nodeServer, Nd!ConnectionBreaks(i) PROVE NodesTyped'
    BY <1>5, BreakingTyped
  <1>6. CASE Nd!OnEditingNodes \/ Nd!OnClose
    BY <1>6, OpeningTyped, ClosingTyped
  <1>7. CASE Nd!CancelDelete \/ \E i \in Nd!Places : Nd!SetDeletingNode(i)
    BY <1>7, DeletingTyped
  <1>8. ASSUME NEW i \in Nat, Nd!ToggleAccordion(i) PROVE NodesTyped'
    BY <1>8, TogglingTyped
  <1>9. ASSUME NEW i \in Nd!Places, Nd!SwitchStatus(i) PROVE NodesTyped'
    <2> DEFINE n == nodes[i].name
    <2>1. /\ n \in DOMAIN forms /\ DOMAIN forms' = DOMAIN forms
          /\ forms'[n] = Switched(forms[n]) /\ \A m \in DOMAIN forms : m # n => forms'[m] = forms[m]
          /\ Nd!Acts
          /\ UNCHANGED <<nodeFlight, nodeOpens, isEditing, nodeAccordions, nodeDeleting,
                         nodeRequests>>
      BY <1>9, Switching
    <2> HIDE DEF n
    <2>2. Switched(forms[n]) \in NodeForms
      <3>1. forms[n] \in NodeForms
        BY <2>1 DEF NodesTyped, FormsTyped
      <3> QED
        BY <3>1, SwitchedForm, Zenon
    <2> QED
      BY <2>1, <2>2, FillingTyped
  <1>10. ASSUME NEW i \in Nd!Places, NEW name \in Names, Nd!TypeName(i, name) PROVE NodesTyped'
    <2> DEFINE n == nodes[i].name
    <2>1. /\ n \in DOMAIN forms /\ DOMAIN forms' = DOMAIN forms
          /\ forms'[n] \in NodeForms /\ \A m \in DOMAIN forms : m # n => forms'[m] = forms[m]
          /\ Nd!Acts
          /\ UNCHANGED <<nodeFlight, nodeOpens, isEditing, nodeAccordions, nodeDeleting,
                         nodeRequests>>
      BY <1>10, NamingNode
    <2> HIDE DEF n
    <2> QED
      BY <2>1, FillingTyped
  <1>11. ASSUME NEW i \in Nd!Places, Nd!UpdateNode(i) PROVE NodesTyped'
    BY <1>11, Updating, SendingTyped DEF Sends
  <1>12. CASE \/ \E i \in Nd!Places : Nd!ReconnectNode(i)
              \/ \E name \in Names : Nd!AddNode(name)
              \/ Nd!OnDelete
    <2>1. PICK kind \in {"post", "delete", "reconnect"}, form_ \in NodeForms : Sends(kind, form_)
      BY <1>12, SendingOthers
    <2> QED
      BY <2>1, SendingTyped DEF Sends
  <1>13. CASE UNCHANGED Nd!vars
    BY <1>13 DEF Nd!vars, NodesTyped
  <1> QED
    BY <1>1, <1>2, <1>3, <1>4, <1>5, <1>6, <1>7, <1>8, <1>9, <1>10, <1>11, <1>12, <1>13,
       PlacesAreNumbers DEF Nd!Next

LEMMA NodesAreTyped == Nd!Spec => []NodesTyped
  BY NodesStart, NodesStep, PTL DEF Nd!Spec

\* What the invariant of the dialog says of the types.
LEMMA NodesTypes == NodesTyped => Nd!TypeOK
  <1> SUFFICES ASSUME NodesTyped PROVE Nd!TypeOK
    OBVIOUS
  <1>1. nodeServer \in Seq(Nd!Node) /\ (nodes = NoData \/ nodes \in Seq(Nd!Node))
    BY DEF NodesTyped, NodeList
  <1>2. fetch \in [state : {"none", "sent", "back"}, list : Seq(Nd!Node)]
    <2>1. /\ fetch.state \in {"none", "sent", "back"} /\ fetch.list \in Seq(Nd!Node)
          /\ fetch = [state |-> fetch.state, list |-> fetch.list]
      BY DEF NodesTyped, NodeList
    <2> QED
      BY <2>1, Zenon
  <1>3. \A n \in DOMAIN forms :
           forms[n] \in [id : Nat, name : Names, status : Nd!Status, touched : BOOLEAN]
    BY DEF NodesTyped, FormsTyped, NodeForms
  <1>4. /\ nodeAccordions \subseteq Nat /\ (nodeDeleting = NoNode \/ nodeDeleting \in Nd!Node)
        /\ nodeOpens \in Nat /\ nodeRequests \in Nat
    BY DEF NodesTyped
  <1>5. {isEditing, nodeHasty, overlooked} \subseteq BOOLEAN
    BY DEF NodesTyped
  <1>6. \A i \in DOMAIN nodeFlight :
           /\ nodeFlight[i].kind \in {"put", "post", "delete", "reconnect"}
           /\ nodeFlight[i].state \in {"sent", "ok"}
    <2>1. ASSUME NEW i \in DOMAIN nodeFlight PROVE nodeFlight[i] \in Mutations
      BY ElementIn DEF NodesTyped
    <2> QED
      BY <2>1 DEF Mutations
  <1> QED
    BY <1>1, <1>2, <1>3, <1>4, <1>5, <1>6 DEF Nd!TypeOK

(***************************************************************************)
(* What holds while the administrator is not hasty and no answer is        *)
(* missing: one mutation at a time, and the list is there before the next. *)
(***************************************************************************)
SomeIs(state) == \E i \in DOMAIN nodeFlight : nodeFlight[i].state = state

OneByOne ==
    /\ Len(nodeFlight) <= 1
    /\ nodeRequests = 0 => Len(nodeFlight) = 0
    /\ nodes = NoData => nodeRequests = 0

\* Before a mutation is served, and when the list after it is there, the list shown is
\* the server's.
ListSeen ==
    nodes # NoData /\ ~SomeIs("ok") /\ (fetch = Nd!NoFetch \/ nodeRequests = 0 \/ SomeIs("sent"))
        => SameNodes(nodes, nodeServer)

\* A list on its way back is the server's, unless a mutation was served meanwhile: then
\* it is the one shown.
ListFresh ==
    fetch.state = "back" =>
        \/ SameNodes(fetch.list, nodeServer)
        \/ SomeIs("ok") /\ nodes # NoData /\ SameNodes(fetch.list, nodes)

\* The form of that name is of this node, and is off if the node is.
Agrees(fs, node) ==
    node.name \in DOMAIN fs =>
        /\ fs[node.name].id = node.id
        /\ ~fs[node.name].touched => (Off(fs[node.name]) <=> Off(node))

FormsAgree ==
    isEditing /\ nodes # NoData =>
        /\ \A i \in DOMAIN nodes : Agrees(forms, nodes[i])
        /\ \A k \in DOMAIN nodeServer : Agrees(forms, nodeServer[k])

\* A put that was not served yet has what the form of its node has.
PutOfForm(put) ==
    /\ isEditing /\ nodes # NoData
    /\ \A k \in DOMAIN nodeServer :
          nodeServer[k].id = put.id =>
              /\ nodeServer[k].name \in DOMAIN forms
              /\ forms[nodeServer[k].name].status = put.status
              /\ put.untouched => ~forms[nodeServer[k].name].touched

PutsMatch ==
    \A i \in DOMAIN nodeFlight :
        nodeFlight[i].kind = "put" /\ nodeFlight[i].state = "sent" => PutOfForm(nodeFlight[i])

NodesHeld == OneByOne /\ ListSeen /\ ListFresh /\ FormsAgree /\ PutsMatch

NodesInv == NodesTyped /\ (~nodeHasty /\ ~overlooked => NodesHeld)

LEMMA EmptyFlight ==
    ASSUME NodesTyped, Len(nodeFlight) = 0 \/ nodeFlight = << >>
    PROVE  DOMAIN nodeFlight = {} /\ Len(nodeFlight) = 0 /\ ~SomeIs("ok") /\ ~SomeIs("sent") /\ PutsMatch
  <1>1. DOMAIN nodeFlight = {} /\ Len(nodeFlight) = 0
    BY LenProperties, EmptySeq DEF NodesTyped
  <1> QED
    BY <1>1 DEF SomeIs, PutsMatch

\* The only mutation on its way.
LEMMA OnlyMutation ==
    ASSUME NodesTyped, OneByOne, NEW i \in DOMAIN nodeFlight
    PROVE  /\ \A j \in DOMAIN nodeFlight : j = i
           /\ Len(nodeFlight) = 1 /\ nodeRequests # 0 /\ nodes # NoData
  <1>1. DOMAIN nodeFlight = 1 .. Len(nodeFlight) /\ Len(nodeFlight) \in Nat
    BY LenProperties DEF NodesTyped
  <1>2. Len(nodeFlight) = 1
    BY <1>1 DEF OneByOne
  <1> QED
    BY <1>1, <1>2 DEF OneByOne

LEMMA ListsAreSequences ==
    ASSUME NodesTyped
    PROVE  /\ nodeServer \in Seq(Nd!Node) /\ fetch.list \in Seq(Nd!Node)
           /\ nodes # NoData => nodes \in Seq(Nd!Node)
  BY DEF NodesTyped, NodeList

LEMMA QuietlyHeld ==
    ASSUME NodesHeld,
           UNCHANGED <<nodeServer, nodes, fetch, nodeFlight, forms, isEditing, nodeRequests>>
    PROVE  NodesHeld'
  BY DEF NodesHeld, OneByOne, ListSeen, ListFresh, FormsAgree, PutsMatch, PutOfForm, SomeIs

\* The administrator, who waits.
LEMMA ActingCalmly ==
    ASSUME NodesTyped, Nd!Acts, ~nodeHasty'
    PROVE  /\ DOMAIN nodeFlight = {} /\ Len(nodeFlight) = 0
           /\ ~SomeIs("ok") /\ ~SomeIs("sent") /\ PutsMatch
           /\ fetch = Nd!NoFetch \/ nodeRequests = 0
           /\ isEditing => nodes # NoData
           /\ UNCHANGED <<nodeServer, nodes, fetch>>
  <1>1. /\ nodeFlight = << >> /\ (fetch = Nd!NoFetch \/ ~(nodeRequests > 0))
        /\ isEditing => nodes # NoData
    BY DEF Nd!Acts
  <1>2. nodeRequests = 0 \/ nodeRequests > 0
    BY DEF NodesTyped
  <1>3. UNCHANGED <<nodeServer, nodes, fetch>>
    BY DEF Nd!Acts
  <1> QED
    BY <1>1, <1>2, <1>3, EmptyFlight

LEMMA OpeningHeld ==
    ASSUME NodesTyped, NodesHeld, Nd!OnEditingNodes, ~nodeHasty'
    PROVE  NodesHeld'
  <1>1. /\ DOMAIN nodeFlight = {} /\ ~SomeIs("ok") /\ (fetch = Nd!NoFetch \/ nodeRequests = 0)
        /\ UNCHANGED <<nodeServer, nodes, fetch>>
    BY ActingCalmly DEF Nd!OnEditingNodes
  <1>2. /\ forms' = Nd!Mounted(nodes) /\ ~isEditing /\ UNCHANGED <<nodeFlight, nodeRequests>>
    BY DEF Nd!OnEditingNodes
  <1>3. OneByOne' /\ ListSeen' /\ ListFresh'
    BY <1>1, <1>2 DEF NodesHeld, OneByOne, ListSeen, ListFresh, SomeIs
  <1>4. PutsMatch'
    BY <1>1, <1>2 DEF PutsMatch
  <1>5. ASSUME nodes # NoData
        PROVE  /\ \A i \in DOMAIN nodes : Agrees(forms', nodes[i])
               /\ \A k \in DOMAIN nodeServer : Agrees(forms', nodeServer[k])
    <2>1. NodeList(nodes) /\ DOMAIN forms = {}
      BY <1>2, <1>5 DEF NodesTyped
    <2>2. ASSUME NEW i \in DOMAIN nodes
          PROVE  forms'[nodes[i].name].id = nodes[i].id /\ (Off(forms'[nodes[i].name]) <=> Off(nodes[i]))
      <3>1. forms'[nodes[i].name] = Nd!Form(nodes[i])
        BY <1>2, <1>5, <2>1, MountedForms
      <3>2. nodes[i] \in Nd!Node
        BY <2>1, NodeFields DEF NodeList
      <3>3. Nd!Form(nodes[i]).id = nodes[i].id /\ Nd!Form(nodes[i]).status = nodes[i].status
        BY <3>2, FormOfNode, Zenon
      <3> QED
        BY <3>1, <3>3 DEF Off
    <2>3. SameNodes(nodes, nodeServer)
      BY <1>1, <1>5 DEF NodesHeld, ListSeen
    <2>4. DOMAIN nodes = DOMAIN nodeServer
      BY <1>5, <2>3, ListsAreSequences, SameNodesOrder
    <2> QED
      BY <2>2, <2>3, <2>4 DEF Agrees, SameNodes
  <1>6. FormsAgree'
    BY <1>1, <1>5 DEF FormsAgree
  <1> QED
    BY <1>3, <1>4, <1>6 DEF NodesHeld

LEMMA ClosingHeld ==
    ASSUME NodesTyped, NodesHeld, Nd!OnClose, ~nodeHasty'
    PROVE  NodesHeld'
  <1>1. DOMAIN nodeFlight = {} /\ UNCHANGED <<nodeServer, nodes, fetch>>
    BY ActingCalmly DEF Nd!OnClose
  <1>2. ~isEditing' /\ UNCHANGED <<nodeFlight, nodeRequests>>
    BY DEF Nd!OnClose
  <1>3. OneByOne' /\ ListSeen' /\ ListFresh'
    BY <1>1, <1>2 DEF NodesHeld, OneByOne, ListSeen, ListFresh, SomeIs
  <1>4. PutsMatch' /\ FormsAgree'
    BY <1>1, <1>2 DEF PutsMatch, FormsAgree
  <1> QED
    BY <1>3, <1>4 DEF NodesHeld

\* The switch marks its form, a name changes nothing the list is compared with.
LEMMA FillingHeld ==
    ASSUME NodesTyped, NodesHeld, Nd!Acts, ~nodeHasty', NEW n \in DOMAIN forms,
           DOMAIN forms' = DOMAIN forms, \A m \in DOMAIN forms : m # n => forms'[m] = forms[m],
           forms'[n].id = forms[n].id,
           ~forms'[n].touched => ~forms[n].touched /\ forms'[n].status = forms[n].status,
           UNCHANGED <<nodeFlight, isEditing, nodeRequests>>
    PROVE  NodesHeld'
  <1>1. DOMAIN nodeFlight = {} /\ UNCHANGED <<nodeServer, nodes, fetch>>
    BY ActingCalmly
  <1>2. OneByOne' /\ ListSeen' /\ ListFresh'
    BY <1>1 DEF NodesHeld, OneByOne, ListSeen, ListFresh, SomeIs
  <1>3. PutsMatch'
    BY <1>1 DEF PutsMatch
  <1>4. ASSUME NEW node, Agrees(forms, node) PROVE Agrees(forms', node)
    BY <1>4 DEF Agrees, Off
  <1>5. FormsAgree'
    BY <1>1, <1>4 DEF NodesHeld, FormsAgree
  <1> QED
    BY <1>2, <1>3, <1>5 DEF NodesHeld

\* A form is sent as it is, or something is asked for that is no form.
LEMMA SendingHeld ==
    ASSUME NodesTyped, NodesHeld, ~nodeHasty', isEditing,
           NEW kind \in {"put", "post", "delete", "reconnect"}, NEW form_ \in NodeForms,
           Sends(kind, form_), NodesTyped',
           kind = "put" => \E i \in Nd!Places : form_ = forms[nodes[i].name]
    PROVE  NodesHeld'
  <1>1. /\ DOMAIN nodeFlight = {} /\ Len(nodeFlight) = 0
        /\ ~SomeIs("ok") /\ (fetch = Nd!NoFetch \/ nodeRequests = 0)
        /\ nodes # NoData /\ UNCHANGED <<nodeServer, nodes, fetch>>
    BY ActingCalmly DEF Sends
  <1>2. nodeFlight \in Seq(Mutations) /\ nodeRequests \in Nat /\ nodeOpens \in Nat
    BY DEF NodesTyped
  <1>3. /\ Len(nodeFlight') = 1 /\ \A j \in DOMAIN nodeFlight' : j = 1
        /\ nodeFlight'[1].kind = kind /\ nodeFlight'[1].state = "sent"
        /\ nodeFlight'[1].id = form_.id /\ nodeFlight'[1].status = form_.status
        /\ nodeFlight'[1].untouched => kind = "put" /\ ~form_.touched
        /\ nodeRequests' > 0
    <2>1. Nd!Mutate(kind, form_)
      BY DEF Sends
    <2>2. Len(nodeFlight) + 1 = 1
      BY <1>1
    <2> QED
      BY <1>1, <1>2, <2>1, <2>2, MutationSent
  <1>4. UNCHANGED <<isEditing, forms>>
    BY DEF Sends
  <1>5. SameNodes(nodes, nodeServer)
    BY <1>1 DEF NodesHeld, ListSeen
  <1>6. OneByOne' /\ ListSeen'
    BY <1>1, <1>3, <1>5 DEF OneByOne, ListSeen
  <1>7. ListFresh'
    BY <1>1 DEF NodesHeld, ListFresh
  <1>8. FormsAgree'
    BY <1>1, <1>4 DEF NodesHeld, FormsAgree
  <1>9. ASSUME kind = "put" PROVE PutOfForm(nodeFlight[1])'
    <2>1. PICK i \in Nd!Places : form_ = forms[nodes[i].name]
      BY <1>9
    <2>2. /\ NodeList(nodes) /\ i \in DOMAIN nodes /\ nodes[i].name \in DOMAIN forms
      BY FormAt
    <2>3. form_.id = nodes[i].id
      BY <1>1, <2>1, <2>2 DEF NodesHeld, FormsAgree, Agrees
    <2>4. DOMAIN nodes = DOMAIN nodeServer
      BY <1>1, <1>5, ListsAreSequences, SameNodesOrder
    <2>5. ASSUME NEW k \in DOMAIN nodeServer, nodeServer[k].id = form_.id
          PROVE  nodeServer[k].name = nodes[i].name
      <3>1. k \in DOMAIN nodes /\ nodes[k].id = nodes[i].id /\ nodes[k].name = nodeServer[k].name
        BY <1>5, <2>3, <2>4, <2>5 DEF SameNodes
      <3>2. k = i
        BY <2>2, <3>1, OnePlace
      <3> QED
        BY <3>1, <3>2
    <2> QED
      BY <1>1, <1>3, <1>4, <2>1, <2>2, <2>5 DEF PutOfForm
  <1>10. PutsMatch'
    <2> SUFFICES ASSUME NEW j \in DOMAIN nodeFlight', nodeFlight'[j].kind = "put"
                 PROVE  PutOfForm(nodeFlight[j])'
      BY DEF PutsMatch
    <2>1. j = 1 /\ kind = "put"
      BY <1>3
    <2> QED
      BY <1>9, <2>1
  <1> QED
    BY <1>6, <1>7, <1>8, <1>10 DEF NodesHeld

\* The query.
LEMMA AskingHeld ==
    ASSUME NodesTyped, NodesHeld, Nd!RefetchInterval PROVE NodesHeld'
  <1>1. /\ fetch = Nd!NoFetch /\ fetch' = Nd!SentFetch
        /\ UNCHANGED <<nodeServer, nodes, nodeFlight, isEditing, forms, nodeRequests>>
    BY DEF Nd!RefetchInterval
  <1>2. ListSeen'
    BY <1>1 DEF NodesHeld, ListSeen, SomeIs
  <1>3. ListFresh'
    BY <1>1, Fetches DEF ListFresh
  <1> QED
    BY <1>1, <1>2, <1>3 DEF NodesHeld, OneByOne, FormsAgree, PutsMatch, PutOfForm

LEMMA ListingHeld ==
    ASSUME NodesTyped, NodesHeld, Nd!ServeList PROVE NodesHeld'
  <1>1. /\ fetch.state = "sent" /\ fetch' = [state |-> "back", list |-> nodeServer]
        /\ UNCHANGED <<nodeServer, nodes, nodeFlight, isEditing, forms, nodeRequests>>
    BY DEF Nd!ServeList
  <1>2. fetch'.state = "back" /\ fetch'.list = nodeServer /\ fetch' # Nd!NoFetch
    BY <1>1, Fetches
  <1>3. ListSeen'
    BY <1>1, <1>2 DEF NodesHeld, ListSeen, SomeIs
  <1>4. ListFresh'
    BY <1>1, <1>2, ListsAreSequences, SameNodesOrder DEF ListFresh
  <1> QED
    BY <1>1, <1>3, <1>4 DEF NodesHeld, OneByOne, FormsAgree, PutsMatch, PutOfForm

LEMMA SameNames ==
    ASSUME NEW l \in Seq(Nd!Node), NEW m \in Seq(Nd!Node), SameNodes(l, m)
    PROVE  NamesOf(l) = NamesOf(m)
  <1>1. DOMAIN l = DOMAIN m
    BY SameNodesOrder
  <1> QED
    BY <1>1 DEF SameNodes, NamesOf

\* What is said of a node is said of one that is the same.
LEMMA SameAgrees ==
    ASSUME NEW l \in Seq(Nd!Node), NEW m \in Seq(Nd!Node), SameNodes(l, m), NEW fs,
           \A i \in DOMAIN l : Agrees(fs, l[i])
    PROVE  \A i \in DOMAIN m : Agrees(fs, m[i])
  <1>1. DOMAIN l = DOMAIN m
    BY SameNodesOrder
  <1> QED
    BY <1>1 DEF SameNodes, Agrees

\* The forms of a list that arrives: those there were are of its nodes.
LEMMA ArrivingForms ==
    ASSUME NodesTyped, NodesHeld, ListFresh, NEW l, l = fetch.list, fetch.state = "back",
           NodeList(l), l # NoData, isEditing, NEW i \in DOMAIN l
    PROVE  Agrees(Nd!Mounted(l), l[i])
  <1> DEFINE m == Nd!Mounted(l)
             n == l[i].name
  <1>1. /\ n \in NamesOf(l)
        /\ n \in DOMAIN forms => m[n] = forms[n]
        /\ n \notin DOMAIN forms => m[n] = Nd!Form(l[i])
    BY MountedForms
  <1> HIDE DEF m
  <1>2. CASE n \notin DOMAIN forms
    <2>1. l[i] \in Nd!Node
      BY NodeFields DEF NodeList
    <2>2. Nd!Form(l[i]).id = l[i].id /\ Nd!Form(l[i]).status = l[i].status
      BY <2>1, FormOfNode, Zenon
    <2>3. m[n].id = l[i].id /\ m[n].status = l[i].status
      BY <1>1, <1>2, <2>2
    <2> QED
      BY <2>3 DEF Agrees, Off, m
  <1>3. CASE n \in DOMAIN forms
    <2>1. nodes # NoData
      BY <1>3 DEF NodesTyped
    <2>2. \A j \in DOMAIN l : Agrees(forms, l[j])
      <3>1. CASE SameNodes(fetch.list, nodeServer)
        <4>1. SameNodes(nodeServer, l) /\ nodeServer \in Seq(Nd!Node) /\ l \in Seq(Nd!Node)
          BY <3>1, ListsAreSequences, SameNodesOrder
        <4>2. \A k \in DOMAIN nodeServer : Agrees(forms, nodeServer[k])
          BY <2>1 DEF NodesHeld, FormsAgree
        <4> QED
          BY <4>1, <4>2, SameAgrees
      <3>2. CASE SameNodes(fetch.list, nodes)
        <4>1. SameNodes(nodes, l) /\ nodes \in Seq(Nd!Node) /\ l \in Seq(Nd!Node)
          BY <2>1, <3>2, ListsAreSequences, SameNodesOrder
        <4>2. \A k \in DOMAIN nodes : Agrees(forms, nodes[k])
          BY <2>1 DEF NodesHeld, FormsAgree
        <4> QED
          BY <4>1, <4>2, SameAgrees
      <3> QED
        BY <3>1, <3>2 DEF ListFresh
    <2>3. Agrees(forms, l[i]) /\ m[n] = forms[n]
      BY <1>1, <1>3, <2>2
    <2> QED
      BY <1>3, <2>3 DEF Agrees, m
  <1> QED
    BY <1>2, <1>3

LEMMA ArrivingHeld ==
    ASSUME NodesTyped, NodesHeld, Nd!NodesArrive PROVE NodesHeld'
  <1> DEFINE l == fetch.list
  <1>1. /\ fetch.state = "back" /\ nodes' = l /\ fetch' = Nd!NoFetch
        /\ forms' = IF isEditing THEN Nd!Mounted(l) ELSE << >>
        /\ UNCHANGED <<nodeServer, nodeFlight, isEditing, nodeRequests>>
    BY DEF Nd!NodesArrive
  <1>2. NodeList(l) /\ l # NoData /\ l \in Seq(Nd!Node) /\ nodeServer \in Seq(Nd!Node)
    BY DashboardAssumption DEF NodesTyped, NodeList, Nd!Parameters
  <1>3. \/ SameNodes(l, nodeServer)
        \/ SomeIs("ok") /\ nodes # NoData /\ SameNodes(l, nodes)
    BY <1>1 DEF NodesHeld, ListFresh
  <1>4. ListFresh'
    BY <1>1, Fetches DEF ListFresh
  <1>5. OneByOne'
    BY <1>1, <1>2 DEF NodesHeld, OneByOne
  <1>6. ListSeen'
    BY <1>1, <1>3 DEF ListSeen, SomeIs
  <1>7. ASSUME isEditing
        PROVE  /\ DOMAIN forms' = NamesOf(l) /\ forms' = Nd!Mounted(l)
               /\ \A n \in NamesOf(l) : n \in DOMAIN forms => forms'[n] = forms[n]
               /\ \A i \in DOMAIN l : Agrees(forms', l[i])
    <2>1. forms' = Nd!Mounted(l)
      BY <1>1, <1>7
    <2>2. \A i \in DOMAIN l : Agrees(Nd!Mounted(l), l[i])
      BY <1>1, <1>2, <1>7, ArrivingForms DEF NodesHeld
    <2>3. /\ DOMAIN Nd!Mounted(l) = NamesOf(l)
          /\ \A n \in NamesOf(l) : n \in DOMAIN forms => Nd!Mounted(l)[n] = forms[n]
      BY <1>2, MountedForms
    <2> QED
      BY <2>1, <2>2, <2>3
  <1>8. ASSUME isEditing PROVE \A k \in DOMAIN nodeServer : Agrees(forms', nodeServer[k])
    <2>1. CASE SameNodes(l, nodeServer)
      BY <1>2, <1>7, <1>8, <2>1, SameAgrees
    <2>2. CASE nodes # NoData /\ SameNodes(l, nodes)
      <3>1. nodes \in Seq(Nd!Node) /\ NamesOf(l) = NamesOf(nodes)
        BY <1>2, <2>2, ListsAreSequences, SameNames
      <3>2. DOMAIN forms = NamesOf(l)
        BY <1>8, <2>2, <3>1 DEF NodesTyped
      <3>3. DOMAIN forms' = DOMAIN forms /\ \A n \in DOMAIN forms : forms'[n] = forms[n]
        BY <1>7, <1>8, <3>2
      <3>4. \A k \in DOMAIN nodeServer : Agrees(forms, nodeServer[k])
        BY <1>8, <2>2 DEF NodesHeld, FormsAgree
      <3> QED
        BY <3>3, <3>4 DEF Agrees
    <2> QED
      BY <1>3, <2>1, <2>2
  <1>9. FormsAgree'
    BY <1>1, <1>7, <1>8 DEF FormsAgree
  <1>10. PutsMatch'
    <2> SUFFICES ASSUME NEW i \in DOMAIN nodeFlight, nodeFlight[i].kind = "put",
                        nodeFlight[i].state = "sent"
                 PROVE  PutOfForm(nodeFlight[i])'
      BY <1>1 DEF PutsMatch
    <2>1. PutOfForm(nodeFlight[i])
      BY DEF NodesHeld, PutsMatch
    <2>2. SameNodes(l, nodeServer)
      <3>1. \A j \in DOMAIN nodeFlight : j = i
        BY OnlyMutation DEF NodesHeld
      <3>2. ~SomeIs("ok")
        BY <3>1 DEF SomeIs
      <3> QED
        BY <1>3, <3>2
    <2>3. NamesOf(l) = NamesOf(nodeServer)
      BY <1>2, <2>2, SameNames
    <2>4. \A k \in DOMAIN nodeServer : nodeServer[k].name \in NamesOf(l)
      BY <2>3 DEF NamesOf
    <2>5. isEditing /\ nodes' # NoData
      BY <1>1, <1>2, <2>1 DEF PutOfForm
    <2>6. /\ DOMAIN forms' = NamesOf(l)
          /\ \A n \in NamesOf(l) : n \in DOMAIN forms => forms'[n] = forms[n]
      BY <1>7, <2>5
    <2> QED
      BY <1>1, <2>1, <2>4, <2>5, <2>6 DEF PutOfForm
  <1> QED
    BY <1>4, <1>5, <1>6, <1>9, <1>10 DEF NodesHeld

\* A connection.
LEMMA BreakingHeld ==
    ASSUME NodesTyped, NodesTyped', NodesHeld, NEW i \in DOMAIN nodeServer, Nd!ConnectionBreaks(i)
    PROVE  NodesHeld'
  <1>1. UNCHANGED <<nodes, fetch, nodeFlight, isEditing, forms, nodeRequests>>
    BY DEF Nd!ConnectionBreaks
  <1>2. SameNodes(nodeServer', nodeServer)
    BY Breaking DEF NodesTyped
  <1>3. nodeServer \in Seq(Nd!Node) /\ nodeServer' \in Seq(Nd!Node)
    BY DEF NodesTyped, NodeList
  <1>4. SameNodes(nodeServer, nodeServer') /\ DOMAIN nodeServer = DOMAIN nodeServer'
    BY <1>2, <1>3, SameNodesOrder
  <1>5. OneByOne'
    BY <1>1 DEF NodesHeld, OneByOne
  <1>6. ListSeen'
    <2>1. nodes # NoData /\ SameNodes(nodes, nodeServer) => SameNodes(nodes, nodeServer')
      BY <1>3, <1>4, ListsAreSequences, SameNodesOrder
    <2> QED
      BY <1>1, <2>1 DEF NodesHeld, ListSeen, SomeIs
  <1>7. ListFresh'
    <2>1. SameNodes(fetch.list, nodeServer) => SameNodes(fetch.list, nodeServer')
      BY <1>3, <1>4, ListsAreSequences, SameNodesOrder
    <2> QED
      BY <1>1, <2>1 DEF NodesHeld, ListFresh, SomeIs
  <1>8. FormsAgree'
    <2>1. (\A k \in DOMAIN nodeServer : Agrees(forms, nodeServer[k]))
              => \A k \in DOMAIN nodeServer' : Agrees(forms, nodeServer'[k])
      BY <1>3, <1>4, SameAgrees
    <2> QED
      BY <1>1, <2>1 DEF NodesHeld, FormsAgree
  <1>9. PutsMatch'
    <2>1. ASSUME NEW put, PutOfForm(put) PROVE PutOfForm(put)'
      BY <1>1, <1>4, <2>1 DEF PutOfForm, SameNodes
    <2> QED
      BY <1>1, <2>1 DEF NodesHeld, PutsMatch
  <1> QED
    BY <1>5, <1>6, <1>7, <1>8, <1>9 DEF NodesHeld

\* The server.  A name that is new to it is the name of no form.
LEMMA FormsOfServer ==
    ASSUME NodesTyped, NodesHeld, NEW i \in DOMAIN nodeFlight, nodeFlight[i].state = "sent"
    PROVE  /\ nodes # NoData /\ ~SomeIs("ok") /\ SameNodes(nodes, nodeServer)
           /\ isEditing => DOMAIN forms = NamesOf(nodeServer)
  <1>1. nodes # NoData /\ \A j \in DOMAIN nodeFlight : j = i
    BY OnlyMutation DEF NodesHeld
  <1>2. ~SomeIs("ok") /\ SomeIs("sent")
    BY <1>1 DEF SomeIs
  <1>3. SameNodes(nodes, nodeServer)
    BY <1>1, <1>2 DEF NodesHeld, ListSeen
  <1>4. NamesOf(nodes) = NamesOf(nodeServer)
    BY <1>1, <1>3, ListsAreSequences, SameNames
  <1> QED
    BY <1>1, <1>2, <1>3, <1>4 DEF NodesTyped

LEMMA ServedAgrees ==
    ASSUME NodesTyped, NodesTyped', NodesHeld, NEW i \in DOMAIN nodeFlight, isEditing,
           nodeFlight[i].state = "sent",
           Nd!ServePut(i) \/ Nd!ServePost(i) \/ Nd!ServeDelete(i) \/ Nd!ServeReconnect(i)
    PROVE  \A k \in DOMAIN nodeServer' : Agrees(forms, nodeServer'[k])
  <1> DEFINE r == nodeFlight[i]
  <1>1. /\ nodes # NoData /\ DOMAIN forms = NamesOf(nodeServer)
        /\ NodeList(nodeServer) /\ r \in Mutations
    <2>1. NodeList(nodeServer) /\ r \in Mutations
      BY ElementIn DEF NodesTyped
    <2> QED
      BY <2>1, FormsOfServer
  <1>2. \A k \in DOMAIN nodeServer : Agrees(forms, nodeServer[k])
    BY <1>1 DEF NodesHeld, FormsAgree
  <1>3. CASE Nd!ServePut(i)
    <2>1. PICK k \in DOMAIN nodeServer : PutAt(k, r)
      BY <1>1, <1>3, PutServed
    <2>2. PutOfForm(r)
      BY <1>3 DEF NodesHeld, PutsMatch, Nd!ServePut
    <2>3. Agrees(forms, nodeServer'[k])
      <3> SUFFICES ASSUME r.name \in DOMAIN forms PROVE Agrees(forms, nodeServer'[k])
        BY <2>1 DEF Agrees, PutAt
      <3>1. nodeServer[k].name = r.name
        BY <1>1, <2>1 DEF NamesOf, PutAt
      <3>2. forms[r.name].status = r.status
        BY <2>1, <2>2, <3>1 DEF PutAt, PutOfForm
      <3>3. forms[r.name].id = nodeServer[k].id
        BY <1>2, <3>1 DEF Agrees
      <3> QED
        BY <2>1, <3>2, <3>3 DEF Agrees, PutAt, Off
    <2>4. \A j \in DOMAIN nodeServer : j # k => Agrees(forms, nodeServer'[j])
      BY <1>2, <2>1 DEF PutAt
    <2> QED
      BY <2>1, <2>3, <2>4 DEF PutAt
  <1>4. CASE Nd!ServePost(i)
    <2>1. /\ r.name \notin NamesOf(nodeServer)
          /\ \A j \in DOMAIN nodeServer' :
                \/ nodeServer'[j].name = r.name
                \/ \E k \in DOMAIN nodeServer : nodeServer'[j] = nodeServer[k]
      BY <1>1, <1>4, PostServed
    <2> HIDE DEF r
    <2> QED
      BY <1>1, <1>2, <2>1 DEF Agrees
  <1>5. CASE Nd!ServeDelete(i)
    BY <1>1, <1>2, <1>5, DeleteServed
  <1>6. CASE Nd!ServeReconnect(i)
    <2>1. SameNodes(nodeServer', nodeServer)
      BY <1>1, <1>6, ReconnectServed
    <2>2. nodeServer' \in Seq(Nd!Node) /\ nodeServer \in Seq(Nd!Node)
      BY DEF NodesTyped, NodeList
    <2>3. SameNodes(nodeServer, nodeServer')
      BY <2>1, <2>2, SameNodesOrder
    <2> QED
      BY <1>2, <2>2, <2>3, SameAgrees
  <1> QED
    BY <1>3, <1>4, <1>5, <1>6

LEMMA ServingHeld ==
    ASSUME NodesTyped, NodesTyped', NodesHeld, NEW i \in DOMAIN nodeFlight,
           Nd!ServePut(i) \/ Nd!ServePost(i) \/ Nd!ServeDelete(i) \/ Nd!ServeReconnect(i)
    PROVE  NodesHeld'
  <1>1. PICK ns : Nd!Served(i, ns)
    BY ServingTyped
  <1>2. UNCHANGED <<nodes, fetch, isEditing, forms, nodeRequests>>
    BY <1>1 DEF Nd!Served
  <1>3. /\ Len(nodeFlight') = Len(nodeFlight) /\ DOMAIN nodeFlight' = DOMAIN nodeFlight
        /\ nodeFlight'[i].state = "ok" /\ nodeFlight[i].state = "sent"
    BY <1>1, MutationServed DEF NodesTyped
  <1>4. \A j \in DOMAIN nodeFlight' : nodeFlight'[j].state = "ok"
    BY <1>3, OnlyMutation DEF NodesHeld
  <1>5. SomeIs("ok")'
    BY <1>3 DEF SomeIs
  <1>6. nodes # NoData /\ ~SomeIs("ok") /\ SameNodes(nodes, nodeServer)
    BY <1>3, FormsOfServer
  <1>7. OneByOne'
    BY <1>2, <1>3 DEF NodesHeld, OneByOne
  <1>8. ListSeen'
    BY <1>5 DEF ListSeen
  <1>9. ListFresh'
    <2>1. fetch.state = "back" => SameNodes(fetch.list, nodeServer)
      BY <1>6 DEF NodesHeld, ListFresh
    <2>2. SameNodes(nodeServer, nodes)
      BY <1>6, ListsAreSequences, SameNodesOrder
    <2>3. fetch.state = "back" => SameNodes(fetch.list, nodes)
      BY <1>6, <2>1, <2>2, ListsAreSequences, SameNodesOrder
    <2> QED
      BY <1>2, <1>5, <1>6, <2>3 DEF ListFresh
  <1>10. FormsAgree'
    <2>1. isEditing => \A k \in DOMAIN nodeServer' : Agrees(forms, nodeServer'[k])
      BY <1>3, ServedAgrees
    <2> QED
      BY <1>2, <2>1 DEF NodesHeld, FormsAgree
  <1>11. PutsMatch'
    <2>1. "ok" # "sent"
      OBVIOUS
    <2> QED
      BY <1>4, <2>1 DEF PutsMatch
  <1> QED
    BY <1>7, <1>8, <1>9, <1>10, <1>11 DEF NodesHeld

\* An answer finds no list that is older than itself, since the administrator waited.
LEMMA AnsweringHeld ==
    ASSUME NodesTyped, NodesTyped', NodesHeld, NEW i \in DOMAIN nodeFlight, ~overlooked',
           Nd!Updated(i) \/ Nd!Added(i) \/ Nd!Deleted(i)
    PROVE  NodesHeld'
  <1>1. /\ nodeFlight' = Nd!RemoveAt(nodeFlight, i) /\ Nd!InvalidateQueries
        /\ UNCHANGED <<nodeServer, nodes, isEditing, forms, nodeRequests>>
    BY Answers
  <1>2. DOMAIN nodeFlight' = {} /\ Len(nodeFlight') = 0
    <2>1. Len(nodeFlight) = 1
      BY OnlyMutation DEF NodesHeld
    <2>2. Len(nodeFlight') = Len(nodeFlight) - 1 /\ nodeFlight' \in Seq(Mutations)
      BY <1>1, MutationGone DEF NodesTyped
    <2>3. Len(nodeFlight') = 0
      BY <2>1, <2>2
    <2> QED
      BY <2>2, <2>3, LenProperties
  <1>3. nodeRequests # 0 /\ nodes # NoData
    BY OnlyMutation DEF NodesHeld
  <1>4. fetch.state # "back" /\ fetch' = (IF fetch = Nd!NoFetch THEN Nd!SentFetch ELSE fetch)
    BY <1>1, Zenon DEF Nd!InvalidateQueries
  <1>5. fetch' # Nd!NoFetch /\ fetch'.state # "back"
    BY <1>4, Fetches
  <1>6. ~SomeIs("sent")' /\ PutsMatch'
    BY <1>2 DEF SomeIs, PutsMatch
  <1>7. OneByOne' /\ ListSeen' /\ ListFresh'
    BY <1>1, <1>2, <1>3, <1>5, <1>6 DEF OneByOne, ListSeen, ListFresh
  <1>8. FormsAgree'
    BY <1>1 DEF NodesHeld, FormsAgree
  <1> QED
    BY <1>6, <1>7, <1>8 DEF NodesHeld

\* What was refused has changed nothing.
LEMMA FailingHeld ==
    ASSUME NodesTyped, NodesTyped', NodesHeld, NEW i \in DOMAIN nodeFlight, ~overlooked',
           Nd!MutationFails(i)
    PROVE  NodesHeld'
  <1>1. /\ nodeFlight' = Nd!RemoveAt(nodeFlight, i) /\ nodeFlight[i].state # "ok"
        /\ UNCHANGED <<nodeServer, nodes, fetch, isEditing, forms, nodeRequests>>
    BY Zenon DEF Nd!MutationFails
  <1>2. DOMAIN nodeFlight' = {} /\ Len(nodeFlight') = 0
    <2>1. Len(nodeFlight) = 1
      BY OnlyMutation DEF NodesHeld
    <2>2. Len(nodeFlight') = Len(nodeFlight) - 1 /\ nodeFlight' \in Seq(Mutations)
      BY <1>1, MutationGone DEF NodesTyped
    <2>3. Len(nodeFlight') = 0
      BY <2>1, <2>2
    <2> QED
      BY <2>2, <2>3, LenProperties
  <1>3. nodeFlight[i].state = "sent"
    <2>1. nodeFlight[i] \in Mutations
      BY ElementIn DEF NodesTyped
    <2> QED
      BY <1>1, <2>1 DEF Mutations
  <1>4. ~SomeIs("ok") /\ SameNodes(nodes, nodeServer) /\ nodes # NoData
    BY <1>3, FormsOfServer
  <1>5. nodeRequests # 0
    BY OnlyMutation DEF NodesHeld
  <1>6. OneByOne' /\ ListSeen'
    BY <1>1, <1>2, <1>4, <1>5 DEF OneByOne, ListSeen
  <1>7. ListFresh'
    BY <1>1, <1>4 DEF NodesHeld, ListFresh
  <1>8. FormsAgree' /\ PutsMatch'
    BY <1>1, <1>2 DEF NodesHeld, FormsAgree, PutsMatch
  <1> QED
    BY <1>6, <1>7, <1>8 DEF NodesHeld

LEMMA NodesHeldStep ==
    ASSUME NodesTyped, NodesTyped', NodesHeld, ~nodeHasty', ~overlooked', [Nd!Next]_(Nd!vars)
    PROVE  NodesHeld'
  <1>1. CASE Nd!RefetchInterval \/ Nd!ServeList \/ Nd!NodesArrive
    BY <1>1, AskingHeld, ListingHeld, ArrivingHeld
  <1>2. CASE Nd!FetchFails
    BY <1>2 DEF Nd!FetchFails
  <1>3. ASSUME NEW i \in DOMAIN nodeFlight,
               Nd!ServePut(i) \/ Nd!ServePost(i) \/ Nd!ServeDelete(i) \/ Nd!ServeReconnect(i)
        PROVE  NodesHeld'
    BY <1>3, ServingHeld
  <1>4. ASSUME NEW i \in DOMAIN nodeFlight, Nd!Updated(i) \/ Nd!Added(i) \/ Nd!Deleted(i)
        PROVE  NodesHeld'
    BY <1>4, AnsweringHeld
  <1>5. ASSUME NEW i \in DOMAIN nodeFlight, Nd!MutationFails(i) PROVE NodesHeld'
    BY <1>5, FailingHeld
  <1>6. ASSUME NEW i \in DOMAIN nodeServer, Nd!ConnectionBreaks(i) PROVE NodesHeld'
    BY <1>6, BreakingHeld
  <1>7. CASE Nd!OnEditingNodes \/ Nd!OnClose
    BY <1>7, OpeningHeld, ClosingHeld
  <1>8. CASE \/ Nd!CancelDelete
             \/ \E i \in Nd!Places : Nd!SetDeletingNode(i)
             \/ \E i \in Nat : Nd!ToggleAccordion(i)
    <2>1. Nd!Acts /\ UNCHANGED <<nodeFlight, isEditing, forms, nodeRequests>>
      BY <1>8 DEF Nd!CancelDelete, Nd!SetDeletingNode, Nd!ToggleAccordion
    <2>2. UNCHANGED <<nodeServer, nodes, fetch>>
      BY <2>1, ActingCalmly
    <2> QED
      BY <2>1, <2>2, QuietlyHeld
  <1>9. ASSUME NEW i \in Nd!Places, Nd!SwitchStatus(i) PROVE NodesHeld'
    <2> DEFINE n == nodes[i].name
    <2>1. /\ n \in DOMAIN forms /\ DOMAIN forms' = DOMAIN forms
          /\ forms'[n] = Switched(forms[n]) /\ \A m \in DOMAIN forms : m # n => forms'[m] = forms[m]
          /\ Nd!Acts /\ UNCHANGED <<nodeFlight, isEditing, nodeRequests>>
      BY <1>9, Switching
    <2> HIDE DEF n
    <2>2. forms[n] \in NodeForms
      BY <2>1 DEF NodesTyped, FormsTyped
    <2>3. forms'[n].id = forms[n].id /\ forms'[n].touched
      <3>1. Switched(forms[n]).id = forms[n].id /\ Switched(forms[n]).touched = TRUE
        BY <2>2, SwitchedForm, Zenon
      <3> QED
        BY <2>1, <3>1
    <2> QED
      BY <2>1, <2>3, FillingHeld
  <1>10. ASSUME NEW i \in Nd!Places, NEW name \in Names, Nd!TypeName(i, name) PROVE NodesHeld'
    <2> DEFINE n == nodes[i].name
    <2>1. /\ n \in DOMAIN forms /\ DOMAIN forms' = DOMAIN forms
          /\ forms'[n].id = forms[n].id /\ forms'[n].status = forms[n].status
          /\ forms'[n].touched = forms[n].touched
          /\ \A m \in DOMAIN forms : m # n => forms'[m] = forms[m]
          /\ Nd!Acts /\ UNCHANGED <<nodeFlight, isEditing, nodeRequests>>
      BY <1>10, NamingNode
    <2> HIDE DEF n
    <2> QED
      BY <2>1, FillingHeld
  <1>11. ASSUME NEW i \in Nd!Places, Nd!UpdateNode(i) PROVE NodesHeld'
    <2>1. isEditing /\ forms[nodes[i].name] \in NodeForms /\ Sends("put", forms[nodes[i].name])
      BY <1>11, Updating
    <2> QED
      BY <2>1, SendingHeld
  <1>12. CASE \/ \E i \in Nd!Places : Nd!ReconnectNode(i)
              \/ \E name \in Names : Nd!AddNode(name)
              \/ Nd!OnDelete
    <2>1. PICK kind \in {"post", "delete", "reconnect"}, form_ \in NodeForms : Sends(kind, form_)
      BY <1>12, SendingOthers
    <2>2. isEditing /\ kind # "put" /\ kind \in {"put", "post", "delete", "reconnect"}
      BY <1>12, SendingOthers
    <2> QED
      BY <2>1, <2>2, SendingHeld
  <1>13. CASE UNCHANGED Nd!vars
    BY <1>13, QuietlyHeld DEF Nd!vars
  <1> QED
    BY <1>1, <1>2, <1>3, <1>4, <1>5, <1>6, <1>7, <1>8, <1>9, <1>10, <1>11, <1>12, <1>13,
       PlacesAreNumbers DEF Nd!Next

\* Haste and a missing answer are not forgotten.
LEMMA HasteStays ==
    ASSUME NodesTyped, [Nd!Next]_(Nd!vars), ~nodeHasty', ~overlooked'
    PROVE  ~nodeHasty /\ ~overlooked
  <1>1. nodeHasty \in BOOLEAN /\ overlooked \in BOOLEAN
    BY DEF NodesTyped
  <1>2. ASSUME Nd!Acts PROVE ~nodeHasty /\ ~overlooked
    BY <1>2, Zenon DEF Nd!Acts
  <1>3. ASSUME NEW i \in DOMAIN nodeFlight, Nd!Updated(i) \/ Nd!Added(i) \/ Nd!Deleted(i)
        PROVE  ~nodeHasty /\ ~overlooked
    <2>1. Nd!InvalidateQueries /\ UNCHANGED nodeHasty
      BY <1>3, Answers
    <2> QED
      BY <2>1, Zenon DEF Nd!InvalidateQueries
  <1>4. ASSUME NEW i \in DOMAIN nodeFlight, Nd!MutationFails(i)
        PROVE  ~nodeHasty /\ ~overlooked
    BY <1>4, Zenon DEF Nd!MutationFails
  <1>5. ASSUME NEW i \in DOMAIN nodeFlight,
               Nd!ServePut(i) \/ Nd!ServePost(i) \/ Nd!ServeDelete(i) \/ Nd!ServeReconnect(i)
        PROVE  ~nodeHasty /\ ~overlooked
    <2>1. PICK ns : Nd!Served(i, ns)
      BY <1>5, ServingTyped
    <2> QED
      BY <2>1 DEF Nd!Served
  <1>6. CASE \/ Nd!RefetchInterval \/ Nd!ServeList \/ Nd!NodesArrive
             \/ \E i \in DOMAIN nodeServer : Nd!ConnectionBreaks(i)
             \/ UNCHANGED Nd!vars
    BY <1>6 DEF Nd!RefetchInterval, Nd!ServeList, Nd!NodesArrive, Nd!ConnectionBreaks, Nd!vars
  <1>7. CASE Nd!FetchFails
    BY <1>7 DEF Nd!FetchFails
  <1>8. CASE \/ Nd!OnEditingNodes \/ Nd!OnClose \/ Nd!CancelDelete \/ Nd!OnDelete
             \/ \E i : Nd!ToggleAccordion(i)
             \/ \E name \in Names : Nd!AddNode(name)
             \/ \E i \in Nd!Places :
                   \/ Nd!SwitchStatus(i) \/ Nd!UpdateNode(i) \/ Nd!ReconnectNode(i)
                   \/ Nd!SetDeletingNode(i)
                   \/ \E name \in Names : Nd!TypeName(i, name)
    <2>1. Nd!Acts
      BY <1>8, Zenon DEF Nd!OnEditingNodes, Nd!OnClose, Nd!CancelDelete, Nd!OnDelete, Nd!ToggleAccordion,
         Nd!AddNode, Nd!SwitchStatus, Nd!UpdateNode, Nd!ReconnectNode, Nd!SetDeletingNode,
         Nd!TypeName
    <2> QED
      BY <1>2, <2>1
  <1> QED
    BY <1>3, <1>4, <1>5, <1>6, <1>7, <1>8 DEF Nd!Next

LEMMA NodesHold == Nd!Spec => []NodesInv
  <1>1. Nd!Init => NodesInv
    <2> SUFFICES ASSUME Nd!Init PROVE NodesInv
      OBVIOUS
    <2>1. /\ nodeFlight = << >> /\ nodes = NoData /\ nodeRequests = 0 /\ fetch = Nd!SentFetch
      BY DEF Nd!Init
    <2>2. NodesTyped
      BY NodesStart
    <2>3. Len(nodeFlight) = 0 /\ ~SomeIs("ok") /\ PutsMatch
      BY <2>1, <2>2, EmptyFlight
    <2>4. NodesHeld
      BY <2>1, <2>3, Fetches DEF NodesHeld, OneByOne, ListSeen, ListFresh, FormsAgree
    <2> QED
      BY <2>2, <2>4 DEF NodesInv
  <1>2. NodesInv /\ [Nd!Next]_(Nd!vars) => NodesInv'
    <2> SUFFICES ASSUME NodesInv, [Nd!Next]_(Nd!vars) PROVE NodesInv'
      OBVIOUS
    <2>1. NodesTyped /\ NodesTyped'
      BY NodesStep DEF NodesInv
    <2>2. ASSUME ~nodeHasty', ~overlooked' PROVE NodesHeld'
      BY <2>1, <2>2, HasteStays, NodesHeldStep DEF NodesInv
    <2> QED
      BY <2>1, <2>2 DEF NodesInv
  <1> QED
    BY <1>1, <1>2, PTL DEF Nd!Spec

\* A put in which the switch was not touched finds its node as it is.
LEMMA PutKeepsDisabled ==
    ASSUME NodesTyped, NodesTyped', NodesHeld, NEW i \in DOMAIN nodeFlight, nodeFlight[i].untouched,
           Nd!ServePut(i)
    PROVE  Nd!Disabled(nodeServer') = Nd!Disabled(nodeServer)
  <1> DEFINE r == nodeFlight[i]
  <1>1. NodeList(nodeServer) /\ r \in Mutations
    BY ElementIn DEF NodesTyped
  <1>2. PICK k \in DOMAIN nodeServer : PutAt(k, r)
    BY <1>1, PutServed
  <1>3. PutOfForm(r)
    <2>1. r.kind = "put"
      BY DEF Nd!ServePut
    <2>2. r.state = "sent"
      BY ServingTyped, MutationServed DEF NodesTyped
    <2> QED
      BY <2>1, <2>2 DEF NodesHeld, PutsMatch
  <1>4. /\ nodeServer[k].name \in DOMAIN forms
        /\ forms[nodeServer[k].name].status = r.status
        /\ ~forms[nodeServer[k].name].touched
    BY <1>2, <1>3 DEF PutOfForm, PutAt
  <1>5. isEditing /\ nodes # NoData
    BY <1>3 DEF PutOfForm
  <1>6. Agrees(forms, nodeServer[k])
    BY <1>5 DEF NodesHeld, FormsAgree
  <1>7. Off(nodeServer'[k]) <=> Off(nodeServer[k])
    BY <1>2, <1>4, <1>6 DEF Agrees, Off, PutAt
  <1>8. \A j \in DOMAIN nodeServer :
           nodeServer'[j].id = nodeServer[j].id /\ (Off(nodeServer'[j]) <=> Off(nodeServer[j]))
    BY <1>2, <1>7 DEF PutAt
  <1>9. DOMAIN nodeServer' = DOMAIN nodeServer
    BY <1>2 DEF PutAt
  <1>10. {j \in DOMAIN nodeServer' : nodeServer'[j].status = "disabled"}
             = {j \in DOMAIN nodeServer : nodeServer[j].status = "disabled"}
    BY <1>8, <1>9 DEF Off
  <1>11. ASSUME NEW x \in Nd!Disabled(nodeServer') PROVE x \in Nd!Disabled(nodeServer)
    BY <1>8, <1>9, <1>10 DEF Nd!Disabled
  <1>12. ASSUME NEW x \in Nd!Disabled(nodeServer) PROVE x \in Nd!Disabled(nodeServer')
    BY <1>8, <1>9, <1>10 DEF Nd!Disabled
  <1> QED
    BY <1>11, <1>12

\* NodeForm, updateNode: a save in which the switch was not touched disables no node and
\* enables none, though the form has the status from when it was mounted.
THEOREM DashboardSaveKeepsDisabled == DashboardSpec => SaveKeepsDisabled
  <1>1. NodesInv /\ NodesInv' =>
           [~nodeHasty /\ ~overlooked /\ Nd!Disabled(nodeServer') # Nd!Disabled(nodeServer) =>
               ~ \E i \in DOMAIN nodeFlight : nodeFlight[i].untouched /\ Nd!ServePut(i)]_(Nd!vars)
    BY PutKeepsDisabled DEF NodesInv
  <1> QED
    BY <1>1, DashboardOfNodes, NodesHold, PTL DEF SaveKeepsDisabled, Nd!SaveKeepsDisabled

--------------------------------------------------------------------------------
(***************************************************************************)
(* User dialog.  What UserDialog_proofs proves of the dialog holds of the  *)
(* dialog at its desk.                                                     *)
(***************************************************************************)
UdP == INSTANCE UserDialog_proofs WITH
    flight <- userFlight, deleting <- userDeleting, form <- userForm,
    chart <- userChart, hasty <- userHasty, smooth <- userSmooth

LEMMA DashboardOfUser == DashboardSpec => Ud!Spec
  <1>1. DashboardInit => Ud!Init
    BY DEF DashboardInit
  <1>2. [DashboardNext]_dashboardVars => [Ud!Next]_(Ud!vars)
    BY DEF DashboardNext, dashboardVars, userVars, Ud!vars, Ud!dialogVars, Ud!pathVars,
           Others, AtUsersPage, AtUserDialog, AtUserForm, AtHostsDialog, AtNodesDialog,
           AtCoreSettings, AtCoreLogs, AtUsageFilter, AtSession, AtShareLinks
  <1> QED
    BY <1>1, <1>2, PTL DEF DashboardSpec, Ud!Spec

\* The module is the same, whether it is read with its proofs or without.
LEMMA UserRead ==
    /\ UdP!Parameters
    /\ Ud!Init <=> UdP!Init
    /\ Ud!vars = UdP!vars
    /\ Ud!Next <=> UdP!Next
  <1>1. UdP!Parameters
    BY DashboardAssumption DEF Ud!Parameters, UdP!Parameters
  <1>2. Ud!Init <=> UdP!Init
    BY DEF Ud!Init, UdP!Init, Ud!ListUsers, UdP!ListUsers, Ud!Request, UdP!Request,
           Ud!NoContent, UdP!NoContent, Ud!NoRows, UdP!NoRows, Ud!GetDefaultValues,
           UdP!GetDefaultValues
  <1>3. Ud!vars = UdP!vars
    BY DEF Ud!vars, UdP!vars, Ud!dialogVars, UdP!dialogVars, Ud!pathVars, UdP!pathVars
  <1>4. Ud!Next <=> UdP!Next
    BY DEF Ud!dialogVars, UdP!dialogVars, Ud!pathVars, UdP!pathVars, Ud!vars, UdP!vars, Ud!Row,
           UdP!Row, Ud!NoRows, UdP!NoRows, Ud!GetDefaultValues,
           UdP!GetDefaultValues, Ud!FormatUser, UdP!FormatUser, Ud!Valid, UdP!Valid,
           Ud!Request, UdP!Request, Ud!NoContent, UdP!NoContent, Ud!ListUsers,
           UdP!ListUsers, Ud!UsageOf, UdP!UsageOf, Ud!Saves, UdP!Saves, Ud!Changes,
           UdP!Changes, Ud!Accepts, UdP!Accepts, Ud!Serve, UdP!Serve, Ud!Reject,
           UdP!Reject, Ud!Lose, UdP!Lose, Ud!Arrived, UdP!Arrived, Ud!Answered,
           UdP!Answered, Ud!UsersArrive, UdP!UsersArrive, Ud!InboundsArrive,
           UdP!InboundsArrive, Ud!UsageArrives, UdP!UsageArrives, Ud!OnClose,
           UdP!OnClose, Ud!Saved, UdP!Saved, Ud!DeleteUser, UdP!DeleteUser,
           Ud!ResetDataUsage, UdP!ResetDataUsage, Ud!ResetAllUsage,
           UdP!ResetAllUsage, Ud!Edit, UdP!Edit, Ud!RevokeSubscription,
           UdP!RevokeSubscription, Ud!Failed, UdP!Failed, Ud!Deliver, UdP!Deliver,
           Ud!IsEditing, UdP!IsEditing, Ud!IsOpen, UdP!IsOpen, Ud!OnTop, UdP!OnTop,
           Ud!PageFree, UdP!PageFree, Ud!FormFree, UdP!FormFree, Ud!Acts, UdP!Acts,
           Ud!Sends, UdP!Sends, Ud!OnCreateUser, UdP!OnCreateUser, Ud!OnEditingUser,
           UdP!OnEditingUser, Ud!FillIn, UdP!FillIn, Ud!Submit, UdP!Submit,
           Ud!Close, UdP!Close, Ud!OnDeletingUser, UdP!OnDeletingUser,
           Ud!HandleResetUsage, UdP!HandleResetUsage, Ud!HandleRevokeSubscription,
           UdP!HandleRevokeSubscription, Ud!OnResetAllUsage, UdP!OnResetAllUsage,
           Ud!Confirm, UdP!Confirm, Ud!OnDelete, UdP!OnDelete, Ud!OnReset,
           UdP!OnReset, Ud!OnRevoke, UdP!OnRevoke, Ud!OnResetAll, UdP!OnResetAll,
           Ud!Cancel, UdP!Cancel, Ud!Next, UdP!Next, Ud!Restrict, UdP!Restrict,
           Ud!RemoveAt, UdP!RemoveAt
  <1> QED
    BY <1>1, <1>2, <1>3, <1>4

LEMMA DashboardReadsUser == DashboardSpec => UdP!Spec
  <1>1. [Ud!Next]_(Ud!vars) => [UdP!Next]_(UdP!vars)
    <2>1. Ud!vars = UdP!vars /\ (Ud!Next <=> UdP!Next)
      BY UserRead
    <2>2. Ud!vars' = UdP!vars'
      BY DEF Ud!vars, Ud!dialogVars, Ud!pathVars, UdP!vars, UdP!dialogVars, UdP!pathVars
    <2> QED
      BY <2>1, <2>2
  <1>2. Ud!Init => UdP!Init
    BY UserRead
  <1> QED
    BY <1>1, <1>2, DashboardOfUser, PTL DEF Ud!Spec, UdP!Spec

\* Every change of DashboardContext.tsx is followed by a refetch of the list: with no answer
\* missing or overtaken the table ends up as the rows of the server.
THEOREM DashboardQuietTableIsCurrent == DashboardSpec => []QuietTableIsCurrent
  <1>1. UdP!Spec => []UdP!QuietTableIsCurrent
    BY UserRead, UdP!TableIsCurrent
  <1>2. UdP!QuietTableIsCurrent => QuietTableIsCurrent
    BY DEF QuietTableIsCurrent, Ud!QuietTableIsCurrent, UdP!QuietTableIsCurrent
  <1> QED
    BY <1>1, <1>2, DashboardReadsUser, PTL

\* The chart that UserDialog.tsx shows is of the user it is about, once the answers are in.
THEOREM DashboardChartIsOfOpenUser == DashboardSpec => []ChartIsOfOpenUser
  <1>1. UdP!Spec => []UdP!ChartIsOfOpenUser
    BY UserRead, UdP!ChartIsOfUser
  <1>2. UdP!ChartIsOfOpenUser => ChartIsOfOpenUser
    BY DEF ChartIsOfOpenUser, Ud!ChartIsOfOpenUser, Ud!IsEditing, Ud!NoRows,
           UdP!ChartIsOfOpenUser, UdP!IsEditing, UdP!NoRows
  <1> QED
    BY <1>1, <1>2, DashboardReadsUser, PTL

\* An edit that UserDialog.tsx submits goes to the user the dialog is about, with one of the
\* keys that were given out, even if the inbounds emptied the form under the dialog.
THEOREM DashboardEditsGoToTheOpenUser == DashboardSpec => EditsGoToTheOpenUser
  <1>1. UdP!Spec => UdP!EditsGoToTheOpenUser
    BY UserRead, UdP!EditsGoToUser
  <1>2. [Len(userFlight') > Len(userFlight) /\ UdP!Last(userFlight').kind = "edit" =>
            /\ UdP!Last(userFlight').user \in DOMAIN editing
            /\ UdP!Last(userFlight').row.key # 0]_(UdP!vars)
        => [Len(userFlight') > Len(userFlight) /\ Ud!Last(userFlight').kind = "edit" =>
              /\ Ud!Last(userFlight').user \in DOMAIN editing
              /\ Ud!Last(userFlight').row.key # 0]_(Ud!vars)
    BY DEF Ud!Last, UdP!Last, Ud!vars, Ud!dialogVars, Ud!pathVars, UdP!vars,
           UdP!dialogVars, UdP!pathVars
  <1> QED
    BY <1>1, <1>2, DashboardReadsUser, PTL DEF EditsGoToTheOpenUser,
       Ud!EditsGoToTheOpenUser, UdP!EditsGoToTheOpenUser

\* Of an administrator who waits for the answers no save puts back a key that was revoked,
\* although the table, the dialog and the form each hold a copy of it.
THEOREM DashboardRevokedKeyStaysOut == DashboardSpec => RevokedKeyStaysOut
  <1>1. UdP!Spec => UdP!RevokedKeyStaysOut
    BY UserRead, UdP!RevokedKeysStayOut
  <1>2. [~userHasty' /\ userSmooth =>
            \A u \in DOMAIN db \cap DOMAIN db' : db'[u].key >= db[u].key]_(UdP!vars)
        => [~userHasty' /\ userSmooth =>
              \A u \in DOMAIN db \cap DOMAIN db' : db'[u].key >= db[u].key]_(Ud!vars)
    BY DEF Ud!vars, Ud!dialogVars, Ud!pathVars, UdP!vars, UdP!dialogVars, UdP!pathVars
  <1> QED
    BY <1>1, <1>2, DashboardReadsUser, PTL DEF RevokedKeyStaysOut,
       Ud!RevokedKeyStaysOut, UdP!RevokedKeyStaysOut

--------------------------------------------------------------------------------
(***************************************************************************)
(* Dialog for the hosts.  It keeps its draft at its desk.                  *)
(***************************************************************************)
HdP == INSTANCE HostsDialog_proofs WITH
    MaxEdits <- MaxHostEdits, MaxRequests <- MaxHostRequests,
    open <- hostOpen, isLoading <- hostIsLoading, isPostLoading <- hostIsPostLoading,
    form <- hostForm, accordions <- hostAccordions, flight <- hostFlight,
    server <- hostServer, edits <- hostEdits, requests <- hostRequests,
    dirty <- hostDirty, calm <- hostCalm

LEMMA DashboardOfHosts == DashboardSpec => Hd!Spec
  <1>1. DashboardInit => Hd!Init
    BY DEF DashboardInit
  <1>2. [DashboardNext]_dashboardVars => [Hd!Next]_(Hd!vars)
    BY DEF DashboardNext, dashboardVars, hostVars, Hd!vars, Hd!screenVars, Others, AtUsersPage, AtUserDialog, AtUserForm,
           AtHostsDialog, AtNodesDialog, AtCoreSettings, AtCoreLogs, AtUsageFilter, AtSession,
           AtShareLinks
  <1> QED
    BY <1>1, <1>2, PTL DEF DashboardSpec, Hd!Spec

LEMMA HostsRead ==
    /\ HdP!Parameters
    /\ Hd!Init <=> HdP!Init
    /\ Hd!vars = HdP!vars
    /\ Hd!Next <=> HdP!Next
  <1>1. HdP!Parameters
    BY DashboardAssumption DEF Hd!Parameters, HdP!Parameters
  <1>2. Hd!Init <=> HdP!Init
    BY DEF Hd!Init, HdP!Init, Hd!OldHost, HdP!OldHost, Hd!NewHost, HdP!NewHost
  <1>3. Hd!vars = HdP!vars
    BY DEF Hd!vars, Hd!screenVars, HdP!vars, HdP!screenVars
  <1>4. Hd!Next <=> HdP!Next
    BY DEF Hd!vars, Hd!screenVars, HdP!vars, HdP!screenVars,
           Hd!Host, HdP!Host, Hd!NewHost, HdP!NewHost, Hd!OldHost, HdP!OldHost,
           Hd!Blank, HdP!Blank, Hd!HostOk, HdP!HostOk, Hd!Parsed, HdP!Parsed, Hd!Send,
           HdP!Send, Hd!FetchHosts, HdP!FetchHosts, Hd!Serve, HdP!Serve, Hd!Reset,
           HdP!Reset, Hd!HostsArrive, HdP!HostsArrive, Hd!Saved, HdP!Saved, Hd!Failed,
           HdP!Failed, Hd!SomebodyElseSaves, HdP!SomebodyElseSaves, Hd!OnEditingHosts,
           HdP!OnEditingHosts, Hd!OnClose, HdP!OnClose, Hd!Toggled, HdP!Toggled,
           Hd!ToggleAccordion, HdP!ToggleAccordion, Hd!HandleFormSubmit,
           HdP!HandleFormSubmit, Hd!Shown, HdP!Shown, Hd!Change, HdP!Change,
           Hd!ChangeRows, HdP!ChangeRows, Hd!HandleAddHost, HdP!HandleAddHost,
           Hd!DuplicateHost, HdP!DuplicateHost, Hd!RemoveHost, HdP!RemoveHost,
           Hd!MoveHostPosition, HdP!MoveHostPosition, Hd!SetField, HdP!SetField,
           Hd!TypeRemark, HdP!TypeRemark, Hd!TypeAddress, HdP!TypeAddress, Hd!TypePort,
           HdP!TypePort, Hd!TypeNames, HdP!TypeNames, Hd!SetSecurity, HdP!SetSecurity,
           Hd!TypeTricks, HdP!TypeTricks, Hd!CheckFlags, HdP!CheckFlags, Hd!SwitchHost,
           HdP!SwitchHost, Hd!Fields, HdP!Fields, Hd!Parsed, HdP!Parsed, Hd!Faulty,
           HdP!Faulty, Hd!Listing, HdP!Listing, Hd!Next, HdP!Next, Hd!Forms, HdP!Forms, Hd!InsertAt,
           HdP!InsertAt, Hd!RemoveAt, HdP!RemoveAt
  <1> QED
    BY <1>1, <1>2, <1>3, <1>4

LEMMA DashboardReadsHosts == DashboardSpec => HdP!Spec
  <1>1. [Hd!Next]_(Hd!vars) => [HdP!Next]_(HdP!vars)
    <2>1. Hd!vars = HdP!vars /\ (Hd!Next <=> HdP!Next)
      BY HostsRead
    <2>2. Hd!vars' = HdP!vars'
      BY DEF Hd!vars, Hd!screenVars, HdP!vars, HdP!screenVars
    <2> QED
      BY <2>1, <2>2
  <1>2. Hd!Init => HdP!Init
    BY HostsRead
  <1> QED
    BY <1>1, <1>2, DashboardOfHosts, PTL DEF Hd!Spec, HdP!Spec

\* What Draft is told of the dialog is the same as well.
LEMMA HostsDrafts == HdP!Editor!Spec => Hd!Editor!Spec
  <1>1. HdP!Editor!Init <=> Hd!Editor!Init
    BY DEF Hd!Editor!Init, HdP!Editor!Init, Hd!Mode, HdP!Mode, Hd!Puts, HdP!Puts,
           Hd!Parsed, HdP!Parsed, Hd!Forms, HdP!Forms, Hd!Host, HdP!Host
  <1>2. [HdP!Editor!Next]_(HdP!Editor!vars) => [Hd!Editor!Next]_(Hd!Editor!vars)
    <2>1. HdP!Editor!Stray <=> Hd!Editor!Stray
      BY DEF Hd!Editor!Stray, HdP!Editor!Stray, Hd!Mode, HdP!Mode, Hd!Puts, HdP!Puts,
             Hd!Parsed, HdP!Parsed, Hd!Forms, HdP!Forms, Hd!Host, HdP!Host
    <2>2. HdP!Editor!Open <=> Hd!Editor!Open
      BY DEF Hd!Editor!Open, HdP!Editor!Open, Hd!Mode, HdP!Mode, Hd!Puts, HdP!Puts,
             Hd!Parsed, HdP!Parsed, Hd!Forms, HdP!Forms, Hd!Host, HdP!Host
    <2>3. HdP!Editor!Show <=> Hd!Editor!Show
      BY DEF Hd!Editor!Show, HdP!Editor!Show, Hd!Mode, HdP!Mode, Hd!Puts, HdP!Puts,
             Hd!Parsed, HdP!Parsed, Hd!Forms, HdP!Forms, Hd!Host, HdP!Host
    <2>4. HdP!Editor!Edit <=> Hd!Editor!Edit
      BY DEF Hd!Editor!Edit, HdP!Editor!Edit, Hd!Mode, HdP!Mode, Hd!Puts, HdP!Puts,
             Hd!Parsed, HdP!Parsed, Hd!Forms, HdP!Forms, Hd!Host, HdP!Host
    <2>5. HdP!Editor!Submit <=> Hd!Editor!Submit
      BY DEF Hd!Editor!Submit, HdP!Editor!Submit, Hd!Mode, HdP!Mode, Hd!Puts, HdP!Puts,
             Hd!Parsed, HdP!Parsed, Hd!Forms, HdP!Forms, Hd!Host, HdP!Host
    <2>6. HdP!Editor!Receive <=> Hd!Editor!Receive
      BY DEF Hd!Editor!Receive, HdP!Editor!Receive, Hd!Mode, HdP!Mode, Hd!Puts, HdP!Puts,
             Hd!Parsed, HdP!Parsed, Hd!Forms, HdP!Forms, Hd!Host, HdP!Host
    <2>7. HdP!Editor!Confirm <=> Hd!Editor!Confirm
      BY DEF Hd!Editor!Confirm, HdP!Editor!Confirm, Hd!Mode, HdP!Mode, Hd!Puts, HdP!Puts,
             Hd!Parsed, HdP!Parsed, Hd!Forms, HdP!Forms, Hd!Host, HdP!Host
    <2>8. HdP!Editor!Close <=> Hd!Editor!Close
      BY DEF Hd!Editor!Close, HdP!Editor!Close, Hd!Mode, HdP!Mode, Hd!Puts, HdP!Puts,
             Hd!Parsed, HdP!Parsed, Hd!Forms, HdP!Forms, Hd!Host, HdP!Host
    <2>9. UNCHANGED HdP!Editor!vars <=> UNCHANGED Hd!Editor!vars
      BY DEF Hd!Editor!vars, HdP!Editor!vars, Hd!Mode, HdP!Mode, Hd!Puts, HdP!Puts,
             Hd!Parsed, HdP!Parsed, Hd!Forms, HdP!Forms, Hd!Host, HdP!Host
    <2>10. HdP!Editor!Next <=> Hd!Editor!Next
      BY <2>1, <2>2, <2>3, <2>4, <2>5, <2>6, <2>7, <2>8 DEF Hd!Editor!Next, HdP!Editor!Next
    <2> QED
      BY <2>9, <2>10
  <1> QED
    BY <1>1, <1>2, PTL DEF HdP!Editor!Spec, Hd!Editor!Spec

\* HostsDialog.tsx at the dashboard: what was changed is never taken away by a list that
\* arrives, and a form that was opened or applied is what the server has.
THEOREM DashboardHostsKeepDraft == DashboardSpec => HostsKeepDraft
  <1>1. HdP!Spec => HdP!HostsKeepDraft
    BY HostsRead, HdP!HostsImplementDraft
  <1>2. HdP!HostsKeepDraft => HdP!Editor!Spec
    BY DEF HdP!HostsKeepDraft
  <1> QED
    BY <1>1, <1>2, DashboardReadsHosts, HostsDrafts, PTL DEF HostsKeepDraft, Hd!HostsKeepDraft

\* An error that HostsDialog.tsx reports while the list is on the screen, or that comes
\* back to the screen with the list, is in an accordion that is mounted and open.
THEOREM DashboardNewErrorsAreShown == DashboardSpec => NewErrorsAreShown
  <1>1. HdP!Spec => HdP!NewErrorsAreShown
    BY HostsRead, HdP!HostsErrorsAreShown
  <1>2. [\A tag \in HdP!Told' \ HdP!Told : HdP!Shown(tag)']_(HdP!vars)
            => [\A tag \in Hd!Told' \ Hd!Told : Hd!Shown(tag)']_(Hd!vars)
    BY DEF Hd!vars, Hd!screenVars, HdP!vars, HdP!screenVars, Hd!Told, HdP!Told, Hd!Shown,
           HdP!Shown, Hd!Listing, HdP!Listing
  <1> QED
    BY <1>1, <1>2, DashboardReadsHosts, PTL DEF NewErrorsAreShown, Hd!NewErrorsAreShown,
       HdP!NewErrorsAreShown

--------------------------------------------------------------------------------
(***************************************************************************)
(* Dialog for the core.  It keeps its draft at its desk.                   *)
(***************************************************************************)
CoP == INSTANCE CoreSettings_proofs WITH
    MaxEdits <- MaxCoreEdits,
    open <- coreOpen, isLoading <- coreIsLoading, isPostLoading <- coreIsPostLoading,
    form <- coreForm, flight <- coreFlight, server <- coreServer, edits <- coreEdits,
    dirty <- coreDirty, calm <- coreCalm

LEMMA DashboardOfCore == DashboardSpec => Co!Spec
  <1>1. DashboardInit => Co!Init
    BY DEF DashboardInit
  <1>2. [DashboardNext]_dashboardVars => [Co!Next]_(Co!vars)
    BY DEF DashboardNext, dashboardVars, coreVars, Co!vars, Others, AtUsersPage, AtUserDialog, AtUserForm,
           AtHostsDialog, AtNodesDialog, AtCoreSettings, AtCoreLogs, AtUsageFilter, AtSession,
           AtShareLinks
  <1> QED
    BY <1>1, <1>2, PTL DEF DashboardSpec, Co!Spec

LEMMA CoreRead ==
    /\ CoP!Parameters
    /\ Co!Init <=> CoP!Init
    /\ Co!vars = CoP!vars
    /\ Co!Next <=> CoP!Next
  <1>1. CoP!Parameters
    BY DashboardAssumption DEF Co!Parameters, CoP!Parameters
  <1>2. Co!Init <=> CoP!Init
    BY DEF Co!Init, CoP!Init
  <1>3. Co!vars = CoP!vars
    BY DEF Co!vars, CoP!vars
  <1>4. Co!Next <=> CoP!Next
    BY DEF Co!vars, CoP!vars,
           Co!Request, CoP!Request, Co!FetchCoreSettings, CoP!FetchCoreSettings,
           Co!Serve, CoP!Serve, Co!Others, CoP!Others, Co!RoundEnds, CoP!RoundEnds,
           Co!Arrives, CoP!Arrives, Co!CoreArrives, CoP!CoreArrives, Co!SetConfig,
           CoP!SetConfig, Co!ConfigArrives, CoP!ConfigArrives, Co!Saved, CoP!Saved,
           Co!Failed, CoP!Failed, Co!DefaultConfig, CoP!DefaultConfig, Co!OnEditingCore,
           CoP!OnEditingCore, Co!OnClose, CoP!OnClose, Co!OnChange, CoP!OnChange,
           Co!HandleOnSave, CoP!HandleOnSave, Co!Next, CoP!Next, Co!RemoveAt,
           CoP!RemoveAt
  <1> QED
    BY <1>1, <1>2, <1>3, <1>4

LEMMA DashboardReadsCore == DashboardSpec => CoP!Spec
  <1>1. [Co!Next]_(Co!vars) => [CoP!Next]_(CoP!vars)
    <2>1. Co!vars = CoP!vars /\ (Co!Next <=> CoP!Next)
      BY CoreRead
    <2>2. Co!vars' = CoP!vars'
      BY DEF Co!vars, CoP!vars
    <2> QED
      BY <2>1, <2>2
  <1>2. Co!Init => CoP!Init
    BY CoreRead
  <1> QED
    BY <1>1, <1>2, DashboardOfCore, PTL DEF Co!Spec, CoP!Spec

\* What Draft is told of the dialog is the same as well.
LEMMA CoreDrafts == CoP!Editor!Spec => Co!Editor!Spec
  <1>1. CoP!Editor!Init <=> Co!Editor!Init
    BY DEF Co!Editor!Init, CoP!Editor!Init, Co!Mode, CoP!Mode, Co!Puts, CoP!Puts
  <1>2. [CoP!Editor!Next]_(CoP!Editor!vars) => [Co!Editor!Next]_(Co!Editor!vars)
    <2>1. CoP!Editor!Stray <=> Co!Editor!Stray
      BY DEF Co!Editor!Stray, CoP!Editor!Stray, Co!Mode, CoP!Mode, Co!Puts, CoP!Puts
    <2>2. CoP!Editor!Open <=> Co!Editor!Open
      BY DEF Co!Editor!Open, CoP!Editor!Open, Co!Mode, CoP!Mode, Co!Puts, CoP!Puts
    <2>3. CoP!Editor!Show <=> Co!Editor!Show
      BY DEF Co!Editor!Show, CoP!Editor!Show, Co!Mode, CoP!Mode, Co!Puts, CoP!Puts
    <2>4. CoP!Editor!Edit <=> Co!Editor!Edit
      BY DEF Co!Editor!Edit, CoP!Editor!Edit, Co!Mode, CoP!Mode, Co!Puts, CoP!Puts
    <2>5. CoP!Editor!Submit <=> Co!Editor!Submit
      BY DEF Co!Editor!Submit, CoP!Editor!Submit, Co!Mode, CoP!Mode, Co!Puts, CoP!Puts
    <2>6. CoP!Editor!Receive <=> Co!Editor!Receive
      BY DEF Co!Editor!Receive, CoP!Editor!Receive, Co!Mode, CoP!Mode, Co!Puts, CoP!Puts
    <2>7. CoP!Editor!Confirm <=> Co!Editor!Confirm
      BY DEF Co!Editor!Confirm, CoP!Editor!Confirm, Co!Mode, CoP!Mode, Co!Puts, CoP!Puts
    <2>8. CoP!Editor!Close <=> Co!Editor!Close
      BY DEF Co!Editor!Close, CoP!Editor!Close, Co!Mode, CoP!Mode, Co!Puts, CoP!Puts
    <2>9. UNCHANGED CoP!Editor!vars <=> UNCHANGED Co!Editor!vars
      BY DEF Co!Editor!vars, CoP!Editor!vars, Co!Mode, CoP!Mode, Co!Puts, CoP!Puts
    <2>10. CoP!Editor!Next <=> Co!Editor!Next
      BY <2>1, <2>2, <2>3, <2>4, <2>5, <2>6, <2>7, <2>8 DEF Co!Editor!Next, CoP!Editor!Next
    <2> QED
      BY <2>9, <2>10
  <1> QED
    BY <1>1, <1>2, PTL DEF CoP!Editor!Spec, Co!Editor!Spec

\* CoreSettingsModal.tsx at the dashboard: what was typed is never taken away by a
\* configuration that arrives, and one that was opened or applied is what the server has.
THEOREM DashboardCoreKeepsDraft == DashboardSpec => CoreKeepsDraft
  <1>1. CoP!Spec => CoP!CoreKeepsDraft
    BY CoreRead, CoP!CoreImplementsDraft
  <1>2. CoP!CoreKeepsDraft => CoP!Editor!Spec
    BY DEF CoP!CoreKeepsDraft
  <1> QED
    BY <1>1, <1>2, DashboardReadsCore, CoreDrafts, PTL DEF CoreKeepsDraft, Co!CoreKeepsDraft

--------------------------------------------------------------------------------
(***************************************************************************)
(* All tools.  Whichever the administrator works at, its variables are     *)
(* what its module says.                                                   *)
(***************************************************************************)
LEMMA UserTypes == UdP!TypeOK => Ud!TypeOK
  <1>1. \A f : UdP!IsRows(f) <=> Ud!IsRows(f)
    BY DEF Ud!IsRows, UdP!IsRows, Ud!Row, UdP!Row, Ud!Somebody, UdP!Somebody
  <1>2. Ud!Row = UdP!Row /\ Ud!Somebody = UdP!Somebody /\ Ud!Changes = UdP!Changes
    BY DEF Ud!Row, UdP!Row, Ud!Somebody, UdP!Somebody, Ud!Changes, UdP!Changes, Ud!Saves,
           UdP!Saves
  <1> SUFFICES ASSUME UdP!TypeOK PROVE Ud!TypeOK
    OBVIOUS
  <1>3. ASSUME NEW i \in DOMAIN userFlight
        PROVE  /\ userFlight[i].kind \in Ud!Changes \cup {"users", "inbounds", "usage"}
               /\ userFlight[i].user \in Ud!Somebody
               /\ userFlight[i].row \in Ud!Row
               /\ Ud!IsRows(userFlight[i].answer)
               /\ userFlight[i].state \in {"sent", "ok", "failed"}
    BY <1>1, <1>2 DEF UdP!TypeOK
  <1>4. Ud!IsRows(db) /\ Ud!IsRows(table) /\ Ud!IsRows(editing)
    BY <1>1 DEF UdP!TypeOK
  <1>5. /\ Ud!Cardinality(DOMAIN editing) <= 1 /\ keys \in Nat /\ saves \in Nat
        /\ \A s \in {userDeleting, resetting, revoking} :
              s \subseteq Ud!Somebody /\ Ud!Cardinality(s) <= 1
    <2>1. \A s : Ud!Cardinality(s) = UdP!Cardinality(s)
      BY Zenon DEF Ud!Cardinality, UdP!Cardinality
    <2> QED
      BY <1>2, <2>1 DEF UdP!TypeOK
  <1>6. /\ userForm \in [user : Ud!Somebody, key : Nat, content : Contents]
        /\ userChart \in Ud!Somebody
        /\ {creating, resettingAll, saving, userHasty, userSmooth} \subseteq BOOLEAN
    BY <1>2 DEF UdP!TypeOK
  <1> QED
    BY <1>3, <1>4, <1>5, <1>6 DEF Ud!TypeOK

LEMMA HostTypes == HdP!TypeOK => Hd!TypeOK
  BY ZenonT(60) DEF Hd!TypeOK, HdP!TypeOK, Hd!Forms, HdP!Forms, Hd!Host, HdP!Host

LEMMA CoreTypes == CoP!TypeOK => Co!TypeOK
  BY DEF Co!TypeOK, CoP!TypeOK

THEOREM DashboardToolsTyped == DashboardSpec => []ToolsTyped
  <1>1. Parameters /\ UdP!Parameters /\ HdP!Parameters /\ CoP!Parameters
    BY DashboardAssumption, UserRead, HostsRead, CoreRead
  <1>2. PageInv => Pg!TypeOK
    BY DEF PageInv
  <1>3. UsageInv => Us!TypeOK
    BY DEF UsageInv
  <1>4. (LogInv => Lo!TypeOK) /\ (LinksInv => Sh!TypeOK)
    BY DEF LogInv, LinksInv
  <1>5. UdP!Spec => []UdP!TypeOK
    BY <1>1, UdP!UserDialogTyped
  <1>6. HdP!Spec => []HdP!TypeOK
    BY <1>1, HdP!HostsTyping
  <1>7. CoP!Spec => []CoP!TypeOK
    BY <1>1, CoP!CoreTyping
  <1>8. Spec => []TypeOK
    BY <1>1, Typing
  <1>9. ASSUME Pg!TypeOK, Ud!TypeOK, TypeOK, Hd!TypeOK, Nd!TypeOK, Co!TypeOK, Lo!TypeOK,
               Us!TypeOK, Se!TypeOK, Sh!TypeOK
        PROVE  ToolsTyped
    BY <1>9, Zenon DEF ToolsTyped
  <1>10. DashboardSpec => [](Pg!TypeOK /\ Ud!TypeOK /\ TypeOK /\ Hd!TypeOK)
    BY <1>2, <1>5, <1>6, <1>8, DashboardOfPage, PageHolds, DashboardReadsUser, UserTypes,
       DashboardOfForm, DashboardReadsHosts, HostTypes, PTL
  <1>11. DashboardSpec => [](Nd!TypeOK /\ Co!TypeOK /\ Lo!TypeOK)
    BY <1>4, <1>7, DashboardOfNodes, NodesAreTyped, NodesTypes, DashboardReadsCore, CoreTypes,
       DashboardOfLogs, LogsHold, PTL
  <1>12. DashboardSpec => [](Us!TypeOK /\ Se!TypeOK /\ Sh!TypeOK)
    BY <1>3, <1>4, DashboardOfUsage, UsageHolds, DashboardOfSession, SessionTyped,
       DashboardOfLinks, LinksHold, PTL
  <1> QED
    BY <1>9, <1>10, <1>11, <1>12, PTL
================================================================================
