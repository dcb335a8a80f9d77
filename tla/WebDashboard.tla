---------------------------- MODULE WebDashboard ----------------------------
(***************************************************************************)
(* The analytics of the browser client: AnalyticsDashboard.tsx, which polls *)
(* its metrics and merges live updates into them, PerformanceChart.tsx,     *)
(* RiskScoreWidget.tsx, which has live updates only, and the cache that     *)
(* DashboardPage.tsx keeps in localStorage.  A behaviour uses one of them.  *)
(*                                                                          *)
(* A read belongs to the range, or category, that was chosen when it was    *)
(* made; a new choice does not end it, and the last answer is shown.        *)
(***************************************************************************)
EXTENDS Naturals

CONSTANTS
  DashboardCalls    \* slots for reads in flight

VARIABLES
  dbPart,     \* the view in use
  dbChosen,   \* the date range of the dashboard, or the category of the chart
  dbCalls,    \* the choice every read was made for
  dbShown,    \* what is shown: the choice its numbers are for; live numbers in it
  dbStatus,   \* loading, error
  dbSocket,   \* the socket is open
  dbPage      \* DashboardPage: online, offlineMode; its cache and how old it is

dbVars == <<dbPart, dbChosen, dbCalls, dbShown, dbStatus, dbSocket, dbPage>>

Choices == {"first", "second"}
Nothing == "nothing"
Ages == {"none", "fresh", "old"}

WebDashboardInit ==
  /\ dbPart \in {"dashboard", "chart", "risk", "page"}
  /\ dbChosen = "first" /\ dbCalls = [c \in DashboardCalls |-> Nothing]
  /\ dbShown = [choice |-> Nothing, live |-> FALSE]
  /\ dbStatus = [loading |-> TRUE, error |-> FALSE] /\ dbSocket = FALSE
  /\ dbPage = [online |-> TRUE, offline |-> FALSE, shown |-> FALSE, stored |-> "none"]

-----------------------------------------------------------------------------
StartRead(c, choice) ==
  /\ dbCalls[c] = Nothing /\ dbCalls' = [dbCalls EXCEPT ![c] = choice]
  /\ dbStatus' = [dbStatus EXCEPT !.loading = TRUE]

\* fetchMetrics on mount and at the interval; the chart reads on mount only.
FetchMetrics(c) ==
  /\ dbPart = "chart" => /\ dbShown.choice = Nothing /\ ~dbStatus.error
                         /\ \A d \in DashboardCalls : dbCalls[d] = Nothing
  /\ StartRead(c, dbChosen)
  /\ UNCHANGED <<dbPart, dbChosen, dbShown, dbSocket, dbPage>>

\* A new range, or category, is read at once.  Only the dashboard's numbers can be
\* chosen again, and not while the error is shown in their place.
SetDateRange(c, choice) ==
  /\ choice # dbChosen /\ dbChosen' = choice
  /\ dbPart = "dashboard" => dbShown.choice # Nothing /\ ~dbStatus.error
  /\ StartRead(c, choice)
  /\ UNCHANGED <<dbPart, dbShown, dbSocket, dbPage>>

MetricsAnswered(c) ==
  /\ dbCalls[c] # Nothing /\ dbCalls' = [dbCalls EXCEPT ![c] = Nothing]
  /\ dbShown' = [choice |-> dbCalls[c], live |-> FALSE]
  /\ dbStatus' = [loading |-> FALSE, error |-> FALSE]
  /\ UNCHANGED <<dbPart, dbChosen, dbSocket, dbPage>>

\* The error hides the numbers until a read succeeds.
MetricsFailed(c) ==
  /\ dbCalls[c] # Nothing /\ dbCalls' = [dbCalls EXCEPT ![c] = Nothing]
  /\ dbStatus' = [loading |-> FALSE, error |-> TRUE]
  /\ UNCHANGED <<dbPart, dbChosen, dbShown, dbSocket, dbPage>>

-----------------------------------------------------------------------------
\* A live update of the dashboard is merged into the numbers, or stands for them.
LiveMetrics ==
  /\ dbSocket
  /\ dbShown' = [choice |-> IF dbShown.choice = Nothing THEN "first" ELSE dbShown.choice, live |-> TRUE]
  /\ UNCHANGED <<dbPart, dbChosen, dbCalls, dbStatus, dbSocket, dbPage>>

\* A point of the chart is appended to what is shown.
LivePoint ==
  /\ dbSocket /\ dbShown' = [dbShown EXCEPT !.live = TRUE]
  /\ UNCHANGED <<dbPart, dbChosen, dbCalls, dbStatus, dbSocket, dbPage>>

\* An error of the chart's socket hides the chart.
ChartSocketError ==
  /\ dbSocket /\ dbStatus' = [dbStatus EXCEPT !.error = TRUE] /\ dbSocket' = FALSE
  /\ UNCHANGED <<dbPart, dbChosen, dbCalls, dbShown, dbPage>>

\* The widget has live numbers only; nothing clears the error of a message that
\* could not be read.
RiskMessage(readable) ==
  /\ dbSocket
  /\ IF readable
     THEN /\ dbShown' = [choice |-> "first", live |-> TRUE]
          /\ dbStatus' = [dbStatus EXCEPT !.loading = FALSE]
     ELSE dbStatus' = [dbStatus EXCEPT !.error = TRUE] /\ UNCHANGED dbShown
  /\ UNCHANGED <<dbPart, dbChosen, dbCalls, dbSocket, dbPage>>

-----------------------------------------------------------------------------
\* readyState changes; the page is offline without a connection or a socket.
SocketChanges(open) ==
  /\ dbSocket' = open /\ dbPage' = [dbPage EXCEPT !.offline = ~dbPage.online \/ ~open]
  /\ UNCHANGED <<dbPart, dbChosen, dbCalls, dbShown, dbStatus>>

NetworkChanges(online) ==
  /\ dbPage' = [dbPage EXCEPT !.online = online, !.offline = ~online \/ ~dbSocket]
  /\ UNCHANGED <<dbPart, dbChosen, dbCalls, dbShown, dbStatus, dbSocket>>

\* updateMetricsCache: if localStorage is full, neither cache is written; the
\* page is online again either way.
PageMessage(stored) ==
  /\ dbSocket
  /\ dbPage' = [dbPage EXCEPT !.offline = FALSE, !.shown = stored \/ @,
                              !.stored = IF stored THEN "fresh" ELSE @]
  /\ UNCHANGED <<dbPart, dbChosen, dbCalls, dbShown, dbStatus, dbSocket>>

\* Five minutes pass.
CachedMetricsAge ==
  /\ dbPage.stored = "fresh" /\ dbPage' = [dbPage EXCEPT !.stored = "old"]
  /\ UNCHANGED <<dbPart, dbChosen, dbCalls, dbShown, dbStatus, dbSocket>>

\* The page is opened again: a fresh cache is shown.
PageMounts ==
  /\ dbPage' = [dbPage EXCEPT !.shown = dbPage.stored = "fresh", !.offline = ~dbPage.online \/ ~dbSocket]
  /\ UNCHANGED <<dbPart, dbChosen, dbCalls, dbShown, dbStatus, dbSocket>>

Reads ==
  \E c \in DashboardCalls :
    \/ FetchMetrics(c) \/ MetricsAnswered(c) \/ MetricsFailed(c)
    \/ \E choice \in Choices : SetDateRange(c, choice)

DashboardNext == dbPart = "dashboard" /\ (Reads \/ LiveMetrics)
ChartNext == dbPart = "chart" /\ (Reads \/ LivePoint \/ ChartSocketError)
RiskNext == dbPart = "risk" /\ \E readable \in BOOLEAN : RiskMessage(readable)
PageNext ==
  /\ dbPart = "page"
  /\ \/ \E online \in BOOLEAN : NetworkChanges(online)
     \/ \E stored \in BOOLEAN : PageMessage(stored)
     \/ CachedMetricsAge \/ PageMounts

WebDashboardNext ==
  \/ \E open \in BOOLEAN : SocketChanges(open)
  \/ DashboardNext \/ ChartNext \/ RiskNext \/ PageNext

WebDashboardSpec == WebDashboardInit /\ [][WebDashboardNext]_dbVars

-----------------------------------------------------------------------------
\* Every view is of its type, and one that no longer loads has numbers or an error.
WebDashboardTypeOK ==
  /\ dbPart \in {"dashboard", "chart", "risk", "page"} /\ dbChosen \in Choices
  /\ dbCalls \in [DashboardCalls -> Choices \cup {Nothing}]
  /\ dbShown \in [choice : Choices \cup {Nothing}, live : BOOLEAN]
  /\ dbStatus \in [loading : BOOLEAN, error : BOOLEAN]
  /\ ~dbStatus.loading => dbStatus.error \/ dbShown.choice # Nothing
  /\ dbSocket \in BOOLEAN
  /\ dbPage \in [online : BOOLEAN, offline : BOOLEAN, shown : BOOLEAN, stored : Ages]
=============================================================================
