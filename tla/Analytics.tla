------------------------------ MODULE Analytics ------------------------------
(***************************************************************************)
(* One report of AnalyticsController.ts: three caches of the same lifetime  *)
(* one behind the other, the route's, the controller's and the service's,   *)
(* and the gauges of metrics.ts that the calls set.  A cached value is its  *)
(* age and the time its entry has left, in ticks.                           *)
(*                                                                          *)
(* analytics.routes.ts hands two of three arguments to the controller and   *)
(* is mounted by nothing; the caches are taken to be what the controller's  *)
(* and the service's constructors ask for.                                  *)
(***************************************************************************)
EXTENDS Integers

CONSTANTS
  ReportCalls,      \* slots for requests
  CacheTtl,         \* lifetime of an entry, in ticks
  MaxFlight         \* bound on the ticks that a request lasts

ASSUME AnalyticsAssumption == CacheTtl \in Nat \ {0} /\ MaxFlight \in Nat

Levels == {"route", "controller", "service"}
NoEntry == [age |-> -1, left |-> 0]

\* Per cache a lifetime, in whose last tick the entry is still served, and the time
\* that a request takes to store what it was served.
OldestAnswer == 3 * (CacheTtl - 1 + MaxFlight)

VARIABLES
  anCaches,    \* the entry of every cache
  anCalls,     \* the step of every request, the age of its value, its ticks
  anGauges     \* cache hit ratio, success ratio

anVars == <<anCaches, anCalls, anGauges>>

NoReport == [step |-> "none", age |-> -1, ticks |-> 0]
ReportSteps == {"none", "route missed", "controller missed", "service missed",
                "fetched", "made", "answered"}

AnalyticsInit ==
  /\ anCaches = [l \in Levels |-> NoEntry]
  /\ anCalls = [r \in ReportCalls |-> NoReport]
  /\ anGauges = [hit |-> 0, success |-> 0]

Turns(r, from, to) ==
  anCalls[r].step = from /\ anCalls' = [anCalls EXCEPT ![r].step = to]

Holds(r, from, to, age) ==
  /\ anCalls[r].step = from
  /\ anCalls' = [anCalls EXCEPT ![r].step = to, ![r].age = age]

\* A hit serves the value with the age it has.
LooksUp(r, level, from, missed, hit) ==
  IF anCaches[level] = NoEntry
  THEN Turns(r, from, missed)
  ELSE Holds(r, from, hit, anCaches[level].age)

\* Mutant: the entry is served in the tick after its lifetime too.
StoresLonger(r, level) ==
  anCaches' = [anCaches EXCEPT ![level] = [age |-> anCalls[r].age, left |-> CacheTtl + 1]]

\* The entry lives for CacheTtl however old the value is.
Stores(r, level) ==
  anCaches' = [anCaches EXCEPT ![level] = [age |-> anCalls[r].age, left |-> CacheTtl]]

-----------------------------------------------------------------------------
\* The route's cache, then the controller.
ReportRequested(r) ==
  /\ LooksUp(r, "route", "none", "route missed", "none") /\ UNCHANGED <<anCaches, anGauges>>

\* getPolicyMetrics, getClaimsAnalytics, getBusinessIntelligence.  Only a hit sets
\* the hit ratio, to one.
GetReport(r) ==
  /\ LooksUp(r, "controller", "route missed", "controller missed", "answered")
  /\ anGauges' = IF anCaches["controller"] = NoEntry THEN anGauges
                 ELSE [hit |-> 1, success |-> 1]
  /\ UNCHANGED anCaches

\* generatePolicyMetrics, generateClaimsAnalytics, generateBusinessIntelligence.
GenerateReport(r) ==
  /\ LooksUp(r, "service", "controller missed", "service missed", "made")
  /\ UNCHANGED <<anCaches, anGauges>>

\* fetchPoliciesForPeriod, fetchClaimsForPeriod and the calculations.
FetchForPeriod(r) ==
  /\ Holds(r, "service missed", "fetched", 0) /\ UNCHANGED <<anCaches, anGauges>>

ServiceStores(r) ==
  /\ Turns(r, "fetched", "made") /\ Stores(r, "service")
  /\ anGauges' = [anGauges EXCEPT !.success = 1]

ControllerStores(r) ==
  /\ Turns(r, "made", "answered") /\ Stores(r, "controller")
  /\ anGauges' = [anGauges EXCEPT !.success = 1]

RouteAnswers(r) ==
  /\ anCalls[r].step = "answered" /\ anCalls' = [anCalls EXCEPT ![r] = NoReport]
  /\ Stores(r, "route") /\ UNCHANGED anGauges

\* recordError: a cache or a calculation failed; nothing is stored.
ReportFails(r) ==
  /\ anCalls[r].step \notin {"none", "answered"}
  /\ anCalls' = [anCalls EXCEPT ![r] = NoReport]
  /\ anGauges' = [anGauges EXCEPT !.success = 0]
  /\ UNCHANGED anCaches

\* getPerformanceMetrics asks no cache.
GetPerformanceMetrics ==
  /\ anGauges' \in {[anGauges EXCEPT !.success = s] : s \in {0, 1}}
  /\ UNCHANGED <<anCaches, anCalls>>

-----------------------------------------------------------------------------
Older(age) == IF age = -1 THEN -1 ELSE age + 1

\* Time passes: values age, and entries whose time is over are dropped.
Tick ==
  /\ \A r \in ReportCalls : anCalls[r].step # "none" => anCalls[r].ticks < MaxFlight
  /\ anCaches' = [l \in Levels |->
       IF anCaches[l].left <= 1 THEN NoEntry
       ELSE [age |-> anCaches[l].age + 1, left |-> anCaches[l].left - 1]]
  /\ anCalls' = [r \in ReportCalls |->
       IF anCalls[r].step = "none" THEN NoReport
       ELSE [step |-> anCalls[r].step, age |-> Older(anCalls[r].age), ticks |-> anCalls[r].ticks + 1]]
  /\ UNCHANGED anGauges

AnalyticsNext ==
  \/ Tick \/ GetPerformanceMetrics
  \/ \E r \in ReportCalls :
       \/ ReportRequested(r) \/ GetReport(r) \/ GenerateReport(r) \/ FetchForPeriod(r)
       \/ ServiceStores(r) \/ ControllerStores(r) \/ RouteAnswers(r) \/ ReportFails(r)

AnalyticsSpec == AnalyticsInit /\ [][AnalyticsNext]_anVars

-----------------------------------------------------------------------------
\* The entries, the requests and the gauges are of their types; and no report is ever
\* older than three lifetimes and the requests between them: a value is served out of
\* a cache into the next one, which starts a lifetime of its own
\* (AnalyticsController.ts:61, AnalyticsService.ts:138, analytics.routes.ts:72).
AnalyticsTypeOK ==
  /\ \A l \in Levels :
       anCaches[l] = NoEntry \/ (anCaches[l].age \in 0..OldestAnswer /\ anCaches[l].left > 0)
  /\ anCalls \in [ReportCalls ->
       [step : ReportSteps, age : -1..OldestAnswer, ticks : 0..MaxFlight]]
  /\ anGauges \in [hit : {0, 1}, success : {0, 1}]
=============================================================================
