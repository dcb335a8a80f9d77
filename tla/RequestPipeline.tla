--------------------------- MODULE RequestPipeline ---------------------------
(***************************************************************************)
(* A request on its way through the HTTP server of a worker: the            *)
(* application's middleware, or a router's when the router is mounted by     *)
(* itself, the route's handler, the answer, and what happens after it.      *)
(*                                                                          *)
(* An answer is sent once: whoever tries again gets an exception.  A         *)
(* rejected promise that nobody handles ends the worker, with every request *)
(* in it; the primary process forks a new one (ClusterLifecycle).           *)
(***************************************************************************)
EXTENDS Naturals

CONSTANT WebRequests   \* the requests of the instance

VARIABLES
  rqAt,      \* where each request is
  rqVia,     \* how it enters and which router it is for
  rqBy,      \* who has answered it
  rqKilled   \* history: the requests the worker has died of

rqVars == <<rqAt, rqVia, rqBy, rqKilled>>

Routers == {"policy", "underwriting", "compliance", "claims", "documents"}
NoRoute == [entry |-> "none", router |-> "none"]

RequestPipelineInit ==
  /\ rqAt = [r \in WebRequests |-> "new"]
  /\ rqVia = [r \in WebRequests |-> NoRoute]
  /\ rqBy = [r \in WebRequests |-> "nobody"]
  /\ rqKilled = {}

\* Claims and analytics are mounted by no application; a router can be mounted alone.
Mounted == {"policy", "underwriting", "documents"}

\* The underwriting router limits before anything else.
FirstStage(router) == IF router = "underwriting" THEN "route limit" ELSE "authenticating"

RequestArrives(r) ==
  /\ rqAt[r] = "new"
  /\ \E router \in Routers :
       \/ /\ router \in Mounted /\ rqAt' = [rqAt EXCEPT ![r] = "limiting"]
          /\ rqVia' = [rqVia EXCEPT ![r] = [entry |-> "app", router |-> router]]
       \/ /\ rqAt' = [rqAt EXCEPT ![r] = FirstStage(router)]
          /\ rqVia' = [rqVia EXCEPT ![r] = [entry |-> "router", router |-> router]]
  /\ UNCHANGED <<rqBy, rqKilled>>

Goes(r, from, to) ==
  /\ rqAt[r] = from /\ rqAt' = [rqAt EXCEPT ![r] = to]
  /\ UNCHANGED <<rqVia, rqBy, rqKilled>>

\* The answer, and what the request does next.
Answers(r, from, by, to) ==
  /\ rqAt[r] = from /\ rqAt' = [rqAt EXCEPT ![r] = to]
  /\ rqBy' = [rqBy EXCEPT ![r] = by]
  /\ UNCHANGED <<rqVia, rqKilled>>

Of(r, router) == rqVia[r].router = router

-----------------------------------------------------------------------------
(* The application's middleware, in the order of its registration.         *)

AppLimiter(r) ==
  \/ Goes(r, "limiting", "parsing")
  \/ Answers(r, "limiting", "rateLimiter", "over")

ParseBody(r) == Goes(r, "parsing", "logging") \/ Goes(r, "parsing", "error")

LogRequest(r) == Goes(r, "logging", "authenticating")

\* validationErrorHandler hands on what is no validation error.
HandOnError(r) == Goes(r, "error", "formatting")

AnswerError(r) == Answers(r, "formatting", "errorHandler", "over")

\* Registered ahead of every route: whatever is authenticated ends here.
NotFound(r) == Goes(r, "unmatched", "formatting not found")
AnswerNotFound(r) == Answers(r, "formatting not found", "notFoundHandler", "over")

-----------------------------------------------------------------------------
(* The middleware of the routes, in the order of each router; a route        *)
(* without a step passes it.                                                 *)

\* A request of one of these routers goes on.
GoesIn(routers, r, from, to) ==
  rqVia[r].entry = "router" /\ rqVia[r].router \in routers /\ Goes(r, from, to)

Authenticate(r) ==
  \/ rqVia[r].entry = "app" /\ Goes(r, "authenticating", "unmatched")
  \/ GoesIn({"compliance"}, r, "authenticating", "second factor")
  \/ GoesIn({"policy", "underwriting"}, r, "authenticating", "validating")
  \/ GoesIn({"claims", "documents"}, r, "authenticating", "route limit")

HandleAuthError(r) ==
  \E from \in {"authenticating", "second factor"} :
    Answers(r, from, "handleAuthError", "over")

ValidateMFA(r) ==
  \/ Goes(r, "second factor", "route limit")
  \/ Answers(r, "second factor", "validateMFA", "over")

RouteLimiter(r) ==
  \/ GoesIn({"underwriting"}, r, "route limit", "authenticating")
  \/ GoesIn({"compliance", "claims", "documents"}, r, "route limit", "validating")
  \/ GoesIn({"policy"}, r, "route limit", "handling")
  \/ Answers(r, "route limit", "rateLimit", "over")

\* An invalid body is answered, and so is an error of the validation itself.
Validate(r) ==
  \/ GoesIn({"policy"}, r, "validating", "route limit")
  \/ GoesIn(Routers \ {"policy"}, r, "validating", "handling")
  \/ Answers(r, "validating", "validateRequest", "over")

-----------------------------------------------------------------------------
(* The handlers.                                                           *)

\* policy.routes: the breaker's action returns its argument, which is the handler: it
\* is handed back uncalled, and nothing is answered.
FireUncalled(r) == Of(r, "policy") /\ Goes(r, "handling", "over")

\* Mutant: an error that goes nowhere.
ForgetUnderwritingError(r) ==
  /\ Of(r, "underwriting")
  /\ \/ Answers(r, "handling", "underwriting", "over")
     \/ Goes(r, "handling", "over")

\* underwriting.routes: the answer, or the router's error handler.
HandleUnderwriting(r) ==
  /\ Of(r, "underwriting")
  /\ \/ Answers(r, "handling", "underwriting", "over")
     \/ Goes(r, "handling", "route error")

RouteError(r) == Answers(r, "route error", "routeErrorHandler", "over")

\* compliance.routes: the breaker waits ten seconds; then the error handler answers and
\* the controller goes on, ...
FireCompliance(r) ==
  /\ Of(r, "compliance")
  /\ \/ Answers(r, "handling", "compliance", "over")
     \/ Goes(r, "handling", "route error")
     \/ Answers(r, "handling", "routeErrorHandler", "late")

\* ... to answer a second time: the exception stays in the breaker's promise.
LateCompliance(r) == Goes(r, "late", "over")

\* schedule has no breaker; a date that is not in the future is refused.
ScheduleCompliance(r) ==
  /\ Of(r, "compliance")
  /\ \/ Answers(r, "handling", "compliance", "over") \/ Goes(r, "handling", "route error")

\* claims.routes and document.routes: the controller answers in any case, and returns
\* the response.
HandleClaim(r) == Of(r, "claims") /\ Answers(r, "handling", "claims", "recording")
HandleDocument(r) ==
  /\ Of(r, "documents")
  /\ \/ Answers(r, "handling", "documents", "recording")
     \/ Answers(r, "handling", "documents", "over")

\* The route records the length of the response as JSON, which refers to itself: the
\* exception leaves the handler (for documents, by way of a second answer that is
\* refused), and nobody handles its promise.  The worker dies.
RecordAnswer(r) ==
  /\ rqAt[r] = "recording"
  /\ rqKilled' = rqKilled \cup {r}
  /\ rqAt' = [q \in WebRequests |-> IF rqAt[q] = "new" THEN "new" ELSE "over"]
  /\ UNCHANGED <<rqVia, rqBy>>

RequestPipelineNext ==
  \E r \in WebRequests :
    \/ RequestArrives(r) \/ AppLimiter(r) \/ ParseBody(r) \/ LogRequest(r) \/ HandOnError(r)
    \/ AnswerError(r) \/ NotFound(r) \/ AnswerNotFound(r) \/ Authenticate(r)
    \/ HandleAuthError(r) \/ ValidateMFA(r) \/ Validate(r) \/ RouteLimiter(r)
    \/ FireUncalled(r) \/ HandleUnderwriting(r) \/ RouteError(r) \/ FireCompliance(r)
    \/ LateCompliance(r) \/ ScheduleCompliance(r) \/ HandleClaim(r) \/ HandleDocument(r)
    \/ RecordAnswer(r)

RequestPipelineSpec == RequestPipelineInit /\ [][RequestPipelineNext]_rqVars

-----------------------------------------------------------------------------
Stages == {"new", "limiting", "parsing", "logging", "error", "formatting", "unmatched",
           "formatting not found", "authenticating", "second factor", "validating",
           "route limit", "handling", "route error", "late", "recording", "over"}

\* The requests are of their types.
RequestPipelineTypeOK ==
  /\ rqAt \in [WebRequests -> Stages] /\ rqKilled \subseteq WebRequests
  /\ \A r \in WebRequests :
       rqVia[r] \in [entry : {"app", "router"}, router : Routers] \cup {NoRoute}

\* A request that is over without an answer was handed to the breaker of the policy
\* routes (policy.routes.ts:35), or was in a worker that died; and a worker dies only
\* of a request it has answered (document.routes.ts:103, claims.routes.ts:70).
UnansweredExplained ==
  /\ \A r \in WebRequests :
       rqAt[r] = "over" /\ rqBy[r] = "nobody" =>
         Of(r, "policy") \/ rqKilled \ {r} # {}
  /\ \A r \in rqKilled : rqBy[r] \in {"claims", "documents"}

\* "/api/v1/policies/{id} | GET | Retrieve policy details" (Technical
\* Specifications.md:638): a documented route is not answered with 404 by the
\* application.
RoutesServed == \A r \in WebRequests : rqBy[r] # "notFoundHandler"
=============================================================================
