---------------------------- MODULE RequestsProofs ----------------------------
(***************************************************************************)
(* What a request meets on its way: the middleware, the cached reads of a  *)
(* policy, the pool and the cache client, and the account of the user.     *)
(***************************************************************************)
EXTENDS RequestPipeline, PolicyReads, Connections, UserAccounts, FiniteSetTheorems, TLAPS

-----------------------------------------------------------------------------
(* The request pipeline                                                    *)

Answerers == {"nobody", "rateLimiter", "errorHandler", "notFoundHandler", "handleAuthError",
              "validateMFA", "validateRequest", "rateLimit", "underwriting",
              "routeErrorHandler", "compliance", "claims", "documents"}
Vias == [entry : {"app", "router"}, router : Routers] \cup {NoRoute}

\* The types, with the domains.
PipelineTypeInv ==
  /\ rqAt \in [WebRequests -> Stages] /\ rqVia \in [WebRequests -> Vias]
  /\ rqBy \in [WebRequests -> Answerers] /\ rqKilled \subseteq WebRequests

\* The stages behind an answer are reached by an answer.
AnsweredInv ==
  \A r \in WebRequests :
    /\ rqAt[r] = "late" => rqBy[r] # "nobody"
    /\ rqAt[r] = "recording" => rqBy[r] \in {"claims", "documents"}

\* A request the worker died of is over.
KilledOver == \A r \in rqKilled : rqAt[r] = "over"

RequestPipelineInv ==
  /\ PipelineTypeInv
  /\ AnsweredInv
  /\ KilledOver
  /\ UnansweredExplained

-----------------------------------------------------------------------------
(* The three kinds of steps.                                               *)

\* A request goes on, and is not over, or is over because it was answered or handed
\* to the breaker of the policy routes.
LEMMA GoesStep ==
  ASSUME RequestPipelineInv, NEW r \in WebRequests, NEW from \in Stages \ {"over"},
         NEW to \in Stages \ {"late", "recording"}, Goes(r, from, to),
         to = "over" => Of(r, "policy") \/ rqBy[r] # "nobody"
  PROVE  RequestPipelineInv'
<1>1. rqAt' = [rqAt EXCEPT ![r] = to] /\ rqAt[r] = from
  BY DEF Goes
<1>2. UNCHANGED <<rqVia, rqBy, rqKilled>>
  BY DEF Goes
<1>3. PipelineTypeInv'
  BY <1>1, <1>2 DEF RequestPipelineInv, PipelineTypeInv
<1>4. \A q \in WebRequests : q # r => rqAt'[q] = rqAt[q]
  BY <1>1 DEF RequestPipelineInv, PipelineTypeInv
<1>5. rqAt'[r] = to
  BY <1>1 DEF RequestPipelineInv, PipelineTypeInv
<1>6. AnsweredInv'
  BY <1>2, <1>4, <1>5 DEF RequestPipelineInv, AnsweredInv
<1>7. KilledOver'
  BY <1>1, <1>2, <1>4 DEF RequestPipelineInv, KilledOver, PipelineTypeInv
<1>8. UnansweredExplained'
  BY <1>2, <1>4, <1>5 DEF RequestPipelineInv, UnansweredExplained, Of
<1>. QED
  BY <1>3, <1>6, <1>7, <1>8 DEF RequestPipelineInv

\* A request is answered, and is over, or has something left to do.
LEMMA AnswersStep ==
  ASSUME RequestPipelineInv, NEW r \in WebRequests, NEW from \in Stages \ {"over"},
         NEW by \in Answerers \ {"nobody"}, NEW to \in {"over", "late", "recording"},
         Answers(r, from, by, to),
         to = "recording" => by \in {"claims", "documents"}
  PROVE  RequestPipelineInv'
<1>1. rqAt' = [rqAt EXCEPT ![r] = to] /\ rqAt[r] = from /\ rqBy' = [rqBy EXCEPT ![r] = by]
  BY DEF Answers
<1>2. UNCHANGED <<rqVia, rqKilled>>
  BY DEF Answers
<1>3. PipelineTypeInv'
  BY <1>1, <1>2 DEF RequestPipelineInv, PipelineTypeInv, Stages
<1>4. \A q \in WebRequests : q # r => rqAt'[q] = rqAt[q] /\ rqBy'[q] = rqBy[q]
  BY <1>1 DEF RequestPipelineInv, PipelineTypeInv
<1>5. rqAt'[r] = to /\ rqBy'[r] = by
  BY <1>1 DEF RequestPipelineInv, PipelineTypeInv
<1>6. r \notin rqKilled
  BY <1>1 DEF RequestPipelineInv, KilledOver
<1>7. AnsweredInv'
  BY <1>4, <1>5 DEF RequestPipelineInv, AnsweredInv
<1>8. KilledOver'
  BY <1>2, <1>4, <1>6 DEF RequestPipelineInv, KilledOver, PipelineTypeInv
<1>9. UnansweredExplained'
  BY <1>2, <1>4, <1>5, <1>6 DEF RequestPipelineInv, UnansweredExplained, Of, PipelineTypeInv
<1>. QED
  BY <1>3, <1>7, <1>8, <1>9 DEF RequestPipelineInv

\* A worker dies of a request it has answered, and every other one is over.
LEMMA RecordStep ==
  ASSUME RequestPipelineInv, NEW r \in WebRequests, RecordAnswer(r)
  PROVE  RequestPipelineInv'
<1>1. rqAt[r] = "recording" /\ rqKilled' = rqKilled \cup {r} /\ UNCHANGED <<rqVia, rqBy>>
  BY DEF RecordAnswer
<1>2. rqAt' = [q \in WebRequests |-> IF rqAt[q] = "new" THEN "new" ELSE "over"]
  BY DEF RecordAnswer
<1>3. PipelineTypeInv'
  BY <1>1, <1>2 DEF RequestPipelineInv, PipelineTypeInv, Stages
<1>4. AnsweredInv'
  BY <1>2 DEF AnsweredInv
<1>5. rqBy[r] \in {"claims", "documents"}
  BY <1>1 DEF RequestPipelineInv, AnsweredInv
<1>6. KilledOver'
  BY <1>1, <1>2 DEF RequestPipelineInv, KilledOver, PipelineTypeInv
<1>7. \A q \in WebRequests : q # r => rqKilled' \ {q} # {}
  BY <1>1
<1>8. UnansweredExplained'
  BY <1>1, <1>5, <1>7 DEF RequestPipelineInv, UnansweredExplained
<1>. QED
  BY <1>3, <1>4, <1>6, <1>8 DEF RequestPipelineInv

\* A request that arrives is not over, and no request that is over changes its route.
LEMMA RequestArrivesStep ==
  ASSUME RequestPipelineInv, NEW r \in WebRequests, RequestArrives(r)
  PROVE  RequestPipelineInv'
<1>1. PICK router \in Routers, to \in {"limiting", "authenticating", "route limit"}, entry \in {"app", "router"} :
        /\ rqAt' = [rqAt EXCEPT ![r] = to]
        /\ rqVia' = [rqVia EXCEPT ![r] = [entry |-> entry, router |-> router]]
  BY DEF RequestArrives, FirstStage
<1>2. rqAt[r] = "new" /\ UNCHANGED <<rqBy, rqKilled>>
  BY DEF RequestArrives
<1>3. PipelineTypeInv'
  BY <1>1, <1>2 DEF RequestPipelineInv, PipelineTypeInv, Stages, Vias
<1>4. \A q \in WebRequests : q # r => rqAt'[q] = rqAt[q] /\ rqVia'[q] = rqVia[q]
  BY <1>1 DEF RequestPipelineInv, PipelineTypeInv
<1>5. rqAt'[r] \notin {"over", "late", "recording"}
  BY <1>1 DEF RequestPipelineInv, PipelineTypeInv
<1>6. AnsweredInv' /\ KilledOver'
  BY <1>2, <1>4, <1>5 DEF RequestPipelineInv, AnsweredInv, KilledOver, PipelineTypeInv
<1>7. UnansweredExplained'
  BY <1>2, <1>4, <1>5 DEF RequestPipelineInv, UnansweredExplained, Of
<1>. QED
  BY <1>3, <1>6, <1>7 DEF RequestPipelineInv

-----------------------------------------------------------------------------
\* The initial state satisfies the invariant.
LEMMA RequestPipelineInitInv == RequestPipelineInit => RequestPipelineInv
BY DEF RequestPipelineInit, RequestPipelineInv, PipelineTypeInv, AnsweredInv, KilledOver, UnansweredExplained,
       Stages, Vias, Answerers

\* The application's middleware.
LEMMA MiddlewareSteps ==
  ASSUME RequestPipelineInv, NEW r \in WebRequests,
         \/ AppLimiter(r) \/ ParseBody(r) \/ LogRequest(r) \/ HandOnError(r)
         \/ AnswerError(r) \/ NotFound(r) \/ AnswerNotFound(r)
  PROVE  RequestPipelineInv'
<1>. USE DEF Stages, Answerers
<1>1. CASE AppLimiter(r)      BY <1>1, GoesStep, AnswersStep DEF AppLimiter
<1>2. CASE ParseBody(r)       BY <1>2, GoesStep DEF ParseBody
<1>3. CASE LogRequest(r)      BY <1>3, GoesStep DEF LogRequest
<1>4. CASE HandOnError(r)     BY <1>4, GoesStep DEF HandOnError
<1>5. CASE AnswerError(r)     BY <1>5, AnswersStep DEF AnswerError
<1>6. CASE NotFound(r)        BY <1>6, GoesStep DEF NotFound
<1>7. CASE AnswerNotFound(r)  BY <1>7, AnswersStep DEF AnswerNotFound
<1>. QED
  BY <1>1, <1>2, <1>3, <1>4, <1>5, <1>6, <1>7

\* The middleware of the routes.
LEMMA RouteSteps ==
  ASSUME RequestPipelineInv, NEW r \in WebRequests,
         \/ Authenticate(r) \/ HandleAuthError(r) \/ ValidateMFA(r) \/ Validate(r)
         \/ RouteLimiter(r)
  PROVE  RequestPipelineInv'
<1>. USE DEF Stages, Answerers
<1>1. CASE Authenticate(r)     BY <1>1, GoesStep DEF Authenticate, GoesIn
<1>2. CASE HandleAuthError(r)
  <2>1. PICK from \in {"authenticating", "second factor"} :
          Answers(r, from, "handleAuthError", "over")
    BY <1>2 DEF HandleAuthError
  <2>. QED
    BY <2>1, AnswersStep
<1>3. CASE ValidateMFA(r)      BY <1>3, GoesStep, AnswersStep DEF ValidateMFA
<1>4. CASE Validate(r)         BY <1>4, GoesStep, AnswersStep DEF Validate, GoesIn
<1>5. CASE RouteLimiter(r)     BY <1>5, GoesStep, AnswersStep DEF RouteLimiter, GoesIn
<1>. QED
  BY <1>1, <1>2, <1>3, <1>4, <1>5

\* The handlers.
LEMMA RouteHandlerSteps ==
  ASSUME RequestPipelineInv, NEW r \in WebRequests,
         \/ FireUncalled(r) \/ HandleUnderwriting(r) \/ RouteError(r) \/ FireCompliance(r)
         \/ LateCompliance(r) \/ ScheduleCompliance(r) \/ HandleClaim(r) \/ HandleDocument(r)
  PROVE  RequestPipelineInv'
<1>. USE DEF Stages, Answerers
<1>1. CASE FireUncalled(r)        BY <1>1, GoesStep DEF FireUncalled
<1>2. CASE HandleUnderwriting(r)  BY <1>2, GoesStep, AnswersStep DEF HandleUnderwriting
<1>3. CASE RouteError(r)          BY <1>3, AnswersStep DEF RouteError
<1>4. CASE FireCompliance(r)      BY <1>4, GoesStep, AnswersStep DEF FireCompliance
<1>5. CASE LateCompliance(r)
  <2>1. rqBy[r] # "nobody"
    BY <1>5 DEF LateCompliance, Goes, RequestPipelineInv, AnsweredInv
  <2>. QED
    BY <1>5, <2>1, GoesStep DEF LateCompliance
<1>6. CASE ScheduleCompliance(r)  BY <1>6, GoesStep, AnswersStep DEF ScheduleCompliance
<1>7. CASE HandleClaim(r)         BY <1>7, AnswersStep DEF HandleClaim
<1>8. CASE HandleDocument(r)      BY <1>8, AnswersStep DEF HandleDocument
<1>. QED
  BY <1>1, <1>2, <1>3, <1>4, <1>5, <1>6, <1>7, <1>8

\* Every step preserves the invariant.
LEMMA RequestPipelineNextInv == RequestPipelineInv /\ [RequestPipelineNext]_rqVars => RequestPipelineInv'
<1>. SUFFICES ASSUME RequestPipelineInv, [RequestPipelineNext]_rqVars PROVE RequestPipelineInv'
  OBVIOUS
<1>1. CASE RequestPipelineNext
  BY <1>1, RequestArrivesStep, MiddlewareSteps, RouteSteps, RouteHandlerSteps, RecordStep
     DEF RequestPipelineNext
<1>2. CASE UNCHANGED rqVars
  BY <1>2 DEF rqVars, RequestPipelineInv, PipelineTypeInv, AnsweredInv, KilledOver, UnansweredExplained, Of
<1>. QED
  BY <1>1, <1>2

-----------------------------------------------------------------------------
\* Requests, routes and answers keep their types.
THEOREM RequestPipelineTyped == RequestPipelineSpec => []RequestPipelineTypeOK
<1>1. RequestPipelineInv => RequestPipelineTypeOK
  BY DEF RequestPipelineInv, PipelineTypeInv, RequestPipelineTypeOK, Vias
<1>. QED
  BY RequestPipelineInitInv, RequestPipelineNextInv, <1>1, PTL DEF RequestPipelineSpec

\* However many requests a worker has, and in whatever order they are handled: one
\* that is over without an answer was handed to the breaker of the policy routes
\* (policy.routes.ts:35), or was in a worker that died of another one, which was
\* answered (document.routes.ts:103, claims.routes.ts:70).
THEOREM UnansweredAlwaysExplained == RequestPipelineSpec => []UnansweredExplained
<1>1. RequestPipelineInv => UnansweredExplained
  BY DEF RequestPipelineInv
<1>. QED
  BY RequestPipelineInitInv, RequestPipelineNextInv, <1>1, PTL DEF RequestPipelineSpec

-----------------------------------------------------------------------------
(* The policy reads                                                        *)

\* The explanation is inductive together with the types.
PolicyReadsInv == PolicyReadsTypeOK /\ StaleCopyExplained

Calls == [step : ReadSteps, got : NoCopy..MaxWrites]

-----------------------------------------------------------------------------
\* Every write, and none, is a copy.
LEMMA ReadWrites == /\ 1 \in 1..MaxWrites /\ NoCopy \in NoCopy..MaxWrites
                /\ 1..MaxWrites \subseteq NoCopy..MaxWrites
BY PolicyReadsAssumption DEF NoCopy

\* A request that takes its next step keeps the type of the requests, and leaves
\* the others alone.
LEMMA CallStep ==
  ASSUME PolicyReadsTypeOK, NEW r \in ReadSlots, NEW c \in Calls,
         rdCalls' = [rdCalls EXCEPT ![r] = c]
  PROVE  /\ rdCalls' \in [ReadSlots -> Calls] /\ rdCalls'[r] = c
         /\ \A q \in ReadSlots : q # r => rdCalls'[q] = rdCalls[q]
BY DEF PolicyReadsTypeOK, Calls

\* A step that leaves the row, the copy and the reasons alone, by a request that is not
\* about to drop the copy.
LEMMA ReadQuietStep ==
  ASSUME PolicyReadsInv, NEW r \in ReadSlots, NEW c \in Calls, ~AtStep(r, "dropping"),
         rdCalls' = [rdCalls EXCEPT ![r] = c],
         UNCHANGED <<rdRow, rdCopy, rdOpen, rdWhy>>
  PROVE  PolicyReadsInv'
<1>1. PolicyReadsTypeOK'
  BY CallStep DEF PolicyReadsInv, PolicyReadsTypeOK, Calls
<1>2. \A q \in ReadSlots : AtStep(q, "dropping") => AtStep(q, "dropping")'
  BY CallStep DEF PolicyReadsInv, AtStep
<1>3. StaleCopyExplained'
  BY <1>2 DEF PolicyReadsInv, StaleCopyExplained
<1>. QED
  BY <1>1, <1>3 DEF PolicyReadsInv

\* A write behind the bound is followed by one within it.
LEMMA NextWrite ==
  ASSUME NEW n \in 1..MaxWrites, n < MaxWrites
  PROVE  n + 1 \in 1..MaxWrites
BY PolicyReadsAssumption

\* What a request can become.
LEMMA CallTypes ==
  ASSUME PolicyReadsTypeOK, NEW r \in ReadSlots
  PROVE  /\ NoRead \in Calls
         /\ \A s \in ReadSteps : [step |-> s, got |-> rdCalls[r].got] \in Calls
         /\ [step |-> "read", got |-> rdRow] \in Calls
<1>1. rdCalls[r].got \in NoCopy..MaxWrites /\ rdRow \in 1..MaxWrites
  BY DEF PolicyReadsTypeOK
<1>. QED
  BY <1>1, ReadWrites DEF Calls, NoRead, ReadSteps

-----------------------------------------------------------------------------
\* The initial state satisfies the invariant.
LEMMA PolicyReadsInitInv == PolicyReadsInit => PolicyReadsInv
<1>. SUFFICES ASSUME PolicyReadsInit PROVE PolicyReadsInv
  OBVIOUS
<1>1. NoRead \in [step : ReadSteps, got : NoCopy..MaxWrites]
  BY ReadWrites DEF NoRead, ReadSteps
<1>2. PolicyReadsTypeOK
  BY <1>1, ReadWrites DEF PolicyReadsInit, PolicyReadsTypeOK
<1>3. StaleCopyExplained
  BY DEF PolicyReadsInit, StaleCopyExplained
<1>. QED
  BY <1>2, <1>3 DEF PolicyReadsInv

\* The steps that change a request only.
LEMMA ReadRequestSteps ==
  ASSUME PolicyReadsInv, NEW r \in ReadSlots,
         \/ GetPolicy(r) \/ FireRead(r) \/ ReadRow(r) \/ UpdateTimesOut(r) \/ (\E u \in Updates : UpdatePolicy(r, u))
         \/ GetPolicies(r) \/ PageAnswered(r) \/ CallFails(r)
  PROVE  PolicyReadsInv'
<1>. USE CallTypes DEF PolicyReadsInv, AtStep, StepsTo, IsOver, ReadSteps
<1>1. CASE GetPolicy(r)     BY <1>1, ReadQuietStep DEF GetPolicy
<1>2. CASE ReadRow(r)       BY <1>2, ReadQuietStep DEF ReadRow
<1>3. CASE \E u \in Updates : UpdatePolicy(r, u)
  BY <1>3, ReadQuietStep DEF UpdatePolicy
<1>4. CASE GetPolicies(r)   BY <1>4, ReadQuietStep DEF GetPolicies
<1>5. CASE PageAnswered(r)  BY <1>5, ReadQuietStep DEF PageAnswered
<1>6. CASE CallFails(r)     BY <1>6, ReadQuietStep DEF CallFails
<1>7. CASE FireRead(r)      BY <1>7, ReadQuietStep DEF FireRead
<1>8. CASE UpdateTimesOut(r)  BY <1>8, ReadQuietStep DEF UpdateTimesOut
<1>. QED
  BY <1>1, <1>2, <1>3, <1>4, <1>5, <1>6, <1>7, <1>8

\* A copy that is filled is the row's, or an update has crossed the read.
LEMMA FillStep ==
  ASSUME PolicyReadsInv, NEW r \in ReadSlots, FillCopy(r)
  PROVE  PolicyReadsInv'
<1>1. rdCalls' \in [ReadSlots -> Calls]
  BY CallStep, CallTypes DEF FillCopy, IsOver, PolicyReadsInv
<1>2. rdCopy' = rdCalls[r].got /\ UNCHANGED <<rdRow, rdOpen>>
  BY DEF FillCopy
<1>3. rdCalls[r].got \in NoCopy..MaxWrites
  BY DEF PolicyReadsInv, PolicyReadsTypeOK
<1>4. rdWhy' = IF rdCalls[r].got # rdRow THEN {"crossed"} ELSE {}
  BY DEF FillCopy
<1>5. PolicyReadsTypeOK'
  BY <1>1, <1>2, <1>3, <1>4 DEF PolicyReadsInv, PolicyReadsTypeOK, Calls
<1>6. StaleCopyExplained'
  BY <1>2, <1>4 DEF StaleCopyExplained
<1>. QED
  BY <1>5, <1>6 DEF PolicyReadsInv

\* An update that commits is about to drop the copy.
LEMMA ReadCommitStep ==
  ASSUME PolicyReadsInv, NEW r \in ReadSlots, UpdateCommits(r)
  PROVE  PolicyReadsInv'
<1>1. /\ rdCalls' \in [ReadSlots -> Calls] /\ rdCalls'[r].step = "dropping"
  <2>1. [step |-> "dropping", got |-> rdCalls[r].got] \in Calls
    BY CallTypes DEF PolicyReadsInv, ReadSteps
  <2>2. rdCalls' = [rdCalls EXCEPT ![r] = [step |-> "dropping", got |-> rdCalls[r].got]]
    BY DEF UpdateCommits, StepsTo
  <2>. QED
    BY <2>1, <2>2, CallStep DEF PolicyReadsInv
<1>2. rdRow' = rdRow + 1 /\ rdRow < MaxWrites /\ UNCHANGED <<rdCopy, rdOpen, rdWhy>>
  BY DEF UpdateCommits
<1>3. PolicyReadsTypeOK'
  <2>1. rdRow' \in 1..MaxWrites
    BY <1>2, NextWrite DEF PolicyReadsInv, PolicyReadsTypeOK
  <2>. QED
    BY <1>1, <1>2, <2>1 DEF PolicyReadsInv, PolicyReadsTypeOK, Calls
<1>4. StaleCopyExplained'
  BY <1>1 DEF StaleCopyExplained, AtStep
<1>. QED
  BY <1>3, <1>4 DEF PolicyReadsInv

\* An update that commits after the breaker gave it up is a reason.
LEMMA LateUpdateStep ==
  ASSUME PolicyReadsInv, NEW r \in ReadSlots, LateUpdateCommits(r)
  PROVE  PolicyReadsInv'
<1>1. rdCalls' \in [ReadSlots -> Calls]
  BY CallStep, CallTypes DEF LateUpdateCommits, IsOver, PolicyReadsInv
<1>2. rdRow' \in 1..MaxWrites
  BY NextWrite DEF LateUpdateCommits, PolicyReadsInv, PolicyReadsTypeOK
<1>3. UNCHANGED <<rdCopy, rdOpen>> /\ rdWhy' = rdWhy \cup {"timed out"}
  BY DEF LateUpdateCommits
<1>. QED
  BY <1>1, <1>2, <1>3 DEF PolicyReadsInv, PolicyReadsTypeOK, StaleCopyExplained, Calls

\* The copy is dropped, or is not and that is a reason.
LEMMA DropSteps ==
  ASSUME PolicyReadsInv, NEW r \in ReadSlots, DropCopy(r) \/ DropFails(r)
  PROVE  PolicyReadsInv'
<1>1. rdCalls' \in [ReadSlots -> Calls]
  BY CallStep, CallTypes DEF DropCopy, DropFails, IsOver, PolicyReadsInv
<1>2. UNCHANGED <<rdRow, rdOpen>>
  BY DEF DropCopy, DropFails
<1>3. \/ rdCopy' = NoCopy /\ rdWhy' = {}
      \/ rdCopy' = rdCopy /\ rdWhy' = rdWhy \cup {"drop failed"}
  BY DEF DropCopy, DropFails
<1>4. PolicyReadsTypeOK'
  BY <1>1, <1>2, <1>3, ReadWrites DEF PolicyReadsInv, PolicyReadsTypeOK, Calls
<1>5. StaleCopyExplained'
  BY <1>3 DEF StaleCopyExplained
<1>. QED
  BY <1>4, <1>5 DEF PolicyReadsInv

\* What no request of the controller does.
LEMMA OtherSteps ==
  ASSUME PolicyReadsInv, UpdatedElsewhere \/ CopyExpires \/ BreakerTurns \/ UNCHANGED rdVars
  PROVE  PolicyReadsInv'
<1>1. CASE UpdatedElsewhere
  <2>1. rdRow' \in 1..MaxWrites
    BY <1>1, NextWrite DEF UpdatedElsewhere, PolicyReadsInv, PolicyReadsTypeOK
  <2>2. UNCHANGED <<rdCopy, rdOpen, rdCalls>> /\ rdWhy' = rdWhy \cup {"written elsewhere"}
    BY <1>1 DEF UpdatedElsewhere
  <2>. QED
    BY <2>1, <2>2 DEF PolicyReadsInv, PolicyReadsTypeOK, StaleCopyExplained
<1>2. CASE CopyExpires
  BY <1>2, ReadWrites DEF CopyExpires, PolicyReadsInv, PolicyReadsTypeOK, StaleCopyExplained
<1>3. CASE BreakerTurns
  BY <1>3 DEF BreakerTurns, PolicyReadsInv, PolicyReadsTypeOK, StaleCopyExplained, AtStep
<1>4. CASE UNCHANGED rdVars
  BY <1>4 DEF rdVars, PolicyReadsInv, PolicyReadsTypeOK, StaleCopyExplained, AtStep
<1>. QED
  BY <1>1, <1>2, <1>3, <1>4

\* Every step preserves the invariant.
LEMMA PolicyReadsNextInv == PolicyReadsInv /\ [PolicyReadsNext]_rdVars => PolicyReadsInv'
BY ReadRequestSteps, FillStep, ReadCommitStep, LateUpdateStep, DropSteps, OtherSteps DEF PolicyReadsNext

-----------------------------------------------------------------------------
\* The row, the copy and the requests keep their types.
THEOREM PolicyReadsTyped == PolicyReadsSpec => []PolicyReadsTypeOK
<1>1. PolicyReadsInv => PolicyReadsTypeOK
  BY DEF PolicyReadsInv
<1>. QED
  BY PolicyReadsInitInv, PolicyReadsNextInv, <1>1, PTL DEF PolicyReadsSpec

\* However many requests read, write and fill the cache at once: a cached response
\* that is not the row's is one an update is about to drop, or a read that was crossed
\* filled it (PolicyController.ts:117), or a drop failed (:160), or an update committed
\* after the breaker had given it up (:155), or the row was written by another way.
THEOREM StaleCopyAlwaysExplained == PolicyReadsSpec => []StaleCopyExplained
<1>1. PolicyReadsInv => StaleCopyExplained
  BY DEF PolicyReadsInv
<1>. QED
  BY PolicyReadsInitInv, PolicyReadsNextInv, <1>1, PTL DEF PolicyReadsSpec

-----------------------------------------------------------------------------
(* The connections                                                         *)

\* The calls that hold the variable for themselves, and the instances that are
\* open while nobody does.
HoldsClient(c) == cnCall[c].at \in {"connecting", "closing", "closed"}
Held == {cnInstance} \ {0}

\* As long as nothing spoilt it: a call that makes or closes an instance is
\* alone; the one that connects has the only open instance, which the variable
\* does not hold yet; the one that has closed its instance leaves none open.
ConnectionsInv ==
  /\ ConnectionsTypeOK
  /\ \A c \in PoolCalls : cnCall[c].op = "close" <=> cnCall[c].at \in {"closing", "closed"}
  /\ ~cnSpoilt =>
       /\ cnAnswer # "gone"
       /\ \A c \in PoolCalls :
            /\ HoldsClient(c) => Alone(c)
            /\ Waits(c, "connecting") => cnInstance = 0 /\ cnOpen = {cnCall[c].pool} /\ cnCall[c].pool # 0
            /\ cnCall[c].at \in {"checking", "closing"} => cnInstance # 0
            /\ Waits(c, "closed") => cnInstance # 0 /\ cnOpen = {}
       /\ (\A c \in PoolCalls : cnCall[c].at \notin {"connecting", "closed"}) => cnOpen = Held

LEMMA EitherIsBoolean ==
  ASSUME NEW p \in BOOLEAN, NEW q \in BOOLEAN
  PROVE  (p \/ q) \in BOOLEAN
BY Zenon

LEMMA ConnectionsInitInv == ConnectionsInit => ConnectionsInv
<1>. SUFFICES ASSUME ConnectionsInit PROVE ConnectionsInv
  OBVIOUS
<1>1. \A c \in PoolCalls : cnCall[c].op = "none" /\ cnCall[c].at = "idle"
  BY DEF ConnectionsInit, NoPoolCall
<1>2. ConnectionsTypeOK
  <2>1. NoPoolCall \in PoolCall
    BY ConnectionsAssumption DEF NoPoolCall, PoolCall
  <2>2. cnCall \in [PoolCalls -> PoolCall]
    BY <2>1 DEF ConnectionsInit
  <2>3. cnInstance \in 0..MaxPools /\ cnClients \in 0..MaxClients /\ cnTimers \in 0..cnClients
    BY ConnectionsAssumption DEF ConnectionsInit
  <2>4. cnSpoilt \in BOOLEAN
    BY Zenon DEF ConnectionsInit
  <2>. QED
    BY <2>2, <2>3, <2>4 DEF ConnectionsInit, ConnectionsTypeOK
<1>. QED
  BY <1>1, <1>2 DEF ConnectionsInit, ConnectionsInv, HoldsClient, Waits, Held

LEMMA SpoiltType ==
  ASSUME ConnectionsInv, NEW why \in BOOLEAN, Spoils(why)
  PROVE  /\ cnSpoilt' \in BOOLEAN
         /\ ~cnSpoilt' => ~cnSpoilt /\ ~why
<1>1. cnSpoilt \in BOOLEAN
  BY DEF ConnectionsInv, ConnectionsTypeOK
<1>. QED
  BY <1>1, EitherIsBoolean, Zenon DEF Spoils

LEMMA RedisStep ==
  ASSUME ConnectionsInv, InitializeRedis \/ GetClient \/ RedisLost \/ RedisReconnects
  PROVE  ConnectionsInv'
<1>1. UNCHANGED <<cnInstance, cnOpen, cnCall, cnAnswer, cnSpoilt>>
  BY DEF InitializeRedis, GetClient, RedisLost, RedisReconnects, cnPools
<1>2. /\ cnClient' \in {"none", "answering", "lost"} /\ cnClients' \in 0..MaxClients
      /\ cnTimers' \in 0..cnClients'
  BY ConnectionsAssumption
     DEF InitializeRedis, GetClient, RedisLost, RedisReconnects, HandleFailover, NewClient,
         StartHealthMonitoring, ConnectionsInv, ConnectionsTypeOK, cnPools
<1>. QED
  BY <1>1, <1>2 DEF ConnectionsInv, ConnectionsTypeOK, HoldsClient, Waits, Alone, Held

\* What a call of the pool leaves alone.
LEMMA PoolTypes ==
  ASSUME ConnectionsInv, UNCHANGED cnRedis, NEW c \in PoolCalls, NEW call \in PoolCall,
         cnCall' = [cnCall EXCEPT ![c] = call], cnSpoilt' \in BOOLEAN,
         cnInstance' \in 0..MaxPools, cnOpen' \in SUBSET PoolIds, cnAnswer' \in {"none", "open", "gone"},
         call.op = "close" <=> call.at \in {"closing", "closed"},
         ~cnSpoilt' =>
           /\ cnAnswer' # "gone"
           /\ \A d \in PoolCalls :
                /\ HoldsClient(d)' => Alone(d)'
                /\ Waits(d, "connecting")' => cnInstance' = 0 /\ cnOpen' = {cnCall'[d].pool} /\ cnCall'[d].pool # 0
                /\ cnCall'[d].at \in {"checking", "closing"} => cnInstance' # 0
                /\ Waits(d, "closed")' => cnInstance' # 0 /\ cnOpen' = {}
           /\ (\A d \in PoolCalls : cnCall'[d].at \notin {"connecting", "closed"}) => cnOpen' = Held'
  PROVE  ConnectionsInv'
<1>1. /\ cnCall' \in [PoolCalls -> PoolCall] /\ cnCall'[c] = call
      /\ \A d \in PoolCalls \ {c} : cnCall'[d] = cnCall[d]
  BY DEF ConnectionsInv, ConnectionsTypeOK
<1>2. ConnectionsTypeOK'
  BY <1>1 DEF ConnectionsInv, ConnectionsTypeOK, cnRedis
<1>3. \A d \in PoolCalls : cnCall'[d].op = "close" <=> cnCall'[d].at \in {"closing", "closed"}
  BY <1>1 DEF ConnectionsInv
<1>. QED
  BY <1>2, <1>3, Zenon DEF ConnectionsInv

LEMMA AnInstance ==
  ASSUME ConnectionsInv, NEW c \in PoolCalls, NEW op \in {"get", "health"}, InitializeDatabase(c, op)
  PROVE  \E p \in PoolIds : /\ cnOpen' = cnOpen \cup {p} /\ p # 0 /\ p \in 0..MaxPools
                            /\ cnOpen' \in SUBSET PoolIds
                            /\ [op |-> op, at |-> "connecting", pool |-> p] \in PoolCall
                            /\ cnCall' = [cnCall EXCEPT ![c] = [op |-> op, at |-> "connecting", pool |-> p]]
<1>1. PICK p \in PoolIds \ cnOpen :
        cnOpen' = cnOpen \cup {p} /\ Starts(c, op, "connecting", p)
  BY DEF InitializeDatabase
<1>2. p # 0 /\ p \in 0..MaxPools /\ cnOpen' \in SUBSET PoolIds
  BY <1>1, ConnectionsAssumption DEF PoolIds, ConnectionsInv, ConnectionsTypeOK
<1>3. [op |-> op, at |-> "connecting", pool |-> p] \in PoolCall
  BY <1>2 DEF PoolCall
<1>. QED
  BY <1>1, <1>2, <1>3 DEF Starts

LEMMA GetStep ==
  ASSUME ConnectionsInv, NEW c \in PoolCalls, NEW op \in {"get", "health"}, GetSequelize(c, op)
  PROVE  ConnectionsInv'
<1>0. UNCHANGED cnRedis /\ cnInstance' = cnInstance /\ cnAnswer' = cnAnswer /\ Waits(c, "idle")
  BY DEF GetSequelize
<1>1. CASE cnInstance = 0
  <2>1. InitializeDatabase(c, op) /\ Spoils(~Alone(c))
    BY <1>1 DEF GetSequelize
  <2>2. PICK p \in PoolIds :
          /\ cnOpen' = cnOpen \cup {p} /\ p # 0 /\ p \in 0..MaxPools
          /\ cnOpen' \in SUBSET PoolIds
          /\ [op |-> op, at |-> "connecting", pool |-> p] \in PoolCall
          /\ cnCall' = [cnCall EXCEPT ![c] = [op |-> op, at |-> "connecting", pool |-> p]]
    BY <2>1, AnInstance
  <2>3. cnSpoilt' \in BOOLEAN /\ (~cnSpoilt' => ~cnSpoilt /\ Alone(c))
    BY <2>1, SpoiltType DEF Alone
  <2>4. cnCall'[c] = [op |-> op, at |-> "connecting", pool |-> p]
        /\ \A d \in PoolCalls \ {c} : cnCall'[d] = cnCall[d]
    BY <2>2 DEF ConnectionsInv, ConnectionsTypeOK
  <2>5. ASSUME ~cnSpoilt'
        PROVE  /\ cnAnswer' # "gone"
               /\ \A d \in PoolCalls :
                    /\ HoldsClient(d)' => Alone(d)'
                    /\ Waits(d, "connecting")' => cnInstance' = 0 /\ cnOpen' = {cnCall'[d].pool} /\ cnCall'[d].pool # 0
                    /\ cnCall'[d].at \in {"checking", "closing"} => cnInstance' # 0
                    /\ Waits(d, "closed")' => cnInstance' # 0 /\ cnOpen' = {}
               /\ (\A d \in PoolCalls : cnCall'[d].at \notin {"connecting", "closed"}) => cnOpen' = Held'
    <3>1. ~cnSpoilt /\ Alone(c)
      BY <2>3, <2>5
    <3>2. \A d \in PoolCalls : cnCall[d].at = "idle"
      BY <1>0, <3>1 DEF Alone, Waits
    <3>3. cnOpen = {}
      BY <3>1, <3>2, <1>1 DEF ConnectionsInv, Held
    <3>. QED
      BY <1>0, <1>1, <2>2, <2>4, <3>1, <3>2, <3>3 DEF ConnectionsInv, HoldsClient, Alone, Waits
  <2>. QED
    BY <1>0, <2>2, <2>3, <2>5, PoolTypes DEF ConnectionsInv, ConnectionsTypeOK
<1>2. CASE cnInstance # 0
  <2>. DEFINE call == [op |-> op, at |-> "checking", pool |-> cnInstance]
  <2>1. /\ cnCall' = [cnCall EXCEPT ![c] = call] /\ cnOpen' = cnOpen
        /\ Spoils(\E d \in PoolCalls : cnCall[d].op = "close")
    BY <1>2 DEF GetSequelize, Starts
  <2>2. call \in PoolCall
    BY DEF PoolCall, ConnectionsInv, ConnectionsTypeOK
  <2>3. cnSpoilt' \in BOOLEAN /\ (~cnSpoilt' => ~cnSpoilt /\ \A d \in PoolCalls : cnCall[d].op # "close")
    BY <2>1, SpoiltType
  <2>4. cnCall'[c] = call /\ call.at = "checking" /\ call.op # "close"
        /\ \A d \in PoolCalls \ {c} : cnCall'[d] = cnCall[d]
    BY <2>1 DEF ConnectionsInv, ConnectionsTypeOK
  <2>. HIDE DEF call
  <2>5. ASSUME ~cnSpoilt'
        PROVE  /\ cnAnswer' # "gone"
               /\ \A d \in PoolCalls :
                    /\ HoldsClient(d)' => Alone(d)'
                    /\ Waits(d, "connecting")' => cnInstance' = 0 /\ cnOpen' = {cnCall'[d].pool} /\ cnCall'[d].pool # 0
                    /\ cnCall'[d].at \in {"checking", "closing"} => cnInstance' # 0
                    /\ Waits(d, "closed")' => cnInstance' # 0 /\ cnOpen' = {}
               /\ (\A d \in PoolCalls : cnCall'[d].at \notin {"connecting", "closed"}) => cnOpen' = Held'
    <3>1. ~cnSpoilt /\ \A d \in PoolCalls : cnCall[d].at \notin {"connecting", "closing", "closed"}
      BY <1>2, <2>3, <2>5 DEF ConnectionsInv, Waits
    <3>. QED
      BY <1>0, <1>2, <2>1, <2>4, <3>1 DEF ConnectionsInv, HoldsClient, Alone, Waits, Held
  <2>. QED
    BY <1>0, <2>1, <2>2, <2>3, <2>4, <2>5, PoolTypes DEF ConnectionsInv, ConnectionsTypeOK
<1>. QED
  BY <1>1, <1>2

\* What a call leaves when it ends.
LEMMA StopStep ==
  ASSUME ConnectionsInv, NEW c \in PoolCalls, Stops(c), UNCHANGED cnRedis, cnSpoilt' \in BOOLEAN,
         cnInstance' \in 0..MaxPools, cnOpen' = cnOpen, cnAnswer' \in {"none", "open", "gone"},
         ~cnSpoilt' =>
           /\ ~cnSpoilt /\ cnAnswer' # "gone" /\ cnOpen' = Held'
           /\ Alone(c) \/ (cnInstance' = cnInstance /\ \A d \in PoolCalls : ~HoldsClient(d))
  PROVE  ConnectionsInv'
<1>1. NoPoolCall \in PoolCall
  BY ConnectionsAssumption DEF NoPoolCall, PoolCall
<1>2. /\ cnCall' = [cnCall EXCEPT ![c] = NoPoolCall] /\ cnCall'[c] = NoPoolCall
      /\ \A d \in PoolCalls \ {c} : cnCall'[d] = cnCall[d]
  BY DEF ConnectionsInv, ConnectionsTypeOK, Stops
<1>3. NoPoolCall.op # "close" /\ NoPoolCall.at = "idle"
  BY DEF NoPoolCall
<1>4. ASSUME ~cnSpoilt'
      PROVE  /\ cnAnswer' # "gone"
             /\ \A d \in PoolCalls :
                  /\ HoldsClient(d)' => Alone(d)'
                  /\ Waits(d, "connecting")' => cnInstance' = 0 /\ cnOpen' = {cnCall'[d].pool} /\ cnCall'[d].pool # 0
                  /\ cnCall'[d].at \in {"checking", "closing"} => cnInstance' # 0
                  /\ Waits(d, "closed")' => cnInstance' # 0 /\ cnOpen' = {}
             /\ (\A d \in PoolCalls : cnCall'[d].at \notin {"connecting", "closed"}) => cnOpen' = Held'
  <2>1. CASE Alone(c)
    <3>1. \A d \in PoolCalls : cnCall'[d].at = "idle"
      BY <1>2, <1>3, <2>1 DEF Alone, Waits
    <3>. QED
      BY <1>4, <3>1 DEF HoldsClient, Waits
  <2>2. CASE cnInstance' = cnInstance /\ \A d \in PoolCalls : ~HoldsClient(d)
    <3>1. \A d \in PoolCalls : ~HoldsClient(d)'
      BY <1>2, <1>3, <2>2 DEF HoldsClient
    <3>2. \A d \in PoolCalls : cnCall'[d].at \in {"checking", "closing"} => cnInstance' # 0
      BY <1>2, <1>3, <1>4, <2>2 DEF ConnectionsInv
    <3>. QED
      BY <1>4, <3>1, <3>2 DEF HoldsClient, Waits
  <2>. QED
    BY <1>4, <2>1, <2>2
<1>5. cnOpen' \in SUBSET PoolIds
  BY DEF ConnectionsInv, ConnectionsTypeOK
<1>. QED
  BY <1>1, <1>2, <1>3, <1>4, <1>5, PoolTypes

LEMMA CallStops ==
  ASSUME ConnectionsInv, NEW c \in PoolCalls,
         Connected(c) \/ ConnectFails(c) \/ Checked(c) \/ CloseFails(c) \/ ForgetsInstance(c)
  PROVE  ConnectionsInv'
<1>. USE DEF ConnectionsTypeOK
<1>1. CASE Connected(c)
  <2>1. /\ Waits(c, "connecting") /\ cnInstance' = cnCall[c].pool /\ Stops(c) /\ UNCHANGED cnRedis
        /\ CallReturns(c, cnCall[c].pool) /\ cnOpen' = cnOpen /\ cnSpoilt' = cnSpoilt
    BY <1>1 DEF Connected
  <2>2. cnInstance' \in 0..MaxPools /\ cnAnswer' \in {"none", "open", "gone"} /\ cnSpoilt' \in BOOLEAN
    BY <2>1 DEF ConnectionsInv, PoolCall, CallReturns
  <2>3. ASSUME ~cnSpoilt' PROVE ~cnSpoilt /\ cnAnswer' # "gone" /\ cnOpen' = Held' /\ Alone(c)
    <3>1. ~cnSpoilt /\ Alone(c) /\ cnOpen = {cnCall[c].pool} /\ cnCall[c].pool # 0 /\ cnAnswer # "gone"
      BY <2>1, <2>3 DEF ConnectionsInv, HoldsClient, Waits
    <3>. QED
      BY <2>1, <3>1 DEF Held, CallReturns
  <2>. QED
    BY <2>1, <2>2, <2>3, StopStep
<1>2. CASE ConnectFails(c)
  <2>1. Stops(c) /\ Spoils(TRUE) /\ UNCHANGED <<cnInstance, cnOpen, cnAnswer, cnRedis>>
    BY <1>2 DEF ConnectFails
  <2>2. cnSpoilt' \in BOOLEAN /\ cnSpoilt'
    BY <2>1, SpoiltType
  <2>. QED
    BY <2>1, <2>2, StopStep DEF ConnectionsInv
<1>3. CASE Checked(c)
  <2>1. /\ Waits(c, "checking") /\ Stops(c) /\ CallReturns(c, cnInstance)
        /\ UNCHANGED <<cnInstance, cnOpen, cnSpoilt, cnRedis>>
    BY <1>3 DEF Checked
  <2>2. cnAnswer' \in {"none", "open", "gone"}
    BY <2>1 DEF ConnectionsInv, CallReturns
  <2>3. ASSUME ~cnSpoilt'
        PROVE  ~cnSpoilt /\ cnAnswer' # "gone" /\ cnOpen' = Held' /\ \A d \in PoolCalls : ~HoldsClient(d)
    <3>1. cnInstance # 0 /\ ~cnSpoilt /\ cnAnswer # "gone"
      BY <2>1, <2>3 DEF ConnectionsInv, Waits
    <3>2. \A d \in PoolCalls : ~HoldsClient(d)
      BY <2>1, <3>1 DEF ConnectionsInv, Alone, HoldsClient, Waits
    <3>3. cnOpen = Held
      BY <3>1, <3>2 DEF ConnectionsInv, HoldsClient
    <3>. QED
      BY <2>1, <3>1, <3>2, <3>3 DEF Held, CallReturns
  <2>. QED
    BY <2>1, <2>2, <2>3, StopStep DEF ConnectionsInv
<1>4. CASE CloseFails(c)
  <2>1. /\ Waits(c, "closing") /\ Stops(c)
        /\ UNCHANGED <<cnInstance, cnOpen, cnAnswer, cnSpoilt, cnRedis>>
    BY <1>4 DEF CloseFails
  <2>2. ASSUME ~cnSpoilt'
        PROVE  ~cnSpoilt /\ cnAnswer' # "gone" /\ cnOpen' = Held' /\ Alone(c)
    <3>1. Alone(c) /\ ~cnSpoilt /\ cnAnswer # "gone"
      BY <2>1, <2>2 DEF ConnectionsInv, Waits, HoldsClient
    <3>2. \A d \in PoolCalls : cnCall[d].at \notin {"connecting", "closed"}
      BY <2>1, <3>1 DEF Alone, Waits
    <3>3. cnOpen = Held
      BY <3>1, <3>2 DEF ConnectionsInv
    <3>. QED
      BY <2>1, <3>1, <3>3 DEF Held
  <2>. QED
    BY <2>1, <2>2, StopStep DEF ConnectionsInv
<1>5. CASE ForgetsInstance(c)
  <2>1. /\ Waits(c, "closed") /\ cnInstance' = 0 /\ Stops(c) /\ Spoils(~Alone(c))
        /\ UNCHANGED <<cnOpen, cnAnswer, cnRedis>>
    BY <1>5 DEF ForgetsInstance
  <2>2. cnSpoilt' \in BOOLEAN /\ (~cnSpoilt' => ~cnSpoilt /\ Alone(c))
    BY <2>1, SpoiltType DEF Alone
  <2>3. ~cnSpoilt' => cnOpen' = Held' /\ cnAnswer' # "gone"
    BY <2>1, <2>2 DEF ConnectionsInv, Waits, Held
  <2>4. cnInstance' \in 0..MaxPools /\ cnAnswer' \in {"none", "open", "gone"}
    BY <2>1, ConnectionsAssumption DEF ConnectionsInv
  <2>. QED
    BY <2>1, <2>2, <2>3, <2>4, StopStep
<1>. QED
  BY <1>1, <1>2, <1>3, <1>4, <1>5

LEMMA ReconnectStep ==
  ASSUME ConnectionsInv, NEW c \in PoolCalls, Reconnects(c)
  PROVE  ConnectionsInv'
<1>1. /\ Waits(c, "checking") /\ InitializeDatabase(c, cnCall[c].op) /\ Spoils(TRUE)
      /\ UNCHANGED <<cnInstance, cnAnswer, cnRedis>>
  BY DEF Reconnects
<1>2. cnCall[c].op # "close"
  BY <1>1 DEF ConnectionsInv, Waits
<1>3. PICK p \in PoolIds :
        /\ cnOpen' = cnOpen \cup {p} /\ Starts(c, cnCall[c].op, "connecting", p)
  BY <1>1 DEF InitializeDatabase
<1>. DEFINE call == [op |-> cnCall[c].op, at |-> "connecting", pool |-> p]
<1>4. call \in PoolCall /\ cnOpen' \in SUBSET PoolIds
  BY <1>3, ConnectionsAssumption DEF PoolCall, PoolIds, ConnectionsInv, ConnectionsTypeOK
<1>5. cnCall' = [cnCall EXCEPT ![c] = call] /\ call.op # "close" /\ call.at = "connecting"
  BY <1>2, <1>3 DEF Starts
<1>6. cnSpoilt' \in BOOLEAN /\ cnSpoilt'
  BY <1>1, SpoiltType
<1>. HIDE DEF call
<1>. QED
  BY <1>1, <1>4, <1>5, <1>6, PoolTypes DEF ConnectionsInv, ConnectionsTypeOK

\* What a call that starts to close, or has closed, has for itself.
LEMMA CloseStep ==
  ASSUME ConnectionsInv, NEW c \in PoolCalls, CloseDatabase(c) \/ ClosesInstance(c)
  PROVE  ConnectionsInv'
<1>1. /\ Spoils(~Alone(c)) /\ cnInstance # 0 /\ UNCHANGED <<cnInstance, cnAnswer, cnRedis>>
      /\ cnCall[c].at \in {"idle", "closing"}
  BY DEF CloseDatabase, ClosesInstance, Waits
<1>2. cnSpoilt' \in BOOLEAN /\ (~cnSpoilt' => ~cnSpoilt /\ Alone(c))
  BY <1>1, SpoiltType DEF Alone
<1>3. PICK call \in PoolCall :
        /\ cnCall' = [cnCall EXCEPT ![c] = call] /\ call.op = "close"
        /\ \/ call.at = "closing" /\ cnOpen' = cnOpen
           \/ call.at = "closed" /\ cnOpen' = cnOpen \ {cnInstance}
  <2>1. CASE CloseDatabase(c)
    <3>1. [op |-> "close", at |-> "closing", pool |-> 0] \in PoolCall
      BY ConnectionsAssumption DEF PoolCall
    <3>. QED
      BY <2>1, <3>1 DEF CloseDatabase, Starts
  <2>2. CASE ClosesInstance(c)
    <3>1. [op |-> "close", at |-> "closed", pool |-> cnInstance] \in PoolCall
      BY DEF PoolCall, ConnectionsInv, ConnectionsTypeOK
    <3>. QED
      BY <2>2, <3>1 DEF ClosesInstance, Starts
  <2>. QED
    BY <2>1, <2>2
<1>4. /\ cnCall'[c] = call
      /\ \A d \in PoolCalls \ {c} : cnCall'[d] = cnCall[d]
  BY <1>3 DEF ConnectionsInv, ConnectionsTypeOK
<1>5. ASSUME ~cnSpoilt'
      PROVE  /\ cnAnswer' # "gone"
             /\ \A d \in PoolCalls :
                  /\ HoldsClient(d)' => Alone(d)'
                  /\ Waits(d, "connecting")' => cnInstance' = 0 /\ cnOpen' = {cnCall'[d].pool} /\ cnCall'[d].pool # 0
                  /\ cnCall'[d].at \in {"checking", "closing"} => cnInstance' # 0
                  /\ Waits(d, "closed")' => cnInstance' # 0 /\ cnOpen' = {}
             /\ (\A d \in PoolCalls : cnCall'[d].at \notin {"connecting", "closed"}) => cnOpen' = Held'
  <2>1. ~cnSpoilt /\ cnAnswer # "gone" /\ \A d \in PoolCalls \ {c} : cnCall[d].at = "idle"
    BY <1>2, <1>5 DEF ConnectionsInv, Alone, Waits
  <2>2. cnOpen = Held
    BY <1>1, <2>1 DEF ConnectionsInv
  <2>3. \A d \in PoolCalls \ {c} : cnCall'[d].at = "idle"
    BY <1>4, <2>1
  <2>4. Alone(c)'
    BY <2>3 DEF Alone, Waits
  <2>5. call.at = "closed" => cnOpen' = {}
    BY <1>3, <2>2 DEF Held
  <2>6. call.at = "closing" => cnOpen' = Held'
    BY <1>1, <1>3, <2>2 DEF Held
  <2>. QED
    BY <1>1, <1>3, <1>4, <2>1, <2>3, <2>4, <2>5, <2>6 DEF HoldsClient, Waits
<1>6. cnOpen' \in SUBSET PoolIds
  BY <1>3 DEF ConnectionsInv, ConnectionsTypeOK
<1>7. call.op = "close" <=> call.at \in {"closing", "closed"}
  BY <1>3
<1>. QED
  BY <1>1, <1>2, <1>3, <1>5, <1>6, <1>7, PoolTypes DEF ConnectionsInv, ConnectionsTypeOK

LEMMA ConnectionsNextInv == ConnectionsInv /\ [ConnectionsNext]_cnVars => ConnectionsInv'
<1>. SUFFICES ASSUME ConnectionsInv, [ConnectionsNext]_cnVars PROVE ConnectionsInv'
  OBVIOUS
<1>1. CASE UNCHANGED cnVars
  BY <1>1 DEF cnVars, cnPools, cnRedis, ConnectionsInv, ConnectionsTypeOK, HoldsClient, Held, Waits, Alone
<1>2. CASE InitializeRedis \/ GetClient \/ RedisLost \/ RedisReconnects
  BY <1>2, RedisStep
<1>3. ASSUME NEW c \in PoolCalls,
             \/ GetSequelize(c, "get") \/ CheckDatabaseHealth(c) \/ Connected(c) \/ ConnectFails(c)
             \/ Checked(c) \/ Reconnects(c) \/ CloseDatabase(c) \/ ClosesInstance(c)
             \/ CloseFails(c) \/ ForgetsInstance(c)
      PROVE  ConnectionsInv'
  BY <1>3, GetStep, CallStops, ReconnectStep, CloseStep DEF CheckDatabaseHealth
<1>. QED
  BY <1>1, <1>2, <1>3 DEF ConnectionsNext

\* The instances, the calls and the clients of a worker are of their types.
THEOREM ConnectionsTyped == ConnectionsSpec => []ConnectionsTypeOK
<1>1. ConnectionsInv => ConnectionsTypeOK
  BY DEF ConnectionsInv
<1>. QED
  BY <1>1, ConnectionsInitInv, ConnectionsNextInv, PTL DEF ConnectionsSpec

\* While no connection failed and no call crossed a close or another's making of
\* an instance (database.ts:117, :139, :169), one instance at most is open and
\* getSequelize answers an open one.
THEOREM OneInstanceAlways == ConnectionsSpec => []OneInstance
<1>1. ConnectionsInv => OneInstance
  <2>. SUFFICES ASSUME ConnectionsInv, ~cnSpoilt
                PROVE  /\ Cardinality(cnOpen) <= 1 /\ cnAnswer # "gone"
                       /\ (\A c \in PoolCalls : Waits(c, "idle")) => cnOpen = {cnInstance} \ {0}
    BY DEF OneInstance
  <2>1. cnOpen = {} \/ \E p : cnOpen = {p}
    BY DEF ConnectionsInv, Held, Waits
  <2>2. Cardinality(cnOpen) <= 1
    <3>1. CASE cnOpen = {}
      BY <3>1, FS_EmptySet
    <3>2. ASSUME NEW p, cnOpen = {p} PROVE Cardinality(cnOpen) <= 1
      <4>1. Cardinality({p}) = 1
        BY FS_Singleton, Zenon
      <4>. QED
        BY <3>2, <4>1
    <3>. QED
      BY <2>1, <3>1, <3>2
  <2>. QED
    BY <2>2 DEF ConnectionsInv, Held, Waits
<1>. QED
  BY <1>1, ConnectionsInitInv, ConnectionsNextInv, PTL DEF ConnectionsSpec

-----------------------------------------------------------------------------
(* The user accounts                                                       *)

LEMMA SavedAccount ==
  ASSUME UserAccountsTypeOK, NEW c \in SignIns, NEW new \in Accounts, Save(c, new)
  PROVE  /\ uaRow' \in Accounts
         /\ uaRow'.until = IF new.until = uaLoaded[c].until THEN uaRow.until ELSE new.until
<1>1. uaRow \in Accounts /\ uaLoaded[c] \in Accounts
  BY DEF UserAccountsTypeOK
<1>2. DOMAIN uaRow = {"count", "locked", "until", "mfa"}
  BY <1>1 DEF Accounts
<1>3. uaRow' = [k \in {"count", "locked", "until", "mfa"} |->
                  IF new[k] = uaLoaded[c][k] THEN uaRow[k] ELSE new[k]]
  BY <1>2 DEF Save
<1>4. uaRow' = [count |-> IF new.count = uaLoaded[c].count THEN uaRow.count ELSE new.count,
                locked |-> IF new.locked = uaLoaded[c].locked THEN uaRow.locked ELSE new.locked,
                until |-> IF new.until = uaLoaded[c].until THEN uaRow.until ELSE new.until,
                mfa |-> IF new.mfa = uaLoaded[c].mfa THEN uaRow.mfa ELSE new.mfa]
  BY <1>3
<1>. QED
  BY <1>1, <1>4 DEF Accounts

LEMMA EndedCall ==
  ASSUME UserAccountsTypeOK, NEW c \in SignIns, Ends(c)
  PROVE  uaLoaded' \in [SignIns -> Accounts] /\ uaAt' \in [SignIns -> {"idle", "loaded", "right", "wrong"}]
<1>1. FreshAccount \in Accounts
  BY UserAccountsAssumption DEF FreshAccount, Accounts
<1>. QED
  BY <1>1 DEF Ends, UserAccountsTypeOK

\* What each call that saves writes.
LEMMA AccountUpdates ==
  ASSUME NEW a \in Accounts, NEW count \in 0..MaxFailures
  PROVE  /\ [a EXCEPT !.count = count, !.locked = TRUE, !.until = "running"] \in Accounts
         /\ [a EXCEPT !.count = count] \in Accounts /\ [a EXCEPT !.mfa = FALSE] \in Accounts
         /\ [a EXCEPT !.count = count, !.until = "none"] \in Accounts
         /\ [a EXCEPT !.count = count, !.locked = TRUE, !.until = "running"].until = "running"
         /\ [a EXCEPT !.count = count].until = a.until /\ [a EXCEPT !.mfa = FALSE].until = a.until
BY DEF Accounts

LEMMA AccountSaves ==
  ASSUME UserAccountsTypeOK, NEW c \in SignIns,
         FailedLogin(c) \/ SuccessfulLogin(c) \/ SetPassword(c) \/ GenerateMFASecret(c)
  PROVE  /\ uaRow' \in Accounts /\ Ends(c)
         /\ uaRow.until = "running" => uaRow'.until = "running" \/ SetPassword(c)
<1>1. Ends(c)
  BY DEF FailedLogin, SuccessfulLogin, SetPassword, GenerateMFASecret
<1>2. uaRow \in Accounts /\ uaLoaded[c] \in Accounts /\ 0 \in 0..MaxFailures
      /\ uaLoaded[c].count \in Nat
  BY UserAccountsAssumption DEF UserAccountsTypeOK, Accounts
<1>3. CASE uaRow' = uaRow
  BY <1>1, <1>2, <1>3
<1>4. CASE FailedLogin(c) /\ uaRow' # uaRow
  <2>1. PICK count : count = uaLoaded[c].count + 1
    OBVIOUS
  <2>2. count \in 0..MaxFailures
    BY <1>2, <1>4, <2>1, UserAccountsAssumption DEF FailedLogin
  <2>3. PICK new : /\ Save(c, new)
                   /\ \/ new = [uaLoaded[c] EXCEPT !.count = count, !.locked = TRUE, !.until = "running"]
                      \/ new = [uaLoaded[c] EXCEPT !.count = count]
    BY <1>4, <2>1 DEF FailedLogin
  <2>4. new \in Accounts /\ new.until \in {"running", uaLoaded[c].until}
    <3>1. CASE new = [uaLoaded[c] EXCEPT !.count = count]
      BY <1>2, <2>2, <3>1, AccountUpdates
    <3>2. CASE new = [uaLoaded[c] EXCEPT !.count = count, !.locked = TRUE, !.until = "running"]
      BY <1>2, <2>2, <3>2, AccountUpdates
    <3>. QED
      BY <2>3, <3>1, <3>2
  <2>. QED
    BY <1>1, <2>3, <2>4, SavedAccount
<1>5. CASE SuccessfulLogin(c) /\ uaRow' # uaRow
  <2>1. PICK new : Save(c, new) /\ new = [uaLoaded[c] EXCEPT !.count = 0]
    BY <1>5 DEF SuccessfulLogin
  <2>2. new \in Accounts /\ new.until = uaLoaded[c].until
    BY <1>2, <2>1, AccountUpdates
  <2>. QED
    BY <1>1, <2>1, <2>2, SavedAccount
<1>6. CASE SetPassword(c)
  <2>1. PICK new : Save(c, new) /\ new = [uaLoaded[c] EXCEPT !.count = 0, !.until = "none"]
    BY <1>6 DEF SetPassword
  <2>2. new \in Accounts
    BY <1>2, <2>1, AccountUpdates
  <2>. QED
    BY <1>1, <1>6, <2>1, <2>2, SavedAccount
<1>7. CASE GenerateMFASecret(c)
  <2>1. PICK new : Save(c, new) /\ new = [uaLoaded[c] EXCEPT !.mfa = FALSE]
    BY <1>7 DEF GenerateMFASecret
  <2>2. new \in Accounts /\ new.until = uaLoaded[c].until
    BY <1>2, <2>1, AccountUpdates
  <2>. QED
    BY <1>1, <2>1, <2>2, SavedAccount
<1>. QED
  BY <1>3, <1>4, <1>5, <1>6, <1>7

LEMMA UserAccountsInitType == UserAccountsInit => UserAccountsTypeOK
<1>1. FreshAccount \in Accounts /\ [FreshAccount EXCEPT !.mfa = TRUE] \in Accounts
  <2>1. FreshAccount \in Accounts
    BY UserAccountsAssumption DEF FreshAccount, Accounts
  <2>2. \A a \in Accounts : [a EXCEPT !.mfa = TRUE] \in Accounts
    BY DEF Accounts
  <2>. QED
    BY <2>1, <2>2
<1>. QED
  BY <1>1 DEF UserAccountsInit, UserAccountsTypeOK

LEMMA UserAccountsNextType == UserAccountsTypeOK /\ [UserAccountsNext]_uaVars => UserAccountsTypeOK'
<1>. SUFFICES ASSUME UserAccountsTypeOK, [UserAccountsNext]_uaVars PROVE UserAccountsTypeOK'
  OBVIOUS
<1>1. CASE UNCHANGED uaVars
  BY <1>1 DEF uaVars, UserAccountsTypeOK
<1>2. CASE LockEnds
  <2>1. \A a \in Accounts : (IF a.until = "running" THEN [a EXCEPT !.until = "over"] ELSE a) \in Accounts
    BY DEF Accounts
  <2>. QED
    BY <1>2, <2>1 DEF LockEnds, UserAccountsTypeOK
<1>3. ASSUME NEW c \in SignIns, LoadAccount(c) \/ CheckPassword(c)
      PROVE  UserAccountsTypeOK'
  BY <1>3 DEF LoadAccount, CheckPassword, UserAccountsTypeOK
<1>4. ASSUME NEW c \in SignIns, Refused(c)
      PROVE  UserAccountsTypeOK'
  BY <1>4, EndedCall DEF Refused, UserAccountsTypeOK
<1>5. ASSUME NEW c \in SignIns,
             FailedLogin(c) \/ SuccessfulLogin(c) \/ SetPassword(c) \/ GenerateMFASecret(c)
      PROVE  UserAccountsTypeOK'
  BY <1>5, AccountSaves, EndedCall DEF UserAccountsTypeOK
<1>. QED
  BY <1>1, <1>2, <1>3, <1>4, <1>5 DEF UserAccountsNext

\* The row of an account and the instances that were loaded are of their types.
THEOREM UserAccountsTyped == UserAccountsSpec => []UserAccountsTypeOK
BY UserAccountsInitType, UserAccountsNextType, PTL DEF UserAccountsSpec

\* A lock that is running ends with its time or with a new password, never with the
\* save of a sign-in that loaded the account before it was locked (User.ts:196, :250,
\* :338).
THEOREM LockAlwaysStands == UserAccountsSpec => LockStands
<1>1. UserAccountsTypeOK /\ [UserAccountsNext]_uaVars =>
        [(uaRow.until = "running" /\ uaRow'.until # "running") =>
           \/ LockEnds
           \/ \E c \in SignIns : SetPassword(c)]_uaVars
  <2>. SUFFICES ASSUME UserAccountsTypeOK, UserAccountsNext,
                       uaRow.until = "running", uaRow'.until # "running"
                PROVE  LockEnds \/ \E c \in SignIns : SetPassword(c)
    OBVIOUS
  <2>1. ASSUME NEW c \in SignIns, LoadAccount(c) \/ Refused(c) \/ CheckPassword(c)
        PROVE  FALSE
    BY <2>1 DEF LoadAccount, Refused, CheckPassword
  <2>2. ASSUME NEW c \in SignIns,
               FailedLogin(c) \/ SuccessfulLogin(c) \/ SetPassword(c) \/ GenerateMFASecret(c)
        PROVE  SetPassword(c)
    BY <2>2, AccountSaves
  <2>. QED
    BY <2>1, <2>2 DEF UserAccountsNext
<1>. QED
  BY <1>1, UserAccountsInitType, UserAccountsNextType, PTL DEF UserAccountsSpec, LockStands
=============================================================================
