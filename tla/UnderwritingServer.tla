------------------------- MODULE UnderwritingServer -------------------------
(***************************************************************************)
(* The underwriting backend: UnderwritingController, UnderwritingService    *)
(* with its rules, and UnderwritingEventConsumer.                           *)
(*                                                                          *)
(* An assessment of a policy is cached for an hour.  A decision is told to   *)
(* OneShield by the service, which notes a failure and goes on; the consumer *)
(* tells an approval once more.  Kafka resolves a batch when its handler     *)
(* returns, whatever became of each message.                                *)
(***************************************************************************)
EXTENDS Integers

CONSTANT RiskScores   \* scores that policies come to

ASSUME RiskScoresAssumption == RiskScores \subseteq 0..100

VARIABLES
  uvPolicy,    \* what the policy would be assessed at now
  uvCache,     \* the cached assessment's score; -1: none
  uvWork,      \* the calls: one of the consumer, one of the controller
  uvDone       \* what the last message came to that the consumer has passed

uvVars == <<uvPolicy, uvCache, uvWork, uvDone>>

LowRisk == 30
HighRisk == 85
ControllerTries == 3

Callers == {"consumer", "controller"}
\* A call: where it is, what it was asked, its score, and how its calls of OneShield
\* ended.
NoWork == [at |-> "idle", op |-> "none", score |-> -1, tries |-> 0,
           first |-> "none", second |-> "none"]

NoneDone == [outcome |-> "none", score |-> -1, first |-> "none", second |-> "none"]

UnderwritingServerInit ==
  /\ uvPolicy \in RiskScores /\ uvCache = -1
  /\ uvWork = [c \in Callers |-> NoWork]
  /\ uvDone = NoneDone

\* The policy is changed elsewhere; the cached assessment stays.
PolicyChanges ==
  /\ uvPolicy' \in RiskScores /\ UNCHANGED <<uvCache, uvWork, uvDone>>

AssessmentExpires ==
  /\ uvCache # -1 /\ uvCache' = -1 /\ UNCHANGED <<uvPolicy, uvWork, uvDone>>

At(c, at) == uvWork[c].at = at
Move(c, at) == uvWork' = [uvWork EXCEPT ![c].at = at]

-----------------------------------------------------------------------------
(* Requests and messages.                                                  *)

\* risk-assessment, and evaluate: an assessment and a decision.
AssessPolicyRisk ==
  /\ At("controller", "idle")
  /\ \E op \in {"assess", "evaluate"} :
       uvWork' = [uvWork EXCEPT !["controller"] = [NoWork EXCEPT !.at = "looking", !.op = op]]
  /\ UNCHANGED <<uvPolicy, uvCache, uvDone>>

\* decision: the caller brings the assessment; the schema refuses a score beyond the
\* high-risk threshold.
MakeDecision ==
  /\ At("controller", "idle")
  /\ \E s \in RiskScores :
       /\ s <= HighRisk
       /\ uvWork' = [uvWork EXCEPT !["controller"] =
            [NoWork EXCEPT !.at = "deciding", !.op = "decide", !.score = s]]
  /\ UNCHANGED <<uvPolicy, uvCache, uvDone>>

\* processUnderwritingRequest; a message without a policy or its type fails.
TakeRequest ==
  /\ At("consumer", "idle")
  /\ \E at \in {"looking", "failed"} :
       uvWork' = [uvWork EXCEPT !["consumer"] = [NoWork EXCEPT !.at = at, !.op = "evaluate"]]
  /\ UNCHANGED <<uvPolicy, uvCache, uvDone>>

-----------------------------------------------------------------------------
(* UnderwritingService.                                                    *)

AfterAssessment(c) == IF uvWork[c].op = "assess" THEN "idle" ELSE "deciding"
Settle(c, work) == uvWork' = [uvWork EXCEPT ![c] = IF work.at = "idle" THEN NoWork ELSE work]

\* assessRisk, with the cached assessment.
ServeCached(c) ==
  /\ At(c, "looking") /\ uvCache # -1
  /\ Settle(c, [uvWork[c] EXCEPT !.at = AfterAssessment(c), !.score = uvCache])
  /\ UNCHANGED <<uvPolicy, uvCache, uvDone>>

\* assessRisk reads the policy and weighs its factors.
Assess(c) ==
  /\ At(c, "looking") /\ uvCache = -1
  /\ uvWork' = [uvWork EXCEPT ![c].at = "caching", ![c].score = uvPolicy]
  /\ UNCHANGED <<uvPolicy, uvCache, uvDone>>

\* The assessment is cached, though the policy may have changed since it was read.
CacheAssessment(c) ==
  /\ At(c, "caching") /\ uvCache' = uvWork[c].score
  /\ Settle(c, [uvWork[c] EXCEPT !.at = AfterAssessment(c)])
  /\ UNCHANGED <<uvPolicy, uvDone>>

\* applyDecisionRules
DecisionRules(score) ==
  IF score <= LowRisk THEN "APPROVED" ELSE IF score >= HighRisk THEN "REFERRED" ELSE "IN_REVIEW"

\* makeUnderwritingDecision: a score of zero counts as no score.
CanDecide(score) == score # 0

Decide(c) ==
  /\ At(c, "deciding") /\ CanDecide(uvWork[c].score) /\ Move(c, "syncing")
  /\ UNCHANGED <<uvPolicy, uvCache, uvDone>>

\* syncWithOneShield: a failure is only logged, and the call ends well.
SyncDecision(c) ==
  /\ At(c, "syncing")
  /\ \E told \in {"synced", "failed"} :
       uvWork' = [uvWork EXCEPT ![c].first = told, ![c].at = "decided"]
  /\ UNCHANGED <<uvPolicy, uvCache, uvDone>>

\* A step of the service throws: the policy is not found or not valid, OneShield is
\* not available, or the score is zero.  The controller tries again, up to three
\* times, and the error is the request's.
Throws(c) ==
  /\ uvWork[c].at \in {"looking", "caching", "deciding"}
  /\ IF c = "consumer" THEN Move(c, "failed")
     ELSE IF uvWork[c].tries < ControllerTries - 1
     THEN uvWork' = [uvWork EXCEPT ![c].tries = @ + 1,
                       ![c].at = IF uvWork[c].op = "decide" THEN "deciding" ELSE "looking"]
     ELSE Settle(c, NoWork)
  /\ UNCHANGED <<uvPolicy, uvCache, uvDone>>

AnswerDecision ==
  /\ At("controller", "decided") /\ Settle("controller", NoWork)
  /\ UNCHANGED <<uvPolicy, uvCache, uvDone>>

-----------------------------------------------------------------------------
(* UnderwritingEventConsumer.                                              *)

Message == uvWork["consumer"]
Approved(work) == DecisionRules(work.score) = "APPROVED"

\* An approval goes through the breaker, around the same syncWithOneShield: only the
\* breaker can make it fail, by its time limit, and then the call goes on, or because
\* it is open, and then there is no call.
FireSync ==
  /\ At("consumer", "decided") /\ Approved(Message)
  /\ \E told \in {"synced", "failed", "late", "refused"} :
       uvWork' = [uvWork EXCEPT !["consumer"].second = told,
                    !["consumer"].at =
                      IF told \in {"synced", "failed"} THEN "resolving" ELSE "failed"]
  /\ UNCHANGED <<uvPolicy, uvCache, uvDone>>

NothingToFire ==
  /\ At("consumer", "decided") /\ ~Approved(Message) /\ Move("consumer", "resolving")
  /\ UNCHANGED <<uvPolicy, uvCache, uvDone>>

Passed(outcome) ==
  /\ uvDone' = IF outcome # "resolved" THEN [NoneDone EXCEPT !.outcome = outcome]
               ELSE [outcome |-> outcome, score |-> Message.score,
                     first |-> Message.first, second |-> Message.second]
  /\ Settle("consumer", NoWork)
  /\ UNCHANGED <<uvPolicy, uvCache>>

\* Mutant: an approval is not told again.
ResolveUnfired == (At("consumer", "decided") \/ At("consumer", "resolving")) /\ Passed("resolved")

Resolve == At("consumer", "resolving") /\ Passed("resolved")

\* The handler failed: the message is dead-lettered if its retryCount, which nothing
\* here counts, has reached MAX_RETRIES, and if that works; otherwise it is passed
\* with its batch.
PassFailed == At("consumer", "failed") /\ (Passed("dead") \/ Passed("dropped"))

UnderwritingServerNext ==
  \/ PolicyChanges \/ AssessmentExpires \/ AssessPolicyRisk \/ MakeDecision \/ TakeRequest
  \/ \E c \in Callers :
       \/ ServeCached(c) \/ Assess(c) \/ CacheAssessment(c) \/ Decide(c)
       \/ SyncDecision(c) \/ Throws(c)
  \/ AnswerDecision \/ FireSync \/ NothingToFire \/ Resolve \/ PassFailed

UnderwritingServerSpec == UnderwritingServerInit /\ [][UnderwritingServerNext]_uvVars

-----------------------------------------------------------------------------
\* The assessments, the calls and the messages' outcomes are of their types.
UnderwritingServerTypeOK ==
  /\ uvPolicy \in RiskScores /\ uvCache \in RiskScores \cup {-1}
  /\ uvWork \in [Callers -> [at : {"idle", "looking", "caching", "deciding", "syncing",
                                   "decided", "resolving", "failed"},
       op : {"none", "assess", "evaluate", "decide"}, score : RiskScores \cup {-1},
       tries : 0..(ControllerTries - 1),
       first : {"none", "synced", "failed"},
       second : {"none", "synced", "failed", "late", "refused"}]]
  /\ uvDone.outcome \in {"none", "resolved", "dead", "dropped"}

\* A request that was resolved as approved has been told to OneShield, or both calls
\* failed and nothing says so (UnderwritingService.ts:262-276,
\* UnderwritingEventConsumer.ts:166-168); and a policy of the lowest risk, zero, is
\* never decided (UnderwritingService.ts:121).
ApprovalToldTwice ==
  uvDone.outcome = "resolved" =>
    /\ uvDone.score > 0 /\ uvDone.first # "none"
    /\ uvDone.score <= LowRisk => uvDone.second \in {"synced", "failed"}
=============================================================================
