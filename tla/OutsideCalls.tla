---------------------------- MODULE OutsideCalls ----------------------------
(***************************************************************************)
(* One wish that is carried out outside: a payment, a commission or a       *)
(* statement of OneShield billing, a compliance check, a report to the      *)
(* regulator, a plan of remediation.                                        *)
(*                                                                          *)
(* The callee may act and the answer be lost; each client sends the request *)
(* again by itself; the billing client's breaker answers the caller after   *)
(* thirty seconds while its attempts go on; and a caller that was told of a *)
(* failure repeats its call.  No request names the wish it is for, so the   *)
(* callee carries out each one that reaches it.                             *)
(***************************************************************************)
EXTENDS Naturals

CONSTANTS
  OutsideSlots,     \* calls for the wish that may be under way at the same time
  MaxSends          \* retries of a request (3 in both clients)

ASSUME OutsideCallsAssumption == MaxSends \in Nat

VARIABLES
  ocKind,       \* what is wished for
  ocCall,       \* per call, where it is and how often its request was repeated
  ocAwaited,    \* the calls whose caller still awaits the answer
  ocBreaker,    \* the circuit of the billing client
  ocRules,      \* the regulator's requirements are in the cache
  ocEffects,    \* how often the wish was carried out: none, once, or more often
  ocToldDone,   \* the caller was told of a success
  ocAudited,    \* the audit trail has an entry
  ocWhy         \* history: why a caller, or a client, may have repeated what was done

ocVars == <<ocKind, ocCall, ocAwaited, ocBreaker, ocRules, ocEffects, ocToldDone, ocAudited, ocWhy>>

Billing == {"payment", "commission", "statement"}
Compliance == {"check", "report", "plan"}

\* What the callee of the request, not the service itself, carries out.
Posted == {"payment", "commission", "report"}

OutsideCall == [at : {"idle", "sent", "acted", "delayed", "accepted", "stored"}, tried : 0..MaxSends]
NoOutsideCall == [at |-> "idle", tried |-> 0]

OutsideCallsInit ==
  /\ ocKind \in Billing \cup Compliance
  /\ ocCall = [c \in OutsideSlots |-> NoOutsideCall]
  /\ ocAwaited = {} /\ ocBreaker = "closed" /\ ocRules \in BOOLEAN
  /\ ocEffects = 0 /\ ocToldDone = FALSE /\ ocAudited = FALSE /\ ocWhy = {}

CallAt(c, at) == ocCall[c].at = at
GoTo(c, at) == ocCall' = [ocCall EXCEPT ![c].at = at]
Over(c) == ocCall' = [ocCall EXCEPT ![c] = NoOutsideCall] /\ ocAwaited' = ocAwaited \ {c}
Done == ocEffects' = IF ocEffects = 0 THEN 1 ELSE 2
Explained(why) == ocWhy' = IF ocEffects = 0 THEN ocWhy ELSE ocWhy \cup {why}

\* The caller calls for the first time, or again after it was told of a failure.
MayCall(c) == CallAt(c, "idle") /\ ocAwaited = {} /\ ~ocToldDone

-----------------------------------------------------------------------------
(* BillingClient                                                           *)

\* circuitBreaker.fire: an open circuit answers at once.
Fire(c) ==
  /\ MayCall(c) /\ ocBreaker \in {"closed", "half open"}
  /\ GoTo(c, "sent") /\ ocAwaited' = {c}
  /\ ocBreaker' = IF ocBreaker = "half open" THEN "probing" ELSE ocBreaker
  /\ UNCHANGED <<ocKind, ocRules, ocEffects, ocToldDone, ocAudited, ocWhy>>

ProcessPremiumPayment(c) == ocKind = "payment" /\ Fire(c)
ProcessCommission(c) == ocKind = "commission" /\ Fire(c)
GetBillingStatement(c) == ocKind = "statement" /\ Fire(c)

\* The outcome that the breaker sees: an answer in time closes a probed circuit;
\* a failure opens it again, and may open a closed one.
Seen(c, ok) ==
  ocBreaker' \in IF c \notin ocAwaited THEN {ocBreaker}
                 ELSE IF ocBreaker = "probing" THEN {IF ok THEN "closed" ELSE "open"}
                 ELSE IF ok THEN {ocBreaker} ELSE {ocBreaker, "open"}

\* Thirty seconds: the caller is told of a failure, the attempts go on.
BreakerGivesUp(c) ==
  /\ ocKind \in Billing /\ c \in ocAwaited
  /\ ocAwaited' = {} /\ Seen(c, FALSE) /\ ocWhy' = ocWhy \cup {"gave up"}
  /\ UNCHANGED <<ocKind, ocCall, ocRules, ocEffects, ocToldDone, ocAudited>>

BreakerResets ==
  /\ ocBreaker = "open" /\ ocBreaker' = "half open"
  /\ UNCHANGED <<ocKind, ocCall, ocAwaited, ocRules, ocEffects, ocToldDone, ocAudited, ocWhy>>

-----------------------------------------------------------------------------
(* A request of either client                                              *)

\* The callee acts on the request.
Acts(c) ==
  /\ CallAt(c, "sent") /\ GoTo(c, "acted")
  /\ IF ocKind \in Posted THEN Done ELSE UNCHANGED ocEffects
  /\ UNCHANGED <<ocKind, ocAwaited, ocBreaker, ocRules, ocToldDone, ocAudited, ocWhy>>

\* No answer, or one that is a failure: the client waits and sends again.  The
\* billing client does so for some failures only, the regulator's for all.
SendAgainLater(c) ==
  /\ ocCall[c].at \in {"sent", "acted"} /\ ocCall[c].tried < MaxSends
  /\ GoTo(c, "delayed") /\ Explained("answer lost")
  /\ UNCHANGED <<ocKind, ocAwaited, ocBreaker, ocRules, ocEffects, ocToldDone, ocAudited>>

SendsAgain(c) ==
  /\ CallAt(c, "delayed")
  /\ ocCall' = [ocCall EXCEPT ![c] = [at |-> "sent", tried |-> ocCall[c].tried + 1]]
  /\ UNCHANGED <<ocKind, ocAwaited, ocBreaker, ocRules, ocEffects, ocToldDone, ocAudited, ocWhy>>

\* handleError: the failure is handed to the caller, if it still waits.
RequestFails(c) ==
  /\ ocCall[c].at \in {"sent", "acted"}
  /\ ocKind \in Billing \/ ocCall[c].tried = MaxSends
  /\ Over(c) /\ Seen(c, FALSE) /\ Explained("answer lost")
  /\ UNCHANGED <<ocKind, ocRules, ocEffects, ocToldDone, ocAudited>>

\* Mutant: the request is sent once more after it was answered.
PostTwice(c) ==
  /\ ocKind \in Billing /\ CallAt(c, "acted")
  /\ GoTo(c, IF ocCall[c].tried < MaxSends THEN "delayed" ELSE "acted")
  /\ UNCHANGED <<ocKind, ocAwaited, ocBreaker, ocRules, ocEffects, ocToldDone, ocAudited, ocWhy>>

\* The answer of a billing request resolves the call, if it is still awaited.
BillingAnswered(c) ==
  /\ ocKind \in Billing /\ CallAt(c, "acted")
  /\ Over(c) /\ Seen(c, TRUE) /\ ocToldDone' = (ocToldDone \/ c \in ocAwaited)
  /\ UNCHANGED <<ocKind, ocRules, ocEffects, ocAudited, ocWhy>>

-----------------------------------------------------------------------------
(* ComplianceService                                                       *)

\* Each operation starts with the regulator or, when that is not needed, with
\* what the service itself records.
Begin(c, at) ==
  /\ MayCall(c) /\ GoTo(c, at) /\ ocAwaited' = {c}
  /\ UNCHANGED <<ocKind, ocBreaker, ocRules, ocEffects, ocToldDone, ocAudited, ocWhy>>

PerformComplianceCheck(c) == ocKind = "check" /\ Begin(c, IF ocRules THEN "accepted" ELSE "sent")
SubmitComplianceReport(c) == ocKind = "report" /\ Begin(c, "sent")
TrackRemediationPlan(c) == ocKind = "plan" /\ Begin(c, "accepted")

\* The requirements arrive as an object: they are cached, as text, and then
\* parsed as if they were text, which fails.
FetchRegulatoryRequirements(c) ==
  /\ ocKind = "check" /\ CallAt(c, "acted")
  /\ Over(c) /\ ocRules' \in {ocRules, TRUE}
  /\ UNCHANGED <<ocKind, ocBreaker, ocEffects, ocToldDone, ocAudited, ocWhy>>

RequirementsExpire ==
  /\ ocRules /\ ocRules' = FALSE
  /\ UNCHANGED <<ocKind, ocCall, ocAwaited, ocBreaker, ocEffects, ocToldDone, ocAudited, ocWhy>>

ReportAccepted(c) ==
  /\ ocKind = "report" /\ CallAt(c, "acted") /\ GoTo(c, "accepted")
  /\ UNCHANGED <<ocKind, ocAwaited, ocBreaker, ocRules, ocEffects, ocToldDone, ocAudited, ocWhy>>

\* saveComplianceCheck, updateReportStatus, createPlan: a check and a plan get a
\* fresh id each time.
Records(c) ==
  /\ CallAt(c, "accepted") /\ GoTo(c, "stored")
  /\ IF ocKind \in Posted THEN UNCHANGED ocEffects ELSE Done
  /\ UNCHANGED <<ocKind, ocAwaited, ocBreaker, ocRules, ocToldDone, ocAudited, ocWhy>>

\* createAuditEntry.
CreateAuditEntry(c) ==
  /\ CallAt(c, "stored") /\ Over(c)
  /\ ocAudited' = TRUE /\ ocToldDone' = TRUE
  /\ UNCHANGED <<ocKind, ocBreaker, ocRules, ocEffects, ocWhy>>

\* A step after the regulator's acceptance, or after the record, throws: nothing
\* is taken back.
LaterStepFails(c) ==
  /\ ocCall[c].at \in {"accepted", "stored"} /\ Over(c)
  /\ Explained("later step failed")
  /\ UNCHANGED <<ocKind, ocBreaker, ocRules, ocEffects, ocToldDone, ocAudited>>

OutsideCallsNext ==
  \/ BreakerResets \/ RequirementsExpire
  \/ \E c \in OutsideSlots :
       \/ ProcessPremiumPayment(c) \/ ProcessCommission(c) \/ GetBillingStatement(c)
       \/ BreakerGivesUp(c) \/ Acts(c) \/ SendAgainLater(c) \/ SendsAgain(c) \/ RequestFails(c)
       \/ BillingAnswered(c) \/ PerformComplianceCheck(c) \/ SubmitComplianceReport(c)
       \/ TrackRemediationPlan(c) \/ FetchRegulatoryRequirements(c) \/ ReportAccepted(c)
       \/ Records(c) \/ CreateAuditEntry(c) \/ LaterStepFails(c)

OutsideCallsSpec == OutsideCallsInit /\ [][OutsideCallsNext]_ocVars

-----------------------------------------------------------------------------
\* The calls, the circuit and the counts are of their types.
OutsideCallsTypeOK ==
  /\ ocKind \in Billing \cup Compliance
  /\ ocCall \in [OutsideSlots -> OutsideCall] /\ ocAwaited \subseteq OutsideSlots
  /\ ocBreaker \in {"closed", "open", "half open", "probing"}
  /\ ocRules \in BOOLEAN /\ ocEffects \in 0..2
  /\ ocToldDone \in BOOLEAN /\ ocAudited \in BOOLEAN
  /\ ocWhy \subseteq {"gave up", "answer lost", "later step failed"}

\* A wish is carried out twice only if an answer was lost, the breaker gave the
\* caller up, or a step after it failed (BillingClient.ts:47, :190,
\* ComplianceService.ts:141, :153): the clients add no repetition of their own.
\* A caller that was told of a success has had its wish, and an entry of the
\* audit trail is about something that was done.
EffectsExplained ==
  /\ ocEffects = 2 => ocWhy # {}
  /\ ocToldDone /\ ocKind # "statement" => ocEffects > 0
  /\ ocAudited => ocEffects > 0
=============================================================================
