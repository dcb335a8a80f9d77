---------------------------- MODULE BackendProofs -----------------------------
(***************************************************************************)
(* What the calls to other systems and the reports keep, and the types of  *)
(* every component of the server at once.                                  *)
(***************************************************************************)
EXTENDS MCBackend, EventsProofs, RequestsProofs, ServicesProofs

-----------------------------------------------------------------------------
(* The calls to other systems                                              *)

OutsideStages == {"idle", "sent", "acted", "delayed", "accepted", "stored"}
OutsideReasons == {"gave up", "answer lost", "later step failed"}

\* Where a call is, its wish was carried out already.
Past(kind, at) == at = "stored" \/ (kind \in Posted /\ at \in {"acted", "accepted", "stored"})

\* As long as nothing is a reason to repeat it, a wish is carried out at most once:
\* the one call for it is awaited by its caller and is past acting, or its caller
\* was told.
OutsideSafe ==
  /\ \A c \in OutsideSlots :
       /\ Past(ocKind, ocCall[c].at) => ocEffects # 0
       /\ ocCall[c].at \in {"accepted", "stored"} => ocKind \in Compliance
       /\ ocCall[c].at = "delayed" => ocCall[c].tried < MaxSends
  /\ ocToldDone /\ ocKind # "statement" => ocEffects # 0
  /\ ocAudited => ocEffects # 0
  /\ ocWhy = {} =>
       /\ ocEffects # 2
       /\ \A c \in OutsideSlots : ocCall[c].at # "idle" <=> c \in ocAwaited
       /\ \A c, d \in ocAwaited : c = d
       /\ ocAwaited # {} => ~ocToldDone
       /\ ocEffects # 0 =>
            /\ ocAwaited = {} => ocToldDone
            /\ \A c \in OutsideSlots : ocCall[c].at # "idle" => Past(ocKind, ocCall[c].at)

OutsideCallsInv == OutsideCallsTypeOK /\ OutsideSafe

LEMMA OutsideKinds ==
  /\ Posted \cap Compliance = {"report"} /\ Billing \cap Compliance = {}
  /\ \A k \in Billing : k \in Posted \/ k = "statement"
BY DEF Posted, Billing, Compliance

LEMMA OutsideCallsInitInv == OutsideCallsInit => OutsideCallsInv
<1>. SUFFICES ASSUME OutsideCallsInit PROVE OutsideCallsInv
  OBVIOUS
<1>1. NoOutsideCall \in OutsideCall /\ NoOutsideCall.at = "idle"
  BY OutsideCallsAssumption DEF NoOutsideCall, OutsideCall
<1>2. OutsideCallsTypeOK
  <2>1. ocRules \in BOOLEAN /\ ocToldDone \in BOOLEAN /\ ocAudited \in BOOLEAN
    BY Zenon DEF OutsideCallsInit
  <2>2. ocEffects \in 0..2 /\ ocCall \in [OutsideSlots -> OutsideCall]
    BY <1>1 DEF OutsideCallsInit
  <2>. QED
    BY <2>1, <2>2 DEF OutsideCallsInit, OutsideCallsTypeOK
<1>3. OutsideSafe
  BY <1>1 DEF OutsideCallsInit, OutsideSafe, Past
<1>. QED
  BY <1>2, <1>3 DEF OutsideCallsInv

LEMMA OutsideGo ==
  ASSUME OutsideCallsInv, NEW c \in OutsideSlots, NEW at \in OutsideStages, GoTo(c, at)
  PROVE  /\ ocCall' \in [OutsideSlots -> OutsideCall] /\ ocCall'[c].at = at
         /\ \A d \in OutsideSlots \ {c} : ocCall'[d] = ocCall[d]
BY DEF OutsideCallsInv, OutsideCallsTypeOK, GoTo, OutsideCall, OutsideStages

LEMMA OutsideOver ==
  ASSUME OutsideCallsInv, NEW c \in OutsideSlots, Over(c)
  PROVE  /\ ocCall' \in [OutsideSlots -> OutsideCall] /\ ocCall'[c].at = "idle"
         /\ ocAwaited' = ocAwaited \ {c}
         /\ \A d \in OutsideSlots \ {c} : ocCall'[d] = ocCall[d]
<1>1. NoOutsideCall \in OutsideCall /\ NoOutsideCall.at = "idle"
  BY OutsideCallsAssumption DEF NoOutsideCall, OutsideCall
<1>. QED
  BY <1>1 DEF OutsideCallsInv, OutsideCallsTypeOK, Over

LEMMA OutsideTypesNow ==
  ASSUME OutsideCallsInv
  PROVE  /\ ocKind \in Billing \cup Compliance
         /\ ocCall \in [OutsideSlots -> OutsideCall] /\ ocAwaited \subseteq OutsideSlots
         /\ ocEffects \in {0, 1, 2} /\ ocWhy \subseteq OutsideReasons
         /\ ocToldDone \in BOOLEAN
<1>1. 0..2 = {0, 1, 2}
  OBVIOUS
<1>2. ocToldDone \in BOOLEAN
  BY Zenon DEF OutsideCallsInv, OutsideCallsTypeOK
<1>. QED
  BY <1>1, <1>2 DEF OutsideCallsInv, OutsideCallsTypeOK, OutsideReasons

\* A call begins.
LEMMA OutsideBegins ==
  ASSUME OutsideCallsInv, NEW c \in OutsideSlots, NEW at \in {"sent", "accepted"},
         MayCall(c), GoTo(c, at), ocAwaited' = {c},
         at = "accepted" => ocKind \in {"check", "plan"},
         ocBreaker' \in {"closed", "open", "half open", "probing"},
         UNCHANGED <<ocKind, ocRules, ocEffects, ocToldDone, ocAudited, ocWhy>>
  PROVE  OutsideCallsInv'
<1>1. /\ ocCall' \in [OutsideSlots -> OutsideCall] /\ ocCall'[c].at = at
      /\ \A d \in OutsideSlots \ {c} : ocCall'[d] = ocCall[d]
  BY OutsideGo DEF OutsideStages
<1>2. OutsideCallsTypeOK'
  BY <1>1 DEF OutsideCallsInv, OutsideCallsTypeOK
<1>3. /\ ocCall[c].at = "idle" /\ ocAwaited = {} /\ ~ocToldDone
  BY DEF MayCall, CallAt
<1>4. ~Past(ocKind, at) /\ (at = "accepted" => ocKind \in Compliance)
  BY DEF Past, Posted, Compliance
<1>5. OutsideSafe'
  BY <1>1, <1>3, <1>4 DEF OutsideCallsInv, OutsideSafe
<1>. QED
  BY <1>2, <1>5 DEF OutsideCallsInv

LEMMA OutsideBeginSteps ==
  ASSUME OutsideCallsInv, NEW c \in OutsideSlots,
         \/ ProcessPremiumPayment(c) \/ ProcessCommission(c) \/ GetBillingStatement(c)
         \/ PerformComplianceCheck(c) \/ SubmitComplianceReport(c) \/ TrackRemediationPlan(c)
  PROVE  OutsideCallsInv'
<1>1. CASE Fire(c)
  <2>1. ocBreaker' \in {"closed", "open", "half open", "probing"}
    BY <1>1 DEF Fire
  <2>. QED
    BY <1>1, <2>1, OutsideBegins DEF Fire
<1>2. ASSUME NEW at \in {"sent", "accepted"}, Begin(c, at), at = "accepted" => ocKind \in {"check", "plan"}
      PROVE  OutsideCallsInv'
  <2>1. ocBreaker' \in {"closed", "open", "half open", "probing"}
    BY <1>2 DEF Begin, OutsideCallsInv, OutsideCallsTypeOK
  <2>. QED
    BY <1>2, <2>1, OutsideBegins DEF Begin
<1>. QED
  BY <1>1, <1>2
     DEF ProcessPremiumPayment, ProcessCommission, GetBillingStatement, PerformComplianceCheck,
         SubmitComplianceReport, TrackRemediationPlan

\* A call goes on, without another effect.
LEMMA OutsideGoesOn ==
  ASSUME OutsideCallsInv, NEW c \in OutsideSlots, NEW at \in OutsideStages, at # "idle", ocCall[c].at # "idle",
         ocCall' \in [OutsideSlots -> OutsideCall], ocCall'[c].at = at,
         \A d \in OutsideSlots \ {c} : ocCall'[d] = ocCall[d],
         NEW effects \in {0, 1, 2}, ocEffects' = effects,
         UNCHANGED <<ocKind, ocAwaited, ocBreaker, ocRules, ocToldDone, ocAudited>>,
         ocWhy' \subseteq OutsideReasons, ocWhy' = {} => ocWhy = {},
         at \in {"accepted", "stored"} => ocKind \in Compliance,
         Past(ocKind, at) => effects # 0,
         effects = ocEffects \/ (effects = 1 /\ ocEffects = 0) \/ (effects # 0 /\ ocWhy' # {}),
         effects # 0 /\ ocWhy' = {} => Past(ocKind, at),
         at = "delayed" => ocCall'[c].tried < MaxSends
  PROVE  OutsideCallsInv'
<1>1. ocEffects' # 0 \/ ocEffects = 0
  BY OutsideTypesNow
<1>2. OutsideCallsTypeOK'
  <2>1. ocEffects' \in 0..2
    OBVIOUS
  <2>. QED
    BY <2>1 DEF OutsideCallsInv, OutsideCallsTypeOK, OutsideReasons
<1>3. /\ \A d \in OutsideSlots :
           /\ Past(ocKind', ocCall'[d].at) => ocEffects' # 0
           /\ ocCall'[d].at \in {"accepted", "stored"} => ocKind' \in Compliance
           /\ ocCall'[d].at = "delayed" => ocCall'[d].tried < MaxSends
      /\ ocToldDone' /\ ocKind' # "statement" => ocEffects' # 0
      /\ ocAudited' => ocEffects' # 0
  BY <1>1 DEF OutsideCallsInv, OutsideSafe
<1>4. ASSUME ocWhy' = {}
      PROVE  /\ ocEffects' # 2
             /\ \A d \in OutsideSlots : ocCall'[d].at # "idle" <=> d \in ocAwaited'
             /\ \A d, e \in ocAwaited' : d = e
             /\ ocAwaited' # {} => ~ocToldDone'
             /\ ocEffects' # 0 =>
                  /\ ocAwaited' = {} => ocToldDone'
                  /\ \A d \in OutsideSlots : ocCall'[d].at # "idle" => Past(ocKind', ocCall'[d].at)
  <2>1. ocWhy = {}
    BY <1>4
  <2>2. /\ ocEffects # 2
        /\ \A d \in OutsideSlots : ocCall[d].at # "idle" <=> d \in ocAwaited
        /\ \A d, e \in ocAwaited : d = e
        /\ ocAwaited # {} => ~ocToldDone
    BY <2>1 DEF OutsideCallsInv, OutsideSafe
  <2>3. c \in ocAwaited /\ ocAwaited = {c}
    BY <2>2
  <2>4. \A d \in OutsideSlots : ocCall'[d].at # "idle" <=> d = c
    BY <2>2, <2>3
  <2>5. ocEffects' # 2
    BY <1>4, <2>2
  <2>6. ocEffects' # 0 => \A d \in OutsideSlots : ocCall'[d].at # "idle" => Past(ocKind', ocCall'[d].at)
    BY <1>4, <2>4
  <2>. QED
    BY <2>2, <2>3, <2>4, <2>5, <2>6
<1>5. OutsideSafe'
  BY <1>3, <1>4 DEF OutsideSafe
<1>. QED
  BY <1>2, <1>5 DEF OutsideCallsInv

LEMMA OutsideGoesOnSteps ==
  ASSUME OutsideCallsInv, NEW c \in OutsideSlots,
         Acts(c) \/ SendAgainLater(c) \/ SendsAgain(c) \/ ReportAccepted(c) \/ Records(c)
  PROVE  OutsideCallsInv'
<1>. USE DEF OutsideStages
<1>1. ASSUME NEW at \in OutsideStages, NEW to \in OutsideStages, CallAt(c, at), GoTo(c, to)
      PROVE  /\ ocCall' \in [OutsideSlots -> OutsideCall] /\ ocCall'[c].at = to /\ ocCall[c].at = at
             /\ \A d \in OutsideSlots \ {c} : ocCall'[d] = ocCall[d]
  BY <1>1, OutsideGo DEF CallAt
<1>2. ocWhy = {} /\ ocEffects # 0 /\ ocCall[c].at # "idle" => Past(ocKind, ocCall[c].at)
  BY DEF OutsideCallsInv, OutsideSafe
<1>3. /\ Past(ocKind, ocCall[c].at) => ocEffects # 0
      /\ ocCall[c].at \in {"accepted", "stored"} => ocKind \in Compliance
  BY DEF OutsideCallsInv, OutsideSafe
<1>4. CASE Acts(c)
  <2>1. PICK effects : effects = ocEffects'
    OBVIOUS
  <2>2. effects = IF ocKind \in Posted THEN (IF ocEffects = 0 THEN 1 ELSE 2) ELSE ocEffects
    BY <1>4, <2>1 DEF Acts, Done
  <2>3. effects \in {0, 1, 2} /\ ocWhy' = ocWhy /\ ocWhy \subseteq OutsideReasons
    BY <1>4, <2>2, OutsideTypesNow DEF Acts
  <2>4. /\ ocCall' \in [OutsideSlots -> OutsideCall] /\ ocCall'[c].at = "acted" /\ ocCall[c].at = "sent"
        /\ \A d \in OutsideSlots \ {c} : ocCall'[d] = ocCall[d]
    BY <1>1, <1>4 DEF Acts
  <2>5. ~Past(ocKind, "sent") /\ (Past(ocKind, "acted") <=> ocKind \in Posted)
    BY DEF Past
  <2>6. /\ Past(ocKind, "acted") => effects # 0
        /\ effects = ocEffects \/ (effects = 1 /\ ocEffects = 0) \/ (effects # 0 /\ ocWhy' # {})
        /\ effects # 0 /\ ocWhy' = {} => Past(ocKind, "acted")
    BY <1>2, <2>2, <2>3, <2>4, <2>5
  <2>. QED
    BY <1>4, <2>1, <2>3, <2>4, <2>6, OutsideGoesOn DEF Acts
<1>5. CASE SendAgainLater(c)
  <2>1. /\ ocCall' \in [OutsideSlots -> OutsideCall] /\ ocCall'[c].at = "delayed" /\ ocCall[c].at \in {"sent", "acted"}
        /\ \A d \in OutsideSlots \ {c} : ocCall'[d] = ocCall[d]
    BY <1>5, OutsideGo DEF SendAgainLater
  <2>6. ocCall'[c].tried < MaxSends
    BY <1>5, OutsideTypesNow DEF SendAgainLater, GoTo, OutsideCall
  <2>2. PICK effects \in {0, 1, 2} : effects = ocEffects
    BY OutsideTypesNow
  <2>3. ocWhy' \subseteq OutsideReasons /\ (ocWhy' = {} => ocWhy = {} /\ effects = 0)
    BY <1>5, <2>2, OutsideTypesNow DEF SendAgainLater, Explained, OutsideReasons
  <2>4. ~Past(ocKind, "delayed")
    BY DEF Past
  <2>5. ocEffects' = effects
    BY <1>5, <2>2 DEF SendAgainLater
  <2>. QED
    BY <1>5, <2>1, <2>2, <2>3, <2>4, <2>5, <2>6, OutsideGoesOn DEF SendAgainLater
<1>6. CASE SendsAgain(c)
  <2>1. ocCall[c].tried \in 0..MaxSends /\ ocCall[c].at = "delayed" /\ ocCall[c].tried < MaxSends
    BY <1>6, OutsideTypesNow DEF SendsAgain, CallAt, OutsideCall, OutsideCallsInv, OutsideSafe
  <2>2. [at |-> "sent", tried |-> ocCall[c].tried + 1] \in OutsideCall
    BY <2>1, OutsideCallsAssumption DEF OutsideCall
  <2>3. /\ ocCall' \in [OutsideSlots -> OutsideCall] /\ ocCall'[c].at = "sent" 
        /\ \A d \in OutsideSlots \ {c} : ocCall'[d] = ocCall[d]
    BY <1>6, <2>2, OutsideTypesNow DEF SendsAgain
  <2>4. PICK effects \in {0, 1, 2} : effects = ocEffects
    BY OutsideTypesNow
  <2>5. ~Past(ocKind, "sent") /\ ~Past(ocKind, "delayed")
    BY DEF Past
  <2>6. ocEffects' = effects /\ ocWhy' = ocWhy /\ ocWhy \subseteq OutsideReasons
    BY <1>6, <2>4, OutsideTypesNow DEF SendsAgain
  <2>7. effects # 0 /\ ocWhy' = {} => Past(ocKind, "sent")
    BY <1>2, <2>1, <2>4, <2>5, <2>6
  <2>. QED
    BY <1>6, <2>1, <2>3, <2>4, <2>5, <2>6, <2>7, OutsideGoesOn DEF SendsAgain
<1>7. CASE ReportAccepted(c)
  <2>1. /\ ocCall' \in [OutsideSlots -> OutsideCall] /\ ocCall'[c].at = "accepted" /\ ocCall[c].at = "acted"
        /\ \A d \in OutsideSlots \ {c} : ocCall'[d] = ocCall[d]
    BY <1>1, <1>7 DEF ReportAccepted
  <2>2. ocKind = "report" /\ Past(ocKind, "accepted") /\ Past(ocKind, "acted") /\ ocKind \in Compliance
    BY <1>7 DEF ReportAccepted, Past, Posted, Compliance
  <2>3. PICK effects \in {0, 1, 2} : effects = ocEffects
    BY OutsideTypesNow
  <2>4. ocEffects' = effects /\ ocWhy' = ocWhy /\ ocWhy \subseteq OutsideReasons
    BY <1>7, <2>3, OutsideTypesNow DEF ReportAccepted
  <2>5. effects # 0
    BY <1>3, <2>1, <2>2, <2>3
  <2>. QED
    BY <1>7, <2>1, <2>2, <2>3, <2>4, <2>5, OutsideGoesOn DEF ReportAccepted
<1>8. CASE Records(c)
  <2>1. /\ ocCall' \in [OutsideSlots -> OutsideCall] /\ ocCall'[c].at = "stored" /\ ocCall[c].at = "accepted"
        /\ \A d \in OutsideSlots \ {c} : ocCall'[d] = ocCall[d]
    BY <1>1, <1>8 DEF Records
  <2>2. ocKind \in Compliance /\ Past(ocKind, "stored") /\ (Past(ocKind, "accepted") <=> ocKind \in Posted)
    BY <1>3, <2>1 DEF Past
  <2>3. PICK effects : effects = ocEffects'
    OBVIOUS
  <2>4. effects = IF ocKind \in Posted THEN ocEffects ELSE (IF ocEffects = 0 THEN 1 ELSE 2)
    BY <1>8, <2>3 DEF Records, Done
  <2>5. effects \in {0, 1, 2} /\ ocWhy' = ocWhy /\ ocWhy \subseteq OutsideReasons
    BY <1>8, <2>4, OutsideTypesNow DEF Records
  <2>6. /\ effects # 0
        /\ effects = ocEffects \/ (effects = 1 /\ ocEffects = 0) \/ (effects # 0 /\ ocWhy' # {})
    BY <1>2, <1>3, <2>1, <2>2, <2>4, <2>5
  <2>. QED
    BY <1>8, <2>1, <2>2, <2>3, <2>5, <2>6, OutsideGoesOn DEF Records
<1>. QED
  BY <1>4, <1>5, <1>6, <1>7, <1>8

\* A call is over.
LEMMA OutsideEnds ==
  ASSUME OutsideCallsInv, NEW c \in OutsideSlots, ocCall[c].at # "idle", Over(c),
         UNCHANGED <<ocKind, ocEffects>>, ocRules' \in BOOLEAN,
         ocBreaker' \in {"closed", "open", "half open", "probing"},
         ocWhy' \subseteq OutsideReasons, ocWhy' = {} => ocWhy = {},
         ocToldDone' \in BOOLEAN, ocAudited' \in BOOLEAN,
         ocToldDone => ocToldDone',
         ocToldDone' /\ ocKind # "statement" => ocEffects # 0,
         ocAudited' => ocEffects # 0,
         ocWhy' = {} /\ ocEffects # 0 => ocToldDone'
  PROVE  OutsideCallsInv'
<1>1. /\ ocCall' \in [OutsideSlots -> OutsideCall] /\ ocCall'[c].at = "idle"
      /\ ocAwaited' = ocAwaited \ {c}
      /\ \A d \in OutsideSlots \ {c} : ocCall'[d] = ocCall[d]
  BY OutsideOver
<1>2. OutsideCallsTypeOK'
  BY <1>1 DEF OutsideCallsInv, OutsideCallsTypeOK, OutsideReasons
<1>3. ~Past(ocKind, "idle")
  BY DEF Past
<1>4. /\ \A d \in OutsideSlots :
           /\ Past(ocKind', ocCall'[d].at) => ocEffects' # 0
           /\ ocCall'[d].at \in {"accepted", "stored"} => ocKind' \in Compliance
           /\ ocCall'[d].at = "delayed" => ocCall'[d].tried < MaxSends
      /\ ocToldDone' /\ ocKind' # "statement" => ocEffects' # 0
      /\ ocAudited' => ocEffects' # 0
  <2>1. ASSUME NEW d \in OutsideSlots
        PROVE  /\ Past(ocKind', ocCall'[d].at) => ocEffects' # 0
               /\ ocCall'[d].at \in {"accepted", "stored"} => ocKind' \in Compliance
               /\ ocCall'[d].at = "delayed" => ocCall'[d].tried < MaxSends
    <3>1. CASE d = c
      BY <1>1, <1>3, <3>1
    <3>2. CASE d # c
      BY <1>1, <3>2 DEF OutsideCallsInv, OutsideSafe
    <3>. QED
      BY <3>1, <3>2
  <2>. QED
    BY <2>1
<1>5. ASSUME ocWhy' = {}
      PROVE  /\ ocEffects' # 2 /\ ocAwaited' = {}
             /\ \A d \in OutsideSlots : ocCall'[d].at = "idle"
  <2>1. /\ ocEffects # 2
        /\ \A d \in OutsideSlots : ocCall[d].at # "idle" <=> d \in ocAwaited
        /\ \A d, e \in ocAwaited : d = e
    BY <1>5 DEF OutsideCallsInv, OutsideSafe
  <2>2. ocAwaited = {c}
    BY <2>1, OutsideTypesNow
  <2>. QED
    BY <1>1, <2>1, <2>2
<1>6. OutsideSafe'
  BY <1>4, <1>5 DEF OutsideSafe
<1>. QED
  BY <1>2, <1>6 DEF OutsideCallsInv

LEMMA OutsideEndSteps ==
  ASSUME OutsideCallsInv, NEW c \in OutsideSlots,
         \/ RequestFails(c) \/ BillingAnswered(c) \/ FetchRegulatoryRequirements(c)
         \/ CreateAuditEntry(c) \/ LaterStepFails(c)
  PROVE  OutsideCallsInv'
<1>1. /\ Over(c) /\ UNCHANGED <<ocKind, ocEffects>> /\ ocCall[c].at # "idle"
  BY DEF RequestFails, BillingAnswered, FetchRegulatoryRequirements, CreateAuditEntry, LaterStepFails, CallAt
<1>2. ocBreaker' \in {"closed", "open", "half open", "probing"}
  <2>1. ocBreaker' = ocBreaker \/ \E ok \in {TRUE, FALSE} : Seen(c, ok)
    BY DEF RequestFails, BillingAnswered, FetchRegulatoryRequirements, CreateAuditEntry, LaterStepFails
  <2>2. ocBreaker \in {"closed", "open", "half open", "probing"}
    BY DEF OutsideCallsInv, OutsideCallsTypeOK
  <2>. QED
    BY <2>1, <2>2 DEF Seen
<1>3. ocRules' \in BOOLEAN
  <2>1. ocRules' \in {ocRules, TRUE}
    BY DEF RequestFails, BillingAnswered, FetchRegulatoryRequirements, CreateAuditEntry, LaterStepFails
  <2>. QED
    BY <2>1, Zenon DEF OutsideCallsInv, OutsideCallsTypeOK
<1>4. /\ ocWhy' \subseteq OutsideReasons
      /\ ocWhy' = {} => ocWhy = {}
      /\ (RequestFails(c) \/ LaterStepFails(c)) /\ ocWhy' = {} => ocEffects = 0
  BY OutsideTypesNow
     DEF RequestFails, BillingAnswered, FetchRegulatoryRequirements, CreateAuditEntry, LaterStepFails,
         Explained, OutsideReasons
<1>5. /\ ocToldDone' \in BOOLEAN /\ ocAudited' \in BOOLEAN
      /\ ocToldDone => ocToldDone'
  <2>1. ocToldDone' \in {ocToldDone, TRUE} \/ ocToldDone' = (ocToldDone \/ c \in ocAwaited)
    BY DEF RequestFails, BillingAnswered, FetchRegulatoryRequirements, CreateAuditEntry, LaterStepFails
  <2>2. ocAudited' \in {ocAudited, TRUE}
    BY DEF RequestFails, BillingAnswered, FetchRegulatoryRequirements, CreateAuditEntry, LaterStepFails
  <2>3. ocToldDone \in BOOLEAN /\ ocAudited \in BOOLEAN
    BY Zenon DEF OutsideCallsInv, OutsideCallsTypeOK
  <2>4. ocAudited' \in BOOLEAN
    BY <2>2, <2>3, Zenon
  <2>5. ocToldDone' \in BOOLEAN /\ (ocToldDone => ocToldDone')
    BY <2>1, <2>3, Zenon
  <2>. QED
    BY <2>4, <2>5
<1>6. /\ Past(ocKind, ocCall[c].at) => ocEffects # 0
      /\ ocToldDone /\ ocKind # "statement" => ocEffects # 0
      /\ ocAudited => ocEffects # 0
      /\ ocWhy = {} /\ ocEffects # 0 => Past(ocKind, ocCall[c].at)
      /\ ocWhy = {} => c \in ocAwaited
      /\ ocCall[c].at \in {"accepted", "stored"} => ocKind \in Compliance
  BY <1>1 DEF OutsideCallsInv, OutsideSafe
<1>7. ocToldDone' /\ ocKind # "statement" => ocEffects # 0
  <2>1. CASE BillingAnswered(c)
    BY <2>1, <1>6, OutsideKinds DEF BillingAnswered, CallAt, Past
  <2>2. CASE CreateAuditEntry(c)
    BY <2>2, <1>6 DEF CreateAuditEntry, CallAt, Past
  <2>3. CASE RequestFails(c) \/ FetchRegulatoryRequirements(c) \/ LaterStepFails(c)
    BY <2>3, <1>6 DEF RequestFails, FetchRegulatoryRequirements, LaterStepFails
  <2>. QED
    BY <2>1, <2>2, <2>3
<1>8. ocAudited' => ocEffects # 0
  BY <1>6 DEF RequestFails, BillingAnswered, FetchRegulatoryRequirements, CreateAuditEntry, LaterStepFails,
              CallAt, Past
<1>9. ocWhy' = {} /\ ocEffects # 0 => ocToldDone'
  <2>1. CASE BillingAnswered(c)
    BY <2>1, <1>4, <1>6 DEF BillingAnswered
  <2>2. CASE CreateAuditEntry(c)
    BY <2>2 DEF CreateAuditEntry
  <2>3. CASE RequestFails(c) \/ LaterStepFails(c)
    BY <2>3, <1>4
  <2>4. CASE FetchRegulatoryRequirements(c)
    BY <2>4, <1>4, <1>6 DEF FetchRegulatoryRequirements, CallAt, Past, Posted
  <2>. QED
    BY <2>1, <2>2, <2>3, <2>4
<1>. QED
  BY <1>1, <1>2, <1>3, <1>4, <1>5, <1>7, <1>8, <1>9, OutsideEnds

\* The breaker and the cache alone.
LEMMA OutsideRest ==
  ASSUME OutsideCallsInv,
         \/ BreakerResets \/ RequirementsExpire \/ UNCHANGED ocVars
         \/ \E c \in OutsideSlots : BreakerGivesUp(c)
  PROVE  OutsideCallsInv'
<1>1. /\ UNCHANGED <<ocKind, ocCall, ocEffects, ocToldDone, ocAudited>>
      /\ ocAwaited' \in {ocAwaited, {}}
      /\ ocWhy' \subseteq OutsideReasons /\ (ocWhy' = {} => ocWhy = {} /\ ocAwaited' = ocAwaited)
  BY OutsideTypesNow DEF BreakerResets, RequirementsExpire, ocVars, BreakerGivesUp, OutsideReasons
<1>2. ocRules' \in BOOLEAN
  <2>1. ocRules' \in {ocRules, FALSE}
    BY DEF BreakerResets, RequirementsExpire, ocVars, BreakerGivesUp
  <2>. QED
    BY <2>1, Zenon DEF OutsideCallsInv, OutsideCallsTypeOK
<1>3. ocBreaker' \in {"closed", "open", "half open", "probing"}
  BY DEF BreakerResets, RequirementsExpire, ocVars, BreakerGivesUp, Seen, OutsideCallsInv, OutsideCallsTypeOK
<1>4. OutsideCallsTypeOK'
  BY <1>1, <1>2, <1>3 DEF OutsideCallsInv, OutsideCallsTypeOK, OutsideReasons
<1>5. OutsideSafe'
  BY <1>1 DEF OutsideCallsInv, OutsideSafe
<1>. QED
  BY <1>4, <1>5 DEF OutsideCallsInv

LEMMA OutsideCallsNextInv == OutsideCallsInv /\ [OutsideCallsNext]_ocVars => OutsideCallsInv'
<1>. SUFFICES ASSUME OutsideCallsInv, [OutsideCallsNext]_ocVars PROVE OutsideCallsInv'
  OBVIOUS
<1>1. CASE BreakerResets \/ RequirementsExpire \/ UNCHANGED ocVars
  BY <1>1, OutsideRest
<1>2. ASSUME NEW c \in OutsideSlots,
             \/ ProcessPremiumPayment(c) \/ ProcessCommission(c) \/ GetBillingStatement(c)
             \/ BreakerGivesUp(c) \/ Acts(c) \/ SendAgainLater(c) \/ SendsAgain(c) \/ RequestFails(c)
             \/ BillingAnswered(c) \/ PerformComplianceCheck(c) \/ SubmitComplianceReport(c)
             \/ TrackRemediationPlan(c) \/ FetchRegulatoryRequirements(c) \/ ReportAccepted(c)
             \/ Records(c) \/ CreateAuditEntry(c) \/ LaterStepFails(c)
      PROVE  OutsideCallsInv'
  <2>1. CASE BreakerGivesUp(c)
    BY <2>1, OutsideRest
  <2>. QED
    BY <1>2, <2>1, OutsideBeginSteps, OutsideGoesOnSteps, OutsideEndSteps
<1>. QED
  BY <1>1, <1>2 DEF OutsideCallsNext

\* The calls to billing and to the regulator are of their types.
THEOREM OutsideCallsTyped == OutsideCallsSpec => []OutsideCallsTypeOK
<1>1. OutsideCallsInv => OutsideCallsTypeOK
  BY DEF OutsideCallsInv
<1>. QED
  BY <1>1, OutsideCallsInitInv, OutsideCallsNextInv, PTL DEF OutsideCallsSpec

\* A wish is carried out twice only if an answer was lost, the breaker gave the caller
\* up or a step after it failed (BillingClient.ts:47, :190, ComplianceService.ts:141,
\* :153); and who was told of a success has had the wish.
THEOREM EffectsAlwaysExplained == OutsideCallsSpec => []EffectsExplained
<1>1. OutsideCallsInv => EffectsExplained
  <2>. SUFFICES ASSUME OutsideCallsInv PROVE EffectsExplained
    OBVIOUS
  <2>1. ocEffects # 0 => ocEffects > 0
    BY OutsideTypesNow
  <2>. QED
    BY <2>1 DEF OutsideCallsInv, OutsideSafe, EffectsExplained
<1>. QED
  BY <1>1, OutsideCallsInitInv, OutsideCallsNextInv, PTL DEF OutsideCallsSpec

-----------------------------------------------------------------------------
(* The reports                                                             *)

Absent == -1

\* How old a value is at the end of the lifetime of its entry, at most: each cache adds
\* a lifetime, and each request between two of them its own ticks.
AgeAtEnd == [l \in Levels |->
  IF l = "service" THEN CacheTtl + MaxFlight
  ELSE IF l = "controller" THEN 2 * (CacheTtl + MaxFlight) - 1
  ELSE 3 * (CacheTtl + MaxFlight) - 2]

EntryFits(entry, bound) ==
  \/ entry = NoEntry
  \/ /\ entry \in [age : Nat, left : Nat \ {0}]
     /\ entry.age + entry.left <= bound

\* A value that a call has is as old as its entry may be when it leaves the cache
\* before, and the ticks that the call lasts.
CallFits(call) ==
  /\ call.step \in ReportSteps /\ call.ticks \in 0..MaxFlight
  /\ call.step = "none" => call.ticks = 0
  /\ call.step \in {"route missed", "controller missed", "service missed"} => call.age = Absent
  /\ call.step \in {"fetched", "made", "answered"} => call.age \in Nat
  /\ call.step = "fetched" => call.age <= call.ticks
  /\ call.step = "made" => call.age <= CacheTtl + MaxFlight - 1 + call.ticks
  /\ call.step = "answered" => call.age <= 2 * (CacheTtl + MaxFlight - 1) + call.ticks
  /\ call.step = "none" => call.age = Absent \/ call.age \in 0..OldestAnswer

AnalyticsInv ==
  /\ anCaches = [l \in Levels |-> anCaches[l]]
  /\ \A l \in Levels : EntryFits(anCaches[l], AgeAtEnd[l])
  /\ anCalls \in [ReportCalls -> [step : ReportSteps, age : Int, ticks : Nat]]
  /\ \A r \in ReportCalls : CallFits(anCalls[r])
  /\ \A r \in ReportCalls :
       anCalls[r].step = "none" /\ anCalls[r].age # Absent => anCaches["route"] # NoEntry
  /\ anGauges \in [hit : {0, 1}, success : {0, 1}]

LEMMA NoReportFits ==
  /\ CallFits(NoReport) /\ NoReport \in [step : ReportSteps, age : Int, ticks : Nat]
  /\ NoReport.step = "none" /\ NoReport.age = Absent
BY AnalyticsAssumption DEF CallFits, NoReport, ReportSteps, Absent

LEMMA AnalyticsInitInv == AnalyticsInit => AnalyticsInv
<1>. SUFFICES ASSUME AnalyticsInit PROVE AnalyticsInv
  OBVIOUS
<1>1. anGauges \in [hit : {0, 1}, success : {0, 1}]
  BY DEF AnalyticsInit
<1>. QED
  BY <1>1, NoReportFits DEF AnalyticsInit, AnalyticsInv, EntryFits

Reports == [step : ReportSteps, age : Int, ticks : Nat]

LEMMA ReportNow ==
  ASSUME AnalyticsInv, NEW r \in ReportCalls
  PROVE  CallFits(anCalls[r]) /\ anCalls[r] \in Reports
         /\ anGauges \in [hit : {0, 1}, success : {0, 1}]
BY DEF AnalyticsInv, Reports

\* The ages at which the entries end.
LEMMA EndAges ==
  /\ AgeAtEnd["service"] = CacheTtl + MaxFlight
  /\ AgeAtEnd["controller"] = 2 * (CacheTtl + MaxFlight) - 1
  /\ AgeAtEnd["route"] = 3 * (CacheTtl + MaxFlight) - 2
BY DEF AgeAtEnd, Levels

\* The arithmetic of the ages.
LEMMA AgeSums ==
  ASSUME NEW ttl \in Nat \ {0}, NEW flight \in Nat, NEW ticks \in 0..flight, NEW age \in Nat
  PROVE  /\ age <= ticks => age + ttl <= ttl + flight /\ age <= ttl + flight - 1 + ticks
                             /\ age <= 3 * (ttl - 1 + flight)
         /\ age <= ttl + flight - 1 => age <= ttl + flight - 1 + ticks
         /\ age <= ttl + flight - 1 + ticks =>
              age + ttl <= 2 * (ttl + flight) - 1 /\ age <= 2 * (ttl + flight - 1) + ticks
              /\ age <= 3 * (ttl - 1 + flight)
         /\ age <= 2 * (ttl + flight) - 1 - 1 => age <= 2 * (ttl + flight - 1) + ticks
         /\ age <= 2 * (ttl + flight - 1) + ticks =>
              age + ttl <= 3 * (ttl + flight) - 2 /\ age <= 3 * (ttl - 1 + flight)
         /\ age <= 3 * (ttl + flight) - 2 - 1 => age \in 0..(3 * (ttl - 1 + flight))
OBVIOUS

LEMMA EntryAge ==
  ASSUME NEW entry, NEW bound \in Nat, EntryFits(entry, bound), entry # NoEntry
  PROVE  entry.age \in Nat /\ entry.age <= bound - 1
BY DEF EntryFits

\* A call moves on and the entries stay.
LEMMA ReportStep ==
  ASSUME AnalyticsInv, NEW r \in ReportCalls, NEW call \in Reports, CallFits(call),
         anCalls' = [anCalls EXCEPT ![r] = call], anCaches' = anCaches,
         anGauges' \in [hit : {0, 1}, success : {0, 1}],
         call.step = "none" /\ call.age # Absent => anCaches["route"] # NoEntry
  PROVE  AnalyticsInv'
<1>1. /\ anCalls' \in [ReportCalls -> Reports] /\ anCalls'[r] = call
      /\ \A q \in ReportCalls \ {r} : anCalls'[q] = anCalls[q]
  BY DEF AnalyticsInv, Reports
<1>2. \A q \in ReportCalls : CallFits(anCalls'[q])
  BY <1>1 DEF AnalyticsInv
<1>3. \A q \in ReportCalls :
        anCalls'[q].step = "none" /\ anCalls'[q].age # Absent => anCaches'["route"] # NoEntry
  BY <1>1 DEF AnalyticsInv
<1>. QED
  BY <1>1, <1>2, <1>3 DEF AnalyticsInv, Reports

\* A call moves on and a cache gets an entry for its value.
LEMMA StoreStep ==
  ASSUME AnalyticsInv, NEW r \in ReportCalls, NEW call \in Reports, CallFits(call),
         anCalls' = [anCalls EXCEPT ![r] = call], call.step = "none" => call.age = Absent,
         NEW l \in Levels, Stores(r, l), anCalls[r].age \in Nat,
         anCalls[r].age + CacheTtl <= AgeAtEnd[l],
         anGauges' \in [hit : {0, 1}, success : {0, 1}]
  PROVE  AnalyticsInv'
<1>1. /\ anCalls' \in [ReportCalls -> Reports] /\ anCalls'[r] = call
      /\ \A q \in ReportCalls \ {r} : anCalls'[q] = anCalls[q]
  BY DEF AnalyticsInv, Reports
<1>2. \A q \in ReportCalls : CallFits(anCalls'[q])
  BY <1>1 DEF AnalyticsInv
<1>3. PICK entry : entry = [age |-> anCalls[r].age, left |-> CacheTtl]
  OBVIOUS
<1>4. entry \in [age : Nat, left : Nat \ {0}] /\ entry.age + entry.left <= AgeAtEnd[l]
  BY <1>3, AnalyticsAssumption
<1>5. entry # NoEntry
  BY <1>3, AnalyticsAssumption DEF NoEntry
<1>6. EntryFits(entry, AgeAtEnd[l])
  BY <1>4 DEF EntryFits
<1>7. anCaches' = [anCaches EXCEPT ![l] = entry]
  BY <1>3 DEF Stores
<1>8. /\ anCaches' = [k \in Levels |-> anCaches'[k]] /\ anCaches'[l] = entry
      /\ \A k \in Levels \ {l} : anCaches'[k] = anCaches[k]
  BY <1>7 DEF AnalyticsInv
<1>9. \A k \in Levels : EntryFits(anCaches'[k], AgeAtEnd[k])
  BY <1>6, <1>8 DEF AnalyticsInv
<1>10. \A q \in ReportCalls :
         anCalls'[q].step = "none" /\ anCalls'[q].age # Absent => anCaches'["route"] # NoEntry
  BY <1>1, <1>5, <1>8 DEF AnalyticsInv, Levels
<1>. QED
  BY <1>1, <1>2, <1>8, <1>9, <1>10 DEF AnalyticsInv, Reports

LEMMA TurnedCall ==
  ASSUME AnalyticsInv, NEW r \in ReportCalls, NEW from, NEW to \in ReportSteps, Turns(r, from, to)
  PROVE  \E call \in Reports : /\ anCalls' = [anCalls EXCEPT ![r] = call] /\ call.step = to
                               /\ call.age = anCalls[r].age /\ call.ticks = anCalls[r].ticks
<1>1. PICK call : call = [anCalls[r] EXCEPT !.step = to]
  OBVIOUS
<1>2. /\ call \in Reports /\ call.step = to
      /\ call.age = anCalls[r].age /\ call.ticks = anCalls[r].ticks
  BY <1>1, ReportNow DEF Reports
<1>. QED
  BY <1>1, <1>2 DEF Turns

LEMMA HeldCall ==
  ASSUME AnalyticsInv, NEW r \in ReportCalls, NEW from, NEW to \in ReportSteps, NEW age \in Int,
         Holds(r, from, to, age)
  PROVE  \E call \in Reports : /\ anCalls' = [anCalls EXCEPT ![r] = call] /\ call.step = to
                               /\ call.age = age /\ call.ticks = anCalls[r].ticks
<1>1. PICK call : call = [anCalls[r] EXCEPT !.step = to, !.age = age]
  OBVIOUS
<1>2. /\ call \in Reports /\ call.step = to
      /\ call.age = age /\ call.ticks = anCalls[r].ticks
  BY <1>1, ReportNow DEF Reports
<1>3. anCalls' = [anCalls EXCEPT ![r] = call]
  BY <1>1 DEF Holds, AnalyticsInv
<1>. QED
  BY <1>2, <1>3

\* What each step finds.
LEMMA StepNow ==
  ASSUME AnalyticsInv, NEW r \in ReportCalls
  PROVE  /\ anCalls[r].ticks \in Nat /\ anCalls[r].ticks <= MaxFlight /\ anCalls[r].age \in Int
         /\ anCalls[r].step = "none" => anCalls[r].ticks = 0
         /\ anCalls[r].step = "none" /\ anCaches["route"] = NoEntry => anCalls[r].age = Absent
         /\ anCalls[r].step \in {"route missed", "controller missed", "service missed"} => anCalls[r].age = Absent
         /\ anCalls[r].step \in {"fetched", "made", "answered"} => anCalls[r].age \in Nat
         /\ anCalls[r].step = "fetched" => anCalls[r].age <= anCalls[r].ticks
         /\ anCalls[r].step = "made" => anCalls[r].age <= CacheTtl + MaxFlight - 1 + anCalls[r].ticks
         /\ anCalls[r].step = "answered" => anCalls[r].age <= 2 * (CacheTtl + MaxFlight - 1) + anCalls[r].ticks
<1>1. anCalls[r].ticks \in Nat /\ anCalls[r].age \in Int
  BY ReportNow DEF Reports
<1>2. anCalls[r].ticks \in 0..MaxFlight
  BY ReportNow DEF CallFits
<1>3. anCalls[r].ticks <= MaxFlight
  BY <1>2, AnalyticsAssumption
<1>. QED
  BY <1>1, <1>3, ReportNow DEF CallFits, AnalyticsInv

\* The age of a value when it moves on: what its entry and the next call allow.
LEMMA ValueAges ==
  ASSUME AnalyticsInv, NEW r \in ReportCalls
  PROVE  /\ anCalls[r].step = "fetched" => /\ anCalls[r].age + CacheTtl <= AgeAtEnd["service"]
                                            /\ anCalls[r].age <= CacheTtl + MaxFlight - 1 + anCalls[r].ticks
         /\ anCalls[r].step = "made" => /\ anCalls[r].age + CacheTtl <= AgeAtEnd["controller"]
                                         /\ anCalls[r].age <= 2 * (CacheTtl + MaxFlight - 1) + anCalls[r].ticks
         /\ anCalls[r].step = "answered" => anCalls[r].age + CacheTtl <= AgeAtEnd["route"]
         /\ anCalls[r].step \in {"fetched", "made", "answered"} => anCalls[r].age <= OldestAnswer
<1>1. PICK age : age = anCalls[r].age
  OBVIOUS
<1>2. PICK ticks : ticks = anCalls[r].ticks
  OBVIOUS
<1>3. ticks \in 0..MaxFlight
  BY <1>2, ReportNow DEF CallFits
<1>4. anCalls[r].step \in {"fetched", "made", "answered"} => age \in Nat
  BY <1>1, StepNow
<1>5. /\ anCalls[r].step = "fetched" => age <= ticks
      /\ anCalls[r].step = "made" => age <= CacheTtl + MaxFlight - 1 + ticks
      /\ anCalls[r].step = "answered" => age <= 2 * (CacheTtl + MaxFlight - 1) + ticks
  BY <1>1, <1>2, StepNow
<1>6. anCalls[r].step = "fetched" =>
        /\ age + CacheTtl <= CacheTtl + MaxFlight
        /\ age <= CacheTtl + MaxFlight - 1 + ticks /\ age <= 3 * (CacheTtl - 1 + MaxFlight)
  BY <1>3, <1>4, <1>5, AgeSums, AnalyticsAssumption
<1>7. anCalls[r].step = "made" =>
        /\ age + CacheTtl <= 2 * (CacheTtl + MaxFlight) - 1
        /\ age <= 2 * (CacheTtl + MaxFlight - 1) + ticks /\ age <= 3 * (CacheTtl - 1 + MaxFlight)
  BY <1>3, <1>4, <1>5, AgeSums, AnalyticsAssumption
<1>8. anCalls[r].step = "answered" =>
        /\ age + CacheTtl <= 3 * (CacheTtl + MaxFlight) - 2 /\ age <= 3 * (CacheTtl - 1 + MaxFlight)
  BY <1>3, <1>4, <1>5, AgeSums, AnalyticsAssumption
<1>9. CASE anCalls[r].step = "fetched"
  BY <1>1, <1>2, <1>6, <1>9, EndAges DEF OldestAnswer
<1>10. CASE anCalls[r].step = "made"
  BY <1>1, <1>2, <1>7, <1>10, EndAges DEF OldestAnswer
<1>11. CASE anCalls[r].step = "answered"
  BY <1>1, <1>2, <1>8, <1>11, EndAges DEF OldestAnswer
<1>. QED
  BY <1>9, <1>10, <1>11

\* A miss.
LEMMA MissStep ==
  ASSUME AnalyticsInv, NEW r \in ReportCalls, NEW from,
         NEW to \in {"route missed", "controller missed", "service missed"}, Turns(r, from, to),
         anCalls[r].age = Absent, anCaches' = anCaches,
         anGauges' \in [hit : {0, 1}, success : {0, 1}]
  PROVE  AnalyticsInv'
<1>1. PICK call \in Reports : /\ anCalls' = [anCalls EXCEPT ![r] = call] /\ call.step = to
                              /\ call.age = Absent /\ call.ticks = anCalls[r].ticks
  <2>1. to \in ReportSteps
    BY DEF ReportSteps
  <2>2. PICK call \in Reports : /\ anCalls' = [anCalls EXCEPT ![r] = call] /\ call.step = to
                                /\ call.age = anCalls[r].age /\ call.ticks = anCalls[r].ticks
    <3>1. \A t \in ReportSteps : Turns(r, from, t) =>
            \E call \in Reports : /\ anCalls' = [anCalls EXCEPT ![r] = call] /\ call.step = t
                                  /\ call.age = anCalls[r].age /\ call.ticks = anCalls[r].ticks
      BY TurnedCall
    <3>. QED
      BY <2>1, <3>1, Zenon
  <2>. QED
    BY <2>2, Zenon
<1>2. CallFits(call)
  BY <1>1, ReportNow DEF CallFits, ReportSteps
<1>. QED
  BY <1>1, <1>2, ReportStep

\* A hit.
LEMMA HitStep ==
  ASSUME AnalyticsInv, NEW r \in ReportCalls, NEW from, NEW to \in {"none", "made", "answered"},
         NEW level \in Levels, anCaches[level] # NoEntry, Holds(r, from, to, anCaches[level].age),
         \/ level = "route" /\ from = "none" /\ to = "none"
         \/ level = "controller" /\ to = "answered"
         \/ level = "service" /\ to = "made",
         anCaches' = anCaches, anGauges' \in [hit : {0, 1}, success : {0, 1}]
  PROVE  AnalyticsInv'
<1>1. PICK age : age = anCaches[level].age
  OBVIOUS
<1>2. AgeAtEnd[level] \in Nat
  BY EndAges, AnalyticsAssumption DEF Levels
<1>3. age \in Nat /\ age <= AgeAtEnd[level] - 1
  BY <1>1, <1>2, EntryAge DEF AnalyticsInv
<1>4. PICK call \in Reports : /\ anCalls' = [anCalls EXCEPT ![r] = call] /\ call.step = to
                              /\ call.age = age /\ call.ticks = anCalls[r].ticks
  <2>1. age \in Int /\ to \in ReportSteps /\ Holds(r, from, to, age)
    <3>1. age \in Int
      BY <1>3
    <3>2. to \in ReportSteps
      BY DEF ReportSteps
    <3>3. Holds(r, from, to, age)
      BY <1>1, Zenon
    <3>. QED
      BY <3>1, <3>2, <3>3
  <2>. QED
    BY <2>1, HeldCall
<1>5. CallFits(call) /\ (call.step = "none" => level = "route")
  <2>1. call.ticks \in 0..MaxFlight /\ call.ticks \in Nat /\ call.step \in ReportSteps
    BY <1>4, ReportNow, StepNow DEF CallFits, ReportSteps
  <2>2. CASE level = "route" /\ from = "none" /\ to = "none"
    <3>1. call.ticks = 0
      BY <1>4, <2>2, StepNow DEF Holds
    <3>2. call.age \in 0..OldestAnswer
      BY <1>3, <1>4, <2>2, EndAges, AnalyticsAssumption DEF OldestAnswer
    <3>. QED
      BY <1>4, <2>1, <2>2, <3>1, <3>2 DEF CallFits
  <2>3. CASE level = "controller" /\ to = "answered"
    <3>1. call.age <= 2 * (CacheTtl + MaxFlight - 1) + call.ticks
      BY <1>3, <1>4, <2>1, <2>3, EndAges, AnalyticsAssumption
    <3>. QED
      BY <1>3, <1>4, <2>1, <2>3, <3>1 DEF CallFits
  <2>4. CASE level = "service" /\ to = "made"
    <3>1. call.age <= CacheTtl + MaxFlight - 1 + call.ticks
      BY <1>3, <1>4, <2>1, <2>4, EndAges, AnalyticsAssumption
    <3>. QED
      BY <1>3, <1>4, <2>1, <2>4, <3>1 DEF CallFits
  <2>. QED
    BY <2>2, <2>3, <2>4
<1>. QED
  BY <1>4, <1>5, ReportStep

LEMMA LookUpSteps ==
  ASSUME AnalyticsInv, NEW r \in ReportCalls, ReportRequested(r) \/ GetReport(r) \/ GenerateReport(r)
  PROVE  AnalyticsInv'
<1>. USE DEF LooksUp
<1>1. anGauges' \in [hit : {0, 1}, success : {0, 1}] /\ anCaches' = anCaches
  <2>1. CASE ReportRequested(r) \/ GenerateReport(r)
    BY <2>1, ReportNow DEF ReportRequested, GenerateReport
  <2>2. CASE GetReport(r)
    <3>1. anGauges' = anGauges \/ anGauges' = [hit |-> 1, success |-> 1]
      BY <2>2, Zenon DEF GetReport
    <3>2. [hit |-> 1, success |-> 1] \in [hit : {0, 1}, success : {0, 1}]
      OBVIOUS
    <3>3. anGauges' \in [hit : {0, 1}, success : {0, 1}]
      BY <3>1, <3>2, ReportNow, Zenon
    <3>. QED
      BY <2>2, <3>3 DEF GetReport
  <2>. QED
    BY <2>1, <2>2
<1>2. CASE ReportRequested(r)
  <2>1. CASE anCaches["route"] = NoEntry
    BY <1>1, <1>2, <2>1, StepNow, MissStep DEF ReportRequested, Turns
  <2>2. CASE anCaches["route"] # NoEntry
    BY <1>1, <1>2, <2>2, HitStep DEF ReportRequested, Levels
  <2>. QED
    BY <2>1, <2>2
<1>3. CASE GetReport(r)
  <2>1. CASE anCaches["controller"] = NoEntry
    BY <1>1, <1>3, <2>1, StepNow, MissStep DEF GetReport, Turns
  <2>2. CASE anCaches["controller"] # NoEntry
    BY <1>1, <1>3, <2>2, HitStep DEF GetReport, Levels
  <2>. QED
    BY <2>1, <2>2
<1>4. CASE GenerateReport(r)
  <2>1. CASE anCaches["service"] = NoEntry
    BY <1>1, <1>4, <2>1, StepNow, MissStep DEF GenerateReport, Turns
  <2>2. CASE anCaches["service"] # NoEntry
    BY <1>1, <1>4, <2>2, HitStep DEF GenerateReport, Levels
  <2>. QED
    BY <2>1, <2>2
<1>. QED
  BY <1>2, <1>3, <1>4

LEMMA ReportSteps1 ==
  ASSUME AnalyticsInv, NEW r \in ReportCalls,
         FetchForPeriod(r) \/ ServiceStores(r) \/ ControllerStores(r) \/ RouteAnswers(r) \/ ReportFails(r)
  PROVE  AnalyticsInv'
<1>1. anGauges' \in [hit : {0, 1}, success : {0, 1}]
  BY ReportNow DEF FetchForPeriod, ServiceStores, ControllerStores, RouteAnswers, ReportFails
<1>2. CASE FetchForPeriod(r)
  <2>1. PICK call \in Reports : /\ anCalls' = [anCalls EXCEPT ![r] = call] /\ call.step = "fetched"
                                /\ call.age = 0 /\ call.ticks = anCalls[r].ticks
    <3>1. PICK call : call = [anCalls[r] EXCEPT !.step = "fetched", !.age = 0]
      OBVIOUS
    <3>2. /\ call \in Reports /\ call.step = "fetched"
          /\ call.age = 0 /\ call.ticks = anCalls[r].ticks
      <4>1. "fetched" \in ReportSteps
        BY DEF ReportSteps
      <4>2. anCalls[r] \in Reports
        BY ReportNow
      <4>3. /\ call = [step |-> "fetched", age |-> 0, ticks |-> anCalls[r].ticks]
            /\ anCalls[r].ticks \in Nat
        BY <3>1, <4>2 DEF Reports
      <4>. QED
        BY <4>1, <4>3 DEF Reports
    <3>3. anCalls' = [anCalls EXCEPT ![r] = call]
      BY <1>2, <3>1 DEF FetchForPeriod, Holds, AnalyticsInv
    <3>. QED
      BY <3>2, <3>3
  <2>2. call.ticks \in 0..MaxFlight /\ call.ticks \in Nat
    BY <2>1, ReportNow, StepNow DEF CallFits
  <2>3. CallFits(call)
    BY <2>1, <2>2 DEF CallFits, ReportSteps
  <2>. QED
    BY <1>1, <1>2, <2>1, <2>3, ReportStep DEF FetchForPeriod
<1>3. CASE ServiceStores(r)
  <2>1. PICK call \in Reports : /\ anCalls' = [anCalls EXCEPT ![r] = call] /\ call.step = "made"
                                /\ call.age = anCalls[r].age /\ call.ticks = anCalls[r].ticks
    BY <1>3, TurnedCall DEF ServiceStores, ReportSteps
  <2>2. anCalls[r].step = "fetched" /\ call.ticks \in 0..MaxFlight
    BY <1>3, <2>1, ReportNow DEF ServiceStores, Turns, CallFits
  <2>3. /\ call.age \in Nat /\ call.age <= CacheTtl + MaxFlight - 1 + call.ticks
        /\ anCalls[r].age + CacheTtl <= AgeAtEnd["service"]
    BY <2>1, <2>2, StepNow, ValueAges
  <2>4. CallFits(call)
    BY <2>1, <2>2, <2>3 DEF CallFits, ReportSteps
  <2>. QED
    BY <1>1, <1>3, <2>1, <2>3, <2>4, StoreStep DEF ServiceStores, Levels
<1>4. CASE ControllerStores(r)
  <2>1. PICK call \in Reports : /\ anCalls' = [anCalls EXCEPT ![r] = call] /\ call.step = "answered"
                                /\ call.age = anCalls[r].age /\ call.ticks = anCalls[r].ticks
    BY <1>4, TurnedCall DEF ControllerStores, ReportSteps
  <2>2. anCalls[r].step = "made" /\ call.ticks \in 0..MaxFlight
    BY <1>4, <2>1, ReportNow DEF ControllerStores, Turns, CallFits
  <2>3. /\ call.age \in Nat /\ call.age <= 2 * (CacheTtl + MaxFlight - 1) + call.ticks
        /\ anCalls[r].age + CacheTtl <= AgeAtEnd["controller"]
    BY <2>1, <2>2, StepNow, ValueAges
  <2>4. CallFits(call)
    BY <2>1, <2>2, <2>3 DEF CallFits, ReportSteps
  <2>. QED
    BY <1>1, <1>4, <2>1, <2>3, <2>4, StoreStep DEF ControllerStores, Levels
<1>5. CASE RouteAnswers(r)
  <2>1. anCalls[r].step = "answered" /\ anCalls' = [anCalls EXCEPT ![r] = NoReport]
    BY <1>5 DEF RouteAnswers
  <2>2. anCalls[r].age \in Nat /\ anCalls[r].age + CacheTtl <= AgeAtEnd["route"]
    BY <2>1, StepNow, ValueAges
  <2>. QED
    BY <1>1, <1>5, <2>1, <2>2, NoReportFits, StoreStep DEF RouteAnswers, Levels, Reports
<1>6. CASE ReportFails(r)
  BY <1>1, <1>6, NoReportFits, ReportStep DEF ReportFails, Reports
<1>. QED
  BY <1>2, <1>3, <1>4, <1>5, <1>6

-----------------------------------------------------------------------------
\* Time passes for an entry and for a call.
LEMMA EntryAges ==
  ASSUME NEW entry, NEW bound, EntryFits(entry, bound)
  PROVE  EntryFits(IF entry.left <= 1 THEN NoEntry
                   ELSE [age |-> entry.age + 1, left |-> entry.left - 1], bound)
<1>1. CASE entry = NoEntry
  BY <1>1 DEF EntryFits, NoEntry
<1>2. CASE entry # NoEntry
  BY <1>2 DEF EntryFits
<1>. QED
  BY <1>1, <1>2

LEMMA CallAges ==
  ASSUME NEW call \in Reports, CallFits(call), call.step # "none", call.ticks < MaxFlight,
         NEW next, next = [step |-> call.step, age |-> Older(call.age), ticks |-> call.ticks + 1]
  PROVE  CallFits(next) /\ next \in Reports /\ next.step # "none"
<1>1. /\ next.step = call.step /\ next.age = Older(call.age) /\ next.ticks = call.ticks + 1
      /\ call.step \in ReportSteps /\ call.age \in Int /\ call.ticks \in Nat
  BY DEF Reports
<1>2. next.ticks \in 0..MaxFlight /\ next.ticks \in Nat
  BY <1>1, AnalyticsAssumption
<1>3. call.age = Absent => next.age = Absent
  BY <1>1 DEF Older, Absent
<1>4. call.age \in Nat => next.age \in Nat /\ next.age = call.age + 1
  BY <1>1 DEF Older
<1>5. next.age \in Int
  BY <1>1 DEF Older
<1>6. next \in Reports
  BY <1>1, <1>2, <1>5 DEF Reports
<1>7. call.step = "fetched" => next.age <= next.ticks
  BY <1>1, <1>4 DEF CallFits
<1>8. call.step = "made" => next.age <= CacheTtl + MaxFlight - 1 + next.ticks
  BY <1>1, <1>4, AnalyticsAssumption DEF CallFits
<1>9. call.step = "answered" => next.age <= 2 * (CacheTtl + MaxFlight - 1) + next.ticks
  BY <1>1, <1>4, AnalyticsAssumption DEF CallFits
<1>. QED
  BY <1>1, <1>2, <1>3, <1>4, <1>6, <1>7, <1>8, <1>9 DEF CallFits

LEMMA TickStep ==
  ASSUME AnalyticsInv, Tick
  PROVE  AnalyticsInv'
<1>1. \A l \in Levels : EntryFits(anCaches'[l], AgeAtEnd[l])
  BY EntryAges DEF Tick, AnalyticsInv
<1>2. anCaches' = [l \in Levels |-> anCaches'[l]] /\ anGauges' = anGauges
  BY DEF Tick
<1>3. ASSUME NEW r \in ReportCalls
      PROVE  /\ CallFits(anCalls'[r]) /\ anCalls'[r] \in Reports
             /\ anCalls'[r].step = "none" => anCalls'[r].age = Absent
  <2>1. CASE anCalls[r].step = "none"
    <3>1. anCalls'[r] = NoReport
      BY <2>1 DEF Tick
    <3>. QED
      BY <3>1, NoReportFits DEF Reports
  <2>2. CASE anCalls[r].step # "none"
    <3>1. anCalls'[r] = [step |-> anCalls[r].step, age |-> Older(anCalls[r].age), ticks |-> anCalls[r].ticks + 1]
          /\ anCalls[r].ticks < MaxFlight
      BY <2>2 DEF Tick
    <3>2. PICK call : call = anCalls[r]
      OBVIOUS
    <3>3. PICK next : next = anCalls'[r]
      OBVIOUS
    <3>. QED
      BY <2>2, <3>1, <3>2, <3>3, ReportNow, CallAges
  <2>. QED
    BY <2>1, <2>2
<1>4. anCalls' \in [ReportCalls -> Reports]
  <2>1. anCalls' = [r \in ReportCalls |-> anCalls'[r]]
    BY DEF Tick
  <2>. QED
    BY <1>3, <2>1
<1>. QED
  BY <1>1, <1>2, <1>3, <1>4 DEF AnalyticsInv, Reports

LEMMA AnalyticsNextInv == AnalyticsInv /\ [AnalyticsNext]_anVars => AnalyticsInv'
<1>. SUFFICES ASSUME AnalyticsInv, [AnalyticsNext]_anVars PROVE AnalyticsInv'
  OBVIOUS
<1>1. CASE UNCHANGED anVars
  BY <1>1 DEF anVars, AnalyticsInv
<1>2. CASE Tick
  BY <1>2, TickStep
<1>3. CASE GetPerformanceMetrics
  <2>1. anGauges' \in [hit : {0, 1}, success : {0, 1}] /\ anCaches' = anCaches /\ anCalls' = anCalls
    BY <1>3 DEF GetPerformanceMetrics, AnalyticsInv
  <2>. QED
    BY <2>1 DEF AnalyticsInv
<1>4. ASSUME NEW r \in ReportCalls,
             \/ ReportRequested(r) \/ GetReport(r) \/ GenerateReport(r) \/ FetchForPeriod(r)
             \/ ServiceStores(r) \/ ControllerStores(r) \/ RouteAnswers(r) \/ ReportFails(r)
      PROVE  AnalyticsInv'
  BY <1>4, LookUpSteps, ReportSteps1
<1>. QED
  BY <1>1, <1>2, <1>3, <1>4 DEF AnalyticsNext

\* No report is older than three lifetimes of an entry and the requests between them,
\* whatever the lifetime: each of the three caches starts one of its own
\* (AnalyticsController.ts:61, AnalyticsService.ts:138, analytics.routes.ts:72).
THEOREM ReportsAgeThreeLifetimes == AnalyticsSpec => []AnalyticsTypeOK
<1>1. AnalyticsInv => AnalyticsTypeOK
  <2>. SUFFICES ASSUME AnalyticsInv PROVE AnalyticsTypeOK
    OBVIOUS
  <2>1. ASSUME NEW l \in Levels, anCaches[l] # NoEntry
        PROVE  anCaches[l].age \in 0..OldestAnswer /\ anCaches[l].left > 0
    <3>1. EntryFits(anCaches[l], AgeAtEnd[l])
      BY DEF AnalyticsInv
    <3>2. AgeAtEnd[l] \in Nat /\ AgeAtEnd[l] - 1 <= OldestAnswer /\ OldestAnswer \in Nat
      BY EndAges, AnalyticsAssumption DEF Levels, OldestAnswer
    <3>3. anCaches[l].left > 0
      BY <2>1, <3>1 DEF EntryFits
    <3>4. anCaches[l].age \in Nat /\ anCaches[l].age <= AgeAtEnd[l] - 1
      BY <2>1, <3>1, <3>2, EntryAge
    <3>. QED
      BY <3>2, <3>3, <3>4
  <2>2. ASSUME NEW r \in ReportCalls
        PROVE  anCalls[r] \in [step : ReportSteps, age : -1..OldestAnswer, ticks : 0..MaxFlight]
    <3>1. PICK age \in Int : age = anCalls[r].age
      BY StepNow
    <3>2. CallFits(anCalls[r]) /\ anCalls[r] \in Reports
      BY ReportNow
    <3>3. anCalls[r].ticks \in Nat /\ anCalls[r].ticks <= MaxFlight
      BY StepNow
    <3>4. age = Absent \/ (age >= 0 /\ age <= OldestAnswer)
      <4>1. CASE anCalls[r].step = "none"
        <5>1. OldestAnswer \in Nat
          BY AnalyticsAssumption DEF OldestAnswer
        <5>. QED
          BY <3>1, <3>2, <4>1, <5>1 DEF CallFits
      <4>2. CASE anCalls[r].step \in {"route missed", "controller missed", "service missed"}
        BY <3>1, <4>2, StepNow
      <4>3. CASE anCalls[r].step \in {"fetched", "made", "answered"}
        <5>1. age \in Nat
          BY <3>1, <4>3, StepNow
        <5>2. age <= OldestAnswer
          BY <3>1, <4>3, ValueAges
        <5>. QED
          BY <5>1, <5>2
      <4>. QED
        BY <3>2, <4>1, <4>2, <4>3 DEF CallFits, ReportSteps
    <3>5. age \in -1..OldestAnswer
      BY <3>4, AnalyticsAssumption DEF Absent, OldestAnswer
    <3>6. anCalls[r].ticks \in 0..MaxFlight
      BY <3>2 DEF CallFits
    <3>. QED
      BY <3>1, <3>2, <3>5, <3>6 DEF Reports
  <2>3. anCalls \in [ReportCalls -> [step : ReportSteps, age : -1..OldestAnswer, ticks : 0..MaxFlight]]
    <3>1. anCalls = [r \in ReportCalls |-> anCalls[r]]
      BY DEF AnalyticsInv
    <3>. QED
      BY <2>2, <3>1
  <2>. QED
    BY <2>1, <2>3 DEF AnalyticsInv, AnalyticsTypeOK
<1>. QED
  BY <1>1, AnalyticsInitInv, AnalyticsNextInv, PTL DEF AnalyticsSpec

-----------------------------------------------------------------------------
(* Every component in one behaviour                                        *)

\* A behaviour that takes the steps of one component is a behaviour of each: the others
\* stutter.
LEMMA BackRunsClaimsServer == BackSpec => ClaimsServerSpec
<1>1. BackInit => ClaimsServerInit
  BY DEF BackInit
<1>2. [BackNext]_backVars => [ClaimsServerNext]_slVars
  <2>1. CASE UNCHANGED backVars
    BY <2>1 DEF backVars
  <2>2. CASE BackNext
    BY <2>2 DEF BackNext, Others
  <2>. QED
    BY <2>1, <2>2
<1>. QED
  BY <1>1, <1>2, PTL DEF BackSpec, ClaimsServerSpec

LEMMA BackRunsPolicyEvents == BackSpec => PolicyEventsSpec
<1>1. BackInit => PolicyEventsInit
  BY DEF BackInit
<1>2. [BackNext]_backVars => [PolicyEventsNext]_peVars
  <2>1. CASE UNCHANGED backVars
    BY <2>1 DEF backVars
  <2>2. CASE BackNext
    BY <2>2 DEF BackNext, Others
  <2>. QED
    BY <2>1, <2>2
<1>. QED
  BY <1>1, <1>2, PTL DEF BackSpec, PolicyEventsSpec

LEMMA BackRunsClaimsEvents == BackSpec => ClaimsEventsSpec
<1>1. BackInit => ClaimsEventsInit
  BY DEF BackInit
<1>2. [BackNext]_backVars => [ClaimsEventsNext]_ceVars
  <2>1. CASE UNCHANGED backVars
    BY <2>1 DEF backVars
  <2>2. CASE BackNext
    BY <2>2 DEF BackNext, Others
  <2>. QED
    BY <2>1, <2>2
<1>. QED
  BY <1>1, <1>2, PTL DEF BackSpec, ClaimsEventsSpec

LEMMA BackRunsEventProducers == BackSpec => EventProducersSpec
<1>1. BackInit => EventProducersInit
  BY DEF BackInit
<1>2. [BackNext]_backVars => [EventProducersNext]_epVars
  <2>1. CASE UNCHANGED backVars
    BY <2>1 DEF backVars
  <2>2. CASE BackNext
    BY <2>2 DEF BackNext, Others
  <2>. QED
    BY <2>1, <2>2
<1>. QED
  BY <1>1, <1>2, PTL DEF BackSpec, EventProducersSpec

LEMMA BackRunsUnderwritingServer == BackSpec => UnderwritingServerSpec
<1>1. BackInit => UnderwritingServerInit
  BY DEF BackInit
<1>2. [BackNext]_backVars => [UnderwritingServerNext]_uvVars
  <2>1. CASE UNCHANGED backVars
    BY <2>1 DEF backVars
  <2>2. CASE BackNext
    BY <2>2 DEF BackNext, Others
  <2>. QED
    BY <2>1, <2>2
<1>. QED
  BY <1>1, <1>2, PTL DEF BackSpec, UnderwritingServerSpec

LEMMA BackRunsDocumentStore == BackSpec => DocumentStoreSpec
<1>1. BackInit => DocumentStoreInit
  BY DEF BackInit
<1>2. [BackNext]_backVars => [DocumentStoreNext]_dcVars
  <2>1. CASE UNCHANGED backVars
    BY <2>1 DEF backVars
  <2>2. CASE BackNext
    BY <2>2 DEF BackNext, Others
  <2>. QED
    BY <2>1, <2>2
<1>. QED
  BY <1>1, <1>2, PTL DEF BackSpec, DocumentStoreSpec

LEMMA BackRunsRequestPipeline == BackSpec => RequestPipelineSpec
<1>1. BackInit => RequestPipelineInit
  BY DEF BackInit
<1>2. [BackNext]_backVars => [RequestPipelineNext]_rqVars
  <2>1. CASE UNCHANGED backVars
    BY <2>1 DEF backVars
  <2>2. CASE BackNext
    BY <2>2 DEF BackNext, Others
  <2>. QED
    BY <2>1, <2>2
<1>. QED
  BY <1>1, <1>2, PTL DEF BackSpec, RequestPipelineSpec

LEMMA BackRunsEndorsements == BackSpec => EndorsementsSpec
<1>1. BackInit => EndorsementsInit
  BY DEF BackInit
<1>2. [BackNext]_backVars => [EndorsementsNext]_enVars
  <2>1. CASE UNCHANGED backVars
    BY <2>1 DEF backVars
  <2>2. CASE BackNext
    BY <2>2 DEF BackNext, Others
  <2>. QED
    BY <2>1, <2>2
<1>. QED
  BY <1>1, <1>2, PTL DEF BackSpec, EndorsementsSpec

LEMMA BackRunsUserAccounts == BackSpec => UserAccountsSpec
<1>1. BackInit => UserAccountsInit
  BY DEF BackInit
<1>2. [BackNext]_backVars => [UserAccountsNext]_uaVars
  <2>1. CASE UNCHANGED backVars
    BY <2>1 DEF backVars
  <2>2. CASE BackNext
    BY <2>2 DEF BackNext, Others
  <2>. QED
    BY <2>1, <2>2
<1>. QED
  BY <1>1, <1>2, PTL DEF BackSpec, UserAccountsSpec

LEMMA BackRunsOutsideCalls == BackSpec => OutsideCallsSpec
<1>1. BackInit => OutsideCallsInit
  BY DEF BackInit
<1>2. [BackNext]_backVars => [OutsideCallsNext]_ocVars
  <2>1. CASE UNCHANGED backVars
    BY <2>1 DEF backVars
  <2>2. CASE BackNext
    BY <2>2 DEF BackNext, Others
  <2>. QED
    BY <2>1, <2>2
<1>. QED
  BY <1>1, <1>2, PTL DEF BackSpec, OutsideCallsSpec

LEMMA BackRunsConnections == BackSpec => ConnectionsSpec
<1>1. BackInit => ConnectionsInit
  BY DEF BackInit
<1>2. [BackNext]_backVars => [ConnectionsNext]_cnVars
  <2>1. CASE UNCHANGED backVars
    BY <2>1 DEF backVars
  <2>2. CASE BackNext
    BY <2>2 DEF BackNext, Others
  <2>. QED
    BY <2>1, <2>2
<1>. QED
  BY <1>1, <1>2, PTL DEF BackSpec, ConnectionsSpec

LEMMA BackRunsAnalytics == BackSpec => AnalyticsSpec
<1>1. BackInit => AnalyticsInit
  BY DEF BackInit
<1>2. [BackNext]_backVars => [AnalyticsNext]_anVars
  <2>1. CASE UNCHANGED backVars
    BY <2>1 DEF backVars
  <2>2. CASE BackNext
    BY <2>2 DEF BackNext, Others
  <2>. QED
    BY <2>1, <2>2
<1>. QED
  BY <1>1, <1>2, PTL DEF BackSpec, AnalyticsSpec

LEMMA BackRunsPolicyReads == BackSpec => PolicyReadsSpec
<1>1. BackInit => PolicyReadsInit
  BY DEF BackInit
<1>2. [BackNext]_backVars => [PolicyReadsNext]_rdVars
  <2>1. CASE UNCHANGED backVars
    BY <2>1 DEF backVars
  <2>2. CASE BackNext
    BY <2>2 DEF BackNext, Others
  <2>. QED
    BY <2>1, <2>2
<1>. QED
  BY <1>1, <1>2, PTL DEF BackSpec, PolicyReadsSpec

\* Whichever component of the server takes the steps, its variables keep their types: for
\* any number of slots, of claims, of documents and of users, and any bound.
THEOREM BackendTyped == BackSpec => []BackTypeOK
<1>1. BackSpec => []ClaimsServerTypeOK
  BY BackRunsClaimsServer, ClaimsServerTyped, PTL
<1>2. BackSpec => []PolicyEventsTypeOK
  BY BackRunsPolicyEvents, PolicyEventsTyped, PTL
<1>3. BackSpec => []ClaimsEventsTypeOK
  BY BackRunsClaimsEvents, ClaimsEventsTyped, PTL
<1>4. BackSpec => []EventProducersTypeOK
  BY BackRunsEventProducers, EventProducersTyped, PTL
<1>5. BackSpec => []UnderwritingServerTypeOK
  BY BackRunsUnderwritingServer, UnderwritingServerTyped, PTL
<1>6. BackSpec => []DocumentStoreTypeOK
  BY BackRunsDocumentStore, DocumentStoreTyped, PTL
<1>7. BackSpec => []RequestPipelineTypeOK
  BY BackRunsRequestPipeline, RequestPipelineTyped, PTL
<1>8. BackSpec => []EndorsementsTypeOK
  BY BackRunsEndorsements, EndorsementsTyped, PTL
<1>9. BackSpec => []UserAccountsTypeOK
  BY BackRunsUserAccounts, UserAccountsTyped, PTL
<1>10. BackSpec => []OutsideCallsTypeOK
  BY BackRunsOutsideCalls, OutsideCallsTyped, PTL
<1>11. BackSpec => []ConnectionsTypeOK
  BY BackRunsConnections, ConnectionsTyped, PTL
<1>12. BackSpec => []AnalyticsTypeOK
  BY BackRunsAnalytics, ReportsAgeThreeLifetimes, PTL
<1>13. BackSpec => []PolicyReadsTypeOK
  BY BackRunsPolicyReads, PolicyReadsTyped, PTL
<1>14. ClaimsServerTypeOK /\ PolicyEventsTypeOK /\ ClaimsEventsTypeOK /\
      EventProducersTypeOK /\ UnderwritingServerTypeOK /\ DocumentStoreTypeOK /\
      RequestPipelineTypeOK /\ EndorsementsTypeOK /\ UserAccountsTypeOK /\
      OutsideCallsTypeOK /\ ConnectionsTypeOK /\ AnalyticsTypeOK /\
      PolicyReadsTypeOK
        => BackTypeOK
  BY DEF BackTypeOK
<1>. QED
  BY <1>1, <1>2, <1>3, <1>4, <1>5, <1>6, <1>7, <1>8, <1>9, <1>10, <1>11, <1>12, <1>13, <1>14, PTL

\* What the components of the server promise.
BackendProperties ==
  /\ TransactionsMatch /\ OneInstance /\ StoresAgree
  /\ ConflictsExplained /\ ResolvedIsStored /\ PassedEventsExplained
  /\ PassedMessagesExplained /\ EffectsExplained /\ UnansweredExplained
  /\ StaleCopyExplained /\ ApprovalToldTwice

\* The server keeps every property that its components promise, and takes no step that
\* moves a claim against the order of its statuses or opens a locked account too early,
\* but for the races that the properties name.
THEOREM BackendSafe ==
  BackSpec => []BackendProperties /\ MovesAllowedUnlessRaced /\ LockStands
<1>1. BackSpec => []TransactionsMatch
  BY BackRunsClaimsServer, TransactionsAlwaysMatch, PTL
<1>2. BackSpec => []OneInstance
  BY BackRunsConnections, OneInstanceAlways, PTL
<1>3. BackSpec => []StoresAgree
  BY BackRunsDocumentStore, StoresAlwaysAgree, PTL
<1>4. BackSpec => []ConflictsExplained
  BY BackRunsEndorsements, ConflictsAlwaysExplained, PTL
<1>5. BackSpec => []ResolvedIsStored
  BY BackRunsEventProducers, ResolvedIsAlwaysStored, PTL
<1>6. BackSpec => []PassedEventsExplained
  BY BackRunsPolicyEvents, PassedEventsAlwaysExplained, PTL
<1>7. BackSpec => []PassedMessagesExplained
  BY BackRunsClaimsEvents, PassedMessagesAlwaysExplained, PTL
<1>8. BackSpec => []EffectsExplained
  BY BackRunsOutsideCalls, EffectsAlwaysExplained, PTL
<1>9. BackSpec => []UnansweredExplained
  BY BackRunsRequestPipeline, UnansweredAlwaysExplained, PTL
<1>10. BackSpec => []StaleCopyExplained
  BY BackRunsPolicyReads, StaleCopyAlwaysExplained, PTL
<1>11. BackSpec => []ApprovalToldTwice
  BY BackRunsUnderwritingServer, ApprovalAlwaysToldTwice, PTL
<1>12. BackSpec => MovesAllowedUnlessRaced
  BY BackRunsClaimsServer, MovesAreAllowedUnlessRaced, PTL
<1>13. BackSpec => LockStands
  BY BackRunsUserAccounts, LockAlwaysStands, PTL
<1>14. BackendProperties <=> /\ TransactionsMatch /\ OneInstance /\ StoresAgree
                             /\ ConflictsExplained /\ ResolvedIsStored /\ PassedEventsExplained
                             /\ PassedMessagesExplained /\ EffectsExplained /\ UnansweredExplained
                             /\ StaleCopyExplained /\ ApprovalToldTwice
  BY DEF BackendProperties
<1>. QED
  BY <1>1, <1>2, <1>3, <1>4, <1>5, <1>6, <1>7, <1>8, <1>9, <1>10, <1>11, <1>12, <1>13, <1>14, PTL
=============================================================================
