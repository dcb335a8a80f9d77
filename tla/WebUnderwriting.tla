--------------------------- MODULE WebUnderwriting ---------------------------
(***************************************************************************)
(* What one browser knows of the risk assessment of one policy: the caches  *)
(* of underwriting.service.ts and underwriting.actions.ts, the slice with    *)
(* its list of pending operations (its own cache is never read), and the    *)
(* shared stream of the queue.                                              *)
(*                                                                          *)
(* Of an assessment only its version is kept: the server makes a new one    *)
(* for every submission and every decision.  The lifecycle actions that the *)
(* reducer names are the ones that the thunks dispatch.  The client's       *)
(* breaker is handed a request that is already sent, so an attempt that it  *)
(* refuses, or gives up after thirty seconds, may still be acted on.        *)
(***************************************************************************)
EXTENDS Integers

CONSTANTS
  UwCalls,         \* concurrent thunks
  MaxUwRetries,    \* retries of a thunk (3 for a fetch, 2 for the others)
  MaxVersions      \* bound: new versions of the assessment

ASSUME WebUnderwritingAssumption == MaxUwRetries \in Nat /\ MaxVersions \in Nat

VARIABLES
  wuVersion,    \* the server's assessment
  wuCaches,     \* the assessment in each cache, or -1
  wuShown,      \* riskAssessment of the slice
  wuPending,    \* pendingOperations
  wuLoading,    \* loading
  wuCalls,      \* the thunks under way
  wuLate,       \* requests given up that the server may still act on
  wuStream,     \* the shared stream of the queue, made with the filter of one caller
  wuWhy         \* history: what left an old assessment, or a pending operation

wuSlice == <<wuShown, wuPending, wuLoading>>
wuVars == <<wuVersion, wuCaches, wuSlice, wuCalls, wuLate, wuStream, wuWhy>>

Versions == 0..MaxVersions
UwOps == {"fetch", "submit", "decision", "queue"}
UwCaches == {"service", "thunk"}
UwCall == [op : UwOps \cup {"none"}, at : {"idle", "sent", "served", "reading", "read", "backoff"},
           saw : {-1} \cup Versions, tried : 0..MaxUwRetries]
NoUwCall == [op |-> "none", at |-> "idle", saw |-> -1, tried |-> 0]

WebUnderwritingInit ==
  /\ wuVersion = 0 /\ wuCaches = [k \in UwCaches |-> -1]
  /\ wuShown = -1 /\ wuPending = {} /\ wuLoading = FALSE
  /\ wuCalls = [c \in UwCalls |-> NoUwCall] /\ wuLate = {}
  /\ wuStream = FALSE /\ wuWhy = {}

Is(c, op, at) == wuCalls[c].op = op /\ wuCalls[c].at = at
UwPut(c, op, at) == wuCalls' = [wuCalls EXCEPT ![c] = [NoUwCall EXCEPT !.op = op, !.at = at]]
Turn(c, at) == wuCalls' = [wuCalls EXCEPT ![c].at = at]
Quit(c) == wuCalls' = [wuCalls EXCEPT ![c] = NoUwCall]
Why(reasons) == wuWhy' = wuWhy \cup reasons

\* The cases of the reducer: pending, fulfilled, rejected.  Every operation of the
\* name leaves the list, however many are under way; a rejected fetch leaves it
\* too, the other rejected ones do not.
Pending(ops) == wuPending' = wuPending \cup ops /\ wuLoading' = TRUE
Fulfilled(op) == wuPending' = wuPending \ {op} /\ wuLoading' = FALSE
UwRejected(op) ==
  /\ wuPending' = (IF op = "fetch" THEN wuPending \ {op} ELSE wuPending)
  /\ wuLoading' = FALSE

-----------------------------------------------------------------------------
\* getRiskAssessmentWithFormatting, found in a cache: the version, and the caches after.
Found(c, v) ==
  /\ wuCaches' = [wuCaches EXCEPT !["thunk"] = v]
  /\ wuShown' = v /\ Fulfilled("fetch") /\ Quit(c)

UwCached == IF wuCaches["thunk"] # -1 THEN wuCaches["thunk"] ELSE wuCaches["service"]

FetchRiskAssessment(c) ==
  /\ wuCalls[c].at = "idle"
  /\ IF UwCached # -1
     THEN Found(c, UwCached)
     ELSE UwPut(c, "fetch", "sent") /\ Pending({"fetch"}) /\ UNCHANGED <<wuCaches, wuShown>>
  /\ UNCHANGED <<wuVersion, wuLate, wuStream, wuWhy>>

FetchAnswered(c) ==
  /\ Is(c, "fetch", "served")
  /\ LET v == wuCalls[c].saw
     IN /\ wuCaches' = [k \in UwCaches |-> v]
        /\ wuShown' = v /\ Fulfilled("fetch") /\ Quit(c)
        /\ Why(IF v < wuVersion THEN {"crossed"} ELSE {})
  /\ UNCHANGED <<wuVersion, wuLate, wuStream>>

\* submitUnderwritingRequest: it starts an update of the queue, too, that it never ends.
SubmitUnderwritingRequest(c) ==
  /\ wuCalls[c].at = "idle"
  /\ UwPut(c, "submit", "sent") /\ Pending({"submit", "queue"}) /\ Why({"submission"})
  /\ UNCHANGED <<wuVersion, wuCaches, wuShown, wuLate, wuStream>>

EndSubmission(c, v) ==
  /\ wuStream' = FALSE
  /\ wuShown' = v /\ Fulfilled("submit") /\ Quit(c)
  /\ Why({"submission"})

\* The answer to the submission is dropped: the assessment is asked for again, and
\* may be the one that was cached before.
SubmissionAnswered(c) ==
  /\ Is(c, "submit", "served")
  /\ LET v == wuCaches["service"]
     IN IF v # -1
        THEN EndSubmission(c, v) /\ wuCaches' = [wuCaches EXCEPT !["thunk"] = v]
        ELSE Turn(c, "reading") /\ UNCHANGED <<wuStream, wuSlice, wuWhy, wuCaches>>
  /\ UNCHANGED <<wuVersion, wuLate>>

\* The assessment that was read again.
AssessmentRead(c) ==
  /\ Is(c, "submit", "read")
  /\ LET v == wuCalls[c].saw
     IN EndSubmission(c, v) /\ wuCaches' = [k \in UwCaches |-> v]
  /\ UNCHANGED <<wuVersion, wuLate>>

\* processUnderwritingDecision.
ProcessUnderwritingDecision(c) ==
  /\ wuCalls[c].at = "idle"
  /\ UwPut(c, "decision", "sent") /\ Pending({"decision"})
  /\ UNCHANGED <<wuVersion, wuCaches, wuShown, wuLate, wuStream, wuWhy>>

\* Mutant: the service keeps its entry.
DecisionAnsweredKeeping(c) ==
  /\ Is(c, "decision", "served") /\ Quit(c)
  /\ wuCaches' = [wuCaches EXCEPT !["thunk"] = -1]
  /\ wuStream' = FALSE /\ Fulfilled("decision")
  /\ UNCHANGED <<wuVersion, wuShown, wuLate, wuWhy>>

\* Both caches forget the assessment; what is shown stays.
DecisionAnswered(c) ==
  /\ Is(c, "decision", "served") /\ Quit(c)
  /\ wuCaches' = [k \in UwCaches |-> -1]
  /\ wuStream' = FALSE /\ Fulfilled("decision")
  /\ UNCHANGED <<wuVersion, wuShown, wuLate, wuWhy>>

-----------------------------------------------------------------------------
\* updateUnderwritingQueue: a stream that exists is shared, whatever its filter;
\* each call starts one more timer that drops the stream every thirty seconds.
UpdateUnderwritingQueue(c) ==
  /\ wuCalls[c].at = "idle"
  /\ wuStream' = TRUE
  /\ UwPut(c, "queue", "sent") /\ Pending({"queue"})
  /\ UNCHANGED <<wuVersion, wuCaches, wuShown, wuLate, wuWhy>>

QueueAnswered(c) ==
  /\ Is(c, "queue", "served") /\ Quit(c) /\ Fulfilled("queue")
  /\ UNCHANGED <<wuVersion, wuCaches, wuShown, wuLate, wuStream, wuWhy>>

InvalidateQueueCache ==
  /\ wuStream /\ wuStream' = FALSE
  /\ UNCHANGED <<wuVersion, wuCaches, wuSlice, wuCalls, wuLate, wuWhy>>

-----------------------------------------------------------------------------
\* What an attempt that changes the server leaves when it fails.
Changes(c) == wuCalls[c].op \in {"submit", "decision"} /\ wuCalls[c].at \in {"sent", "served"}
Abandons(c) == wuLate' = IF Changes(c) /\ wuCalls[c].at = "sent" THEN wuLate \cup {wuCalls[c].op} ELSE wuLate
Fails(c) == wuCalls[c].at \in {"sent", "served", "reading", "read"} /\ Abandons(c)

\* The whole attempt is repeated, the submission with a new idempotency key.
AttemptFails(c) ==
  /\ Fails(c) /\ wuCalls[c].op # "queue" /\ wuCalls[c].tried < MaxUwRetries
  /\ Turn(c, "backoff") /\ Why(IF Changes(c) THEN {"gave up"} ELSE {})
  /\ UNCHANGED <<wuVersion, wuCaches, wuSlice, wuStream>>

Retries(c) ==
  /\ wuCalls[c].at = "backoff"
  /\ wuCalls' = [wuCalls EXCEPT ![c].at = "sent", ![c].tried = @ + 1, ![c].saw = -1]
  /\ UNCHANGED <<wuVersion, wuCaches, wuSlice, wuLate, wuStream, wuWhy>>

ThunkFails(c) ==
  /\ Fails(c) /\ (wuCalls[c].op = "queue" \/ wuCalls[c].tried = MaxUwRetries)
  /\ Quit(c) /\ UwRejected(wuCalls[c].op)
  /\ Why({"rejected"} \cup IF Changes(c) THEN {"gave up"} ELSE {})
  /\ UNCHANGED <<wuVersion, wuCaches, wuShown, wuStream>>

-----------------------------------------------------------------------------
(* The server, and time                                                    *)

NextVersion(op) ==
  wuVersion' = IF op \in {"submit", "decision"} THEN wuVersion + 1 ELSE wuVersion

UwServe(c) ==
  /\ wuCalls[c].at \in {"sent", "reading"}
  /\ NextVersion(IF wuCalls[c].at = "sent" THEN wuCalls[c].op ELSE "fetch") /\ wuVersion' \in Versions
  /\ wuCalls' = [wuCalls EXCEPT ![c].at = IF @ = "sent" THEN "served" ELSE "read", ![c].saw = wuVersion']
  /\ UNCHANGED <<wuCaches, wuSlice, wuLate, wuStream, wuWhy>>

ServeLate ==
  \E op \in wuLate :
    /\ NextVersion(op) /\ wuVersion' \in Versions /\ wuLate' = wuLate \ {op}
    /\ UNCHANGED <<wuCaches, wuSlice, wuCalls, wuStream, wuWhy>>

CacheExpires ==
  \E k \in UwCaches :
    /\ wuCaches[k] # -1 /\ wuCaches' = [wuCaches EXCEPT ![k] = -1]
    /\ UNCHANGED <<wuVersion, wuSlice, wuCalls, wuLate, wuStream, wuWhy>>

WebUnderwritingNext ==
  \/ InvalidateQueueCache \/ ServeLate \/ CacheExpires
  \/ \E c \in UwCalls :
       \/ FetchRiskAssessment(c) \/ FetchAnswered(c)
       \/ SubmitUnderwritingRequest(c) \/ SubmissionAnswered(c) \/ AssessmentRead(c)
       \/ ProcessUnderwritingDecision(c) \/ DecisionAnswered(c)
       \/ UpdateUnderwritingQueue(c) \/ QueueAnswered(c) \/ AttemptFails(c) \/ Retries(c) \/ ThunkFails(c) \/ UwServe(c)

WebUnderwritingSpec == WebUnderwritingInit /\ [][WebUnderwritingNext]_wuVars

-----------------------------------------------------------------------------
\* The caches, the slice and the thunks are of their types.
WebUnderwritingTypeOK ==
  /\ wuVersion \in Versions /\ wuShown \in {-1} \cup Versions
  /\ wuCaches \in [UwCaches -> {-1} \cup Versions]
  /\ wuPending \subseteq UwOps /\ wuLoading \in BOOLEAN
  /\ wuCalls \in [UwCalls -> UwCall] /\ wuLate \subseteq UwOps
  /\ wuStream \in BOOLEAN
  /\ wuWhy \subseteq {"crossed", "submission", "gave up", "rejected"}

\* A cache holds an assessment of before a decision only while the answer to the
\* decision is awaited, or if an answer crossed it, an attempt was given up, or a
\* submission was answered from the cache (underwriting.service.ts:99, :128).  And
\* an operation is listed as pending only while one of its name is under way, or
\* if one was rejected or a submission listed the queue's
\* (underwriting.reducer.ts:153, underwriting.actions.ts:148).
UnderwritingExplained ==
  LET under(op) == \E c \in UwCalls : wuCalls[c].op = op
  IN /\ (\E k \in UwCaches : wuCaches[k] \in 0..(wuVersion - 1)) =>
          under("decision") \/ wuWhy \cap {"crossed", "submission", "gave up"} # {}
     /\ \A op \in wuPending :
          under(op) \/ "rejected" \in wuWhy \/ (op = "queue" /\ "submission" \in wuWhy)
=============================================================================
