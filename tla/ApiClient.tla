------------------------------ MODULE ApiClient ------------------------------
(***************************************************************************)
(* One request through the browser's HTTP client: the interceptors that     *)
(* api.config.ts installs and the retries of api.utils.ts.                  *)
(*                                                                          *)
(* A request that answers 401 for the first time is followed by a refresh   *)
(* of the tokens and sent once more; one that answers a retryable status is *)
(* sent again outside the interceptors, after a delay, whatever the next    *)
(* failure is.  The refresh is a request of the same client, so its own 401 *)
(* makes another refresh.                                                   *)
(***************************************************************************)
EXTENDS Integers

CONSTANTS
  MaxRetryAttempts,   \* MAX_RETRY_ATTEMPTS
  MaxRefreshes        \* bound: refreshes that answer 401, one inside the other

ASSUME ApiClientAssumption == MaxRetryAttempts \in Nat \ {0} /\ MaxRefreshes \in Nat \ {0}

VARIABLES
  apTokens,    \* getAuthTokens: a refresh token is in the storage
  apAt,        \* where the request is
  apMarked,    \* originalRequest._retry
  apDepth,     \* refreshes under way
  apRetry,     \* retryCount
  apSends,     \* history: how often the request was put on the wire
  apActed      \* history: how often the server carried it out

apVars == <<apTokens, apAt, apMarked, apDepth, apRetry, apSends, apActed>>

\* Statuses of an answer, as the interceptors tell them apart; 0 is a network
\* error or a timeout, 429 asks for a delay of its own.
Retryable == {408, 429, 500, 502, 503, 504}
OtherErrors == {0, 400}

ApiClientInit ==
  /\ apTokens \in BOOLEAN
  /\ apAt = "new" /\ apMarked = FALSE /\ apDepth = 0 /\ apRetry = 0
  /\ apSends = 0 /\ apActed = 0

Put == apSends' = apSends + 1

\* The request interceptors: a payload too large, an open circuit or a duplicate
\* ends the request here.
Blocked ==
  /\ apAt = "new" /\ apAt' = "rejected"
  /\ UNCHANGED <<apTokens, apMarked, apDepth, apRetry, apSends, apActed>>

Send ==
  /\ apAt = "new" /\ apAt' = "sent" /\ Put
  /\ UNCHANGED <<apTokens, apMarked, apDepth, apRetry, apActed>>

\* The server carries the request out; its answer may still be lost.
Act ==
  /\ apAt \in {"sent", "resent"} /\ apActed < apSends /\ apActed' = apActed + 1
  /\ UNCHANGED <<apTokens, apAt, apMarked, apDepth, apRetry, apSends>>

Answered ==
  /\ apAt \in {"sent", "resent"} /\ apActed > 0 /\ apAt' = "resolved"
  /\ UNCHANGED <<apTokens, apMarked, apDepth, apRetry, apSends, apActed>>

\* 401: the request is marked; without a refresh token it falls through.
AnsweredUnauthorized ==
  /\ apAt = "sent"
  /\ apMarked' = TRUE
  /\ \/ ~apMarked /\ apTokens /\ apAt' = "refreshing" /\ apDepth' = 1
     \/ (apMarked \/ ~apTokens) /\ apAt' = "rejected" /\ UNCHANGED apDepth
  /\ UNCHANGED <<apTokens, apRetry, apSends, apActed>>

\* The refresh answered with an access token: every waiting refresh is answered,
\* and the request is sent again, marked.
RefreshAnswered ==
  /\ apAt = "refreshing"
  /\ apAt' = "sent" /\ apDepth' = 0 /\ Put
  /\ UNCHANGED <<apTokens, apMarked, apRetry, apActed>>

\* The refresh is itself answered 401: a refresh inside the refresh.
RefreshUnauthorized ==
  /\ apAt = "refreshing" /\ apTokens /\ apDepth < MaxRefreshes
  /\ apDepth' = apDepth + 1
  /\ UNCHANGED <<apTokens, apAt, apMarked, apRetry, apSends, apActed>>

RefreshFails ==
  /\ apAt = "refreshing" /\ apAt' = "rejected" /\ apDepth' = 0
  /\ UNCHANGED <<apTokens, apMarked, apRetry, apSends, apActed>>

\* Mutant: the mark is not looked at.
AnsweredErrorUnmarked(status) ==
  /\ apAt = "sent"
  /\ \/ status \in Retryable /\ apAt' = "delayed"
     \/ status \notin Retryable /\ apAt' = "rejected"
  /\ UNCHANGED <<apTokens, apMarked, apDepth, apRetry, apSends, apActed>>

\* Any other error answer of a request that went through the interceptors.
AnsweredError(status) ==
  /\ apAt = "sent"
  /\ \/ status \in Retryable /\ ~apMarked /\ apAt' = "delayed"
     \/ (status \notin Retryable \/ apMarked) /\ apAt' = "rejected"
  /\ UNCHANGED <<apTokens, apMarked, apDepth, apRetry, apSends, apActed>>

\* retryRequest: after its delay the bare client sends the request.
Resend ==
  /\ apAt = "delayed" /\ apRetry < MaxRetryAttempts
  /\ apAt' = "resent" /\ apRetry' = apRetry + 1 /\ Put
  /\ UNCHANGED <<apTokens, apMarked, apDepth, apActed>>

\* Any failure of a repeated request, retryable or not, is retried.
ResentFails ==
  /\ apAt = "resent" /\ apAt' = "delayed"
  /\ UNCHANGED <<apTokens, apMarked, apDepth, apRetry, apSends, apActed>>

GiveUp ==
  /\ apAt = "delayed" /\ apRetry = MaxRetryAttempts
  /\ apAt' = "rejected"
  /\ UNCHANGED <<apTokens, apMarked, apDepth, apRetry, apSends, apActed>>

\* A logout, or a login, between two awaits.
TokensChange ==
  /\ apTokens' = ~apTokens
  /\ UNCHANGED <<apAt, apMarked, apDepth, apRetry, apSends, apActed>>

ApiClientNext ==
  \/ Blocked \/ Send \/ Act \/ Answered \/ AnsweredUnauthorized
  \/ RefreshAnswered \/ RefreshUnauthorized \/ RefreshFails
  \/ \E status \in Retryable \cup OtherErrors : AnsweredError(status)
  \/ Resend \/ ResentFails \/ GiveUp \/ TokensChange

ApiClientSpec == ApiClientInit /\ [][ApiClientNext]_apVars

-----------------------------------------------------------------------------
\* The state of the request is of its types.
ApiClientTypeOK ==
  /\ apTokens \in BOOLEAN /\ apMarked \in BOOLEAN
  /\ apAt \in {"new", "sent", "refreshing", "delayed", "resent", "resolved", "rejected"}
  /\ apDepth \in 0..MaxRefreshes /\ apRetry \in 0..MaxRetryAttempts
  /\ apSends \in Nat /\ apActed \in 0..apSends

\* A request is repeated in one way only (api.utils.ts:109, :131): once after a
\* refresh, or up to MAX_RETRY_ATTEMPTS times after retryable failures, never
\* both, so the server carries it out at most 1 + MAX_RETRY_ATTEMPTS times.
OneWayToRepeat ==
  /\ apMarked => apSends <= 2 /\ apRetry = 0
  /\ apActed <= 1 + MaxRetryAttempts
=============================================================================
