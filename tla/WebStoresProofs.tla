--------------------------- MODULE WebStoresProofs ----------------------------
(***************************************************************************)
(* What the stores of the browser client keep: the HTTP client, the        *)
(* session, the policies', the claims' and the underwriting store.         *)
(***************************************************************************)
EXTENDS ApiClient, WebSession, PolicyStore, ClaimsStore, WebUnderwriting, TLAPS

-----------------------------------------------------------------------------
(* The HTTP client                                                         *)

\* How often the request was sent, at each place it can be.
SendsCounted ==
  /\ apAt = "new" => ~apMarked /\ apSends = 0 /\ apRetry = 0
  /\ apAt = "sent" => apRetry = 0 /\ (~apMarked => apSends = 1) /\ (apMarked => apSends = 2)
  /\ apAt = "refreshing" => apMarked /\ apSends = 1 /\ apRetry = 0
  /\ apAt \in {"delayed", "resent"} => ~apMarked /\ apSends = 1 + apRetry

\* The two ways to repeat a request exclude each other.
WaysApart ==
  /\ apMarked => apSends <= 2 /\ apRetry = 0
  /\ ~apMarked => apSends <= 1 + apRetry

ApiClientInv ==
  /\ ApiClientTypeOK
  /\ SendsCounted
  /\ WaysApart

-----------------------------------------------------------------------------
\* The request is carried out at most as often as it is sent, and it is sent at most
\* once more than it is retried, or twice.
LEMMA OneWay == ApiClientInv => OneWayToRepeat
<1>. SUFFICES ASSUME ApiClientInv PROVE OneWayToRepeat
  OBVIOUS
<1>1. apActed <= apSends /\ apSends \in Nat /\ apActed \in Nat /\ apRetry \in 0..MaxRetryAttempts
  BY DEF ApiClientInv, ApiClientTypeOK
<1>2. apSends <= 1 + MaxRetryAttempts
  BY <1>1, ApiClientAssumption DEF ApiClientInv, WaysApart, ApiClientTypeOK
<1>. QED
  BY <1>1, <1>2, ApiClientAssumption DEF OneWayToRepeat, ApiClientInv, WaysApart

\* The initial state satisfies the invariant.
LEMMA ApiClientInitInv == ApiClientInit => ApiClientInv
<1>. SUFFICES ASSUME ApiClientInit PROVE ApiClientInv
  OBVIOUS
<1>1. 0 \in 0..MaxRefreshes /\ 0 \in 0..MaxRetryAttempts
  BY ApiClientAssumption
<1>2. ApiClientTypeOK
  <2>1. apTokens \in BOOLEAN /\ apMarked \in BOOLEAN
    BY Zenon DEF ApiClientInit
  <2>2. apSends \in Nat /\ apActed \in 0..apSends
    BY DEF ApiClientInit
  <2>3. apDepth \in 0..MaxRefreshes /\ apRetry \in 0..MaxRetryAttempts /\ apAt = "new"
    BY <1>1 DEF ApiClientInit
  <2>. QED
    BY <2>1, <2>2, <2>3 DEF ApiClientTypeOK
<1>3. SendsCounted /\ WaysApart
  BY DEF ApiClientInit, SendsCounted, WaysApart
<1>. QED
  BY <1>2, <1>3 DEF ApiClientInv

\* The request, its answer, and what leaves the request where it is.
LEMMA RequestSteps ==
  ASSUME ApiClientInv, \/ Blocked \/ Send \/ Act \/ Answered \/ TokensChange \/ UNCHANGED apVars
  PROVE  ApiClientInv'
<1>. USE ApiClientAssumption DEF ApiClientInv, ApiClientTypeOK, SendsCounted, WaysApart
<1>1. CASE Blocked           BY <1>1 DEF Blocked
<1>2. CASE Send              BY <1>2 DEF Send, Put
<1>3. CASE Act               BY <1>3 DEF Act
<1>4. CASE Answered          BY <1>4 DEF Answered
<1>5. CASE TokensChange      BY <1>5 DEF TokensChange
<1>6. CASE UNCHANGED apVars  BY <1>6 DEF apVars
<1>. QED
  BY <1>1, <1>2, <1>3, <1>4, <1>5, <1>6

\* A 401, the refresh it starts and the refreshes inside it.
LEMMA RefreshSteps ==
  ASSUME ApiClientInv, \/ AnsweredUnauthorized \/ RefreshAnswered \/ RefreshUnauthorized
               \/ RefreshFails
  PROVE  ApiClientInv'
<1>. USE ApiClientAssumption DEF ApiClientInv, ApiClientTypeOK, SendsCounted, WaysApart
<1>1. CASE AnsweredUnauthorized  BY <1>1 DEF AnsweredUnauthorized
<1>2. CASE RefreshAnswered       BY <1>2 DEF RefreshAnswered, Put
<1>3. CASE RefreshUnauthorized   BY <1>3 DEF RefreshUnauthorized
<1>4. CASE RefreshFails          BY <1>4 DEF RefreshFails
<1>. QED
  BY <1>1, <1>2, <1>3, <1>4

\* Any other error, and the retries after it.
LEMMA RetrySteps ==
  ASSUME ApiClientInv, \/ \E status \in Retryable \cup OtherErrors : AnsweredError(status)
               \/ Resend \/ ResentFails \/ GiveUp
  PROVE  ApiClientInv'
<1>. USE ApiClientAssumption DEF ApiClientInv, ApiClientTypeOK, SendsCounted, WaysApart
<1>1. CASE \E status \in Retryable \cup OtherErrors : AnsweredError(status)
  <2>1. /\ apAt = "sent"
        /\ apAt' = "rejected" \/ (apAt' = "delayed" /\ ~apMarked)
        /\ UNCHANGED <<apTokens, apMarked, apDepth, apRetry, apSends, apActed>>
    BY <1>1 DEF AnsweredError
  <2>. QED
    BY <2>1
<1>2. CASE Resend       BY <1>2 DEF Resend, Put
<1>3. CASE ResentFails  BY <1>3 DEF ResentFails
<1>4. CASE GiveUp       BY <1>4 DEF GiveUp
<1>. QED
  BY <1>1, <1>2, <1>3, <1>4

\* Every step preserves the invariant.
LEMMA ApiClientNextInv == ApiClientInv /\ [ApiClientNext]_apVars => ApiClientInv'
BY RequestSteps, RefreshSteps, RetrySteps DEF ApiClientNext

-----------------------------------------------------------------------------
\* The state of the request keeps its types.
THEOREM ApiClientTyped == ApiClientSpec => []ApiClientTypeOK
<1>1. ApiClientInv => ApiClientTypeOK
  BY DEF ApiClientInv
<1>. QED
  BY ApiClientInitInv, ApiClientNextInv, <1>1, PTL DEF ApiClientSpec

\* Whatever answers come, and however many refreshes are refused: a request is repeated
\* after a refresh or after retryable failures, never both, and the server carries it
\* out at most once more than MAX_RETRY_ATTEMPTS (api.utils.ts:109, :131).
THEOREM AlwaysOneWayToRepeat == ApiClientSpec => []OneWayToRepeat
BY ApiClientInitInv, ApiClientNextInv, OneWay, PTL DEF ApiClientSpec

-----------------------------------------------------------------------------
(* The session                                                             *)

\* After a logout, whatever can bring tokens back has come from the storage or has
\* crossed that logout; and a session that is signed in holds its tokens.
LogoutCrossed ==
  wsLast = "out" /\ (wsTokens.held \/ wsTokens.stored \/ UnderWay("refresh"))
    => wsWhy \cap {"restored", "crossed"} # {}

SignedInHolds == wsLast = "in" => wsTokens.held

WillBeRenewed ==
  wsTokens.held =>
    wsTimer \/ UnderWay("refresh") \/ UnderWay("logout") \/ "logout failed" \in wsWhy

WebSessionInv == WebSessionTypeOK /\ LogoutCrossed /\ SignedInHolds /\ WillBeRenewed

Tokens == [held : BOOLEAN, stored : BOOLEAN, user : BOOLEAN]

LEMMA WebSessionInitInv == WebSessionInit => WebSessionInv
<1>. SUFFICES ASSUME WebSessionInit PROVE WebSessionInv
  OBVIOUS
<1>1. wsReady \in BOOLEAN /\ wsTimer \in BOOLEAN /\ wsLockedOut \in BOOLEAN
  BY Zenon DEF WebSessionInit
<1>2. wsTokens \in Tokens /\ wsTokens.held = FALSE
  BY DEF WebSessionInit, Tokens
<1>3. WebSessionTypeOK
  BY <1>1, <1>2 DEF WebSessionInit, WebSessionTypeOK, AuthStatuses, SessionRequests, MAX_ATTEMPTS, Tokens
<1>. QED
  BY <1>2, <1>3 DEF WebSessionInit, WebSessionInv, LogoutCrossed, SignedInHolds, WillBeRenewed

-----------------------------------------------------------------------------
\* One slot changes its request: every other request stays under way, and only the
\* new one can have begun.
LEMMA SlotChanges ==
  ASSUME WebSessionTypeOK, NEW c \in SessionCalls, NEW op \in SessionRequests,
         wsCalls' = [wsCalls EXCEPT ![c] = op]
  PROVE  /\ wsCalls' \in [SessionCalls -> SessionRequests]
         /\ \A o \in SessionRequests :
              /\ UnderWay(o) /\ wsCalls[c] # o => UnderWay(o)'
              /\ UnderWay(o)' => UnderWay(o) \/ o = op
         /\ UnderWay(op)'
<1>1. wsCalls' \in [SessionCalls -> SessionRequests] /\ wsCalls'[c] = op
      /\ \A d \in SessionCalls \ {c} : wsCalls'[d] = wsCalls[d]
  BY DEF WebSessionTypeOK
<1>. QED
  BY <1>1 DEF UnderWay

\* What the service's part of the invariant needs of a step that leaves the service
\* and its history alone and gives a slot a request that is not the refresh.
LEMMA ServiceFrame ==
  ASSUME WebSessionInv, NEW c \in SessionCalls, NEW op \in SessionRequests,
         wsCalls' = [wsCalls EXCEPT ![c] = op],
         wsCalls[c] \notin {"refresh", "logout"}, op # "refresh",
         UNCHANGED <<wsTokens, wsTimer, wsHistory>>
  PROVE  LogoutCrossed' /\ SignedInHolds' /\ WillBeRenewed'
<1>1. /\ UnderWay("refresh")' => UnderWay("refresh")
      /\ UnderWay("refresh") => UnderWay("refresh")'
      /\ UnderWay("logout") => UnderWay("logout")'
  BY SlotChanges DEF WebSessionInv, SessionRequests
<1>. QED
  BY <1>1 DEF WebSessionInv, LogoutCrossed, SignedInHolds, WillBeRenewed, wsHistory

\* A thunk that ended leaves the slice with one of the statuses it may set.
LEMMA SliceOfType ==
  ASSUME NEW statuses \in SUBSET AuthStatuses, SliceEnded(statuses)
  PROVE  wsSlice' \in [status : AuthStatuses, loading : BOOLEAN]
BY DEF SliceEnded

LEMMA MfaOfType ==
  ASSUME NEW attempts \in 0..MAX_ATTEMPTS, NEW blocked \in BOOLEAN,
         wsMfa' = [attempts |-> attempts, blocked |-> blocked]
  PROVE  wsMfa' \in [attempts : 0..MAX_ATTEMPTS, blocked : BOOLEAN]
OBVIOUS

\* The code entry, the lock, the views and the storage.
LEMMA ViewsOfSession ==
  ASSUME WebSessionInv, InitializeService \/ StoredTokensExpire \/ LockedOut \/ UnblockMFA
  PROVE  WebSessionInv'
<1>. USE DEF WebSessionInv, wsHistory, wsShown, wsService
<1>0. ASSUME UNCHANGED wsCalls PROVE \A o \in SessionRequests : UnderWay(o)' <=> UnderWay(o)
  BY <1>0 DEF UnderWay
<1>1. CASE InitializeService
  <2>1. wsTokens' \in Tokens /\ (wsTokens'.held => wsTokens.stored \/ wsTokens.held)
        /\ (wsTokens.held => wsTokens'.held) /\ wsTokens'.stored = wsTokens.stored
    BY <1>1 DEF InitializeService, WebSessionTypeOK, Tokens
  <2>2. wsReady' \in BOOLEAN /\ wsTimer' \in BOOLEAN
        /\ (wsTimer' \/ (~wsTimer /\ (wsTokens'.held => wsTokens.held)))
    BY <1>1 DEF InitializeService, SetupTokenRefresh, WebSessionTypeOK
  <2>4. LogoutCrossed' /\ SignedInHolds'
    BY <1>0, <1>1, <2>1 DEF InitializeService, LogoutCrossed, SignedInHolds, SessionRequests
  <2>5. WillBeRenewed'
    BY <1>0, <1>1, <2>2 DEF InitializeService, WillBeRenewed, SessionRequests
  <2>3. WebSessionTypeOK'
    BY <1>1, <2>1, <2>2 DEF InitializeService, WebSessionTypeOK, Tokens
  <2>. QED
    BY <2>3, <2>4, <2>5
<1>2. CASE StoredTokensExpire
  <2>1. wsTokens' \in Tokens /\ wsTokens'.held = wsTokens.held /\ ~wsTokens'.stored
    BY <1>2 DEF StoredTokensExpire, WebSessionTypeOK, Tokens
  <2>2. WebSessionTypeOK'
    BY <1>2, <2>1 DEF StoredTokensExpire, WebSessionTypeOK, Tokens
  <2>. QED
    BY <1>0, <1>2, <2>1, <2>2
       DEF StoredTokensExpire, LogoutCrossed, SignedInHolds, WillBeRenewed, SessionRequests
<1>3. CASE LockedOut
  <2>1. WebSessionTypeOK'
    <3>1. wsSlice' \in [status : AuthStatuses, loading : BOOLEAN]
      BY <1>3, SliceOfType DEF LockedOut, AuthStatuses
    <3>. QED
      BY <1>3, <3>1 DEF LockedOut, WebSessionTypeOK
  <2>. QED
    BY <1>0, <1>3, <2>1 DEF LockedOut, LogoutCrossed, SignedInHolds, WillBeRenewed, SessionRequests
<1>4. CASE UnblockMFA
  <2>1. WebSessionTypeOK'
    <3>1. wsMfa' \in [attempts : 0..MAX_ATTEMPTS, blocked : BOOLEAN]
      BY <1>4, MfaOfType DEF UnblockMFA, MAX_ATTEMPTS
    <3>. QED
      BY <1>4, <3>1 DEF UnblockMFA, WebSessionTypeOK
  <2>. QED
    BY <1>0, <1>4, <2>1 DEF UnblockMFA, LogoutCrossed, SignedInHolds, WillBeRenewed, SessionRequests
<1>. QED
  BY <1>1, <1>2, <1>3, <1>4

\* Requests of the login and of the code entry that do not open a session.
LEMMA EntrySteps ==
  ASSUME WebSessionInv, NEW c \in SessionCalls,
         AuthenticateUser(c) \/ VerifyMFA(c) \/ LoginRefused(c) \/ MFARequired(c) \/ MFARefused(c)
  PROVE  WebSessionInv'
<1>. USE DEF wsHistory, wsShown, wsService
<1>1. CASE AuthenticateUser(c) \/ VerifyMFA(c)
  <2>1. PICK op \in {"login", "mfa"} : Sends(c, op) /\ SlicePending /\ UNCHANGED <<wsService, wsHook, wsMfa, wsHistory>>
    BY <1>1 DEF AuthenticateUser, VerifyMFA
  <2>2. wsCalls' \in [SessionCalls -> SessionRequests]
    BY <2>1, SlotChanges DEF Sends, SessionRequests, WebSessionInv
  <2>3. wsSlice' \in [status : AuthStatuses, loading : BOOLEAN]
    BY <2>1 DEF SlicePending, WebSessionInv, WebSessionTypeOK
  <2>4. WebSessionTypeOK'
    BY <2>1, <2>2, <2>3 DEF WebSessionInv, WebSessionTypeOK
  <2>. QED
    BY <2>1, <2>4, ServiceFrame DEF Sends, SessionRequests, WebSessionInv
<1>2. CASE LoginRefused(c) \/ MFARequired(c) \/ MFARefused(c)
  <2>1. /\ wsCalls[c] \in {"login", "mfa"} /\ wsCalls' = [wsCalls EXCEPT ![c] = "none"]
        /\ UNCHANGED <<wsReady, wsTokens, wsTimer, wsHistory>>
    BY <1>2 DEF LoginRefused, MFARequired, MFARefused, Ended
  <2>2. wsCalls' \in [SessionCalls -> SessionRequests]
    BY <2>1, SlotChanges DEF SessionRequests, WebSessionInv
  <2>3. wsSlice' \in [status : AuthStatuses, loading : BOOLEAN]
    <3>1. \E statuses \in SUBSET AuthStatuses : SliceEnded(statuses)
      <4>1. wsSlice.status \in AuthStatuses
        BY DEF WebSessionInv, WebSessionTypeOK
      <4>2. /\ {"unauthenticated"} \in SUBSET AuthStatuses /\ {wsSlice.status} \in SUBSET AuthStatuses
            /\ {"mfa_required", "unauthenticated"} \in SUBSET AuthStatuses
        BY <4>1 DEF AuthStatuses
      <4>. QED
        BY <1>2, <4>2 DEF LoginRefused, MFARequired, MFARefused
    <3>. QED
      BY <3>1, SliceOfType
  <2>4. wsHook' \in AuthStatuses /\ wsLockedOut' \in BOOLEAN
    BY <1>2 DEF LoginRefused, MFARequired, MFARefused, WebSessionInv, WebSessionTypeOK, AuthStatuses
  <2>5. wsMfa' \in [attempts : 0..MAX_ATTEMPTS, blocked : BOOLEAN]
    <3>1. CASE MFARefused(c)
      <4>. DEFINE attempts == IF wsMfa.attempts < MAX_ATTEMPTS THEN wsMfa.attempts + 1 ELSE MAX_ATTEMPTS
      <4>1. attempts \in 0..MAX_ATTEMPTS
        <5>1. wsMfa.attempts \in 0..3
          BY DEF WebSessionInv, WebSessionTypeOK, MAX_ATTEMPTS
        <5>. QED
          BY <5>1 DEF MAX_ATTEMPTS
      <4>2. wsMfa' = [attempts |-> attempts, blocked |-> attempts = MAX_ATTEMPTS]
        BY <3>1 DEF MFARefused
      <4>. HIDE DEF attempts
      <4>. QED
        BY <4>1, <4>2, MfaOfType
    <3>2. CASE LoginRefused(c) \/ MFARequired(c)
      BY <3>2 DEF LoginRefused, MFARequired, WebSessionInv, WebSessionTypeOK
    <3>. QED
      BY <1>2, <3>1, <3>2
  <2>6. WebSessionTypeOK'
    BY <2>1, <2>2, <2>3, <2>4, <2>5 DEF WebSessionInv, WebSessionTypeOK
  <2>. QED
    BY <2>1, <2>6, ServiceFrame DEF SessionRequests, WebSessionInv
<1>. QED
  BY <1>1, <1>2

\* A session is opened: by a login, or by its second step.
LEMMA SignedInStep ==
  ASSUME WebSessionInv, NEW c \in SessionCalls, LoginAnswered(c) \/ MFAAnswered(c)
  PROVE  WebSessionInv'
<1>1. PICK op \in {"login", "mfa"} : SignedIn(c, op)
  BY DEF LoginAnswered, MFAAnswered
<1>2. wsCalls' \in [SessionCalls -> SessionRequests]
  BY <1>1, SlotChanges DEF SignedIn, Ended, SessionRequests, WebSessionInv
<1>3. wsTokens' \in Tokens /\ wsTokens'.held /\ wsTimer'
  BY <1>1 DEF SignedIn, SetTokens, SetupTokenRefresh, Tokens
<1>4. wsSlice' \in [status : AuthStatuses, loading : BOOLEAN] /\ wsHook' \in AuthStatuses
  <2>1. wsSlice.status \in AuthStatuses /\ wsHook' \in AuthStatuses
    BY <1>1 DEF SignedIn, WebSessionInv, WebSessionTypeOK, AuthStatuses
  <2>2. {"authenticated", IF op = "login" THEN "unauthenticated" ELSE wsSlice.status} \in SUBSET AuthStatuses
    BY <2>1 DEF AuthStatuses
  <2>. QED
    BY <1>1, <2>1, <2>2, SliceOfType DEF SignedIn
<1>5. wsTimer' \in BOOLEAN
  BY <1>1, Zenon DEF SignedIn, SetTokens, SetupTokenRefresh
<1>6. WebSessionTypeOK'
  BY <1>1, <1>2, <1>3, <1>4, <1>5 DEF SignedIn, WebSessionInv, WebSessionTypeOK, Tokens
<1>. QED
  BY <1>1, <1>3, <1>6 DEF SignedIn, WebSessionInv, LogoutCrossed, SignedInHolds, WillBeRenewed

\* What a logout clears leaves no tokens.
LEMMA ClearedTokens ==
  ASSUME Clears
  PROVE  /\ wsTokens' \in Tokens /\ wsTokens'.held = FALSE /\ wsTokens'.stored = FALSE
         /\ wsTimer' \in BOOLEAN /\ wsLast' = "out"
<1>1. wsTimer' \in BOOLEAN
  BY Zenon DEF Clears
<1>. QED
  BY <1>1 DEF Clears, Tokens

LEMMA LogoutSteps ==
  ASSUME WebSessionInv, NEW c \in SessionCalls,
         Logout(c) \/ LogoutAnswered(c) \/ LogoutFails(c)
  PROVE  WebSessionInv'
<1>. USE DEF wsHistory, wsShown, wsService
<1>1. CASE Logout(c) /\ wsTokens.held
  <2>1. wsCalls[c] = "none" /\ wsCalls' = [wsCalls EXCEPT ![c] = "logout"]
        /\ UNCHANGED <<wsReady, wsLockedOut, wsShown, wsTokens, wsTimer, wsHistory>>
    BY <1>1 DEF Logout, HandleLogout, Sends
  <2>2. wsCalls' \in [SessionCalls -> SessionRequests]
    BY <2>1, SlotChanges DEF SessionRequests, WebSessionInv
  <2>3. WebSessionTypeOK'
    BY <2>1, <2>2 DEF WebSessionInv, WebSessionTypeOK
  <2>. QED
    BY <2>1, <2>3, ServiceFrame DEF SessionRequests, WebSessionInv
<1>2. CASE Logout(c) /\ ~wsTokens.held
  <2>1. Clears /\ UNCHANGED <<wsReady, wsLockedOut, wsShown, wsCalls, wsWhy>>
    BY <1>2 DEF Logout, HandleLogout
  <2>2. wsLast = "out"
    BY <1>2 DEF WebSessionInv, SignedInHolds, WebSessionTypeOK
  <2>3. WebSessionTypeOK'
    BY <2>1, ClearedTokens DEF WebSessionInv, WebSessionTypeOK, Tokens
  <2>. QED
    BY <2>1, <2>2, <2>3, ClearedTokens
       DEF WebSessionInv, LogoutCrossed, SignedInHolds, WillBeRenewed, UnderWay
<1>3. CASE LogoutAnswered(c)
  <2>1. wsCalls[c] = "logout" /\ wsCalls' = [wsCalls EXCEPT ![c] = "none"] /\ Clears
    BY <1>3 DEF LogoutAnswered, Ended
  <2>2. wsCalls' \in [SessionCalls -> SessionRequests] /\ (UnderWay("refresh")' => UnderWay("refresh"))
    BY <2>1, SlotChanges DEF SessionRequests, WebSessionInv
  <2>3. wsSlice' \in [status : AuthStatuses, loading : BOOLEAN] /\ wsHook' \in AuthStatuses
    BY <1>3 DEF LogoutAnswered, WebSessionInv, WebSessionTypeOK, AuthStatuses
  <2>4. wsWhy' \subseteq {"crossed"} /\ (UnderWay("refresh") => wsWhy' = {"crossed"})
    BY <1>3 DEF LogoutAnswered
  <2>5. WebSessionTypeOK'
    BY <1>3, <2>1, <2>2, <2>3, <2>4, ClearedTokens DEF LogoutAnswered, WebSessionInv, WebSessionTypeOK, Tokens
  <2>. QED
    BY <2>1, <2>2, <2>4, <2>5, ClearedTokens
       DEF WebSessionInv, LogoutCrossed, SignedInHolds, WillBeRenewed
<1>4. CASE LogoutFails(c)
  <2>1. wsCalls[c] = "logout" /\ wsCalls' = [wsCalls EXCEPT ![c] = "none"]
        /\ wsWhy' = wsWhy \cup {"logout failed"} /\ UNCHANGED <<wsService, wsShown, wsLast>>
    BY <1>4 DEF LogoutFails, Ended
  <2>2. wsCalls' \in [SessionCalls -> SessionRequests] /\ (UnderWay("refresh")' => UnderWay("refresh"))
    BY <2>1, SlotChanges DEF SessionRequests, WebSessionInv
  <2>3. WebSessionTypeOK'
    BY <2>1, <2>2 DEF WebSessionInv, WebSessionTypeOK
  <2>. QED
    BY <2>1, <2>2, <2>3 DEF WebSessionInv, LogoutCrossed, SignedInHolds, WillBeRenewed
<1>. QED
  BY <1>1, <1>2, <1>3, <1>4

\* The timer, and the answers of a refresh.
LEMMA SessionRefreshSteps ==
  ASSUME WebSessionInv, NEW c \in SessionCalls,
         HandleTokenRefresh(c) \/ TokensRefreshed(c) \/ TokensNotRefreshed(c)
  PROVE  WebSessionInv'
<1>. USE DEF wsHistory, wsShown, wsService
<1>1. CASE HandleTokenRefresh(c)
  <2>1. wsCalls' = [wsCalls EXCEPT ![c] = "refresh"] /\ wsTokens.held
        /\ UNCHANGED <<wsReady, wsTokens, wsLockedOut, wsShown, wsHistory>>
    BY <1>1 DEF HandleTokenRefresh, Sends
  <2>2. wsCalls' \in [SessionCalls -> SessionRequests] /\ UnderWay("refresh")'
    BY <2>1, SlotChanges DEF SessionRequests, WebSessionInv
  <2>3. wsTimer' \in BOOLEAN
    BY <1>1, Zenon DEF HandleTokenRefresh
  <2>4. WebSessionTypeOK'
    BY <2>1, <2>2, <2>3 DEF WebSessionInv, WebSessionTypeOK
  <2>. QED
    BY <2>1, <2>2, <2>4 DEF WebSessionInv, LogoutCrossed, SignedInHolds, WillBeRenewed
<1>2. CASE TokensRefreshed(c)
  <2>1. wsCalls[c] = "refresh" /\ wsCalls' = [wsCalls EXCEPT ![c] = "none"]
        /\ wsWhy' = wsWhy \ {"logout failed"} /\ UNCHANGED <<wsReady, wsLockedOut, wsShown, wsLast>>
    BY <1>2 DEF TokensRefreshed, Ended
  <2>2. wsCalls' \in [SessionCalls -> SessionRequests] /\ UnderWay("refresh")
    BY <2>1, SlotChanges DEF SessionRequests, WebSessionInv, UnderWay
  <2>3. wsTokens' \in Tokens /\ wsTokens'.held /\ wsTimer'
    BY <1>2 DEF TokensRefreshed, SetTokens, SetupTokenRefresh, Tokens, WebSessionInv, WebSessionTypeOK
  <2>4. wsTimer' \in BOOLEAN
    BY <1>2, Zenon DEF TokensRefreshed, SetTokens, SetupTokenRefresh
  <2>5. WebSessionTypeOK'
    BY <2>1, <2>2, <2>3, <2>4 DEF WebSessionInv, WebSessionTypeOK, Tokens
  <2>. QED
    BY <2>1, <2>2, <2>3, <2>5 DEF WebSessionInv, LogoutCrossed, SignedInHolds, WillBeRenewed
<1>3. CASE TokensNotRefreshed(c) /\ wsTokens.held
  <2>1. wsCalls' = [wsCalls EXCEPT ![c] = "logout"]
        /\ UNCHANGED <<wsReady, wsLockedOut, wsShown, wsTokens, wsTimer, wsHistory>>
    BY <1>3 DEF TokensNotRefreshed
  <2>2. wsCalls' \in [SessionCalls -> SessionRequests] /\ UnderWay("logout")'
    BY <2>1, SlotChanges DEF SessionRequests, WebSessionInv
  <2>3. WebSessionTypeOK'
    BY <2>1, <2>2 DEF WebSessionInv, WebSessionTypeOK
  <2>. QED
    BY <1>3, <2>1, <2>2, <2>3 DEF WebSessionInv, LogoutCrossed, SignedInHolds, WillBeRenewed
<1>4. CASE TokensNotRefreshed(c) /\ ~wsTokens.held
  <2>1. wsCalls' = [wsCalls EXCEPT ![c] = "none"] /\ wsCalls[c] = "refresh"
        /\ Clears /\ UNCHANGED <<wsReady, wsLockedOut, wsShown, wsWhy>>
    BY <1>4 DEF TokensNotRefreshed
  <2>2. wsCalls' \in [SessionCalls -> SessionRequests] /\ UnderWay("refresh")
    BY <2>1, SlotChanges DEF SessionRequests, WebSessionInv, UnderWay
  <2>3. wsLast = "out"
    BY <1>4 DEF WebSessionInv, SignedInHolds, WebSessionTypeOK
  <2>4. WebSessionTypeOK'
    BY <2>1, <2>2, ClearedTokens DEF WebSessionInv, WebSessionTypeOK, Tokens
  <2>. QED
    BY <2>1, <2>2, <2>3, <2>4, ClearedTokens
       DEF WebSessionInv, LogoutCrossed, SignedInHolds, WillBeRenewed
<1>. QED
  BY <1>1, <1>2, <1>3, <1>4

LEMMA WebSessionNextInv == WebSessionInv /\ [WebSessionNext]_wsVars => WebSessionInv'
<1>. SUFFICES ASSUME WebSessionInv, [WebSessionNext]_wsVars PROVE WebSessionInv'
  OBVIOUS
<1>1. CASE UNCHANGED wsVars
  BY <1>1 DEF wsVars, wsService, wsShown, wsHistory, WebSessionInv, WebSessionTypeOK,
     LogoutCrossed, SignedInHolds, WillBeRenewed, UnderWay
<1>2. CASE WebSessionNext
  BY <1>2, ViewsOfSession, EntrySteps, SignedInStep, LogoutSteps, SessionRefreshSteps DEF WebSessionNext
<1>. QED
  BY <1>1, <1>2

-----------------------------------------------------------------------------
\* The tokens, the timer, the requests and the views of a session (auth.service.ts)
\* are of their types, however many requests are under way.
THEOREM WebSessionTyped == WebSessionSpec => []WebSessionTypeOK
<1>1. WebSessionInv => WebSessionTypeOK
  BY DEF WebSessionInv
<1>. QED
  BY WebSessionInitInv, WebSessionNextInv, <1>1, PTL DEF WebSessionSpec

\* Held tokens are renewed unless a logout failed, and survive a logout only when they
\* came from the storage or a refresh crossed it (auth.service.ts:216, :251).
THEOREM TokensAlwaysExplained == WebSessionSpec => []TokensExplained
<1>1. WebSessionInv => TokensExplained
  BY DEF WebSessionInv, TokensExplained, LogoutCrossed, WillBeRenewed
<1>. QED
  BY WebSessionInitInv, WebSessionNextInv, <1>1, PTL DEF WebSessionSpec

-----------------------------------------------------------------------------
(* The policies' store                                                     *)

\* A thunk that is not under way is none.
IdleIsNone == \A c \in PolicyCalls : polCalls[c].at = "idle" => polCalls[c].op = "none"

PolicyStoreInv ==
  /\ PolicyStoreTypeOK
  /\ IdleIsNone
  /\ SpinnerHasCause
  /\ OneListRequest

StoreViews == [listed : Copies, selected : Copies, loading : BOOLEAN, error : BOOLEAN]

\* Every case of the reducer makes a view of a view.
LEMMA ReducerTypes ==
  ASSUME NEW view \in StoreViews, NEW p \in Copies
  PROVE  /\ Loading(view) \in StoreViews /\ Failed(view) \in StoreViews /\ Loaded(view) \in StoreViews
         /\ Listed(view, p) \in StoreViews
         /\ FetchDetailsFulfilled(view, p) \in StoreViews /\ ChangeFulfilled(view, p) \in StoreViews
         /\ BindPending(view) \in StoreViews /\ BindRejected(view) \in StoreViews
         /\ [Loaded(view) EXCEPT !.listed = p] \in StoreViews
BY DEF StoreViews, Loading, Failed, Loaded, Listed, FetchDetailsFulfilled, ChangeFulfilled, BindPending,
       BindRejected, Copies, PolicyStatuses, NoPolicy

LEMMA ReducerLoading ==
  ASSUME NEW view \in StoreViews, NEW p \in Copies
  PROVE  /\ ~Failed(view).loading /\ ~Loaded(view).loading
         /\ ~FetchDetailsFulfilled(view, p).loading /\ ~ChangeFulfilled(view, p).loading
         /\ ~BindRejected(view).loading
         /\ ~[Loaded(view) EXCEPT !.listed = p].loading
BY DEF StoreViews, Loading, Failed, Loaded, Listed, FetchDetailsFulfilled, ChangeFulfilled, BindPending,
       BindRejected, Copies, PolicyStatuses, NoPolicy

\* The entries that the caches are given.
LEMMA EntryTypes ==
  /\ NoEntry \in Entries
  /\ \A p \in Copies : [policy |-> p, fresh |-> TRUE] \in Entries
  /\ \A entry \in Entries : /\ [entry EXCEPT !.fresh = TRUE] \in Entries
                            /\ [entry EXCEPT !.fresh = FALSE] \in Entries
BY DEF Entries, NoEntry, Copies, NoPolicy

LEMMA IdleCallType == IdleCall \in PolicyCall /\ IdleCall.at = "idle" /\ IdleCall.op = "none"
<1>1. 0 \in 0..(ListAttempts - 1)
  BY PolicyStoreAssumption
<1>. QED
  BY <1>1 DEF PolicyCall, IdleCall, Copies, NoPolicy

\* The thunk of a call changes, and no other.
OnlyThunk(c) ==
  /\ polCalls' \in [PolicyCalls -> PolicyCall]
  /\ \A d \in PolicyCalls : d # c => polCalls'[d] = polCalls[d]

LEMMA StartCall ==
  ASSUME polCalls \in [PolicyCalls -> PolicyCall], NEW c \in PolicyCalls,
         NEW op \in {"list", "details", "create", "update", "bind"},
         NEW at \in {"sent", "shared", "lookup"}, NEW old \in Copies, Start(c, op, at, old)
  PROVE  OnlyThunk(c) /\ polCalls'[c].op = op /\ polCalls'[c].at = at
<1>. DEFINE call == [IdleCall EXCEPT !.op = op, !.at = at, !.old = old]
<1>1. call \in PolicyCall /\ call.op = op /\ call.at = at
  <2>1. 0 \in 0..(ListAttempts - 1)
    BY PolicyStoreAssumption
  <2>. QED
    BY <2>1 DEF PolicyCall, IdleCall, Copies, NoPolicy
<1>2. polCalls' = [polCalls EXCEPT ![c] = call]
  BY DEF Start
<1>. HIDE DEF call
<1>. QED
  BY <1>1, <1>2 DEF OnlyThunk

LEMMA EndCall ==
  ASSUME polCalls \in [PolicyCalls -> PolicyCall], NEW c \in PolicyCalls, End(c)
  PROVE  OnlyThunk(c) /\ polCalls'[c].op = "none" /\ polCalls'[c].at = "idle"
BY IdleCallType DEF End, OnlyThunk

\* The thunk goes on: it keeps its operation.
LEMMA MoveCall ==
  ASSUME polCalls \in [PolicyCalls -> PolicyCall], NEW c \in PolicyCalls,
         NEW at \in {"sent", "served", "refused", "backoff", "found"},
         NEW answer \in Copies, NEW tried \in 0..(ListAttempts - 1),
         \/ polCalls' = [polCalls EXCEPT ![c].at = at, ![c].answer = answer]
         \/ polCalls' = [polCalls EXCEPT ![c].at = at, ![c].tried = tried]
         \/ polCalls' = [polCalls EXCEPT ![c].at = at]
  PROVE  OnlyThunk(c) /\ polCalls'[c].op = polCalls[c].op /\ polCalls'[c].at = at
<1>1. polCalls[c] \in PolicyCall
  OBVIOUS
<1>2. PICK call : call \in PolicyCall /\ call.op = polCalls[c].op /\ call.at = at
                  /\ polCalls' = [polCalls EXCEPT ![c] = call]
  <2>1. CASE polCalls' = [polCalls EXCEPT ![c].at = at, ![c].answer = answer]
    <3>. DEFINE call == [polCalls[c] EXCEPT !.at = at, !.answer = answer]
    <3>1. call \in PolicyCall /\ call.op = polCalls[c].op /\ call.at = at
      BY <1>1 DEF PolicyCall
    <3>2. polCalls' = [polCalls EXCEPT ![c] = call]
      BY <2>1
    <3>. QED
      BY <3>1, <3>2
  <2>2. CASE polCalls' = [polCalls EXCEPT ![c].at = at, ![c].tried = tried]
    <3>. DEFINE call == [polCalls[c] EXCEPT !.at = at, !.tried = tried]
    <3>1. call \in PolicyCall /\ call.op = polCalls[c].op /\ call.at = at
      BY <1>1 DEF PolicyCall
    <3>2. polCalls' = [polCalls EXCEPT ![c] = call]
      BY <2>2
    <3>. QED
      BY <3>1, <3>2
  <2>3. CASE polCalls' = [polCalls EXCEPT ![c].at = at]
    <3>. DEFINE call == [polCalls[c] EXCEPT !.at = at]
    <3>1. call \in PolicyCall /\ call.op = polCalls[c].op /\ call.at = at
      BY <1>1 DEF PolicyCall
    <3>2. polCalls' = [polCalls EXCEPT ![c] = call]
      BY <2>3
    <3>. QED
      BY <3>1, <3>2
  <2>. QED
    BY <2>1, <2>2, <2>3
<1>. QED
  BY <1>1, <1>2 DEF OnlyThunk

\* A step of one thunk which leaves the pending request alone.
LEMMA ThunkStep ==
  ASSUME PolicyStoreInv, NEW c \in PolicyCalls, OnlyThunk(c), UNCHANGED polPending,
         polServer' \in PolicyStatuses, polDetail' \in Entries, polApi' \in Copies,
         polList' \in Copies, polView' \in StoreViews,
         polCalls'[c].at = "idle" => polCalls'[c].op = "none" /\ ~polView'.loading,
         polView'.loading => polView.loading \/ polCalls'[c].at # "idle",
         \/ /\ polCalls'[c].op = polCalls[c].op
            /\ polCalls'[c].at = "shared" <=> polCalls[c].at = "shared"
         \/ polCalls[c].op # "list" /\ polCalls'[c].op # "list"
         \/ /\ polCalls[c].at = "idle" /\ polPending \in PolicyCalls
            /\ polCalls'[c].op = "list" /\ polCalls'[c].at = "shared"
  PROVE  PolicyStoreInv'
<1>1. PolicyStoreTypeOK'
  BY DEF PolicyStoreInv, PolicyStoreTypeOK, OnlyThunk, StoreViews
<1>2. IdleIsNone'
  BY DEF PolicyStoreInv, IdleIsNone, OnlyThunk
<1>3. SpinnerHasCause'
  BY DEF PolicyStoreInv, SpinnerHasCause, OnlyThunk, Free
<1>4. OneListRequest'
  BY DEF PolicyStoreInv, IdleIsNone, OneListRequest, OnlyThunk, At
<1>. QED
  BY <1>1, <1>2, <1>3, <1>4 DEF PolicyStoreInv

LEMMA PolicyStoreInitInv == PolicyStoreInit => PolicyStoreInv
<1>. SUFFICES ASSUME PolicyStoreInit PROVE PolicyStoreInv
  OBVIOUS
<1>1. polCalls \in [PolicyCalls -> PolicyCall]
  BY IdleCallType DEF PolicyStoreInit
<1>2. polView \in StoreViews /\ ~polView.loading
  BY DEF PolicyStoreInit, StoreViews, Copies
<1>3. polDetail \in Entries /\ polApi \in Copies /\ polList \in Copies
  BY DEF PolicyStoreInit, Entries, NoEntry, Copies
<1>4. \A c \in PolicyCalls : polCalls[c].at = "idle" /\ polCalls[c].op = "none"
  BY IdleCallType DEF PolicyStoreInit
<1>5. PolicyStoreTypeOK
  BY <1>1, <1>2, <1>3 DEF PolicyStoreInit, PolicyStoreTypeOK, StoreViews
<1>6. OneListRequest
  BY <1>4, PolicyStoreAssumption DEF PolicyStoreInit, OneListRequest, At
<1>. QED
  BY <1>2, <1>4, <1>5, <1>6 DEF PolicyStoreInv, IdleIsNone, SpinnerHasCause

\* Whether the bind is sent or refused by the check, the thunk is no list's.
LEMMA SendBindStep ==
  ASSUME PolicyStoreInv, NEW c \in PolicyCalls, NEW p \in Copies, NEW view \in StoreViews,
         SendBind(c, p, view)
  PROVE  /\ OnlyThunk(c) /\ polCalls'[c].op # "list"
         /\ polDetail' \in Entries /\ polView' \in StoreViews
         /\ polCalls'[c].at = "idle" => polCalls'[c].op = "none" /\ ~polView'.loading
<1>. polCalls \in [PolicyCalls -> PolicyCall]
  BY DEF PolicyStoreInv, PolicyStoreTypeOK
<1>1. CASE p = "APPROVED" /\ polView' = view /\ Start(c, "bind", "sent", p)
  <2>1. OnlyThunk(c) /\ polCalls'[c].op = "bind" /\ polCalls'[c].at = "sent"
    BY <1>1, StartCall
  <2>2. polDetail' \in Entries
    BY <1>1, EntryTypes DEF SendBind, Copies, PolicyStatuses
  <2>. QED
    BY <1>1, <2>1, <2>2
<1>2. CASE p # "APPROVED" /\ polView' = BindRejected(view) /\ End(c)
  <2>1. OnlyThunk(c) /\ polCalls'[c].op = "none" /\ polCalls'[c].at = "idle"
    BY <1>2, EndCall
  <2>2. polDetail' \in Entries
    BY <1>2, EntryTypes DEF SendBind
  <2>3. polView' \in StoreViews /\ ~polView'.loading
    BY <1>2, ReducerTypes, ReducerLoading
  <2>. QED
    BY <2>1, <2>2, <2>3
<1>. QED
  BY <1>1, <1>2 DEF SendBind

\* The thunks begin.
LEMMA BeginSteps ==
  ASSUME PolicyStoreInv, NEW c \in PolicyCalls,
         \/ FetchPolicyDetails(c) \/ CreatePolicy(c) \/ UpdatePolicy(c) \/ BindPolicy(c)
  PROVE  PolicyStoreInv'
<1>. USE DEF PolicyStoreInv, PolicyStoreTypeOK, IdleIsNone
<1>1. CASE FetchPolicyDetails(c)
  <2>1. CASE Cached # NoPolicy
    <3>1. Cached \in Copies
      BY DEF Cached, Entries
    <3>2. polView' = FetchDetailsFulfilled(polView, Cached) /\ UNCHANGED polCalls /\ KeepCached
      BY <1>1, <2>1 DEF FetchPolicyDetails
    <3>3. polView' \in StoreViews /\ ~polView'.loading
      BY <3>1, <3>2, ReducerTypes, ReducerLoading DEF StoreViews
    <3>4. polDetail' \in Entries
      BY <3>1, <3>2 DEF KeepCached, Entries
    <3>. QED
      BY <1>1, <3>2, <3>3, <3>4, ThunkStep DEF FetchPolicyDetails, OnlyThunk
  <2>2. CASE Cached = NoPolicy
    <3>1. Start(c, "details", "sent", NoPolicy) /\ polView' = Loading(polView)
      BY <1>1, <2>2 DEF FetchPolicyDetails
    <3>2. polView' \in StoreViews
      BY <3>1, ReducerTypes DEF StoreViews, Copies
    <3>3. OnlyThunk(c) /\ polCalls'[c].op = "details" /\ polCalls'[c].at = "sent"
      BY <3>1, StartCall DEF Copies
    <3>. QED
      BY <1>1, <2>2, <3>2, <3>3, ThunkStep DEF FetchPolicyDetails, Free, polCaches
  <2>. QED
    BY <2>1, <2>2
<1>2. CASE CreatePolicy(c)
  <2>1. polView' \in StoreViews
    BY <1>2, ReducerTypes DEF CreatePolicy, StoreViews, Copies
  <2>2. OnlyThunk(c) /\ polCalls'[c].op = "create" /\ polCalls'[c].at = "sent"
    BY <1>2, StartCall DEF CreatePolicy, Copies
  <2>. QED
    BY <1>2, <2>1, <2>2, ThunkStep DEF CreatePolicy, Free, polCaches
<1>3. CASE UpdatePolicy(c)
  <2>1. polView' \in StoreViews
    BY <1>3, ReducerTypes DEF UpdatePolicy, StoreViews, Copies
  <2>2. OnlyThunk(c) /\ polCalls'[c].op = "update" /\ polCalls'[c].at = "sent"
    BY <1>3, StartCall DEF UpdatePolicy, Entries
  <2>3. polDetail' \in Entries /\ polApi' \in Copies
    BY <1>3 DEF UpdatePolicy, Entries, NoEntry, Copies
  <2>. QED
    BY <1>3, <2>1, <2>2, <2>3, ThunkStep DEF UpdatePolicy, Free
<1>4. CASE BindPolicy(c)
  <2>1. CASE Cached # NoPolicy
    <3>1. Cached \in Copies
      BY DEF Cached, Entries
    <3>2. BindPending(polView) \in StoreViews
      BY <3>1, ReducerTypes DEF StoreViews
    <3>3. SendBind(c, Cached, BindPending(polView)) /\ polCalls[c].op = "none"
      BY <1>4, <2>1 DEF BindPolicy, Free
    <3>. HIDE DEF PolicyStoreInv
    <3>. QED
      BY <1>4, <3>1, <3>2, <3>3, SendBindStep, ThunkStep DEF BindPolicy, PolicyStoreInv
  <2>2. CASE Cached = NoPolicy
    <3>1. Start(c, "bind", "lookup", NoPolicy) /\ polView' = BindPending(polView)
      BY <1>4, <2>2 DEF BindPolicy
    <3>2. polView' \in StoreViews
      BY <3>1, ReducerTypes DEF StoreViews, Copies
    <3>3. OnlyThunk(c) /\ polCalls'[c].op = "bind" /\ polCalls'[c].at = "lookup"
      BY <3>1, StartCall DEF Copies
    <3>. QED
      BY <1>4, <2>2, <3>2, <3>3, ThunkStep DEF BindPolicy, Free
  <2>. QED
    BY <2>1, <2>2
<1>. QED
  BY <1>1, <1>2, <1>3, <1>4

\* The thunks of one policy end, answered or refused.
LEMMA EndSteps ==
  ASSUME PolicyStoreInv, NEW c \in PolicyCalls,
         \/ DetailsAnswered(c) \/ CreateAnswered(c) \/ UpdateAnswered(c) \/ UpdateRefused(c)
         \/ BindAnswered(c) \/ BindRefused(c) \/ RequestFailed(c)
  PROVE  PolicyStoreInv'
<1>. USE DEF PolicyStoreInv, PolicyStoreTypeOK
<1>1. polCalls[c].answer \in Copies /\ polCalls[c].old \in Copies
  BY DEF PolicyCall
<1>2. End(c) /\ polCalls[c].op # "list" /\ UNCHANGED <<polServer, polPending>>
  BY DEF DetailsAnswered, CreateAnswered, UpdateAnswered, UpdateRefused, BindAnswered, BindRefused,
         RequestFailed, At
<1>3. OnlyThunk(c) /\ polCalls'[c].op = "none" /\ polCalls'[c].at = "idle"
  BY <1>2, EndCall
<1>4. polView' \in StoreViews /\ ~polView'.loading
  <2>. polView \in StoreViews
    BY DEF StoreViews
  <2>. QED
    BY <1>1, ReducerTypes, ReducerLoading
       DEF DetailsAnswered, CreateAnswered, UpdateAnswered, UpdateRefused, BindAnswered, BindRefused,
           RequestFailed, Confirm
<1>5. polDetail' \in Entries /\ polApi' \in Copies /\ polList' \in Copies
  <2>. NoPolicy \in Copies
    BY DEF Copies
  <2>1. CASE DetailsAnswered(c)  BY <1>1, <2>1, EntryTypes DEF DetailsAnswered, KeepAnswer
  <2>2. CASE CreateAnswered(c)   BY <2>2 DEF CreateAnswered
  <2>3. CASE UpdateAnswered(c)   BY <1>1, <2>3, EntryTypes DEF UpdateAnswered, Confirm
  <2>4. CASE UpdateRefused(c)    BY <1>1, <2>4, EntryTypes DEF UpdateRefused, Revert
  <2>5. CASE BindAnswered(c)     BY <1>1, <2>5, EntryTypes DEF BindAnswered, Confirm
  <2>6. CASE BindRefused(c)      BY <1>1, <2>6, EntryTypes DEF BindRefused, Revert
  <2>7. CASE RequestFailed(c)    BY <2>7 DEF RequestFailed, polCaches
  <2>. QED
    BY <2>1, <2>2, <2>3, <2>4, <2>5, <2>6, <2>7
<1>. QED
  BY <1>2, <1>3, <1>4, <1>5, ThunkStep

\* Steps of a thunk in the middle of its work, and of the server.
LEMMA MiddleSteps ==
  ASSUME PolicyStoreInv, NEW c \in PolicyCalls,
         BindFound(c) \/ ListRetry(c) \/ Serve(c) \/ Refuse(c)
  PROVE  PolicyStoreInv'
<1>. polCalls \in [PolicyCalls -> PolicyCall] /\ polView \in StoreViews
  BY DEF PolicyStoreInv, PolicyStoreTypeOK, StoreViews
<1>. USE DEF PolicyStoreInv, PolicyStoreTypeOK
<1>1. CASE BindFound(c)
  <2>1. polCalls[c].answer \in Copies /\ SendBind(c, polCalls[c].answer, polView)
        /\ polCalls[c].op = "bind" /\ polCalls[c].at = "found"
    BY <1>1 DEF BindFound, At, PolicyCall
  <2>. HIDE DEF PolicyStoreInv
  <2>2. /\ OnlyThunk(c) /\ polCalls'[c].op # "list"
        /\ polDetail' \in Entries /\ polView' \in StoreViews
        /\ polCalls'[c].at = "idle" => polCalls'[c].op = "none" /\ ~polView'.loading
    BY <2>1, SendBindStep
  <2>. QED
    BY <1>1, <2>1, <2>2, ThunkStep DEF BindFound, PolicyStoreInv
<1>2. CASE ListRetry(c)
  <2>1. OnlyThunk(c) /\ polCalls'[c].op = polCalls[c].op /\ polCalls'[c].at = "sent"
    <3>1. NoPolicy \in Copies /\ 0 \in 0..(ListAttempts - 1)
      BY PolicyStoreAssumption DEF Copies
    <3>. QED
      BY <1>2, <3>1, MoveCall DEF ListRetry
  <2>. QED
    BY <1>2, <2>1, ThunkStep DEF ListRetry, At, polCaches
<1>3. CASE Serve(c)
  <2>1. polServer' \in PolicyStatuses
    BY <1>3 DEF Serve, PolicyStatuses
  <2>2. PICK at \in {"found", "served"} :
          polCalls' = [polCalls EXCEPT ![c].at = at, ![c].answer = polServer']
    BY <1>3 DEF Serve
  <2>3. OnlyThunk(c) /\ polCalls'[c].op = polCalls[c].op /\ polCalls'[c].at = at
    <3>1. polServer' \in Copies /\ 0 \in 0..(ListAttempts - 1)
      BY <2>1, PolicyStoreAssumption DEF Copies
    <3>. QED
      BY <2>2, <3>1, MoveCall
  <2>. QED
    BY <1>3, <2>1, <2>3, ThunkStep DEF Serve, polCaches
<1>4. CASE Refuse(c)
  <2>1. OnlyThunk(c) /\ polCalls'[c].op = polCalls[c].op /\ polCalls'[c].at = "refused"
    <3>1. NoPolicy \in Copies /\ 0 \in 0..(ListAttempts - 1)
      BY PolicyStoreAssumption DEF Copies
    <3>. QED
      BY <1>4, <3>1, MoveCall DEF Refuse
  <2>. QED
    BY <1>4, <2>1, ThunkStep DEF Refuse, polCaches
<1>. QED
  BY <1>1, <1>2, <1>3, <1>4

\* A list's request ends: its owner and all that share it are done.
LEMMA EndListStep ==
  ASSUME PolicyStoreInv, NEW c \in PolicyCalls, EndList(c),
         polCalls[c].op = "list", polCalls[c].at # "shared", UNCHANGED <<polServer, polDetail, polApi>>,
         polList' \in Copies, polView' \in StoreViews, ~polView'.loading,
         polPending' \in {NoCall, FailedCall}
  PROVE  PolicyStoreInv'
<1>1. polCalls' \in [PolicyCalls -> PolicyCall]
  BY IdleCallType DEF EndList, PolicyStoreInv, PolicyStoreTypeOK
<1>2. \A d \in PolicyCalls : IF d \in Sharers(c) THEN polCalls'[d].at = "idle" /\ polCalls'[d].op = "none"
                                                ELSE polCalls'[d] = polCalls[d]
  BY IdleCallType DEF EndList
<1>3. \A d \in PolicyCalls : polCalls'[d].op # "list"
  BY <1>2 DEF PolicyStoreInv, OneListRequest, Sharers, At
<1>4. PolicyStoreTypeOK'
  BY <1>1 DEF PolicyStoreInv, PolicyStoreTypeOK, StoreViews
<1>5. IdleIsNone'
  BY <1>2 DEF PolicyStoreInv, IdleIsNone
<1>6. OneListRequest'
  BY <1>3, PolicyStoreAssumption DEF OneListRequest, At
<1>. QED
  BY <1>4, <1>5, <1>6 DEF PolicyStoreInv, SpinnerHasCause

\* The thunk fetchPolicies and its request.
LEMMA ListSteps ==
  ASSUME PolicyStoreInv, NEW c \in PolicyCalls, FetchPolicies(c) \/ ListAnswered(c) \/ ListFailed(c)
  PROVE  PolicyStoreInv'
<1>. polCalls \in [PolicyCalls -> PolicyCall] /\ polView \in StoreViews /\ NoPolicy \in Copies
  BY DEF PolicyStoreInv, PolicyStoreTypeOK, StoreViews, Copies
<1>1. polCalls[c].answer \in Copies
  BY DEF PolicyStoreInv, PolicyStoreTypeOK, PolicyCall
<1>2. CASE FetchPolicies(c)
  <2>. polCalls[c].at = "idle" /\ polCalls[c].op = "none" /\ UNCHANGED <<polServer, polCaches>>
    BY <1>2 DEF FetchPolicies, Free, PolicyStoreInv, IdleIsNone
  <2>1. CASE /\ polPending = NoCall /\ polList # NoPolicy
             /\ polView' = [Loaded(polView) EXCEPT !.listed = polList]
             /\ UNCHANGED <<polPending, polCalls>>
    <3>1. polView' \in StoreViews /\ ~polView'.loading
      BY <2>1, ReducerTypes, ReducerLoading DEF PolicyStoreInv, PolicyStoreTypeOK
    <3>. QED
      BY <2>1, <3>1, ThunkStep DEF PolicyStoreInv, PolicyStoreTypeOK, OnlyThunk, polCaches
  <2>2. CASE /\ polPending = NoCall /\ polList = NoPolicy
             /\ polPending' = c /\ polView' = Loading(polView) /\ Start(c, "list", "sent", NoPolicy)
    <3>1. OnlyThunk(c) /\ polCalls'[c].op = "list" /\ polCalls'[c].at = "sent"
      BY <2>2, StartCall
    <3>2. polView' \in StoreViews
      BY <2>2, ReducerTypes
    <3>3. PolicyStoreTypeOK'
      BY <2>2, <3>1, <3>2 DEF PolicyStoreInv, PolicyStoreTypeOK, OnlyThunk, polCaches, StoreViews
    <3>4. IdleIsNone'
      BY <3>1 DEF PolicyStoreInv, IdleIsNone, OnlyThunk
    <3>5. SpinnerHasCause'
      BY <3>1 DEF SpinnerHasCause, Free
    <3>6. \A d \in PolicyCalls : polCalls[d].op # "list"
      BY <2>2, PolicyStoreAssumption DEF PolicyStoreInv, OneListRequest, At
    <3>7. OneListRequest'
      BY <2>2, <3>1, <3>6 DEF OneListRequest, OnlyThunk, At
    <3>. QED
      BY <3>3, <3>4, <3>5, <3>7 DEF PolicyStoreInv
  <2>3. CASE /\ polPending \in PolicyCalls
             /\ polView' = Loading(polView) /\ Start(c, "list", "shared", NoPolicy)
             /\ UNCHANGED polPending
    <3>1. OnlyThunk(c) /\ polCalls'[c].op = "list" /\ polCalls'[c].at = "shared"
      BY <2>3, StartCall
    <3>2. polView' \in StoreViews
      BY <2>3, ReducerTypes
    <3>. QED
      BY <2>3, <3>1, <3>2, ThunkStep DEF PolicyStoreInv, PolicyStoreTypeOK, polCaches
  <2>4. CASE /\ polPending = FailedCall
             /\ polView' = Failed(polView)
             /\ UNCHANGED <<polPending, polCalls>>
    <3>1. polView' \in StoreViews /\ ~polView'.loading
      BY <2>4, ReducerTypes, ReducerLoading
    <3>. QED
      BY <2>4, <3>1, ThunkStep DEF PolicyStoreInv, PolicyStoreTypeOK, OnlyThunk, polCaches
  <2>. QED
    BY <1>2, <2>1, <2>2, <2>3, <2>4 DEF FetchPolicies
<1>3. CASE ListAnswered(c)
  <2>1. polView' \in StoreViews /\ ~polView'.loading
    BY <1>1, <1>3, ReducerTypes, ReducerLoading DEF ListAnswered
  <2>. QED
    BY <1>1, <1>3, <2>1, EndListStep DEF ListAnswered, At
<1>4. CASE ListFailed(c)
  <2>1. CASE /\ polCalls[c].tried < ListAttempts - 1
             /\ polCalls' = [polCalls EXCEPT ![c].at = "backoff", ![c].tried = @ + 1]
             /\ UNCHANGED <<polPending, polView>>
    <3>1. polCalls[c].tried + 1 \in 0..(ListAttempts - 1)
      BY <2>1, PolicyStoreAssumption DEF PolicyStoreInv, PolicyStoreTypeOK, PolicyCall
    <3>2. polCalls' = [polCalls EXCEPT ![c].at = "backoff", ![c].tried = polCalls[c].tried + 1]
      BY <2>1
    <3>3. OnlyThunk(c) /\ polCalls'[c].op = polCalls[c].op /\ polCalls'[c].at = "backoff"
      BY <3>1, <3>2, MoveCall
    <3>. QED
      BY <1>4, <2>1, <3>3, ThunkStep DEF ListFailed, PolicyStoreInv, PolicyStoreTypeOK, polCaches
  <2>2. CASE polPending' = FailedCall /\ polView' = Failed(polView) /\ EndList(c)
    <3>1. polView' \in StoreViews /\ ~polView'.loading
      BY <2>2, ReducerTypes, ReducerLoading
    <3>. QED
      BY <1>4, <2>2, <3>1, EndListStep DEF ListFailed, PolicyStoreInv, PolicyStoreTypeOK, polCaches
  <2>. QED
    BY <1>4, <2>1, <2>2 DEF ListFailed
<1>. QED
  BY <1>2, <1>3, <1>4

\* Steps that touch no thunk.
LEMMA OtherSteps ==
  ASSUME PolicyStoreInv,
         \/ ExpireDetail \/ ExpireApi \/ ExpireList \/ EndorsementAnswered
         \/ ServerMoves \/ ClearPolicyErrors \/ UNCHANGED polVars
  PROVE  PolicyStoreInv'
<1>. USE DEF PolicyStoreInv, PolicyStoreTypeOK
<1>1. UNCHANGED <<polCalls, polPending>> /\ polView'.loading = polView.loading /\ polView' \in StoreViews
  BY DEF ExpireDetail, ExpireApi, ExpireList, EndorsementAnswered, ServerMoves, ClearPolicyErrors,
         polVars, StoreViews
<1>2. polServer' \in PolicyStatuses /\ polDetail' \in Entries /\ polApi' \in Copies /\ polList' \in Copies
  <2>1. polDetail' \in Entries
    BY EntryTypes DEF ExpireDetail, ExpireApi, ExpireList, EndorsementAnswered, ServerMoves,
       ClearPolicyErrors, polVars, polCaches
  <2>2. polServer' \in PolicyStatuses /\ polApi' \in Copies /\ polList' \in Copies
    BY DEF ExpireDetail, ExpireApi, ExpireList, EndorsementAnswered, ServerMoves,
       ClearPolicyErrors, polVars, polCaches, Copies, PolicyStatuses
  <2>. QED
    BY <2>1, <2>2
<1>. QED
  BY <1>1, <1>2 DEF StoreViews, IdleIsNone, SpinnerHasCause, OneListRequest, Free, At

LEMMA PolicyStoreNextInv == PolicyStoreInv /\ [PolicyStoreNext]_polVars => PolicyStoreInv'
BY BeginSteps, EndSteps, MiddleSteps, ListSteps, OtherSteps DEF PolicyStoreNext

-----------------------------------------------------------------------------
\* The slice, the caches and every call keep their types (policy.reducer.ts, policy.service.ts).
THEOREM PolicyStoreTyped == PolicyStoreSpec => []PolicyStoreTypeOK
<1>1. PolicyStoreInv => PolicyStoreTypeOK
  BY DEF PolicyStoreInv
<1>. QED
  BY PolicyStoreInitInv, PolicyStoreNextInv, <1>1, PTL DEF PolicyStoreSpec

\* The one boolean of policy.reducer.ts:63 is never left set: whatever the order in which
\* the thunks answer, a spinner has a thunk under way behind it.
THEOREM SpinnerAlwaysHasCause == PolicyStoreSpec => []SpinnerHasCause
<1>1. PolicyStoreInv => SpinnerHasCause
  BY DEF PolicyStoreInv
<1>. QED
  BY PolicyStoreInitInv, PolicyStoreNextInv, <1>1, PTL DEF PolicyStoreSpec

\* The requests of a page are deduplicated (policy.actions.ts:55): one call at most has a
\* request of its own, and it is the one that the others wait for.
THEOREM AlwaysOneListRequest == PolicyStoreSpec => []OneListRequest
<1>1. PolicyStoreInv => OneListRequest
  BY DEF PolicyStoreInv
<1>. QED
  BY PolicyStoreInitInv, PolicyStoreNextInv, <1>1, PTL DEF PolicyStoreSpec

-----------------------------------------------------------------------------
(* The claims' store                                                       *)

ClaimThunk == [kind : Kinds \cup {"none"}, at : {"idle", "sent", "checked", "answered"},
               to : ClaimStatuses \cup {"none"}]
Marks == [loading : BOOLEAN, update : BOOLEAN, progress : BOOLEAN]

\* A thunk that is not under way is of no kind, hence no cause of a mark.
IdleHasNoKind == \A c \in ClaimCalls : csCalls[c].at = "idle" => csCalls[c].kind = "none"

ClaimsStoreInv ==
  /\ ClaimsStoreTypeOK
  /\ IdleHasNoKind
  /\ MarksHaveCause

\* The thunk of a call changes, and no other.
OnlyClaimThunk(c) ==
  /\ csCalls' \in [ClaimCalls -> ClaimThunk]
  /\ \A d \in ClaimCalls : d # c => csCalls'[d] = csCalls[d]

LEMMA Statuses == ClaimStatuses = {"NEW", "UNDER_REVIEW", "APPROVED", "DENIED"}
BY DEF ClaimStatuses, ClaimMoves

LEMMA ClaimsStoreInitInv == ClaimsStoreInit => ClaimsStoreInv
<1>. SUFFICES ASSUME ClaimsStoreInit PROVE ClaimsStoreInv
  OBVIOUS
<1>1. csMarks \in Marks /\ ~csMarks.loading /\ ~csMarks.update /\ ~csMarks.progress
  BY DEF ClaimsStoreInit, Marks
<1>2. csCalls \in [ClaimCalls -> ClaimThunk]
  BY DEF ClaimsStoreInit, ClaimThunk, NoThunk
<1>3. IdleHasNoKind
  BY DEF ClaimsStoreInit, IdleHasNoKind, NoThunk
<1>. QED
  BY <1>1, <1>2, <1>3, Statuses
     DEF ClaimsStoreInit, ClaimsStoreInv, ClaimsStoreTypeOK, MarksHaveCause, Shown, Marks, ClaimThunk

LEMMA FinishCall ==
  ASSUME ClaimsStoreTypeOK, NEW c \in ClaimCalls, Finish(c)
  PROVE  OnlyClaimThunk(c) /\ csCalls'[c].kind = "none"
BY DEF ClaimsStoreTypeOK, Finish, OnlyClaimThunk, NoThunk, ClaimThunk

\* A thunk ends and takes back the mark of its kind.
LEMMA FinishStep ==
  ASSUME ClaimsStoreInv, NEW c \in ClaimCalls, Finish(c),
         csServer' \in ClaimStatuses, csListed' \in Shown, csSelected' \in Shown,
         csEntry' \in ClaimStatuses \cup {"none"}, csPage' \in ClaimStatuses \cup {"none"},
         csMarks' \in Marks,
         csMarks'.loading => csMarks.loading /\ csCalls[c].kind \notin SetsLoading,
         csMarks'.update => csMarks.update /\ csCalls[c].kind # "update",
         csMarks'.progress => csMarks.progress /\ csCalls[c].kind # "upload"
  PROVE  ClaimsStoreInv'
<1>1. OnlyClaimThunk(c) /\ csCalls'[c].kind = "none"
  BY FinishCall DEF ClaimsStoreInv
<1>2. ClaimsStoreTypeOK'
  BY <1>1 DEF ClaimsStoreTypeOK, OnlyClaimThunk, Marks, ClaimThunk
<1>3. IdleHasNoKind'
  BY <1>1 DEF ClaimsStoreInv, IdleHasNoKind, OnlyClaimThunk
<1>4. MarksHaveCause'
  BY <1>1 DEF ClaimsStoreInv, MarksHaveCause, OnlyClaimThunk
<1>. QED
  BY <1>2, <1>3, <1>4 DEF ClaimsStoreInv

\* A thunk is fulfilled or rejected.
LEMMA FinishSteps ==
  ASSUME ClaimsStoreInv, NEW c \in ClaimCalls,
         \/ FetchFulfilled(c) \/ DetailsFulfilled(c) \/ CreateFulfilled(c)
         \/ UpdateFulfilled(c) \/ UploadFulfilled(c) \/ SyncFulfilled(c) \/ Rejected(c)
  PROVE  ClaimsStoreInv'
<1>1. Finish(c) /\ csServer' = csServer
  BY DEF FetchFulfilled, DetailsFulfilled, CreateFulfilled, UpdateFulfilled, UploadFulfilled,
         SyncFulfilled, Rejected
<1>2. Answer(c) \in ClaimStatuses \cup {"none"}
  BY DEF Answer, ClaimsStoreInv, ClaimsStoreTypeOK
<1>3. /\ csListed' \in Shown /\ csSelected' \in Shown
      /\ csEntry' \in ClaimStatuses \cup {"none"} /\ csPage' \in ClaimStatuses \cup {"none"}
  BY <1>2 DEF ClaimsStoreInv, ClaimsStoreTypeOK, FetchFulfilled, DetailsFulfilled, CreateFulfilled,
     UpdateFulfilled, UploadFulfilled, SyncFulfilled, Rejected, Shown, csShown, Replaced
<1>4. /\ csMarks' \in Marks
      /\ csMarks'.loading => csMarks.loading /\ csCalls[c].kind \notin SetsLoading
      /\ csMarks'.update => csMarks.update /\ csCalls[c].kind # "update"
      /\ csMarks'.progress => csMarks.progress /\ csCalls[c].kind # "upload"
  <2>. csMarks \in Marks
    BY DEF ClaimsStoreInv, ClaimsStoreTypeOK, Marks
  <2>1. CASE Unmark(c)
    BY <2>1 DEF Unmark, Marks
  <2>2. CASE csMarks' = [csMarks EXCEPT !.loading = FALSE] /\ csCalls[c].kind \in SetsLoading
    BY <2>2 DEF Marks, SetsLoading
  <2>3. CASE csMarks' = [csMarks EXCEPT !.update = FALSE] /\ csCalls[c].kind = "update"
    BY <2>3 DEF Marks, SetsLoading
  <2>4. CASE csMarks' = [csMarks EXCEPT !.progress = FALSE] /\ csCalls[c].kind = "upload"
    BY <2>4 DEF Marks, SetsLoading
  <2>. QED
    BY <2>1, <2>2, <2>3, <2>4 DEF FetchFulfilled, DetailsFulfilled, CreateFulfilled,
       UpdateFulfilled, UploadFulfilled, SyncFulfilled, Rejected, CallAt, SetsLoading
<1>. QED
  BY <1>1, <1>2, <1>3, <1>4, FinishStep DEF ClaimsStoreInv, ClaimsStoreTypeOK

\* A thunk is dispatched.
LEMMA DispatchStep ==
  ASSUME ClaimsStoreInv, NEW c \in ClaimCalls, Dispatch(c)
  PROVE  ClaimsStoreInv'
<1>1. PICK kind \in Kinds, to \in ClaimStatuses \cup {"none"} :
        /\ csCalls' = [csCalls EXCEPT ![c] = [kind |-> kind, at |-> "sent", to |-> to]]
        /\ csMarks' = [loading |-> csMarks.loading \/ kind \in SetsLoading,
                       update |-> csMarks.update \/ kind = "update",
                       progress |-> csMarks.progress \/ kind = "upload"]
  BY DEF Dispatch
<1>2. OnlyClaimThunk(c) /\ csCalls'[c].kind = kind /\ csCalls'[c].at = "sent"
  BY <1>1 DEF ClaimsStoreInv, ClaimsStoreTypeOK, OnlyClaimThunk, ClaimThunk
<1>3. /\ csMarks' \in Marks
      /\ csMarks'.loading => csMarks.loading \/ kind \in SetsLoading
      /\ csMarks'.update => csMarks.update \/ kind = "update"
      /\ csMarks'.progress => csMarks.progress \/ kind = "upload"
  BY <1>1 DEF ClaimsStoreInv, ClaimsStoreTypeOK, Marks
<1>4. csCalls[c].kind = "none"
  BY DEF Dispatch, ClaimsStoreInv, IdleHasNoKind
<1>5. ClaimsStoreTypeOK'
  BY <1>2, <1>3 DEF Dispatch, ClaimsStoreInv, ClaimsStoreTypeOK, OnlyClaimThunk, Marks, ClaimThunk, csShown
<1>6. IdleHasNoKind'
  BY <1>2 DEF ClaimsStoreInv, IdleHasNoKind, OnlyClaimThunk
<1>7. MarksHaveCause'
  BY <1>2, <1>3, <1>4 DEF ClaimsStoreInv, MarksHaveCause, OnlyClaimThunk, SetsLoading
<1>. QED
  BY <1>5, <1>6, <1>7 DEF ClaimsStoreInv

\* A request is answered, or checked and sent on: the thunk stays of its kind.
LEMMA ServerSteps ==
  ASSUME ClaimsStoreInv, NEW c \in ClaimCalls, Respond(c) \/ CheckTransition(c) \/ Update(c)
  PROVE  ClaimsStoreInv'
<1>. csCalls[c] \in ClaimThunk /\ csServer \in ClaimStatuses
  BY DEF ClaimsStoreInv, ClaimsStoreTypeOK, ClaimThunk
<1>1. csServer' \in ClaimStatuses
  BY Statuses DEF Respond, CheckTransition, Update, ClaimMoves
<1>2. PICK call \in ClaimThunk : /\ csCalls' = [csCalls EXCEPT ![c] = call]
                                 /\ call.kind = csCalls[c].kind /\ call.at # "idle"
  <2>1. CASE Respond(c)
    <3>1. [csCalls[c] EXCEPT !.at = "answered", !.to = csServer] \in ClaimThunk
      BY DEF ClaimThunk
    <3>. QED
      BY <2>1, <3>1 DEF Respond, ClaimThunk
  <2>2. CASE CheckTransition(c)
    <3>1. [csCalls[c] EXCEPT !.at = "checked"] \in ClaimThunk
      BY DEF ClaimThunk
    <3>. QED
      BY <2>2, <3>1 DEF CheckTransition, ClaimThunk
  <2>3. CASE Update(c)
    <3>1. [csCalls[c] EXCEPT !.at = "answered"] \in ClaimThunk
      BY DEF ClaimThunk
    <3>. QED
      BY <2>3, <3>1 DEF Update, ClaimThunk
  <2>. QED
    BY <2>1, <2>2, <2>3
<1>3. OnlyClaimThunk(c) /\ csCalls'[c] = call
  BY <1>2 DEF ClaimsStoreInv, ClaimsStoreTypeOK, OnlyClaimThunk, ClaimThunk
<1>4. UNCHANGED <<csShown, csPage, csMarks>>
  BY DEF Respond, CheckTransition, Update
<1>5. ClaimsStoreTypeOK'
  BY <1>1, <1>3, <1>4 DEF ClaimsStoreInv, ClaimsStoreTypeOK, OnlyClaimThunk, ClaimThunk, csShown
<1>6. IdleHasNoKind'
  BY <1>2, <1>3 DEF ClaimsStoreInv, IdleHasNoKind, OnlyClaimThunk
<1>7. MarksHaveCause'
  BY <1>2, <1>3, <1>4 DEF ClaimsStoreInv, MarksHaveCause, OnlyClaimThunk
<1>. QED
  BY <1>5, <1>6, <1>7 DEF ClaimsStoreInv

\* Steps that touch no thunk.
LEMMA ClaimsStoreOtherSteps ==
  ASSUME ClaimsStoreInv, FetchCached \/ ChangePage \/ ForgetEntry \/ UNCHANGED csVars
  PROVE  ClaimsStoreInv'
<1>. USE DEF ClaimsStoreInv, ClaimsStoreTypeOK, IdleHasNoKind, MarksHaveCause, csShown
<1>1. CASE FetchCached           BY <1>1 DEF FetchCached, Shown
<1>2. CASE ChangePage            BY <1>2 DEF ChangePage
<1>3. CASE ForgetEntry           BY <1>3 DEF ForgetEntry
<1>4. CASE UNCHANGED csVars      BY <1>4 DEF csVars
<1>. QED
  BY <1>1, <1>2, <1>3, <1>4

LEMMA ClaimsStoreNextInv == ClaimsStoreInv /\ [ClaimsStoreNext]_csVars => ClaimsStoreInv'
BY FinishSteps, DispatchStep, ServerSteps, ClaimsStoreOtherSteps DEF ClaimsStoreNext

-----------------------------------------------------------------------------
\* The slice and every thunk keep their types (claims.reducer.ts).
THEOREM ClaimsStoreTyped == ClaimsStoreSpec => []ClaimsStoreTypeOK
<1>1. ClaimsStoreInv => ClaimsStoreTypeOK
  BY DEF ClaimsStoreInv
<1>. QED
  BY ClaimsStoreInitInv, ClaimsStoreNextInv, <1>1, PTL DEF ClaimsStoreSpec

\* Every mark of claims.reducer.ts, a spinner, a pending update or a progress, has a thunk
\* of its kind under way behind it, whatever order the thunks end in.
THEOREM MarksAlwaysHaveCause == ClaimsStoreSpec => []MarksHaveCause
<1>1. ClaimsStoreInv => MarksHaveCause
  BY DEF ClaimsStoreInv
<1>. QED
  BY ClaimsStoreInitInv, ClaimsStoreNextInv, <1>1, PTL DEF ClaimsStoreSpec

-----------------------------------------------------------------------------
(* The underwriting store                                                  *)

UwUnder(op) == \E c \in UwCalls : wuCalls[c].op = op
Excused == wuWhy \cap {"crossed", "submission", "gave up"} # {}

CachesExplained ==
  (\E k \in UwCaches : wuCaches[k] \in 0..(wuVersion - 1)) => UwUnder("decision") \/ Excused

PendingExplained ==
  \A op \in wuPending :
    UwUnder(op) \/ "rejected" \in wuWhy \/ (op = "queue" /\ "submission" \in wuWhy)

\* An idle slot has no operation, only a submission reads again, a submission is on
\* record, only an attempt that is not the last is repeated, and what was given up and
\* may still be acted on is on record too.
CallShapes ==
  \A c \in UwCalls :
    /\ wuCalls[c].at = "idle" => wuCalls[c].op = "none"
    /\ wuCalls[c].at \in {"reading", "read"} => wuCalls[c].op = "submit"
    /\ wuCalls[c].op = "submit" => "submission" \in wuWhy
    /\ wuCalls[c].at = "backoff" => wuCalls[c].tried < MaxUwRetries

LateIsKnown == wuLate # {} => "gave up" \in wuWhy

WebUnderwritingInv ==
  /\ WebUnderwritingTypeOK
  /\ CallShapes /\ LateIsKnown
  /\ CachesExplained /\ PendingExplained

Caches == [UwCaches -> {-1} \cup Versions]
Reasons == {"crossed", "submission", "gave up", "rejected"}

LEMMA VersionsAreInts == {-1} \cup Versions \subseteq Int /\ Versions \subseteq Int
BY WebUnderwritingAssumption DEF Versions

LEMMA BehindIsOld ==
  ASSUME NEW v \in Int, NEW w \in Int, w \in 0..(v - 1)
  PROVE  w # -1 /\ ~(w >= v)
OBVIOUS

LEMMA NoUwCallType == NoUwCall \in UwCall /\ NoUwCall.op = "none" /\ NoUwCall.at = "idle"
BY WebUnderwritingAssumption DEF NoUwCall, UwCall

LEMMA WebUnderwritingInitInv == WebUnderwritingInit => WebUnderwritingInv
<1>. SUFFICES ASSUME WebUnderwritingInit PROVE WebUnderwritingInv
  OBVIOUS
<1>1. wuCaches \in Caches /\ \A k \in UwCaches : wuCaches[k] = -1
  BY DEF WebUnderwritingInit, Caches
<1>2. wuCalls \in [UwCalls -> UwCall]
  BY NoUwCallType DEF WebUnderwritingInit
<1>3. wuLoading \in BOOLEAN /\ wuStream \in BOOLEAN
  BY Zenon DEF WebUnderwritingInit
<1>4. wuVersion \in Versions /\ wuVersion = 0
  BY WebUnderwritingAssumption DEF WebUnderwritingInit, Versions
<1>5. WebUnderwritingTypeOK
  BY <1>1, <1>2, <1>3, <1>4 DEF WebUnderwritingInit, WebUnderwritingTypeOK, Caches
<1>6. CallShapes
  BY NoUwCallType DEF WebUnderwritingInit, CallShapes
<1>7. CachesExplained
  BY <1>1 DEF CachesExplained
<1>. QED
  BY <1>5, <1>6, <1>7 DEF WebUnderwritingInit, WebUnderwritingInv, LateIsKnown, PendingExplained

-----------------------------------------------------------------------------
\* One thunk moves: the others keep their operations.
LEMMA OneThunk ==
  ASSUME wuCalls \in [UwCalls -> UwCall], NEW c \in UwCalls, NEW call \in UwCall,
         wuCalls' = [wuCalls EXCEPT ![c] = call]
  PROVE  /\ wuCalls' \in [UwCalls -> UwCall] /\ wuCalls'[c] = call
         /\ \A d \in UwCalls \ {c} : wuCalls'[d] = wuCalls[d]
         /\ \A op : UwUnder(op) => UwUnder(op)' \/ wuCalls[c].op = op
         /\ UwUnder(call.op)'
BY DEF UwUnder

ShapeOf(call) ==
  /\ call.at = "idle" => call.op = "none"
  /\ call.at \in {"reading", "read"} => call.op = "submit"
  /\ call.op = "submit" => "submission" \in wuWhy'
  /\ call.at = "backoff" => call.tried < MaxUwRetries

\* A thunk moves: what it leaves on the list must be explained, the caches must be.
LEMMA UwThunkStep ==
  ASSUME WebUnderwritingInv, NEW c \in UwCalls, NEW call \in UwCall,
         wuCalls' = [wuCalls EXCEPT ![c] = call], ShapeOf(call),
         wuVersion' \in Versions, wuShown' \in {-1} \cup Versions,
         wuCaches' \in Caches, wuLoading' \in BOOLEAN, wuStream' \in BOOLEAN,
         wuLate' \subseteq UwOps, wuPending' \subseteq UwOps,
         wuWhy \subseteq wuWhy', wuWhy' \subseteq Reasons,
         wuLate' # {} => wuLate # {} \/ "gave up" \in wuWhy',
         \A op \in wuPending' :
           \/ op \in wuPending /\ wuCalls[c].op # op
           \/ call.op = op \/ "rejected" \in wuWhy'
           \/ op = "queue" /\ "submission" \in wuWhy',
         wuVersion' = wuVersion \/ call.op = "decision" \/ Excused',
         wuCalls[c].op # "decision" \/ call.op = "decision" \/ Excused'
           \/ \A k \in UwCaches : wuCaches'[k] = -1,
         \A k \in UwCaches :
           \/ wuCaches'[k] = -1 \/ \E j \in UwCaches : wuCaches'[k] = wuCaches[j]
           \/ wuCaches'[k] >= wuVersion' \/ Excused'
  PROVE  WebUnderwritingInv'
<1>0. /\ wuCalls' \in [UwCalls -> UwCall] /\ wuCalls'[c] = call
      /\ \A d \in UwCalls \ {c} : wuCalls'[d] = wuCalls[d]
      /\ \A op : UwUnder(op) => UwUnder(op)' \/ wuCalls[c].op = op
      /\ UwUnder(call.op)'
  BY OneThunk DEF WebUnderwritingInv, WebUnderwritingTypeOK
<1>1. WebUnderwritingTypeOK'
  BY <1>0 DEF WebUnderwritingTypeOK, Caches, Reasons
<1>2. CallShapes'
  BY <1>0 DEF CallShapes, ShapeOf, WebUnderwritingInv
<1>3. LateIsKnown'
  BY DEF LateIsKnown, WebUnderwritingInv
<1>4. PendingExplained'
  BY <1>0 DEF PendingExplained, WebUnderwritingInv
<1>5. CachesExplained'
  <2>. SUFFICES ASSUME NEW k \in UwCaches, wuCaches'[k] \in 0..(wuVersion' - 1), ~Excused'
                PROVE  UwUnder("decision")'
    BY DEF CachesExplained
  <2>1. wuVersion' \in Int /\ wuCaches'[k] \in Int /\ wuCaches'[k] # -1 /\ ~(wuCaches'[k] >= wuVersion')
    <3>1. wuCaches'[k] \in {-1} \cup Versions
      BY DEF Caches
    <3>. QED
      BY <3>1, BehindIsOld, VersionsAreInts
  <2>2. CASE call.op = "decision"
    BY <1>0, <2>2
  <2>3. CASE call.op # "decision"
    <3>1. wuVersion' = wuVersion /\ wuCalls[c].op # "decision"
      BY <2>1, <2>3
    <3>2. \E j \in UwCaches : wuCaches[j] \in 0..(wuVersion - 1)
      BY <2>1, <3>1
    <3>3. ~Excused
      BY DEF Excused
    <3>. QED
      BY <1>0, <3>1, <3>2, <3>3 DEF WebUnderwritingInv, CachesExplained
  <2>. QED
    BY <2>2, <2>3
<1>. QED
  BY <1>1, <1>2, <1>3, <1>4, <1>5 DEF WebUnderwritingInv

-----------------------------------------------------------------------------
\* The fields of a call that a move sets.
LEMMA UwPutCall ==
  ASSUME NEW op \in UwOps, NEW at \in {"idle", "sent", "served", "reading", "read", "backoff"}
  PROVE  /\ [NoUwCall EXCEPT !.op = op, !.at = at] \in UwCall
         /\ [NoUwCall EXCEPT !.op = op, !.at = at].op = op
         /\ [NoUwCall EXCEPT !.op = op, !.at = at].at = at
BY NoUwCallType DEF UwCall

LEMMA TurnCall ==
  ASSUME NEW call \in UwCall, NEW at \in {"idle", "sent", "served", "reading", "read", "backoff"}
  PROVE  /\ [call EXCEPT !.at = at] \in UwCall
         /\ [call EXCEPT !.at = at].op = call.op
         /\ [call EXCEPT !.at = at].at = at
         /\ [call EXCEPT !.at = at].tried = call.tried
BY DEF UwCall

\* A thunk begins with no answer to wait for yet: nothing of the caches changes.
LEMMA UwBegins ==
  ASSUME WebUnderwritingInv, NEW c \in UwCalls, NEW op \in UwOps, NEW ops,
         wuCalls[c].at = "idle", UwPut(c, op, "sent"), Pending(ops),
         op \in ops, ops \subseteq UwOps,
         op = "submit" => "submission" \in wuWhy',
         \A o \in ops : o = op \/ (o = "queue" /\ "submission" \in wuWhy'),
         wuStream' \in BOOLEAN, wuWhy \subseteq wuWhy', wuWhy' \subseteq Reasons,
         UNCHANGED <<wuVersion, wuCaches, wuShown, wuLate>>
  PROVE  WebUnderwritingInv'
<1>. DEFINE call == [NoUwCall EXCEPT !.op = op, !.at = "sent"]
<1>1. call \in UwCall /\ call.op = op /\ call.at = "sent"
  BY UwPutCall
<1>2. wuCalls' = [wuCalls EXCEPT ![c] = call]
  BY DEF UwPut
<1>. HIDE DEF call
<1>3. wuCalls[c].op = "none" /\ "none" \notin UwOps
  BY DEF WebUnderwritingInv, CallShapes, UwOps
<1>4. /\ wuVersion' \in Versions /\ wuShown' \in {-1} \cup Versions /\ wuCaches' \in Caches
      /\ wuLate' \subseteq UwOps
  BY DEF WebUnderwritingInv, WebUnderwritingTypeOK, Caches
<1>5. wuPending' = wuPending \cup ops /\ wuPending \subseteq UwOps /\ wuLoading' = TRUE
  BY DEF Pending, WebUnderwritingInv, WebUnderwritingTypeOK
<1>6. wuLoading' \in BOOLEAN
  BY <1>5, Zenon
<1>7. ShapeOf(call)
  BY <1>1 DEF ShapeOf
<1>. QED
  BY <1>1, <1>2, <1>3, <1>4, <1>5, <1>6, <1>7, UwThunkStep

\* The thunks that begin: a fetch that no cache answers, a submission, a decision,
\* an update of the queue.
LEMMA ThunksBegin ==
  ASSUME WebUnderwritingInv, NEW c \in UwCalls,
         \/ FetchRiskAssessment(c) /\ UwCached = -1
         \/ SubmitUnderwritingRequest(c) \/ ProcessUnderwritingDecision(c)
         \/ UpdateUnderwritingQueue(c)
  PROVE  WebUnderwritingInv'
<1>0. wuStream \in BOOLEAN /\ wuWhy \subseteq Reasons
  BY DEF WebUnderwritingInv, WebUnderwritingTypeOK, Reasons
<1>1. CASE FetchRiskAssessment(c) /\ UwCached = -1
  <2>1. UwPut(c, "fetch", "sent") /\ Pending({"fetch"}) /\ wuCalls[c].at = "idle"
        /\ UNCHANGED <<wuVersion, wuCaches, wuShown, wuLate, wuStream, wuWhy>>
    BY <1>1 DEF FetchRiskAssessment
  <2>. QED
    BY <1>0, <2>1, UwBegins DEF UwOps
<1>2. CASE SubmitUnderwritingRequest(c)
  <2>1. wuWhy' = wuWhy \cup {"submission"} /\ wuWhy' \subseteq Reasons
    BY <1>0, <1>2 DEF SubmitUnderwritingRequest, Why, Reasons
  <2>. QED
    BY <1>0, <1>2, <2>1, UwBegins DEF SubmitUnderwritingRequest, UwOps
<1>3. CASE ProcessUnderwritingDecision(c)
  BY <1>0, <1>3, UwBegins DEF ProcessUnderwritingDecision, UwOps
<1>4. CASE UpdateUnderwritingQueue(c)
  <2>1. wuStream' \in BOOLEAN
    BY <1>4, Zenon DEF UpdateUnderwritingQueue
  <2>. QED
    BY <1>0, <1>4, <2>1, UwBegins DEF UpdateUnderwritingQueue, UwOps
<1>. QED
  BY <1>1, <1>2, <1>3, <1>4

-----------------------------------------------------------------------------
\* A thunk is fulfilled: its name leaves the list, and its slot is free again.
LEMMA UwFulfilled ==
  ASSUME WebUnderwritingInv, NEW c \in UwCalls, NEW op \in UwOps, Fulfilled(op), Quit(c),
         wuCalls[c].op \in {"none", op},
         wuShown' \in {-1} \cup Versions, wuCaches' \in Caches, wuStream' \in BOOLEAN,
         wuWhy \subseteq wuWhy', wuWhy' \subseteq Reasons,
         UNCHANGED <<wuVersion, wuLate>>,
         op # "decision" \/ \A k \in UwCaches : wuCaches'[k] = -1,
         \A k \in UwCaches :
           \/ wuCaches'[k] = -1 \/ \E j \in UwCaches : wuCaches'[k] = wuCaches[j]
           \/ wuCaches'[k] >= wuVersion' \/ Excused'
  PROVE  WebUnderwritingInv'
<1>1. wuCalls' = [wuCalls EXCEPT ![c] = NoUwCall] /\ ShapeOf(NoUwCall)
  BY NoUwCallType DEF Quit, ShapeOf
<1>2. /\ wuVersion' \in Versions /\ wuVersion' = wuVersion /\ wuLate' \subseteq UwOps /\ wuLate' = wuLate
  BY DEF WebUnderwritingInv, WebUnderwritingTypeOK
<1>3. wuPending' = wuPending \ {op} /\ wuPending' \subseteq UwOps /\ "none" \notin UwOps
  BY DEF Fulfilled, WebUnderwritingInv, WebUnderwritingTypeOK, UwOps
<1>4. wuLoading' \in BOOLEAN
  BY Zenon DEF Fulfilled
<1>5. \A o \in wuPending' : o \in wuPending /\ wuCalls[c].op # o
  BY <1>3
<1>. QED
  BY <1>1, <1>2, <1>3, <1>4, <1>5, NoUwCallType, UwThunkStep

LEMMA ThunksFulfilled ==
  ASSUME WebUnderwritingInv, NEW c \in UwCalls,
         \/ FetchRiskAssessment(c) /\ UwCached # -1
         \/ FetchAnswered(c)
         \/ SubmissionAnswered(c) /\ wuCaches["service"] # -1
         \/ AssessmentRead(c) \/ DecisionAnswered(c) \/ QueueAnswered(c)
  PROVE  WebUnderwritingInv'
<1>0. /\ wuStream \in BOOLEAN /\ wuWhy \subseteq Reasons /\ wuCaches \in Caches
      /\ wuShown \in {-1} \cup Versions /\ wuVersion \in Versions
      /\ wuCalls[c].saw \in {-1} \cup Versions
  BY DEF WebUnderwritingInv, WebUnderwritingTypeOK, Reasons, Caches, UwCall
<1>1. CASE FetchRiskAssessment(c) /\ UwCached # -1
  <2>1. wuCaches' = [wuCaches EXCEPT !["thunk"] = UwCached] /\ wuShown' = UwCached /\ Fulfilled("fetch")
        /\ Quit(c) /\ wuCalls[c].at = "idle" /\ UNCHANGED <<wuVersion, wuLate, wuStream, wuWhy>>
    BY <1>1 DEF FetchRiskAssessment, Found
  <2>2. \E j \in UwCaches : UwCached = wuCaches[j]
    BY DEF UwCached, UwCaches
  <2>3. wuCaches' \in Caches /\ wuShown' \in {-1} \cup Versions
        /\ \A k \in UwCaches : \E j \in UwCaches : wuCaches'[k] = wuCaches[j]
    BY <1>0, <2>1, <2>2 DEF Caches
  <2>4. wuCalls[c].op = "none"
    BY <2>1 DEF WebUnderwritingInv, CallShapes
  <2>. QED
    BY <1>0, <2>1, <2>3, <2>4, UwFulfilled DEF UwOps
<1>2. CASE FetchAnswered(c)
  <2>1. /\ Is(c, "fetch", "served") /\ wuCaches' = [k \in UwCaches |-> wuCalls[c].saw]
        /\ wuShown' = wuCalls[c].saw /\ Fulfilled("fetch") /\ Quit(c)
        /\ Why(IF wuCalls[c].saw < wuVersion THEN {"crossed"} ELSE {})
        /\ UNCHANGED <<wuVersion, wuLate, wuStream>>
    BY <1>2 DEF FetchAnswered
  <2>2. wuCaches' \in Caches /\ wuShown' \in {-1} \cup Versions
    BY <1>0, <2>1 DEF Caches
  <2>3. wuWhy \subseteq wuWhy' /\ wuWhy' \subseteq Reasons
        /\ (wuCalls[c].saw < wuVersion => Excused')
    BY <1>0, <2>1 DEF Why, Reasons, Excused
  <2>4. \A k \in UwCaches : wuCaches'[k] >= wuVersion' \/ Excused'
    BY <1>0, <2>1, <2>3 DEF Versions
  <2>. QED
    BY <1>0, <2>1, <2>2, <2>3, <2>4, UwFulfilled DEF Is, UwOps
<1>3. CASE \/ SubmissionAnswered(c) /\ wuCaches["service"] # -1
           \/ AssessmentRead(c)
  <2>1. PICK v \in {-1} \cup Versions :
          /\ wuCaches' = [wuCaches EXCEPT !["thunk"] = v] \/ wuCaches' = [k \in UwCaches |-> v]
          /\ EndSubmission(c, v) /\ UNCHANGED <<wuVersion, wuLate>> /\ wuCalls[c].op = "submit"
    <3>1. wuCaches["service"] \in {-1} \cup Versions
      BY <1>0 DEF Caches, UwCaches
    <3>. QED
      BY <1>0, <1>3, <3>1 DEF SubmissionAnswered, AssessmentRead, Is
  <2>2. wuCaches' \in Caches
    BY <1>0, <2>1 DEF Caches
  <2>3. wuWhy \subseteq wuWhy' /\ wuWhy' \subseteq Reasons /\ Excused'
    BY <1>0, <2>1 DEF EndSubmission, Why, Reasons, Excused
  <2>4. wuStream' \in BOOLEAN
    BY <2>1, Zenon DEF EndSubmission
  <2>. QED
    BY <1>0, <2>1, <2>2, <2>3, <2>4, UwFulfilled DEF EndSubmission, UwOps
<1>4. CASE DecisionAnswered(c)
  <2>1. wuCaches' \in Caches /\ \A k \in UwCaches : wuCaches'[k] = -1
    BY <1>4 DEF DecisionAnswered, Caches
  <2>2. wuStream' \in BOOLEAN
    BY <1>4, Zenon DEF DecisionAnswered
  <2>. QED
    BY <1>0, <1>4, <2>1, <2>2, UwFulfilled DEF DecisionAnswered, Is, UwOps
<1>5. CASE QueueAnswered(c)
  BY <1>0, <1>5, UwFulfilled DEF QueueAnswered, Is, UwOps
<1>. QED
  BY <1>1, <1>2, <1>3, <1>4, <1>5

-----------------------------------------------------------------------------
\* A thunk goes on: nothing of the slice or the caches changes, and it keeps its name.
LEMMA UwGoesOn ==
  ASSUME WebUnderwritingInv, NEW c \in UwCalls, NEW call \in UwCall,
         wuCalls' = [wuCalls EXCEPT ![c] = call],
         call.op = wuCalls[c].op, call.at # "idle",
         call.at \in {"reading", "read"} => call.op = "submit",
         call.at = "backoff" => call.tried < MaxUwRetries,
         wuVersion' \in Versions,
         wuVersion' = wuVersion \/ call.op \in {"submit", "decision"},
         wuLate' \subseteq UwOps, wuLate' # {} => wuLate # {} \/ "gave up" \in wuWhy',
         wuWhy \subseteq wuWhy', wuWhy' \subseteq Reasons,
         UNCHANGED <<wuCaches, wuSlice, wuStream>>
  PROVE  WebUnderwritingInv'
<1>1. call.op = "submit" => "submission" \in wuWhy /\ Excused'
  BY DEF WebUnderwritingInv, CallShapes, Excused
<1>2. ShapeOf(call)
  BY <1>1 DEF ShapeOf
<1>3. /\ wuShown' \in {-1} \cup Versions /\ wuCaches' \in Caches /\ wuLoading' \in BOOLEAN
      /\ wuStream' \in BOOLEAN /\ wuPending' \subseteq UwOps /\ wuPending' = wuPending /\ wuCaches' = wuCaches
  BY DEF WebUnderwritingInv, WebUnderwritingTypeOK, wuSlice, Caches
<1>4. wuCalls' \in [UwCalls -> UwCall] /\ wuCalls'[c] = call
  BY OneThunk DEF WebUnderwritingInv, WebUnderwritingTypeOK
<1>. QED
  BY <1>1, <1>2, <1>3, UwThunkStep

\* A name on the list stays explained by the thunk that keeps it.
LEMMA ThunksGoOn ==
  ASSUME WebUnderwritingInv, NEW c \in UwCalls,
         \/ SubmissionAnswered(c) /\ wuCaches["service"] = -1
         \/ AttemptFails(c) \/ Retries(c) \/ UwServe(c)
  PROVE  WebUnderwritingInv'
<1>0. /\ wuWhy \subseteq Reasons /\ wuCalls[c] \in UwCall /\ wuLate \subseteq UwOps /\ wuVersion \in Versions
  BY DEF WebUnderwritingInv, WebUnderwritingTypeOK, Reasons
<1>1. CASE SubmissionAnswered(c) /\ wuCaches["service"] = -1
  <2>. DEFINE call == [wuCalls[c] EXCEPT !.at = "reading"]
  <2>1. /\ wuCalls' = [wuCalls EXCEPT ![c] = call] /\ wuCalls[c].op = "submit"
        /\ UNCHANGED <<wuVersion, wuLate, wuStream, wuSlice, wuWhy, wuCaches>>
    BY <1>1 DEF SubmissionAnswered, Turn, Is
  <2>2. call \in UwCall /\ call.op = wuCalls[c].op /\ call.at = "reading"
    BY <1>0, TurnCall
  <2>. HIDE DEF call
  <2>. QED
    BY <1>0, <2>1, <2>2, UwGoesOn
<1>2. CASE AttemptFails(c)
  <2>1. wuCalls' = [wuCalls EXCEPT ![c] = [wuCalls[c] EXCEPT !.at = "backoff"]]
    BY <1>2 DEF AttemptFails, Turn
  <2>2. wuWhy \subseteq wuWhy' /\ wuWhy' \subseteq Reasons /\ (Changes(c) => "gave up" \in wuWhy')
    BY <1>0, <1>2 DEF AttemptFails, Why, Reasons
  <2>3. wuLate' \subseteq UwOps /\ (wuLate' # {} => wuLate # {} \/ "gave up" \in wuWhy')
    BY <1>0, <1>2, <2>2 DEF AttemptFails, Fails, Abandons, Changes, UwOps
  <2>. QED
    BY <1>0, <1>2, <2>1, <2>2, <2>3, TurnCall, UwGoesOn DEF AttemptFails
<1>3. CASE Retries(c)
  <2>. DEFINE call == [wuCalls[c] EXCEPT !.at = "sent", !.tried = wuCalls[c].tried + 1, !.saw = -1]
  <2>1. wuCalls' = [wuCalls EXCEPT ![c] = call]
    BY <1>3 DEF Retries
  <2>2. call.op = wuCalls[c].op /\ call.at = "sent"
    BY <1>0 DEF UwCall
  <2>3. call \in UwCall
    <3>1. wuCalls[c].tried \in 0..MaxUwRetries /\ wuCalls[c].tried < MaxUwRetries
      BY <1>0, <1>3 DEF Retries, WebUnderwritingInv, CallShapes, UwCall
    <3>2. wuCalls[c].tried + 1 \in 0..MaxUwRetries
      BY <3>1, WebUnderwritingAssumption
    <3>. QED
      BY <1>0, <3>2 DEF UwCall
  <2>. HIDE DEF call
  <2>. QED
    BY <1>0, <1>3, <2>1, <2>2, <2>3, UwGoesOn DEF Retries
<1>4. CASE UwServe(c)
  <2>. DEFINE at == IF wuCalls[c].at = "sent" THEN "served" ELSE "read"
              call == [wuCalls[c] EXCEPT !.at = at, !.saw = wuVersion']
  <2>1. wuCalls' = [wuCalls EXCEPT ![c] = call] /\ wuVersion' \in Versions
    BY <1>4 DEF UwServe
  <2>2. call \in UwCall /\ call.op = wuCalls[c].op /\ call.at = at
    BY <1>0, <2>1 DEF UwCall
  <2>3. wuVersion' = wuVersion \/ (wuCalls[c].at = "sent" /\ wuCalls[c].op \in {"submit", "decision"})
    BY <1>4 DEF UwServe, NextVersion
  <2>4. wuCalls[c].at # "sent" => wuCalls[c].op = "submit"
    BY <1>4 DEF UwServe, WebUnderwritingInv, CallShapes
  <2>5. at \notin {"idle", "backoff", "reading"} /\ (at = "read" => wuCalls[c].op = "submit")
    BY <2>4
  <2>. HIDE DEF call, at
  <2>. QED
    BY <1>0, <1>4, <2>1, <2>2, <2>3, <2>5, UwGoesOn DEF UwServe
<1>. QED
  BY <1>1, <1>2, <1>3, <1>4

\* A thunk fails for good: the rejection explains what it leaves on the list.
LEMMA ThunkFailsStep ==
  ASSUME WebUnderwritingInv, NEW c \in UwCalls, ThunkFails(c)
  PROVE  WebUnderwritingInv'
<1>0. /\ wuWhy \subseteq Reasons /\ wuLate \subseteq UwOps /\ wuVersion \in Versions
      /\ wuCaches \in Caches /\ wuShown \in {-1} \cup Versions /\ wuStream \in BOOLEAN
      /\ wuPending \subseteq UwOps
  BY DEF WebUnderwritingInv, WebUnderwritingTypeOK, Reasons, Caches
<1>1. wuCalls' = [wuCalls EXCEPT ![c] = NoUwCall] /\ ShapeOf(NoUwCall)
  BY NoUwCallType DEF ThunkFails, Quit, ShapeOf
<1>2. wuWhy \subseteq wuWhy' /\ wuWhy' \subseteq Reasons /\ "rejected" \in wuWhy'
      /\ (Changes(c) => "gave up" \in wuWhy')
  BY <1>0 DEF ThunkFails, Why, Reasons
<1>3. wuLate' \subseteq UwOps /\ (wuLate' # {} => wuLate # {} \/ "gave up" \in wuWhy')
  BY <1>0, <1>2 DEF ThunkFails, Fails, Abandons, Changes, UwOps
<1>4. wuCalls[c].op = "decision" => Excused'
  <2>1. wuCalls[c].op = "decision" => Changes(c)
    BY DEF ThunkFails, Fails, Changes, WebUnderwritingInv, CallShapes
  <2>. QED
    BY <1>2, <2>1 DEF Excused
<1>5. wuPending' \subseteq UwOps
  BY <1>0 DEF ThunkFails, UwRejected
<1>6. wuLoading' \in BOOLEAN
  BY Zenon DEF ThunkFails, UwRejected
<1>7. UNCHANGED <<wuVersion, wuCaches, wuShown, wuStream>>
  BY DEF ThunkFails
<1>. QED
  BY <1>0, <1>1, <1>2, <1>3, <1>4, <1>5, <1>6, <1>7, NoUwCallType, UwThunkStep

\* The stream is dropped, an abandoned request is acted on, a cache entry expires.
LEMMA TimePasses ==
  ASSUME WebUnderwritingInv,
         InvalidateQueueCache \/ ServeLate \/ CacheExpires \/ UNCHANGED wuVars
  PROVE  WebUnderwritingInv'
<1>1. UNCHANGED <<wuCalls, wuWhy, wuSlice>>
  BY DEF InvalidateQueueCache, ServeLate, CacheExpires, wuVars
<1>2. CallShapes' /\ PendingExplained' /\ (UwUnder("decision")' <=> UwUnder("decision")) /\ (Excused' <=> Excused)
  BY <1>1 DEF WebUnderwritingInv, CallShapes, PendingExplained, UwUnder, Excused, wuSlice
<1>3. CASE InvalidateQueueCache \/ UNCHANGED wuVars
  <2>1. wuStream' \in BOOLEAN
    BY <1>3, Zenon DEF InvalidateQueueCache, wuVars, WebUnderwritingInv, WebUnderwritingTypeOK
  <2>2. UNCHANGED <<wuVersion, wuCaches, wuLate>>
    BY <1>3 DEF InvalidateQueueCache, wuVars
  <2>. QED
    BY <1>1, <1>2, <2>1, <2>2 DEF WebUnderwritingInv, WebUnderwritingTypeOK, wuSlice, LateIsKnown, CachesExplained
<1>4. CASE ServeLate
  <2>1. wuVersion' \in Versions /\ wuLate' \subseteq wuLate /\ wuLate # {} /\ UNCHANGED <<wuCaches, wuStream>>
    BY <1>4 DEF ServeLate
  <2>2. "gave up" \in wuWhy /\ Excused
    BY <2>1 DEF WebUnderwritingInv, LateIsKnown, Excused
  <2>. QED
    BY <1>1, <1>2, <2>1, <2>2 DEF WebUnderwritingInv, WebUnderwritingTypeOK, wuSlice, LateIsKnown, CachesExplained
<1>5. CASE CacheExpires
  <2>1. PICK k \in UwCaches : wuCaches' = [wuCaches EXCEPT ![k] = -1]
                              /\ UNCHANGED <<wuVersion, wuLate, wuStream>>
    BY <1>5 DEF CacheExpires
  <2>2. wuCaches \in Caches /\ wuVersion \in Versions
    BY DEF WebUnderwritingInv, WebUnderwritingTypeOK, Caches
  <2>3. wuCaches' \in Caches /\ \A j \in UwCaches : wuCaches'[j] = wuCaches[j] \/ wuCaches'[j] = -1
    BY <2>1, <2>2 DEF Caches
  <2>4. \A j \in UwCaches : wuCaches'[j] \in 0..(wuVersion' - 1) => wuCaches[j] \in 0..(wuVersion - 1)
    BY <2>1, <2>2, <2>3 DEF Versions
  <2>5. CachesExplained'
    BY <1>2, <2>4 DEF CachesExplained, WebUnderwritingInv
  <2>. QED
    BY <1>1, <1>2, <2>1, <2>3, <2>5 DEF WebUnderwritingInv, WebUnderwritingTypeOK, wuSlice, LateIsKnown, Caches
<1>. QED
  BY <1>3, <1>4, <1>5

LEMMA WebUnderwritingNextInv ==
  WebUnderwritingInv /\ [WebUnderwritingNext]_wuVars => WebUnderwritingInv'
<1>. SUFFICES ASSUME WebUnderwritingInv, [WebUnderwritingNext]_wuVars PROVE WebUnderwritingInv'
  OBVIOUS
<1>1. ASSUME NEW c \in UwCalls, FetchRiskAssessment(c) \/ SubmissionAnswered(c) PROVE WebUnderwritingInv'
  BY <1>1, ThunksBegin, ThunksFulfilled, ThunksGoOn
<1>3. ASSUME NEW c \in UwCalls,
             \/ FetchAnswered(c) \/ SubmitUnderwritingRequest(c) \/ AssessmentRead(c)
             \/ ProcessUnderwritingDecision(c) \/ DecisionAnswered(c)
             \/ UpdateUnderwritingQueue(c) \/ QueueAnswered(c)
      PROVE  WebUnderwritingInv'
  BY <1>3, ThunksBegin, ThunksFulfilled
<1>4. ASSUME NEW c \in UwCalls, AttemptFails(c) \/ Retries(c) \/ ThunkFails(c) \/ UwServe(c)
      PROVE  WebUnderwritingInv'
  BY <1>4, ThunksGoOn, ThunkFailsStep
<1>5. CASE InvalidateQueueCache \/ ServeLate \/ CacheExpires \/ UNCHANGED wuVars
  BY <1>5, TimePasses
<1>6. CASE WebUnderwritingNext /\ ~(InvalidateQueueCache \/ ServeLate \/ CacheExpires)
  <2>1. PICK c \in UwCalls :
          \/ FetchRiskAssessment(c) \/ FetchAnswered(c)
          \/ SubmitUnderwritingRequest(c) \/ SubmissionAnswered(c) \/ AssessmentRead(c)
          \/ ProcessUnderwritingDecision(c) \/ DecisionAnswered(c)
          \/ UpdateUnderwritingQueue(c) \/ QueueAnswered(c)
          \/ AttemptFails(c) \/ Retries(c) \/ ThunkFails(c) \/ UwServe(c)
    BY <1>6, Zenon DEF WebUnderwritingNext
  <2>. QED
    BY <2>1, <1>1, <1>3, <1>4
<1>. QED
  BY <1>5, <1>6

-----------------------------------------------------------------------------
\* The caches, the slice and the thunks of the risk assessment (underwriting.actions.ts)
\* are of their types.
THEOREM WebUnderwritingTyped == WebUnderwritingSpec => []WebUnderwritingTypeOK
<1>1. WebUnderwritingInv => WebUnderwritingTypeOK
  BY DEF WebUnderwritingInv
<1>. QED
  BY WebUnderwritingInitInv, WebUnderwritingNextInv, <1>1, PTL DEF WebUnderwritingSpec

\* A cache is behind the server, and an operation is listed as pending, only for the
\* reasons given (underwriting.service.ts:99, underwriting.reducer.ts:153).
THEOREM UnderwritingAlwaysExplained == WebUnderwritingSpec => []UnderwritingExplained
<1>1. WebUnderwritingInv => UnderwritingExplained
  BY DEF WebUnderwritingInv, UnderwritingExplained, CachesExplained, PendingExplained, UwUnder, Excused
<1>. QED
  BY WebUnderwritingInitInv, WebUnderwritingNextInv, <1>1, PTL DEF WebUnderwritingSpec
=============================================================================
