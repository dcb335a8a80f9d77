----------------------------- MODULE WebSession -----------------------------
(***************************************************************************)
(* The session of one browser: the tokens that auth.service.ts holds, keeps *)
(* in the session storage and renews by a timer, the slice that the thunks  *)
(* of auth.actions.ts fill, the state of one component's useAuth, and the   *)
(* code entry of MFAVerification.tsx.                                       *)
(*                                                                          *)
(* A call is one request under way.  logSecurityEvent, which the thunks     *)
(* call after each answer and no file defines, may throw: the thunk is then *)
(* rejected although the service has the session.                           *)
(***************************************************************************)
EXTENDS Naturals

CONSTANT SessionCalls     \* slots for requests

MAX_ATTEMPTS == 3

VARIABLES
  wsReady,      \* initializeService is over
  wsTokens,     \* currentTokens, the tokens in the storage, currentUser
  wsTimer,      \* tokenRefreshTimeout is armed
  wsCalls,      \* the requests under way
  wsLockedOut,  \* loginAttempts of the user's address: five, or fewer
  wsSlice,      \* the slice: status, loading
  wsHook,       \* authState.status of a component
  wsMfa,        \* the code entry: attempts, and whether it is blocked
  wsLast,       \* history: which of login and logout was completed last
  wsWhy         \* history since the tokens were set: what crossed or failed

wsService == <<wsReady, wsTokens, wsTimer, wsLockedOut>>
wsShown == <<wsSlice, wsHook, wsMfa>>
wsHistory == <<wsLast, wsWhy>>
wsVars == <<wsService, wsCalls, wsShown, wsHistory>>

AuthStatuses == {"unauthenticated", "mfa_required", "authenticated"}
SessionRequests == {"none", "login", "mfa", "refresh", "logout"}

WebSessionInit ==
  /\ wsReady = FALSE /\ wsTimer = FALSE /\ wsLockedOut = FALSE
  /\ \E stored \in BOOLEAN : wsTokens = [held |-> FALSE, stored |-> stored, user |-> FALSE]
  /\ wsCalls = [c \in SessionCalls |-> "none"]
  /\ wsSlice = [status |-> "unauthenticated", loading |-> FALSE]
  /\ wsHook = "unauthenticated" /\ wsMfa = [attempts |-> 0, blocked |-> FALSE]
  /\ wsLast = "out" /\ wsWhy = {"restored"}

UnderWay(op) == \E c \in SessionCalls : wsCalls[c] = op
Sends(c, op) == wsCalls[c] = "none" /\ wsCalls' = [wsCalls EXCEPT ![c] = op]
Ended(c, op) == wsCalls[c] = op /\ wsCalls' = [wsCalls EXCEPT ![c] = "none"]

\* The case of a pending thunk, and of one that ended.
SlicePending == wsSlice' = [wsSlice EXCEPT !.loading = TRUE]
SliceEnded(statuses) == \E s \in statuses : wsSlice' = [status |-> s, loading |-> FALSE]

\* A timer that is armed is cleared first: there is one at most.
SetupTokenRefresh == wsTimer' = TRUE

\* setAuthTokens, and the refresh of the tokens set up again.
SetTokens(user) ==
  /\ wsTokens' = [held |-> TRUE, stored |-> TRUE, user |-> user]
  /\ SetupTokenRefresh

-----------------------------------------------------------------------------
\* initializeService: tokens of the storage are taken over, without a user.
InitializeService ==
  /\ ~wsReady /\ wsReady' = TRUE
  /\ IF wsTokens.stored
     THEN wsTokens' = [wsTokens EXCEPT !.held = TRUE] /\ SetupTokenRefresh
     ELSE UNCHANGED <<wsTokens, wsTimer>>
  /\ UNCHANGED <<wsLockedOut, wsCalls, wsShown, wsHistory>>

\* getAuthTokens of an expired entry removes it; the service keeps its own copy.
StoredTokensExpire ==
  /\ wsTokens.stored /\ wsTokens' = [wsTokens EXCEPT !.stored = FALSE]
  /\ UNCHANGED <<wsReady, wsTimer, wsLockedOut, wsCalls, wsShown, wsHistory>>

\* authenticateUser, through the thunk loginUser: after five refusals nothing is sent.
AuthenticateUser(c) ==
  /\ ~wsLockedOut /\ Sends(c, "login") /\ SlicePending
  /\ UNCHANGED <<wsService, wsHook, wsMfa, wsHistory>>

LockedOut ==
  /\ wsLockedOut /\ SliceEnded({"unauthenticated"})
  /\ UNCHANGED <<wsService, wsCalls, wsHook, wsMfa, wsHistory>>

\* A refusal is counted, and may be the fifth; a request that got no answer is not.
LoginRefused(c) ==
  /\ Ended(c, "login") /\ SliceEnded({"unauthenticated"})
  /\ wsLockedOut' \in {wsLockedOut, TRUE}
  /\ UNCHANGED <<wsReady, wsTokens, wsTimer, wsHook, wsMfa, wsHistory>>

MFARequired(c) ==
  /\ Ended(c, "login") /\ SliceEnded({"mfa_required", "unauthenticated"})
  /\ wsHook' \in {wsHook, "mfa_required"}
  /\ UNCHANGED <<wsService, wsMfa, wsHistory>>

SignedIn(c, op) ==
  /\ Ended(c, op) /\ SetTokens(TRUE)
  /\ SliceEnded({"authenticated", IF op = "login" THEN "unauthenticated" ELSE wsSlice.status})
  /\ wsHook' \in {wsHook, "authenticated"}
  /\ wsLast' = "in" /\ wsWhy' = {}
  /\ UNCHANGED <<wsReady, wsLockedOut, wsMfa>>

LoginAnswered(c) == SignedIn(c, "login")

\* verifyMFA, sent by the code entry unless it is blocked.
VerifyMFA(c) ==
  /\ ~wsMfa.blocked /\ Sends(c, "mfa") /\ SlicePending
  /\ UNCHANGED <<wsService, wsHook, wsMfa, wsHistory>>

MFAAnswered(c) == SignedIn(c, "mfa")

\* The third refusal blocks the entry for five minutes; answers of entries made
\* before are counted on.
MFARefused(c) ==
  /\ Ended(c, "mfa") /\ SliceEnded({wsSlice.status})
  /\ LET attempts == IF wsMfa.attempts < MAX_ATTEMPTS THEN wsMfa.attempts + 1 ELSE MAX_ATTEMPTS
     IN  wsMfa' = [attempts |-> attempts, blocked |-> attempts = MAX_ATTEMPTS]
  /\ UNCHANGED <<wsService, wsHook, wsHistory>>

UnblockMFA ==
  /\ wsMfa.blocked /\ wsMfa' = [attempts |-> 0, blocked |-> FALSE]
  /\ UNCHANGED <<wsService, wsCalls, wsSlice, wsHook, wsHistory>>

-----------------------------------------------------------------------------
\* What a logout clears once its request is answered, or when there is no token.
Clears ==
  /\ wsTokens' = [held |-> FALSE, stored |-> FALSE, user |-> FALSE]
  /\ wsTimer' = FALSE /\ wsLast' = "out"

\* handleLogout: the tokens are cleared after the request only.
HandleLogout(c) ==
  IF wsTokens.held
  THEN Sends(c, "logout") /\ UNCHANGED <<wsTokens, wsTimer, wsHistory>>
  ELSE wsCalls[c] = "none" /\ Clears /\ UNCHANGED <<wsCalls, wsWhy>>

\* A user, or an hour without activity, ends the session.
Logout(c) ==
  /\ HandleLogout(c)
  /\ UNCHANGED <<wsReady, wsLockedOut, wsShown>>

LogoutAnswered(c) ==
  /\ Ended(c, "logout") /\ Clears
  /\ wsWhy' = IF UnderWay("refresh") THEN {"crossed"} ELSE {}
  /\ wsHook' \in {wsHook, "unauthenticated"}
  /\ wsSlice' \in {wsSlice, [wsSlice EXCEPT !.status = "unauthenticated"]}
  /\ UNCHANGED <<wsReady, wsLockedOut, wsMfa>>

\* The request failed: nothing is cleared.
LogoutFails(c) ==
  /\ Ended(c, "logout") /\ wsWhy' = wsWhy \cup {"logout failed"}
  /\ UNCHANGED <<wsService, wsShown, wsLast>>

-----------------------------------------------------------------------------
\* The timer: handleTokenRefresh.
HandleTokenRefresh(c) ==
  /\ wsTimer /\ wsTimer' = FALSE
  /\ wsTokens.held /\ Sends(c, "refresh")
  /\ UNCHANGED <<wsReady, wsTokens, wsLockedOut, wsShown, wsHistory>>

\* Mutant: the timer is not armed again.
TokensRefreshedOnce(c) ==
  /\ Ended(c, "refresh")
  /\ wsTokens' = [wsTokens EXCEPT !.held = TRUE, !.stored = TRUE]
  /\ wsWhy' = wsWhy \ {"logout failed"}
  /\ UNCHANGED <<wsReady, wsTimer, wsLockedOut, wsShown, wsLast>>

\* New tokens, whatever has become of the session since the request was sent.
TokensRefreshed(c) ==
  /\ Ended(c, "refresh") /\ SetTokens(wsTokens.user)
  /\ wsWhy' = wsWhy \ {"logout failed"}
  /\ UNCHANGED <<wsReady, wsLockedOut, wsShown, wsLast>>

\* A refresh that failed ends the session; the views are not told.
TokensNotRefreshed(c) ==
  /\ wsCalls[c] = "refresh"
  /\ IF wsTokens.held
     THEN wsCalls' = [wsCalls EXCEPT ![c] = "logout"] /\ UNCHANGED <<wsTokens, wsTimer, wsHistory>>
     ELSE wsCalls' = [wsCalls EXCEPT ![c] = "none"] /\ Clears /\ UNCHANGED wsWhy
  /\ UNCHANGED <<wsReady, wsLockedOut, wsShown>>

WebSessionNext ==
  \/ InitializeService \/ StoredTokensExpire \/ LockedOut \/ UnblockMFA
  \/ \E c \in SessionCalls :
       \/ AuthenticateUser(c) \/ LoginRefused(c) \/ MFARequired(c) \/ LoginAnswered(c)
       \/ VerifyMFA(c) \/ MFAAnswered(c) \/ MFARefused(c)
       \/ Logout(c) \/ LogoutAnswered(c) \/ LogoutFails(c)
       \/ HandleTokenRefresh(c) \/ TokensRefreshed(c) \/ TokensNotRefreshed(c)

WebSessionSpec == WebSessionInit /\ [][WebSessionNext]_wsVars

-----------------------------------------------------------------------------
\* The tokens, the requests and the views are of their types.
WebSessionTypeOK ==
  /\ wsReady \in BOOLEAN /\ wsTimer \in BOOLEAN
  /\ wsTokens \in [held : BOOLEAN, stored : BOOLEAN, user : BOOLEAN]
  /\ wsCalls \in [SessionCalls -> SessionRequests]
  /\ wsLockedOut \in BOOLEAN
  /\ wsSlice \in [status : AuthStatuses, loading : BOOLEAN] /\ wsHook \in AuthStatuses
  /\ wsMfa \in [attempts : 0..MAX_ATTEMPTS, blocked : BOOLEAN]
  /\ wsLast \in {"in", "out"} /\ wsWhy \subseteq {"restored", "crossed", "logout failed"}

\* Tokens that are held will be renewed: the timer is armed or a request that
\* arms or clears it is under way, unless a logout failed (auth.service.ts:225,
\* :251).  And tokens are held after a logout only if they came from the storage,
\* or a refresh crossed that logout (auth.service.ts:216).
TokensExplained ==
  wsTokens.held =>
    /\ wsTimer \/ UnderWay("refresh") \/ UnderWay("logout") \/ "logout failed" \in wsWhy
    /\ wsLast = "out" => wsWhy \cap {"restored", "crossed"} # {}
=============================================================================
