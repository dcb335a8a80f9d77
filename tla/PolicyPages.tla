----------------------------- MODULE PolicyPages -----------------------------
(***************************************************************************)
(* The hook usePolicies as the list page and the details page use it: when  *)
(* it fetches, retries and refreshes.                                       *)
(*                                                                          *)
(* A callback of the hook sees lastFetchTime and retryCount as they were at *)
(* the render it was made in; an effect runs after a render that made it a  *)
(* new callback.  A render follows a change of state at once, so only calls *)
(* that wait across renders, the runs, see old values.                      *)
(***************************************************************************)
EXTENDS Integers

CONSTANTS
  Runs,            \* concurrent calls of fetchPolicies that wait for an answer
  RetryAttempts,   \* retryAttempts
  MaxRetryCount    \* bound: retryCount

ASSUME PolicyPagesAssumption == RetryAttempts \in Nat /\ MaxRetryCount \in Nat

VARIABLES
  pgPage,      \* "list": autoFetch and an interval; "details": autoFetch off
  pgMounted,   \* the page is on the screen
  pgLast,      \* lastFetchTime: "zero", "fresh", or "stale" after cacheTimeout
  pgRetry,     \* retryCount
  pgDue,       \* the callbacks are new, and the page's effect has not run yet
  pgRuns,      \* the runs: what each waits for and its retryCount
  pgWanted     \* history: the list page's interval wants a fetch: none begun, none answered since

pgVars == <<pgPage, pgMounted, pgLast, pgRetry, pgDue, pgRuns, pgWanted>>

NoRun == [at |-> "idle", retry |-> 0]

PolicyPagesInit ==
  /\ pgPage \in {"list", "details"} /\ pgMounted = TRUE
  /\ pgLast = "zero" /\ pgRetry = 0
  /\ pgDue = TRUE
  /\ pgRuns = [r \in Runs |-> NoRun]
  /\ pgWanted = FALSE


\* fetchPolicies as made by the last render: nothing while the last fetch is
\* fresh, else the thunk is dispatched.
HookFetches ==
  \/ pgLast = "fresh" /\ UNCHANGED <<pgRuns, pgWanted>>
  \/ /\ pgLast # "fresh"
     /\ \E r \in Runs :
          /\ pgRuns[r].at = "idle"
          /\ pgRuns' = [pgRuns EXCEPT ![r] = [at |-> "fetching", retry |-> pgRetry]]
     /\ pgWanted' = FALSE

\* refreshPolicies: the reset is seen by the next render's fetchPolicies, not by
\* the one that is called.
RefreshPolicies ==
  /\ HookFetches
  /\ pgLast' = "zero"
  /\ pgDue' = (pgLast # "zero")

\* The effect of the page after a render with new callbacks: the hook's own fetch
\* on the list page, a refresh on the details page.
Effect ==
  /\ pgMounted /\ pgDue
  /\ \/ pgPage = "list" /\ HookFetches /\ pgDue' = FALSE /\ UNCHANGED pgLast
     \/ pgPage = "details" /\ RefreshPolicies
  /\ UNCHANGED <<pgPage, pgMounted, pgRetry>>

\* Mutant: lastFetchTime is not reset.
TickWithoutReset ==
  /\ pgMounted /\ pgPage = "list" /\ ~pgDue
  /\ \/ pgLast = "fresh" /\ pgWanted' = TRUE /\ UNCHANGED pgRuns
     \/ pgLast # "fresh" /\ HookFetches
  /\ UNCHANGED <<pgPage, pgMounted, pgLast, pgRetry, pgDue>>

\* The list page's interval, every 30 s.
Tick ==
  /\ pgMounted /\ pgPage = "list" /\ ~pgDue
  /\ pgLast' = "zero" /\ pgDue' = (pgLast # "zero")
  /\ \/ pgLast = "fresh" /\ pgWanted' = TRUE /\ UNCHANGED pgRuns
     \/ pgLast # "fresh" /\ HookFetches
  /\ UNCHANGED <<pgPage, pgMounted, pgRetry>>

\* createPolicy, updatePolicy or bindPolicy of the hook was answered.
AfterChange ==
  /\ pgMounted /\ ~pgDue
  /\ HookFetches
  /\ UNCHANGED <<pgPage, pgMounted, pgLast, pgRetry, pgDue>>

RunAnswered(r) ==
  /\ pgRuns[r].at = "fetching"
  /\ pgRuns' = [pgRuns EXCEPT ![r] = NoRun]
  /\ IF pgMounted THEN pgLast' = "fresh" /\ pgRetry' = 0 /\ pgDue' = TRUE
     ELSE UNCHANGED <<pgLast, pgRetry, pgDue>>
  /\ pgWanted' = FALSE
  /\ UNCHANGED <<pgPage, pgMounted>>

\* The retry is decided by the retryCount of the run, the counter incremented is
\* that of the page.
RunRejected(r) ==
  /\ pgRuns[r].at = "fetching"
  /\ \/ /\ pgRuns[r].retry < RetryAttempts /\ pgRetry < MaxRetryCount
        /\ pgRuns' = [pgRuns EXCEPT ![r].at = "delay"]
        /\ IF pgMounted THEN pgRetry' = pgRetry + 1 /\ pgDue' = TRUE
           ELSE UNCHANGED <<pgRetry, pgDue>>
     \/ /\ pgRuns[r].retry >= RetryAttempts
        /\ pgRuns' = [pgRuns EXCEPT ![r] = NoRun]
        /\ UNCHANGED <<pgRetry, pgDue>>
  /\ UNCHANGED <<pgPage, pgMounted, pgLast, pgWanted>>

RunAgain(r) ==
  /\ pgRuns[r].at = "delay"
  /\ pgRuns' = [pgRuns EXCEPT ![r].at = "fetching"]
  /\ UNCHANGED <<pgPage, pgMounted, pgLast, pgRetry, pgDue, pgWanted>>

CacheTimeout ==
  /\ pgLast = "fresh" /\ pgLast' = "stale"
  /\ UNCHANGED <<pgPage, pgMounted, pgRetry, pgDue, pgRuns, pgWanted>>

\* handleBackToList, handlePolicySelect, handleNewPolicy: the page is left.
Unmount ==
  /\ pgMounted /\ pgMounted' = FALSE /\ pgDue' = FALSE /\ pgWanted' = FALSE
  /\ UNCHANGED <<pgPage, pgLast, pgRetry, pgRuns>>

PolicyPagesNext ==
  \/ Effect \/ Tick \/ AfterChange \/ CacheTimeout \/ Unmount
  \/ \E r \in Runs : RunAnswered(r) \/ RunRejected(r) \/ RunAgain(r)

PolicyPagesSpec == PolicyPagesInit /\ [][PolicyPagesNext]_pgVars

-----------------------------------------------------------------------------
\* The hook's state and its runs are of their types.
PolicyPagesTypeOK ==
  /\ pgPage \in {"list", "details"} /\ pgMounted \in BOOLEAN
  /\ pgLast \in {"zero", "fresh", "stale"} /\ pgRetry \in 0..MaxRetryCount
  /\ pgDue \in BOOLEAN /\ pgWanted \in BOOLEAN
  /\ pgRuns \in [Runs -> [at : {"idle", "fetching", "delay"}, retry : 0..MaxRetryCount]]

\* The call that refreshPolicies makes returns early when the last fetch is fresh
\* (usePolicies.ts:66, :149); the refresh is not lost, because the reset makes the
\* callbacks new and the page's effect fetches.
RefreshNotLost == pgWanted => pgDue /\ pgLast # "fresh"
=============================================================================
