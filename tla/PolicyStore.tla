----------------------------- MODULE PolicyStore -----------------------------
(***************************************************************************)
(* What one browser knows of one policy: the caches of policy.service.ts    *)
(* and policy.api.ts, the map of pending requests of policy.actions.ts and  *)
(* the slice that policy.reducer.ts keeps for the views.                    *)
(*                                                                          *)
(* A call is one dispatched thunk.  What runs between two awaits, with the  *)
(* reducer of the action that starts or ends it, is one step; a promise     *)
(* that is settled already is awaited within the step.  The server answers  *)
(* a request with success, with success = false, or not at all (HTTP error, *)
(* timeout), and may have acted in each case.  Of a policy only the status  *)
(* is kept: it tells apart the copies that the properties are about, and an *)
(* update changes other data.                                               *)
(***************************************************************************)
EXTENDS Integers, FiniteSets

CONSTANTS
  PolicyCalls,      \* concurrent thunks
  ListAttempts      \* MAX_RETRIES

VARIABLES
  polServer,     \* the status the server has
  polDetail,     \* policy.service.ts's policyCache entry of the policy
  polApi,        \* policy.api.ts's policyCache entry of the policy
  polList,       \* listCache: the policy in the cached page, or NoPolicy
  polPending,    \* pendingRequests: the call the page is requested by
  polCalls,      \* the thunks under way
  polView        \* the slice: the policy in the list, selectedPolicy, loading, error

polCaches == <<polDetail, polApi, polList>>
polVars == <<polServer, polCaches, polPending, polCalls, polView>>

\* The status in which a policy may be bound, and every later one.
PolicyStatuses == {"APPROVED", "BOUND"}
NoPolicy == "none"
Copies == PolicyStatuses \cup {NoPolicy}
Entries == [policy : Copies, fresh : BOOLEAN]
NoEntry == [policy |-> NoPolicy, fresh |-> FALSE]
NoCall == "no call"
FailedCall == "failed call"

ASSUME PolicyStoreAssumption ==
  ListAttempts \in Nat \ {0} /\ NoCall \notin PolicyCalls /\ FailedCall \notin PolicyCalls

\* op: the thunk; at: the await it is at; old: currentPolicy; answer: what the
\* server has put on the wire; tried: attempts of a list request that failed.
PolicyCall == [op : {"none", "list", "details", "create", "update", "bind"},
               at : {"idle", "sent", "served", "refused", "backoff", "shared", "lookup", "found"},
               old : Copies, answer : Copies,
               tried : 0..(ListAttempts - 1)]
IdleCall == [op |-> "none", at |-> "idle", old |-> NoPolicy, answer |-> NoPolicy, tried |-> 0]

PolicyStoreInit ==
  /\ polServer \in PolicyStatuses
  /\ polDetail = NoEntry /\ polApi = NoPolicy /\ polList = NoPolicy
  /\ polPending = NoCall
  /\ polCalls = [c \in PolicyCalls |-> IdleCall]
  /\ polView = [listed |-> NoPolicy, selected |-> NoPolicy, loading |-> FALSE, error |-> FALSE]

-----------------------------------------------------------------------------
\* The reducer.

\* The case of every .../pending action.
Loading(view) == [view EXCEPT !.loading = TRUE, !.error = FALSE]

\* Mutant: loading is left as it is.
FailedStillLoading(view) == [view EXCEPT !.error = TRUE]

\* The case of every .../rejected action but bindPolicy's.
Failed(view) == [view EXCEPT !.loading = FALSE, !.error = TRUE]

Loaded(view) == [view EXCEPT !.loading = FALSE, !.error = FALSE]

Listed(view, p) == IF view.listed = NoPolicy THEN view ELSE [view EXCEPT !.listed = p]

FetchDetailsFulfilled(view, p) == [Listed(Loaded(view), p) EXCEPT !.selected = p]

\* updatePolicy and bindPolicy: the selected policy, too, if it is this one.
ChangeFulfilled(view, p) ==
  IF view.selected = NoPolicy THEN Listed(Loaded(view), p) ELSE FetchDetailsFulfilled(view, p)

\* The optimistic status of a bind, and its revert.
BindPending(view) == Listed(Loading(view), "BOUND")
BindRejected(view) == Listed(Failed(view), "APPROVED")

-----------------------------------------------------------------------------
Start(c, op, at, old) ==
  polCalls' = [polCalls EXCEPT ![c] = [IdleCall EXCEPT !.op = op, !.at = at, !.old = old]]

End(c) == polCalls' = [polCalls EXCEPT ![c] = IdleCall]

Free(c) == polCalls[c].at = "idle"

At(c, op, at) == polCalls[c].op = op /\ polCalls[c].at = at

\* A detail found without a request: in the service's cache, else in the api's.
Cached == IF polDetail.fresh THEN polDetail.policy ELSE polApi

\* fetchPolicyDetails with a detail found in a cache: the service's has it after.
KeepCached == polDetail' = [policy |-> Cached, fresh |-> TRUE]

\* Mutant: pendingRequests is not looked at.
FetchPoliciesUnshared(c) ==
  /\ Free(c) /\ polList = NoPolicy
  /\ polPending' = c /\ polView' = Loading(polView) /\ Start(c, "list", "sent", NoPolicy)
  /\ UNCHANGED <<polServer, polCaches>>

\* The thunk fetchPolicies: it shares the pending request of the page, also one
\* that has failed; else the service answers from its cache or sends a request.
FetchPolicies(c) ==
  /\ Free(c)
  /\ \/ /\ polPending = NoCall /\ polList # NoPolicy
        /\ polView' = [Loaded(polView) EXCEPT !.listed = polList]
        /\ UNCHANGED <<polPending, polCalls>>
     \/ /\ polPending = NoCall /\ polList = NoPolicy
        /\ polPending' = c /\ polView' = Loading(polView) /\ Start(c, "list", "sent", NoPolicy)
     \/ /\ polPending \in PolicyCalls
        /\ polView' = Loading(polView) /\ Start(c, "list", "shared", NoPolicy)
        /\ UNCHANGED polPending
     \/ /\ polPending = FailedCall
        /\ polView' = Failed(polView)
        /\ UNCHANGED <<polPending, polCalls>>
  /\ UNCHANGED <<polServer, polCaches>>

\* The calls that await the request of c, and c.
Sharers(c) == {d \in PolicyCalls : d = c \/ At(d, "list", "shared")}

EndList(c) == polCalls' = [d \in PolicyCalls |-> IF d \in Sharers(c) THEN IdleCall ELSE polCalls[d]]

ListAnswered(c) ==
  /\ At(c, "list", "served")
  /\ polList' = polCalls[c].answer
  /\ polPending' = NoCall
  /\ polView' = [Loaded(polView) EXCEPT !.listed = polCalls[c].answer]
  /\ EndList(c)
  /\ UNCHANGED <<polServer, polDetail, polApi>>

\* A failed attempt; after the last one the rejected promise stays pending.
ListFailed(c) ==
  /\ polCalls[c].op = "list" /\ polCalls[c].at \in {"sent", "served", "refused"}
  /\ \/ /\ polCalls[c].tried < ListAttempts - 1
        /\ polCalls' = [polCalls EXCEPT ![c].at = "backoff", ![c].tried = @ + 1]
        /\ UNCHANGED <<polPending, polView>>
     \/ /\ polCalls[c].tried = ListAttempts - 1
        /\ polPending' = FailedCall /\ polView' = Failed(polView) /\ EndList(c)
  /\ UNCHANGED <<polServer, polCaches>>

ListRetry(c) ==
  /\ At(c, "list", "backoff")
  /\ polCalls' = [polCalls EXCEPT ![c].at = "sent", ![c].answer = NoPolicy]
  /\ UNCHANGED <<polServer, polCaches, polPending, polView>>

-----------------------------------------------------------------------------
\* The thunk fetchPolicyDetails.
FetchPolicyDetails(c) ==
  /\ Free(c)
  /\ \/ /\ Cached # NoPolicy
        /\ KeepCached /\ polView' = FetchDetailsFulfilled(polView, Cached)
        /\ UNCHANGED polCalls
     \/ /\ Cached = NoPolicy
        /\ polView' = Loading(polView) /\ Start(c, "details", "sent", NoPolicy)
        /\ UNCHANGED polDetail
  /\ UNCHANGED <<polServer, polApi, polList, polPending>>

\* getPolicyById's answer goes into both caches.
KeepAnswer(c) ==
  /\ polApi' = polCalls[c].answer
  /\ polDetail' = [policy |-> polCalls[c].answer, fresh |-> TRUE]

DetailsAnswered(c) ==
  /\ At(c, "details", "served")
  /\ KeepAnswer(c)
  /\ polView' = FetchDetailsFulfilled(polView, polCalls[c].answer)
  /\ End(c)
  /\ UNCHANGED <<polServer, polList, polPending>>

\* The thunk createPolicy, of another policy than the one modelled.
CreatePolicy(c) ==
  /\ Free(c)
  /\ polView' = Loading(polView) /\ Start(c, "create", "sent", NoPolicy)
  /\ UNCHANGED <<polServer, polCaches, polPending>>

CreateAnswered(c) ==
  /\ At(c, "create", "served")
  /\ polList' = NoPolicy /\ polView' = Loaded(polView) /\ End(c)
  /\ UNCHANGED <<polServer, polDetail, polApi, polPending>>

\* The thunk updatePolicy: the cache has the update before the server, and an
\* expired entry counts.
UpdatePolicy(c) ==
  /\ Free(c)
  /\ polDetail' = IF polDetail = NoEntry THEN NoEntry ELSE [polDetail EXCEPT !.fresh = TRUE]
  /\ polApi' = NoPolicy
  /\ polView' = Loading(polView) /\ Start(c, "update", "sent", polDetail.policy)
  /\ UNCHANGED <<polServer, polList, polPending>>

Revert(c) ==
  polDetail' = IF polCalls[c].old = NoPolicy THEN polDetail
               ELSE [policy |-> polCalls[c].old, fresh |-> TRUE]

Confirm(c) ==
  /\ polDetail' = [policy |-> polCalls[c].answer, fresh |-> TRUE]
  /\ polList' = NoPolicy
  /\ polView' = ChangeFulfilled(polView, polCalls[c].answer)

UpdateAnswered(c) ==
  /\ At(c, "update", "served")
  /\ Confirm(c) /\ End(c)
  /\ UNCHANGED <<polServer, polApi, polPending>>

UpdateRefused(c) ==
  /\ At(c, "update", "refused")
  /\ Revert(c) /\ polView' = Failed(polView) /\ End(c)
  /\ UNCHANGED <<polServer, polApi, polList, polPending>>

-----------------------------------------------------------------------------
\* The thunk bindPolicy: it looks the policy up, checks its status, and has the
\* service bind it, which looks it up and checks it again in the same cache.
SendBind(c, p, view) ==
  \/ /\ p = "APPROVED"
     /\ polDetail' = [policy |-> "BOUND", fresh |-> TRUE]
     /\ polView' = view
     /\ Start(c, "bind", "sent", p)
  \/ /\ p # "APPROVED"
     /\ polDetail' = [policy |-> p, fresh |-> TRUE]
     /\ polView' = BindRejected(view)
     /\ End(c)

BindPolicy(c) ==
  /\ Free(c)
  /\ \/ /\ Cached # NoPolicy
        /\ SendBind(c, Cached, BindPending(polView))
     \/ /\ Cached = NoPolicy
        /\ polView' = BindPending(polView) /\ Start(c, "bind", "lookup", NoPolicy)
        /\ UNCHANGED polDetail
  /\ UNCHANGED <<polServer, polApi, polList, polPending>>

BindFound(c) ==
  /\ At(c, "bind", "found")
  /\ polApi' = polCalls[c].answer
  /\ SendBind(c, polCalls[c].answer, polView)
  /\ UNCHANGED <<polServer, polList, polPending>>

BindAnswered(c) ==
  /\ At(c, "bind", "served")
  /\ Confirm(c) /\ End(c)
  /\ UNCHANGED <<polServer, polApi, polPending>>

BindRefused(c) ==
  /\ At(c, "bind", "refused")
  /\ Revert(c) /\ polView' = BindRejected(polView) /\ End(c)
  /\ UNCHANGED <<polServer, polApi, polList, polPending>>

-----------------------------------------------------------------------------
\* A request other than a list's is rejected, or a detail or create refused:
\* the thunk fails, and no cache is touched.
RequestFailed(c) ==
  /\ polCalls[c].op \in {"details", "create", "update", "bind"}
  /\ polCalls[c].at \in {"sent", "served", "refused", "lookup", "found"}
  /\ polView' = IF polCalls[c].op = "bind" THEN BindRejected(polView) ELSE Failed(polView)
  /\ End(c)
  /\ UNCHANGED <<polServer, polCaches, polPending>>

\* Five minutes pass: entries of the service expire one by one; an expired
\* entry still counts as current for an update.
ExpireDetail ==
  /\ polDetail.fresh
  /\ polDetail' = [polDetail EXCEPT !.fresh = FALSE]
  /\ UNCHANGED <<polServer, polApi, polList, polPending, polCalls, polView>>

ExpireApi ==
  /\ polApi # NoPolicy /\ polApi' = NoPolicy
  /\ UNCHANGED <<polServer, polDetail, polList, polPending, polCalls, polView>>

ExpireList ==
  /\ polList # NoPolicy /\ polList' = NoPolicy
  /\ UNCHANGED <<polServer, polDetail, polApi, polPending, polCalls, polView>>

\* submitEndorsement, from the endorsement form, was answered with success.
EndorsementAnswered ==
  /\ polDetail # NoEntry /\ polDetail' = NoEntry
  /\ UNCHANGED <<polServer, polApi, polList, polPending, polCalls, polView>>

-----------------------------------------------------------------------------
\* The server.

Serve(c) ==
  /\ polCalls[c].at \in {"sent", "lookup"}
  /\ polServer' = IF At(c, "bind", "sent") /\ polServer = "APPROVED" THEN "BOUND" ELSE polServer
  /\ polCalls' = [polCalls EXCEPT ![c].at = IF @ = "lookup" THEN "found" ELSE "served",
                                  ![c].answer = polServer']
  /\ UNCHANGED <<polCaches, polPending, polView>>

Refuse(c) ==
  /\ polCalls[c].at = "sent"
  /\ polCalls' = [polCalls EXCEPT ![c].at = "refused"]
  /\ UNCHANGED <<polServer, polCaches, polPending, polView>>

\* Another user, or the carrier, moves the policy on.
ServerMoves ==
  /\ polServer = "APPROVED" /\ polServer' = "BOUND"
  /\ UNCHANGED <<polCaches, polPending, polCalls, polView>>

ClearPolicyErrors ==
  /\ polView.error /\ polView' = [polView EXCEPT !.error = FALSE]
  /\ UNCHANGED <<polServer, polCaches, polPending, polCalls>>

PolicyStoreNext ==
  \/ \E c \in PolicyCalls :
       \/ FetchPolicies(c) \/ ListAnswered(c) \/ ListFailed(c) \/ ListRetry(c)
       \/ FetchPolicyDetails(c) \/ DetailsAnswered(c)
       \/ CreatePolicy(c) \/ CreateAnswered(c)
       \/ UpdatePolicy(c) \/ UpdateAnswered(c) \/ UpdateRefused(c)
       \/ BindPolicy(c) \/ BindFound(c) \/ BindAnswered(c) \/ BindRefused(c)
       \/ RequestFailed(c) \/ Serve(c) \/ Refuse(c)
  \/ ExpireDetail \/ ExpireApi \/ ExpireList \/ EndorsementAnswered
  \/ ServerMoves \/ ClearPolicyErrors

PolicyStoreSpec == PolicyStoreInit /\ [][PolicyStoreNext]_polVars

-----------------------------------------------------------------------------
\* Everything in the caches, the slice and the thunks is of its type.
PolicyStoreTypeOK ==
  /\ polServer \in PolicyStatuses
  /\ polDetail \in Entries /\ polApi \in Copies /\ polList \in Copies
  /\ polPending \in PolicyCalls \cup {NoCall, FailedCall}
  /\ polCalls \in [PolicyCalls -> PolicyCall]
  /\ polView \in [listed : Copies, selected : Copies, loading : BOOLEAN, error : BOOLEAN]

\* One boolean serves all thunks (policy.reducer.ts:63, :67): a spinner is shown
\* only while some thunk is under way, whatever order the answers come in.
SpinnerHasCause == polView.loading => \E c \in PolicyCalls : ~Free(c)

\* Requests of the same page are deduplicated (policy.actions.ts:55): at most
\* one call has a request of its own, it is the pending one, and whoever shares
\* a request has one to share.
OneListRequest ==
  LET owners == {c \in PolicyCalls : polCalls[c].op = "list" /\ polCalls[c].at # "shared"}
  IN /\ owners = {polPending} \cap PolicyCalls
     /\ (\E c \in PolicyCalls : At(c, "list", "shared")) => owners # {}
=============================================================================
