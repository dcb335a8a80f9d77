----------------------------- MODULE ClaimsStore -----------------------------
(***************************************************************************)
(* The claims slice of the web store (claims.reducer.ts) with its thunks    *)
(* (claims.actions.ts) and the page cache of claims.service.ts, for one     *)
(* claim.                                                                   *)
(*                                                                          *)
(* A thunk is one call; its last await ends with the reducer's case for     *)
(* fulfilled or rejected, in any order among the calls.  Methods that the   *)
(* thunks call and the service does not define answer or fail.              *)
(***************************************************************************)
CONSTANTS
  ClaimCalls      \* concurrent thunks

VARIABLES
  csServer,      \* the claim's status at the server
  csListed,      \* the claim's entry in claims: a status, "document" or "none"
  csSelected,    \* selectedClaim
  csEntry,       \* cache: what selectClaimById finds first
  csPage,        \* claims.service.ts's cache of the page, or "none"
  csMarks,       \* loading, pendingUpdates and documentUploadProgress
  csCalls        \* the thunks under way

csShown == <<csListed, csSelected, csEntry>>
csVars == <<csServer, csShown, csPage, csMarks, csCalls>>

\* CLAIM_STATUS_TRANSITIONS, as far as a first review goes.
ClaimMoves == [NEW |-> {"UNDER_REVIEW", "DENIED"}, UNDER_REVIEW |-> {"APPROVED", "DENIED"},
               APPROVED |-> {}, DENIED |-> {}]
ClaimStatuses == DOMAIN ClaimMoves
Kinds == {"fetch", "details", "create", "update", "upload", "sync"}
NoThunk == [kind |-> "none", at |-> "idle", to |-> "none"]

ClaimsStoreInit ==
  /\ csServer = "NEW"
  /\ csListed = "none" /\ csSelected = "none" /\ csEntry = "none" /\ csPage = "none"
  /\ csMarks = [loading |-> FALSE, update |-> FALSE, progress |-> FALSE]
  /\ csCalls = [c \in ClaimCalls |-> NoThunk]

CallAt(c, kind, at) == csCalls[c].kind = kind /\ csCalls[c].at = at

Finish(c) == csCalls' = [csCalls EXCEPT ![c] = NoThunk]

\* The answer of the call, put on the wire by Respond.
Answer(c) == csCalls[c].to

\* Thunks whose pending case sets loading.
SetsLoading == {"fetch", "details", "create", "sync"}

\* Dispatch of a thunk: its pending case, and its first request.
Dispatch(c) ==
  /\ csCalls[c].at = "idle"
  /\ \E kind \in Kinds, to \in ClaimStatuses \cup {"none"} :
       /\ kind = "update" <=> to # "none"
       /\ kind = "fetch" => csPage = "none"
       /\ csCalls' = [csCalls EXCEPT ![c] = [kind |-> kind, at |-> "sent", to |-> to]]
       /\ csMarks' = [loading |-> csMarks.loading \/ kind \in SetsLoading,
                      update |-> csMarks.update \/ kind = "update",
                      progress |-> csMarks.progress \/ kind = "upload"]
  /\ UNCHANGED <<csServer, csShown, csPage>>

\* fetchClaims answered from the service's cache.
FetchCached ==
  /\ csPage # "none"
  /\ csListed' = csPage /\ csMarks' = [csMarks EXCEPT !.loading = FALSE]
  /\ UNCHANGED <<csServer, csSelected, csEntry, csPage, csCalls>>

\* The server answers; an update is checked against the status just read, then
\* carried out, by the server's own rules.
Respond(c) ==
  /\ csCalls[c].at = "sent" /\ csCalls[c].kind # "update"
  /\ csCalls' = [csCalls EXCEPT ![c].at = "answered", ![c].to = csServer]
  /\ UNCHANGED <<csServer, csShown, csPage, csMarks>>

\* updateClaimStatus: the current claim is fetched and the transition checked ...
CheckTransition(c) ==
  /\ CallAt(c, "update", "sent") /\ csCalls[c].to \in ClaimMoves[csServer]
  /\ csCalls' = [csCalls EXCEPT ![c].at = "checked"]
  /\ UNCHANGED <<csServer, csShown, csPage, csMarks>>

\* ... and the update sent, which the server accepts if it is still legal.
Update(c) ==
  /\ CallAt(c, "update", "checked") /\ csCalls[c].to \in ClaimMoves[csServer]
  /\ csServer' = csCalls[c].to
  /\ csCalls' = [csCalls EXCEPT ![c].at = "answered"]
  /\ UNCHANGED <<csShown, csPage, csMarks>>

Replaced(entry, p) == IF entry = "none" THEN "none" ELSE p

FetchFulfilled(c) ==
  /\ CallAt(c, "fetch", "answered")
  /\ csListed' = Answer(c) /\ csPage' = Answer(c)
  /\ csMarks' = [csMarks EXCEPT !.loading = FALSE]
  /\ Finish(c)
  /\ UNCHANGED <<csServer, csSelected, csEntry>>

DetailsFulfilled(c) ==
  /\ CallAt(c, "details", "answered")
  /\ csSelected' = Answer(c) /\ csEntry' = Answer(c)
  /\ csMarks' = [csMarks EXCEPT !.loading = FALSE]
  /\ Finish(c)
  /\ UNCHANGED <<csServer, csListed, csPage>>

\* A claim is created and, whether or not OneShield is synchronised, the page
\* cache is cleared.
CreateFulfilled(c) ==
  /\ CallAt(c, "create", "answered")
  /\ csPage' = "none" /\ csMarks' = [csMarks EXCEPT !.loading = FALSE]
  /\ Finish(c)
  /\ UNCHANGED <<csServer, csShown>>

\* Entries of the list and the selection are replaced, the cache entry is not.
UpdateFulfilled(c) ==
  /\ CallAt(c, "update", "answered")
  /\ csListed' = Replaced(csListed, Answer(c)) /\ csSelected' = Replaced(csSelected, Answer(c))
  /\ csPage' = "none" /\ csMarks' = [csMarks EXCEPT !.update = FALSE]
  /\ Finish(c)
  /\ UNCHANGED <<csServer, csEntry>>

\* The service answers an upload with the document, and the reducer takes it for
\* the updated claim.
UploadFulfilled(c) ==
  /\ CallAt(c, "upload", "answered")
  /\ csListed' = Replaced(csListed, "document") /\ csSelected' = Replaced(csSelected, "document")
  /\ csPage' = "none" /\ csMarks' = [csMarks EXCEPT !.progress = FALSE]
  /\ Finish(c)
  /\ UNCHANGED <<csServer, csEntry>>

SyncFulfilled(c) ==
  /\ CallAt(c, "sync", "answered")
  /\ csListed' = Replaced(csListed, Answer(c)) /\ csSelected' = Replaced(csSelected, Answer(c))
  /\ csMarks' = [csMarks EXCEPT !.loading = FALSE]
  /\ Finish(c)
  /\ UNCHANGED <<csServer, csEntry, csPage>>

\* Mutant: a rejected update keeps its pendingUpdates entry.
UpdateStaysPending(c) ==
  csMarks' = [csMarks EXCEPT !.loading = @ /\ csCalls[c].kind \notin SetsLoading,
                             !.progress = @ /\ csCalls[c].kind # "upload"]

\* The marks a rejected case takes back.
Unmark(c) ==
  csMarks' = [loading |-> csMarks.loading /\ csCalls[c].kind \notin SetsLoading,
              update |-> csMarks.update /\ csCalls[c].kind # "update",
              progress |-> csMarks.progress /\ csCalls[c].kind # "upload"]

Rejected(c) ==
  /\ csCalls[c].at # "idle"
  /\ Unmark(c) /\ Finish(c)
  /\ UNCHANGED <<csServer, csShown, csPage>>

\* setPagination, setFilters: the next fetch looks under another key.
ChangePage == csPage # "none" /\ csPage' = "none" /\ UNCHANGED <<csServer, csShown, csMarks, csCalls>>

\* invalidateCache, or the end of an entry's five minutes.
ForgetEntry ==
  /\ csEntry # "none" /\ csEntry' = "none"
  /\ UNCHANGED <<csServer, csListed, csSelected, csPage, csMarks, csCalls>>

ClaimsStoreNext ==
  \/ \E c \in ClaimCalls :
       \/ Dispatch(c) \/ Respond(c) \/ CheckTransition(c) \/ Update(c)
       \/ FetchFulfilled(c) \/ DetailsFulfilled(c) \/ CreateFulfilled(c)
       \/ UpdateFulfilled(c) \/ UploadFulfilled(c) \/ SyncFulfilled(c) \/ Rejected(c)
  \/ FetchCached \/ ChangePage \/ ForgetEntry

ClaimsStoreSpec == ClaimsStoreInit /\ [][ClaimsStoreNext]_csVars

-----------------------------------------------------------------------------
Shown == ClaimStatuses \cup {"none", "document"}

\* The slice, the caches and the thunks are of their types.
ClaimsStoreTypeOK ==
  /\ csServer \in ClaimStatuses
  /\ csListed \in Shown /\ csSelected \in Shown /\ csEntry \in ClaimStatuses \cup {"none"}
  /\ csPage \in ClaimStatuses \cup {"none"}
  /\ csMarks \in [loading : BOOLEAN, update : BOOLEAN, progress : BOOLEAN]
  /\ csCalls \in [ClaimCalls -> [kind : Kinds \cup {"none"},
                                 at : {"idle", "sent", "checked", "answered"},
                                 to : ClaimStatuses \cup {"none"}]]

\* A spinner, a pending update and an upload's progress are each shown only while
\* a thunk of that kind is under way, whatever order the thunks end in
\* (claims.reducer.ts:105-257): none is left behind by a failure.
MarksHaveCause ==
  /\ csMarks.loading => \E c \in ClaimCalls : csCalls[c].kind \in SetsLoading
  /\ csMarks.update => \E c \in ClaimCalls : csCalls[c].kind = "update"
  /\ csMarks.progress => \E c \in ClaimCalls : csCalls[c].kind = "upload"
=============================================================================
