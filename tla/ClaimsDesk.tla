----------------------------- MODULE ClaimsDesk -----------------------------
(***************************************************************************)
(* Claims as a user handles them: the hook useClaims with its live updates, *)
(* the form for a new claim (ClaimForm.tsx) and the change of a claim's     *)
(* status on the details page (ClaimDetails.tsx, ClaimDetailsPage.tsx).     *)
(*                                                                          *)
(* The form creates the claim first and uploads its documents one after the *)
(* other.  The server may make the claim and the form never learn of it:    *)
(* the HTTP client repeats the request after some statuses                  *)
(* (api.utils.ts:129-134), and gives it up after others or after a time.    *)
(* The details component tells its page of a new status, which updates the  *)
(* claim, and updates it itself; nothing disables its buttons meanwhile.    *)
(***************************************************************************)
EXTENDS Integers, FiniteSets

CONSTANTS
  Files,          \* documents chosen in the form
  DeskCalls,      \* slots for the updates of the details page
  MaxNewClaims    \* bound: claims made from one form

ASSUME ClaimsDeskAssumption == MaxNewClaims \in Nat

VARIABLES
  cdForm,        \* the form: where its submission is
  cdLeft,        \* documents not yet uploaded by the submission
  cdClaims,      \* claims the server has made from this form
  cdHeld,        \* for each claim the documents it has
  cdReset,       \* the form was reset and the page told of success
  cdMade,        \* the claim made last by the submission under way, or 0
  cdLate,        \* requests given up by the client that the server may still serve
  cdBlamed,      \* history: claims whose submission was reported as failed
  cdRepeated,    \* history: claims made by the client's repeats of a request
  cdStatus,      \* the status of a claim on the details page, at the server
  cdSelected,    \* selectedClaim of the details page's hook
  cdWrites,      \* updateClaimStatus calls of the details page under way
  cdSync         \* syncStatus

cdFormVars ==
  <<cdForm, cdLeft, cdClaims, cdHeld, cdReset, cdMade, cdLate, cdBlamed, cdRepeated>>
cdPageVars == <<cdStatus, cdSelected, cdWrites, cdSync>>
cdVars == <<cdFormVars, cdPageVars>>

\* The transitions of CLAIM_STATUS_TRANSITIONS that a small instance needs.
DeskMoves == [UNDER_REVIEW |-> {"PENDING_INFO", "DENIED"},
              PENDING_INFO |-> {"UNDER_REVIEW", "DENIED"}, DENIED |-> {}]
DeskStatuses == DOMAIN DeskMoves

\* A call of updateClaimStatus is the page's or the component's.
NoWrite == [by |-> "page", at |-> "idle", to |-> "DENIED", from |-> "DENIED"]

ClaimsDeskInit ==
  /\ cdForm = "editing" /\ cdLeft = {} /\ cdClaims = 0
  /\ cdHeld = [n \in 1..MaxNewClaims |-> {}] /\ cdReset = FALSE
  /\ cdMade = 0 /\ cdLate = 0 /\ cdBlamed = 0 /\ cdRepeated = 0
  /\ cdStatus = "UNDER_REVIEW" /\ cdSelected = "none"
  /\ cdWrites = [w \in DeskCalls |-> NoWrite]
  /\ cdSync = "synced"

-----------------------------------------------------------------------------
(* The form.                                                               *)

Room == cdClaims + cdLate < MaxNewClaims

\* onSubmit up to submitClaim; a form that does not validate reports it.
SubmitClaim ==
  /\ cdForm = "editing" /\ ~cdReset /\ Room
  /\ cdForm' \in {"submitting", "editing"} /\ cdMade' = 0
  /\ UNCHANGED <<cdLeft, cdClaims, cdHeld, cdReset, cdLate, cdBlamed, cdRepeated, cdPageVars>>

\* The server makes the claim.  It may answer with a status after which the client
\* repeats the request, and then makes another.
ServerMakes ==
  /\ cdForm = "submitting" /\ Room
  /\ cdClaims' = cdClaims + 1 /\ cdMade' = cdClaims + 1
  /\ cdRepeated' = cdRepeated + IF cdMade = 0 THEN 0 ELSE 1
  /\ UNCHANGED <<cdForm, cdLeft, cdHeld, cdReset, cdLate, cdBlamed, cdPageVars>>

\* The answer; a failing synchronisation with OneShield changes nothing.
Submitted ==
  /\ cdForm = "submitting" /\ cdMade # 0
  /\ cdForm' = "uploading" /\ cdLeft' = Files
  /\ UNCHANGED <<cdClaims, cdHeld, cdReset, cdMade, cdLate, cdBlamed, cdRepeated, cdPageVars>>

\* The request is refused or given up, or what follows its answer throws: the form
\* reports a failure, whether the claim was made, is not, or will be yet.
SubmitFails ==
  /\ cdForm = "submitting" /\ cdForm' = "editing" /\ cdMade' = 0
  /\ \/ cdMade = 0 /\ UNCHANGED <<cdLate, cdBlamed>>
     \/ cdMade = 0 /\ Room /\ cdLate' = cdLate + 1 /\ UNCHANGED cdBlamed
     \/ cdMade # 0 /\ cdBlamed' = cdBlamed + 1 /\ UNCHANGED cdLate
  /\ UNCHANGED <<cdLeft, cdClaims, cdHeld, cdReset, cdRepeated, cdPageVars>>

\* The server serves a request that the client has given up.
ServerMakesLate ==
  /\ cdLate > 0 /\ cdLate' = cdLate - 1
  /\ cdClaims' = cdClaims + 1 /\ cdBlamed' = cdBlamed + 1
  /\ UNCHANGED <<cdForm, cdLeft, cdHeld, cdReset, cdMade, cdRepeated, cdPageVars>>

\* uploadDocuments: one file after the other.
UploadFile ==
  /\ cdForm = "uploading"
  /\ \E f \in cdLeft :
       /\ cdLeft' = cdLeft \ {f}
       /\ cdHeld' = [cdHeld EXCEPT ![cdMade] = @ \cup {f}]
  /\ UNCHANGED <<cdForm, cdClaims, cdReset, cdMade, cdLate, cdBlamed, cdRepeated, cdPageVars>>

\* A file fails, stored or not: the whole submission is reported as failed, and the
\* form keeps its data for another one, which makes another claim.
UploadFails ==
  /\ cdForm = "uploading" /\ cdLeft # {}
  /\ \E stored \in SUBSET cdLeft : cdHeld' = [cdHeld EXCEPT ![cdMade] = @ \cup stored]
  /\ cdForm' = "editing" /\ cdLeft' = {} /\ cdMade' = 0 /\ cdBlamed' = cdBlamed + 1
  /\ UNCHANGED <<cdClaims, cdReset, cdLate, cdRepeated, cdPageVars>>

\* Mutant: the form keeps its data.
FormDoneWithoutReset ==
  /\ cdForm = "uploading" /\ cdLeft = {}
  /\ cdForm' = "editing"
  /\ UNCHANGED <<cdLeft, cdClaims, cdHeld, cdReset, cdMade, cdLate, cdBlamed, cdRepeated, cdPageVars>>

\* reset and onSubmitSuccess.
FormDone ==
  /\ cdForm = "uploading" /\ cdLeft = {}
  /\ cdForm' = "editing" /\ cdReset' = TRUE
  /\ UNCHANGED <<cdLeft, cdClaims, cdHeld, cdMade, cdLate, cdBlamed, cdRepeated, cdPageVars>>

-----------------------------------------------------------------------------
(* The details page.                                                       *)

FetchClaimDetails ==
  /\ \/ cdSelected' = cdStatus /\ cdSync' = "synced"
     \/ cdSync' = "error" /\ UNCHANGED cdSelected
  /\ UNCHANGED <<cdFormVars, cdStatus, cdWrites>>

\* ClaimDetailsPage.handleStatusChange checks the transition against what the page
\* shows.
PageAccepts(to) == cdSelected # "none" /\ to \in DeskMoves[cdSelected]

Begun(who, to) == [by |-> who, at |-> "checking", to |-> to, from |-> cdSelected]
Idle(w) == cdWrites[w].at = "idle"

\* ClaimDetails.handleStatusChange: the page's handler is called, and not waited
\* for; the component then updates the claim itself.  The buttons follow the
\* component's own copy of the claim, so the page may refuse what they ask.
HandleStatusChange(to, x, y) ==
  /\ cdSelected # "none" /\ x # y /\ Idle(y)
  /\ \/ /\ PageAccepts(to) /\ Idle(x) /\ cdSync' = "syncing"
        /\ cdWrites' =
             [cdWrites EXCEPT ![x] = Begun("page", to), ![y] = Begun("component", to)]
     \/ /\ ~PageAccepts(to) /\ UNCHANGED cdSync
        /\ cdWrites' = [cdWrites EXCEPT ![y] = Begun("component", to)]
  /\ UNCHANGED <<cdFormVars, cdStatus, cdSelected>>

\* updateClaimStatus of the service: it fetches the claim and checks the transition.
CheckCurrent(w) ==
  /\ cdWrites[w].at = "checking" /\ cdWrites[w].to \in DeskMoves[cdStatus]
  /\ cdWrites' = [cdWrites EXCEPT ![w].at = "writing"]
  /\ UNCHANGED <<cdFormVars, cdStatus, cdSelected, cdSync>>

\* The server applies its own rules again.
WriteStatus(w) ==
  /\ cdWrites[w].at = "writing" /\ cdWrites[w].to \in DeskMoves[cdStatus]
  /\ cdStatus' = cdWrites[w].to
  /\ cdSelected' = cdWrites[w].to
  /\ cdSync' = IF cdWrites[w].by = "page" THEN "synced" ELSE cdSync
  /\ cdWrites' = [cdWrites EXCEPT ![w] = NoWrite]
  /\ UNCHANGED cdFormVars

\* Mutant: the page says nothing of a failure.
PageWriteFailsSilently(w) ==
  /\ ~Idle(w) /\ cdWrites[w].by = "page"
  /\ cdWrites' = [cdWrites EXCEPT ![w] = NoWrite]
  /\ UNCHANGED <<cdFormVars, cdStatus, cdSelected, cdSync>>

PageWriteFails(w) ==
  /\ ~Idle(w) /\ cdWrites[w].by = "page"
  /\ cdSync' = "error" /\ cdWrites' = [cdWrites EXCEPT ![w] = NoWrite]
  /\ UNCHANGED <<cdFormVars, cdStatus, cdSelected>>

\* The component's update fails: it asks its page to go back to the status it
\* showed, which is one more change of status, by the page.
ComponentWriteFails(w) ==
  /\ ~Idle(w) /\ cdWrites[w].by = "component"
  /\ LET back == cdWrites[w].from
     IN \/ /\ PageAccepts(back) /\ cdSync' = "syncing"
           /\ cdWrites' = [cdWrites EXCEPT ![w] = Begun("page", back)]
        \/ /\ ~PageAccepts(back) /\ UNCHANGED cdSync
           /\ cdWrites' = [cdWrites EXCEPT ![w] = NoWrite]
  /\ UNCHANGED <<cdFormVars, cdStatus, cdSelected>>

\* The claim is changed by someone else, or by an update whose answer was lost.
ClaimChangedElsewhere ==
  /\ cdStatus' \in DeskMoves[cdStatus]
  /\ UNCHANGED <<cdFormVars, cdSelected, cdWrites, cdSync>>

\* A live update, CLAIM_UPDATED or CLAIM_DELETED, of the claim that is shown.
HandleRealtimeUpdate ==
  /\ cdSelected # "none"
  /\ cdSelected' \in {cdStatus, "none"}
  /\ UNCHANGED <<cdFormVars, cdStatus, cdWrites, cdSync>>

ClaimFormNext ==
  \/ SubmitClaim \/ ServerMakes \/ Submitted \/ SubmitFails \/ ServerMakesLate
  \/ UploadFile \/ UploadFails \/ FormDone

ClaimPageNext ==
  \/ FetchClaimDetails \/ HandleRealtimeUpdate \/ ClaimChangedElsewhere
  \/ \E to \in DeskStatuses, x, y \in DeskCalls : HandleStatusChange(to, x, y)
  \/ \E w \in DeskCalls :
       CheckCurrent(w) \/ WriteStatus(w) \/ PageWriteFails(w) \/ ComponentWriteFails(w)

\* The form and the page share nothing.
ClaimsDeskNext == ClaimFormNext \/ ClaimPageNext

ClaimsDeskSpec == ClaimsDeskInit /\ [][ClaimsDeskNext]_cdVars

-----------------------------------------------------------------------------
\* The form and the details page are of their types.
ClaimsDeskTypeOK ==
  /\ cdForm \in {"editing", "submitting", "uploading"} /\ cdLeft \subseteq Files
  /\ cdClaims \in 0..MaxNewClaims /\ cdHeld \in [1..MaxNewClaims -> SUBSET Files]
  /\ cdReset \in BOOLEAN /\ cdMade \in 0..MaxNewClaims /\ cdLate \in 0..MaxNewClaims
  /\ cdBlamed \in 0..MaxNewClaims /\ cdRepeated \in 0..MaxNewClaims
  /\ cdStatus \in DeskStatuses /\ cdSelected \in DeskStatuses \cup {"none"}
  /\ cdWrites \in [DeskCalls -> [by : {"page", "component"}, at : {"idle", "checking", "writing"},
                              to : DeskStatuses, from : DeskStatuses]]
  /\ cdSync \in {"synced", "syncing", "error"}

\* A filled form makes one claim.  Every further one has its cause on record: the
\* user submitted again after a failure was reported though the claim was, or would
\* be, made (its answer was lost, or a document failed, ClaimForm.tsx:92-111), or the
\* client repeated the request (api.utils.ts:129-134).  Once the form is reset, the
\* claim it was told of has all the documents.
ExtraClaimsExplained ==
  /\ cdClaims <= cdBlamed + cdRepeated + 1
  /\ cdReset => cdClaims = cdBlamed + cdRepeated + 1 /\ cdHeld[cdMade] = Files

\* While the page says "Syncing with OneShield" one of its own updates is under way
\* (ClaimDetailsPage.tsx:105-128), though the component updates the same claim and
\* further changes may be asked meanwhile.
SyncingHasCause ==
  cdSync = "syncing" => \E w \in DeskCalls : ~Idle(w) /\ cdWrites[w].by = "page"
=============================================================================
