----------------------------- MODULE PolicyCard -----------------------------
(***************************************************************************)
(* The card of one policy, PolicyDetails.tsx, which reads the policy on     *)
(* mount, at an interval and after a binding, and EndorsementForm.tsx,      *)
(* which saves a draft while the user types.  Both call policy.service.ts,  *)
(* whose cache of the policy is kept here as far as they see it.            *)
(*                                                                          *)
(* The reads are not ordered: the last one to be answered is shown.  The    *)
(* card binds as long as it shows an approved policy, and the form stays    *)
(* dirty after it was submitted.                                            *)
(***************************************************************************)
EXTENDS Naturals

CONSTANTS
  CardCalls,        \* slots for the card's calls
  MaxSubmissions    \* bound on the endorsements the server has

ASSUME PolicyCardAssumption == MaxSubmissions \in Nat

VARIABLES
  pcServer,   \* the policy's status on the server
  pcCache,    \* policyCache of the service: a status, or none
  pcCard,     \* the card: the status shown, loading, error
  pcCalls,    \* every call: its stage, the status it has read
  pcForm,     \* the form: dirty, isSubmitting and at which step
  pcDraft,    \* a draft is in localStorage
  pcStored    \* endorsements of the policy on the server

pcVars == <<pcServer, pcCache, pcCard, pcCalls, pcForm, pcDraft, pcStored>>

CardStatuses == {"APPROVED", "BOUND"}
NoStatus == "none"
FreeCall == [stage |-> "none", read |-> NoStatus]

CardInit ==
  /\ pcServer = "APPROVED" /\ pcCache = NoStatus
  /\ pcCard = [shown |-> NoStatus, loading |-> TRUE, error |-> FALSE]
  /\ pcCalls = [c \in CardCalls |-> FreeCall]

FormInit == pcForm = [dirty |-> FALSE, step |-> "none"] /\ pcDraft = FALSE /\ pcStored = 0

PolicyCardInit == CardInit /\ FormInit

-----------------------------------------------------------------------------
CardCallAt(c, stage, read) == pcCalls' = [pcCalls EXCEPT ![c] = [stage |-> stage, read |-> read]]

\* fetchPolicyDetails of the service: a cached policy is answered at once.
ReadOrAsk(c, asking, found) ==
  IF pcCache # NoStatus THEN CardCallAt(c, found, pcCache) ELSE CardCallAt(c, asking, NoStatus)

\* fetchPolicyDetails of the card.
FetchCard(c) ==
  /\ pcCalls[c].stage = "none" /\ ReadOrAsk(c, "fetch asked", "fetched")
  /\ UNCHANGED <<pcServer, pcCache, pcCard, pcForm, pcDraft, pcStored>>

\* The server answers a read, and the service keeps the answer.
ReadServed(c) ==
  /\ \/ pcCalls[c].stage = "fetch asked" /\ CardCallAt(c, "fetched", pcServer)
     \/ pcCalls[c].stage = "bind asked" /\ CardCallAt(c, "bind found", pcServer)
  /\ pcCache' = pcServer
  /\ UNCHANGED <<pcServer, pcCard, pcForm, pcDraft, pcStored>>

\* The card shows what its read found, whatever it shows by now.
CardAnswered(c) ==
  /\ pcCalls[c].stage = "fetched" /\ CardCallAt(c, "none", NoStatus)
  /\ pcCard' = [shown |-> pcCalls[c].read, loading |-> FALSE, error |-> FALSE]
  /\ UNCHANGED <<pcServer, pcCache, pcForm, pcDraft, pcStored>>

\* A failed read hides the policy behind its error until a later one succeeds.
CardFailed(c) ==
  /\ pcCalls[c].stage = "fetch asked" /\ CardCallAt(c, "none", NoStatus)
  /\ pcCard' = [pcCard EXCEPT !.loading = FALSE, !.error = TRUE]
  /\ UNCHANGED <<pcServer, pcCache, pcForm, pcDraft, pcStored>>

\* Five minutes pass.
CardCacheExpires ==
  /\ pcCache # NoStatus /\ pcCache' = NoStatus
  /\ UNCHANGED <<pcServer, pcCard, pcCalls, pcForm, pcDraft, pcStored>>

-----------------------------------------------------------------------------
\* The button is there while the card shows an approved policy; pressing it
\* does not disable it.
HandleBindPolicy(c) ==
  /\ pcCard.shown = "APPROVED" /\ ~pcCard.error /\ ~pcCard.loading
  /\ pcCalls[c].stage = "none" /\ ReadOrAsk(c, "bind asked", "bind found")
  /\ UNCHANGED <<pcServer, pcCache, pcCard, pcForm, pcDraft, pcStored>>

\* bindApprovedPolicy: the cache says BOUND before the request is sent.
BindSent(c) ==
  /\ pcCalls[c].stage = "bind found"
  /\ IF pcCalls[c].read = "APPROVED"
     THEN CardCallAt(c, "bind sent", "APPROVED") /\ pcCache' = "BOUND"
     ELSE CardCallAt(c, "none", NoStatus) /\ UNCHANGED pcCache
  /\ UNCHANGED <<pcServer, pcCard, pcForm, pcDraft, pcStored>>

ServerBinds(c) ==
  /\ pcCalls[c].stage = "bind sent" /\ pcServer = "APPROVED"
  /\ pcServer' = "BOUND" /\ CardCallAt(c, "bound", "APPROVED")
  /\ UNCHANGED <<pcCache, pcCard, pcForm, pcDraft, pcStored>>

\* The answer is kept; refreshData reads the policy again.
CardBindAnswered(c) ==
  /\ pcCalls[c].stage = "bound" /\ CardCallAt(c, "fetched", "BOUND") /\ pcCache' = "BOUND"
  /\ UNCHANGED <<pcServer, pcCard, pcForm, pcDraft, pcStored>>

\* An answer without success puts back what was read before; a request that
\* fails leaves BOUND in the cache.  The card only logs either.
CardBindFailed(c, answered) ==
  /\ pcCalls[c].stage \in {"bind sent", "bound"} /\ CardCallAt(c, "none", NoStatus)
  /\ pcCache' = IF answered THEN pcCalls[c].read ELSE pcCache
  /\ UNCHANGED <<pcServer, pcCard, pcForm, pcDraft, pcStored>>

-----------------------------------------------------------------------------
EditForm ==
  /\ pcForm' = [pcForm EXCEPT !.dirty = TRUE]
  /\ UNCHANGED <<pcServer, pcCache, pcCard, pcCalls, pcDraft, pcStored>>

\* Every thirty seconds, if the form is dirty: also after it was submitted.
AutoSave ==
  /\ pcForm.dirty /\ pcDraft' = TRUE
  /\ UNCHANGED <<pcServer, pcCache, pcCard, pcCalls, pcForm, pcStored>>

OnFormSubmit ==
  /\ pcForm.dirty /\ pcForm.step = "none" /\ pcForm' = [pcForm EXCEPT !.step = "sent"]
  /\ UNCHANGED <<pcServer, pcCache, pcCard, pcCalls, pcDraft, pcStored>>

FormStored ==
  /\ pcForm.step = "sent" /\ pcStored < MaxSubmissions
  /\ pcStored' = pcStored + 1 /\ pcForm' = [pcForm EXCEPT !.step = "stored"]
  /\ UNCHANGED <<pcServer, pcCache, pcCard, pcCalls, pcDraft>>

\* submitEndorsement forgets the policy; the form removes its draft.
FormAnswered ==
  /\ pcForm.step = "stored" /\ pcForm' = [pcForm EXCEPT !.step = "told"]
  /\ pcDraft' = FALSE /\ pcCache' = NoStatus
  /\ UNCHANGED <<pcServer, pcCard, pcCalls, pcStored>>

\* The submission failed, or its answer was lost.
FormFailed ==
  /\ pcForm.step \in {"sent", "stored"} /\ pcForm' = [pcForm EXCEPT !.step = "none"]
  /\ UNCHANGED <<pcServer, pcCache, pcCard, pcCalls, pcDraft, pcStored>>

\* The caller's onSubmit ends, or throws: the form may be submitted again.
SubmitOver ==
  /\ pcForm.step = "told" /\ pcForm' = [pcForm EXCEPT !.step = "none"]
  /\ UNCHANGED <<pcServer, pcCache, pcCard, pcCalls, pcDraft, pcStored>>

CardNext ==
  \/ \E c \in CardCalls :
       \/ FetchCard(c) \/ ReadServed(c) \/ CardAnswered(c) \/ CardFailed(c)
       \/ HandleBindPolicy(c) \/ BindSent(c) \/ ServerBinds(c) \/ CardBindAnswered(c)
       \/ \E answered \in BOOLEAN : CardBindFailed(c, answered)
  \/ CardCacheExpires

FormNext ==
  \/ EditForm \/ AutoSave \/ OnFormSubmit
  \/ FormStored \/ FormAnswered \/ FormFailed \/ SubmitOver

PolicyCardNext == CardNext \/ FormNext

PolicyCardSpec == PolicyCardInit /\ [][PolicyCardNext]_pcVars

-----------------------------------------------------------------------------
\* The card and the form are of their types; a card that does not load shows a
\* policy or an error.
PolicyCardTypeOK ==
  /\ pcServer \in CardStatuses /\ pcCache \in CardStatuses \cup {NoStatus}
  /\ pcCard \in [shown : CardStatuses \cup {NoStatus}, loading : BOOLEAN, error : BOOLEAN]
  /\ ~pcCard.loading => pcCard.error \/ pcCard.shown # NoStatus
  /\ pcCalls \in [CardCalls -> [stage : {"none", "fetch asked", "fetched", "bind asked",
                                         "bind found", "bind sent", "bound"},
                                read : CardStatuses \cup {NoStatus}]]
  /\ pcForm \in [dirty : BOOLEAN, step : {"none", "sent", "stored", "told"}]
  /\ pcDraft \in BOOLEAN /\ pcStored \in 0..MaxSubmissions
=============================================================================
