---------------------------- MODULE WebViewsProofs ----------------------------
(***************************************************************************)
(* What the pages and the controls of the browser client keep, and the     *)
(* types of every component of the client at once.                         *)
(***************************************************************************)
EXTENDS MCWebClient, WebStoresProofs, SequenceTheorems, TLAPS

-----------------------------------------------------------------------------
(* The policy pages                                                        *)

\* A call of the hook, and the runs of it that are under way.
PageRun == [at : {"idle", "fetching", "delay"}, retry : 0..MaxRetryCount]

PolicyPagesInv == PolicyPagesTypeOK /\ RefreshNotLost

LEMMA PolicyPagesInitInv == PolicyPagesInit => PolicyPagesInv
<1>. SUFFICES ASSUME PolicyPagesInit PROVE PolicyPagesInv
  OBVIOUS
<1>1. 0 \in 0..MaxRetryCount
  BY PolicyPagesAssumption
<1>2. pgRuns \in [Runs -> PageRun]
  BY <1>1 DEF PolicyPagesInit, NoRun, PageRun
<1>. QED
  BY <1>1, <1>2 DEF PolicyPagesInit, PolicyPagesInv, PolicyPagesTypeOK, RefreshNotLost, PageRun

\* A fetch of the hook leaves runs, and nothing is wanted any more unless the last
\* fetch is fresh.
LEMMA HookFetchesStep ==
  ASSUME PolicyPagesTypeOK, HookFetches
  PROVE  /\ pgRuns' \in [Runs -> PageRun]
         /\ pgLast = "fresh" => pgWanted' = pgWanted
         /\ pgLast # "fresh" => pgWanted' = FALSE
<1>1. CASE pgLast = "fresh" /\ UNCHANGED <<pgRuns, pgWanted>>
  BY <1>1 DEF PolicyPagesTypeOK, PageRun
<1>2. CASE /\ pgLast # "fresh"
           /\ \E r \in Runs : pgRuns' = [pgRuns EXCEPT ![r] = [at |-> "fetching", retry |-> pgRetry]]
           /\ pgWanted' = FALSE
  BY <1>2 DEF PolicyPagesTypeOK, PageRun
<1>. QED
  BY <1>1, <1>2 DEF HookFetches

\* The page's effect, its interval and its changes.
LEMMA PageSteps ==
  ASSUME PolicyPagesInv, Effect \/ Tick \/ AfterChange \/ CacheTimeout \/ Unmount \/ UNCHANGED pgVars
  PROVE  PolicyPagesInv'
<1>. USE DEF PolicyPagesInv, PolicyPagesTypeOK, RefreshNotLost, PageRun
<1>1. CASE Effect
  <2>1. /\ HookFetches /\ UNCHANGED <<pgPage, pgMounted, pgRetry>>
        /\ \/ pgDue' = FALSE /\ pgLast' = pgLast
           \/ pgDue' = (pgLast # "zero") /\ pgLast' = "zero"
    BY <1>1 DEF Effect, RefreshPolicies
  <2>2. pgDue' \in BOOLEAN /\ pgLast' \in {"zero", "fresh", "stale"}
    BY <2>1
  <2>3. ~pgWanted'
    BY <2>1, HookFetchesStep
  <2>. QED
    BY <2>1, <2>2, <2>3, HookFetchesStep
<1>2. CASE Tick
  <2>1. UNCHANGED <<pgPage, pgMounted, pgRetry>> /\ pgLast' = "zero" /\ pgDue' = (pgLast # "zero")
    BY <1>2 DEF Tick
  <2>2. CASE pgLast = "fresh" /\ pgWanted' = TRUE /\ UNCHANGED pgRuns
    <3>1. pgDue' /\ pgDue' \in BOOLEAN /\ pgWanted' \in BOOLEAN
      BY <2>1, <2>2
    <3>2. pgRuns' \in [Runs -> PageRun] /\ pgLast' = "zero"
      BY <2>1, <2>2
    <3>. QED
      BY <2>1, <3>1, <3>2
  <2>3. CASE pgLast # "fresh" /\ HookFetches
    BY <2>1, <2>3, HookFetchesStep
  <2>. QED
    BY <1>2, <2>2, <2>3 DEF Tick
<1>3. CASE AfterChange
  <2>1. HookFetches /\ UNCHANGED <<pgPage, pgMounted, pgLast, pgRetry, pgDue>>
    BY <1>3 DEF AfterChange
  <2>2. pgRuns' \in [Runs -> PageRun] /\ (pgWanted' = pgWanted \/ pgWanted' = FALSE)
    BY <2>1, HookFetchesStep
  <2>3. pgMounted' \in BOOLEAN /\ pgDue' \in BOOLEAN /\ pgWanted' \in BOOLEAN
    BY <2>1, <2>2
  <2>4. RefreshNotLost'
    BY <2>1, <2>2
  <2>. QED
    BY <2>1, <2>2, <2>3, <2>4
<1>4. CASE CacheTimeout       BY <1>4 DEF CacheTimeout
<1>5. CASE Unmount            BY <1>5 DEF Unmount
<1>6. CASE UNCHANGED pgVars   BY <1>6 DEF pgVars
<1>. QED
  BY <1>1, <1>2, <1>3, <1>4, <1>5, <1>6

\* A run is answered, rejected or begun again.
LEMMA RunSteps ==
  ASSUME PolicyPagesInv, NEW r \in Runs, RunAnswered(r) \/ RunRejected(r) \/ RunAgain(r)
  PROVE  PolicyPagesInv'
<1>. USE DEF PolicyPagesInv, PolicyPagesTypeOK, RefreshNotLost, PageRun
<1>1. pgRuns' \in [Runs -> PageRun]
  <2>1. NoRun \in PageRun
    BY PolicyPagesAssumption DEF NoRun
  <2>2. /\ [pgRuns[r] EXCEPT !.at = "delay"] \in PageRun
        /\ [pgRuns[r] EXCEPT !.at = "fetching"] \in PageRun
    OBVIOUS
  <2>3. PICK run \in PageRun : pgRuns' = [pgRuns EXCEPT ![r] = run]
    BY <2>1, <2>2 DEF RunAnswered, RunRejected, RunAgain
  <2>. QED
    BY <2>3
<1>2. CASE RunAnswered(r)
  <2>1. pgLast' \in {"zero", "fresh", "stale"} /\ pgRetry' \in 0..MaxRetryCount
    BY <1>2, PolicyPagesAssumption DEF RunAnswered
  <2>3. pgDue' = TRUE \/ pgDue' = pgDue
    BY <1>2 DEF RunAnswered
  <2>2. pgWanted' = FALSE /\ UNCHANGED <<pgPage, pgMounted>>
    BY <1>2 DEF RunAnswered
  <2>. QED
    BY <1>1, <2>1, <2>2, <2>3
<1>3. CASE RunRejected(r)
  <2>1. UNCHANGED <<pgPage, pgMounted, pgLast, pgWanted>>
    BY <1>3 DEF RunRejected
  <2>2. pgRetry' \in 0..MaxRetryCount
    BY <1>3, PolicyPagesAssumption DEF RunRejected
  <2>3. pgDue' = TRUE \/ pgDue' = pgDue
    BY <1>3 DEF RunRejected
  <2>. QED
    BY <1>1, <2>1, <2>2, <2>3
<1>4. CASE RunAgain(r)
  BY <1>1, <1>4 DEF RunAgain
<1>. QED
  BY <1>2, <1>3, <1>4

LEMMA PolicyPagesNextInv == PolicyPagesInv /\ [PolicyPagesNext]_pgVars => PolicyPagesInv'
BY PageSteps, RunSteps DEF PolicyPagesNext

-----------------------------------------------------------------------------
\* The page and the runs of usePolicies.ts keep their types: no run retries more often
\* than the hook lets it.
THEOREM PolicyPagesTyped == PolicyPagesSpec => []PolicyPagesTypeOK
<1>1. PolicyPagesInv => PolicyPagesTypeOK
  BY DEF PolicyPagesInv
<1>. QED
  BY PolicyPagesInitInv, PolicyPagesNextInv, <1>1, PTL DEF PolicyPagesSpec

\* A refresh that returned early, for the last fetch was fresh (usePolicies.ts:66, :149),
\* is still due: no run that ends in between takes it away.
THEOREM RefreshNeverLost == PolicyPagesSpec => []RefreshNotLost
<1>1. PolicyPagesInv => RefreshNotLost
  BY DEF PolicyPagesInv
<1>. QED
  BY PolicyPagesInitInv, PolicyPagesNextInv, <1>1, PTL DEF PolicyPagesSpec

-----------------------------------------------------------------------------
(* The policy forms                                                        *)

\* A submission under way has data that validatePolicy accepted when it began.
SubmittedIsValid == pfSubmit.at # "idle" => pfSubmit.data.valid

PolicyFormsInv ==
  /\ PolicyFormsTypeOK
  /\ SubmittedIsValid
  /\ CreatedWasValidated

Submission == [at : {"idle", "checking", "saving"}, data : Version]

LEMMA PolicyFormsInitInv == PolicyFormsInit => PolicyFormsInv
<1>. SUFFICES ASSUME PolicyFormsInit PROVE PolicyFormsInv
  OBVIOUS
<1>1. [rev |-> 0, valid |-> FALSE] \in Version
  BY PolicyFormsAssumption DEF Version
<1>2. pfSubmit \in Submission
  BY <1>1 DEF PolicyFormsInit, NoSubmit, Submission
<1>3. PolicyFormsTypeOK
  <2>1. pfTimer \in BOOLEAN /\ pfDone \in BOOLEAN
    BY Zenon DEF PolicyFormsInit
  <2>. QED
    BY <1>1, <1>2, <2>1 DEF PolicyFormsInit, PolicyFormsTypeOK, Submission, LastStep
<1>. QED
  BY <1>3 DEF PolicyFormsInit, PolicyFormsInv, NoSubmit, SubmittedIsValid, CreatedWasValidated

\* The form is edited and checked, and its steps are walked.
LEMMA FormSteps ==
  ASSUME PolicyFormsInv,
         \/ Edit \/ Debounced \/ HandleNext \/ HandleBack \/ (\E k \in Checks : Checked(k))
         \/ UNCHANGED pfVars
  PROVE  PolicyFormsInv'
<1>. USE DEF PolicyFormsInv, PolicyFormsTypeOK, SubmittedIsValid, CreatedWasValidated
<1>1. CASE Edit
  <2>1. pfData' \in Version
    BY <1>1, PolicyFormsAssumption DEF Edit, Version
  <2>. QED
    BY <1>1, <2>1 DEF Edit
<1>2. CASE Debounced    BY <1>2 DEF Debounced
<1>3. CASE HandleNext   BY <1>3 DEF HandleNext, LastStep
<1>4. CASE HandleBack   BY <1>4 DEF HandleBack, LastStep
<1>5. CASE \E k \in Checks : Checked(k)  BY <1>5 DEF Checked
<1>6. CASE UNCHANGED pfVars  BY <1>6 DEF pfVars
<1>. QED
  BY <1>1, <1>2, <1>3, <1>4, <1>5, <1>6

\* The form is submitted: validated, checked, given to the page.
LEMMA SubmitSteps ==
  ASSUME PolicyFormsInv,
         HandleFormSubmit \/ SubmitChecked \/ SubmitCheckFails \/ HandlePolicySubmit
  PROVE  PolicyFormsInv'
<1>. USE DEF PolicyFormsInv, PolicyFormsTypeOK, SubmittedIsValid, CreatedWasValidated
<1>1. CASE HandleFormSubmit
  BY <1>1 DEF HandleFormSubmit
<1>2. CASE SubmitChecked
  <2>1. pfSubmit.data \in Version /\ pfSubmit.data.rev \in 0..MaxEdits /\ pfSubmit.data.valid
    BY <1>2 DEF SubmitChecked, Version
  <2>2. pfSubmit' \in Submission /\ pfSubmit'.data = pfSubmit.data
    BY <1>2 DEF SubmitChecked, Submission
  <2>. QED
    BY <1>2, <2>1, <2>2 DEF SubmitChecked, Submission
<1>3. CASE SubmitCheckFails \/ HandlePolicySubmit
  <2>1. NoSubmit \in Submission /\ NoSubmit.at = "idle"
    BY PolicyFormsAssumption DEF NoSubmit, Submission, Version
  <2>. QED
    BY <1>3, <2>1 DEF SubmitCheckFails, HandlePolicySubmit, Submission
<1>. QED
  BY <1>1, <1>2, <1>3

LEMMA PolicyFormsNextInv == PolicyFormsInv /\ [PolicyFormsNext]_pfVars => PolicyFormsInv'
BY FormSteps, SubmitSteps DEF PolicyFormsNext

-----------------------------------------------------------------------------
\* The form, its checks and its submission keep their types (PolicyForm.tsx).
THEOREM PolicyFormsTyped == PolicyFormsSpec => []PolicyFormsTypeOK
<1>1. PolicyFormsInv => PolicyFormsTypeOK
  BY DEF PolicyFormsInv
<1>. QED
  BY PolicyFormsInitInv, PolicyFormsNextInv, <1>1, PTL DEF PolicyFormsSpec

\* What PolicyForm.tsx creates was accepted by validatePolicy and by a OneShield check of
\* that very version, however the form was edited while the check ran.
THEOREM CreatedWasAlwaysValidated == PolicyFormsSpec => []CreatedWasValidated
<1>1. PolicyFormsInv => CreatedWasValidated
  BY DEF PolicyFormsInv
<1>. QED
  BY PolicyFormsInitInv, PolicyFormsNextInv, <1>1, PTL DEF PolicyFormsSpec

-----------------------------------------------------------------------------
(* The claims desk                                                         *)

DeskWrite == [by : {"page", "component"}, at : {"idle", "checking", "writing"},
              to : DeskStatuses, from : DeskStatuses]

FormTypeOK ==
  /\ cdForm \in {"editing", "submitting", "uploading"} /\ cdLeft \subseteq Files
  /\ cdClaims \in 0..MaxNewClaims /\ cdHeld \in [1..MaxNewClaims -> SUBSET Files]
  /\ cdReset \in BOOLEAN /\ cdMade \in 0..MaxNewClaims /\ cdLate \in 0..MaxNewClaims
  /\ cdBlamed \in 0..MaxNewClaims /\ cdRepeated \in 0..MaxNewClaims

PageTypeOK ==
  /\ cdStatus \in DeskStatuses /\ cdSelected \in DeskStatuses \cup {"none"}
  /\ cdWrites \in [DeskCalls -> DeskWrite]
  /\ cdSync \in {"synced", "syncing", "error"}

\* Claims are counted: every one was blamed, or made by a repeat, but for the one the
\* submission under way (or the one that ended well) was told of.  Its documents are in
\* it or left.
ClaimsCounted ==
  /\ cdClaims + cdLate <= MaxNewClaims
  /\ cdClaims = cdBlamed + cdRepeated + IF cdMade = 0 THEN 0 ELSE 1
  /\ cdForm = "uploading" => Files = cdHeld[cdMade] \cup cdLeft
  /\ cdForm = "uploading" \/ cdReset => cdMade # 0
  /\ cdForm = "editing" /\ ~cdReset => cdMade = 0
  /\ cdReset => cdForm = "editing" /\ cdHeld[cdMade] = Files

FormInv == FormTypeOK /\ ClaimsCounted

ClaimsDeskInv == FormInv /\ PageTypeOK /\ SyncingHasCause

LEMMA ClaimsDeskInitInv == ClaimsDeskInit => ClaimsDeskInv
<1>. SUFFICES ASSUME ClaimsDeskInit PROVE ClaimsDeskInv
  OBVIOUS
<1>1. FormTypeOK
  <2>1. cdReset \in BOOLEAN
    BY Zenon DEF ClaimsDeskInit
  <2>. QED
    BY <2>1, ClaimsDeskAssumption DEF ClaimsDeskInit, FormTypeOK
<1>2. ClaimsCounted
  BY ClaimsDeskAssumption DEF ClaimsDeskInit, ClaimsCounted
<1>3. PageTypeOK
  BY DEF ClaimsDeskInit, PageTypeOK, DeskWrite, DeskStatuses, DeskMoves, NoWrite
<1>4. SyncingHasCause
  BY DEF ClaimsDeskInit, SyncingHasCause
<1>. QED
  BY <1>1, <1>2, <1>3, <1>4 DEF ClaimsDeskInv, FormInv

\* The form: submitted, served once or more or late, its documents uploaded one by one.
LEMMA ClaimFormSteps ==
  ASSUME FormInv, ClaimFormNext \/ UNCHANGED cdFormVars
  PROVE  FormInv'
<1>. USE ClaimsDeskAssumption DEF FormInv, FormTypeOK, ClaimsCounted
<1>1. CASE SubmitClaim           BY <1>1 DEF SubmitClaim
<1>2. CASE ServerMakes           BY <1>2 DEF ServerMakes, Room
<1>3. CASE Submitted             BY <1>3 DEF Submitted
<1>4. CASE SubmitFails           BY <1>4 DEF SubmitFails, Room
<1>5. CASE ServerMakesLate       BY <1>5 DEF ServerMakesLate
<1>6. CASE UploadFile            BY <1>6 DEF UploadFile
<1>7. CASE UploadFails           BY <1>7 DEF UploadFails
<1>8. CASE FormDone              BY <1>8 DEF FormDone
<1>9. CASE UNCHANGED cdFormVars  BY <1>9 DEF cdFormVars
<1>. QED
  BY <1>1, <1>2, <1>3, <1>4, <1>5, <1>6, <1>7, <1>8, <1>9 DEF ClaimFormNext

\* The moves of the writes, as types.
LEMMA WriteTypes ==
  ASSUME PageTypeOK, NEW to \in DeskStatuses, cdSelected # "none", NEW who \in {"page", "component"}
  PROVE  Begun(who, to) \in DeskWrite /\ Begun(who, to).at # "idle" /\ Begun(who, to).by = who
BY DEF PageTypeOK, DeskWrite, Begun

LEMMA NoWriteType == NoWrite \in DeskWrite
BY DEF DeskWrite, NoWrite, DeskStatuses, DeskMoves

\* One or two calls move, and no other; a page's call among them, or nothing that says
\* "syncing", is enough.
LEMMA CallsMove ==
  ASSUME PageTypeOK, SyncingHasCause, NEW x \in DeskCalls, NEW y \in DeskCalls,
         NEW t \in DeskWrite, NEW u \in DeskWrite,
         cdWrites' = [cdWrites EXCEPT ![x] = t, ![y] = u],
         x # y, t.by = "page", t.at # "idle",
         cdSync' \in {"synced", "syncing", "error"}, UNCHANGED <<cdStatus, cdSelected>>
  PROVE  PageTypeOK' /\ SyncingHasCause'
BY DEF PageTypeOK, SyncingHasCause, Idle

LEMMA OneCallMoves ==
  ASSUME PageTypeOK, SyncingHasCause, NEW x \in DeskCalls, NEW t \in DeskWrite,
         cdWrites' = [cdWrites EXCEPT ![x] = t],
         cdSync' \in {"synced", "syncing", "error"},
         \/ cdSync' # "syncing"
         \/ t.by = "page" /\ t.at # "idle"
         \/ cdSync' = cdSync /\ (Idle(x) \/ cdWrites[x].by = "component"),
         cdStatus' \in DeskStatuses, cdSelected' \in DeskStatuses \cup {"none"}
  PROVE  PageTypeOK' /\ SyncingHasCause'
BY DEF PageTypeOK, SyncingHasCause, Idle

\* A user's change of status, and what the component does when its own fails.
LEMMA ChangeSteps ==
  ASSUME PageTypeOK, SyncingHasCause,
         \/ \E to \in DeskStatuses, x, y \in DeskCalls : HandleStatusChange(to, x, y)
         \/ \E w \in DeskCalls : ComponentWriteFails(w)
  PROVE  PageTypeOK' /\ SyncingHasCause'
<1>1. ASSUME NEW to \in DeskStatuses, NEW x \in DeskCalls, NEW y \in DeskCalls,
             HandleStatusChange(to, x, y)
      PROVE  PageTypeOK' /\ SyncingHasCause'
  <2>1. /\ cdSelected # "none" /\ x # y /\ Idle(y) /\ UNCHANGED <<cdStatus, cdSelected>>
    BY <1>1 DEF HandleStatusChange
  <2>. DEFINE t == Begun("page", to)
              u == Begun("component", to)
  <2>2. /\ t \in DeskWrite /\ t.at # "idle" /\ t.by = "page"
        /\ u \in DeskWrite /\ u.at # "idle" /\ u.by = "component"
    BY <2>1, WriteTypes
  <2>3. CASE cdSync' = "syncing" /\ cdWrites' = [cdWrites EXCEPT ![x] = t, ![y] = u]
    <3>. HIDE DEF t, u
    <3>. QED
      BY <2>1, <2>2, <2>3, CallsMove
  <2>4. CASE UNCHANGED cdSync /\ cdWrites' = [cdWrites EXCEPT ![y] = u]
    <3>. HIDE DEF t, u
    <3>1. /\ cdSync' \in {"synced", "syncing", "error"} /\ cdStatus' \in DeskStatuses
          /\ cdSelected' \in DeskStatuses \cup {"none"}
      BY <2>1, <2>4 DEF PageTypeOK
    <3>. QED
      BY <2>1, <2>2, <2>4, <3>1, OneCallMoves
  <2>. QED
    BY <1>1, <2>3, <2>4 DEF HandleStatusChange
<1>2. ASSUME NEW w \in DeskCalls, ComponentWriteFails(w)
      PROVE  PageTypeOK' /\ SyncingHasCause'
  <2>. DEFINE back == cdWrites[w].from
              t == Begun("page", back)
  <2>0. back \in DeskStatuses /\ cdWrites[w].by = "component"
    BY <1>2 DEF ComponentWriteFails, PageTypeOK, DeskWrite
  <2>1. PageAccepts(back) => t \in DeskWrite /\ t.at # "idle" /\ t.by = "page"
    BY <2>0, WriteTypes DEF PageAccepts
  <2>2. /\ UNCHANGED <<cdStatus, cdSelected>> /\ cdStatus' \in DeskStatuses
        /\ cdSelected' \in DeskStatuses \cup {"none"}
        /\ cdSync' \in {"synced", "syncing", "error"}
    BY <1>2 DEF ComponentWriteFails, PageTypeOK
  <2>3. CASE PageAccepts(back) /\ cdWrites' = [cdWrites EXCEPT ![w] = t]
    <3>. HIDE DEF t
    <3>. QED
      BY <2>1, <2>2, <2>3, OneCallMoves
  <2>4. CASE UNCHANGED cdSync /\ cdWrites' = [cdWrites EXCEPT ![w] = NoWrite]
    BY <2>0, <2>2, <2>4, NoWriteType, OneCallMoves
  <2>. QED
    BY <1>2, <2>3, <2>4 DEF ComponentWriteFails
<1>. QED
  BY <1>1, <1>2

\* The writes themselves, and what the page is told.
LEMMA WriteSteps ==
  ASSUME PageTypeOK, SyncingHasCause, NEW w \in DeskCalls,
         CheckCurrent(w) \/ WriteStatus(w) \/ PageWriteFails(w)
  PROVE  PageTypeOK' /\ SyncingHasCause'
<1>0. cdWrites[w] \in DeskWrite /\ cdWrites[w].to \in DeskStatuses
  BY DEF PageTypeOK, DeskWrite
<1>1. CASE CheckCurrent(w)
  <2>. DEFINE t == [cdWrites[w] EXCEPT !.at = "writing"]
  <2>1. /\ t \in DeskWrite /\ t.at # "idle" /\ t.by = cdWrites[w].by
        /\ (cdWrites[w].by = "page" \/ cdWrites[w].by = "component")
    BY <1>0 DEF DeskWrite
  <2>2. /\ cdWrites' = [cdWrites EXCEPT ![w] = t] /\ cdSync' = cdSync
        /\ cdSync' \in {"synced", "syncing", "error"} /\ cdStatus' \in DeskStatuses
        /\ cdSelected' \in DeskStatuses \cup {"none"}
    BY <1>1 DEF CheckCurrent, PageTypeOK
  <2>. HIDE DEF t
  <2>. QED
    BY <2>1, <2>2, OneCallMoves
<1>2. CASE WriteStatus(w)
  <2>1. /\ cdWrites' = [cdWrites EXCEPT ![w] = NoWrite] /\ cdStatus' \in DeskStatuses
        /\ cdSelected' \in DeskStatuses \cup {"none"}
        /\ cdSync' = (IF cdWrites[w].by = "page" THEN "synced" ELSE cdSync)
    BY <1>0, <1>2 DEF WriteStatus
  <2>2. cdSync \in {"synced", "syncing", "error"} /\ cdWrites[w].by \in {"page", "component"}
    BY <1>0 DEF PageTypeOK, DeskWrite
  <2>. QED
    BY <2>1, <2>2, NoWriteType, OneCallMoves
<1>3. CASE PageWriteFails(w)
  <2>1. /\ cdWrites' = [cdWrites EXCEPT ![w] = NoWrite] /\ cdSync' = "error"
        /\ cdStatus' \in DeskStatuses /\ cdSelected' \in DeskStatuses \cup {"none"}
    BY <1>3 DEF PageWriteFails, PageTypeOK
  <2>. QED
    BY <2>1, NoWriteType, OneCallMoves
<1>. QED
  BY <1>1, <1>2, <1>3

\* Fetches, live updates, others' changes and what does not touch the page.
LEMMA ViewSteps ==
  ASSUME PageTypeOK, SyncingHasCause,
         \/ FetchClaimDetails \/ HandleRealtimeUpdate \/ ClaimChangedElsewhere
         \/ UNCHANGED cdPageVars
  PROVE  PageTypeOK' /\ SyncingHasCause'
<1>1. cdStatus' \in DeskStatuses
  <2>1. \A s \in DeskStatuses : DeskMoves[s] \subseteq DeskStatuses
    BY DEF DeskStatuses, DeskMoves
  <2>. QED
    BY <2>1 DEF FetchClaimDetails, HandleRealtimeUpdate, ClaimChangedElsewhere, cdPageVars, PageTypeOK
<1>2. /\ UNCHANGED cdWrites /\ cdSync' \in {cdSync, "synced", "error"}
      /\ cdSelected' \in DeskStatuses \cup {"none"}
  BY DEF FetchClaimDetails, HandleRealtimeUpdate, ClaimChangedElsewhere, cdPageVars, PageTypeOK
<1>. QED
  BY <1>1, <1>2 DEF PageTypeOK, SyncingHasCause, Idle

LEMMA ClaimsDeskNextInv == ClaimsDeskInv /\ [ClaimsDeskNext]_cdVars => ClaimsDeskInv'
<1>. SUFFICES ASSUME ClaimsDeskInv, [ClaimsDeskNext]_cdVars PROVE ClaimsDeskInv'
  OBVIOUS
<1>. USE DEF ClaimsDeskInv
<1>1. CASE ClaimFormNext
  <2>1. UNCHANGED cdPageVars
    BY <1>1 DEF ClaimFormNext, SubmitClaim, ServerMakes, Submitted, SubmitFails, ServerMakesLate,
                UploadFile, UploadFails, FormDone
  <2>. QED
    BY <1>1, <2>1, ClaimFormSteps, ViewSteps
<1>2. CASE ClaimPageNext
  <2>1. UNCHANGED cdFormVars
    BY <1>2 DEF ClaimPageNext, FetchClaimDetails, HandleRealtimeUpdate, ClaimChangedElsewhere,
                HandleStatusChange, CheckCurrent, WriteStatus, PageWriteFails, ComponentWriteFails
  <2>. QED
    BY <1>2, <2>1, ClaimFormSteps, ViewSteps, ChangeSteps, WriteSteps DEF ClaimPageNext
<1>3. CASE UNCHANGED cdVars
  <2>1. UNCHANGED cdFormVars /\ UNCHANGED cdPageVars
    BY <1>3 DEF cdVars
  <2>. QED
    BY <2>1, ClaimFormSteps, ViewSteps
<1>. QED
  BY <1>1, <1>2, <1>3 DEF ClaimsDeskNext

-----------------------------------------------------------------------------
\* The claim form and the page of a claim keep their types (ClaimForm.tsx,
\* ClaimDetailsPage.tsx).
THEOREM ClaimsDeskTyped == ClaimsDeskSpec => []ClaimsDeskTypeOK
<1>1. ClaimsDeskInv => ClaimsDeskTypeOK
  BY DEF ClaimsDeskInv, FormInv, FormTypeOK, PageTypeOK, ClaimsDeskTypeOK, DeskWrite
<1>. QED
  BY ClaimsDeskInitInv, ClaimsDeskNextInv, <1>1, PTL DEF ClaimsDeskSpec

\* Every claim of a form but the first was made after a failure was reported, though its
\* claim was or would be made (ClaimForm.tsx:92-111), or by the client's repeat of a request
\* (api.utils.ts:129): for any number of documents, late requests and repeats.
THEOREM ExtraClaimsAlwaysExplained == ClaimsDeskSpec => []ExtraClaimsExplained
<1>1. ClaimsDeskInv => ExtraClaimsExplained
  BY DEF ClaimsDeskInv, FormInv, FormTypeOK, ClaimsCounted, ExtraClaimsExplained
<1>. QED
  BY ClaimsDeskInitInv, ClaimsDeskNextInv, <1>1, PTL DEF ClaimsDeskSpec

\* The page says that it synchronises only while its own update is under way
\* (ClaimDetailsPage.tsx:105), whichever of the updates ends first, for any number of them.
THEOREM SyncingAlwaysHasCause == ClaimsDeskSpec => []SyncingHasCause
<1>1. ClaimsDeskInv => SyncingHasCause
  BY DEF ClaimsDeskInv
<1>. QED
  BY ClaimsDeskInitInv, ClaimsDeskNextInv, <1>1, PTL DEF ClaimsDeskSpec

-----------------------------------------------------------------------------
(* The underwriting desk                                                   *)

AskedRows == QueueRows \cup {NoQueueRow}
DialogState == [open : BOOLEAN, row : AskedRows]

\* The decision requests under way, and what each of them is known for.
AskingIsBounded == udAsking \in Seq(AskedRows) /\ Len(udAsking) <= 2

DialogWasPressed == udDialog.open => udDialog.row \in udPressed

TwoAreConfirmed == Len(udAsking) > 1 => "confirmed twice" \in udWhy

AskedIsUndecided ==
  \A i \in DOMAIN udAsking :
    udAsking[i] \in QueueRows /\ udDecided[udAsking[i]] > 0
      => udWhy \cap {"confirmed twice", "decided again"} # {}

AskedWasPressed ==
  \A i \in DOMAIN udAsking :
    udAsking[i] \in QueueRows \ udPressed => "first of the selection" \in udWhy

DashboardInv ==
  /\ AskingIsBounded /\ DialogWasPressed
  /\ TwoAreConfirmed /\ AskedIsUndecided /\ AskedWasPressed
  /\ DecisionsExplained

UnderwritingDeskInv == UnderwritingDeskTypeOK /\ DashboardInv

LEMMA UnderwritingDeskInitInv == UnderwritingDeskInit => UnderwritingDeskInv
<1>. SUFFICES ASSUME UnderwritingDeskInit PROVE UnderwritingDeskInv
  OBVIOUS
<1>1. udDecided \in [QueueRows -> 0..MaxDecided]
  BY UnderwritingDeskAssumption DEF UnderwritingDeskInit
<1>2. udSelected \in Selections /\ udDialog \in DialogState /\ udDialog.open = FALSE
  BY DEF UnderwritingDeskInit, Selections, DialogState, AskedRows
<1>3. udQueue \in [query : {"loading", "shown", "error"}, retries : 0..ERROR_RETRY_COUNT]
  BY DEF UnderwritingDeskInit, ERROR_RETRY_COUNT
<1>4. udStep \in [active : 0..2, loading : BOOLEAN, assessed : BOOLEAN]
  BY DEF UnderwritingDeskInit
<1>5. udAsking \in Seq(AskedRows) /\ Len(udAsking) = 0 /\ DOMAIN udAsking = {}
  BY DEF UnderwritingDeskInit
<1>6. UnderwritingDeskTypeOK
  BY <1>1, <1>2, <1>3, <1>4, <1>5, UnderwritingDeskAssumption
     DEF UnderwritingDeskInit, UnderwritingDeskTypeOK, DialogState, AskedRows
<1>7. DashboardInv
  BY <1>2, <1>5 DEF UnderwritingDeskInit, DashboardInv, AskingIsBounded, DialogWasPressed,
     TwoAreConfirmed, AskedIsUndecided, AskedWasPressed, DecisionsExplained
<1>. QED
  BY <1>6, <1>7 DEF UnderwritingDeskInv

-----------------------------------------------------------------------------
QueueState == [query : {"loading", "shown", "error"}, retries : 0..ERROR_RETRY_COUNT]
StepState == [active : 0..2, loading : BOOLEAN, assessed : BOOLEAN]

\* The types of the other views are those of their own variables.
LEMMA OtherTypes ==
  ASSUME UnderwritingDeskTypeOK, UNCHANGED <<udView, udDashboard>>,
         udQueue' \in QueueState, udStep' \in StepState, udSubmits' \in 0..MaxSubmits
  PROVE  UnderwritingDeskTypeOK'
BY DEF UnderwritingDeskTypeOK, QueueState, StepState, udDashboard

LEMMA OneSubmission ==
  ASSUME NEW n \in 0..MaxSubmits, n < MaxSubmits
  PROVE  n + 1 \in 0..MaxSubmits
BY UnderwritingDeskAssumption

\* The workflow goes on from its first or its second step only.
LEMMA StepChanges ==
  ASSUME udStep \in StepState, NEW by \in {-1, 1}, HandleStepChange(by)
  PROVE  udStep' \in StepState
<1>1. udStep.active \in {0, 1} /\ udStep.active + by >= 0
  BY DEF HandleStepChange, IsStepValid
<1>2. udStep.active + by \in 0..2
  BY <1>1
<1>3. udStep' = [udStep EXCEPT !.loading = TRUE] \/ udStep' = [udStep EXCEPT !.active = udStep.active + by]
  BY DEF HandleStepChange
<1>4. [udStep EXCEPT !.loading = TRUE] \in StepState
  BY DEF StepState
<1>. DEFINE a == udStep.active + by
<1>5. a \in 0..2 => [udStep EXCEPT !.active = a] \in StepState
  <2>. HIDE DEF a
  <2>. QED
    BY DEF StepState
<1>. QED
  BY <1>2, <1>3, <1>4, <1>5

\* The queue, the assessment and the workflow leave the dashboard as it is.
LEMMA OtherViews ==
  ASSUME UnderwritingDeskInv,
         \/ \E s \in {"shown", "error"} : QueueQueryEnds(s)
         \/ QueueRetry \/ QueueAsks \/ SubmitsOnRender
         \/ \E by \in {-1, 1} : HandleStepChange(by)
         \/ \E ok \in BOOLEAN : StepSubmitted(ok)
         \/ UNCHANGED udVars
  PROVE  UnderwritingDeskInv'
<1>1. DashboardInv'
  BY DEF UnderwritingDeskInv, QueueQueryEnds, QueueRetry, QueueAsks, SubmitsOnRender, HandleStepChange,
     StepSubmitted, OnlyQueue, OnlyRisk, OnlyWorkflow, udVars, udDashboard, DashboardInv, AskingIsBounded,
     DialogWasPressed, TwoAreConfirmed, AskedIsUndecided, AskedWasPressed, DecisionsExplained
<1>2. CASE UNCHANGED udVars
  BY <1>1, <1>2, OtherTypes DEF udVars, UnderwritingDeskInv, UnderwritingDeskTypeOK, QueueState, StepState
<1>3. CASE \/ \E s \in {"shown", "error"} : QueueQueryEnds(s)
           \/ QueueRetry \/ QueueAsks
  <2>1. udQueue \in QueueState /\ OnlyQueue
    BY <1>3 DEF UnderwritingDeskInv, UnderwritingDeskTypeOK, QueueState, QueueQueryEnds, QueueRetry, QueueAsks
  <2>2. udQueue' \in QueueState
    BY <1>3, <2>1 DEF QueueState, QueueQueryEnds, QueueRetry, QueueAsks, ERROR_RETRY_COUNT
  <2>. QED
    BY <1>1, <2>1, <2>2, OtherTypes DEF OnlyQueue, UnderwritingDeskInv, UnderwritingDeskTypeOK, StepState
<1>4. CASE SubmitsOnRender
  BY <1>1, <1>4, OneSubmission, OtherTypes
     DEF SubmitsOnRender, OnlyRisk, UnderwritingDeskInv, UnderwritingDeskTypeOK, QueueState, StepState
<1>5. CASE \E by \in {-1, 1} : HandleStepChange(by)
  <2>1. /\ OnlyWorkflow /\ (UNCHANGED udSubmits \/ (udSubmits < MaxSubmits /\ udSubmits' = udSubmits + 1))
        /\ udStep' \in StepState
    <3>1. udStep \in StepState
      BY DEF UnderwritingDeskInv, UnderwritingDeskTypeOK, StepState
    <3>. QED
      BY <1>5, <3>1, StepChanges DEF HandleStepChange
  <2>. QED
    BY <1>1, <2>1, OneSubmission, OtherTypes
       DEF OnlyWorkflow, UnderwritingDeskInv, UnderwritingDeskTypeOK, QueueState
<1>6. CASE \E ok \in BOOLEAN : StepSubmitted(ok)
  <2>1. PICK ok \in BOOLEAN : StepSubmitted(ok)
    BY <1>6
  <2>2. udStep \in StepState
    BY DEF UnderwritingDeskInv, UnderwritingDeskTypeOK, StepState
  <2>3. udStep' \in StepState
    BY <2>1, <2>2 DEF StepSubmitted, StepState
  <2>. QED
    BY <1>1, <2>1, <2>3, OtherTypes
       DEF StepSubmitted, OnlyWorkflow, UnderwritingDeskInv, UnderwritingDeskTypeOK, QueueState
<1>. QED
  BY <1>2, <1>3, <1>4, <1>5, <1>6

\* The types of the dashboard are those of its own variables.
LEMMA DashboardTypes ==
  ASSUME UnderwritingDeskTypeOK, OnlyDashboard,
         udSelected' \in Selections, udDialog' \in DialogState,
         udAsking' \in Seq(AskedRows), udDecided' \in [QueueRows -> 0..MaxDecided],
         udPressed' \subseteq QueueRows,
         udWhy' \subseteq {"first of the selection", "confirmed twice", "decided again"}
  PROVE  UnderwritingDeskTypeOK'
BY DEF UnderwritingDeskTypeOK, OnlyDashboard, DialogState, AskedRows

\* A request more, or one less, in a short sequence of them.
LEMMA OneMore ==
  ASSUME NEW S, NEW s \in Seq(S), NEW e \in S
  PROVE  /\ Append(s, e) \in Seq(S) /\ Len(Append(s, e)) = Len(s) + 1
         /\ \A i \in DOMAIN Append(s, e) :
              (i \in DOMAIN s /\ Append(s, e)[i] = s[i]) \/ Append(s, e)[i] = e
OBVIOUS

LEMMA ShortSequences ==
  \A n, m \in Nat :
    /\ \A i \in 1..n : n <= 2 /\ i # 1 => n = 2
    /\ n < 2 /\ m = n + 1 => m <= 2
    /\ n <= 2 /\ m = n - 1 => m <= 1
    /\ n <= 1 /\ m = n - 1 => m = 0
    /\ n > 1 \/ n <= 1
    /\ n <= 1 => n <= 2 /\ ~(n > 1)
    /\ n = 0 => 1..n = {}
OBVIOUS

LEMMA OneLess ==
  ASSUME NEW S, NEW s \in Seq(S), Len(s) <= 2, NEW i \in DOMAIN s
  PROVE  LET t == IF i = 1 THEN Tail(s) ELSE <<s[1]>>
         IN  /\ t \in Seq(S) /\ Len(t) = Len(s) - 1
             /\ \A j \in DOMAIN t : \E k \in DOMAIN s : t[j] = s[k]
<1>1. Len(s) \in Nat /\ i \in 1..Len(s)
  OBVIOUS
<1>2. CASE i = 1
  <2>1. Tail(s) \in Seq(S) /\ Len(Tail(s)) = Len(s) - 1
    BY <1>1, <1>2
  <2>2. \A j \in DOMAIN Tail(s) : Tail(s)[j] = s[j + 1] /\ j + 1 \in DOMAIN s
    BY <1>1, <1>2
  <2>. QED
    BY <1>2, <2>1, <2>2
<1>3. CASE i # 1
  <2>1. Len(s) = 2
    BY <1>1, <1>3, ShortSequences
  <2>2. s[1] \in S /\ 1 \in DOMAIN s
    <3>1. \A j \in 1..Len(s) : s[j] \in S /\ j \in DOMAIN s
      OBVIOUS
    <3>2. 1 \in 1..Len(s)
      BY <2>1, 1 \in 1..2
    <3>. QED
      BY <3>1, <3>2
  <2>3. <<s[1]>> \in Seq(S) /\ Len(<<s[1]>>) = 1 /\ \A j \in DOMAIN <<s[1]>> : <<s[1]>>[j] = s[1]
    BY <2>2
  <2>. QED
    BY <1>3, <2>1, <2>2, <2>3
<1>. QED
  BY <1>2, <1>3

\* The first row of a selection, or none, is what a confirmation asks to decide.
LEMMA FirstOfSelection ==
  ASSUME NEW s \in Selections
  PROVE  (IF s = <<>> THEN NoQueueRow ELSE s[1]) \in AskedRows
BY DEF Selections, AskedRows

\* Rows are selected, the dialog is opened and closed.
LEMMA DialogSteps ==
  ASSUME UnderwritingDeskInv, SelectRows \/ (\E r \in QueueRows : HandleAction(r)) \/ CloseDialog
  PROVE  UnderwritingDeskInv'
<1>. USE DEF UnderwritingDeskInv, DashboardInv
<1>1. UNCHANGED <<udAsking, udDecided, udWhy>> /\ OnlyDashboard
  BY DEF SelectRows, HandleAction, CloseDialog
<1>2. udSelected' \in Selections
  BY DEF SelectRows, HandleAction, CloseDialog, UnderwritingDeskTypeOK
<1>3. /\ udPressed \subseteq udPressed' /\ udPressed' \subseteq QueueRows
      /\ udDialog' \in DialogState /\ DialogWasPressed'
  <2>1. CASE SelectRows
    BY <2>1 DEF SelectRows, UnderwritingDeskTypeOK, DialogWasPressed, DialogState, AskedRows
  <2>2. CASE \E r \in QueueRows : HandleAction(r)
    <3>1. PICK r \in QueueRows :
               udDialog' = [open |-> TRUE, row |-> r] /\ udPressed' = udPressed \cup {r}
      BY <2>2 DEF HandleAction
    <3>2. [open |-> TRUE, row |-> r] \in DialogState
      BY DEF DialogState, AskedRows
    <3>3. udPressed \subseteq QueueRows
      BY DEF UnderwritingDeskTypeOK
    <3>. QED
      BY <3>1, <3>2, <3>3 DEF DialogWasPressed
  <2>3. CASE CloseDialog
    BY <2>3 DEF CloseDialog, UnderwritingDeskTypeOK, DialogWasPressed, DialogState, AskedRows
  <2>. QED
    BY <2>1, <2>2, <2>3
<1>4. UnderwritingDeskTypeOK'
  BY <1>1, <1>2, <1>3, DashboardTypes DEF UnderwritingDeskTypeOK, AskingIsBounded
<1>. QED
  BY <1>1, <1>3, <1>4 DEF AskingIsBounded, TwoAreConfirmed, AskedIsUndecided, AskedWasPressed, DecisionsExplained

\* Confirm: what the request is known for goes with it.
LEMMA ConfirmStep ==
  ASSUME UnderwritingDeskInv, HandleConfirmAction
  PROVE  UnderwritingDeskInv'
<1>. DEFINE row == IF udSelected = <<>> THEN NoQueueRow ELSE udSelected[1]
<1>1. row \in AskedRows
  BY FirstOfSelection DEF UnderwritingDeskInv, UnderwritingDeskTypeOK
<1>2. /\ udDialog.open /\ Len(udAsking) < 2 /\ udAsking' = Append(udAsking, row)
      /\ udWhy' = udWhy \cup (IF row # udDialog.row THEN {"first of the selection"} ELSE {})
                        \cup (IF udAsking # <<>> THEN {"confirmed twice"} ELSE {})
                        \cup (IF row # NoQueueRow /\ udDecided[row] > 0 THEN {"decided again"} ELSE {})
      /\ UNCHANGED <<udSelected, udDialog, udDecided, udPressed>> /\ OnlyDashboard
  BY DEF HandleConfirmAction
<1>. HIDE DEF row
<1>3. /\ udAsking' \in Seq(AskedRows) /\ Len(udAsking') = Len(udAsking) + 1
      /\ \A i \in DOMAIN udAsking' : (i \in DOMAIN udAsking /\ udAsking'[i] = udAsking[i]) \/ udAsking'[i] = row
  <2>1. udAsking \in Seq(AskedRows) /\ udAsking' = Append(udAsking, row)
    BY <1>2 DEF UnderwritingDeskInv, DashboardInv, AskingIsBounded
  <2>. QED
    BY <1>1, <2>1, OneMore
<1>4. /\ udWhy \subseteq udWhy'
      /\ udWhy' \subseteq {"first of the selection", "confirmed twice", "decided again"}
  BY <1>2 DEF UnderwritingDeskInv, UnderwritingDeskTypeOK
<1>5. UnderwritingDeskTypeOK'
  BY <1>2, <1>3, <1>4, DashboardTypes DEF UnderwritingDeskInv, UnderwritingDeskTypeOK, DialogState, AskedRows
<1>6. AskingIsBounded' /\ DialogWasPressed' /\ TwoAreConfirmed'
  <2>1. Len(udAsking) \in Nat /\ (Len(udAsking) = 0 <=> udAsking = <<>>)
    BY DEF UnderwritingDeskInv, DashboardInv, AskingIsBounded
  <2>2. DialogWasPressed'
    BY <1>2 DEF UnderwritingDeskInv, DashboardInv, DialogWasPressed
  <2>3. Len(udAsking') > 1 => "confirmed twice" \in udWhy'
    <3>1. Len(udAsking') > 1 => udAsking # <<>>
      BY <1>3, <2>1
    <3>2. udAsking # <<>> => "confirmed twice" \in udWhy'
      BY <1>2
    <3>. QED
      BY <3>1, <3>2
  <2>4. Len(udAsking') <= 2
    <3>1. Len(udAsking') \in Nat
      BY <1>3
    <3>. QED
      BY <1>2, <1>3, <2>1, <3>1, ShortSequences
  <2>. QED
    BY <1>3, <2>2, <2>3, <2>4 DEF AskingIsBounded, TwoAreConfirmed
<1>8. AskedIsUndecided'
  <2>1. row \in QueueRows /\ udDecided[row] > 0 => udWhy' \cap {"confirmed twice", "decided again"} # {}
    BY <1>2, UnderwritingDeskAssumption
  <2>. QED
    BY <1>2, <1>3, <1>4, <2>1 DEF UnderwritingDeskInv, DashboardInv, AskedIsUndecided
<1>9. AskedWasPressed'
  BY <1>2, <1>3, <1>4 DEF UnderwritingDeskInv, DashboardInv, AskedWasPressed, DialogWasPressed
<1>10. DecisionsExplained'
  BY <1>2, <1>4 DEF UnderwritingDeskInv, DashboardInv, DecisionsExplained
<1>. QED
  BY <1>5, <1>6, <1>8, <1>9, <1>10 DEF UnderwritingDeskInv, DashboardInv

\* An answer takes one request away, and leaves the others.
LEMMA AnswerTakesOne ==
  ASSUME AskingIsBounded, NEW i \in DOMAIN udAsking, DeskAnswered(i)
  PROVE  /\ udAsking' \in Seq(AskedRows) /\ Len(udAsking') = Len(udAsking) - 1
         /\ \A j \in DOMAIN udAsking' : \E k \in DOMAIN udAsking : udAsking'[j] = udAsking[k]
BY OneLess DEF AskingIsBounded, DeskAnswered

\* A decision is taken, or not, and its request is answered.
LEMMA AnswerStep ==
  ASSUME UnderwritingDeskInv, NEW i \in 1..2, DecisionMade(i) \/ DecisionFails(i)
  PROVE  UnderwritingDeskInv'
<1>. DEFINE row == udAsking[i]
<1>1. /\ i \in DOMAIN udAsking /\ DeskAnswered(i) /\ (Decides(i) \/ UNCHANGED udDecided)
      /\ UNCHANGED <<udPressed, udWhy>> /\ OnlyDashboard
  BY DEF DecisionMade, DecisionFails
<1>2. AskingIsBounded
  BY DEF UnderwritingDeskInv, DashboardInv
<1>3. udSelected' \in Selections /\ udDialog' \in DialogState /\ (udDialog'.open => udDialog' = udDialog)
  <2>1. CASE DecisionMade(i)
    BY <2>1 DEF DecisionMade, Selections, DialogState, AskedRows
  <2>2. CASE DecisionFails(i)
    BY <2>2 DEF DecisionFails, UnderwritingDeskInv, UnderwritingDeskTypeOK, DialogState, AskedRows
  <2>. QED
    BY <2>1, <2>2
<1>4. /\ udAsking' \in Seq(AskedRows) /\ Len(udAsking') = Len(udAsking) - 1
      /\ \A j \in DOMAIN udAsking' : \E k \in DOMAIN udAsking : udAsking'[j] = udAsking[k]
  BY <1>1, <1>2, AnswerTakesOne
<1>5. \/ UNCHANGED udDecided
      \/ /\ row \in QueueRows /\ udDecided[row] < MaxDecided
         /\ udDecided' = [udDecided EXCEPT ![row] = @ + 1]
  BY <1>1, <1>2 DEF Decides, AskingIsBounded, AskedRows
<1>6. udDecided' \in [QueueRows -> 0..MaxDecided]
  <2>1. udDecided \in [QueueRows -> 0..MaxDecided]
    BY DEF UnderwritingDeskInv, UnderwritingDeskTypeOK
  <2>2. \A n \in 0..MaxDecided : n < MaxDecided => n + 1 \in 0..MaxDecided
    BY UnderwritingDeskAssumption
  <2>. HIDE DEF row
  <2>. QED
    BY <1>5, <2>1, <2>2
<1>7. UnderwritingDeskTypeOK'
  BY <1>1, <1>3, <1>4, <1>6, DashboardTypes DEF UnderwritingDeskInv, UnderwritingDeskTypeOK
<1>8. DialogWasPressed' /\ AskedWasPressed'
  BY <1>1, <1>3, <1>4 DEF UnderwritingDeskInv, DashboardInv, DialogWasPressed, AskedWasPressed
<1>9. /\ Len(udAsking') <= 1
      /\ "confirmed twice" \notin udWhy => Len(udAsking') = 0
  <2>1. Len(udAsking) \in Nat /\ Len(udAsking') \in Nat /\ Len(udAsking) <= 2
    BY <1>2, <1>4 DEF AskingIsBounded
  <2>2. "confirmed twice" \notin udWhy => Len(udAsking) <= 1
    BY <2>1, ShortSequences DEF UnderwritingDeskInv, DashboardInv, TwoAreConfirmed
  <2>. QED
    BY <1>4, <2>1, <2>2, ShortSequences
<1>10. AskedIsUndecided' /\ TwoAreConfirmed' /\ AskingIsBounded'
  <2>1. Len(udAsking') \in Nat /\ DOMAIN udAsking' = 1..Len(udAsking')
    BY <1>4
  <2>. DEFINE n == Len(udAsking')
  <2>2. n \in Nat /\ n <= 1 /\ DOMAIN udAsking' = 1..n /\ ("confirmed twice" \notin udWhy => n = 0)
    BY <1>9, <2>1
  <2>. HIDE DEF n
  <2>3. n <= 2 /\ ~(n > 1) /\ ("confirmed twice" \notin udWhy => DOMAIN udAsking' = {})
    <3>1. n <= 2 /\ ~(n > 1) /\ (n = 0 => 1..n = {})
      BY <2>2, ShortSequences
    <3>. QED
      BY <2>2, <3>1
  <2>4. AskingIsBounded' /\ TwoAreConfirmed'
    BY <1>4, <2>3 DEF AskingIsBounded, TwoAreConfirmed, n
  <2>. QED
    BY <1>1, <2>3, <2>4 DEF AskedIsUndecided
<1>11. DecisionsExplained'
  <2>1. CASE UNCHANGED udDecided
    BY <1>1, <2>1 DEF UnderwritingDeskInv, DashboardInv, DecisionsExplained
  <2>2. CASE ~UNCHANGED udDecided
    <3>1. row \in QueueRows /\ udDecided[row] \in 0..MaxDecided /\ udDecided'[row] = udDecided[row] + 1
          /\ \A r \in QueueRows \ {row} : udDecided'[r] = udDecided[r]
      BY <1>5, <2>2 DEF UnderwritingDeskInv, UnderwritingDeskTypeOK
    <3>2. udDecided'[row] > 1 => udWhy \cap {"confirmed twice", "decided again"} # {}
      <4>1. udDecided[row] > 0 => udWhy \cap {"confirmed twice", "decided again"} # {}
        BY <1>1, <3>1 DEF UnderwritingDeskInv, DashboardInv, AskedIsUndecided
      <4>2. \A n \in 0..MaxDecided : n + 1 > 1 => n > 0
        BY UnderwritingDeskAssumption
      <4>. QED
        BY <3>1, <4>1, <4>2
    <3>3. row \notin udPressed => "first of the selection" \in udWhy
      BY <1>1, <3>1 DEF UnderwritingDeskInv, DashboardInv, AskedWasPressed
    <3>. QED
      BY <1>1, <3>1, <3>2, <3>3 DEF UnderwritingDeskInv, DashboardInv, DecisionsExplained
  <2>. QED
    BY <2>1, <2>2
<1>. QED
  BY <1>7, <1>8, <1>9, <1>10, <1>11 DEF UnderwritingDeskInv, DashboardInv

LEMMA UnderwritingDeskNextInv == UnderwritingDeskInv /\ [UnderwritingDeskNext]_udVars => UnderwritingDeskInv'
BY OtherViews, DialogSteps, ConfirmStep, AnswerStep DEF UnderwritingDeskNext

-----------------------------------------------------------------------------
\* The underwriting views are of their types, the workflow never past its third step
\* (UnderwritingWorkflow.tsx), for any number of rows.
THEOREM UnderwritingDeskTyped == UnderwritingDeskSpec => []UnderwritingDeskTypeOK
<1>1. UnderwritingDeskInv => UnderwritingDeskTypeOK
  BY DEF UnderwritingDeskInv
<1>. QED
  BY UnderwritingDeskInitInv, UnderwritingDeskNextInv, <1>1, PTL DEF UnderwritingDeskSpec

\* A row decided twice, or without having been pressed, is explained by what the
\* confirmation of UnderwritingDashboard.tsx:197 leaves open.
THEOREM DecisionsAlwaysExplained == UnderwritingDeskSpec => []DecisionsExplained
<1>1. UnderwritingDeskInv => DecisionsExplained
  BY DEF UnderwritingDeskInv, DashboardInv
<1>. QED
  BY UnderwritingDeskInitInv, UnderwritingDeskNextInv, <1>1, PTL DEF UnderwritingDeskSpec

-----------------------------------------------------------------------------
(* The documents                                                           *)

Attempt == [stage : {"none", "encrypting", "sent", "stored"}, knows : BOOLEAN, button : BOOLEAN]
Card == [status : {"PENDING", "UPLOADING", "COMPLETED", "ERROR"},
         error : {"none", "retrying", "failed"}, file : BOOLEAN, encrypting : BOOLEAN]
Field == [chosen : BOOLEAN, uploading : BOOLEAN, error : BOOLEAN]
CopyReasons == {"overlap", "sent again", "answer lost", "client repeated", "given up"}

\* Only an attempt of a card whose properties change knows its file, so only such a
\* card schedules a retry.
KnowsOnlyIfUnsteady ==
  /\ \A a \in Attempts : wdAttempts[a].knows => ~wdView.steady
  /\ wdTimer => ~wdView.steady

\* While nothing has happened that explains a second copy, one attempt at most runs or
\* is scheduled, and none that would still store the file once it is stored.
OneAttempt ==
  wdWhy = {} =>
    /\ \A a, b \in Underway : a = b
    /\ wdTimer => Underway = {} /\ wdCopies = 0
    /\ \A a \in Underway : wdAttempts[a].stage # "stored" => wdCopies = 0
    /\ wdCopies <= 1 /\ wdLate = 0

UploadInv == KnowsOnlyIfUnsteady /\ OneAttempt
WebDocumentsInv == WebDocumentsTypeOK /\ UploadInv

LEMMA NoAttemptType == NoAttempt \in Attempt /\ NoAttempt.stage = "none" /\ NoAttempt.knows = FALSE
BY DEF NoAttempt, Attempt

LEMMA WebDocumentsInitInv == WebDocumentsInit => WebDocumentsInv
<1>. SUFFICES ASSUME WebDocumentsInit PROVE WebDocumentsInv
  OBVIOUS
<1>1. wdTimer \in BOOLEAN
  BY Zenon DEF WebDocumentsInit
<1>2. wdField \in Field /\ wdCard \in Card
  BY DEF WebDocumentsInit, Field, Card
<1>3. wdAttempts \in [Attempts -> Attempt] /\ \A a \in Attempts : wdAttempts[a] = NoAttempt
  BY NoAttemptType DEF WebDocumentsInit
<1>4. wdList \in [shown : {"none", "rows", "error"}, request : BOOLEAN]
      /\ wdPreview \in [open : BOOLEAN, loading : BOOLEAN, error : BOOLEAN]
  BY DEF WebDocumentsInit
<1>5. wdCount \in 0..RETRY_ATTEMPTS /\ wdCopies \in 0..MaxCopies /\ wdCopies = 0
  BY WebDocumentsAssumption DEF WebDocumentsInit, RETRY_ATTEMPTS
<1>6. WebDocumentsTypeOK
  BY <1>1, <1>2, <1>3, <1>4, <1>5 DEF WebDocumentsInit, WebDocumentsTypeOK, Field, Card, Attempt
<1>7. UploadInv
  BY <1>3, <1>5, NoAttemptType DEF WebDocumentsInit, UploadInv, KnowsOnlyIfUnsteady, OneAttempt, Underway
<1>. QED
  BY <1>6, <1>7 DEF WebDocumentsInv

-----------------------------------------------------------------------------
LEMMA EitherIsBoolean == \A p, q \in BOOLEAN : (p \/ q) \in BOOLEAN
BY Zenon

List == [shown : {"none", "rows", "error"}, request : BOOLEAN]
Preview == [open : BOOLEAN, loading : BOOLEAN, error : BOOLEAN]

LEMMA PreviewStates ==
  /\ [open |-> TRUE, loading |-> TRUE, error |-> FALSE] \in Preview
  /\ \A p \in Preview : [p EXCEPT !.error = TRUE] \in Preview /\ [p EXCEPT !.open = FALSE] \in Preview
BY DEF Preview

LEMMA PageTypes ==
  ASSUME WebDocumentsTypeOK, UNCHANGED <<wdView, wdUpload>>, wdList' \in List, wdPreview' \in Preview,
         wdRemoval' \in {"none", "reading", "deleting"}
  PROVE  WebDocumentsTypeOK'
<1>1. /\ wdTimer' = wdTimer /\ wdView' = wdView /\ wdField' = wdField /\ wdCard' = wdCard
      /\ wdCount' = wdCount /\ wdCopies' = wdCopies /\ wdAttempts' = wdAttempts /\ wdWhy' = wdWhy
      /\ wdLate' = wdLate
  BY DEF wdUpload
<1>. QED
  BY <1>1, Zenon DEF WebDocumentsTypeOK, List, Preview

\* The documents page leaves the upload alone.
LEMMA PageInv ==
  ASSUME WebDocumentsInv, DocumentsPage \/ UNCHANGED wdVars
  PROVE  WebDocumentsInv'
<1>1. UNCHANGED <<wdView, wdUpload>>
  BY DEF DocumentsPage, ListRequested, RowsAnswered, HandleDelete, RemoveDocument, RemoveAnswered,
     HandleDocumentSelect, ValidateAccess, ClosePreview, HandleDownload, wdVars
<1>2. UploadInv'
  BY <1>1 DEF WebDocumentsInv, UploadInv, KnowsOnlyIfUnsteady, OneAttempt, Underway, wdUpload
<1>3. wdList \in List /\ wdRemoval \in {"none", "reading", "deleting"} /\ wdPreview \in Preview
  BY DEF WebDocumentsInv, WebDocumentsTypeOK, List, Preview
<1>. USE DEF ListRequested, RowsAnswered, HandleDelete, RemoveDocument, RemoveAnswered,
     HandleDocumentSelect, ValidateAccess, ClosePreview, HandleDownload, wdVars, wdBrowse
<1>4. wdList' \in List
  <2>1. CASE \E ok \in BOOLEAN : RemoveAnswered(ok)
    <3>1. PICK ok \in BOOLEAN : wdList' = [wdList EXCEPT !.request = ok \/ wdList.request]
      BY <2>1
    <3>2. (ok \/ wdList.request) \in BOOLEAN
      BY <1>3, EitherIsBoolean DEF List
    <3>. QED
      BY <1>3, <3>1, <3>2 DEF List
  <2>2. CASE \E s \in {"rows", "error"} : RowsAnswered(s)
    <3>1. PICK s \in {"rows", "error"} : wdList' = [shown |-> s, request |-> FALSE]
      BY <2>2
    <3>. QED
      BY <3>1 DEF List
  <2>3. CASE ListRequested
    BY <1>3, <2>3 DEF List
  <2>4. CASE UNCHANGED wdList
    BY <1>3, <2>4
  <2>. QED
    BY <2>1, <2>2, <2>3, <2>4 DEF DocumentsPage
<1>5. wdRemoval' \in {"none", "reading", "deleting"}
  BY <1>3 DEF DocumentsPage
<1>6. wdPreview' \in Preview
  <2>1. CASE \E failed \in BOOLEAN : HandleDownload(failed)
    <3>1. PICK failed \in BOOLEAN :
            wdPreview' = [wdPreview EXCEPT !.loading = FALSE, !.error = wdPreview.error \/ failed]
      BY <2>1
    <3>2. (wdPreview.error \/ failed) \in BOOLEAN
      BY <1>3, EitherIsBoolean DEF Preview
    <3>. QED
      BY <1>3, <3>1, <3>2 DEF Preview
  <2>2. CASE HandleDocumentSelect \/ ValidateAccess \/ ClosePreview
    <3>1. \/ wdPreview' = [open |-> TRUE, loading |-> TRUE, error |-> FALSE]
          \/ wdPreview' = [wdPreview EXCEPT !.error = TRUE]
          \/ wdPreview' = [wdPreview EXCEPT !.open = FALSE]
      BY <2>2
    <3>. QED
      BY <1>3, <3>1, PreviewStates
  <2>4. CASE ListRequested \/ HandleDelete \/ RemoveDocument \/ UNCHANGED wdVars
    BY <1>3, <2>4
  <2>5. CASE (\E s \in {"rows", "error"} : RowsAnswered(s)) \/ (\E ok \in BOOLEAN : RemoveAnswered(ok))
    BY <1>3, <2>5
  <2>. QED
    BY <2>1, <2>2, <2>4, <2>5 DEF DocumentsPage
<1>7. WebDocumentsTypeOK'
  BY <1>1, <1>4, <1>5, <1>6, PageTypes DEF WebDocumentsInv
<1>. QED
  BY <1>2, <1>7 DEF WebDocumentsInv

\* What is left to type when the page is left alone.
LEMMA UploadTypes ==
  ASSUME WebDocumentsTypeOK, UNCHANGED <<wdView, wdBrowse>>,
         wdField' \in Field, wdCard' \in Card, wdCount' \in 0..RETRY_ATTEMPTS, wdTimer' \in BOOLEAN,
         wdAttempts' \in [Attempts -> Attempt], wdCopies' \in 0..MaxCopies, wdWhy' \subseteq CopyReasons,
         wdLate' \in 0..MaxCopies
  PROVE  WebDocumentsTypeOK'
BY DEF WebDocumentsTypeOK, wdBrowse, Field, Card, Attempt, CopyReasons

LEMMA UploadTypesNow ==
  ASSUME WebDocumentsInv
  PROVE  /\ wdField \in Field /\ wdCard \in Card /\ wdCount \in 0..RETRY_ATTEMPTS /\ wdTimer \in BOOLEAN
         /\ wdAttempts \in [Attempts -> Attempt] /\ wdCopies \in 0..MaxCopies /\ wdWhy \subseteq CopyReasons
         /\ wdLate \in 0..MaxCopies
BY DEF WebDocumentsInv, WebDocumentsTypeOK, Field, Card, Attempt, CopyReasons

\* The file field, the progress of an upload and its cancellation touch what is shown only.
LEMMA ShownSteps ==
  ASSUME WebDocumentsInv,
         \/ \E valid \in BOOLEAN : ProcessFiles(valid)
         \/ CloseMessage \/ HandleCancel
         \/ \E a \in Attempts : UploadProgress(a)
  PROVE  WebDocumentsInv'
<1>1. UNCHANGED <<wdView, wdCount, wdTimer, wdAttempts, wdCopies, wdLate, wdWhy, wdBrowse>>
  BY DEF ProcessFiles, CloseMessage, HandleCancel, UploadProgress
<1>2. wdField' \in Field
  BY UploadTypesNow DEF ProcessFiles, CloseMessage, HandleCancel, UploadProgress, Field
<1>3. wdCard' \in Card
  BY UploadTypesNow DEF ProcessFiles, CloseMessage, HandleCancel, UploadProgress, Card
<1>4. WebDocumentsTypeOK'
  BY <1>1, <1>2, <1>3, UploadTypesNow, UploadTypes DEF WebDocumentsInv
<1>. QED
  BY <1>1, <1>4 DEF WebDocumentsInv, UploadInv, KnowsOnlyIfUnsteady, OneAttempt, Underway

\* One attempt moves, and the others stay where they are.
LEMMA OneMoves ==
  ASSUME wdAttempts \in [Attempts -> Attempt], NEW a \in Attempts, NEW t \in Attempt,
         wdAttempts' = [wdAttempts EXCEPT ![a] = t]
  PROVE  /\ wdAttempts' \in [Attempts -> Attempt] /\ wdAttempts'[a] = t
         /\ \A b \in Attempts \ {a} : wdAttempts'[b] = wdAttempts[b]
         /\ \A b \in Attempts \ {a} : b \in Underway' <=> b \in Underway
BY DEF Underway

\* An attempt begins: while nothing explains a second copy it is alone, and first.
LEMMA AttemptBegins ==
  ASSUME WebDocumentsInv, NEW a \in Attempts, PressUpload(a) \/ PressRetry(a) \/ RetryTimer(a)
  PROVE  WebDocumentsInv'
<1>1. PICK knows \in BOOLEAN, button \in BOOLEAN :
        /\ HandleUpload(a, knows, button) /\ (knows => ~wdView.steady)
  <2>1. wdView.steady \in BOOLEAN /\ wdCard.file \in BOOLEAN
    BY DEF WebDocumentsInv, WebDocumentsTypeOK
  <2>2. CASE PressUpload(a)
    <3>1. (~wdView.steady /\ wdCard.file) \in BOOLEAN
      BY Zenon
    <3>. QED
      BY <2>2, <3>1 DEF PressUpload
  <2>3. CASE PressRetry(a)
    <3>1. (~wdView.steady) \in BOOLEAN
      BY Zenon
    <3>. QED
      BY <2>3, <3>1 DEF PressRetry
  <2>4. CASE RetryTimer(a)
    BY <2>4 DEF RetryTimer, WebDocumentsInv, UploadInv, KnowsOnlyIfUnsteady
  <2>. QED
    BY <2>2, <2>3, <2>4
<1>. DEFINE t == [stage |-> "encrypting", knows |-> knows, button |-> button]
<1>2. t \in Attempt /\ t.knows = knows /\ t.stage = "encrypting"
  BY DEF Attempt
<1>3. /\ wdAttempts' = [wdAttempts EXCEPT ![a] = t] /\ wdAttempts[a].stage = "none"
      /\ UNCHANGED <<wdView, wdCopies, wdLate, wdBrowse>> /\ wdCount' = 0
  BY <1>1 DEF HandleUpload
<1>. HIDE DEF t
<1>4. /\ wdAttempts' \in [Attempts -> Attempt] /\ wdAttempts'[a] = t
      /\ \A b \in Attempts \ {a} : wdAttempts'[b] = wdAttempts[b]
      /\ \A b \in Attempts \ {a} : b \in Underway' <=> b \in Underway
  BY <1>2, <1>3, UploadTypesNow, OneMoves
<1>5. wdField' \in Field
  BY UploadTypesNow DEF PressUpload, PressRetry, RetryTimer, Field
<1>6. wdCard' \in Card /\ wdCount' \in 0..RETRY_ATTEMPTS
  BY <1>1 DEF HandleUpload, Card, RETRY_ATTEMPTS
<1>7. wdTimer' \in BOOLEAN /\ (wdTimer' => wdTimer)
  <2>1. wdTimer' = FALSE \/ wdTimer' = wdTimer
    BY Zenon DEF PressUpload, PressRetry, RetryTimer
  <2>2. wdTimer \in BOOLEAN
    BY UploadTypesNow
  <2>3. CASE wdTimer' = FALSE
    BY <2>3, Zenon
  <2>4. CASE wdTimer' = wdTimer
    BY <2>2, <2>4, Zenon
  <2>. QED
    BY <2>1, <2>3, <2>4
<1>8. wdWhy' \subseteq CopyReasons /\ wdWhy \subseteq wdWhy'
  BY UploadTypesNow DEF PressUpload, PressRetry, RetryTimer, Overlap, Again, CopyReasons
<1>9. wdWhy' = {} => Underway = {} /\ ~wdTimer' /\ wdCopies = 0 /\ wdLate = 0
  <2>1. CASE PressUpload(a) \/ PressRetry(a)
    <3>1. wdWhy' = wdWhy \cup Overlap(wdTimer) \cup Again /\ (wdTimer' => wdTimer)
      BY <2>1, <1>7 DEF PressUpload, PressRetry
    <3>2. wdCopies \in Nat
      BY UploadTypesNow, WebDocumentsAssumption
    <3>3. wdTimer => "overlap" \in wdWhy'
      BY <3>1 DEF Overlap
    <3>4. Underway # {} => "overlap" \in wdWhy'
      BY <3>1 DEF Overlap
    <3>5. wdCopies # 0 => "sent again" \in wdWhy'
      <4>1. \A n \in Nat : n # 0 => n > 0
        OBVIOUS
      <4>2. wdCopies # 0 => Again = {"sent again"}
        BY <3>2, <4>1 DEF Again
      <4>. QED
        BY <3>1, <4>2
    <3>. QED
      BY <1>8, <3>1, <3>3, <3>4, <3>5 DEF WebDocumentsInv, UploadInv, OneAttempt
  <2>2. CASE RetryTimer(a)
    <3>1. wdWhy' = wdWhy \cup Overlap(FALSE) /\ wdTimer /\ ~wdTimer'
      BY <2>2 DEF RetryTimer
    <3>. QED
      BY <3>1 DEF Overlap, WebDocumentsInv, UploadInv, OneAttempt
  <2>. QED
    BY <2>1, <2>2
<1>10. WebDocumentsTypeOK'
  BY <1>3, <1>4, <1>5, <1>6, <1>7, <1>8, UploadTypesNow, UploadTypes DEF WebDocumentsInv
<1>11. KnowsOnlyIfUnsteady'
  BY <1>1, <1>2, <1>3, <1>4, <1>7 DEF WebDocumentsInv, UploadInv, KnowsOnlyIfUnsteady
<1>12. OneAttempt'
  BY <1>3, <1>4, <1>9 DEF OneAttempt, Underway
<1>. QED
  BY <1>10, <1>11, <1>12 DEF WebDocumentsInv, UploadInv

\* An attempt goes on: it is encrypted, the server stores it, and the client may send it
\* again, which is on record.
LEMMA AttemptGoesOn ==
  ASSUME WebDocumentsInv, NEW a \in Attempts, Encrypted(a) \/ ServerStores(a) \/ ClientRepeats(a)
  PROVE  WebDocumentsInv'
<1>1. PICK stage \in {"sent", "stored"} :
        /\ wdAttempts' = [wdAttempts EXCEPT ![a] = [wdAttempts[a] EXCEPT !.stage = stage]]
        /\ wdAttempts[a].stage # "none" /\ (wdWhy' = {} => wdAttempts[a].stage # "stored")
        /\ UNCHANGED <<wdView, wdField, wdCount, wdTimer, wdLate, wdBrowse>>
        /\ wdWhy \subseteq wdWhy' /\ wdWhy' \subseteq CopyReasons
        /\ \/ wdCopies' = wdCopies
           \/ stage = "stored" /\ wdCopies < MaxCopies /\ wdCopies' = wdCopies + 1
  BY UploadTypesNow DEF Encrypted, ServerStores, ClientRepeats, CopyReasons
<1>2. wdAttempts[a] \in Attempt
  BY UploadTypesNow
<1>. DEFINE t == [wdAttempts[a] EXCEPT !.stage = stage]
<1>3. t \in Attempt /\ t.stage = stage /\ t.knows = wdAttempts[a].knows
  BY <1>2 DEF Attempt
<1>4. wdAttempts' = [wdAttempts EXCEPT ![a] = t]
  BY <1>1
<1>. HIDE DEF t
<1>5. /\ wdAttempts' \in [Attempts -> Attempt] /\ wdAttempts'[a] = t
      /\ \A b \in Attempts \ {a} : wdAttempts'[b] = wdAttempts[b]
      /\ \A b \in Attempts \ {a} : b \in Underway' <=> b \in Underway
  BY <1>3, <1>4, UploadTypesNow, OneMoves
<1>6. a \in Underway
  BY <1>1 DEF Underway
<1>7. wdCopies' \in 0..MaxCopies /\ wdCopies \in Nat
  BY <1>1, UploadTypesNow, WebDocumentsAssumption
<1>8. wdCard' \in Card
  BY UploadTypesNow DEF Encrypted, ServerStores, ClientRepeats, Card
<1>9. WebDocumentsTypeOK'
  BY <1>1, <1>5, <1>7, <1>8, UploadTypesNow, UploadTypes DEF WebDocumentsInv
<1>10. KnowsOnlyIfUnsteady'
  BY <1>1, <1>2, <1>3, <1>5 DEF WebDocumentsInv, UploadInv, KnowsOnlyIfUnsteady
<1>11. OneAttempt'
  <2>. SUFFICES ASSUME wdWhy' = {}
                PROVE  /\ \A b, c \in Underway' : b = c
                       /\ wdTimer' => Underway' = {} /\ wdCopies' = 0
                       /\ \A b \in Underway' : wdAttempts'[b].stage # "stored" => wdCopies' = 0
                       /\ wdCopies' <= 1 /\ wdLate' = 0
    BY <1>1 DEF OneAttempt
  <2>1. /\ \A b \in Underway : b = a
        /\ ~wdTimer /\ wdCopies = 0 /\ wdLate = 0
    BY <1>1, <1>6 DEF WebDocumentsInv, UploadInv, OneAttempt
  <2>2. \A b \in Underway' : b = a
    BY <1>5, <2>1 DEF Underway
  <2>3. wdCopies' <= 1 /\ (wdCopies' = 0 \/ stage = "stored")
    BY <1>1, <1>7, <2>1
  <2>. QED
    BY <1>1, <1>3, <1>5, <2>1, <2>2, <2>3
<1>. QED
  BY <1>9, <1>10, <1>11 DEF WebDocumentsInv, UploadInv

\* An attempt is over; a failure of one that was stored is on record.
LEMMA AttemptEnds ==
  ASSUME WebDocumentsInv, NEW a \in Attempts, UploadAnswered(a) \/ UploadFailed(a)
  PROVE  WebDocumentsInv'
<1>1. /\ wdAttempts' = [wdAttempts EXCEPT ![a] = NoAttempt]
      /\ wdAttempts[a].stage # "none" /\ FieldDone(a)
      /\ UNCHANGED <<wdView, wdCopies, wdBrowse>> /\ wdWhy \subseteq wdWhy' /\ wdWhy' \subseteq CopyReasons
      /\ wdLate' \in 0..MaxCopies /\ (wdWhy' = {} => wdLate' = wdLate)
  <2>1. /\ wdAttempts' = [wdAttempts EXCEPT ![a] = NoAttempt]
        /\ wdAttempts[a].stage # "none" /\ FieldDone(a) /\ UNCHANGED <<wdView, wdCopies, wdBrowse>>
    BY DEF UploadAnswered, UploadFailed, AttemptOver
  <2>2. \/ UNCHANGED <<wdLate, wdWhy>>
        \/ wdWhy' = wdWhy \cup {"answer lost"} /\ UNCHANGED wdLate
        \/ wdWhy' = wdWhy \cup {"given up"} /\ wdLate < MaxCopies /\ wdLate' = wdLate + 1
    BY DEF UploadAnswered, UploadFailed
  <2>3. wdLate \in 0..MaxCopies /\ wdWhy \subseteq CopyReasons
    BY UploadTypesNow
  <2>4. wdWhy \subseteq wdWhy' /\ wdWhy' \subseteq CopyReasons
    BY <2>2, <2>3 DEF CopyReasons
  <2>5. wdLate' \in 0..MaxCopies
    <3>1. wdLate' = wdLate \/ (wdLate < MaxCopies /\ wdLate' = wdLate + 1)
      BY <2>2, Zenon
    <3>. QED
      BY <3>1, <2>3, WebDocumentsAssumption
  <2>6. wdWhy' = {} => wdLate' = wdLate
    BY <2>2
  <2>. QED
    BY <2>1, <2>4, <2>5, <2>6
<1>2. /\ wdAttempts' \in [Attempts -> Attempt] /\ wdAttempts'[a] = NoAttempt
      /\ \A b \in Attempts \ {a} : wdAttempts'[b] = wdAttempts[b]
      /\ \A b \in Attempts \ {a} : b \in Underway' <=> b \in Underway
  BY <1>1, NoAttemptType, UploadTypesNow, OneMoves
<1>3. a \in Underway /\ a \notin Underway'
  BY <1>1, <1>2, NoAttemptType DEF Underway
<1>4. /\ wdTimer' \in BOOLEAN
      /\ wdTimer' => wdTimer \/ (wdAttempts[a].knows /\ UploadFailed(a))
  <2>1. wdAttempts[a].knows \in BOOLEAN
    BY UploadTypesNow DEF Attempt
  <2>. QED
    BY <2>1, UploadTypesNow, Zenon DEF UploadAnswered, UploadFailed, HandleError
<1>5. wdField' \in Field
  BY <1>1, UploadTypesNow DEF FieldDone, Field
<1>6. wdCard' \in Card
  BY UploadTypesNow DEF UploadAnswered, UploadFailed, HandleError, Card
<1>7. wdCount' \in 0..RETRY_ATTEMPTS
  <2>1. UNCHANGED wdCount \/ (wdCount < RETRY_ATTEMPTS /\ wdCount' = wdCount + 1)
    BY DEF UploadAnswered, UploadFailed, HandleError
  <2>. QED
    BY <2>1, UploadTypesNow DEF RETRY_ATTEMPTS
<1>8. WebDocumentsTypeOK'
  BY <1>1, <1>2, <1>4, <1>5, <1>6, <1>7, UploadTypesNow, UploadTypes DEF WebDocumentsInv
<1>9. KnowsOnlyIfUnsteady'
  BY <1>1, <1>2, <1>4, NoAttemptType DEF WebDocumentsInv, UploadInv, KnowsOnlyIfUnsteady
<1>10. OneAttempt'
  <2>. SUFFICES ASSUME wdWhy' = {}
                PROVE  /\ \A b, c \in Underway' : b = c
                       /\ wdTimer' => Underway' = {} /\ wdCopies' = 0
                       /\ \A b \in Underway' : wdAttempts'[b].stage # "stored" => wdCopies' = 0
                       /\ wdCopies' <= 1 /\ wdLate' = 0
    BY DEF OneAttempt
  <2>1. wdWhy = {}
    BY <1>1
  <2>2. \A b \in Underway : b = a
    BY <1>3, <2>1 DEF WebDocumentsInv, UploadInv, OneAttempt
  <2>3. Underway' = {}
    BY <1>2, <1>3, <2>2 DEF Underway
  <2>4. ~wdTimer /\ wdCopies <= 1 /\ wdLate = 0
    BY <1>3, <2>1 DEF WebDocumentsInv, UploadInv, OneAttempt
  <2>5. UploadFailed(a) => wdAttempts[a].stage # "stored"
    BY DEF UploadFailed
  <2>6. wdTimer' => wdCopies = 0
    BY <1>3, <1>4, <2>1, <2>4, <2>5 DEF WebDocumentsInv, UploadInv, OneAttempt
  <2>. QED
    BY <1>1, <2>3, <2>4, <2>6
<1>. QED
  BY <1>8, <1>9, <1>10 DEF WebDocumentsInv, UploadInv

\* A request given up is served after all: that it was given up is on record.
LEMMA LateStep ==
  ASSUME WebDocumentsInv, ServerStoresLate
  PROVE  WebDocumentsInv'
<1>1. /\ UNCHANGED <<wdView, wdField, wdCard, wdCount, wdTimer, wdAttempts, wdWhy, wdBrowse>>
      /\ wdLate' \in 0..MaxCopies /\ wdCopies' \in 0..MaxCopies /\ wdLate # 0
  BY UploadTypesNow, WebDocumentsAssumption DEF ServerStoresLate
<1>2. WebDocumentsTypeOK'
  BY <1>1, UploadTypesNow, UploadTypes DEF WebDocumentsInv
<1>. QED
  BY <1>1, <1>2 DEF WebDocumentsInv, UploadInv, KnowsOnlyIfUnsteady, OneAttempt

LEMMA WebDocumentsNextInv == WebDocumentsInv /\ [WebDocumentsNext]_wdVars => WebDocumentsInv'
<1>. SUFFICES ASSUME WebDocumentsInv, [WebDocumentsNext]_wdVars PROVE WebDocumentsInv'
  OBVIOUS
<1>1. CASE UploadCard
  BY <1>1, ShownSteps, AttemptBegins, AttemptGoesOn, AttemptEnds, LateStep DEF UploadCard
<1>. QED
  BY <1>1, PageInv DEF WebDocumentsNext

-----------------------------------------------------------------------------
\* The upload card, its attempts, the list and the preview (DocumentUpload.tsx,
\* useDocuments.ts) are of their types.
THEOREM WebDocumentsTyped == WebDocumentsSpec => []WebDocumentsTypeOK
<1>1. WebDocumentsInv => WebDocumentsTypeOK
  BY DEF WebDocumentsInv
<1>. QED
  BY WebDocumentsInitInv, WebDocumentsNextInv, <1>1, PTL DEF WebDocumentsSpec

\* A second copy has a cause on record outside the scheduled retries
\* (DocumentUpload.tsx:168): the user, a lost answer, a request given up, or the client's
\* own repeats (api.utils.ts:129).  And a card whose properties stay the same schedules none.
THEOREM CopiesAlwaysExplained == WebDocumentsSpec => []CopiesExplained
<1>1. WebDocumentsInv => CopiesExplained
  <2>. SUFFICES ASSUME WebDocumentsInv PROVE CopiesExplained
    OBVIOUS
  <2>1. wdCopies \in Nat
    BY UploadTypesNow, WebDocumentsAssumption
  <2>. QED
    BY <2>1 DEF WebDocumentsInv, UploadInv, KnowsOnlyIfUnsteady, OneAttempt, CopiesExplained
<1>. QED
  BY WebDocumentsInitInv, WebDocumentsNextInv, <1>1, PTL DEF WebDocumentsSpec

-----------------------------------------------------------------------------
(* The card of a policy                                                    *)

CardStages == {"none", "fetch asked", "fetched", "bind asked", "bind found", "bind sent", "bound"}
CardTypes == [stage : CardStages, read : CardStatuses \cup {NoStatus}]
ShownCard == [shown : CardStatuses \cup {NoStatus}, loading : BOOLEAN, error : BOOLEAN]

\* A call that has read the policy has read one of its statuses.
CardCallFits(call) ==
  call.stage \in {"fetched", "bind found", "bind sent", "bound"} => call.read \in CardStatuses

CardParts ==
  /\ pcServer \in CardStatuses /\ pcCache \in CardStatuses \cup {NoStatus}
  /\ pcCard \in ShownCard
  /\ ~pcCard.loading => pcCard.error \/ pcCard.shown # NoStatus
  /\ pcCalls \in [CardCalls -> CardTypes]
  /\ \A c \in CardCalls : CardCallFits(pcCalls[c])

FormParts ==
  /\ pcForm \in [dirty : BOOLEAN, step : {"none", "sent", "stored", "told"}]
  /\ pcDraft \in BOOLEAN /\ pcStored \in 0..MaxSubmissions

LEMMA CardInitInv == PolicyCardInit => CardParts /\ FormParts
<1>. SUFFICES ASSUME PolicyCardInit PROVE CardParts /\ FormParts
  OBVIOUS
<1>1. pcDraft \in BOOLEAN
  BY Zenon DEF PolicyCardInit, FormInit
<1>2. pcForm \in [dirty : BOOLEAN, step : {"none", "sent", "stored", "told"}]
  BY DEF PolicyCardInit, FormInit
<1>3. pcStored \in 0..MaxSubmissions
  BY PolicyCardAssumption DEF PolicyCardInit, FormInit
<1>4. pcCard \in ShownCard /\ pcCard.loading
  BY DEF PolicyCardInit, CardInit, ShownCard
<1>5. FreeCall \in CardTypes /\ CardCallFits(FreeCall)
  BY DEF FreeCall, CardTypes, CardStages, CardCallFits, NoStatus
<1>6. pcCalls \in [CardCalls -> CardTypes] /\ \A c \in CardCalls : CardCallFits(pcCalls[c])
  BY <1>5 DEF PolicyCardInit, CardInit
<1>. QED
  BY <1>1, <1>2, <1>3, <1>4, <1>6 DEF PolicyCardInit, CardInit, CardParts, FormParts, CardStatuses

\* One call moves on.
LEMMA CardCallMoves ==
  ASSUME CardParts, NEW c \in CardCalls, NEW stage \in CardStages,
         NEW read \in CardStatuses \cup {NoStatus}, CardCallAt(c, stage, read),
         stage \in {"fetched", "bind found", "bind sent", "bound"} => read \in CardStatuses
  PROVE  /\ pcCalls' \in [CardCalls -> CardTypes]
         /\ \A d \in CardCalls : CardCallFits(pcCalls'[d])
<1>1. PICK call : call = [stage |-> stage, read |-> read]
  OBVIOUS
<1>2. call \in CardTypes /\ CardCallFits(call)
  BY <1>1 DEF CardTypes, CardCallFits
<1>3. pcCalls' = [pcCalls EXCEPT ![c] = call]
  BY <1>1 DEF CardCallAt
<1>. QED
  BY <1>2, <1>3 DEF CardParts

LEMMA CardNow ==
  ASSUME CardParts, NEW c \in CardCalls
  PROVE  /\ pcCalls[c].read \in CardStatuses \cup {NoStatus}
         /\ pcCalls[c].stage \in {"fetched", "bind found", "bind sent", "bound"}
              => pcCalls[c].read \in CardStatuses
BY DEF CardParts, CardTypes, CardCallFits

\* The card, the server and the cache stay of their types.
LEMMA CardLater ==
  ASSUME CardParts, pcCalls' \in [CardCalls -> CardTypes],
         \A d \in CardCalls : CardCallFits(pcCalls'[d]),
         pcServer' \in CardStatuses, pcCache' \in CardStatuses \cup {NoStatus}, pcCard' = pcCard
  PROVE  CardParts'
BY DEF CardParts

LEMMA CardReads ==
  ASSUME CardParts, NEW c \in CardCalls, FetchCard(c) \/ HandleBindPolicy(c) \/ ReadServed(c)
  PROVE  CardParts'
<1>. USE DEF CardStages
<1>1. /\ pcServer \in CardStatuses /\ pcCache \in CardStatuses \cup {NoStatus}
      /\ pcServer' = pcServer /\ pcCard' = pcCard
  BY DEF CardParts, FetchCard, HandleBindPolicy, ReadServed
<1>2. pcCache' \in CardStatuses \cup {NoStatus}
  BY <1>1 DEF FetchCard, HandleBindPolicy, ReadServed
<1>3. ASSUME NEW asking \in {"fetch asked", "bind asked"}, NEW found \in {"fetched", "bind found"},
             ReadOrAsk(c, asking, found)
      PROVE  /\ pcCalls' \in [CardCalls -> CardTypes]
             /\ \A d \in CardCalls : CardCallFits(pcCalls'[d])
  <2>1. CASE pcCache # NoStatus
    <3>1. CardCallAt(c, found, pcCache) /\ pcCache \in CardStatuses /\ found \in CardStages
      BY <1>1, <1>3, <2>1 DEF ReadOrAsk
    <3>. QED
      BY <3>1, CardCallMoves
  <2>2. CASE pcCache = NoStatus
    <3>1. CardCallAt(c, asking, NoStatus) /\ asking \in CardStages
          /\ asking \notin {"fetched", "bind found", "bind sent", "bound"}
      BY <1>3, <2>2 DEF ReadOrAsk
    <3>. QED
      BY <3>1, CardCallMoves
  <2>. QED
    BY <2>1, <2>2
<1>4. CASE FetchCard(c)
  BY <1>1, <1>2, <1>3, <1>4, CardLater DEF FetchCard
<1>5. CASE HandleBindPolicy(c)
  BY <1>1, <1>2, <1>3, <1>5, CardLater DEF HandleBindPolicy
<1>6. CASE ReadServed(c)
  <2>1. PICK stage \in {"fetched", "bind found"} : CardCallAt(c, stage, pcServer)
    BY <1>6 DEF ReadServed
  <2>. QED
    BY <1>1, <1>2, <2>1, CardCallMoves, CardLater
<1>. QED
  BY <1>4, <1>5, <1>6

LEMMA CardBinds ==
  ASSUME CardParts, NEW c \in CardCalls,
         \/ BindSent(c) \/ ServerBinds(c) \/ CardBindAnswered(c)
         \/ \E answered \in BOOLEAN : CardBindFailed(c, answered)
  PROVE  CardParts'
<1>. USE DEF CardStages, CardStatuses
<1>1. /\ pcServer \in CardStatuses /\ pcCache \in CardStatuses \cup {NoStatus}
  BY DEF CardParts
<1>2. CASE BindSent(c)
  <2>1. CASE pcCalls[c].read = "APPROVED"
    BY <1>1, <1>2, <2>1, CardCallMoves, CardLater DEF BindSent
  <2>2. CASE pcCalls[c].read # "APPROVED"
    BY <1>1, <1>2, <2>2, CardCallMoves, CardLater DEF BindSent
  <2>. QED
    BY <2>1, <2>2
<1>3. CASE ServerBinds(c)
  BY <1>1, <1>3, CardCallMoves, CardLater DEF ServerBinds
<1>4. CASE CardBindAnswered(c)
  BY <1>1, <1>4, CardCallMoves, CardLater DEF CardBindAnswered
<1>5. CASE \E answered \in BOOLEAN : CardBindFailed(c, answered)
  <2>1. PICK answered \in BOOLEAN : CardBindFailed(c, answered)
    BY <1>5
  <2>2. pcCache' \in CardStatuses \cup {NoStatus}
    BY <1>1, <2>1, CardNow DEF CardBindFailed
  <2>. QED
    BY <1>1, <2>1, <2>2, CardCallMoves, CardLater DEF CardBindFailed
<1>. QED
  BY <1>2, <1>3, <1>4, <1>5

\* A read that ended is shown, or hides the policy behind its error.
LEMMA CardAnswers ==
  ASSUME CardParts, NEW c \in CardCalls, CardAnswered(c) \/ CardFailed(c)
  PROVE  CardParts'
<1>1. CardCallAt(c, "none", NoStatus) /\ pcServer' = pcServer /\ pcCache' = pcCache
  BY DEF CardAnswered, CardFailed
<1>2. /\ pcCalls' \in [CardCalls -> CardTypes]
      /\ \A d \in CardCalls : CardCallFits(pcCalls'[d])
  <2>1. "none" \in CardStages /\ "none" \notin {"fetched", "bind found", "bind sent", "bound"}
    BY DEF CardStages
  <2>. QED
    BY <1>1, <2>1, CardCallMoves
<1>3. CASE CardAnswered(c)
  <2>1. pcCalls[c].read \in CardStatuses
    BY <1>3, CardNow DEF CardAnswered
  <2>2. pcCard' \in ShownCard /\ pcCard'.shown # NoStatus
    BY <1>3, <2>1 DEF CardAnswered, ShownCard, CardStatuses, NoStatus
  <2>. QED
    BY <1>1, <1>2, <2>2 DEF CardParts
<1>4. CASE CardFailed(c)
  <2>1. pcCard' \in ShownCard /\ pcCard'.error
    BY <1>4 DEF CardFailed, CardParts, ShownCard
  <2>. QED
    BY <1>1, <1>2, <2>1 DEF CardParts
<1>. QED
  BY <1>3, <1>4

LEMMA FormSteps1 ==
  ASSUME FormParts, FormNext
  PROVE  FormParts'
<1>. DEFINE Forms == [dirty : BOOLEAN, step : {"none", "sent", "stored", "told"}]
<1>1. pcForm \in Forms /\ pcDraft \in BOOLEAN /\ pcStored \in 0..MaxSubmissions
  BY DEF FormParts
<1>2. pcForm' \in Forms
  BY <1>1 DEF FormNext, EditForm, AutoSave, OnFormSubmit, FormStored, FormAnswered, FormFailed, SubmitOver
<1>3. pcDraft' \in BOOLEAN
  <2>1. pcDraft' = pcDraft \/ pcDraft' = TRUE \/ pcDraft' = FALSE
    BY DEF FormNext, EditForm, AutoSave, OnFormSubmit, FormStored, FormAnswered, FormFailed, SubmitOver
  <2>. QED
    BY <1>1, <2>1, Zenon
<1>4. pcStored' \in 0..MaxSubmissions
  BY <1>1, PolicyCardAssumption
     DEF FormNext, EditForm, AutoSave, OnFormSubmit, FormStored, FormAnswered, FormFailed, SubmitOver
<1>. QED
  BY <1>2, <1>3, <1>4 DEF FormParts

LEMMA CardNextInv ==
  CardParts /\ FormParts /\ [PolicyCardNext]_pcVars => CardParts' /\ FormParts'
<1>. SUFFICES ASSUME CardParts, FormParts, [PolicyCardNext]_pcVars PROVE CardParts' /\ FormParts'
  OBVIOUS
<1>1. CASE UNCHANGED pcVars
  BY <1>1 DEF pcVars, CardParts, FormParts
<1>2. CASE CardNext
  <2>1. UNCHANGED <<pcForm, pcDraft, pcStored>>
    BY <1>2 DEF CardNext, FetchCard, ReadServed, CardAnswered, CardFailed, HandleBindPolicy, BindSent,
                ServerBinds, CardBindAnswered, CardBindFailed, CardCacheExpires
  <2>2. FormParts'
    BY <2>1 DEF FormParts
  <2>3. CASE CardCacheExpires
    BY <2>2, <2>3 DEF CardCacheExpires, CardParts
  <2>4. ASSUME NEW c \in CardCalls,
               \/ FetchCard(c) \/ ReadServed(c) \/ CardAnswered(c) \/ CardFailed(c)
               \/ HandleBindPolicy(c) \/ BindSent(c) \/ ServerBinds(c) \/ CardBindAnswered(c)
               \/ \E answered \in BOOLEAN : CardBindFailed(c, answered)
        PROVE  CardParts'
    BY <2>4, CardReads, CardBinds, CardAnswers
  <2>. QED
    BY <1>2, <2>2, <2>3, <2>4 DEF CardNext
<1>3. CASE FormNext
  <2>1. UNCHANGED <<pcServer, pcCard, pcCalls>> /\ (pcCache' = pcCache \/ pcCache' = NoStatus)
    BY <1>3 DEF FormNext, EditForm, AutoSave, OnFormSubmit, FormStored, FormAnswered, FormFailed, SubmitOver
  <2>2. CardParts'
    BY <2>1 DEF CardParts
  <2>. QED
    BY <1>3, <2>2, FormSteps1
<1>. QED
  BY <1>1, <1>2, <1>3 DEF PolicyCardNext

\* A card that no longer loads shows a policy or an error: what a call has read is a
\* status from the moment it is answered (PolicyDetails.tsx, policy.service.ts).
THEOREM PolicyCardTyped == PolicyCardSpec => []PolicyCardTypeOK
<1>1. CardParts /\ FormParts => PolicyCardTypeOK
  BY DEF CardParts, FormParts, PolicyCardTypeOK, CardTypes, CardStages, ShownCard
<1>. QED
  BY <1>1, CardInitInv, CardNextInv, PTL DEF PolicyCardSpec

-----------------------------------------------------------------------------
(* The dashboard                                                           *)

ShownTypes == [choice : Choices \cup {Nothing}, live : BOOLEAN]
StatusTypes == [loading : BOOLEAN, error : BOOLEAN]
DashboardPageTypes == [online : BOOLEAN, offline : BOOLEAN, shown : BOOLEAN, stored : Ages]
HasNumbersOrError == ~dbStatus.loading => dbStatus.error \/ dbShown.choice # Nothing

LEMMA DashboardInit == WebDashboardInit => WebDashboardTypeOK
<1>. SUFFICES ASSUME WebDashboardInit PROVE WebDashboardTypeOK
  OBVIOUS
<1>1. dbSocket \in BOOLEAN
  BY Zenon DEF WebDashboardInit
<1>2. dbShown \in ShownTypes /\ dbStatus \in StatusTypes /\ dbStatus.loading
  BY DEF WebDashboardInit, ShownTypes, StatusTypes
<1>3. dbPage \in DashboardPageTypes
  BY DEF WebDashboardInit, DashboardPageTypes, Ages
<1>4. dbCalls \in [DashboardCalls -> Choices \cup {Nothing}] /\ dbChosen \in Choices
  BY DEF WebDashboardInit, Choices
<1>. QED
  BY <1>1, <1>2, <1>3, <1>4
     DEF WebDashboardInit, WebDashboardTypeOK, ShownTypes, StatusTypes, DashboardPageTypes

LEMMA DashboardNow ==
  ASSUME WebDashboardTypeOK
  PROVE  /\ dbChosen \in Choices /\ dbCalls \in [DashboardCalls -> Choices \cup {Nothing}]
         /\ dbShown \in ShownTypes /\ dbStatus \in StatusTypes /\ HasNumbersOrError
         /\ dbSocket \in BOOLEAN /\ dbPage \in DashboardPageTypes
BY DEF WebDashboardTypeOK, ShownTypes, StatusTypes, DashboardPageTypes, HasNumbersOrError

LEMMA DashboardLater ==
  ASSUME WebDashboardTypeOK, dbPart' = dbPart, dbChosen' \in Choices,
         dbCalls' \in [DashboardCalls -> Choices \cup {Nothing}], dbShown' \in ShownTypes,
         dbStatus' \in StatusTypes, HasNumbersOrError', dbSocket' \in BOOLEAN, dbPage' \in DashboardPageTypes
  PROVE  WebDashboardTypeOK'
BY DEF WebDashboardTypeOK, ShownTypes, StatusTypes, DashboardPageTypes, HasNumbersOrError

LEMMA DashboardReads ==
  ASSUME WebDashboardTypeOK, NEW c \in DashboardCalls,
         \/ FetchMetrics(c) \/ MetricsAnswered(c) \/ MetricsFailed(c)
         \/ \E choice \in Choices : SetDateRange(c, choice)
  PROVE  WebDashboardTypeOK'
<1>1. ASSUME NEW choice \in Choices, StartRead(c, choice), dbShown' = dbShown
      PROVE  /\ dbCalls' \in [DashboardCalls -> Choices \cup {Nothing}]
             /\ dbStatus' \in StatusTypes /\ HasNumbersOrError'
  BY <1>1, DashboardNow DEF StartRead, StatusTypes, HasNumbersOrError
<1>2. CASE FetchMetrics(c)
  BY <1>1, <1>2, DashboardNow, DashboardLater DEF FetchMetrics
<1>3. CASE \E choice \in Choices : SetDateRange(c, choice)
  <2>1. PICK choice \in Choices : SetDateRange(c, choice)
    BY <1>3
  <2>. QED
    BY <1>1, <2>1, DashboardNow, DashboardLater DEF SetDateRange
<1>4. CASE MetricsAnswered(c)
  <2>1. dbCalls' \in [DashboardCalls -> Choices \cup {Nothing}]
    BY <1>4, DashboardNow DEF MetricsAnswered
  <2>2. dbShown' \in ShownTypes /\ dbStatus' \in StatusTypes /\ HasNumbersOrError'
    BY <1>4, DashboardNow DEF MetricsAnswered, ShownTypes, StatusTypes, HasNumbersOrError
  <2>. QED
    BY <1>4, <2>1, <2>2, DashboardNow, DashboardLater DEF MetricsAnswered
<1>5. CASE MetricsFailed(c)
  <2>1. dbCalls' \in [DashboardCalls -> Choices \cup {Nothing}]
    BY <1>5, DashboardNow DEF MetricsFailed
  <2>2. dbStatus' \in StatusTypes /\ HasNumbersOrError'
    BY <1>5 DEF MetricsFailed, StatusTypes, HasNumbersOrError
  <2>. QED
    BY <1>5, <2>1, <2>2, DashboardNow, DashboardLater DEF MetricsFailed
<1>. QED
  BY <1>2, <1>3, <1>4, <1>5

LEMMA DashboardLive ==
  ASSUME WebDashboardTypeOK,
         \/ LiveMetrics \/ LivePoint \/ ChartSocketError
         \/ \E readable \in BOOLEAN : RiskMessage(readable)
  PROVE  WebDashboardTypeOK'
<1>1. CASE LiveMetrics
  <2>1. dbShown' \in ShownTypes /\ HasNumbersOrError'
    BY <1>1, DashboardNow DEF LiveMetrics, ShownTypes, HasNumbersOrError, Choices, Nothing
  <2>. QED
    BY <1>1, <2>1, DashboardNow, DashboardLater DEF LiveMetrics
<1>2. CASE LivePoint
  <2>1. dbShown' \in ShownTypes /\ HasNumbersOrError'
    BY <1>2, DashboardNow DEF LivePoint, ShownTypes, HasNumbersOrError
  <2>. QED
    BY <1>2, <2>1, DashboardNow, DashboardLater DEF LivePoint
<1>3. CASE ChartSocketError
  <2>1. dbStatus' \in StatusTypes /\ HasNumbersOrError'
    BY <1>3, DashboardNow DEF ChartSocketError, StatusTypes, HasNumbersOrError
  <2>. QED
    BY <1>3, <2>1, DashboardNow, DashboardLater DEF ChartSocketError
<1>4. CASE \E readable \in BOOLEAN : RiskMessage(readable)
  <2>1. PICK readable \in BOOLEAN : RiskMessage(readable)
    BY <1>4
  <2>2. CASE readable
    <3>1. dbShown' = [choice |-> "first", live |-> TRUE] /\ dbStatus' = [dbStatus EXCEPT !.loading = FALSE]
      BY <2>1, <2>2, Zenon DEF RiskMessage
    <3>2. dbShown' \in ShownTypes /\ dbShown'.choice # Nothing
      BY <3>1 DEF ShownTypes, Choices, Nothing
    <3>3. dbStatus' \in StatusTypes
      BY <3>1, DashboardNow DEF StatusTypes
    <3>. QED
      BY <2>1, <3>2, <3>3, DashboardNow, DashboardLater DEF RiskMessage, HasNumbersOrError
  <2>3. CASE ~readable
    <3>1. dbShown' = dbShown /\ dbStatus' \in StatusTypes /\ HasNumbersOrError'
      BY <2>1, <2>3, DashboardNow DEF RiskMessage, StatusTypes, HasNumbersOrError
    <3>. QED
      BY <2>1, <3>1, DashboardNow, DashboardLater DEF RiskMessage
  <2>. QED
    BY <2>2, <2>3
<1>. QED
  BY <1>1, <1>2, <1>3, <1>4

LEMMA DashboardPage ==
  ASSUME WebDashboardTypeOK, (\E open \in BOOLEAN : SocketChanges(open)) \/ PageNext
  PROVE  WebDashboardTypeOK'
<1>1. HasNumbersOrError /\ dbPage \in DashboardPageTypes
  BY DashboardNow
<1>2. CASE \E open \in BOOLEAN : SocketChanges(open)
  <2>1. PICK open \in BOOLEAN : SocketChanges(open)
    BY <1>2
  <2>2. dbPage' \in DashboardPageTypes /\ HasNumbersOrError'
    BY <1>1, <2>1 DEF SocketChanges, DashboardPageTypes, HasNumbersOrError
  <2>. QED
    BY <2>1, <2>2, DashboardNow, DashboardLater DEF SocketChanges
<1>3. CASE PageNext
  <2>1. dbPage' \in DashboardPageTypes
    <3>1. ASSUME NEW online \in BOOLEAN, NetworkChanges(online) PROVE dbPage' \in DashboardPageTypes
      BY <1>1, <3>1 DEF NetworkChanges, DashboardPageTypes
    <3>2. ASSUME NEW stored \in BOOLEAN, PageMessage(stored) PROVE dbPage' \in DashboardPageTypes
      BY <1>1, <3>2 DEF PageMessage, DashboardPageTypes, Ages
    <3>3. ASSUME CachedMetricsAge \/ PageMounts PROVE dbPage' \in DashboardPageTypes
      BY <1>1, <3>3 DEF CachedMetricsAge, PageMounts, DashboardPageTypes, Ages
    <3>. QED
      BY <1>3, <3>1, <3>2, <3>3 DEF PageNext
  <2>2. UNCHANGED <<dbPart, dbChosen, dbCalls, dbShown, dbStatus, dbSocket>>
    BY <1>3 DEF PageNext, NetworkChanges, PageMessage, CachedMetricsAge, PageMounts
  <2>3. HasNumbersOrError'
    BY <1>1, <2>2 DEF HasNumbersOrError
  <2>. QED
    BY <2>1, <2>2, <2>3, DashboardNow, DashboardLater
<1>. QED
  BY <1>2, <1>3

\* Every view of the dashboard is of its type, and one that no longer loads has
\* numbers or an error (AnalyticsDashboard.tsx, PerformanceChart.tsx, RiskScoreWidget.tsx).
THEOREM WebDashboardTyped == WebDashboardSpec => []WebDashboardTypeOK
<1>1. WebDashboardTypeOK /\ [WebDashboardNext]_dbVars => WebDashboardTypeOK'
  <2>. SUFFICES ASSUME WebDashboardTypeOK, [WebDashboardNext]_dbVars PROVE WebDashboardTypeOK'
    OBVIOUS
  <2>1. CASE UNCHANGED dbVars
    BY <2>1 DEF dbVars, WebDashboardTypeOK
  <2>2. CASE WebDashboardNext
    BY <2>2, DashboardReads, DashboardLive, DashboardPage
       DEF WebDashboardNext, DashboardNext, ChartNext, RiskNext, Reads
  <2>. QED
    BY <2>1, <2>2
<1>. QED
  BY <1>1, DashboardInit, PTL DEF WebDashboardSpec

-----------------------------------------------------------------------------
(* The user interface in two tabs                                          *)

Notices == {q \in Seq({"notice"}) : Len(q) <= 5}
Histories == {h \in Seq(Screens) : Len(h) <= 5}
Slices == [loading : BOOLEAN, queue : Notices, sidebar : BOOLEAN, theme : Themes,
           transitioning : BOOLEAN, breakpoint : Screens, history : Histories,
           modals : SUBSET Windows]

\* Only the notices' hook starts a timer, so the notice that ends one is of the family
\* that the tabs dispatch.
WebUiInv ==
  /\ uiFamily \in Families
  /\ uiState \in [Tabs -> Slices]
  /\ uiInbox \in [Tabs -> Seq(ActionsOf(uiFamily))] /\ \A t \in Tabs : Len(uiInbox[t]) <= MaxSync
  /\ uiCount \in [Tabs -> 0..MaxTransactions] /\ uiTimer \in [Tabs -> BOOLEAN]
  /\ \A t \in Tabs : uiTimer[t] => uiFamily = "notice"

\* The first elements of a sequence are a sequence of that length at most.
LEMMA FirstOfSequence ==
  ASSUME NEW S, NEW s \in Seq(S), NEW n \in Nat
  PROVE  FirstOf(n, s) \in Seq(S) /\ Len(FirstOf(n, s)) <= n
<1>1. Len(s) \in Nat
  OBVIOUS
<1>2. PICK m \in Nat : m = (IF Len(s) < n THEN Len(s) ELSE n)
  BY <1>1
<1>3. m <= Len(s) /\ m <= n
  BY <1>1, <1>2
<1>4. SubSeq(s, 1, m) \in Seq(S) /\ Len(SubSeq(s, 1, m)) = m
  <2>1. \A i \in 1..m : i \in 1..Len(s)
    BY <1>1, <1>3
  <2>. QED
    BY <2>1, <1>1, <1>3, SubSeqProperties
<1>. QED
  BY <1>2, <1>3, <1>4 DEF FirstOf

\* A new element before the first n of a sequence.
LEMMA NewestFirst ==
  ASSUME NEW S, NEW s \in Seq(S), NEW x \in S, NEW n \in Nat
  PROVE  <<x>> \o FirstOf(n, s) \in Seq(S) /\ Len(<<x>> \o FirstOf(n, s)) <= n + 1
<1>1. PICK f : f = FirstOf(n, s)
  OBVIOUS
<1>2. f \in Seq(S) /\ Len(f) <= n /\ Len(f) \in Nat
  BY <1>1, FirstOfSequence
<1>3. <<x>> \in Seq(S) /\ Len(<<x>>) = 1
  OBVIOUS
<1>4. <<x>> \o f \in Seq(S) /\ Len(<<x>> \o f) = 1 + Len(f)
  BY <1>2, <1>3, ConcatProperties
<1>. QED
  BY <1>1, <1>2, <1>4

\* The reducer keeps a slice a slice.
LEMMA ReducerTyped ==
  ASSUME NEW s \in Slices, NEW family \in Families, NEW action \in ActionsOf(family)
  PROVE  uiReducer(s, action) \in Slices
<1>1. CASE family = "loading"
  <2>1. action.type = "SET_LOADING" /\ action.arg \in BOOLEAN
    BY <1>1 DEF ActionsOf
  <2>2. SetLoading(s, action.arg) \in Slices
    BY <2>1 DEF SetLoading, Slices
  <2>. QED
    BY <2>1, <2>2 DEF uiReducer
<1>2. CASE family = "theme"
  <2>1. action.type = "SET_THEME_MODE" /\ action.arg \in Themes
    BY <1>2 DEF ActionsOf
  <2>2. SetThemeMode(s, action.arg) \in Slices
    BY <2>1 DEF SetThemeMode, Slices
  <2>. QED
    BY <2>1, <2>2 DEF uiReducer
<1>3. CASE family = "screen"
  <2>1. \/ action.type = "SET_BREAKPOINT" /\ action.arg \in Screens
        \/ action.type = "SET_SIDEBAR_VISIBLE" /\ action.arg \in BOOLEAN
    BY <1>3 DEF ActionsOf
  <2>2. CASE action.type = "SET_BREAKPOINT" /\ action.arg \in Screens
    <3>1. PICK b \in Screens : b = action.arg
      BY <2>2
    <3>2. s.history \in Histories /\ s.sidebar \in BOOLEAN
      BY DEF Slices
    <3>3. PICK h \in Histories : h = <<b>> \o FirstOf(4, s.history)
      <4>1. <<b>> \o FirstOf(4, s.history) \in Histories
        BY <3>1, <3>2, NewestFirst DEF Histories
      <4>. QED
        BY <4>1
    <3>4. PICK open \in BOOLEAN : open = (s.sidebar /\ b \notin {"xs", "sm"})
      BY Zenon
    <3>5. CASE b # s.breakpoint
      <4>1. SetBreakpoint(s, b) = [s EXCEPT !.breakpoint = b, !.history = h, !.sidebar = open]
        BY <3>3, <3>4, <3>5 DEF SetBreakpoint
      <4>2. SetBreakpoint(s, b) \in Slices
        BY <4>1 DEF Slices
      <4>. QED
        BY <2>2, <3>1, <4>2 DEF uiReducer
    <3>6. CASE b = s.breakpoint
      BY <3>1, <3>6, <2>2 DEF SetBreakpoint, uiReducer
    <3>. QED
      BY <3>5, <3>6
  <2>3. CASE action.type = "SET_SIDEBAR_VISIBLE" /\ action.arg \in BOOLEAN
    <3>1. SetSidebarVisible(s, action.arg) \in Slices
      BY <2>3 DEF SetSidebarVisible, Slices
    <3>. QED
      BY <2>3, <3>1 DEF uiReducer
  <2>. QED
    BY <2>1, <2>2, <2>3
<1>4. CASE family = "notice"
  <2>1. action.type = "SET_NOTIFICATION" /\ action.arg \in {"notice", NoNotice}
    BY <1>4 DEF ActionsOf
  <2>2. s.queue \in Notices
    BY DEF Slices
  <2>3. PICK q \in Notices :
          q = (IF action.arg = NoNotice THEN <<>> ELSE <<action.arg>> \o FirstOf(MAX_NOTIFICATIONS - 1, s.queue))
    <3>1. <<>> \in Notices
      BY DEF Notices
    <3>2. MAX_NOTIFICATIONS - 1 = 4
      BY DEF MAX_NOTIFICATIONS
    <3>3. action.arg # NoNotice => <<action.arg>> \o FirstOf(4, s.queue) \in Notices
      <4>1. PICK q \in Seq({"notice"}) : q = s.queue
        BY <2>2 DEF Notices
      <4>2. ASSUME NEW x \in {"notice"} PROVE <<x>> \o FirstOf(4, q) \in Notices
        BY NewestFirst DEF Notices
      <4>3. action.arg # NoNotice => action.arg \in {"notice"}
        BY <2>1
      <4>. QED
        BY <4>1, <4>2, <4>3, Zenon
    <3>. QED
      BY <3>1, <3>2, <3>3
  <2>4. SetNotification(s, action.arg) = [s EXCEPT !.queue = q]
    BY <2>3 DEF SetNotification
  <2>5. SetNotification(s, action.arg) \in Slices
    BY <2>4 DEF Slices
  <2>. QED
    BY <2>1, <2>5 DEF uiReducer
<1>5. CASE family = "modal"
  <2>1. action.type = "SET_MODAL" /\ action.arg \in [id : Windows \cup {NoNotice}, isOpen : BOOLEAN]
    BY <1>5 DEF ActionsOf
  <2>2. s.modals \in SUBSET Windows
    BY DEF Slices
  <2>3. PICK m \in SUBSET Windows :
          m = (IF action.arg.id = NoNotice THEN {}
               ELSE IF action.arg.isOpen THEN s.modals \cup {action.arg.id} ELSE s.modals \ {action.arg.id})
    <3>1. action.arg.id # NoNotice => action.arg.id \in Windows
      BY <2>1
    <3>. QED
      BY <2>2, <3>1
  <2>4. SetModal(s, action.arg) = [s EXCEPT !.modals = m]
    BY <2>3 DEF SetModal
  <2>5. SetModal(s, action.arg) \in Slices
    BY <2>4 DEF Slices
  <2>. QED
    BY <2>1, <2>5 DEF uiReducer
<1>. QED
  BY <1>1, <1>2, <1>3, <1>4, <1>5 DEF Families

LEMMA UiInitInv == WebUiInit => WebUiInv
<1>. SUFFICES ASSUME WebUiInit PROVE WebUiInv
  OBVIOUS
<1>1. uiTimer \in [Tabs -> BOOLEAN] /\ \A t \in Tabs : ~uiTimer[t]
  BY DEF WebUiInit
<1>2. initialState \in Slices
  <2>1. <<>> \in Notices
    BY DEF Notices
  <2>2. <<"lg">> \in Histories
    BY DEF Histories, Screens
  <2>. QED
    BY <2>1, <2>2 DEF initialState, Slices, Themes, Screens
<1>3. uiState \in [Tabs -> Slices]
  BY <1>2 DEF WebUiInit
<1>4. uiCount \in [Tabs -> 0..MaxTransactions]
  BY WebUiAssumption DEF WebUiInit
<1>5. <<>> \in Seq(ActionsOf(uiFamily)) /\ Len(<<>>) = 0
  OBVIOUS
<1>6. uiInbox \in [Tabs -> Seq(ActionsOf(uiFamily))] /\ \A t \in Tabs : Len(uiInbox[t]) <= MaxSync
  BY <1>5, WebUiAssumption DEF WebUiInit
<1>. QED
  BY <1>1, <1>3, <1>4, <1>6 DEF WebUiInit, WebUiInv

\* A tab applies an action of the family.
LEMMA AppliedTyped ==
  ASSUME WebUiInv, NEW t \in Tabs, NEW action \in ActionsOf(uiFamily), Applied(t, action)
  PROVE  uiState' \in [Tabs -> Slices] /\ uiCount' \in [Tabs -> 0..MaxTransactions]
<1>1. CASE uiCount[t] < MaxTransactions
  <2>1. PICK next \in Slices : next = uiReducer(uiState[t], action)
    BY ReducerTyped DEF WebUiInv
  <2>2. uiState' = [uiState EXCEPT ![t] = next]
    BY <1>1, <2>1 DEF Applied
  <2>3. PICK count \in 0..MaxTransactions : count = uiCount[t] + 1
    <3>1. uiCount[t] \in 0..MaxTransactions
      BY DEF WebUiInv
    <3>. QED
      BY <1>1, <3>1, WebUiAssumption
  <2>4. uiCount' = [uiCount EXCEPT ![t] = count]
    BY <1>1, <2>3 DEF Applied
  <2>. QED
    BY <2>2, <2>4 DEF WebUiInv
<1>2. CASE ~(uiCount[t] < MaxTransactions)
  BY <1>2 DEF Applied, WebUiInv
<1>. QED
  BY <1>1, <1>2

\* A tab dispatches an action of the family: the other tab's inbox gets it too.
LEMMA DispatchTyped ==
  ASSUME WebUiInv, NEW t \in Tabs, NEW action \in ActionsOf(uiFamily), UiDispatch(t, action)
  PROVE  /\ uiState' \in [Tabs -> Slices] /\ uiCount' \in [Tabs -> 0..MaxTransactions]
         /\ uiInbox' \in [Tabs -> Seq(ActionsOf(uiFamily))] /\ \A u \in Tabs : Len(uiInbox'[u]) <= MaxSync
<1>1. Applied(t, action)
  BY DEF UiDispatch
<1>2. ASSUME NEW u \in Tabs
      PROVE  uiInbox'[u] \in Seq(ActionsOf(uiFamily)) /\ Len(uiInbox'[u]) <= MaxSync
  <2>1. uiInbox[u] \in Seq(ActionsOf(uiFamily)) /\ Len(uiInbox[u]) <= MaxSync /\ Len(uiInbox[u]) \in Nat
    BY DEF WebUiInv
  <2>2. CASE u = t
    BY <2>1, <2>2 DEF UiDispatch
  <2>3. CASE u # t
    <3>1. uiInbox'[u] = Append(uiInbox[u], action) /\ Len(uiInbox[u]) < MaxSync
      BY <2>3 DEF UiDispatch
    <3>2. Append(uiInbox[u], action) \in Seq(ActionsOf(uiFamily))
          /\ Len(Append(uiInbox[u], action)) = Len(uiInbox[u]) + 1
      BY <2>1
    <3>. QED
      BY <2>1, <3>1, <3>2, WebUiAssumption
  <2>. QED
    BY <2>2, <2>3
<1>3. uiInbox' = [u \in Tabs |-> uiInbox'[u]]
  BY DEF UiDispatch
<1>. QED
  BY <1>1, <1>2, <1>3, AppliedTyped

LEMMA UiNextInv == WebUiInv /\ [WebUiNext]_uiVars => WebUiInv'
<1>. SUFFICES ASSUME WebUiInv, [WebUiNext]_uiVars PROVE WebUiInv'
  OBVIOUS
<1>1. CASE UNCHANGED uiVars
  BY <1>1 DEF uiVars, WebUiInv
<1>2. ASSUME NEW t \in Tabs, DispatchAny(t) PROVE WebUiInv'
  <2>1. PICK action \in ActionsOf(uiFamily) : UiDispatch(t, action)
    BY <1>2 DEF DispatchAny
  <2>. QED
    BY <1>2, <2>1, DispatchTyped DEF DispatchAny, WebUiInv
<1>3. ASSUME NEW t \in Tabs, Received(t) PROVE WebUiInv'
  <2>1. PICK inbox : inbox = uiInbox[t]
    OBVIOUS
  <2>2. inbox \in Seq(ActionsOf(uiFamily)) /\ inbox # <<>> /\ Len(inbox) <= MaxSync
    BY <1>3, <2>1 DEF Received, WebUiInv
  <2>3. /\ Head(inbox) \in ActionsOf(uiFamily) /\ Tail(inbox) \in Seq(ActionsOf(uiFamily))
        /\ Len(Tail(inbox)) <= MaxSync
    BY <2>2, HeadTailProperties, WebUiAssumption
  <2>4. uiState' \in [Tabs -> Slices] /\ uiCount' \in [Tabs -> 0..MaxTransactions]
    BY <1>3, <2>1, <2>3, AppliedTyped DEF Received
  <2>5. PICK rest : rest = Tail(inbox)
    OBVIOUS
  <2>6. uiInbox' = [uiInbox EXCEPT ![t] = rest] /\ UNCHANGED <<uiFamily, uiTimer>>
    BY <1>3, <2>1, <2>5 DEF Received
  <2>7. uiInbox' \in [Tabs -> Seq(ActionsOf(uiFamily))] /\ \A u \in Tabs : Len(uiInbox'[u]) <= MaxSync
    BY <2>3, <2>5, <2>6 DEF WebUiInv
  <2>. QED
    BY <2>4, <2>6, <2>7 DEF WebUiInv
<1>4. ASSUME NEW t \in Tabs, MinuteOver(t) PROVE WebUiInv'
  <2>1. 0 \in 0..MaxTransactions
    BY WebUiAssumption
  <2>2. uiCount' \in [Tabs -> 0..MaxTransactions]
    BY <1>4, <2>1 DEF MinuteOver, WebUiInv
  <2>. QED
    BY <1>4, <2>2 DEF MinuteOver, WebUiInv
<1>5. uiFamily = "notice" =>
        {[type |-> "SET_NOTIFICATION", arg |-> "notice"], [type |-> "SET_NOTIFICATION", arg |-> NoNotice]}
          \subseteq ActionsOf(uiFamily)
  BY DEF ActionsOf
<1>6. ASSUME NEW t \in Tabs, NEW b \in BOOLEAN, uiTimer' = [uiTimer EXCEPT ![t] = b]
      PROVE  uiTimer' \in [Tabs -> BOOLEAN]
  BY <1>6 DEF WebUiInv
<1>7. ASSUME NEW t \in Tabs, ShowNotification(t) PROVE WebUiInv'
  <2>1. uiFamily = "notice" /\ uiFamily' = uiFamily
    BY <1>7 DEF ShowNotification
  <2>2. PICK action \in ActionsOf(uiFamily) : UiDispatch(t, action)
    BY <1>5, <1>7, <2>1 DEF ShowNotification
  <2>3. uiTimer' \in [Tabs -> BOOLEAN]
    BY <1>6, <1>7 DEF ShowNotification
  <2>. QED
    BY <2>1, <2>2, <2>3, DispatchTyped DEF WebUiInv
<1>8. ASSUME NEW t \in Tabs, HideNotification(t) PROVE WebUiInv'
  <2>1. uiFamily = "notice" /\ uiFamily' = uiFamily
    BY <1>8 DEF HideNotification, WebUiInv
  <2>2. PICK action \in ActionsOf(uiFamily) : UiDispatch(t, action)
    BY <1>5, <1>8, <2>1 DEF HideNotification
  <2>3. uiTimer' \in [Tabs -> BOOLEAN]
    BY <1>6, <1>8 DEF HideNotification
  <2>. QED
    BY <2>1, <2>2, <2>3, DispatchTyped DEF WebUiInv
<1>9. ASSUME NEW t \in Tabs, NotifierUnmounts(t) PROVE WebUiInv'
  <2>1. uiTimer' \in [Tabs -> BOOLEAN]
    BY <1>6, <1>9 DEF NotifierUnmounts
  <2>2. \A u \in Tabs : uiTimer'[u] => uiFamily = "notice"
    BY <1>9 DEF NotifierUnmounts, WebUiInv
  <2>. QED
    BY <1>9, <2>1, <2>2 DEF NotifierUnmounts, WebUiInv
<1>. QED
  BY <1>1, <1>2, <1>3, <1>4, <1>7, <1>8, <1>9 DEF WebUiNext

\* The queue never has more than five notices, nor the history more than five screens,
\* in either tab, whatever arrives from the other one (ui.reducer.ts, store.ts).
THEOREM WebUiTyped == WebUiSpec => []WebUiTypeOK
<1>1. WebUiInv => WebUiTypeOK
  <2>. SUFFICES ASSUME WebUiInv PROVE WebUiTypeOK
    OBVIOUS
  <2>1. ASSUME NEW t \in Tabs
        PROVE  /\ uiState[t].loading \in BOOLEAN /\ uiState[t].sidebar \in BOOLEAN
               /\ uiState[t].theme \in Themes /\ uiState[t].transitioning \in BOOLEAN
               /\ uiState[t].breakpoint \in Screens /\ uiState[t].modals \subseteq Windows
               /\ uiState[t].history \in Histories /\ uiState[t].queue \in Notices
    <3>1. uiState[t] \in Slices
      BY DEF WebUiInv
    <3>. QED
      BY <3>1 DEF Slices
  <2>. QED
    BY <2>1 DEF WebUiInv, WebUiTypeOK, Notices, Histories, MAX_NOTIFICATIONS
<1>. QED
  BY <1>1, UiInitInv, UiNextInv, PTL DEF WebUiSpec

-----------------------------------------------------------------------------
(* The shared controls                                                     *)

SearchTypes == [text : Texts \cup {Empty}, error : BOOLEAN, waiting : Texts \cup {NoText},
                older : Texts \cup {NoText}, made : Texts \cup {NoText}]
GridParams == [page : 0..1, limit : PageSizes, sort : {"none", "asc", "desc"}]
GridTypes == [params : GridParams, rendered : GridParams, filter : BOOLEAN, applied : BOOLEAN]
LayoutTypes == [open : BOOLEAN, saved : {"none", "open", "closed"}, permanent : BOOLEAN,
                resizing : BOOLEAN, menu : {"none", "profile", "notifications"}]
NavTypes == [roles : BOOLEAN, filtered : BOOLEAN, children : BOOLEAN, expanded : BOOLEAN]
BoundaryTypes == [hasError : BOOLEAN, isRetrying : BOOLEAN]

SearchParts == wgSearch \in SearchTypes /\ (wgSearch.error => wgSearch.text = Empty)

WidgetsInv ==
  /\ wgPart \in {"search", "grid", "layout", "navigation", "boundary"}
  /\ SearchParts /\ wgGrid \in GridTypes /\ wgLayout \in LayoutTypes
  /\ wgNav \in NavTypes /\ wgBoundary \in BoundaryTypes

LEMMA WidgetsInitInv == WebWidgetsInit => WidgetsInv
<1>. SUFFICES ASSUME WebWidgetsInit PROVE WidgetsInv
  OBVIOUS
<1>1. SearchParts
  BY DEF WebWidgetsInit, SearchInit, SearchParts, SearchTypes
<1>2. wgGrid \in GridTypes
  <2>1. FirstGrid \in GridParams
    BY DEF FirstGrid, GridParams, PageSizes
  <2>. QED
    BY <2>1 DEF WebWidgetsInit, GridInit, GridTypes
<1>3. wgLayout \in LayoutTypes
  BY DEF WebWidgetsInit, LayoutInit, LayoutTypes
<1>4. wgNav \in NavTypes
  BY DEF WebWidgetsInit, NavigationInit, NavTypes
<1>5. wgBoundary \in BoundaryTypes
  BY DEF WebWidgetsInit, BoundaryInit, BoundaryTypes
<1>. QED
  BY <1>1, <1>2, <1>3, <1>4, <1>5 DEF WebWidgetsInit, WidgetsInv

LEMMA SearchMoves ==
  ASSUME SearchParts, SearchNext
  PROVE  SearchParts'
<1>. USE DEF SearchParts, SearchTypes
<1>1. ASSUME NEW text \in Texts \cup {Empty}, HandleSearchChange(text) PROVE SearchParts'
  <2>1. CASE text = Empty
    BY <1>1, <2>1 DEF HandleSearchChange
  <2>2. CASE text # Empty
    BY <1>1, <2>2 DEF HandleSearchChange
  <2>. QED
    BY <2>1, <2>2
<1>2. CASE DebouncedSearch
  BY <1>2 DEF DebouncedSearch
<1>3. CASE OlderSearch
  BY <1>3 DEF OlderSearch
<1>4. CASE OnSearchChanges
  BY <1>4 DEF OnSearchChanges
<1>5. CASE ClearSearch
  BY <1>5 DEF ClearSearch
<1>. QED
  BY <1>1, <1>2, <1>3, <1>4, <1>5 DEF SearchNext

LEMMA GridMoves ==
  ASSUME wgGrid \in GridTypes, GridNext
  PROVE  wgGrid' \in GridTypes
<1>1. ASSUME NEW params \in GridParams, OnPaginationChange(params) PROVE wgGrid' \in GridTypes
  BY <1>1 DEF OnPaginationChange, GridTypes
<1>2. wgGrid.rendered \in GridParams /\ wgGrid.params \in GridParams
  BY DEF GridTypes
<1>3. ASSUME NEW page \in 0..1, NEW size \in PageSizes, HandlePageChange(page, size)
      PROVE  wgGrid' \in GridTypes
  <2>1. [wgGrid.rendered EXCEPT !.page = page, !.limit = size] \in GridParams
    BY <1>2 DEF GridParams
  <2>. QED
    BY <1>1, <1>3, <2>1 DEF HandlePageChange
<1>4. ASSUME NEW order \in {"asc", "desc"}, HandleSortModelChange(order) PROVE wgGrid' \in GridTypes
  <2>1. [wgGrid.rendered EXCEPT !.sort = order] \in GridParams
    BY <1>2 DEF GridParams
  <2>. QED
    BY <1>1, <1>4, <2>1 DEF HandleSortModelChange
<1>5. ASSUME NEW filtered \in BOOLEAN, HandleFilterModelChange(filtered) PROVE wgGrid' \in GridTypes
  BY <1>5 DEF HandleFilterModelChange, GridTypes
<1>6. CASE GridRenders
  BY <1>6 DEF GridRenders, GridTypes
<1>7. wgGrid.rendered.page \in 0..1 /\ wgGrid.rendered.limit \in PageSizes
  BY <1>2 DEF GridParams
<1>. QED
  BY <1>3, <1>4, <1>5, <1>6, <1>7 DEF GridNext

LEMMA LayoutMoves ==
  ASSUME wgLayout \in LayoutTypes, LayoutNext
  PROVE  wgLayout' \in LayoutTypes
<1>. USE DEF LayoutTypes
<1>1. CASE HandleSidebarToggle
  BY <1>1 DEF HandleSidebarToggle, SavedAs
<1>2. CASE SidebarCloses \/ ResizeSettles \/ ResizeCleared \/ MenuCloses
  BY <1>2 DEF SidebarCloses, ResizeSettles, ResizeCleared, MenuCloses
<1>3. CASE LayoutMounts
  BY <1>3 DEF LayoutMounts
<1>4. ASSUME NEW permanent \in BOOLEAN, HandleResize(permanent) PROVE wgLayout' \in LayoutTypes
  BY <1>4 DEF HandleResize
<1>5. ASSUME NEW menu \in {"profile", "notifications"}, MenuOpens(menu) PROVE wgLayout' \in LayoutTypes
  BY <1>5 DEF MenuOpens
<1>. QED
  BY <1>1, <1>2, <1>3, <1>4, <1>5 DEF LayoutNext

LEMMA NavigationMoves ==
  ASSUME wgNav \in NavTypes, NavigationNext
  PROVE  wgNav' \in NavTypes
BY DEF NavTypes, NavigationNext, FilteredNavItems, HandleExpand, RolesKnown

LEMMA BoundaryMoves ==
  ASSUME wgBoundary \in BoundaryTypes, DerivedStateFromError \/ HandleRetry \/ RetryShown
  PROVE  wgBoundary' \in BoundaryTypes
<1>1. [hasError |-> TRUE, isRetrying |-> FALSE] \in BoundaryTypes
      /\ [hasError |-> FALSE, isRetrying |-> FALSE] \in BoundaryTypes
  BY DEF BoundaryTypes
<1>2. CASE DerivedStateFromError \/ RetryShown
  BY <1>1, <1>2, Zenon DEF DerivedStateFromError, RetryShown
<1>3. CASE HandleRetry
  BY <1>3 DEF HandleRetry, BoundaryTypes
<1>. QED
  BY <1>2, <1>3

LEMMA WidgetsNextInv == WidgetsInv /\ [WebWidgetsNext]_wgVars => WidgetsInv'
<1>. SUFFICES ASSUME WidgetsInv, [WebWidgetsNext]_wgVars PROVE WidgetsInv'
  OBVIOUS
<1>1. CASE UNCHANGED wgVars
  BY <1>1 DEF wgVars, WidgetsInv, SearchParts
<1>2. CASE SearchNext
  <2>1. UNCHANGED <<wgPart, wgGrid, wgLayout, wgNav, wgBoundary>>
    BY <1>2 DEF SearchNext, HandleSearchChange, DebouncedSearch, OlderSearch, OnSearchChanges, ClearSearch
  <2>. QED
    BY <1>2, <2>1, SearchMoves DEF WidgetsInv
<1>3. CASE GridNext
  <2>1. UNCHANGED <<wgPart, wgSearch, wgLayout, wgNav, wgBoundary>>
    BY <1>3 DEF GridNext, HandlePageChange, HandleSortModelChange, OnPaginationChange,
                HandleFilterModelChange, GridRenders
  <2>. QED
    BY <1>3, <2>1, GridMoves DEF WidgetsInv, SearchParts
<1>4. CASE LayoutNext
  <2>1. UNCHANGED <<wgPart, wgSearch, wgGrid, wgNav, wgBoundary>>
    BY <1>4 DEF LayoutNext, HandleSidebarToggle, SidebarCloses, ResizeSettles, ResizeCleared,
                LayoutMounts, HandleResize, MenuOpens, MenuCloses
  <2>. QED
    BY <1>4, <2>1, LayoutMoves DEF WidgetsInv, SearchParts
<1>5. CASE NavigationNext
  <2>1. UNCHANGED <<wgPart, wgSearch, wgGrid, wgLayout, wgBoundary>>
    BY <1>5 DEF NavigationNext, FilteredNavItems, HandleExpand, RolesKnown
  <2>. QED
    BY <1>5, <2>1, NavigationMoves DEF WidgetsInv, SearchParts
<1>6. CASE DerivedStateFromError \/ HandleRetry \/ RetryShown
  <2>1. UNCHANGED <<wgPart, wgSearch, wgGrid, wgLayout, wgNav>>
    BY <1>6 DEF DerivedStateFromError, HandleRetry, RetryShown
  <2>. QED
    BY <1>6, <2>1, BoundaryMoves DEF WidgetsInv, SearchParts
<1>. QED
  BY <1>1, <1>2, <1>3, <1>4, <1>5, <1>6 DEF WebWidgetsNext

\* Every control is of its type, and an error of the search box is about an empty box
\* (SearchBar.tsx, DataGrid.tsx, DashboardLayout.tsx, Sidebar.tsx, ErrorBoundary.tsx).
THEOREM WebWidgetsTyped == WebWidgetsSpec => []WebWidgetsTypeOK
<1>1. WidgetsInv => WebWidgetsTypeOK
  BY DEF WidgetsInv, WebWidgetsTypeOK, SearchParts, SearchTypes, GridParams, GridTypes, LayoutTypes,
         NavTypes, BoundaryTypes
<1>. QED
  BY <1>1, WidgetsInitInv, WidgetsNextInv, PTL DEF WebWidgetsSpec

-----------------------------------------------------------------------------
(* Every component in one behaviour                                        *)

\* A behaviour that takes the steps of one component is a behaviour of each: the others
\* stutter.
LEMMA WebRunsPolicyStore == WebSpec => PolicyStoreSpec
<1>1. WebInit => PolicyStoreInit
  BY DEF WebInit
<1>2. [WebNext]_webVars => [PolicyStoreNext]_polVars
  <2>1. CASE UNCHANGED webVars
    BY <2>1 DEF webVars
  <2>2. CASE WebNext
    BY <2>2 DEF WebNext, Others
  <2>. QED
    BY <2>1, <2>2
<1>. QED
  BY <1>1, <1>2, PTL DEF WebSpec, PolicyStoreSpec

LEMMA WebRunsPolicyPages == WebSpec => PolicyPagesSpec
<1>1. WebInit => PolicyPagesInit
  BY DEF WebInit
<1>2. [WebNext]_webVars => [PolicyPagesNext]_pgVars
  <2>1. CASE UNCHANGED webVars
    BY <2>1 DEF webVars
  <2>2. CASE WebNext
    BY <2>2 DEF WebNext, Others
  <2>. QED
    BY <2>1, <2>2
<1>. QED
  BY <1>1, <1>2, PTL DEF WebSpec, PolicyPagesSpec

LEMMA WebRunsPolicyForms == WebSpec => PolicyFormsSpec
<1>1. WebInit => PolicyFormsInit
  BY DEF WebInit
<1>2. [WebNext]_webVars => [PolicyFormsNext]_pfVars
  <2>1. CASE UNCHANGED webVars
    BY <2>1 DEF webVars
  <2>2. CASE WebNext
    BY <2>2 DEF WebNext, Others
  <2>. QED
    BY <2>1, <2>2
<1>. QED
  BY <1>1, <1>2, PTL DEF WebSpec, PolicyFormsSpec

LEMMA WebRunsApiClient == WebSpec => ApiClientSpec
<1>1. WebInit => ApiClientInit
  BY DEF WebInit
<1>2. [WebNext]_webVars => [ApiClientNext]_apVars
  <2>1. CASE UNCHANGED webVars
    BY <2>1 DEF webVars
  <2>2. CASE WebNext
    BY <2>2 DEF WebNext, Others
  <2>. QED
    BY <2>1, <2>2
<1>. QED
  BY <1>1, <1>2, PTL DEF WebSpec, ApiClientSpec

LEMMA WebRunsClaimsStore == WebSpec => ClaimsStoreSpec
<1>1. WebInit => ClaimsStoreInit
  BY DEF WebInit
<1>2. [WebNext]_webVars => [ClaimsStoreNext]_csVars
  <2>1. CASE UNCHANGED webVars
    BY <2>1 DEF webVars
  <2>2. CASE WebNext
    BY <2>2 DEF WebNext, Others
  <2>. QED
    BY <2>1, <2>2
<1>. QED
  BY <1>1, <1>2, PTL DEF WebSpec, ClaimsStoreSpec

LEMMA WebRunsClaimsDesk == WebSpec => ClaimsDeskSpec
<1>1. WebInit => ClaimsDeskInit
  BY DEF WebInit
<1>2. [WebNext]_webVars => [ClaimsDeskNext]_cdVars
  <2>1. CASE UNCHANGED webVars
    BY <2>1 DEF webVars
  <2>2. CASE WebNext
    BY <2>2 DEF WebNext, Others, ClaimsDeskNext
  <2>. QED
    BY <2>1, <2>2
<1>. QED
  BY <1>1, <1>2, PTL DEF WebSpec, ClaimsDeskSpec

LEMMA WebRunsWebSession == WebSpec => WebSessionSpec
<1>1. WebInit => WebSessionInit
  BY DEF WebInit
<1>2. [WebNext]_webVars => [WebSessionNext]_wsVars
  <2>1. CASE UNCHANGED webVars
    BY <2>1 DEF webVars
  <2>2. CASE WebNext
    BY <2>2 DEF WebNext, Others
  <2>. QED
    BY <2>1, <2>2
<1>. QED
  BY <1>1, <1>2, PTL DEF WebSpec, WebSessionSpec

LEMMA WebRunsWebUnderwriting == WebSpec => WebUnderwritingSpec
<1>1. WebInit => WebUnderwritingInit
  BY DEF WebInit
<1>2. [WebNext]_webVars => [WebUnderwritingNext]_wuVars
  <2>1. CASE UNCHANGED webVars
    BY <2>1 DEF webVars
  <2>2. CASE WebNext
    BY <2>2 DEF WebNext, Others
  <2>. QED
    BY <2>1, <2>2
<1>. QED
  BY <1>1, <1>2, PTL DEF WebSpec, WebUnderwritingSpec

LEMMA WebRunsWebDocuments == WebSpec => WebDocumentsSpec
<1>1. WebInit => WebDocumentsInit
  BY DEF WebInit
<1>2. [WebNext]_webVars => [WebDocumentsNext]_wdVars
  <2>1. CASE UNCHANGED webVars
    BY <2>1 DEF webVars
  <2>2. CASE WebNext
    BY <2>2 DEF WebNext, Others
  <2>. QED
    BY <2>1, <2>2
<1>. QED
  BY <1>1, <1>2, PTL DEF WebSpec, WebDocumentsSpec

LEMMA WebRunsUnderwritingDesk == WebSpec => UnderwritingDeskSpec
<1>1. WebInit => UnderwritingDeskInit
  BY DEF WebInit
<1>2. [WebNext]_webVars => [UnderwritingDeskNext]_udVars
  <2>1. CASE UNCHANGED webVars
    BY <2>1 DEF webVars
  <2>2. CASE WebNext
    BY <2>2 DEF WebNext, Others
  <2>. QED
    BY <2>1, <2>2
<1>. QED
  BY <1>1, <1>2, PTL DEF WebSpec, UnderwritingDeskSpec

LEMMA WebRunsPolicyCard == WebSpec => PolicyCardSpec
<1>1. WebInit => PolicyCardInit
  BY DEF WebInit
<1>2. [WebNext]_webVars => [PolicyCardNext]_pcVars
  <2>1. CASE UNCHANGED webVars
    BY <2>1 DEF webVars
  <2>2. CASE WebNext
    BY <2>2 DEF WebNext, Others
  <2>. QED
    BY <2>1, <2>2
<1>. QED
  BY <1>1, <1>2, PTL DEF WebSpec, PolicyCardSpec

LEMMA WebRunsWebDashboard == WebSpec => WebDashboardSpec
<1>1. WebInit => WebDashboardInit
  BY DEF WebInit
<1>2. [WebNext]_webVars => [WebDashboardNext]_dbVars
  <2>1. CASE UNCHANGED webVars
    BY <2>1 DEF webVars
  <2>2. CASE WebNext
    BY <2>2 DEF WebNext, Others
  <2>. QED
    BY <2>1, <2>2
<1>. QED
  BY <1>1, <1>2, PTL DEF WebSpec, WebDashboardSpec

LEMMA WebRunsWebUi == WebSpec => WebUiSpec
<1>1. WebInit => WebUiInit
  BY DEF WebInit
<1>2. [WebNext]_webVars => [WebUiNext]_uiVars
  <2>1. CASE UNCHANGED webVars
    BY <2>1 DEF webVars
  <2>2. CASE WebNext
    BY <2>2 DEF WebNext, Others
  <2>. QED
    BY <2>1, <2>2
<1>. QED
  BY <1>1, <1>2, PTL DEF WebSpec, WebUiSpec

LEMMA WebRunsWebWidgets == WebSpec => WebWidgetsSpec
<1>1. WebInit => WebWidgetsInit
  BY DEF WebInit
<1>2. [WebNext]_webVars => [WebWidgetsNext]_wgVars
  <2>1. CASE UNCHANGED webVars
    BY <2>1 DEF webVars
  <2>2. CASE WebNext
    BY <2>2 DEF WebNext, Others
  <2>. QED
    BY <2>1, <2>2
<1>. QED
  BY <1>1, <1>2, PTL DEF WebSpec, WebWidgetsSpec

\* Whichever component of the client takes the steps, its variables keep their types: for
\* any number of slots and any bound.
THEOREM WebClientTyped == WebSpec => []WebTypeOK
<1>1. WebSpec => []PolicyStoreTypeOK
  BY WebRunsPolicyStore, PolicyStoreTyped, PTL
<1>2. WebSpec => []PolicyPagesTypeOK
  BY WebRunsPolicyPages, PolicyPagesTyped, PTL
<1>3. WebSpec => []PolicyFormsTypeOK
  BY WebRunsPolicyForms, PolicyFormsTyped, PTL
<1>4. WebSpec => []ApiClientTypeOK
  BY WebRunsApiClient, ApiClientTyped, PTL
<1>5. WebSpec => []ClaimsStoreTypeOK
  BY WebRunsClaimsStore, ClaimsStoreTyped, PTL
<1>6. WebSpec => []ClaimsDeskTypeOK
  BY WebRunsClaimsDesk, ClaimsDeskTyped, PTL
<1>7. WebSpec => []WebSessionTypeOK
  BY WebRunsWebSession, WebSessionTyped, PTL
<1>8. WebSpec => []WebUnderwritingTypeOK
  BY WebRunsWebUnderwriting, WebUnderwritingTyped, PTL
<1>9. WebSpec => []WebDocumentsTypeOK
  BY WebRunsWebDocuments, WebDocumentsTyped, PTL
<1>10. WebSpec => []UnderwritingDeskTypeOK
  BY WebRunsUnderwritingDesk, UnderwritingDeskTyped, PTL
<1>11. WebSpec => []PolicyCardTypeOK
  BY WebRunsPolicyCard, PolicyCardTyped, PTL
<1>12. WebSpec => []WebDashboardTypeOK
  BY WebRunsWebDashboard, WebDashboardTyped, PTL
<1>13. WebSpec => []WebUiTypeOK
  BY WebRunsWebUi, WebUiTyped, PTL
<1>14. WebSpec => []WebWidgetsTypeOK
  BY WebRunsWebWidgets, WebWidgetsTyped, PTL
<1>15. PolicyStoreTypeOK /\ PolicyPagesTypeOK /\ PolicyFormsTypeOK /\
      ApiClientTypeOK /\ ClaimsStoreTypeOK /\ ClaimsDeskTypeOK /\
      WebSessionTypeOK /\ WebUnderwritingTypeOK /\ WebDocumentsTypeOK /\
      UnderwritingDeskTypeOK /\ PolicyCardTypeOK /\ WebDashboardTypeOK /\
      WebUiTypeOK /\ WebWidgetsTypeOK
        => WebTypeOK
  BY DEF WebTypeOK
<1>. QED
  BY <1>1, <1>2, <1>3, <1>4, <1>5, <1>6, <1>7, <1>8, <1>9, <1>10, <1>11, <1>12, <1>13, <1>14, <1>15, PTL

\* What the components of the browser client promise.
WebClientProperties ==
  /\ OneWayToRepeat /\ SpinnerHasCause /\ OneListRequest
  /\ MarksHaveCause /\ ExtraClaimsExplained /\ SyncingHasCause
  /\ DecisionsExplained /\ CopiesExplained /\ RefreshNotLost
  /\ CreatedWasValidated /\ TokensExplained /\ UnderwritingExplained

\* The browser client keeps every property that its components promise: no mark without
\* its cause, and nothing made, decided, stored or sent twice but for the causes named.
THEOREM WebClientSafe ==
  WebSpec => []WebClientProperties
<1>1. WebSpec => []OneWayToRepeat
  BY WebRunsApiClient, AlwaysOneWayToRepeat, PTL
<1>2. WebSpec => []SpinnerHasCause
  BY WebRunsPolicyStore, SpinnerAlwaysHasCause, PTL
<1>3. WebSpec => []OneListRequest
  BY WebRunsPolicyStore, AlwaysOneListRequest, PTL
<1>4. WebSpec => []MarksHaveCause
  BY WebRunsClaimsStore, MarksAlwaysHaveCause, PTL
<1>5. WebSpec => []ExtraClaimsExplained
  BY WebRunsClaimsDesk, ExtraClaimsAlwaysExplained, PTL
<1>6. WebSpec => []SyncingHasCause
  BY WebRunsClaimsDesk, SyncingAlwaysHasCause, PTL
<1>7. WebSpec => []DecisionsExplained
  BY WebRunsUnderwritingDesk, DecisionsAlwaysExplained, PTL
<1>8. WebSpec => []CopiesExplained
  BY WebRunsWebDocuments, CopiesAlwaysExplained, PTL
<1>9. WebSpec => []RefreshNotLost
  BY WebRunsPolicyPages, RefreshNeverLost, PTL
<1>10. WebSpec => []CreatedWasValidated
  BY WebRunsPolicyForms, CreatedWasAlwaysValidated, PTL
<1>11. WebSpec => []TokensExplained
  BY WebRunsWebSession, TokensAlwaysExplained, PTL
<1>12. WebSpec => []UnderwritingExplained
  BY WebRunsWebUnderwriting, UnderwritingAlwaysExplained, PTL
<1>13. WebClientProperties <=> /\ OneWayToRepeat /\ SpinnerHasCause /\ OneListRequest
                               /\ MarksHaveCause /\ ExtraClaimsExplained /\ SyncingHasCause
                               /\ DecisionsExplained /\ CopiesExplained /\ RefreshNotLost
                               /\ CreatedWasValidated /\ TokensExplained /\ UnderwritingExplained
  BY DEF WebClientProperties
<1>. QED
  BY <1>1, <1>2, <1>3, <1>4, <1>5, <1>6, <1>7, <1>8, <1>9, <1>10, <1>11, <1>12, <1>13, PTL
=============================================================================
