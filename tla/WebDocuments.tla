---------------------------- MODULE WebDocuments ----------------------------
(***************************************************************************)
(* The documents of the browser client: the upload card DocumentUpload.tsx  *)
(* with the file field FileUpload.tsx inside it, the list that              *)
(* useDocuments.ts keeps, its menu, and the preview.                        *)
(*                                                                          *)
(* An attempt is one run of the card's handleUpload.  It reports to the     *)
(* handleError of the render it was made in.  While the card's properties   *)
(* stay the same that is the first render, which had no file, so nothing is *)
(* ever retried; otherwise an attempt may know the file, and every retry    *)
(* sets the count of retries back to zero.  Under an attempt the HTTP client *)
(* repeats its request by itself after some statuses (api.utils.ts:129-134), *)
(* and gives it up after a time, though the server may still serve it.      *)
(***************************************************************************)
EXTENDS Naturals

CONSTANTS
  Attempts,         \* slots for upload attempts
  MaxCopies         \* bound on the copies stored on the server

ASSUME WebDocumentsAssumption == MaxCopies \in Nat

RETRY_ATTEMPTS == 3

VARIABLES
  wdView,      \* the view: whether it is the card, or the documents page; and
               \* whether the card's properties stay the same from render to render
  wdField,     \* the file field: a file is chosen, isUploading, an error is shown
  wdCard,      \* uploadState.status, the error's text, selectedFile, isEncrypting
  wdCount,     \* retryCount
  wdTimer,     \* a retry is scheduled
  wdAttempts,  \* stage of every attempt; whether it knows the file; whose it is
  wdCopies,    \* copies of the file on the server
  wdLate,      \* requests given up by the client that the server may still serve
  wdWhy,       \* history: what can make a second copy
  wdList,      \* the list: shown, stale; and the request for it
  wdRemoval,   \* deleteMutation: the step it is at
  wdPreview    \* the dialog: open, loading, error

wdUpload == <<wdField, wdCard, wdCount, wdTimer, wdAttempts, wdCopies, wdLate, wdWhy>>
wdBrowse == <<wdList, wdRemoval, wdPreview>>
wdVars == <<wdView, wdUpload, wdBrowse>>

NoAttempt == [stage |-> "none", knows |-> FALSE, button |-> FALSE]
Underway == {a \in Attempts : wdAttempts[a].stage # "none"}

WebDocumentsInit ==
  /\ wdView \in [card : BOOLEAN, steady : BOOLEAN]
  /\ wdField = [chosen |-> FALSE, uploading |-> FALSE, error |-> FALSE]
  /\ wdCard = [status |-> "PENDING", error |-> "none", file |-> FALSE, encrypting |-> FALSE]
  /\ wdCount = 0 /\ wdTimer = FALSE /\ wdAttempts = [a \in Attempts |-> NoAttempt]
  /\ wdCopies = 0 /\ wdLate = 0 /\ wdWhy = {}
  /\ wdList = [shown |-> "none", request |-> TRUE] /\ wdRemoval = "none"
  /\ wdPreview = [open |-> FALSE, loading |-> TRUE, error |-> FALSE]

-----------------------------------------------------------------------------
\* processFiles and validateFile: one file of a wrong kind refuses them all.
ProcessFiles(valid) ==
  /\ wdField' = IF valid THEN [wdField EXCEPT !.chosen = TRUE] ELSE [wdField EXCEPT !.error = TRUE]
  /\ UNCHANGED <<wdView, wdCard, wdCount, wdTimer, wdAttempts, wdCopies, wdLate, wdWhy, wdBrowse>>

\* The message closes after six seconds.
CloseMessage ==
  /\ wdField.error /\ wdField' = [wdField EXCEPT !.error = FALSE]
  /\ UNCHANGED <<wdView, wdCard, wdCount, wdTimer, wdAttempts, wdCopies, wdLate, wdWhy, wdBrowse>>

\* handleUpload of the card, to its first await.
HandleUpload(a, knows, button) ==
  /\ wdAttempts[a].stage = "none"
  /\ wdAttempts' = [wdAttempts EXCEPT ![a] = [stage |-> "encrypting", knows |-> knows, button |-> button]]
  /\ wdCount' = 0
  /\ wdCard' = [status |-> "PENDING", error |-> "none", file |-> TRUE, encrypting |-> TRUE]
  /\ UNCHANGED <<wdView, wdCopies, wdLate, wdBrowse>>

\* Another attempt runs, or will.
Overlap(scheduled) == IF Underway # {} \/ scheduled THEN {"overlap"} ELSE {}
Again == IF wdCopies > 0 THEN {"sent again"} ELSE {}

\* The field's button, disabled while its own upload runs.
PressUpload(a) ==
  /\ wdField.chosen /\ ~wdField.uploading
  /\ wdField' = [wdField EXCEPT !.uploading = TRUE]
  /\ HandleUpload(a, ~wdView.steady /\ wdCard.file, TRUE)
  /\ wdWhy' = wdWhy \cup Overlap(wdTimer) \cup Again
  /\ UNCHANGED wdTimer

\* The Retry button of the card's message.
PressRetry(a) ==
  /\ wdCard.error # "none" /\ wdCount < RETRY_ATTEMPTS /\ wdCard.file
  /\ HandleUpload(a, ~wdView.steady, FALSE)
  /\ wdWhy' = wdWhy \cup Overlap(wdTimer) \cup Again
  /\ UNCHANGED <<wdField, wdTimer>>

\* The scheduled retry, which has the file of the failed attempt.
RetryTimer(a) ==
  /\ wdTimer /\ wdTimer' = FALSE
  /\ HandleUpload(a, TRUE, FALSE)
  /\ wdWhy' = wdWhy \cup Overlap(FALSE)
  /\ UNCHANGED wdField

\* encryptFile is over: the checks of the service and of the API, then the request.
Encrypted(a) ==
  /\ wdAttempts[a].stage = "encrypting"
  /\ wdAttempts' = [wdAttempts EXCEPT ![a].stage = "sent"]
  /\ wdCard' = [wdCard EXCEPT !.encrypting = FALSE]
  /\ UNCHANGED <<wdView, wdField, wdCount, wdTimer, wdCopies, wdLate, wdWhy, wdBrowse>>

UploadProgress(a) ==
  /\ wdAttempts[a].stage \in {"sent", "stored"}
  /\ wdCard' = [wdCard EXCEPT !.status = "UPLOADING"]
  /\ UNCHANGED <<wdView, wdField, wdCount, wdTimer, wdAttempts, wdCopies, wdLate, wdWhy, wdBrowse>>

\* The server stores a copy per request.
ServerStores(a) ==
  /\ wdAttempts[a].stage = "sent" /\ wdCopies < MaxCopies
  /\ wdAttempts' = [wdAttempts EXCEPT ![a].stage = "stored"]
  /\ wdCopies' = wdCopies + 1
  /\ UNCHANGED <<wdView, wdField, wdCard, wdCount, wdTimer, wdLate, wdWhy, wdBrowse>>

\* The server stored a copy and answers with a status that the client repeats
\* requests after: the same attempt sends the file again.
ClientRepeats(a) ==
  /\ wdAttempts[a].stage = "stored"
  /\ wdAttempts' = [wdAttempts EXCEPT ![a].stage = "sent"]
  /\ wdWhy' = wdWhy \cup {"client repeated"}
  /\ UNCHANGED <<wdView, wdField, wdCard, wdCount, wdTimer, wdCopies, wdLate, wdBrowse>>

\* The server serves a request that the client has given up.
ServerStoresLate ==
  /\ wdLate > 0 /\ wdCopies < MaxCopies
  /\ wdLate' = wdLate - 1 /\ wdCopies' = wdCopies + 1
  /\ UNCHANGED <<wdView, wdField, wdCard, wdCount, wdTimer, wdAttempts, wdWhy, wdBrowse>>

\* handleUpload of the field: the card swallows every failure, so the field
\* announces success and forgets the file whatever happened.
FieldDone(a) ==
  wdField' = IF wdAttempts[a].button
             THEN [wdField EXCEPT !.chosen = FALSE, !.uploading = FALSE] ELSE wdField

AttemptOver(a) == wdAttempts' = [wdAttempts EXCEPT ![a] = NoAttempt]

\* handleError: the text promises a retry, which is scheduled if the file is known.
HandleError(a) ==
  IF wdCount < RETRY_ATTEMPTS
  THEN /\ wdCount' = wdCount + 1
       /\ wdCard' = [wdCard EXCEPT !.status = "PENDING", !.error = "retrying", !.encrypting = FALSE]
       /\ wdTimer' = (wdTimer \/ wdAttempts[a].knows)
  ELSE /\ wdCard' = [wdCard EXCEPT !.status = "ERROR", !.error = "failed", !.encrypting = FALSE]
       /\ UNCHANGED <<wdCount, wdTimer>>

\* Mutant: a retry is scheduled after success too.
UploadAnsweredRetries(a) ==
  /\ wdAttempts[a].stage = "stored" /\ AttemptOver(a) /\ FieldDone(a) /\ HandleError(a)
  /\ UNCHANGED <<wdView, wdCopies, wdLate, wdWhy, wdBrowse>>

UploadAnswered(a) ==
  /\ wdAttempts[a].stage = "stored" /\ AttemptOver(a) /\ FieldDone(a)
  /\ wdCard' = [wdCard EXCEPT !.status = "COMPLETED", !.file = FALSE, !.encrypting = FALSE]
  /\ UNCHANGED <<wdView, wdCount, wdTimer, wdCopies, wdLate, wdWhy, wdBrowse>>

\* Encryption, a check or the request failed; or its answer was lost, or the client
\* gave it up while it was on its way.
UploadFailed(a) ==
  /\ wdAttempts[a].stage # "none" /\ AttemptOver(a) /\ FieldDone(a) /\ HandleError(a)
  /\ \/ wdAttempts[a].stage # "stored" /\ UNCHANGED <<wdLate, wdWhy>>
     \/ /\ wdAttempts[a].stage = "stored"
        /\ wdWhy' = wdWhy \cup {"answer lost"} /\ UNCHANGED wdLate
     \/ /\ wdAttempts[a].stage = "sent" /\ wdLate < MaxCopies
        /\ wdLate' = wdLate + 1 /\ wdWhy' = wdWhy \cup {"given up"}
  /\ UNCHANGED <<wdView, wdCopies, wdBrowse>>

\* handleCancel: the controller it aborts was given to no request.
HandleCancel ==
  /\ wdCard.status = "UPLOADING"
  /\ wdCard' = [wdCard EXCEPT !.status = "PENDING", !.error = "none", !.file = FALSE]
  /\ UNCHANGED <<wdView, wdField, wdCount, wdTimer, wdAttempts, wdCopies, wdLate, wdWhy, wdBrowse>>

-----------------------------------------------------------------------------
\* The list query, asked on mount, after thirty seconds and after a removal.
ListRequested ==
  /\ ~wdList.request /\ wdList' = [wdList EXCEPT !.request = TRUE]
  /\ UNCHANGED <<wdView, wdUpload, wdRemoval, wdPreview>>

RowsAnswered(s) ==
  /\ wdList.request /\ wdList' = [shown |-> s, request |-> FALSE]
  /\ UNCHANGED <<wdView, wdUpload, wdRemoval, wdPreview>>

\* handleDelete: the details are read first, for the clearance, then the row is deleted.
HandleDelete ==
  /\ wdList.shown = "rows" /\ wdRemoval = "none" /\ wdRemoval' = "reading"
  /\ UNCHANGED <<wdView, wdUpload, wdList, wdPreview>>

RemoveDocument ==
  /\ wdRemoval = "reading" /\ wdRemoval' \in {"deleting", "none"}
  /\ UNCHANGED <<wdView, wdUpload, wdList, wdPreview>>

RemoveAnswered(ok) ==
  /\ wdRemoval = "deleting" /\ wdRemoval' = "none"
  /\ wdList' = [wdList EXCEPT !.request = ok \/ @]
  /\ UNCHANGED <<wdView, wdUpload, wdPreview>>

\* handleDocumentSelect opens the dialog, unless the document is encrypted; the
\* preview, which the dialog is to hold (DocumentsPage.tsx:234), starts loading.
HandleDocumentSelect ==
  /\ wdList.shown = "rows" /\ ~wdPreview.open
  /\ wdPreview' = [open |-> TRUE, loading |-> TRUE, error |-> FALSE]
  /\ UNCHANGED <<wdView, wdUpload, wdList, wdRemoval>>

\* validateAccess may refuse.
ValidateAccess ==
  /\ wdPreview.open /\ wdPreview' = [wdPreview EXCEPT !.error = TRUE]
  /\ UNCHANGED <<wdView, wdUpload, wdList, wdRemoval>>

\* handleDownload is the only thing that ends the preview's initial loading.
HandleDownload(failed) ==
  /\ wdPreview.open
  /\ wdPreview' = [wdPreview EXCEPT !.loading = FALSE, !.error = @ \/ failed]
  /\ UNCHANGED <<wdView, wdUpload, wdList, wdRemoval>>

ClosePreview ==
  /\ wdPreview.open /\ wdPreview' = [wdPreview EXCEPT !.open = FALSE]
  /\ UNCHANGED <<wdView, wdUpload, wdList, wdRemoval>>

UploadCard ==
  \/ \E valid \in BOOLEAN : ProcessFiles(valid)
  \/ CloseMessage \/ HandleCancel \/ ServerStoresLate
  \/ \E a \in Attempts :
       \/ PressUpload(a) \/ PressRetry(a) \/ RetryTimer(a)
       \/ Encrypted(a) \/ UploadProgress(a) \/ ServerStores(a) \/ ClientRepeats(a)
       \/ UploadAnswered(a) \/ UploadFailed(a)

DocumentsPage ==
  \/ ListRequested \/ \E s \in {"rows", "error"} : RowsAnswered(s)
  \/ HandleDelete \/ RemoveDocument \/ \E ok \in BOOLEAN : RemoveAnswered(ok)
  \/ HandleDocumentSelect \/ ValidateAccess \/ ClosePreview
  \/ \E failed \in BOOLEAN : HandleDownload(failed)

\* The card and the page are never on the screen together.
WebDocumentsNext == IF wdView.card THEN UploadCard ELSE DocumentsPage

WebDocumentsSpec == WebDocumentsInit /\ [][WebDocumentsNext]_wdVars

-----------------------------------------------------------------------------
\* The field, the card, the attempts and the views are of their types.
WebDocumentsTypeOK ==
  /\ wdView \in [card : BOOLEAN, steady : BOOLEAN] /\ wdTimer \in BOOLEAN
  /\ wdField \in [chosen : BOOLEAN, uploading : BOOLEAN, error : BOOLEAN]
  /\ wdCard \in [status : {"PENDING", "UPLOADING", "COMPLETED", "ERROR"},
                 error : {"none", "retrying", "failed"}, file : BOOLEAN, encrypting : BOOLEAN]
  /\ wdCount \in 0..RETRY_ATTEMPTS /\ wdCopies \in 0..MaxCopies
  /\ wdAttempts \in [Attempts -> [stage : {"none", "encrypting", "sent", "stored"},
                                  knows : BOOLEAN, button : BOOLEAN]]
  /\ wdLate \in 0..MaxCopies
  /\ wdWhy \subseteq {"overlap", "sent again", "answer lost", "client repeated", "given up"}
  /\ wdList \in [shown : {"none", "rows", "error"}, request : BOOLEAN]
  /\ wdRemoval \in {"none", "reading", "deleting"}
  /\ wdPreview \in [open : BOOLEAN, loading : BOOLEAN, error : BOOLEAN]

\* A file is stored twice only if the user sent it again, started an attempt while one
\* ran or was scheduled, the answer of a stored one was lost or the request given up, or
\* the HTTP client repeated it: the scheduled retries (DocumentUpload.tsx:168) alone
\* never do it.  And while nothing about the card changes, none is ever scheduled.
CopiesExplained ==
  /\ wdCopies > 1 => wdWhy # {}
  /\ wdTimer => ~wdView.steady
=============================================================================
