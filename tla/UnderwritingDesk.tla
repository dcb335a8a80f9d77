-------------------------- MODULE UnderwritingDesk --------------------------
(***************************************************************************)
(* The underwriting views of the browser client, one of them mounted: the   *)
(* dashboard with its confirmation dialog, the queue with its polling and   *)
(* retries, the risk assessment, and the steps of the workflow.             *)
(*                                                                          *)
(* UnderwritingPage.tsx, which would mount two of them, sets its isLoading  *)
(* and never clears it (line 81), so it shows its skeleton for ever; they   *)
(* are modelled as they behave in a page that shows them.                   *)
(***************************************************************************)
EXTENDS Integers, Sequences

CONSTANTS
  QueueRows,        \* rows of the queue
  MaxSubmits,       \* bound on the submissions of a policy for assessment
  MaxDecided        \* bound on the decisions taken on a row

ERROR_RETRY_COUNT == 3

VARIABLES
  udView,       \* the view that is mounted
  udSelected,   \* dashboard: selectedRows, in the order of the selection
  udDialog,     \* dashboard: confirmDialog.open; history: the row it was opened for
  udAsking,     \* dashboard: decision requests under way, and their rows
  udDecided,    \* the server: decisions taken on every row
  udPressed,    \* history: the rows whose decision was asked for
  udWhy,        \* history: what can decide a row again, or another one
  udQueue,      \* queue: the query's state, retryCount, a retry is scheduled
  udStep,       \* workflow: activeStep, isLoading, the assessment is known
  udSubmits     \* the server: submissions of the policy for assessment

udDashboard == <<udSelected, udDialog, udAsking, udDecided, udPressed, udWhy>>
udVars == <<udView, udDashboard, udQueue, udStep, udSubmits>>

Views == {"dashboard", "queue", "risk", "workflow"}
NoQueueRow == "undefined"        \* selectedRows[0] of an empty selection

ASSUME UnderwritingDeskAssumption ==
  NoQueueRow \notin QueueRows /\ MaxSubmits \in Nat /\ MaxDecided \in Nat

Selections == {<<>>} \cup {<<r>> : r \in QueueRows}
              \cup {<<p[1], p[2]>> : p \in {q \in QueueRows \X QueueRows : q[1] # q[2]}}

UnderwritingDeskInit ==
  /\ udView \in Views
  /\ udSelected = <<>> /\ udDialog = [open |-> FALSE, row |-> NoQueueRow]
  /\ udAsking = <<>> /\ udDecided = [r \in QueueRows |-> 0] /\ udPressed = {} /\ udWhy = {}
  /\ udQueue = [query |-> "loading", retries |-> 0]
  /\ udStep = [active |-> 0, loading |-> FALSE, assessed |-> FALSE]
  /\ udSubmits = 0

OnlyDashboard == udView = "dashboard" /\ UNCHANGED <<udView, udQueue, udStep, udSubmits>>
OnlyQueue == udView = "queue" /\ UNCHANGED <<udView, udDashboard, udStep, udSubmits>>
OnlyRisk == udView = "risk" /\ UNCHANGED <<udView, udDashboard, udQueue, udStep>>
OnlyWorkflow == udView = "workflow" /\ UNCHANGED <<udView, udDashboard, udQueue>>

-----------------------------------------------------------------------------
\* The dialog is modal: rows are selected while it is closed.
SelectRows ==
  /\ ~udDialog.open
  /\ \E s \in Selections : s # udSelected /\ udSelected' = s
  /\ UNCHANGED <<udDialog, udAsking, udDecided, udPressed, udWhy>> /\ OnlyDashboard

\* handleAction takes a policy's identity and keeps only what is to be done.
HandleAction(r) ==
  /\ ~udDialog.open /\ udDialog' = [open |-> TRUE, row |-> r]
  /\ udPressed' = udPressed \cup {r}
  /\ UNCHANGED <<udSelected, udAsking, udDecided, udWhy>> /\ OnlyDashboard

CloseDialog ==
  /\ udDialog.open /\ udDialog' = [open |-> FALSE, row |-> NoQueueRow]
  /\ UNCHANGED <<udSelected, udAsking, udDecided, udPressed, udWhy>> /\ OnlyDashboard

\* handleConfirmAction decides the first selected row, whichever was asked for;
\* its button is not disabled while a decision is under way.
HandleConfirmAction ==
  /\ udDialog.open /\ Len(udAsking) < 2
  /\ LET row == IF udSelected = <<>> THEN NoQueueRow ELSE udSelected[1]
     IN  /\ udAsking' = Append(udAsking, row)
         /\ udWhy' = udWhy \cup (IF row # udDialog.row THEN {"first of the selection"} ELSE {})
                          \cup (IF udAsking # <<>> THEN {"confirmed twice"} ELSE {})
                          \cup (IF row # NoQueueRow /\ udDecided[row] > 0 THEN {"decided again"} ELSE {})
  /\ UNCHANGED <<udSelected, udDialog, udDecided, udPressed>> /\ OnlyDashboard

\* The server decides a row that a request names.
Decides(i) ==
  /\ udAsking[i] # NoQueueRow /\ udDecided[udAsking[i]] < MaxDecided
  /\ udDecided' = [udDecided EXCEPT ![udAsking[i]] = @ + 1]

DeskAnswered(i) == udAsking' = IF i = 1 THEN Tail(udAsking) ELSE <<udAsking[1]>>

\* Success clears the selection and closes the dialog, whatever is in them by then.
DecisionMade(i) ==
  /\ i \in DOMAIN udAsking /\ Decides(i) /\ DeskAnswered(i)
  /\ udSelected' = <<>> /\ udDialog' = [open |-> FALSE, row |-> NoQueueRow]
  /\ UNCHANGED <<udPressed, udWhy>> /\ OnlyDashboard

\* Mutant: a decision whose answer was lost is sent again.
DecisionFailsRepeats(i) ==
  /\ i \in DOMAIN udAsking
  /\ (Decides(i) /\ UNCHANGED udAsking) \/ (DeskAnswered(i) /\ UNCHANGED udDecided)
  /\ UNCHANGED <<udSelected, udDialog, udPressed, udWhy>> /\ OnlyDashboard

\* The request is refused, or decided with its answer lost: the dialog stays open.
DecisionFails(i) ==
  /\ i \in DOMAIN udAsking /\ DeskAnswered(i)
  /\ Decides(i) \/ UNCHANGED udDecided
  /\ UNCHANGED <<udSelected, udDialog, udPressed, udWhy>> /\ OnlyDashboard

-----------------------------------------------------------------------------
\* The query of the queue is answered, or fails after its own retries.
QueueQueryEnds(s) ==
  /\ udQueue.query = "loading" /\ udQueue' = [udQueue EXCEPT !.query = s]
  /\ OnlyQueue

\* The retry effect: the wait doubles, and the count is never reset.
QueueRetry ==
  /\ udQueue.query = "error" /\ udQueue.retries < ERROR_RETRY_COUNT
  /\ udQueue' = [query |-> "loading", retries |-> udQueue.retries + 1]
  /\ OnlyQueue

\* Polling, a filter, a page or an update makes the query run again; after the last
\* retry only a failed answer of the poll shows up as the error.
QueueAsks ==
  /\ udQueue.query # "loading" /\ udQueue' = [udQueue EXCEPT !.query = "loading"]
  /\ OnlyQueue

-----------------------------------------------------------------------------
\* The effect of the risk assessment submits the policy on mount, and again after
\* every render: a mutation makes a new submitForUnderwriting each time.
SubmitsOnRender ==
  /\ udSubmits < MaxSubmits /\ udSubmits' = udSubmits + 1
  /\ OnlyRisk

-----------------------------------------------------------------------------
\* isStepValid.  Nothing sets the decision's notes, so the third step never is.
IsStepValid ==
  \/ udStep.active = 0
  \/ udStep.active = 1 /\ udStep.assessed

\* handleStepChange: the second step is entered by a submission, from either side.
HandleStepChange(by) ==
  /\ ~udStep.loading /\ udStep.active + by >= 0 /\ IsStepValid
  /\ IF udStep.active + by = 1
     THEN /\ udSubmits < MaxSubmits /\ udSubmits' = udSubmits + 1
          /\ udStep' = [udStep EXCEPT !.loading = TRUE]
     ELSE /\ udStep' = [udStep EXCEPT !.active = @ + by] /\ UNCHANGED udSubmits
  /\ OnlyWorkflow

StepSubmitted(ok) ==
  /\ udStep.loading
  /\ udStep' = [active |-> IF ok THEN 1 ELSE udStep.active, loading |-> FALSE,
                assessed |-> udStep.assessed \/ ok]
  /\ UNCHANGED udSubmits /\ OnlyWorkflow

UnderwritingDeskNext ==
  \/ SelectRows \/ \E r \in QueueRows : HandleAction(r)
  \/ CloseDialog \/ HandleConfirmAction
  \/ \E i \in 1..2 : DecisionMade(i) \/ DecisionFails(i)
  \/ \E s \in {"shown", "error"} : QueueQueryEnds(s)
  \/ QueueRetry \/ QueueAsks
  \/ SubmitsOnRender
  \/ \E by \in {-1, 1} : HandleStepChange(by)
  \/ \E ok \in BOOLEAN : StepSubmitted(ok)

UnderwritingDeskSpec == UnderwritingDeskInit /\ [][UnderwritingDeskNext]_udVars

-----------------------------------------------------------------------------
\* The views are of their types; the workflow never gets past its third step.
UnderwritingDeskTypeOK ==
  /\ udView \in Views /\ udSelected \in Selections
  /\ udDialog \in [open : BOOLEAN, row : QueueRows \cup {NoQueueRow}]
  /\ udAsking \in Seq(QueueRows \cup {NoQueueRow})
  /\ udDecided \in [QueueRows -> 0..MaxDecided] /\ udPressed \subseteq QueueRows
  /\ udWhy \subseteq {"first of the selection", "confirmed twice", "decided again"}
  /\ udQueue \in [query : {"loading", "shown", "error"}, retries : 0..ERROR_RETRY_COUNT]
  /\ udStep \in [active : 0..2, loading : BOOLEAN, assessed : BOOLEAN]
  /\ udSubmits \in 0..MaxSubmits

\* A row is decided twice only because Confirm was pressed while a decision was
\* under way, or again for a row the server had decided, which a lost answer hides;
\* and a row that was never pressed is decided only as the first of the selection
\* (UnderwritingDashboard.tsx:197).
DecisionsExplained ==
  /\ \A r \in QueueRows :
       udDecided[r] > 1 => udWhy \cap {"confirmed twice", "decided again"} # {}
  /\ \A r \in QueueRows \ udPressed :
       udDecided[r] > 0 => "first of the selection" \in udWhy
=============================================================================
