----------------------------- MODULE PolicyForms -----------------------------
(***************************************************************************)
(* The form that makes a new policy (PolicyForm.tsx on NewPolicyPage.tsx):  *)
(* four steps, a validation after each edit, a OneShield check half a second *)
(* after the last valid edit, and a submission that repeats both.  Every     *)
(* edit makes a new version of the data, valid or not.                      *)
(***************************************************************************)
EXTENDS Integers, FiniteSets

CONSTANTS
  Checks,       \* OneShield checks in flight at once
  MaxEdits      \* bound: edits of the form

ASSUME PolicyFormsAssumption == MaxEdits \in Nat

VARIABLES
  pfStep,       \* activeStep
  pfData,       \* the version of the data and whether validatePolicy accepts it
  pfErrors,     \* validationErrors: "none", "data" or "submit"
  pfTimer,      \* the debounced validateWithOneShield is waiting
  pfChecks,     \* checks in flight
  pfStatus,     \* oneShieldStatus: "idle", "validating" or "failed"
  pfSubmit,     \* the submission: where it is and the data it took
  pfPassed,     \* versions a check of the submission has passed
  pfCreated,    \* versions given to onSubmit
  pfDone        \* the page has navigated to the new policy

pfVars == <<pfStep, pfData, pfErrors, pfTimer, pfChecks, pfStatus, pfSubmit, pfPassed, pfCreated, pfDone>>

LastStep == 3
Version == [rev : 0..MaxEdits, valid : BOOLEAN]
NoSubmit == [at |-> "idle", data |-> [rev |-> 0, valid |-> FALSE]]

PolicyFormsInit ==
  /\ pfStep = 0
  /\ pfData = [rev |-> 0, valid |-> FALSE]
  /\ pfErrors = "none" /\ pfTimer = FALSE /\ pfChecks = {} /\ pfStatus = "idle"
  /\ pfSubmit = NoSubmit /\ pfPassed = {} /\ pfCreated = {} /\ pfDone = FALSE

\* A field is changed; the effect validates and, if valid, restarts the timer.
Edit ==
  /\ ~pfDone /\ pfData.rev < MaxEdits
  /\ \E valid \in BOOLEAN :
       /\ pfData' = [rev |-> pfData.rev + 1, valid |-> valid]
       /\ pfErrors' = IF valid THEN "none" ELSE "data"
       /\ pfTimer' = (pfTimer \/ valid)
  /\ UNCHANGED <<pfStep, pfChecks, pfStatus, pfSubmit, pfPassed, pfCreated, pfDone>>

\* 500 ms after the last call of the debounced function.
Debounced ==
  /\ pfTimer
  /\ \E k \in Checks \ pfChecks : pfChecks' = pfChecks \cup {k}
  /\ pfTimer' = FALSE /\ pfStatus' = "validating"
  /\ UNCHANGED <<pfStep, pfData, pfErrors, pfSubmit, pfPassed, pfCreated, pfDone>>

\* The first check to be answered ends "validating", with others in flight or not.
Checked(k) ==
  /\ k \in pfChecks /\ pfChecks' = pfChecks \ {k}
  /\ pfStatus' \in {"idle", "failed"}
  /\ UNCHANGED <<pfStep, pfData, pfErrors, pfTimer, pfSubmit, pfPassed, pfCreated, pfDone>>

\* The Next and Back buttons.
HandleNext ==
  /\ ~pfDone /\ pfStep < LastStep /\ pfErrors = "none" /\ pfStep' = pfStep + 1
  /\ UNCHANGED <<pfData, pfErrors, pfTimer, pfChecks, pfStatus, pfSubmit, pfPassed, pfCreated, pfDone>>

HandleBack ==
  /\ ~pfDone /\ pfStep > 0 /\ pfStep' = pfStep - 1
  /\ UNCHANGED <<pfData, pfErrors, pfTimer, pfChecks, pfStatus, pfSubmit, pfPassed, pfCreated, pfDone>>

\* The Submit button: enabled while no submission runs and nothing is validating.
CanSubmit == ~pfDone /\ pfStep = LastStep /\ pfSubmit.at = "idle" /\ pfStatus # "validating"

\* Mutant: the errors are shown, but the submission goes on.
SubmitAnyway ==
  /\ CanSubmit
  /\ pfErrors' = IF pfData.valid THEN pfErrors ELSE "data"
  /\ pfSubmit' = [at |-> "checking", data |-> pfData]
  /\ UNCHANGED <<pfStep, pfData, pfTimer, pfChecks, pfStatus, pfPassed, pfCreated, pfDone>>

\* handleFormSubmit with the data of this moment, up to the OneShield check.
HandleFormSubmit ==
  /\ CanSubmit
  /\ \/ ~pfData.valid /\ pfErrors' = "data" /\ UNCHANGED pfSubmit
     \/ pfData.valid /\ pfSubmit' = [at |-> "checking", data |-> pfData] /\ UNCHANGED pfErrors
  /\ UNCHANGED <<pfStep, pfData, pfTimer, pfChecks, pfStatus, pfPassed, pfCreated, pfDone>>

\* The check of the submission: passed, the page is given the data.
SubmitChecked ==
  /\ pfSubmit.at = "checking"
  /\ pfPassed' = pfPassed \cup {pfSubmit.data.rev}
  /\ pfCreated' = pfCreated \cup {pfSubmit.data}
  /\ pfSubmit' = [pfSubmit EXCEPT !.at = "saving"]
  /\ UNCHANGED <<pfStep, pfData, pfErrors, pfTimer, pfChecks, pfStatus, pfDone>>

SubmitCheckFails ==
  /\ pfSubmit.at = "checking"
  /\ pfErrors' = "submit" /\ pfSubmit' = NoSubmit
  /\ UNCHANGED <<pfStep, pfData, pfTimer, pfChecks, pfStatus, pfPassed, pfCreated, pfDone>>

\* NewPolicyPage.handlePolicySubmit: on success it navigates, on failure it only
\* notifies, and the form takes the submission for done.
HandlePolicySubmit ==
  /\ pfSubmit.at = "saving" /\ pfSubmit' = NoSubmit
  /\ pfDone' \in BOOLEAN
  /\ UNCHANGED <<pfStep, pfData, pfErrors, pfTimer, pfChecks, pfStatus, pfPassed, pfCreated>>

PolicyFormsNext ==
  \/ Edit \/ Debounced \/ HandleNext \/ HandleBack
  \/ HandleFormSubmit \/ SubmitChecked \/ SubmitCheckFails \/ HandlePolicySubmit
  \/ \E k \in Checks : Checked(k)

PolicyFormsSpec == PolicyFormsInit /\ [][PolicyFormsNext]_pfVars

\* The form's state is of its types.
PolicyFormsTypeOK ==
  /\ pfStep \in 0..LastStep /\ pfData \in Version
  /\ pfErrors \in {"none", "data", "submit"} /\ pfTimer \in BOOLEAN
  /\ pfChecks \subseteq Checks /\ pfStatus \in {"idle", "validating", "failed"}
  /\ pfSubmit \in [at : {"idle", "checking", "saving"}, data : Version]
  /\ pfPassed \subseteq 0..MaxEdits /\ pfCreated \subseteq Version /\ pfDone \in BOOLEAN

\* Whatever was edited, checked early or answered late meanwhile, what is created
\* is data that validatePolicy and a OneShield check of the very same version
\* have accepted (PolicyForm.tsx:106, :113).
CreatedWasValidated == \A d \in pfCreated : d.valid /\ d.rev \in pfPassed
=============================================================================
