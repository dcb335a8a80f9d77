---------------------------- MODULE UserAccounts ----------------------------
(***************************************************************************)
(* The User model: sign-ins, the count of failures, the lock of an account, *)
(* and the change of its password.  Each call works on an instance that it   *)
(* has loaded, and save writes the columns that differ from what was loaded. *)
(***************************************************************************)
EXTENDS Naturals

CONSTANTS
  SignIns,       \* slots for calls
  MaxFailures    \* bound: failures counted in a row

ASSUME UserAccountsAssumption == MaxFailures \in Nat

MAX_LOGIN_ATTEMPTS == 5

VARIABLES
  uaRow,        \* the row: failures counted, status, lock
  uaLoaded,     \* per call, the row it has loaded
  uaAt          \* per call, where it is

uaVars == <<uaRow, uaLoaded, uaAt>>

Accounts == [count : 0..MaxFailures, locked : BOOLEAN,
             until : {"none", "running", "over"}, mfa : BOOLEAN]
FreshAccount == [count |-> 0, locked |-> FALSE, until |-> "none", mfa |-> FALSE]

UserAccountsInit ==
  /\ uaRow \in {FreshAccount, [FreshAccount EXCEPT !.mfa = TRUE]}
  /\ uaLoaded = [c \in SignIns |-> FreshAccount]
  /\ uaAt = [c \in SignIns |-> "idle"]

\* An account is loaded for a call.
LoadAccount(c) ==
  /\ uaAt[c] = "idle" /\ uaAt' = [uaAt EXCEPT ![c] = "loaded"]
  /\ uaLoaded' = [uaLoaded EXCEPT ![c] = uaRow]
  /\ UNCHANGED uaRow

\* Thirty minutes are over.
LockEnds ==
  /\ uaRow.until = "running" \/ \E c \in SignIns : uaLoaded[c].until = "running"
  /\ LET end(a) == IF a.until = "running" THEN [a EXCEPT !.until = "over"] ELSE a
     IN  uaRow' = end(uaRow) /\ uaLoaded' = [c \in SignIns |-> end(uaLoaded[c])]
  /\ UNCHANGED uaAt

\* Mutant: every column is written.
SaveWhole(c, new) == uaRow' = new

\* save: a column is written if it differs from what was loaded.
Save(c, new) ==
  uaRow' = [k \in DOMAIN uaRow |-> IF new[k] = uaLoaded[c][k] THEN uaRow[k] ELSE new[k]]

Ends(c) ==
  /\ uaAt' = [uaAt EXCEPT ![c] = "idle"]
  /\ uaLoaded' = [uaLoaded EXCEPT ![c] = FreshAccount]

-----------------------------------------------------------------------------
(* verifyPassword                                                          *)

IsLocked(a) == a.locked /\ a.until = "running"

\* A locked account, or a failing key service, is answered like a wrong password.
Refused(c) ==
  /\ uaAt[c] = "loaded" /\ Ends(c)
  /\ UNCHANGED uaRow

CheckPassword(c) ==
  /\ uaAt[c] = "loaded" /\ ~IsLocked(uaLoaded[c])
  /\ \E at \in {"right", "wrong"} : uaAt' = [uaAt EXCEPT ![c] = at]
  /\ UNCHANGED <<uaRow, uaLoaded>>

\* handleFailedLogin, whose save may fail.
FailedLogin(c) ==
  LET count == uaLoaded[c].count + 1
      lock == count >= MAX_LOGIN_ATTEMPTS
      failed == IF lock THEN [uaLoaded[c] EXCEPT !.count = count, !.locked = TRUE, !.until = "running"]
                ELSE [uaLoaded[c] EXCEPT !.count = count]
  IN  /\ uaAt[c] = "wrong" /\ count <= MaxFailures /\ Ends(c)
      /\ Save(c, failed) \/ uaRow' = uaRow

\* A success resets the count only: the status and the lock stay as they are.
SuccessfulLogin(c) ==
  /\ uaAt[c] = "right" /\ Ends(c)
  /\ Save(c, [uaLoaded[c] EXCEPT !.count = 0]) \/ uaRow' = uaRow

-----------------------------------------------------------------------------
(* setPassword, generateMFASecret                                          *)

\* A password that is too simple, or a failing key service, changes nothing.
SetPassword(c) ==
  /\ uaAt[c] = "loaded" /\ Ends(c)
  /\ Save(c, [uaLoaded[c] EXCEPT !.count = 0, !.until = "none"])

GenerateMFASecret(c) ==
  /\ uaAt[c] = "loaded" /\ Ends(c)
  /\ Save(c, [uaLoaded[c] EXCEPT !.mfa = FALSE])

UserAccountsNext ==
  \/ LockEnds
  \/ \E c \in SignIns :
       \/ LoadAccount(c) \/ Refused(c) \/ CheckPassword(c) \/ FailedLogin(c)
       \/ SuccessfulLogin(c) \/ SetPassword(c) \/ GenerateMFASecret(c)

UserAccountsSpec == UserAccountsInit /\ [][UserAccountsNext]_uaVars

-----------------------------------------------------------------------------
\* The row and the instances are of their types.
UserAccountsTypeOK ==
  /\ uaRow \in Accounts /\ uaLoaded \in [SignIns -> Accounts]
  /\ uaAt \in [SignIns -> {"idle", "loaded", "right", "wrong"}]

\* A lock that is running ends with its time or with a new password (User.ts:196):
\* no sign-in that loaded the account before it was locked ends it, although that
\* sign-in saves its instance afterwards (User.ts:250, :338).
LockStands ==
  [][(uaRow.until = "running" /\ uaRow'.until # "running") =>
       \/ LockEnds
       \/ \E c \in SignIns : SetPassword(c)]_uaVars
=============================================================================
