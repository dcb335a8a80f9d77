---------------------------- MODULE PolicyLedger ----------------------------
(***************************************************************************)
(* What the policy service promises of the policies table, with no         *)
(* request, cache, transaction or carrier in sight: a policy appears once, *)
(* already linked to the carrier and never in force; from then on a row    *)
(* changes one policy at a time, keeps its link or takes one that somebody *)
(* asked for, and takes a new status only along an edge of the transition  *)
(* table that starts at a status the policy has had.  It does not promise  *)
(* that the edge starts at the present status: the code does not keep that.*)
(***************************************************************************)
EXTENDS PolicyRules

CONSTANTS
  Policies,
  OtherLinks   \* links that may be asked for

VARIABLES
  ledger,   \* the committed row of each policy, or NoRow
  held      \* the statuses each policy has been committed with

ledgerVars == <<ledger, held>>

\* The statuses a policy can be born with.
BirthStatus == {"DRAFT", "QUOTED", "CANCELLED"}

Init ==
  /\ ledger = [p \in Policies |-> NoRow]
  /\ held = [p \in Policies |-> {}]

Record(p, new) ==
  /\ ledger' = [ledger EXCEPT ![p] = new]
  /\ held' = [held EXCEPT ![p] = @ \cup {new.status}]

Open(p, new) ==
  /\ ledger[p] = NoRow
  /\ new.link > 0
  /\ new.status \in BirthStatus
  /\ Record(p, new)

\* Cancelling takes an approval that no caller of the service can show.
Amend(p, new) ==
  /\ ledger[p] # NoRow
  /\ new.link \in {ledger[p].link} \cup OtherLinks
  /\ \/ new.status = ledger[p].status
     \/ /\ new.status # "CANCELLED"
        /\ \E s \in held[p] : <<s, new.status>> \in ValidTransitions
  /\ Record(p, new)

\* The row a step leaves is the only one it can have recorded.
Next == \E p \in Policies :
  /\ ledger'[p] \in Row
  /\ Open(p, ledger'[p]) \/ Amend(p, ledger'[p])

Spec == Init /\ [][Next]_ledgerVars
=============================================================================
