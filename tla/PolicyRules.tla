---------------------------- MODULE PolicyRules ----------------------------
(***************************************************************************)
(* The data and the pure rules of a policy: its statuses, the row kept in  *)
(* the policies table, the transition table of PolicyService, the checks   *)
(* of the Policy model, and the conversions a row goes through.            *)
(*                                                                         *)
(* A row keeps the columns the rules read.  The underwritingInfo column is *)
(* one JSON value, written as a whole; of it the rules read whether        *)
(* riskScore, underwriterNotes and approvedBy are set.  doc stands for     *)
(* "documents contains a POLICY_DOCUMENT", link for oneShieldPolicyId (0   *)
(* when unset, else the number OneShield issued).                          *)
(***************************************************************************)
EXTENDS Integers

CONSTANTS
  NoRow,    \* null: no policy, no cache entry, nothing written
  Keep      \* a field absent from an update

Status == {"DRAFT", "QUOTED", "BOUND", "ACTIVE", "CANCELLED", "EXPIRED"}

\* What OneShield may answer; "OTHER" is any value outside its enum.
CarrierStatus ==
  {"DRAFT", "IN_REVIEW", "APPROVED", "DECLINED", "BOUND", "CANCELLED", "OTHER"}

Underwriting == [risk : BOOLEAN, notes : BOOLEAN, approved : BOOLEAN]

Row == [status : Status, uw : Underwriting, doc : BOOLEAN, link : Nat]

Update == [status : Status \cup {Keep}, uw : Underwriting \cup {Keep},
           doc : BOOLEAN \cup {Keep}, link : Nat \cup {Keep}]

NoUpdate == [status |-> Keep, uw |-> Keep, doc |-> Keep, link |-> Keep]

ASSUME AbsentAssumption ==
  /\ NoRow \notin Row
  /\ Keep \notin Status
  /\ Keep \notin Underwriting
  /\ Keep \notin BOOLEAN
  /\ Keep \notin Nat

-----------------------------------------------------------------------------

\* The table inside PolicyService.validatePolicyTransition.
ValidTransitions ==
  {<<"DRAFT", "QUOTED">>,
   <<"QUOTED", "BOUND">>, <<"QUOTED", "CANCELLED">>,
   <<"BOUND", "ACTIVE">>, <<"BOUND", "CANCELLED">>,
   <<"ACTIVE", "CANCELLED">>, <<"ACTIVE", "EXPIRED">>}

\* Mutant: the rules of the target status are checked, the table is not.
PermittedOffTable(p, to) ==
  /\ to = "BOUND" => p.uw.risk
  /\ to = "ACTIVE" => p.link # 0 /\ p.doc
  /\ to = "CANCELLED" => p.uw.approved

\* validatePolicyTransition(p.status, to, p) returns instead of throwing.
Permitted(p, to) ==
  /\ <<p.status, to>> \in ValidTransitions
  /\ to = "BOUND" => p.uw.risk
  /\ to = "ACTIVE" => p.link # 0 /\ p.doc
  /\ to = "CANCELLED" => p.uw.approved

\* Policy.validate() returns instead of throwing.
Validates(p) ==
  /\ p.status = "ACTIVE" => p.link # 0
  /\ p.status \in {"BOUND", "ACTIVE"} => p.uw.risk /\ p.uw.notes

\* Mutant: the underwriter notes are deleted, the approver is not.
MaskedNotesOnly(p) ==
  [status |-> p.status, doc |-> p.doc, link |-> p.link,
   uw |-> [risk |-> p.uw.risk, notes |-> FALSE, approved |-> p.uw.approved]]

\* Policy.toJSON() deletes approvedBy and underwriterNotes.
Masked(p) ==
  [status |-> p.status, doc |-> p.doc, link |-> p.link,
   uw |-> [risk |-> p.uw.risk, notes |-> FALSE, approved |-> FALSE]]

\* Mutant: OneShield's status is taken as it is.
UnmappedStatus(s) == s

\* PolicyService.mapOneShieldStatus, its fallback included.
MapOneShieldStatus(s) ==
  LET statusMap == [DRAFT |-> "DRAFT", IN_REVIEW |-> "QUOTED", APPROVED |-> "BOUND",
                    BOUND |-> "ACTIVE", DECLINED |-> "CANCELLED",
                    CANCELLED |-> "CANCELLED"]
  IN IF s \in DOMAIN statusMap THEN statusMap[s] ELSE "DRAFT"

\* What mapToOneShieldPolicy sends of a row: the status is not among it, and
\* toJSON() has already taken the notes and the approver out.
CarrierView(p) == [risk |-> p.uw.risk, doc |-> p.doc]

Given(new, old) == IF new = Keep THEN old ELSE new

\* Mutant: Object.assign(updates, policy), the operands swapped.
AssignSwapped(p, u) == p

\* Object.assign(policy, updates)
Assign(p, u) ==
  [status |-> Given(u.status, p.status), uw |-> Given(u.uw, p.uw),
   doc |-> Given(u.doc, p.doc), link |-> Given(u.link, p.link)]

Changed(new, old, stored) == IF new = old THEN stored ELSE new

\* save() writes the columns in which the instance differs from what was
\* loaded, onto whatever the table holds by then.
WriteColumns(stored, loaded, saved) ==
  [status |-> Changed(saved.status, loaded.status, stored.status),
   uw     |-> Changed(saved.uw, loaded.uw, stored.uw),
   doc    |-> Changed(saved.doc, loaded.doc, stored.doc),
   link   |-> Changed(saved.link, loaded.link, stored.link)]
=============================================================================
