------------------------- MODULE MCPolicyLifecycle -------------------------
(***************************************************************************)
(* Small instances of PolicyLifecycle for TLC.                             *)
(***************************************************************************)
EXTENDS PolicyLifecycle

Blank == [risk |-> FALSE, notes |-> FALSE, approved |-> FALSE]
Complete == [risk |-> TRUE, notes |-> TRUE, approved |-> TRUE]

\* A link that OneShield does not issue in these instances.
ForeignLink == 9

\* A plain draft, and data that asks to be born BOUND, complete and linked.
MCDrafts == {[status |-> "DRAFT", uw |-> Blank, doc |-> TRUE, link |-> 0],
             [status |-> "BOUND", uw |-> Complete, doc |-> TRUE, link |-> ForeignLink]}

To(s) == [NoUpdate EXCEPT !.status = s]

\* Quoting brings the underwriting information along; the rest of the way is
\* status changes, one of them a cancellation.  The event that binds a policy
\* brings a link of its own.
MCUpdates == {[To("QUOTED") EXCEPT !.uw = Complete],
              [To("BOUND") EXCEPT !.link = ForeignLink]} \cup
             {To(s) : s \in {"ACTIVE", "EXPIRED", "CANCELLED"}}

\* The shortest way to a policy in force.
MCWayToActive == {[To("QUOTED") EXCEPT !.uw = Complete], To("BOUND"), To("ACTIVE")}

\* One worker process per slot, or all slots in one process.
HomeApart == CHOOSE f \in [Requests -> Workers] :
  \A r, q \in Requests : r # q => f[r] # f[q]
HomeTogether == [r \in Requests |-> CHOOSE w \in Workers : TRUE]
=============================================================================
