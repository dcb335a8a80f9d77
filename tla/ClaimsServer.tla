---------------------------- MODULE ClaimsServer ----------------------------
(***************************************************************************)
(* The claims backend: ClaimsController, claims.validator, ClaimsService,   *)
(* ClaimRepository and the Claim model, called for requests and for the     *)
(* events ClaimsEventConsumer reads (how those are delivered: ClaimsEvents). *)
(*                                                                          *)
(* The repository has one query runner for all requests.  A transaction     *)
(* begun while another is open is a savepoint of it (TypeORM 0.3), so that   *)
(* the transactions of concurrent requests form one stack: a commit merges   *)
(* the top of the stack into what is below, whoever's it is, a rollback      *)
(* discards it.  The model's own save and the reads use other connections.  *)
(***************************************************************************)
EXTENDS Integers, Sequences

CONSTANTS
  Requests,       \* calls that may be under way at the same time
  Targets         \* statuses that requests ask for

VARIABLES
  slRow,          \* the status of the claim that is updated, as committed
  slStack,        \* the query runner's transactions: each the writes made in it
  slCalls,        \* the requests
  slMade,         \* requests whose new claim is committed
  slCarrier,      \* requests for which OneShield made a claim
  slRaced         \* history: requests under way together with another, since all
                  \* were last idle

slTable == <<slRow, slMade>>
slVars == <<slTable, slStack, slCalls, slCarrier, slRaced>>

ServerStatuses == {"NEW", "UNDER_REVIEW", "PENDING_INFO", "APPROVED", "IN_PAYMENT",
                   "PAID", "DENIED", "CLOSED", "REOPENED"}
ASSUME ClaimsServerAssumption == Targets \subseteq ServerStatuses

\* The validator's table of transitions, and the repository's of forbidden ones.
AllowedMoves ==
  [NEW |-> {"UNDER_REVIEW", "DENIED"},
   UNDER_REVIEW |-> {"PENDING_INFO", "APPROVED", "DENIED"},
   PENDING_INFO |-> {"UNDER_REVIEW", "DENIED"},
   APPROVED |-> {"IN_PAYMENT", "DENIED"}, IN_PAYMENT |-> {"PAID", "DENIED"},
   PAID |-> {"CLOSED", "REOPENED"}, DENIED |-> {"CLOSED", "REOPENED"},
   CLOSED |-> {"REOPENED"}, REOPENED |-> {"UNDER_REVIEW"}]
ForbiddenMoves == [CLOSED |-> {"NEW", "UNDER_REVIEW"}, PAID |-> {"NEW", "DENIED"},
                   DENIED |-> {"PAID", "IN_PAYMENT"}]
Forbids(s, t) == s \in DOMAIN ForbiddenMoves /\ t \in ForbiddenMoves[s]

NoRequest == [op |-> "none", at |-> "free", to |-> "NEW"]
\* A layer of the stack: the claims created in it and the last status written in
\* it, if any.
NoWrites == [created |-> {}, row |-> {}]

ClaimsServerInit ==
  /\ slRow = "NEW" /\ slStack = <<>>
  /\ slCalls = [q \in Requests |-> NoRequest]
  /\ slMade = {} /\ slCarrier = {} /\ slRaced = {}

Idle == {q \in Requests : slCalls[q].at = "free"}
ToPlace(q, at) ==
  slCalls' = IF at = "free" THEN [slCalls EXCEPT ![q] = NoRequest]
             ELSE [slCalls EXCEPT ![q].at = at]
Raced(q) == IF Idle = Requests THEN {} ELSE slRaced \cup {q} \cup (Requests \ Idle)

Arrive(q, op, at, to) ==
  /\ slCalls[q].at = "free"
  /\ slCalls' = [slCalls EXCEPT ![q] = [op |-> op, at |-> at, to |-> to]]
  /\ slRaced' = Raced(q)
  /\ UNCHANGED <<slRow, slStack, slMade, slCarrier>>

\* The controller's handlers, for a body that its schema and the checks after it
\* accept; any other is answered 400 and changes nothing.  Each request of the
\* model is used once for a creation, so that its claim has a name.
CreateClaim(q) == q \notin slMade \cup slCarrier /\ Arrive(q, "create", "begin", "NEW")
UpdateClaimStatus(q) == \E to \in Targets : Arrive(q, "status", "checking", to)
UpdateReserves(q) == Arrive(q, "reserves", "checking", "NEW")

\* CLAIM_STATUS_CHANGED: the service is called with the payload, past the controller
\* and its validator.  (CLAIM_CREATED calls what CreateClaim calls.)
ClaimEvent(q) == \E to \in Targets : Arrive(q, "event", "begin", to)

\* Mutant: the controller leaves the check to the repository.
PassMove(q) ==
  /\ slCalls[q].at = "checking" /\ slCalls[q].op = "status" /\ ToPlace(q, "begin")
  /\ UNCHANGED <<slRow, slStack, slMade, slCarrier, slRaced>>

\* updateStatus in the controller: the transition is checked against the claim as
\* it is now.
CheckMove(q) ==
  /\ slCalls[q].at = "checking" /\ slCalls[q].op = "status"
  /\ ToPlace(q, IF slCalls[q].to \in AllowedMoves[slRow] THEN "begin" ELSE "free")
  /\ UNCHANGED <<slRow, slStack, slMade, slCarrier, slRaced>>

\* updateReserves in the service: the status is read, to be written back.
ReadStatus(q) ==
  /\ slCalls[q].at = "checking" /\ slCalls[q].op = "reserves"
  /\ slCalls' = [slCalls EXCEPT ![q].at = "begin", ![q].to = slRow]
  /\ UNCHANGED <<slRow, slStack, slMade, slCarrier, slRaced>>

-----------------------------------------------------------------------------
(* The query runner.                                                       *)

Start(q) ==
  /\ slCalls[q].at = "begin"
  /\ slStack' = Append(slStack, NoWrites)
  /\ ToPlace(q, IF slCalls[q].op \in {"create", "nested"} THEN "numbering" ELSE "loading")
  /\ UNCHANGED <<slTable, slCarrier, slRaced>>

TopLayer == slStack[Len(slStack)]
Below == SubSeq(slStack, 1, Len(slStack) - 1)
RowLocked == \E i \in DOMAIN slStack : slStack[i].row # {}

InTransaction == {"numbering", "asking", "saving", "loading", "modelSaving", "committing"}

Write(created, rows) ==
  slStack' = [slStack EXCEPT ![Len(slStack)] =
    [created |-> @.created \cup created, row |-> IF rows = {} THEN @.row ELSE rows]]

\* The outermost commit makes the writes durable; an inner one hands them down.
CommitTop ==
  IF Below = <<>>
  THEN /\ slStack' = <<>> /\ slMade' = slMade \cup TopLayer.created
       /\ slRow' = IF TopLayer.row = {} THEN slRow ELSE CHOOSE r \in TopLayer.row : TRUE
  ELSE /\ slStack' = [Below EXCEPT ![Len(Below)] =
            [created |-> @.created \cup TopLayer.created,
             row |-> IF TopLayer.row = {} THEN @.row ELSE TopLayer.row]]
       /\ UNCHANGED slTable

\* A creation is announced after its commit; an update's event changes nothing here.
Commit(q) ==
  /\ slCalls[q].at = "committing" /\ CommitTop
  /\ ToPlace(q, IF slCalls[q].op = "create" THEN "publishing" ELSE "free")
  /\ UNCHANGED <<slCarrier, slRaced>>

\* Mutant: a failing step leaves its transaction open.
FailWithoutRollback(q) ==
  /\ slCalls[q].at \in InTransaction \ {"numbering"}
  /\ ToPlace(q, "free")
  /\ UNCHANGED <<slStack, slRow, slMade, slCarrier, slRaced>>

\* Any awaited step of the transaction fails: the catch block rolls back.
Fail(q) ==
  /\ slCalls[q].at \in InTransaction \ {"numbering"}
  /\ slStack' = Below /\ ToPlace(q, "free")
  /\ UNCHANGED <<slTable, slCarrier, slRaced>>

-----------------------------------------------------------------------------
(* create                                                                  *)

\* After the claim number, `this.create` is the repository's own create, and not
\* awaited: another creation begins, as long as the model has a request for it.
Number(q) ==
  /\ slCalls[q].at = "numbering"
  /\ LET spare == {n \in Idle : n \notin slMade \cup slCarrier}
     IN \/ /\ spare = {} /\ ToPlace(q, "asking") /\ UNCHANGED slRaced
        \/ \E n \in spare :
             /\ slCalls' = [slCalls EXCEPT ![q].at = "asking",
                  ![n] = [NoRequest EXCEPT !.op = "nested", !.at = "begin"]]
             /\ slRaced' = Raced(n)
  /\ UNCHANGED <<slRow, slStack, slMade, slCarrier>>

AskCarrier(q) ==
  /\ slCalls[q].at = "asking"
  /\ slCarrier' = slCarrier \cup {q} /\ ToPlace(q, "saving")
  /\ UNCHANGED <<slRow, slStack, slMade, slRaced>>

SaveClaim(q) ==
  /\ slCalls[q].at = "saving" /\ slCalls[q].op \in {"create", "nested"}
  /\ Write({q}, {}) /\ ToPlace(q, "committing")
  /\ UNCHANGED <<slTable, slCarrier, slRaced>>

\* publishClaimCreated, up to three attempts; when all fail the request does too,
\* though its claim is there.
Publish(q) ==
  /\ slCalls[q].at = "publishing"
  /\ ToPlace(q, "free")
  /\ UNCHANGED <<slRow, slStack, slMade, slCarrier, slRaced>>

-----------------------------------------------------------------------------
(* updateStatus                                                            *)

\* findById on another connection; the repository's own check.
LoadClaim(q) ==
  /\ slCalls[q].at = "loading" /\ ~Forbids(slRow, slCalls[q].to)
  /\ ToPlace(q, "modelSaving")
  /\ UNCHANGED <<slRow, slStack, slMade, slCarrier, slRaced>>

\* Claim.updateStatus ends with its own save, on its own connection: it waits for
\* a row the query runner's transaction has written.
SaveModel(q) ==
  /\ slCalls[q].at = "modelSaving" /\ ~RowLocked
  /\ slRow' = slCalls[q].to /\ ToPlace(q, "saving")
  /\ UNCHANGED <<slStack, slMade, slCarrier, slRaced>>

SaveUpdate(q) ==
  /\ slCalls[q].at = "saving" /\ slCalls[q].op \in {"status", "reserves", "event"}
  /\ Write({}, {slCalls[q].to}) /\ ToPlace(q, "committing")
  /\ UNCHANGED <<slTable, slCarrier, slRaced>>

ClaimsServerNext ==
  \E q \in Requests :
    \/ CreateClaim(q) \/ UpdateClaimStatus(q) \/ UpdateReserves(q) \/ ClaimEvent(q)
    \/ CheckMove(q) \/ ReadStatus(q) \/ Start(q) \/ Commit(q) \/ Fail(q)
    \/ Number(q) \/ AskCarrier(q) \/ SaveClaim(q) \/ Publish(q)
    \/ LoadClaim(q) \/ SaveModel(q) \/ SaveUpdate(q)

ClaimsServerSpec == ClaimsServerInit /\ [][ClaimsServerNext]_slVars

-----------------------------------------------------------------------------
\* The claim, the stack of transactions and the requests are of their types.
ClaimsServerTypeOK ==
  /\ slRow \in ServerStatuses
  /\ slStack \in Seq([created : SUBSET Requests, row : SUBSET ServerStatuses])
  /\ slCalls \in [Requests ->
       [op : {"none", "create", "nested", "status", "reserves", "event"},
        at : {"free", "checking", "begin", "publishing"} \cup InTransaction,
        to : ServerStatuses]]
  /\ slMade \subseteq Requests /\ slCarrier \subseteq Requests
  /\ slRaced \subseteq Requests

\* The query runner has one open transaction for each request inside its own, so
\* none is left open (ClaimRepository.ts:102-155, 162-199), and a claim that is
\* announced (ClaimsService.ts:53-56) is there, or its request overlapped another,
\* whose open transaction still holds it or whose rollback took it along.
TransactionsMatch ==
  /\ Len(slStack) = 0 <=> \A q \in Requests : slCalls[q].at \notin InTransaction
  /\ \A q \in Requests : slCalls[q].at = "publishing" => q \in slMade \cup slRaced

\* An event asks for the status s, which the repository does not refuse.
AskedByEvent(s) ==
  /\ \E q \in Requests : slCalls[q].op = "event" /\ slCalls[q].to = s
  /\ ~Forbids(slRow, s)

\* Every claim that is kept has one at the carrier (ClaimRepository.ts:129-141), and
\* the claim moves as the validator's table says; only an event moves it otherwise, as
\* far as the repository's own check lets it (ClaimsEventConsumer.ts:206-214,
\* ClaimRepository.ts:203-216).  Unless requests overlapped: then a stale check, or
\* updateReserves writing back the status it read, decides.
MovesAllowedUnlessRaced ==
  [][/\ slMade' \subseteq slCarrier'
     /\ slRow' # slRow =>
          slRow' \in AllowedMoves[slRow] \/ AskedByEvent(slRow') \/ slRaced # {}]_slVars
=============================================================================
