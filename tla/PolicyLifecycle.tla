-------------------------- MODULE PolicyLifecycle --------------------------
(***************************************************************************)
(* Creating, updating and reading policies: PolicyService over             *)
(* PolicyRepository, with the in-memory cache of each cluster worker, one  *)
(* PostgreSQL transaction per request (READ COMMITTED, row locks), and the *)
(* OneShield carrier behind PolicyClient.                                  *)
(*                                                                         *)
(* A request slot carries one request at a time.  Its control state is the *)
(* await at which its handler stands; each action is the code that runs    *)
(* from one await to the next, so other handlers run between any two.      *)
(***************************************************************************)
EXTENDS PolicyRules, FiniteSets

CONSTANTS
  Policies,     \* policy numbers; a number has at most one row, and one id
  Workers,      \* cluster worker processes
  Requests,     \* request slots
  Home,         \* the worker process each slot belongs to
  Drafts,       \* policy data a create request or event may carry
  Updates,      \* updates a request or an event may carry
  Answers,      \* statuses OneShield may answer a POST with
  MaxRetries,   \* config.connection.retryConfig.maxRetries
  MaxIssued,    \* bound: policies OneShield issues for one number
  NoRequest,    \* an empty slot
  Free          \* nobody's row lock

ASSUME ConstantsAssumption ==
  /\ Drafts \subseteq Row
  /\ Updates \subseteq Update
  /\ Answers \subseteq CarrierStatus
  /\ MaxRetries \in Nat
  /\ MaxIssued \in Nat
  /\ Home \in [Requests -> Workers]
  /\ Free \notin Requests
  /\ NoRequest \notin [kind : {"create", "update", "read"}, policy : Policies]

VARIABLES
  row,      \* committed row of each policy
  held,     \* history: the statuses each policy has been committed with
  links,    \* history: the links each policy has been committed with
  lock,     \* the request whose transaction holds the row lock
  staged,   \* row image a request's transaction has written, uncommitted
  cache,    \* each worker's cacheManager: policy -> masked row
  issued,   \* how many policies OneShield has issued for each number
  told,     \* what the last PUT it applied told OneShield of a policy
  pc,       \* the await at which a request's handler stands
  req,      \* the request in a slot: its kind and policy
  upd,      \* the updates its repository.update will assign
  seen,     \* existingPolicy, as findById returned it
  inst,     \* the Policy instance in repository.create or update
  left,     \* retries left around policyClient.createPolicy
  tx        \* its transaction, from the database's side

db == <<row, held, links, lock, staged>>
carrier == <<issued, told>>
locals == <<upd, seen, inst, left>>
vars == <<db, cache, carrier, pc, req, locals, tx>>

Request == [kind : {"create", "update", "read"}, policy : Policies]

\* The links updates bring along: an event's updates are any part of a
\* policy, its oneShieldPolicyId included, and nothing filters them.
BroughtLinks == {u.link : u \in Updates} \ {Keep}

Await == {"idle", "insert", "post1", "post2", "lookup", "query", "fill", "load",
          "save", "evict", "put1", "put2", "commit", "abort"}

Init ==
  /\ row = [p \in Policies |-> NoRow]
  /\ held = [p \in Policies |-> {}]
  /\ links = [p \in Policies |-> {}]
  /\ lock = [p \in Policies |-> Free]
  /\ staged = [r \in Requests |-> NoRow]
  /\ cache = [w \in Workers |-> [p \in Policies |-> NoRow]]
  /\ issued = [p \in Policies |-> 0]
  /\ told = [p \in Policies |-> NoRow]
  /\ pc = [r \in Requests |-> "idle"]
  /\ req = [r \in Requests |-> NoRequest]
  /\ upd = [r \in Requests |-> NoUpdate]
  /\ seen = [r \in Requests |-> NoRow]
  /\ inst = [r \in Requests |-> NoRow]
  /\ left = [r \in Requests |-> 0]
  /\ tx = [r \in Requests |-> "none"]

-----------------------------------------------------------------------------

Goto(r, a) == pc' = [pc EXCEPT ![r] = a]

Cached(r) == cache[Home[r]][req[r].policy]

\* An exception reaches the service's catch block: the try block's locals
\* are out of scope, the transaction still has to be rolled back.  What it
\* did at OneShield, if anything, is for the action that throws to say.
Throw(r) ==
  /\ Goto(r, "abort")
  /\ upd' = [upd EXCEPT ![r] = NoUpdate]
  /\ seen' = [seen EXCEPT ![r] = NoRow]
  /\ inst' = [inst EXCEPT ![r] = NoRow]
  /\ left' = [left EXCEPT ![r] = 0]
  /\ UNCHANGED <<db, cache, req, tx>>

\* The database ends the transactions of a set of requests, keeping nothing.
Discard(R) ==
  /\ lock' = [p \in Policies |-> IF lock[p] \in R THEN Free ELSE lock[p]]
  /\ staged' = [r \in Requests |-> IF r \in R THEN NoRow ELSE staged[r]]
  /\ UNCHANGED <<row, held, links>>

\* The handlers of a set of requests are gone and their slots empty.
Leave(R) ==
  /\ pc' = [r \in Requests |-> IF r \in R THEN "idle" ELSE pc[r]]
  /\ req' = [r \in Requests |-> IF r \in R THEN NoRequest ELSE req[r]]
  /\ upd' = [r \in Requests |-> IF r \in R THEN NoUpdate ELSE upd[r]]
  /\ seen' = [r \in Requests |-> IF r \in R THEN NoRow ELSE seen[r]]
  /\ inst' = [r \in Requests |-> IF r \in R THEN NoRow ELSE inst[r]]
  /\ left' = [r \in Requests |-> IF r \in R THEN 0 ELSE left[r]]
  /\ tx' = [r \in Requests |-> IF r \in R THEN "none" ELSE tx[r]]

-----------------------------------------------------------------------------
(* Arrivals.                                                               *)

\* createPolicy up to repository.create's INSERT; the data is the request's.
BeginCreate(r) == \E p \in Policies, d \in Drafts :
  /\ pc[r] = "idle"
  /\ req' = [req EXCEPT ![r] = [kind |-> "create", policy |-> p]]
  /\ inst' = [inst EXCEPT ![r] = d]
  /\ left' = [left EXCEPT ![r] = MaxRetries]
  /\ tx' = [tx EXCEPT ![r] = "open"]
  /\ Goto(r, "insert")
  /\ UNCHANGED <<db, cache, carrier, upd, seen>>

\* updatePolicy: the transaction is open before the policy is looked up.
BeginUpdate(r) == \E p \in Policies, u \in Updates :
  /\ pc[r] = "idle"
  /\ req' = [req EXCEPT ![r] = [kind |-> "update", policy |-> p]]
  /\ upd' = [upd EXCEPT ![r] = u]
  /\ tx' = [tx EXCEPT ![r] = "open"]
  /\ Goto(r, "lookup")
  /\ UNCHANGED <<db, cache, carrier, seen, inst, left>>

\* A bare findById, as the underwriting service makes it.
BeginRead(r) == \E p \in Policies :
  /\ pc[r] = "idle"
  /\ req' = [req EXCEPT ![r] = [kind |-> "read", policy |-> p]]
  /\ Goto(r, "lookup")
  /\ UNCHANGED <<db, cache, carrier, locals, tx>>

-----------------------------------------------------------------------------
(* PolicyRepository.findById                                               *)

LookupHit(r) ==
  /\ pc[r] = "lookup"
  /\ Cached(r) # NoRow
  /\ seen' = [seen EXCEPT ![r] = Cached(r)]
  /\ Goto(r, "load")
  /\ UNCHANGED <<db, cache, carrier, req, upd, inst, left, tx>>

LookupMiss(r) ==
  /\ pc[r] = "lookup"
  /\ Cached(r) = NoRow
  /\ Goto(r, "query")
  /\ UNCHANGED <<db, cache, carrier, req, locals, tx>>

\* Mutant: the query reads what another transaction has not committed.
FoundUncommitted(r) ==
  LET writers == {q \in Requests : staged[q] # NoRow /\ req[q].policy = req[r].policy}
  IN IF writers = {} THEN row[req[r].policy] ELSE staged[CHOOSE q \in writers : TRUE]

\* The query runs in a transaction of its own: it sees committed rows only,
\* and waits for nobody's lock.
Found(r) == row[req[r].policy]

Query(r) ==
  /\ pc[r] = "query"
  /\ Found(r) # NoRow
  /\ seen' = [seen EXCEPT ![r] = Masked(Found(r))]
  /\ Goto(r, "fill")
  /\ UNCHANGED <<db, cache, carrier, req, upd, inst, left, tx>>

\* Nothing found: "Policy not found" for an update, null for a reader.
QueryNone(r) ==
  /\ pc[r] = "query"
  /\ Found(r) = NoRow
  /\ \/ req[r].kind = "update" /\ Throw(r)
     \/ req[r].kind = "read" /\ Leave({r}) /\ UNCHANGED <<db, cache>>
  /\ UNCHANGED carrier

\* cacheManager.set: whatever has happened to the row since it was read.
Fill(r) ==
  /\ pc[r] = "fill"
  /\ cache' = [cache EXCEPT ![Home[r]][req[r].policy] = seen[r]]
  /\ Goto(r, "load")
  /\ UNCHANGED <<db, carrier, req, locals, tx>>

ReturnRead(r) ==
  /\ pc[r] = "load"
  /\ req[r].kind = "read"
  /\ Leave({r})
  /\ UNCHANGED <<db, cache, carrier>>

-----------------------------------------------------------------------------
(* PolicyRepository.update, from updatePolicy or from createPolicy.        *)

\* Mutant: the condition inverted, a status change is not validated.
MayProceedInverted(r) ==
  req[r].kind = "update" /\ upd[r].status = Keep => Permitted(seen[r], upd[r].status)

\* updatePolicy validates a status change against the copy findById gave it.
MayProceed(r) ==
  req[r].kind = "update" /\ upd[r].status # Keep => Permitted(seen[r], upd[r].status)

Refuse(r) ==
  /\ pc[r] = "load"
  /\ req[r].kind = "update"
  /\ ~MayProceed(r)
  /\ Throw(r)
  /\ UNCHANGED carrier

\* What a statement of the request's transaction reads.
Visible(r) == IF staged[r] # NoRow THEN staged[r] ELSE row[req[r].policy]

\* Policy.findByPk: a plain SELECT in the request's transaction.
Load(r) ==
  /\ pc[r] = "load"
  /\ req[r].kind # "read"
  /\ MayProceed(r)
  /\ tx[r] = "open"
  /\ inst' = [inst EXCEPT ![r] = Visible(r)]
  /\ seen' = [seen EXCEPT ![r] = NoRow]
  /\ Goto(r, "save")
  /\ UNCHANGED <<db, cache, carrier, req, upd, left, tx>>

LoadFails(r) ==
  /\ pc[r] = "load"
  /\ req[r].kind # "read"
  /\ MayProceed(r)
  /\ tx[r] = "killed"
  /\ Throw(r)
  /\ UNCHANGED carrier

Assigned(r) == Assign(inst[r], upd[r])

\* UPDATE takes the row lock, and writes the changed columns only.  (A local
\* is cleared once the handler has no more use for it.)
Save(r) == LET p == req[r].policy IN
  /\ pc[r] = "save"
  /\ Validates(Assigned(r))
  /\ Assigned(r) # inst[r]
  /\ tx[r] = "open"
  /\ lock[p] \in {Free, r}
  /\ lock' = [lock EXCEPT ![p] = r]
  /\ staged' = [staged EXCEPT ![r] = WriteColumns(Visible(r), inst[r], Assigned(r))]
  /\ inst' = [inst EXCEPT ![r] = Assigned(r)]
  /\ upd' = [upd EXCEPT ![r] = NoUpdate]
  /\ Goto(r, "evict")
  /\ UNCHANGED <<row, held, links, cache, carrier, req, seen, left, tx>>

\* save() of an instance without changed columns sends no statement.
SaveNothing(r) ==
  /\ pc[r] = "save"
  /\ Validates(Assigned(r))
  /\ Assigned(r) = inst[r]
  /\ upd' = [upd EXCEPT ![r] = NoUpdate]
  /\ Goto(r, "evict")
  /\ UNCHANGED <<db, cache, carrier, req, seen, inst, left, tx>>

\* Validation fails, or the statement does: the session is gone, or the lock
\* is another's for longer than statement_timeout.
SaveFails(r) ==
  /\ pc[r] = "save"
  /\ \/ ~Validates(Assigned(r))
     \/ Assigned(r) # inst[r] /\ tx[r] = "killed"
     \/ Assigned(r) # inst[r] /\ lock[req[r].policy] \notin {Free, r}
  /\ Throw(r)
  /\ UNCHANGED carrier

\* Mutant: every update is passed on.
SyncsEveryUpdate(r) == req[r].kind = "update"

\* An update goes on to OneShield when the instance it saved is ACTIVE.
SyncsToCarrier(r) == req[r].kind = "update" /\ inst[r].status = "ACTIVE"

\* cacheManager.del, in this worker's cache, before the caller commits.
Evict(r) ==
  /\ pc[r] = "evict"
  /\ cache' = [cache EXCEPT ![Home[r]][req[r].policy] = NoRow]
  /\ IF SyncsToCarrier(r)
     THEN Goto(r, "put1") /\ UNCHANGED inst
     ELSE Goto(r, "commit") /\ inst' = [inst EXCEPT ![r] = NoRow]
  /\ UNCHANGED <<db, carrier, req, upd, seen, left, tx>>

-----------------------------------------------------------------------------
(* The rest of createPolicy.                                               *)

\* repository.create: the row inserted is toJSON() of the validated instance.
\* The unique policy number makes it wait for an insert in progress.
Insert(r) == LET p == req[r].policy IN
  /\ pc[r] = "insert"
  /\ Validates(inst[r])
  /\ row[p] = NoRow
  /\ lock[p] = Free
  /\ lock' = [lock EXCEPT ![p] = r]
  /\ staged' = [staged EXCEPT ![r] = Masked(inst[r])]
  /\ inst' = [inst EXCEPT ![r] = NoRow]
  /\ Goto(r, "post1")
  /\ UNCHANGED <<row, held, links, cache, carrier, req, upd, seen, left, tx>>

\* Invalid data, a number already taken, or one whose insert outlasts
\* statement_timeout.
InsertFails(r) == LET p == req[r].policy IN
  /\ pc[r] = "insert"
  /\ ~Validates(inst[r]) \/ row[p] # NoRow \/ lock[p] # Free
  /\ Throw(r)
  /\ UNCHANGED carrier

Issue(p) ==
  /\ issued[p] < MaxIssued
  /\ issued' = [issued EXCEPT ![p] = @ + 1]
  /\ UNCHANGED told

\* The first POST of PolicyClient.createPolicy: its answer is dropped.
Post1(r) ==
  /\ pc[r] = "post1"
  /\ Issue(req[r].policy)
  /\ Goto(r, "post2")
  /\ UNCHANGED <<db, cache, req, locals, tx>>

\* The second POST of the same request, outside the client's breaker; the
\* service takes its answer for the policy's link and status.
Post2(r) == \E s \in Answers : LET p == req[r].policy IN
  /\ pc[r] = "post2"
  /\ Issue(p)
  /\ upd' = [upd EXCEPT ![r] = [status |-> MapOneShieldStatus(s), uw |-> Keep,
                                doc |-> Keep, link |-> issued[p] + 1]]
  /\ Goto(r, "load")
  /\ UNCHANGED <<db, cache, req, seen, inst, left, tx>>

\* Mutant: the retries are not counted down.
PostRetryForever(r) ==
  /\ pc[r] \in {"post1", "post2"}
  /\ left[r] > 0
  /\ Issue(req[r].policy) \/ UNCHANGED carrier
  /\ Goto(r, "post1")
  /\ UNCHANGED <<db, cache, req, locals, tx>>

\* A POST fails: refused, or lost with its answer after OneShield issued a
\* policy.  The service's retry starts the client's call over.
PostRetry(r) ==
  /\ pc[r] \in {"post1", "post2"}
  /\ left[r] > 0
  /\ left' = [left EXCEPT ![r] = @ - 1]
  /\ Issue(req[r].policy) \/ UNCHANGED carrier
  /\ Goto(r, "post1")
  /\ UNCHANGED <<db, cache, req, upd, seen, inst, tx>>

PostGivesUp(r) ==
  /\ pc[r] \in {"post1", "post2"}
  /\ left[r] = 0
  /\ Issue(req[r].policy) \/ UNCHANGED carrier
  /\ Throw(r)

-----------------------------------------------------------------------------
(* The rest of updatePolicy.                                               *)

\* OneShield applies a PUT.
Tell(r) ==
  /\ told' = [told EXCEPT ![req[r].policy] = CarrierView(inst[r])]
  /\ UNCHANGED issued

\* PolicyClient.updatePolicy also sends its request twice.
Put(r) ==
  /\ pc[r] \in {"put1", "put2"}
  /\ Tell(r)
  /\ IF pc[r] = "put1"
     THEN Goto(r, "put2") /\ UNCHANGED inst
     ELSE Goto(r, "commit") /\ inst' = [inst EXCEPT ![r] = NoRow]
  /\ UNCHANGED <<db, cache, req, upd, seen, left, tx>>

\* A PUT fails, applied by OneShield or not.
PutFails(r) ==
  /\ pc[r] \in {"put1", "put2"}
  /\ Tell(r) \/ UNCHANGED carrier
  /\ Throw(r)

-----------------------------------------------------------------------------
(* Ends.                                                                   *)

\* transaction.commit() makes the staged image the row and frees the lock.
Commit(r) == LET p == req[r].policy IN
  /\ pc[r] = "commit"
  /\ tx[r] = "open"
  /\ IF staged[r] = NoRow
     THEN UNCHANGED <<row, held, links>>
     ELSE /\ row' = [row EXCEPT ![p] = staged[r]]
          /\ held' = [held EXCEPT ![p] = @ \cup {staged[r].status}]
          /\ links' = [links EXCEPT ![p] = @ \cup {staged[r].link}]
  /\ lock' = [q \in Policies |-> IF lock[q] = r THEN Free ELSE lock[q]]
  /\ staged' = [staged EXCEPT ![r] = NoRow]
  /\ Leave({r})
  /\ UNCHANGED <<cache, carrier>>

CommitFails(r) ==
  /\ pc[r] = "commit"
  /\ tx[r] = "killed"
  /\ Throw(r)
  /\ UNCHANGED carrier

\* transaction.rollback() in the catch block; the caller sees the error.
Rollback(r) ==
  /\ pc[r] = "abort"
  /\ Discard({r})
  /\ Leave({r})
  /\ UNCHANGED <<cache, carrier>>

\* idle_in_transaction_session_timeout (10 s) ends the session of a request
\* that waits for a 30 s query elsewhere, or for OneShield.
KillIdleSession(r) ==
  /\ tx[r] = "open"
  /\ pc[r] \in {"query", "post1", "post2", "put1", "put2"}
  /\ tx' = [tx EXCEPT ![r] = "killed"]
  /\ Discard({r})
  /\ UNCHANGED <<cache, carrier, pc, req, locals>>

\* A cache entry reaches its TTL or is pushed out by others.
Expire(w, p) ==
  /\ cache[w][p] # NoRow
  /\ cache' = [cache EXCEPT ![w][p] = NoRow]
  /\ UNCHANGED <<db, carrier, pc, req, locals, tx>>

\* A worker process dies and the primary forks a new one, its cache empty.
CrashWorker(w) == LET R == {r \in Requests : Home[r] = w} IN
  /\ \/ \E r \in R : pc[r] # "idle"
     \/ \E p \in Policies : cache[w][p] # NoRow
  /\ Discard(R)
  /\ Leave(R)
  /\ cache' = [cache EXCEPT ![w] = [p \in Policies |-> NoRow]]
  /\ UNCHANGED carrier

-----------------------------------------------------------------------------

\* What a handler does by itself once its request has arrived.
Step(r) ==
  \/ LookupHit(r) \/ LookupMiss(r) \/ Query(r) \/ QueryNone(r) \/ Fill(r)
  \/ ReturnRead(r) \/ Refuse(r) \/ Load(r) \/ LoadFails(r)
  \/ Save(r) \/ SaveNothing(r) \/ SaveFails(r) \/ Evict(r)
  \/ Insert(r) \/ InsertFails(r)
  \/ Post1(r) \/ Post2(r) \/ PostRetry(r) \/ PostGivesUp(r)
  \/ Put(r) \/ PutFails(r)
  \/ Commit(r) \/ CommitFails(r) \/ Rollback(r)

Next ==
  \/ \E r \in Requests : \/ BeginCreate(r) \/ BeginUpdate(r) \/ BeginRead(r)
                         \/ Step(r) \/ KillIdleSession(r)
  \/ \E w \in Workers, p \in Policies : Expire(w, p)
  \/ \E w \in Workers : CrashWorker(w)

Spec == Init /\ [][Next]_vars

\* A handler is never abandoned: its promises settle, since every query and
\* every OneShield request has a timeout.
FairSpec == Spec /\ \A r \in Requests : WF_vars(Step(r))

-----------------------------------------------------------------------------
(* Properties.                                                             *)

\* Every variable has the shape its declaration says.
TypeOK ==
  /\ row \in [Policies -> Row \cup {NoRow}]
  /\ held \in [Policies -> SUBSET Status]
  /\ links \in [Policies -> SUBSET Nat]
  /\ lock \in [Policies -> Requests \cup {Free}]
  /\ staged \in [Requests -> Row \cup {NoRow}]
  /\ cache \in [Workers -> [Policies -> Row \cup {NoRow}]]
  /\ issued \in [Policies -> Nat]
  /\ told \in [Policies -> [risk : BOOLEAN, doc : BOOLEAN] \cup {NoRow}]
  /\ pc \in [Requests -> Await]
  /\ req \in [Requests -> Request \cup {NoRequest}]
  /\ upd \in [Requests -> Update]
  /\ seen \in [Requests -> Row \cup {NoRow}]
  /\ inst \in [Requests -> Row \cup {NoRow}]
  /\ left \in [Requests -> Nat]
  /\ tx \in [Requests -> {"none", "open", "killed"}]

\* A policy's statuses come in order: none is ACTIVE that was not BOUND
\* before, BOUND that was not QUOTED, EXPIRED that was not ACTIVE.  This
\* holds although updatePolicy validates against a copy that may be stale,
\* and although createPolicy takes any status from its caller and from
\* OneShield: what it inserts has lost its underwriter notes, so a policy
\* cannot be born BOUND or ACTIVE.
LifecycleOrder == \A p \in Policies :
  /\ "EXPIRED" \in held[p] => "ACTIVE" \in held[p]
  /\ "ACTIVE" \in held[p] => "BOUND" \in held[p]
  /\ "BOUND" \in held[p] => "QUOTED" \in held[p]
  /\ row[p] # NoRow => row[p].status \in held[p]

\* A policy is CANCELLED only if OneShield declined it when it was created,
\* and then stays so: updatePolicy asks for underwritingInfo.approvedBy on a
\* copy from which toJSON has deleted it.
CancelledAtBirth == \A p \in Policies :
  "CANCELLED" \in held[p] => held[p] = {"CANCELLED"}

\* Every committed policy was born linked to one policy OneShield issued for
\* it, however many POSTs were lost, retried or orphaned on the way, and is
\* never given another of them: a link it shows later is that one, or one an
\* update brought along.
LinkIsExplained == \A p \in Policies : row[p] # NoRow =>
  /\ row[p].link \in links[p]
  /\ \E n \in links[p] \cap 1..issued[p] : links[p] \subseteq {n} \cup BroughtLinks

\* OneShield hears only of policies that have been bound and carry a risk
\* score, also when the update that told it is rolled back afterwards.
ToldOfBound == \A p \in Policies :
  told[p] # NoRow => told[p].risk /\ "BOUND" \in held[p]

\* No cache, and no request about to validate against a copy, holds an image
\* that was never committed: a rolled back or unfinished update is not seen.
NoDirtyCopy ==
  /\ \A w \in Workers, p \in Policies : cache[w][p] # NoRow =>
       row[p] # NoRow /\ cache[w][p].status \in held[p] /\ cache[w][p].link \in links[p]
  /\ \A r \in Requests : seen[r] # NoRow =>
       LET p == req[r].policy IN
       row[p] # NoRow /\ seen[r].status \in held[p] /\ seen[r].link \in links[p]

\* The table, with everything else hidden, is the ledger of PolicyLedger.
Ledger == INSTANCE PolicyLedger WITH OtherLinks <- BroughtLinks, ledger <- row
LedgerSpec == Ledger!Spec

\* Every request is answered: no handler waits for ever on a lock, a retry
\* loop or the carrier.
Answered == \A r \in Requests : pc[r] # "idle" ~> pc[r] = "idle"

\* Every status change follows the transition table from the status the
\* policy has ("should reject invalid policy status transitions").
LegalTransition == \A p \in Policies :
  row[p] # NoRow /\ row'[p].status # row[p].status =>
    <<row[p].status, row'[p].status>> \in ValidTransitions
AlwaysLegalTransition == [][LegalTransition]_row

\* An update is saved only onto the row it was computed from: of two
\* concurrent updates one is rejected ("should handle concurrent updates
\* with optimistic locking").
SavedOntoLoaded == \A r \in Requests :
  pc[r] = "save" /\ staged'[r] # staged[r] /\ staged'[r] # NoRow =>
    Visible(r) = inst[r]
OptimisticLocking == [][SavedOntoLoaded]_vars

\* A cancellation is not refused for want of an approval that is recorded
\* ("Underwriter approval required for cancellation").
ApprovalHonoured == \A r \in Requests :
  /\ pc[r] = "load"
  /\ req[r].kind = "update"
  /\ upd[r].status = "CANCELLED"
  /\ <<seen[r].status, "CANCELLED">> \in ValidTransitions
  /\ seen[r] = Masked(row[req[r].policy])
  /\ row[req[r].policy].uw.approved
  => MayProceed(r)
=============================================================================
