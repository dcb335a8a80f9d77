----------------------- MODULE PolicyLifecycleProofs -----------------------
(***************************************************************************)
(* The safety of PolicyLifecycle for every number of policies, workers and *)
(* request slots, every set of drafts and updates, and every retry bound.  *)
(***************************************************************************)
EXTENDS PolicyLifecycle, TLAPS

(***************************************************************************)
(* The inductive invariant.  The properties speak of the table, the caches *)
(* and the carrier; what keeps them true is what each request carries from *)
(* one await to the next.                                                  *)
(***************************************************************************)

\* A masked image of a row that was committed at some time.
Copy(c, p) ==
  /\ row[p] # NoRow
  /\ c.status \in held[p]
  /\ c.link \in links[p]
  /\ ~c.uw.notes
  /\ ~c.uw.approved

\* A status an update may give the policy: not by cancelling it.
Reachable(p, s) ==
  /\ s # "CANCELLED"
  /\ \E t \in held[p] : <<t, s>> \in ValidTransitions

CacheInv == \A w \in Workers, p \in Policies :
  cache[w][p] # NoRow => Copy(cache[w][p], p)

PolicyInv == \A p \in Policies :
  /\ row[p] = NoRow => held[p] = {} /\ links[p] = {}
  /\ row[p] # NoRow => row[p].status \in held[p]

\* The lock of a row is held exactly by the request that has written it.
LockInv == \A r \in Requests :
  /\ staged[r] # NoRow =>
       pc[r] # "idle" /\ tx[r] = "open" /\ lock[req[r].policy] = r
  /\ \A p \in Policies : lock[p] = r => staged[r] # NoRow /\ req[r].policy = p

ControlInv(r) ==
  /\ pc[r] = "idle" <=> req[r] = NoRequest
  /\ pc[r] \in {"insert", "post1", "post2"} => req[r].kind = "create"
  /\ pc[r] \in {"lookup", "query", "fill"} => req[r].kind \in {"update", "read"}
  /\ pc[r] \in {"put1", "put2"} => req[r].kind = "update"
  /\ pc[r] \in {"save", "evict", "commit"} => req[r].kind \in {"create", "update"}
  /\ pc[r] = "insert" => tx[r] = "open"

\* What findById returned, until the row itself is loaded.
SeenInv(r) ==
  /\ seen[r] # NoRow => pc[r] \in {"fill", "load"} /\ Copy(seen[r], req[r].policy)
  /\ pc[r] = "fill" => seen[r] # NoRow
  /\ pc[r] = "load" /\ req[r].kind # "create" => seen[r] # NoRow

\* What repository.update is about to assign.
UpdInv(r) ==
  /\ pc[r] # "idle" /\ req[r].kind = "update" => upd[r].link \in {Keep} \cup BroughtLinks
  /\ pc[r] \in {"load", "save"} /\ req[r].kind = "create" =>
       /\ upd[r].link \in 1..issued[req[r].policy]
       /\ upd[r].status \in Status \ {"EXPIRED"}
       /\ upd[r].uw = Keep /\ upd[r].doc = Keep
  /\ pc[r] = "save" /\ req[r].kind = "update" =>
       upd[r].status = Keep \/ Reachable(req[r].policy, upd[r].status)

InstInv(r) ==
  /\ pc[r] = "insert" => inst[r] # NoRow
  /\ pc[r] = "save" => inst[r] # NoRow
  /\ pc[r] = "save" /\ req[r].kind = "create" => inst[r] = staged[r]
  /\ pc[r] = "save" /\ req[r].kind = "update" =>
       /\ row[req[r].policy] # NoRow
       /\ inst[r].status \in held[req[r].policy]
  /\ pc[r] \in {"evict", "put1", "put2"} => inst[r] # NoRow
  /\ pc[r] \in {"evict", "put1", "put2"} /\ req[r].kind = "update"
       /\ inst[r].status = "ACTIVE" =>
         inst[r].uw.risk /\ "BOUND" \in held[req[r].policy]
  /\ pc[r] \in {"put1", "put2"} => inst[r].status = "ACTIVE"

\* What a request's transaction will commit.
StagedInv(r) ==
  /\ pc[r] \in {"post1", "post2", "load"} /\ req[r].kind = "create" /\ tx[r] = "open" =>
       staged[r] # NoRow
  /\ pc[r] \in {"insert", "lookup", "query", "fill"} => staged[r] = NoRow
  /\ req[r].kind = "read" => staged[r] = NoRow
  /\ pc[r] \in {"load", "save"} /\ req[r].kind = "update" => staged[r] = NoRow
  /\ staged[r] # NoRow /\ req[r].kind = "create" =>
       /\ row[req[r].policy] = NoRow
       /\ ~staged[r].uw.notes
       /\ pc[r] \in {"evict", "commit"} =>
            /\ staged[r].link \in 1..issued[req[r].policy]
            /\ staged[r].status \in Ledger!BirthStatus
  /\ staged[r] # NoRow /\ req[r].kind = "update" =>
       /\ row[req[r].policy] # NoRow
       /\ staged[r].link \in {row[req[r].policy].link} \cup BroughtLinks
       /\ \/ staged[r].status = row[req[r].policy].status
          \/ Reachable(req[r].policy, staged[r].status)

RequestInv(r) ==
  ControlInv(r) /\ SeenInv(r) /\ UpdInv(r) /\ InstInv(r) /\ StagedInv(r)

IInv ==
  /\ TypeOK
  /\ PolicyInv
  /\ LifecycleOrder
  /\ CancelledAtBirth
  /\ LinkIsExplained
  /\ ToldOfBound
  /\ CacheInv
  /\ LockInv
  /\ \A r \in Requests : RequestInv(r)

-----------------------------------------------------------------------------
(* Facts about the rules.                                                  *)

\* The transition table is the only source of the statuses an update gives.
LEMMA TransitionTable ==
  ASSUME NEW s, NEW t, <<s, t>> \in ValidTransitions
  PROVE  /\ s \in Status /\ t \in Status \ {"DRAFT"}
         /\ t = "QUOTED" => s = "DRAFT"
         /\ t = "BOUND" => s = "QUOTED"
         /\ t = "ACTIVE" => s = "BOUND"
         /\ t = "EXPIRED" => s = "ACTIVE"
         /\ s # "CANCELLED"
BY DEF ValidTransitions, Status

\* Whatever OneShield answers becomes a status, never EXPIRED.
LEMMA MappedStatus ==
  ASSUME NEW s \in CarrierStatus
  PROVE  MapOneShieldStatus(s) \in Status \ {"EXPIRED"}
BY DEF MapOneShieldStatus, CarrierStatus, Status

\* A masked row is a row, with the status and the link of the original and
\* without notes and approver.
LEMMA MaskedRow ==
  ASSUME NEW c \in Row
  PROVE  /\ Masked(c) \in Row
         /\ Masked(c).status = c.status
         /\ Masked(c).link = c.link
         /\ Masked(c).uw.risk = c.uw.risk
         /\ ~Masked(c).uw.notes
         /\ ~Masked(c).uw.approved
BY DEF Masked, Row, Underwriting

\* Assigning an update to a row gives a row, whose fields are the update's
\* where it has them.
LEMMA AssignedRow ==
  ASSUME NEW c \in Row, NEW u \in Update
  PROVE  /\ Assign(c, u) \in Row
         /\ Assign(c, u).status = Given(u.status, c.status)
         /\ Assign(c, u).uw = Given(u.uw, c.uw)
         /\ Assign(c, u).link = Given(u.link, c.link)
<1>1. /\ Given(u.status, c.status) \in Status
      /\ Given(u.uw, c.uw) \in Underwriting
      /\ Given(u.doc, c.doc) \in BOOLEAN
      /\ Given(u.link, c.link) \in Nat
  BY AbsentAssumption DEF Given, Row, Update
<1>2. QED
  BY <1>1 DEF Assign, Row

\* Writing the changed columns onto a row gives a row; written onto the row
\* the instance was loaded from, it gives the instance.
LEMMA WrittenRow ==
  ASSUME NEW c \in Row, NEW old \in Row, NEW new \in Row
  PROVE  /\ WriteColumns(c, old, new) \in Row
         /\ WriteColumns(c, old, new).status = Changed(new.status, old.status, c.status)
         /\ WriteColumns(c, old, new).link = Changed(new.link, old.link, c.link)
         /\ WriteColumns(old, old, new) = new
BY DEF WriteColumns, Changed, Row

-----------------------------------------------------------------------------
(* Frame rules: what a step of one request leaves to the others.           *)

Same(q) ==
  /\ pc'[q] = pc[q] /\ req'[q] = req[q] /\ upd'[q] = upd[q] /\ seen'[q] = seen[q]
  /\ inst'[q] = inst[q] /\ tx'[q] = tx[q] /\ staged'[q] = staged[q]

Grows == \A p \in Policies :
  /\ held[p] \subseteq held'[p]
  /\ links[p] \subseteq links'[p]
  /\ issued[p] <= issued'[p]
  /\ row[p] # NoRow => row'[p] # NoRow

\* A request's type and its policy.
LEMMA RequestType ==
  ASSUME TypeOK, NEW r \in Requests, req[r] # NoRequest
  PROVE  /\ req[r].policy \in Policies
         /\ req[r].kind \in {"create", "update", "read"}
         /\ req[r] \in Request
BY DEF TypeOK, Request

\* A copy stays one while the table grows.
LEMMA CopyStays ==
  ASSUME Grows, NEW p \in Policies, NEW c, Copy(c, p)
  PROVE  Copy(c, p)'
BY DEF Grows, Copy

\* So does a status an update may give.
LEMMA ReachableStays ==
  ASSUME Grows, NEW p \in Policies, NEW s, Reachable(p, s)
  PROVE  Reachable(p, s)'
BY DEF Grows, Reachable

\* A policy number OneShield has issued stays issued.
LEMMA IssuedStays ==
  ASSUME TypeOK, TypeOK', Grows, NEW p \in Policies, NEW n \in 1..issued[p]
  PROVE  n \in 1..issued'[p]
<1>1. issued[p] \in Nat /\ issued'[p] \in Nat /\ issued[p] <= issued'[p]
  BY DEF TypeOK, Grows
<1>2. QED
  BY <1>1

\* What explains the links explains them when OneShield has issued more.
LEMMA LinksStay ==
  ASSUME TypeOK, TypeOK', LinkIsExplained, UNCHANGED <<row, links>>,
         \A p \in Policies : issued[p] <= issued'[p]
  PROVE  LinkIsExplained'
<1>1. ASSUME NEW p \in Policies
      PROVE  1..issued[p] \subseteq 1..issued'[p]
  BY DEF TypeOK
<1>2. QED
  BY <1>1 DEF LinkIsExplained

\* A request keeps its invariant through a step that leaves its own state
\* alone, and the row of its policy too when it has a write staged on it.
LEMMA Frame ==
  ASSUME TypeOK, TypeOK', NEW q \in Requests, RequestInv(q), Same(q), Grows,
         staged[q] # NoRow => row'[req[q].policy] = row[req[q].policy],
         staged[q] # NoRow => pc[q] # "idle"
  PROVE  RequestInv(q)'
<1>1. ControlInv(q)'
  BY DEF RequestInv, ControlInv, Same
<1>2. CASE req[q] = NoRequest
  <2>1. pc[q] = "idle"
    BY <1>2 DEF RequestInv, ControlInv
  <2>2. SeenInv(q)' /\ UpdInv(q)' /\ InstInv(q)'
    BY <2>1 DEF RequestInv, SeenInv, UpdInv, InstInv, Same
  <2>3. StagedInv(q)'
    BY <2>1 DEF RequestInv, StagedInv, Same
  <2>4. QED
    BY <1>1, <2>2, <2>3 DEF RequestInv
<1>3. CASE req[q] # NoRequest
  <2>1. req[q].policy \in Policies
    BY <1>3, RequestType
  <2>2. SeenInv(q)'
    BY <2>1, CopyStays DEF RequestInv, SeenInv, Same
  <2>3. UpdInv(q)'
    BY <2>1, ReachableStays, IssuedStays DEF RequestInv, UpdInv, Same
  <2>4. InstInv(q)'
    BY <2>1 DEF RequestInv, InstInv, Same, Grows
  <2>5. StagedInv(q)'
    BY <2>1, ReachableStays, IssuedStays DEF RequestInv, StagedInv, Same, Grows
  <2>6. QED
    BY <1>1, <2>2, <2>3, <2>4, <2>5 DEF RequestInv
<1>4. QED
  BY <1>2, <1>3

\* A step that changes one request's own state, its worker's cache or the
\* carrier, and nothing in the database.
LEMMA LocalStep ==
  ASSUME IInv, TypeOK', NEW r \in Requests, UNCHANGED db,
         \A p \in Policies : issued[p] <= issued'[p],
         \A q \in Requests \ {r} : Same(q),
         staged[r] # NoRow => pc'[r] # "idle" /\ req'[r] = req[r] /\ tx'[r] = "open",
         RequestInv(r)', CacheInv', ToldOfBound'
  PROVE  IInv'
<1>1. Grows
  BY DEF Grows, db
<1>2. PolicyInv' /\ LifecycleOrder' /\ CancelledAtBirth' /\ LinkIsExplained'
  BY LinksStay DEF IInv, PolicyInv, LifecycleOrder, CancelledAtBirth, db
<1>3. LockInv'
  <2>1. ASSUME NEW q \in Requests, staged[q] # NoRow
        PROVE  pc'[q] # "idle" /\ tx'[q] = "open" /\ req'[q] = req[q]
    BY <2>1 DEF IInv, LockInv, Same
  <2>2. QED
    BY <2>1 DEF IInv, LockInv, db
<1>4. ASSUME NEW q \in Requests
      PROVE  RequestInv(q)'
  BY <1>1, Frame DEF IInv, LockInv, db
<1>5. QED
  BY <1>2, <1>3, <1>4 DEF IInv

\* The caches stay good while the table grows and no entry is added.
LEMMA CachesStay ==
  ASSUME CacheInv, Grows,
         \A w \in Workers, p \in Policies : cache'[w][p] \in {cache[w][p], NoRow}
  PROVE  CacheInv'
BY CopyStays DEF CacheInv

-----------------------------------------------------------------------------
(* One lemma per action.                                                   *)

\* What is known of a request that is being handled.
LEMMA Handled ==
  ASSUME IInv, NEW r \in Requests, pc[r] # "idle"
  PROVE  /\ req[r] # NoRequest
         /\ req[r].policy \in Policies
         /\ req[r].kind \in {"create", "update", "read"}
         /\ Home[r] \in Workers
<1>1. req[r] # NoRequest
  BY DEF IInv, RequestInv, ControlInv
<1>2. Home[r] \in Workers
  BY ConstantsAssumption
<1>3. QED
  BY <1>1, <1>2, RequestType DEF IInv

LEMMA LookupHitStep ==
  ASSUME IInv, NEW r \in Requests, LookupHit(r)
  PROVE  IInv'
<1>1. pc[r] = "lookup"
  BY DEF LookupHit
<1>2. Cached(r) \in Row /\ Copy(Cached(r), req[r].policy)
  BY <1>1, Handled DEF IInv, CacheInv, LookupHit, Cached, TypeOK
<1>3. TypeOK'
  BY <1>2 DEF IInv, TypeOK, LookupHit, Goto, Await, db, carrier
<1>4. RequestInv(r)'
  BY <1>1, <1>2, Handled DEF IInv, TypeOK, RequestInv, ControlInv, SeenInv, UpdInv,
     InstInv, StagedInv, Copy, LookupHit, Goto, db, carrier
<1>5. CacheInv' /\ ToldOfBound'
  BY DEF IInv, CacheInv, Copy, ToldOfBound, LookupHit, db, carrier
<1>6. QED
  BY <1>3, <1>4, <1>5, LocalStep
     DEF LookupHit, Goto, Same, IInv, TypeOK, RequestInv, StagedInv, db, carrier

\* An empty slot satisfies its invariant.
LEMMA EmptySlot ==
  ASSUME NEW q \in Requests, pc'[q] = "idle", req'[q] = NoRequest, seen'[q] = NoRow,
         staged'[q] = NoRow
  PROVE  RequestInv(q)'
BY DEF RequestInv, ControlInv, SeenInv, UpdInv, InstInv, StagedInv

\* An exception: whatever the carrier made of the call that failed.
LEMMA ThrowStep ==
  ASSUME IInv, NEW r \in Requests, pc[r] # "idle", Throw(r),
         issued' \in [Policies -> Nat], \A p \in Policies : issued[p] <= issued'[p],
         told' \in [Policies -> [risk : BOOLEAN, doc : BOOLEAN] \cup {NoRow}],
         ToldOfBound'
  PROVE  IInv'
<1>1. NoUpdate \in Update
  BY DEF NoUpdate, Update
<1>2. TypeOK'
  BY <1>1 DEF IInv, TypeOK, Throw, Goto, Await, db
<1>3. RequestInv(r)'
  BY Handled DEF IInv, TypeOK, RequestInv, ControlInv, SeenInv, UpdInv, InstInv,
     StagedInv, NoUpdate, Reachable, Throw, Goto, db
<1>4. CacheInv'
  BY DEF IInv, CacheInv, Copy, Throw, db
<1>5. QED
  BY <1>2, <1>3, <1>4, LocalStep DEF IInv, TypeOK, LockInv, Throw, Goto, Same, db

\* An exception that the carrier had no part in.
LEMMA QuietThrowStep ==
  ASSUME IInv, NEW r \in Requests, pc[r] # "idle", Throw(r), UNCHANGED carrier
  PROVE  IInv'
<1>1. ToldOfBound'
  BY DEF IInv, ToldOfBound, Throw, db, carrier
<1>2. QED
  BY <1>1, ThrowStep DEF IInv, TypeOK, carrier

\* Handlers end, by returning, rolling back or dying, and leave nothing.
LEMMA EndStep ==
  ASSUME IInv, NEW R \in SUBSET Requests, Leave(R), Discard(R), UNCHANGED carrier,
         cache' \in [Workers -> [Policies -> Row \cup {NoRow}]], CacheInv'
  PROVE  IInv'
<1>1. TypeOK'
  <2>1. NoUpdate \in Update /\ 0 \in Nat
    BY DEF NoUpdate, Update
  <2>2. QED
    BY <2>1 DEF IInv, TypeOK, Leave, Discard, Await, carrier
<1>2. Grows
  BY DEF IInv, TypeOK, Grows, Discard, carrier
<1>3. PolicyInv' /\ LifecycleOrder' /\ CancelledAtBirth' /\ LinkIsExplained' /\ ToldOfBound'
  BY DEF IInv, PolicyInv, LifecycleOrder, CancelledAtBirth, LinkIsExplained, ToldOfBound, Discard, carrier
<1>4. LockInv'
  <2>1. ASSUME NEW q \in Requests, staged'[q] # NoRow
        PROVE  pc'[q] # "idle" /\ tx'[q] = "open" /\ lock'[req'[q].policy] = q
    <3>1. q \notin R /\ staged[q] # NoRow /\ pc[q] # "idle"
      BY <2>1 DEF IInv, LockInv, Discard
    <3>2. req[q].policy \in Policies
      BY <3>1, Handled
    <3>3. QED
      BY <3>1, <3>2 DEF IInv, LockInv, Leave, Discard
  <2>2. ASSUME NEW q \in Requests, NEW p \in Policies, lock'[p] = q
        PROVE  staged'[q] # NoRow /\ req'[q].policy = p
    <3>1. lock[p] = q /\ q \notin R
      BY <2>2, ConstantsAssumption DEF Discard
    <3>2. QED
      BY <3>1 DEF IInv, LockInv, Leave, Discard
  <2>3. QED
    BY <2>1, <2>2 DEF LockInv
<1>5. ASSUME NEW q \in Requests
      PROVE  RequestInv(q)'
  <2>1. CASE q \in R
    BY <2>1, EmptySlot DEF Leave, Discard
  <2>2. CASE q \notin R
    BY <1>1, <1>2, <2>2, Frame DEF IInv, LockInv, Same, Leave, Discard
  <2>3. QED
    BY <2>1, <2>2
<1>6. QED
  BY <1>1, <1>3, <1>4, <1>5 DEF IInv

\* A read ends: it holds no lock and has written nothing to discard.
LEMMA ReadEndStep ==
  ASSUME IInv, NEW r \in Requests, req[r].kind = "read", Leave({r}),
         UNCHANGED <<db, cache, carrier>>
  PROVE  IInv'
<1>1. staged[r] = NoRow
  BY DEF IInv, RequestInv, StagedInv
<1>2. Discard({r})
  BY <1>1 DEF IInv, TypeOK, LockInv, Discard, db
<1>3. CacheInv'
  BY DEF IInv, CacheInv, Copy, db
<1>4. QED
  BY <1>2, <1>3, EndStep DEF IInv, TypeOK

LEMMA BeginCreateStep ==
  ASSUME IInv, NEW r \in Requests, BeginCreate(r)
  PROVE  IInv'
<1>1. PICK p \in Policies, d \in Drafts :
        /\ pc[r] = "idle"
        /\ req' = [req EXCEPT ![r] = [kind |-> "create", policy |-> p]]
        /\ inst' = [inst EXCEPT ![r] = d]
        /\ left' = [left EXCEPT ![r] = MaxRetries]
        /\ tx' = [tx EXCEPT ![r] = "open"]
        /\ Goto(r, "insert")
        /\ UNCHANGED <<db, cache, carrier, upd, seen>>
  BY DEF BeginCreate
<1>2. d \in Row /\ d # NoRow /\ MaxRetries \in Nat
  BY ConstantsAssumption, AbsentAssumption
<1>3. [kind |-> "create", policy |-> p] \in Request
  BY DEF Request
<1>4. [kind |-> "create", policy |-> p] # NoRequest
  BY ConstantsAssumption
<1>5. staged[r] = NoRow /\ seen[r] = NoRow
  BY <1>1 DEF IInv, LockInv, RequestInv, SeenInv
<1>6. TypeOK'
  BY <1>1, <1>2, <1>3 DEF IInv, TypeOK, Goto, Await, db, carrier
<1>7. RequestInv(r)'
  BY <1>1, <1>2, <1>4, <1>5 DEF IInv, TypeOK, RequestInv, ControlInv, SeenInv, UpdInv,
     InstInv, StagedInv, Goto, db
<1>8. CacheInv' /\ ToldOfBound'
  BY <1>1 DEF IInv, CacheInv, Copy, ToldOfBound, db, carrier
<1>9. QED
  BY <1>1, <1>5, <1>6, <1>7, <1>8, LocalStep DEF IInv, TypeOK, Goto, Same, db, carrier

LEMMA BeginUpdateStep ==
  ASSUME IInv, NEW r \in Requests, BeginUpdate(r)
  PROVE  IInv'
<1>1. PICK p \in Policies, u \in Updates :
        /\ pc[r] = "idle"
        /\ req' = [req EXCEPT ![r] = [kind |-> "update", policy |-> p]]
        /\ upd' = [upd EXCEPT ![r] = u]
        /\ tx' = [tx EXCEPT ![r] = "open"]
        /\ Goto(r, "lookup")
        /\ UNCHANGED <<db, cache, carrier, seen, inst, left>>
  BY DEF BeginUpdate
<1>2. u \in Update /\ u.link \in {Keep} \cup BroughtLinks
  BY ConstantsAssumption DEF BroughtLinks
<1>3. [kind |-> "update", policy |-> p] \in Request
  BY DEF Request
<1>4. [kind |-> "update", policy |-> p] # NoRequest
  BY ConstantsAssumption
<1>5. staged[r] = NoRow /\ seen[r] = NoRow
  BY <1>1 DEF IInv, LockInv, RequestInv, SeenInv
<1>6. TypeOK'
  BY <1>1, <1>2, <1>3 DEF IInv, TypeOK, Goto, Await, db, carrier
<1>7. RequestInv(r)'
  BY <1>1, <1>2, <1>4, <1>5 DEF IInv, TypeOK, RequestInv, ControlInv, SeenInv, UpdInv,
     InstInv, StagedInv, Goto, db
<1>8. CacheInv' /\ ToldOfBound'
  BY <1>1 DEF IInv, CacheInv, Copy, ToldOfBound, db, carrier
<1>9. QED
  BY <1>1, <1>5, <1>6, <1>7, <1>8, LocalStep DEF IInv, TypeOK, Goto, Same, db, carrier

LEMMA BeginReadStep ==
  ASSUME IInv, NEW r \in Requests, BeginRead(r)
  PROVE  IInv'
<1>1. PICK p \in Policies :
        /\ pc[r] = "idle"
        /\ req' = [req EXCEPT ![r] = [kind |-> "read", policy |-> p]]
        /\ Goto(r, "lookup")
        /\ UNCHANGED <<db, cache, carrier, locals, tx>>
  BY DEF BeginRead
<1>2. [kind |-> "read", policy |-> p] \in Request
  BY DEF Request
<1>3. [kind |-> "read", policy |-> p] # NoRequest
  BY ConstantsAssumption
<1>4. staged[r] = NoRow /\ seen[r] = NoRow
  BY <1>1 DEF IInv, LockInv, RequestInv, SeenInv
<1>5. TypeOK'
  BY <1>1, <1>2 DEF IInv, TypeOK, Goto, Await, db, carrier, locals
<1>6. RequestInv(r)'
  BY <1>1, <1>3, <1>4 DEF IInv, TypeOK, RequestInv, ControlInv, SeenInv, UpdInv,
     InstInv, StagedInv, Goto, db, locals
<1>7. CacheInv' /\ ToldOfBound'
  BY <1>1 DEF IInv, CacheInv, Copy, ToldOfBound, db, carrier
<1>8. QED
  BY <1>1, <1>4, <1>5, <1>6, <1>7, LocalStep
     DEF IInv, TypeOK, Goto, Same, db, carrier, locals

LEMMA LookupMissStep ==
  ASSUME IInv, NEW r \in Requests, LookupMiss(r)
  PROVE  IInv'
<1>1. pc[r] = "lookup" /\ seen[r] = NoRow
  BY DEF IInv, RequestInv, SeenInv, LookupMiss
<1>2. TypeOK'
  BY DEF IInv, TypeOK, LookupMiss, Goto, Await, db, carrier, locals
<1>3. RequestInv(r)'
  BY <1>1, Handled DEF IInv, TypeOK, RequestInv, ControlInv, SeenInv, UpdInv, InstInv,
     StagedInv, LookupMiss, Goto, db, carrier, locals
<1>4. CacheInv' /\ ToldOfBound'
  BY DEF IInv, CacheInv, Copy, ToldOfBound, LookupMiss, db, carrier
<1>5. QED
  BY <1>2, <1>3, <1>4, LocalStep
     DEF LookupMiss, Goto, Same, IInv, TypeOK, RequestInv, StagedInv, db, carrier, locals

LEMMA QueryStep ==
  ASSUME IInv, NEW r \in Requests, Query(r)
  PROVE  IInv'
<1> DEFINE p == req[r].policy
<1>1. pc[r] = "query" /\ p \in Policies /\ row[p] \in Row
  BY Handled DEF IInv, TypeOK, Query, Found
<1>2. /\ Masked(row[p]) \in Row
      /\ Masked(row[p]) # NoRow
      /\ Copy(Masked(row[p]), p)
  BY <1>1, MaskedRow, AbsentAssumption DEF IInv, PolicyInv, LinkIsExplained, Copy
<1>3. TypeOK'
  BY <1>2 DEF IInv, TypeOK, Query, Found, Goto, Await, db, carrier
<1>4. RequestInv(r)'
  BY <1>1, <1>2, Handled DEF IInv, TypeOK, RequestInv, ControlInv, SeenInv, UpdInv,
     InstInv, StagedInv, Copy, Query, Found, Goto, db, carrier
<1>5. CacheInv' /\ ToldOfBound'
  BY DEF IInv, CacheInv, Copy, ToldOfBound, Query, db, carrier
<1>6. QED
  BY <1>1, <1>3, <1>4, <1>5, LocalStep
     DEF Query, Goto, Same, IInv, TypeOK, RequestInv, StagedInv, db, carrier

LEMMA QueryNoneStep ==
  ASSUME IInv, NEW r \in Requests, QueryNone(r)
  PROVE  IInv'
<1>1. pc[r] # "idle"
  BY DEF QueryNone
<1>2. CASE Throw(r)
  BY <1>1, <1>2, QuietThrowStep DEF QueryNone
<1>3. CASE req[r].kind = "read" /\ Leave({r}) /\ UNCHANGED <<db, cache>>
  BY <1>3, ReadEndStep DEF QueryNone
<1>4. QED
  BY <1>2, <1>3 DEF QueryNone

LEMMA FillStep ==
  ASSUME IInv, NEW r \in Requests, Fill(r)
  PROVE  IInv'
<1> DEFINE p == req[r].policy
<1>1. pc[r] = "fill" /\ p \in Policies /\ Home[r] \in Workers
  BY Handled DEF Fill
<1>2. seen[r] \in Row /\ Copy(seen[r], p) /\ staged[r] = NoRow
  BY <1>1 DEF IInv, TypeOK, RequestInv, SeenInv, StagedInv
<1>3. TypeOK'
  BY <1>1, <1>2 DEF IInv, TypeOK, Fill, Goto, Await, db, carrier, locals
<1>4. RequestInv(r)'
  BY <1>1, <1>2 DEF IInv, TypeOK, RequestInv, ControlInv, SeenInv, UpdInv,
     InstInv, StagedInv, Copy, Fill, Goto, db, carrier, locals
<1>5. CacheInv'
  BY <1>1, <1>2 DEF IInv, TypeOK, CacheInv, Copy, Fill, db
<1>6. ToldOfBound'
  BY DEF IInv, ToldOfBound, Fill, db, carrier
<1>7. QED
  BY <1>2, <1>3, <1>4, <1>5, <1>6, LocalStep
     DEF Fill, Goto, Same, IInv, TypeOK, db, carrier, locals

LEMMA ReturnReadStep ==
  ASSUME IInv, NEW r \in Requests, ReturnRead(r)
  PROVE  IInv'
BY ReadEndStep DEF ReturnRead

LEMMA RefuseStep ==
  ASSUME IInv, NEW r \in Requests, Refuse(r)
  PROVE  IInv'
BY QuietThrowStep DEF Refuse

LEMMA LoadFailsStep ==
  ASSUME IInv, NEW r \in Requests, LoadFails(r)
  PROVE  IInv'
BY QuietThrowStep DEF LoadFails

LEMMA SaveFailsStep ==
  ASSUME IInv, NEW r \in Requests, SaveFails(r)
  PROVE  IInv'
BY QuietThrowStep DEF SaveFails

LEMMA InsertFailsStep ==
  ASSUME IInv, NEW r \in Requests, InsertFails(r)
  PROVE  IInv'
BY QuietThrowStep DEF InsertFails

LEMMA CommitFailsStep ==
  ASSUME IInv, NEW r \in Requests, CommitFails(r)
  PROVE  IInv'
BY QuietThrowStep DEF CommitFails

LEMMA LoadStep ==
  ASSUME IInv, NEW r \in Requests, Load(r)
  PROVE  IInv'
<1> DEFINE p == req[r].policy
<1>1. pc[r] = "load" /\ p \in Policies /\ req[r].kind \in {"create", "update"}
  BY Handled DEF Load
<1>2. ASSUME req[r].kind = "create"
      PROVE  Visible(r) \in Row /\ Visible(r) = staged[r]
  BY <1>1, <1>2 DEF IInv, TypeOK, RequestInv, StagedInv, Load, Visible
<1>3. ASSUME req[r].kind = "update"
      PROVE  /\ Visible(r) \in Row /\ Visible(r) = row[p] /\ staged[r] = NoRow
             /\ Copy(seen[r], p)
  BY <1>1, <1>3 DEF IInv, TypeOK, RequestInv, StagedInv, SeenInv, Load, Visible, Copy
<1>4. ASSUME req[r].kind = "update", upd[r].status # Keep
      PROVE  Reachable(p, upd[r].status)
  <2>1. Permitted(seen[r], upd[r].status)
    BY <1>4 DEF Load, MayProceed
  <2>2. QED
    BY <1>3, <1>4, <2>1 DEF Permitted, Copy, Reachable
<1>5. Visible(r) \in Row /\ Visible(r) # NoRow
  BY <1>1, <1>2, <1>3, AbsentAssumption
<1>6. TypeOK'
  BY <1>5 DEF IInv, TypeOK, Load, Goto, Await, db, carrier
<1>7. RequestInv(r)'
  <2>1. ControlInv(r)' /\ SeenInv(r)'
    BY <1>1 DEF IInv, TypeOK, RequestInv, ControlInv, SeenInv, Load, Goto
  <2>2. UpdInv(r)'
    BY <1>1, <1>4 DEF IInv, TypeOK, RequestInv, UpdInv, Reachable, Load, Goto, db, carrier
  <2>3. InstInv(r)'
    BY <1>1, <1>2, <1>3, <1>5 DEF IInv, TypeOK, PolicyInv, InstInv, Load, Goto, db
  <2>4. StagedInv(r)'
    BY <1>1, <1>3 DEF IInv, TypeOK, RequestInv, StagedInv, Reachable, Load, Goto, db, carrier
  <2>5. QED
    BY <2>1, <2>2, <2>3, <2>4 DEF RequestInv
<1>8. CacheInv' /\ ToldOfBound'
  BY DEF IInv, CacheInv, Copy, ToldOfBound, Load, db, carrier
<1>9. QED
  BY <1>6, <1>7, <1>8, LocalStep DEF Load, Goto, Same, IInv, TypeOK, LockInv, db, carrier

\* What a request that is about to save will have assigned.
LEMMA SavedInstance ==
  ASSUME IInv, NEW r \in Requests, pc[r] = "save"
  PROVE  /\ inst[r] \in Row /\ upd[r] \in Update
         /\ Assigned(r) \in Row
         /\ req[r].policy \in Policies
         /\ req[r].kind \in {"create", "update"}
<1>1. inst[r] \in Row /\ upd[r] \in Update
  BY DEF IInv, TypeOK, RequestInv, InstInv
<1>2. req[r].kind \in {"create", "update"}
  BY DEF IInv, RequestInv, ControlInv
<1>3. QED
  BY <1>1, <1>2, Handled, AssignedRow DEF Assigned

\* A create request saves a row linked to an issued policy and not in force.
LEMMA SavedByCreate ==
  ASSUME IInv, NEW r \in Requests, pc[r] = "save", req[r].kind = "create",
         Validates(Assigned(r))
  PROVE  /\ Assigned(r).link \in 1..issued[req[r].policy]
         /\ Assigned(r).status \in Ledger!BirthStatus
         /\ ~Assigned(r).uw.notes
         /\ staged[r] = inst[r]
         /\ row[req[r].policy] = NoRow
<1>1. /\ upd[r].link \in 1..issued[req[r].policy]
      /\ upd[r].status \in Status \ {"EXPIRED"}
      /\ upd[r].uw = Keep
  BY DEF IInv, RequestInv, UpdInv
<1>2. /\ staged[r] = inst[r] /\ staged[r] \in Row
      /\ row[req[r].policy] = NoRow /\ ~staged[r].uw.notes
  BY AbsentAssumption, SavedInstance DEF IInv, TypeOK, RequestInv, InstInv, StagedInv
<1>3. upd[r].link # Keep /\ upd[r].status # Keep
  <2>1. issued[req[r].policy] \in Nat
    BY SavedInstance DEF IInv, TypeOK
  <2>2. upd[r].link \in Nat
    BY <1>1, <2>1
  <2>3. QED
    BY <1>1, <2>2, AbsentAssumption
<1>4. /\ Assigned(r).status = upd[r].status
      /\ Assigned(r).uw = inst[r].uw
      /\ Assigned(r).link = upd[r].link
  BY <1>1, <1>3, SavedInstance, AssignedRow DEF Assigned, Given
<1>5. QED
  BY <1>1, <1>2, <1>4 DEF Validates, Ledger!BirthStatus, Status

\* An update saves the link it found or brought, and a status it may give.
LEMMA SavedByUpdate ==
  ASSUME IInv, NEW r \in Requests, pc[r] = "save", req[r].kind = "update",
         Validates(Assigned(r))
  PROVE  LET p == req[r].policy
             a == Assigned(r)
         IN  /\ row[p] # NoRow /\ staged[r] = NoRow
             /\ a.link \in {inst[r].link} \cup BroughtLinks
             /\ a.status = inst[r].status \/ Reachable(p, a.status)
             /\ a.status = "ACTIVE" => a.uw.risk /\ "BOUND" \in held[p]
<1> DEFINE p == req[r].policy
<1>1. /\ row[p] # NoRow /\ staged[r] = NoRow /\ inst[r].status \in held[p]
      /\ upd[r].link \in {Keep} \cup BroughtLinks
      /\ upd[r].status = Keep \/ Reachable(p, upd[r].status)
  BY DEF IInv, RequestInv, InstInv, UpdInv, StagedInv
<1>2. /\ Assigned(r).status = Given(upd[r].status, inst[r].status)
      /\ Assigned(r).link \in {inst[r].link} \cup BroughtLinks
  BY <1>1, SavedInstance, AssignedRow DEF Assigned, Given
<1>3. Assigned(r).status = inst[r].status \/ Reachable(p, Assigned(r).status)
  BY <1>1, <1>2 DEF Given
<1>4. Assigned(r).status = "ACTIVE" => "BOUND" \in held[p]
  BY <1>1, <1>3, SavedInstance, TransitionTable DEF IInv, LifecycleOrder, Reachable
<1>5. QED
  BY <1>1, <1>2, <1>3, <1>4 DEF Validates

LEMMA SaveNothingStep ==
  ASSUME IInv, NEW r \in Requests, SaveNothing(r)
  PROVE  IInv'
<1> DEFINE p == req[r].policy
<1>1. /\ pc[r] = "save" /\ Validates(Assigned(r)) /\ Assigned(r) = inst[r]
      /\ req[r].kind \in {"create", "update"} /\ p \in Policies
  BY SavedInstance DEF SaveNothing
<1>2. NoUpdate \in Update /\ NoUpdate.link = Keep
  BY DEF NoUpdate, Update
<1>3. ASSUME req[r].kind = "update"
      PROVE  /\ staged[r] = NoRow
             /\ inst[r].status = "ACTIVE" => inst[r].uw.risk /\ "BOUND" \in held[p]
  BY <1>1, <1>3, SavedByUpdate
<1>4. ASSUME req[r].kind = "create"
      PROVE  /\ staged[r].link \in 1..issued[p] /\ staged[r].status \in Ledger!BirthStatus
             /\ ~staged[r].uw.notes /\ row[p] = NoRow
  BY <1>1, <1>4, SavedByCreate
<1>5. TypeOK'
  BY <1>2 DEF IInv, TypeOK, SaveNothing, Goto, Await, db, carrier
<1>6. RequestInv(r)'
  <2>1. ControlInv(r)' /\ SeenInv(r)' /\ UpdInv(r)'
    BY <1>1, <1>2, Handled
       DEF IInv, TypeOK, RequestInv, ControlInv, SeenInv, UpdInv, SaveNothing, Goto
  <2>2. InstInv(r)'
    BY <1>1, <1>3 DEF IInv, TypeOK, RequestInv, InstInv, SaveNothing, Goto, db
  <2>3. StagedInv(r)'
    BY <1>1, <1>3, <1>4 DEF IInv, TypeOK, StagedInv, SaveNothing, Goto, db, carrier
  <2>4. QED
    BY <2>1, <2>2, <2>3 DEF RequestInv
<1>7. CacheInv' /\ ToldOfBound'
  BY DEF IInv, CacheInv, Copy, ToldOfBound, SaveNothing, db, carrier
<1>8. QED
  BY <1>5, <1>6, <1>7, LocalStep
     DEF SaveNothing, Goto, Same, IInv, TypeOK, LockInv, db, carrier

LEMMA EvictStep ==
  ASSUME IInv, NEW r \in Requests, Evict(r)
  PROVE  IInv'
<1> DEFINE p == req[r].policy
<1>1. pc[r] = "evict" /\ p \in Policies /\ Home[r] \in Workers
  BY Handled DEF Evict
<1>2. TypeOK'
  BY <1>1 DEF IInv, TypeOK, Evict, SyncsToCarrier, Goto, Await, db, carrier
<1>3. RequestInv(r)'
  <2>1. ControlInv(r)' /\ SeenInv(r)' /\ UpdInv(r)'
    BY <1>1, Handled DEF IInv, TypeOK, RequestInv, ControlInv, SeenInv, UpdInv, Evict,
       SyncsToCarrier, Goto
  <2>2. InstInv(r)'
    BY <1>1 DEF IInv, TypeOK, RequestInv, InstInv, Evict, SyncsToCarrier, Goto, db
  <2>3. StagedInv(r)'
    BY <1>1 DEF IInv, TypeOK, RequestInv, StagedInv, Reachable, Evict, SyncsToCarrier,
       Goto, db, carrier
  <2>4. QED
    BY <2>1, <2>2, <2>3 DEF RequestInv
<1>4. CacheInv'
  <2>1. Grows
    BY DEF IInv, TypeOK, Grows, Evict, db, carrier
  <2>2. ASSUME NEW w \in Workers, NEW q \in Policies
        PROVE  cache'[w][q] \in {cache[w][q], NoRow}
    BY <1>1 DEF IInv, TypeOK, Evict
  <2>3. QED
    BY <2>1, <2>2, CachesStay DEF IInv
<1>5. ToldOfBound'
  BY DEF IInv, ToldOfBound, Evict, db, carrier
<1>6. /\ UNCHANGED db /\ \A q \in Policies : issued[q] <= issued'[q]
      /\ \A q \in Requests \ {r} : Same(q)
      /\ staged[r] # NoRow => pc'[r] # "idle" /\ req'[r] = req[r] /\ tx'[r] = "open"
  BY DEF Evict, SyncsToCarrier, Goto, Same, IInv, TypeOK, LockInv, db, carrier
<1>7. QED
  BY <1>2, <1>3, <1>4, <1>5, <1>6, LocalStep

\* A statement that writes a row takes its lock, which nobody else holds.
LEMMA WriteStep ==
  ASSUME IInv, TypeOK', NEW r \in Requests, pc[r] # "idle", tx[r] = "open",
         NEW image, image # NoRow,
         lock[req[r].policy] \in {Free, r},
         lock' = [lock EXCEPT ![req[r].policy] = r],
         staged' = [staged EXCEPT ![r] = image],
         UNCHANGED <<row, held, links, cache, carrier, req, tx>>,
         pc'[r] # "idle", \A q \in Requests \ {r} : Same(q),
         RequestInv(r)'
  PROVE  IInv'
<1> DEFINE p == req[r].policy
<1>1. p \in Policies
  BY Handled
<1>2. Grows
  BY DEF IInv, TypeOK, Grows, carrier
<1>3. PolicyInv' /\ LifecycleOrder' /\ CancelledAtBirth' /\ LinkIsExplained' /\ ToldOfBound' /\ CacheInv'
  BY DEF IInv, PolicyInv, LifecycleOrder, CancelledAtBirth, LinkIsExplained, ToldOfBound, CacheInv, Copy,
     carrier
<1>4. LockInv'
  <2>1. ASSUME NEW q \in Requests \ {r}
        PROVE  /\ staged'[q] # NoRow =>
                    pc'[q] # "idle" /\ tx'[q] = "open" /\ lock'[req'[q].policy] = q
               /\ \A a \in Policies : lock'[a] = q => staged'[q] # NoRow /\ req'[q].policy = a
    <3>1. staged[q] # NoRow => req[q].policy \in Policies /\ req[q].policy # p
      BY Handled, ConstantsAssumption DEF IInv, LockInv
    <3>2. QED
      BY <1>1, <3>1 DEF IInv, TypeOK, LockInv, Same
  <2>2. /\ staged'[r] # NoRow =>
             pc'[r] # "idle" /\ tx'[r] = "open" /\ lock'[req'[r].policy] = r
        /\ \A a \in Policies : lock'[a] = r => staged'[r] # NoRow /\ req'[r].policy = a
    BY <1>1 DEF IInv, TypeOK, LockInv
  <2>3. QED
    BY <2>1, <2>2 DEF LockInv
<1>5. ASSUME NEW q \in Requests \ {r}
      PROVE  RequestInv(q)'
  BY <1>2, Frame DEF IInv, LockInv
<1>6. QED
  BY <1>3, <1>4, <1>5 DEF IInv

LEMMA SaveStep ==
  ASSUME IInv, NEW r \in Requests, Save(r)
  PROVE  IInv'
<1> DEFINE p == req[r].policy
           image == WriteColumns(Visible(r), inst[r], Assigned(r))
<1>1. /\ pc[r] = "save" /\ p \in Policies /\ req[r].kind \in {"create", "update"}
      /\ inst[r] \in Row /\ Assigned(r) \in Row /\ Validates(Assigned(r))
  BY SavedInstance DEF Save
<1>2. ASSUME req[r].kind = "create"
      PROVE  image = Assigned(r)
  BY <1>1, <1>2, SavedByCreate, WrittenRow, AbsentAssumption DEF Visible
<1>3. ASSUME req[r].kind = "update"
      PROVE  /\ image \in Row /\ image.link \in {row[p].link} \cup BroughtLinks
             /\ image.status = row[p].status \/ Reachable(p, image.status)
  <2>1. Visible(r) = row[p] /\ row[p] \in Row
    BY <1>1, <1>3, SavedByUpdate DEF Visible, IInv, TypeOK
  <2>2. /\ image \in Row
        /\ image.status = Changed(Assigned(r).status, inst[r].status, row[p].status)
        /\ image.link = Changed(Assigned(r).link, inst[r].link, row[p].link)
    BY <1>1, <2>1, WrittenRow
  <2>3. QED
    BY <1>1, <1>3, <2>2, SavedByUpdate DEF Changed
<1>4. image \in Row /\ image # NoRow
  BY <1>1, <1>2, <1>3, AbsentAssumption
<1>5. NoUpdate \in Update /\ NoUpdate.link = Keep
  BY DEF NoUpdate, Update
<1>6. TypeOK'
  BY <1>1, <1>4, <1>5 DEF IInv, TypeOK, Save, Goto, Await, carrier
<1>7. RequestInv(r)'
  <2>1. ControlInv(r)' /\ SeenInv(r)' /\ UpdInv(r)'
    BY <1>1, <1>5, Handled
       DEF IInv, TypeOK, RequestInv, ControlInv, SeenInv, UpdInv, Save, Goto
  <2>2. InstInv(r)'
    BY <1>1, SavedByUpdate, AbsentAssumption DEF IInv, TypeOK, InstInv, Save, Goto
  <2>3. CASE req[r].kind = "create"
    <3>1. /\ image.link \in 1..issued[p] /\ image.status \in Ledger!BirthStatus
          /\ ~image.uw.notes /\ row[p] = NoRow
      BY <1>1, <1>2, <2>3, SavedByCreate
    <3>2. StagedInv(r)'
      BY <1>1, <2>3, <3>1 DEF IInv, TypeOK, StagedInv, Save, Goto, carrier
    <3>3. QED
      BY <2>1, <2>2, <3>2 DEF RequestInv
  <2>4. CASE req[r].kind = "update"
    <3>1. row[p] # NoRow
      BY <1>1, <2>4, SavedByUpdate
    <3>2. StagedInv(r)'
      BY <1>1, <1>3, <2>4, <3>1 DEF IInv, TypeOK, StagedInv, Reachable, Save, Goto
    <3>3. QED
      BY <2>1, <2>2, <3>2 DEF RequestInv
  <2>5. QED
    BY <1>1, <2>3, <2>4
<1>8. QED
  BY <1>1, <1>4, <1>6, <1>7, WriteStep DEF Save, Goto, Same, IInv, TypeOK, carrier

LEMMA InsertStep ==
  ASSUME IInv, NEW r \in Requests, Insert(r)
  PROVE  IInv'
<1> DEFINE p == req[r].policy
<1>1. pc[r] = "insert" /\ p \in Policies /\ tx[r] = "open" /\ req[r].kind = "create"
  BY Handled DEF IInv, RequestInv, ControlInv, Insert
<1>2. inst[r] \in Row
  BY <1>1 DEF IInv, TypeOK, RequestInv, InstInv
<1>3. /\ Masked(inst[r]) \in Row /\ Masked(inst[r]) # NoRow
      /\ ~Masked(inst[r]).uw.notes
  BY <1>2, MaskedRow, AbsentAssumption
<1>4. TypeOK'
  BY <1>1, <1>3 DEF IInv, TypeOK, Insert, Goto, Await, carrier
<1>5. RequestInv(r)'
  BY <1>1, <1>3, Handled DEF IInv, TypeOK, RequestInv, ControlInv, SeenInv, UpdInv,
     InstInv, StagedInv, Insert, Goto, carrier
<1>6. QED
  BY <1>1, <1>3, <1>4, <1>5, WriteStep DEF Insert, Goto, Same, IInv, TypeOK, carrier

\* A POST that may have reached OneShield: more policies issued, if any.
LEMMA IssueGrows ==
  ASSUME TypeOK, NEW p \in Policies, Issue(p) \/ UNCHANGED carrier
  PROVE  /\ issued' \in [Policies -> Nat]
         /\ \A q \in Policies : issued[q] <= issued'[q]
         /\ told' = told
<1>1. issued \in [Policies -> Nat]
  BY DEF TypeOK
<1>2. CASE Issue(p)
  BY <1>1, <1>2 DEF Issue
<1>3. CASE UNCHANGED carrier
  BY <1>1, <1>3 DEF carrier
<1>4. QED
  BY <1>2, <1>3

LEMMA Post1Step ==
  ASSUME IInv, NEW r \in Requests, Post1(r)
  PROVE  IInv'
<1>1. pc[r] = "post1" /\ req[r].policy \in Policies
  BY Handled DEF Post1
<1>2. /\ issued' \in [Policies -> Nat] /\ told' = told
      /\ \A q \in Policies : issued[q] <= issued'[q]
  BY <1>1, IssueGrows DEF Post1, IInv
<1>3. TypeOK'
  BY <1>2 DEF IInv, TypeOK, Post1, Goto, Await, db, locals
<1>4. RequestInv(r)'
  BY <1>1, Handled DEF IInv, TypeOK, RequestInv, ControlInv, SeenInv, UpdInv,
     InstInv, StagedInv, Post1, Goto, db, locals
<1>5. CacheInv' /\ ToldOfBound'
  BY <1>2 DEF IInv, CacheInv, Copy, ToldOfBound, Post1, db
<1>6. QED
  BY <1>2, <1>3, <1>4, <1>5, LocalStep
     DEF Post1, Goto, Same, IInv, TypeOK, LockInv, db, locals

LEMMA Post2Step ==
  ASSUME IInv, NEW r \in Requests, Post2(r)
  PROVE  IInv'
<1> DEFINE p == req[r].policy
<1>1. pc[r] = "post2" /\ p \in Policies /\ req[r].kind = "create"
  BY Handled DEF IInv, RequestInv, ControlInv, Post2
<1>2. PICK s \in Answers :
        upd' = [upd EXCEPT ![r] = [status |-> MapOneShieldStatus(s), uw |-> Keep,
                                   doc |-> Keep, link |-> issued[p] + 1]]
  BY DEF Post2
<1>3. MapOneShieldStatus(s) \in Status \ {"EXPIRED"}
  BY MappedStatus, ConstantsAssumption
<1>4. /\ issued' \in [Policies -> Nat] /\ told' = told
      /\ \A q \in Policies : issued[q] <= issued'[q]
  BY <1>1, IssueGrows DEF Post2, IInv
<1>5. issued[p] \in Nat /\ issued'[p] = issued[p] + 1
  BY <1>1 DEF IInv, TypeOK, Post2, Issue
<1>6. /\ upd'[r] \in Update /\ upd'[r].link \in 1..issued'[p]
      /\ upd'[r].status \in Status \ {"EXPIRED"}
      /\ upd'[r].uw = Keep /\ upd'[r].doc = Keep
  BY <1>2, <1>3, <1>5 DEF IInv, TypeOK, Update
<1>7. TypeOK'
  BY <1>2, <1>4, <1>6 DEF IInv, TypeOK, Post2, Goto, Await, db
<1>8. RequestInv(r)'
  BY <1>1, <1>6, Handled DEF IInv, TypeOK, RequestInv, ControlInv, SeenInv, UpdInv,
     InstInv, StagedInv, Post2, Goto, db
<1>9. CacheInv' /\ ToldOfBound'
  BY <1>4 DEF IInv, CacheInv, Copy, ToldOfBound, Post2, db
<1>10. QED
  BY <1>2, <1>4, <1>7, <1>8, <1>9, LocalStep
     DEF Post2, Goto, Same, IInv, TypeOK, LockInv, db

LEMMA PostRetryStep ==
  ASSUME IInv, NEW r \in Requests, PostRetry(r)
  PROVE  IInv'
<1>1. pc[r] \in {"post1", "post2"} /\ req[r].policy \in Policies
  BY Handled DEF PostRetry
<1>2. /\ issued' \in [Policies -> Nat] /\ told' = told
      /\ \A q \in Policies : issued[q] <= issued'[q]
  BY <1>1, IssueGrows DEF PostRetry, IInv
<1>3. left' \in [Requests -> Nat]
  BY DEF IInv, TypeOK, PostRetry
<1>4. TypeOK'
  BY <1>2, <1>3 DEF IInv, TypeOK, PostRetry, Goto, Await, db
<1>5. RequestInv(r)'
  BY <1>1, Handled DEF IInv, TypeOK, RequestInv, ControlInv, SeenInv, UpdInv,
     InstInv, StagedInv, PostRetry, Goto, db
<1>6. CacheInv' /\ ToldOfBound'
  BY <1>2 DEF IInv, CacheInv, Copy, ToldOfBound, PostRetry, db
<1>7. QED
  BY <1>2, <1>4, <1>5, <1>6, LocalStep
     DEF PostRetry, Goto, Same, IInv, TypeOK, LockInv, db

LEMMA PostGivesUpStep ==
  ASSUME IInv, NEW r \in Requests, PostGivesUp(r)
  PROVE  IInv'
<1>1. pc[r] # "idle" /\ req[r].policy \in Policies
  BY Handled DEF PostGivesUp
<1>2. /\ issued' \in [Policies -> Nat] /\ told' = told
      /\ \A q \in Policies : issued[q] <= issued'[q]
  BY <1>1, IssueGrows DEF PostGivesUp, IInv
<1>3. ToldOfBound'
  BY <1>2 DEF IInv, ToldOfBound, PostGivesUp, Throw, db
<1>4. told' \in [Policies -> [risk : BOOLEAN, doc : BOOLEAN] \cup {NoRow}] /\ Throw(r)
  BY <1>2 DEF PostGivesUp, IInv, TypeOK
<1>5. QED
  BY <1>1, <1>2, <1>3, <1>4, ThrowStep

\* A PUT tells OneShield of a policy that has been bound and has a score.
LEMMA TellKeeps ==
  ASSUME IInv, NEW r \in Requests, pc[r] \in {"put1", "put2"},
         Tell(r) \/ UNCHANGED carrier, UNCHANGED held
  PROVE  /\ issued' = issued
         /\ told' \in [Policies -> [risk : BOOLEAN, doc : BOOLEAN] \cup {NoRow}]
         /\ ToldOfBound'
<1> DEFINE p == req[r].policy
<1>1. p \in Policies
  BY Handled
<1>2. inst[r] \in Row /\ inst[r].uw.risk /\ "BOUND" \in held[p]
  BY DEF IInv, TypeOK, RequestInv, ControlInv, InstInv
<1>3. CarrierView(inst[r]) \in [risk : BOOLEAN, doc : BOOLEAN] /\ CarrierView(inst[r]).risk
  BY <1>2 DEF CarrierView, Row, Underwriting
<1>4. CASE UNCHANGED carrier
  BY <1>4 DEF IInv, TypeOK, ToldOfBound, carrier
<1>5. CASE Tell(r)
  BY <1>1, <1>2, <1>3, <1>5 DEF IInv, TypeOK, ToldOfBound, Tell
<1>6. QED
  BY <1>4, <1>5

LEMMA PutStep ==
  ASSUME IInv, NEW r \in Requests, Put(r)
  PROVE  IInv'
<1>1. pc[r] \in {"put1", "put2"} /\ req[r].policy \in Policies
  BY Handled DEF Put
<1>2. /\ issued' = issued /\ ToldOfBound'
      /\ told' \in [Policies -> [risk : BOOLEAN, doc : BOOLEAN] \cup {NoRow}]
  BY <1>1, TellKeeps DEF Put, db
<1>3. TypeOK'
  BY <1>2 DEF IInv, TypeOK, Put, Goto, Await, db
<1>4. RequestInv(r)'
  <2>1. ControlInv(r)' /\ SeenInv(r)' /\ UpdInv(r)'
    BY <1>1, Handled DEF IInv, TypeOK, RequestInv, ControlInv, SeenInv, UpdInv, Put, Goto
  <2>2. InstInv(r)'
    BY <1>1 DEF IInv, TypeOK, RequestInv, InstInv, Put, Goto, db
  <2>3. StagedInv(r)'
    BY <1>1, <1>2 DEF IInv, TypeOK, RequestInv, ControlInv, StagedInv, Reachable, Put, Goto, db
  <2>4. QED
    BY <2>1, <2>2, <2>3 DEF RequestInv
<1>5. CacheInv'
  BY DEF IInv, CacheInv, Copy, Put, db
<1>6. /\ UNCHANGED db /\ \A q \in Policies : issued[q] <= issued'[q]
      /\ \A q \in Requests \ {r} : Same(q)
      /\ staged[r] # NoRow => pc'[r] # "idle" /\ req'[r] = req[r] /\ tx'[r] = "open"
  BY <1>2 DEF Put, Goto, Same, IInv, TypeOK, LockInv, db
<1>7. QED
  BY <1>2, <1>3, <1>4, <1>5, <1>6, LocalStep

LEMMA PutFailsStep ==
  ASSUME IInv, NEW r \in Requests, PutFails(r)
  PROVE  IInv'
<1>1. pc[r] \in {"put1", "put2"} /\ UNCHANGED held
  BY DEF PutFails, Throw, db
<1>2. /\ issued' = issued /\ ToldOfBound'
      /\ told' \in [Policies -> [risk : BOOLEAN, doc : BOOLEAN] \cup {NoRow}]
  BY <1>1, TellKeeps DEF PutFails
<1>3. issued' \in [Policies -> Nat] /\ \A q \in Policies : issued[q] <= issued'[q]
  BY <1>2 DEF IInv, TypeOK
<1>4. pc[r] # "idle" /\ Throw(r)
  BY <1>1 DEF PutFails
<1>5. QED
  BY <1>2, <1>3, <1>4, ThrowStep

\* What a request whose transaction has written is about to commit.
LEMMA CommittedRow ==
  ASSUME IInv, NEW r \in Requests, pc[r] = "commit", staged[r] # NoRow
  PROVE  LET p == req[r].policy IN
         /\ p \in Policies /\ staged[r] \in Row
         /\ \/ /\ row[p] = NoRow /\ staged[r].link \in 1..issued[p]
               /\ staged[r].status \in Ledger!BirthStatus
            \/ /\ row[p] # NoRow /\ staged[r].link \in {row[p].link} \cup BroughtLinks
               /\ staged[r].status = row[p].status \/ Reachable(p, staged[r].status)
<1> DEFINE p == req[r].policy
<1>1. p \in Policies /\ staged[r] \in Row /\ req[r].kind \in {"create", "update"}
  BY Handled DEF IInv, TypeOK, RequestInv, ControlInv
<1>2. CASE req[r].kind = "create"
  BY <1>1, <1>2 DEF IInv, RequestInv, StagedInv
<1>3. CASE req[r].kind = "update"
  BY <1>1, <1>3 DEF IInv, RequestInv, StagedInv
<1>4. QED
  BY <1>1, <1>2, <1>3

\* A commit gives a new policy its issued link, and an old one none but a
\* link it has had or one that was brought along.
LEMMA CommitKeepsLinks ==
  ASSUME IInv, NEW r \in Requests, pc[r] = "commit", staged[r] # NoRow,
         row' = [row EXCEPT ![req[r].policy] = staged[r]],
         links' = [links EXCEPT ![req[r].policy] = @ \cup {staged[r].link}],
         UNCHANGED issued
  PROVE  LinkIsExplained'
<1> DEFINE p == req[r].policy
           l == staged[r].link
<1>1. p \in Policies /\ links'[p] = links[p] \cup {l} /\ row'[p].link = l
  BY CommittedRow DEF IInv, TypeOK
<1>2. \A q \in Policies \ {p} : links'[q] = links[q] /\ row'[q] = row[q]
  BY CommittedRow DEF IInv, TypeOK
<1>3. \E n \in links'[p] \cap 1..issued[p] : links'[p] \subseteq {n} \cup BroughtLinks
  <2>1. CASE row[p] = NoRow
    <3>1. links'[p] = {l} /\ l \in 1..issued[p]
      BY <1>1, <2>1, CommittedRow, AbsentAssumption DEF IInv, PolicyInv
    <3>2. QED
      BY <3>1
  <2>2. CASE row[p] # NoRow
    <3>1. PICK n \in links[p] \cap 1..issued[p] : links[p] \subseteq {n} \cup BroughtLinks
      BY <1>1, <2>2 DEF IInv, LinkIsExplained
    <3>2. row[p].link \in links[p]
      BY <1>1, <2>2 DEF IInv, LinkIsExplained
    <3>3. l \in {n} \cup BroughtLinks
      BY <2>2, <3>1, <3>2, CommittedRow
    <3>4. QED
      BY <1>1, <3>1, <3>3
  <2>3. QED
    BY <2>1, <2>2
<1>4. QED
  BY <1>1, <1>2, <1>3 DEF IInv, LinkIsExplained

\* The order of statuses, and cancellation only at birth, survive a commit.
LEMMA CommitKeepsOrder ==
  ASSUME IInv, NEW r \in Requests, pc[r] = "commit", staged[r] # NoRow,
         row' = [row EXCEPT ![req[r].policy] = staged[r]],
         held' = [held EXCEPT ![req[r].policy] = @ \cup {staged[r].status}]
  PROVE  LifecycleOrder' /\ CancelledAtBirth'
<1> DEFINE p == req[r].policy
           s == staged[r].status
<1>1. p \in Policies /\ held'[p] = held[p] \cup {s} /\ row'[p].status = s
  BY CommittedRow DEF IInv, TypeOK
<1>2. \A q \in Policies \ {p} : held'[q] = held[q] /\ row'[q] = row[q]
  BY CommittedRow DEF IInv, TypeOK
<1>3. CASE row[p] = NoRow
  <2>1. held'[p] = {s} /\ s \in {"DRAFT", "QUOTED", "CANCELLED"}
    BY <1>1, <1>3, CommittedRow DEF IInv, PolicyInv, Ledger!BirthStatus
  <2>2. QED
    BY <1>1, <1>2, <2>1 DEF IInv, LifecycleOrder, CancelledAtBirth
<1>4. CASE row[p] # NoRow /\ s = row[p].status
  <2>1. s \in held[p]
    BY <1>1, <1>4 DEF IInv, PolicyInv
  <2>2. QED
    <3>1. held'[p] = held[p]
      BY <1>1, <2>1
    <3>2. QED
      BY <1>1, <1>2, <1>4, <2>1, <3>1 DEF IInv, LifecycleOrder, CancelledAtBirth
<1>5. CASE Reachable(p, s)
  <2>1. PICK t \in held[p] : <<t, s>> \in ValidTransitions
    BY <1>5 DEF Reachable
  <2>2. /\ s # "CANCELLED" /\ t # "CANCELLED"
        /\ s = "BOUND" => t = "QUOTED"
        /\ s = "ACTIVE" => t = "BOUND"
        /\ s = "EXPIRED" => t = "ACTIVE"
    BY <1>5, <2>1, TransitionTable DEF Reachable
  <2>3. "CANCELLED" \notin held'[p]
    BY <1>1, <2>1, <2>2 DEF IInv, CancelledAtBirth
  <2>4. /\ "EXPIRED" \in held'[p] => "ACTIVE" \in held'[p]
        /\ "ACTIVE" \in held'[p] => "BOUND" \in held'[p]
        /\ "BOUND" \in held'[p] => "QUOTED" \in held'[p]
    BY <1>1, <2>1, <2>2 DEF IInv, LifecycleOrder
  <2>5. QED
    BY <1>1, <1>2, <2>3, <2>4 DEF IInv, LifecycleOrder, CancelledAtBirth
<1>6. QED
  BY <1>3, <1>4, <1>5, CommittedRow

LEMMA CommitStep ==
  ASSUME IInv, NEW r \in Requests, Commit(r)
  PROVE  IInv'
<1> DEFINE p == req[r].policy
<1>1. pc[r] = "commit" /\ tx[r] = "open" /\ Leave({r}) /\ UNCHANGED <<cache, carrier>>
  BY DEF Commit
<1>2. CASE staged[r] = NoRow
  <2>1. CacheInv' /\ UNCHANGED <<row, held, links>>
    BY <1>1, <1>2 DEF IInv, CacheInv, Copy, Commit
  <2>2. Discard({r})
    BY <1>2, <2>1 DEF IInv, TypeOK, Discard, Commit
  <2>3. QED
    BY <1>1, <2>1, <2>2, EndStep DEF IInv, TypeOK
<1>3. CASE staged[r] # NoRow
  <2>1. /\ row' = [row EXCEPT ![p] = staged[r]]
        /\ held' = [held EXCEPT ![p] = @ \cup {staged[r].status}]
        /\ links' = [links EXCEPT ![p] = @ \cup {staged[r].link}]
        /\ staged' = [staged EXCEPT ![r] = NoRow]
        /\ lock' = [q \in Policies |-> IF lock[q] = r THEN Free ELSE lock[q]]
    BY <1>3 DEF Commit
  <2>2. /\ p \in Policies /\ staged[r] \in Row
        /\ staged[r].status \in Status /\ staged[r].link \in Nat
    BY <1>1, <1>3, CommittedRow DEF Row
  <2>3. TypeOK'
    <3>1. NoUpdate \in Update /\ 0 \in Nat
      BY DEF NoUpdate, Update
    <3>2. /\ row' \in [Policies -> Row \cup {NoRow}]
          /\ held' \in [Policies -> SUBSET Status]
          /\ links' \in [Policies -> SUBSET Nat]
          /\ lock' \in [Policies -> Requests \cup {Free}]
          /\ staged' \in [Requests -> Row \cup {NoRow}]
      BY <2>1, <2>2 DEF IInv, TypeOK
    <3>3. QED
      BY <1>1, <3>1, <3>2 DEF IInv, TypeOK, Leave, Await, carrier
  <2>4. Grows
    BY <1>1, <1>3, <2>1, <2>2, CommittedRow, AbsentAssumption DEF IInv, TypeOK, Grows, carrier
  <2>5. PolicyInv'
    BY <1>1, <1>3, <2>1, <2>2, CommittedRow, AbsentAssumption
       DEF IInv, TypeOK, PolicyInv, carrier
  <2>6. LifecycleOrder' /\ CancelledAtBirth' /\ LinkIsExplained'
    BY <1>1, <1>3, <2>1, CommitKeepsOrder, CommitKeepsLinks DEF carrier
  <2>7. CacheInv' /\ ToldOfBound'
    BY <1>1, <2>4, CachesStay DEF IInv, TypeOK, ToldOfBound, Grows, carrier
  <2>8. LockInv'
    <3>1. ASSUME NEW q \in Requests, staged'[q] # NoRow
          PROVE  pc'[q] # "idle" /\ tx'[q] = "open" /\ lock'[req'[q].policy] = q
      <4>1. q # r /\ staged[q] # NoRow /\ pc[q] # "idle"
        BY <2>1, <3>1 DEF IInv, TypeOK, LockInv
      <4>2. req[q].policy \in Policies
        BY <4>1, Handled
      <4>3. QED
        BY <1>1, <2>1, <4>1, <4>2 DEF IInv, LockInv, Leave
    <3>2. ASSUME NEW q \in Requests, NEW a \in Policies, lock'[a] = q
          PROVE  staged'[q] # NoRow /\ req'[q].policy = a
      <4>1. lock[a] = q /\ q # r
        BY <2>1, <3>2, ConstantsAssumption
      <4>2. QED
        BY <1>1, <2>1, <4>1 DEF IInv, TypeOK, LockInv, Leave
    <3>3. QED
      BY <3>1, <3>2 DEF LockInv
  <2>9. ASSUME NEW q \in Requests
        PROVE  RequestInv(q)'
    <3>1. CASE q = r
      BY <1>1, <2>1, <3>1, EmptySlot DEF IInv, TypeOK, Leave
    <3>2. CASE q # r
      <4>1. Same(q)
        BY <1>1, <2>1, <3>2 DEF Same, Leave
      <4>2. staged[q] # NoRow => pc[q] # "idle" /\ req[q].policy # p
        BY <1>3, <3>2 DEF IInv, LockInv
      <4>3. staged[q] # NoRow => row'[req[q].policy] = row[req[q].policy]
        BY <2>1, <4>2, Handled DEF IInv, TypeOK
      <4>4. QED
        BY <2>3, <2>4, <4>1, <4>2, <4>3, Frame DEF IInv
    <3>3. QED
      BY <3>1, <3>2
  <2>10. QED
    BY <2>3, <2>5, <2>6, <2>7, <2>8, <2>9 DEF IInv
<1>4. QED
  BY <1>2, <1>3

LEMMA RollbackStep ==
  ASSUME IInv, NEW r \in Requests, Rollback(r)
  PROVE  IInv'
<1>1. CacheInv'
  BY DEF IInv, CacheInv, Copy, Rollback, Discard
<1>2. QED
  BY <1>1, EndStep DEF Rollback, IInv, TypeOK

LEMMA KillIdleSessionStep ==
  ASSUME IInv, NEW r \in Requests, KillIdleSession(r)
  PROVE  IInv'
<1>1. pc[r] \in {"query", "post1", "post2", "put1", "put2"} /\ Discard({r})
  BY DEF KillIdleSession
<1>2. TypeOK'
  BY DEF IInv, TypeOK, KillIdleSession, Discard, carrier, locals
<1>3. Grows
  BY DEF IInv, TypeOK, Grows, KillIdleSession, Discard, carrier
<1>4. PolicyInv' /\ LifecycleOrder' /\ CancelledAtBirth' /\ LinkIsExplained' /\ ToldOfBound' /\ CacheInv'
  BY DEF IInv, PolicyInv, LifecycleOrder, CancelledAtBirth, LinkIsExplained, ToldOfBound, CacheInv, Copy,
     KillIdleSession, Discard, carrier
<1>5. LockInv'
  <2>1. ASSUME NEW q \in Requests, staged'[q] # NoRow
        PROVE  pc'[q] # "idle" /\ tx'[q] = "open" /\ lock'[req'[q].policy] = q
    <3>1. q # r /\ staged[q] # NoRow /\ pc[q] # "idle"
      BY <2>1 DEF IInv, LockInv, KillIdleSession, Discard
    <3>2. req[q].policy \in Policies
      BY <3>1, Handled
    <3>3. QED
      BY <3>1, <3>2 DEF IInv, TypeOK, LockInv, KillIdleSession, Discard
  <2>2. ASSUME NEW q \in Requests, NEW p \in Policies, lock'[p] = q
        PROVE  staged'[q] # NoRow /\ req'[q].policy = p
    <3>1. lock[p] = q /\ q # r
      BY <2>2, ConstantsAssumption DEF KillIdleSession, Discard
    <3>2. QED
      BY <3>1 DEF IInv, LockInv, KillIdleSession, Discard
  <2>3. QED
    BY <2>1, <2>2 DEF LockInv
<1>6. RequestInv(r)'
  BY <1>1 DEF IInv, TypeOK, RequestInv, ControlInv, SeenInv, UpdInv, InstInv, StagedInv,
     KillIdleSession, Discard, carrier, locals
<1>7. ASSUME NEW q \in Requests \ {r}
      PROVE  RequestInv(q)'
  BY <1>2, <1>3, Frame DEF IInv, TypeOK, LockInv, Same, KillIdleSession, Discard, locals
<1>8. QED
  BY <1>2, <1>4, <1>5, <1>6, <1>7 DEF IInv

LEMMA ExpireStep ==
  ASSUME IInv, NEW w \in Workers, NEW p \in Policies, Expire(w, p)
  PROVE  IInv'
<1>1. TypeOK'
  BY DEF IInv, TypeOK, Expire, db, carrier, locals
<1>2. Grows
  BY DEF IInv, TypeOK, Grows, Expire, db, carrier
<1>3. CacheInv'
  <2>1. ASSUME NEW v \in Workers, NEW q \in Policies
        PROVE  cache'[v][q] \in {cache[v][q], NoRow}
    BY DEF IInv, TypeOK, Expire
  <2>2. QED
    BY <1>2, <2>1, CachesStay DEF IInv
<1>4. PolicyInv' /\ LifecycleOrder' /\ CancelledAtBirth' /\ LinkIsExplained' /\ ToldOfBound' /\ LockInv'
  BY DEF IInv, PolicyInv, LifecycleOrder, CancelledAtBirth, LinkIsExplained, ToldOfBound, LockInv,
     Expire, db, carrier
<1>5. ASSUME NEW q \in Requests
      PROVE  RequestInv(q)'
  BY <1>1, <1>2, Frame DEF IInv, LockInv, Same, Expire, db, locals
<1>6. QED
  BY <1>1, <1>3, <1>4, <1>5 DEF IInv

LEMMA CrashWorkerStep ==
  ASSUME IInv, NEW w \in Workers, CrashWorker(w)
  PROVE  IInv'
<1> DEFINE R == {r \in Requests : Home[r] = w}
<1>1. /\ Discard(R) /\ Leave(R) /\ UNCHANGED carrier
      /\ cache' = [cache EXCEPT ![w] = [p \in Policies |-> NoRow]]
  BY DEF CrashWorker
<1>2. cache' \in [Workers -> [Policies -> Row \cup {NoRow}]]
  BY <1>1 DEF IInv, TypeOK
<1>3. CacheInv'
  BY <1>1 DEF IInv, TypeOK, CacheInv, Copy, Discard
<1>4. QED
  BY <1>1, <1>2, <1>3, EndStep

-----------------------------------------------------------------------------
(* The invariant holds, and with it the properties.                        *)

LEMMA InitInv == Init => IInv
<1> SUFFICES ASSUME Init PROVE IInv
  OBVIOUS
<1>1. NoUpdate \in Update
  BY DEF NoUpdate, Update
<1>2. TypeOK
  BY <1>1 DEF Init, TypeOK, Await
<1>3. PolicyInv /\ LifecycleOrder /\ CancelledAtBirth /\ LinkIsExplained /\ ToldOfBound
      /\ CacheInv
  BY DEF Init, PolicyInv, LifecycleOrder, CancelledAtBirth, LinkIsExplained, ToldOfBound, CacheInv
<1>4. LockInv
  BY ConstantsAssumption DEF Init, LockInv
<1>5. ASSUME NEW r \in Requests
      PROVE  RequestInv(r)
  BY DEF Init, RequestInv, ControlInv, SeenInv, UpdInv, InstInv, StagedInv
<1>6. QED
  BY <1>2, <1>3, <1>4, <1>5 DEF IInv

\* Every step of a handler keeps the invariant.
LEMMA StepInv ==
  ASSUME IInv, NEW r \in Requests, Step(r)
  PROVE  IInv'
<1>1. CASE LookupHit(r)
  BY <1>1, LookupHitStep
<1>2. CASE LookupMiss(r)
  BY <1>2, LookupMissStep
<1>3. CASE Query(r)
  BY <1>3, QueryStep
<1>4. CASE QueryNone(r)
  BY <1>4, QueryNoneStep
<1>5. CASE Fill(r)
  BY <1>5, FillStep
<1>6. CASE ReturnRead(r)
  BY <1>6, ReturnReadStep
<1>7. CASE Refuse(r)
  BY <1>7, RefuseStep
<1>8. CASE Load(r)
  BY <1>8, LoadStep
<1>9. CASE LoadFails(r)
  BY <1>9, LoadFailsStep
<1>10. CASE Save(r)
  BY <1>10, SaveStep
<1>11. CASE SaveNothing(r)
  BY <1>11, SaveNothingStep
<1>12. CASE SaveFails(r)
  BY <1>12, SaveFailsStep
<1>13. CASE Evict(r)
  BY <1>13, EvictStep
<1>14. CASE Insert(r)
  BY <1>14, InsertStep
<1>15. CASE InsertFails(r)
  BY <1>15, InsertFailsStep
<1>16. CASE Post1(r)
  BY <1>16, Post1Step
<1>17. CASE Post2(r)
  BY <1>17, Post2Step
<1>18. CASE PostRetry(r)
  BY <1>18, PostRetryStep
<1>19. CASE PostGivesUp(r)
  BY <1>19, PostGivesUpStep
<1>20. CASE Put(r)
  BY <1>20, PutStep
<1>21. CASE PutFails(r)
  BY <1>21, PutFailsStep
<1>22. CASE Commit(r)
  BY <1>22, CommitStep
<1>23. CASE CommitFails(r)
  BY <1>23, CommitFailsStep
<1>24. CASE Rollback(r)
  BY <1>24, RollbackStep
<1>25. QED
  BY <1>1, <1>2, <1>3, <1>4, <1>5, <1>6, <1>7, <1>8, <1>9, <1>10, <1>11, <1>12,
     <1>13, <1>14, <1>15, <1>16, <1>17, <1>18, <1>19, <1>20, <1>21, <1>22, <1>23, <1>24 DEF Step

\* So does every step of the system.
LEMMA NextInv == IInv /\ [Next]_vars => IInv'
<1> SUFFICES ASSUME IInv, [Next]_vars PROVE IInv'
  OBVIOUS
<1>1. ASSUME NEW r \in Requests,
             \/ BeginCreate(r) \/ BeginUpdate(r) \/ BeginRead(r)
             \/ Step(r) \/ KillIdleSession(r)
      PROVE  IInv'
  BY <1>1, BeginCreateStep, BeginUpdateStep, BeginReadStep, StepInv, KillIdleSessionStep
<1>2. ASSUME NEW w \in Workers, NEW p \in Policies, Expire(w, p)
      PROVE  IInv'
  BY <1>2, ExpireStep
<1>3. ASSUME NEW w \in Workers, CrashWorker(w)
      PROVE  IInv'
  BY <1>3, CrashWorkerStep
<1>4. ASSUME UNCHANGED vars
      PROVE  IInv'
  <2>1. TypeOK'
    BY <1>4 DEF IInv, TypeOK, vars, db, carrier, locals
  <2>2. PolicyInv' /\ LifecycleOrder' /\ CancelledAtBirth' /\ LinkIsExplained' /\ ToldOfBound'
    BY <1>4 DEF IInv, PolicyInv, LifecycleOrder, CancelledAtBirth, LinkIsExplained, ToldOfBound, vars, db,
       carrier
  <2>3. CacheInv' /\ LockInv'
    BY <1>4 DEF IInv, CacheInv, Copy, LockInv, vars, db
  <2>4. Grows
    BY <1>4 DEF IInv, TypeOK, Grows, vars, db, carrier
  <2>5. ASSUME NEW q \in Requests
        PROVE  RequestInv(q)'
    BY <1>4, <2>1, <2>4, Frame DEF IInv, LockInv, Same, vars, db, locals
  <2>6. QED
    BY <2>1, <2>2, <2>3, <2>5 DEF IInv
<1>5. QED
  BY <1>1, <1>2, <1>3, <1>4 DEF Next

\* The inductive invariant is an invariant of the policy service.
THEOREM Invariance == Spec => []IInv
BY InitInv, NextInv, PTL DEF Spec

\* TypeOK holds in every reachable state.
THEOREM TypeCorrect == Spec => []TypeOK
<1>1. IInv => TypeOK
  BY DEF IInv
<1>2. QED
  BY <1>1, Invariance, PTL

\* No policy is bound, activated or expired out of order, although
\* updatePolicy validates against copies that may be stale.
THEOREM OrderKept == Spec => []LifecycleOrder
<1>1. IInv => LifecycleOrder
  BY DEF IInv
<1>2. QED
  BY <1>1, Invariance, PTL

\* A policy that has ever been anything else is never cancelled: the approver
\* updatePolicy asks for is not in the copy it reads.
THEOREM NeverCancelledLater == Spec => []CancelledAtBirth
<1>1. IInv => CancelledAtBirth
  BY DEF IInv
<1>2. QED
  BY <1>1, Invariance, PTL

\* A committed policy was born linked to one policy OneShield issued for it;
\* any other link it has had was brought along by an update.
THEOREM LinksAreExplained == Spec => []LinkIsExplained
<1>1. IInv => LinkIsExplained
  BY DEF IInv
<1>2. QED
  BY <1>1, Invariance, PTL

\* OneShield is told only of policies that were bound and carry a score.
THEOREM ToldOnlyOfBound == Spec => []ToldOfBound
<1>1. IInv => ToldOfBound
  BY DEF IInv
<1>2. QED
  BY <1>1, Invariance, PTL

\* No cache and no validation sees a row that was never committed.
THEOREM CopiesAreClean == Spec => []NoDirtyCopy
<1>1. IInv => NoDirtyCopy
  <2> SUFFICES ASSUME IInv PROVE NoDirtyCopy
    OBVIOUS
  <2>1. ASSUME NEW w \in Workers, NEW p \in Policies, cache[w][p] # NoRow
        PROVE  row[p] # NoRow /\ cache[w][p].status \in held[p]
               /\ cache[w][p].link \in links[p]
    BY <2>1 DEF IInv, CacheInv, Copy
  <2>2. ASSUME NEW r \in Requests, seen[r] # NoRow
        PROVE  LET p == req[r].policy
               IN  row[p] # NoRow /\ seen[r].status \in held[p]
                   /\ seen[r].link \in links[p]
    BY <2>2 DEF IInv, RequestInv, SeenInv, Copy
  <2>3. QED
    BY <2>1, <2>2 DEF NoDirtyCopy
<1>2. QED
  BY <1>1, Invariance, PTL

-----------------------------------------------------------------------------
(* The service implements the ledger.                                      *)

\* Only a commit touches the table.
LEMMA OnlyCommitWrites ==
  ASSUME [Next]_vars
  PROVE  UNCHANGED <<row, held>> \/ \E r \in Requests : Commit(r)
<1>1. ASSUME NEW r \in Requests, Throw(r)
      PROVE  UNCHANGED <<row, held>>
  BY <1>1 DEF Throw, db
<1>2. ASSUME NEW r \in Requests, BeginCreate(r) \/ BeginUpdate(r) \/ BeginRead(r)
      PROVE  UNCHANGED <<row, held>>
  BY <1>2 DEF BeginCreate, BeginUpdate, BeginRead, db
<1>3. ASSUME NEW r \in Requests,
             LookupHit(r) \/ LookupMiss(r) \/ Query(r) \/ QueryNone(r) \/ Fill(r)
               \/ ReturnRead(r) \/ Refuse(r) \/ Load(r) \/ LoadFails(r)
      PROVE  UNCHANGED <<row, held>>
  BY <1>1, <1>3 DEF LookupHit, LookupMiss, Query, QueryNone, Fill, ReturnRead, Refuse, Load,
     LoadFails, db
<1>4. ASSUME NEW r \in Requests,
             Save(r) \/ SaveNothing(r) \/ SaveFails(r) \/ Evict(r) \/ Insert(r)
               \/ InsertFails(r) \/ Post1(r) \/ Post2(r) \/ PostRetry(r)
      PROVE  UNCHANGED <<row, held>>
  BY <1>1, <1>4 DEF Save, SaveNothing, SaveFails, Evict, Insert, InsertFails, Post1, Post2,
     PostRetry, db
<1>5. ASSUME NEW r \in Requests,
             PostGivesUp(r) \/ Put(r) \/ PutFails(r) \/ CommitFails(r) \/ Rollback(r)
               \/ KillIdleSession(r)
      PROVE  UNCHANGED <<row, held>>
  BY <1>1, <1>5 DEF PostGivesUp, Put, PutFails, CommitFails, Rollback, KillIdleSession,
     Discard, db
<1>6. ASSUME NEW w \in Workers,
             CrashWorker(w) \/ \E p \in Policies : Expire(w, p)
      PROVE  UNCHANGED <<row, held>>
  BY <1>6 DEF CrashWorker, Expire, Discard, db
<1>7. QED
  BY <1>2, <1>3, <1>4, <1>5, <1>6 DEF Next, Step, vars, db

\* A commit opens or amends one policy of the ledger, or changes nothing.
LEMMA CommitAmends ==
  ASSUME IInv, NEW r \in Requests, Commit(r)
  PROVE  UNCHANGED <<row, held>> \/ Ledger!Next
<1> DEFINE p == req[r].policy
           new == staged[r]
<1>1. CASE new = NoRow
  BY <1>1 DEF Commit
<1>2. CASE new # NoRow
  <2>1. /\ p \in Policies /\ new \in Row
        /\ \/ /\ row[p] = NoRow /\ new.link \in 1..issued[p]
              /\ new.status \in Ledger!BirthStatus
           \/ /\ row[p] # NoRow /\ new.link \in {row[p].link} \cup BroughtLinks
              /\ new.status = row[p].status \/ Reachable(p, new.status)
    BY <1>2, CommittedRow DEF Commit
  <2>2. /\ row' = [row EXCEPT ![p] = new] /\ row'[p] = new
        /\ held' = [held EXCEPT ![p] = @ \cup {new.status}]
    BY <1>2, <2>1 DEF IInv, TypeOK, Commit
  <2>3. row[p] = NoRow => new.link > 0
    BY <2>1 DEF IInv, TypeOK
  <2>4. row'[p] \in Ledger!Row
    BY <2>1, <2>2 DEF Ledger!Row, Row, Ledger!Status, Status, Ledger!Underwriting, Underwriting
  <2>5. Ledger!Open(p, row'[p]) \/ Ledger!Amend(p, row'[p])
    BY <2>1, <2>2, <2>3 DEF Ledger!Open, Ledger!Amend, Ledger!Record, Reachable,
       Ledger!ValidTransitions, ValidTransitions
  <2>6. QED
    BY <2>1, <2>4, <2>5 DEF Ledger!Next
<1>3. QED
  BY <1>1, <1>2

\* The policy service, with caches, requests, transactions and OneShield
\* hidden, implements PolicyLedger.
THEOREM ImplementsLedger == Spec => LedgerSpec
<1>1. Init => Ledger!Init
  BY DEF Init, Ledger!Init
<1>2. IInv /\ [Next]_vars => [Ledger!Next]_(Ledger!ledgerVars)
  BY OnlyCommitWrites, CommitAmends DEF Ledger!ledgerVars
<1>3. QED
  BY <1>1, <1>2, Invariance, PTL DEF Spec, LedgerSpec, Ledger!Spec
=============================================================================
