----------------------------- MODULE PolicyReads -----------------------------
(***************************************************************************)
(* The response cache of PolicyController.ts: getPolicy fills it after a    *)
(* miss, updatePolicy drops the copy after its commit, and getPolicies      *)
(* passes it by.  One policy, whose row is the number of its last write.    *)
(*                                                                          *)
(* getPolicy and getPolicies of the policy service are called and defined   *)
(* nowhere; they are taken to read the rows.  What the service writes for   *)
(* anybody but updatePolicy does not reach the cache.                       *)
(***************************************************************************)
EXTENDS Naturals

CONSTANTS
  ReadSlots,        \* slots for requests
  MaxWrites         \* bound on the writes of the row

ASSUME PolicyReadsAssumption == MaxWrites \in Nat \ {0}

NoCopy == 0           \* no row, no copy

VARIABLES
  rdRow,       \* the last write of the row
  rdCopy,      \* the write that the cached response shows
  rdOpen,      \* the controller's circuit breaker is open
  rdCalls,     \* the step of every request, and the write it has read
  rdWhy        \* history since the copy was filled: why it may be old

rdVars == <<rdRow, rdCopy, rdOpen, rdCalls, rdWhy>>

NoRead == [step |-> "none", got |-> NoCopy]
ReadSteps == {"none", "missed", "reading", "read", "updating", "late", "dropping", "listing"}
Updates == {"fields", "known status", "unknown status", "negative premium"}

PolicyReadsInit ==
  /\ rdRow = 1 /\ rdCopy = NoCopy /\ rdOpen = FALSE
  /\ rdCalls = [r \in ReadSlots |-> NoRead] /\ rdWhy = {}

AtStep(r, step) == rdCalls[r].step = step
StepsTo(r, step) == rdCalls' = [rdCalls EXCEPT ![r] = [step |-> step, got |-> rdCalls[r].got]]

\* res.json or next(error): the request is over.
IsOver(r) == rdCalls' = [rdCalls EXCEPT ![r] = NoRead]

-----------------------------------------------------------------------------
\* getPolicy on a miss; a hit is answered at once and changes nothing.
GetPolicy(r) ==
  /\ AtStep(r, "none") /\ rdCopy = NoCopy /\ StepsTo(r, "missed")
  /\ UNCHANGED <<rdRow, rdCopy, rdOpen, rdWhy>>

\* The breaker calls the service, unless it is open.
FireRead(r) ==
  /\ AtStep(r, "missed") /\ ~rdOpen /\ StepsTo(r, "reading")
  /\ UNCHANGED <<rdRow, rdCopy, rdOpen, rdWhy>>

ReadRow(r) ==
  /\ AtStep(r, "reading")
  /\ rdCalls' = [rdCalls EXCEPT ![r] = [step |-> "read", got |-> rdRow]]
  /\ UNCHANGED <<rdRow, rdCopy, rdOpen, rdWhy>>

\* cacheManager.set stores what was read, however long ago.
FillCopy(r) ==
  /\ AtStep(r, "read") /\ IsOver(r)
  /\ rdCopy' = rdCalls[r].got
  /\ rdWhy' = IF rdCalls[r].got # rdRow THEN {"crossed"} ELSE {}
  /\ UNCHANGED <<rdRow, rdOpen>>

\* The status has to be a known one; from which it comes is not asked.  The breaker is
\* fired at once.
ValidatePolicyUpdates(u) == u \notin {"unknown status", "negative premium"}

UpdatePolicy(r, u) ==
  /\ AtStep(r, "none") /\ ValidatePolicyUpdates(u) /\ ~rdOpen /\ StepsTo(r, "updating")
  /\ UNCHANGED <<rdRow, rdCopy, rdOpen, rdWhy>>

UpdateCommits(r) ==
  /\ AtStep(r, "updating") /\ rdRow < MaxWrites
  /\ rdRow' = rdRow + 1 /\ StepsTo(r, "dropping")
  /\ UNCHANGED <<rdCopy, rdOpen, rdWhy>>

\* The breaker's time is up: the client is told of a failure, and the update goes on.
UpdateTimesOut(r) ==
  /\ AtStep(r, "updating") /\ StepsTo(r, "late")
  /\ UNCHANGED <<rdRow, rdCopy, rdOpen, rdWhy>>

\* Nobody is left to drop the copy.
LateUpdateCommits(r) ==
  /\ AtStep(r, "late") /\ rdRow < MaxWrites
  /\ rdRow' = rdRow + 1 /\ IsOver(r) /\ rdWhy' = rdWhy \cup {"timed out"}
  /\ UNCHANGED <<rdCopy, rdOpen>>

\* Mutant: the copy is not dropped.
DropCopyForgotten(r) ==
  /\ AtStep(r, "dropping") /\ IsOver(r)
  /\ UNCHANGED <<rdRow, rdCopy, rdOpen, rdWhy>>

DropCopy(r) ==
  /\ AtStep(r, "dropping") /\ IsOver(r) /\ rdCopy' = NoCopy
  /\ rdWhy' = {}
  /\ UNCHANGED <<rdRow, rdOpen>>

\* The cache fails after the commit: the client is told that the update failed.
DropFails(r) ==
  /\ AtStep(r, "dropping") /\ IsOver(r) /\ rdWhy' = rdWhy \cup {"drop failed"}
  /\ UNCHANGED <<rdRow, rdCopy, rdOpen>>

\* updatePolicy of the service, for an event.
UpdatedElsewhere ==
  /\ rdRow < MaxWrites /\ rdRow' = rdRow + 1 /\ rdWhy' = rdWhy \cup {"written elsewhere"}
  /\ UNCHANGED <<rdCopy, rdOpen, rdCalls>>

\* getPolicies: the page is read from the rows.
GetPolicies(r) ==
  /\ AtStep(r, "none") /\ ~rdOpen /\ StepsTo(r, "listing")
  /\ UNCHANGED <<rdRow, rdCopy, rdOpen, rdWhy>>

\* A read, an update or a page that fails, by itself or at the open breaker.
CallFails(r) ==
  /\ rdCalls[r].step \in {"missed", "reading", "read", "updating", "late", "listing"}
  /\ IsOver(r)
  /\ UNCHANGED <<rdRow, rdCopy, rdOpen, rdWhy>>

PageAnswered(r) ==
  /\ AtStep(r, "listing") /\ IsOver(r)
  /\ UNCHANGED <<rdRow, rdCopy, rdOpen, rdWhy>>

\* CACHE_TTL
CopyExpires ==
  /\ rdCopy # NoCopy /\ rdCopy' = NoCopy /\ rdWhy' = {}
  /\ UNCHANGED <<rdRow, rdOpen, rdCalls>>

\* initializeCircuitBreaker: while it is open the fallback throws.
BreakerTurns ==
  /\ rdOpen' = ~rdOpen
  /\ UNCHANGED <<rdRow, rdCopy, rdCalls, rdWhy>>

PolicyReadsNext ==
  \/ UpdatedElsewhere \/ CopyExpires \/ BreakerTurns
  \/ \E r \in ReadSlots :
       \/ GetPolicy(r) \/ FireRead(r) \/ ReadRow(r) \/ FillCopy(r)
       \/ \E u \in Updates : UpdatePolicy(r, u)
       \/ UpdateCommits(r) \/ UpdateTimesOut(r) \/ LateUpdateCommits(r)
       \/ DropCopy(r) \/ DropFails(r)
       \/ GetPolicies(r) \/ PageAnswered(r) \/ CallFails(r)

PolicyReadsSpec == PolicyReadsInit /\ [][PolicyReadsNext]_rdVars

-----------------------------------------------------------------------------
\* The row, the copy and the requests are of their types.
PolicyReadsTypeOK ==
  /\ rdRow \in 1..MaxWrites /\ rdCopy \in NoCopy..MaxWrites /\ rdOpen \in BOOLEAN
  /\ rdCalls \in [ReadSlots -> [step : ReadSteps, got : NoCopy..MaxWrites]]
  /\ rdWhy \subseteq {"crossed", "drop failed", "timed out", "written elsewhere"}

\* The cached response shows an older write than the row's only while an update
\* is between its commit and its drop, or because it was filled by a read that an
\* update crossed (PolicyController.ts:117), the drop failed (:160), the update
\* committed after the breaker had given it up (:155), or the row was written by
\* another way than updatePolicy; and then for the cache's lifetime.
StaleCopyExplained ==
  rdCopy \notin {NoCopy, rdRow} => rdWhy # {} \/ \E r \in ReadSlots : AtStep(r, "dropping")
=============================================================================
