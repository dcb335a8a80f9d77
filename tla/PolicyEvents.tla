---------------------------- MODULE PolicyEvents ----------------------------
(***************************************************************************)
(* PolicyEventConsumer over Kafka.                                          *)
(*                                                                          *)
(* The consumer reads policy-events, which PolicyEventProducer does not      *)
(* write (see EventProducers): its messages come from elsewhere.  Kafka keeps *)
(* the messages of one key in one partition: here a partition is a policy.   *)
(* A handler that throws gets its message again; a consumer that starts      *)
(* continues at the committed offset, or at the end where none is committed  *)
(* (fromBeginning: false).  Only an offset that was resolved is committed.   *)
(***************************************************************************)
EXTENDS Integers, Sequences

CONSTANTS
  KeyedPolicies,   \* policies that events are about, each with its partition
  MaxEvents,       \* bound: messages of one partition
  MaxApplyRetries  \* retries of a failed handler (3 in the code)

ASSUME PolicyEventsAssumption == MaxEvents \in Nat /\ MaxApplyRetries \in Nat

VARIABLES
  peLog,         \* the messages of each partition of policy-events
  peRunning,     \* isRunning of the consumer
  peBegan,       \* offset at which the consumer began when it last started
  peCommitted,   \* committed offset; -1: none yet
  peNext,        \* offset of the last message handled since the start
  peAt,          \* what the handler of the partition is doing
  peLate,        \* handlers whose breaker timed out and that still run
  peSeen,        \* processedEvents: the keys marked as processed
  peApplied,     \* history: offsets of the messages handled with success
  peDropped,     \* history: offsets taken for duplicates
  peFirst,       \* history: the end of the log at the first start; -1: before it
  peMissed,      \* history: offsets a later start began past, none being committed
  peDead         \* offsets sent to policy-events-dlq

pePassed == <<peDropped, peFirst, peMissed>>
peVars == <<peLog, peRunning, peBegan, peCommitted, peNext, peAt,
            peLate, peSeen, peApplied, pePassed, peDead>>

\* What a message can be: an event that has a handler (POLICY_CREATED,
\* POLICY_UPDATED, POLICY_CANCELLED), one of another type, and one that does not
\* parse.
Messages == {"event", "unknown", "malformed"}
NotHandling == [at |-> "idle", tries |-> 0]

PolicyEventsInit ==
  /\ peLog = [p \in KeyedPolicies |-> <<>>]
  /\ peRunning = FALSE
  /\ peBegan = [p \in KeyedPolicies |-> 0] /\ peCommitted = [p \in KeyedPolicies |-> -1]
  /\ peNext = [p \in KeyedPolicies |-> 0]
  /\ peAt = [p \in KeyedPolicies |-> NotHandling] /\ peLate = [p \in KeyedPolicies |-> {}]
  /\ peSeen = {}
  /\ peApplied = [p \in KeyedPolicies |-> {}] /\ peDead = [p \in KeyedPolicies |-> {}]
  /\ peDropped = [p \in KeyedPolicies |-> {}] /\ peMissed = [p \in KeyedPolicies |-> {}]
  /\ peFirst = [p \in KeyedPolicies |-> -1]

peConsumer == <<peRunning, peBegan, peCommitted, peNext, peAt, peLate, peSeen, peApplied,
                pePassed, peDead>>

\* The source of policy-events.
Arrives(p) ==
  /\ Len(peLog[p]) < MaxEvents
  /\ \E msg \in Messages : peLog' = [peLog EXCEPT ![p] = Append(@, msg)]
  /\ UNCHANGED peConsumer

-----------------------------------------------------------------------------
(* The consumer: start, stop and the end of its process.                   *)

\* Where a consumer that starts begins to read.
BeginsAt(p) == IF peCommitted[p] = -1 THEN Len(peLog[p]) ELSE peCommitted[p]

\* The messages that came after what the last run handled, and that a run which
\* finds no committed offset begins past.
BegunPast(p) == IF peCommitted[p] = -1 THEN (peNext[p] + 1)..Len(peLog[p]) ELSE {}

StartConsumer ==
  /\ ~peRunning /\ peRunning' = TRUE
  /\ peBegan' = [p \in KeyedPolicies |-> BeginsAt(p)] /\ peNext' = peBegan'
  /\ peFirst' = [p \in KeyedPolicies |-> IF peFirst[p] = -1 THEN BeginsAt(p) ELSE peFirst[p]]
  /\ peMissed' = [p \in KeyedPolicies |->
                    IF peFirst[p] = -1 THEN {} ELSE peMissed[p] \cup BegunPast(p)]
  /\ UNCHANGED <<peLog, peCommitted, peAt, peLate, peSeen, peApplied, peDropped, peDead>>

\* Something was handled since the start: there is an offset to commit.
Resolved(p) == peNext[p] > peBegan[p]

\* disconnect waits for the handlers, and commits what was handled.
StopConsumer ==
  /\ peRunning /\ \A p \in KeyedPolicies : peAt[p].at = "idle"
  /\ peRunning' = FALSE
  /\ peCommitted' = [p \in KeyedPolicies |->
                       IF Resolved(p) THEN peNext[p] ELSE peCommitted[p]]
  /\ UNCHANGED <<peLog, peBegan, peNext, peAt, peLate, peSeen, peApplied, pePassed, peDead>>

\* The process ends: what it kept in memory is gone.
CrashConsumer ==
  /\ peRunning /\ peRunning' = FALSE /\ peSeen' = {}
  /\ peAt' = [p \in KeyedPolicies |-> NotHandling]
  /\ peLate' = [p \in KeyedPolicies |-> {}]
  /\ UNCHANGED <<peLog, peBegan, peCommitted, peNext, peApplied, pePassed, peDead>>

AutoCommit(p) ==
  /\ peRunning /\ Resolved(p) /\ peCommitted[p] # peNext[p]
  /\ peCommitted' = [peCommitted EXCEPT ![p] = peNext[p]]
  /\ UNCHANGED <<peLog, peRunning, peBegan, peNext, peAt, peLate,
                 peSeen, peApplied, pePassed, peDead>>

-----------------------------------------------------------------------------
(* handleMessage                                                           *)

Waiting(p) == peRunning /\ peAt[p].at = "idle" /\ peNext[p] < Len(peLog[p])
Offset(p) == peNext[p] + 1
Handle(p, at, tries) == peAt' = [peAt EXCEPT ![p] = [at |-> at, tries |-> tries]]
peFixed == <<peLog, peRunning, peBegan, peCommitted, peFirst, peMissed>>

\* A key that is marked: the message counts as a duplicate.
SkipDuplicate(p) ==
  /\ Waiting(p) /\ p \in peSeen
  /\ peNext' = [peNext EXCEPT ![p] = Offset(p)]
  /\ peDropped' = [peDropped EXCEPT ![p] = @ \cup {Offset(p)}]
  /\ UNCHANGED <<peFixed, peAt, peLate, peSeen, peApplied, peDead>>

\* Mutant: the key is marked before the event is processed.
MarkThenProcess(p) ==
  /\ Waiting(p) /\ p \notin peSeen
  /\ Handle(p, IF peLog[p][Offset(p)] = "malformed" THEN "failed" ELSE "applying", 0)
  /\ peSeen' = peSeen \cup {p}
  /\ UNCHANGED <<peFixed, peNext, peLate, peApplied, peDropped, peDead>>

\* parseEvent; a message that does not parse fails.
BeginMessage(p) ==
  /\ Waiting(p) /\ p \notin peSeen
  /\ Handle(p, IF peLog[p][Offset(p)] = "malformed" THEN "failed" ELSE "applying", 0)
  /\ UNCHANGED <<peFixed, peNext, peLate, peSeen, peApplied, peDropped, peDead>>

\* processEvent: the policy service is called; an event of an unknown type is only
\* logged.
ApplyEvent(p) ==
  /\ peAt[p].at = "applying"
  /\ peApplied' = [peApplied EXCEPT ![p] = @ \cup {Offset(p)}]
  /\ Handle(p, "applied", 0)
  /\ UNCHANGED <<peFixed, peNext, peLate, peSeen, peDropped, peDead>>

\* The call fails, whether or not the policy was changed: it is made again.
RetryEvent(p) ==
  /\ peAt[p].at = "applying" /\ peAt[p].tries < MaxApplyRetries
  /\ peLog[p][Offset(p)] = "event"
  /\ Handle(p, "applying", peAt[p].tries + 1)
  /\ UNCHANGED <<peFixed, peNext, peLate, peSeen, peApplied, peDropped, peDead>>

GiveUpEvent(p) ==
  /\ peAt[p].at = "applying" /\ peAt[p].tries = MaxApplyRetries
  /\ peLog[p][Offset(p)] = "event"
  /\ Handle(p, "failed", 0)
  /\ UNCHANGED <<peFixed, peNext, peLate, peSeen, peApplied, peDropped, peDead>>

\* The breaker is open, or its time is up: then the call goes on by itself.
BreakerRejects(p) ==
  /\ peAt[p].at = "applying" /\ Handle(p, "failed", 0)
  /\ peLate' \in {peLate, [peLate EXCEPT ![p] = @ \cup {Offset(p)}]}
  /\ UNCHANGED <<peFixed, peNext, peSeen, peApplied, peDropped, peDead>>

LateCallEnds(p) ==
  /\ \E i \in peLate[p] :
       /\ peLate' = [peLate EXCEPT ![p] = @ \ {i}]
       /\ peApplied' \in {peApplied, [peApplied EXCEPT ![p] = @ \cup {i}]}
  /\ UNCHANGED <<peFixed, peNext, peAt, peSeen, peDropped, peDead>>

\* The event is marked, in memory, and its offset can be committed.
MarkProcessed(p) ==
  /\ peAt[p].at = "applied"
  /\ peSeen' = peSeen \cup {p} /\ peNext' = [peNext EXCEPT ![p] = Offset(p)]
  /\ Handle(p, "idle", 0)
  /\ UNCHANGED <<peFixed, peLate, peApplied, peDropped, peDead>>

\* handleDeadLetter, whose own failure is only logged; the error is thrown on, so
\* that Kafka delivers the message again.
DeadLetter(p) ==
  /\ peAt[p].at = "failed"
  /\ peDead' \in {peDead, [peDead EXCEPT ![p] = @ \cup {Offset(p)}]}
  /\ Handle(p, "idle", 0)
  /\ UNCHANGED <<peFixed, peNext, peLate, peSeen, peApplied, peDropped>>

PolicyEventsNext ==
  \/ StartConsumer \/ StopConsumer \/ CrashConsumer
  \/ \E p \in KeyedPolicies :
       \/ Arrives(p) \/ AutoCommit(p) \/ SkipDuplicate(p) \/ BeginMessage(p)
       \/ ApplyEvent(p) \/ RetryEvent(p) \/ GiveUpEvent(p) \/ BreakerRejects(p)
       \/ LateCallEnds(p) \/ MarkProcessed(p) \/ DeadLetter(p)

PolicyEventsSpec == PolicyEventsInit /\ [][PolicyEventsNext]_peVars

-----------------------------------------------------------------------------
\* The partitions, the offsets and the consumer are of their types.
PolicyEventsTypeOK ==
  /\ peLog \in [KeyedPolicies -> Seq(Messages)] /\ peRunning \in BOOLEAN
  /\ peBegan \in [KeyedPolicies -> Nat] /\ peCommitted \in [KeyedPolicies -> Nat \cup {-1}]
  /\ peNext \in [KeyedPolicies -> Nat] /\ peSeen \subseteq KeyedPolicies
  /\ peAt \in [KeyedPolicies -> [at : {"idle", "applying", "applied", "failed"},
                                 tries : 0..MaxApplyRetries]]
  /\ peLate \in [KeyedPolicies -> SUBSET (1..MaxEvents)]
  /\ peApplied \in [KeyedPolicies -> SUBSET (1..MaxEvents)]
  /\ peDropped \in [KeyedPolicies -> SUBSET (1..MaxEvents)]
  /\ peFirst \in [KeyedPolicies -> Nat \cup {-1}]
  /\ peMissed \in [KeyedPolicies -> SUBSET (1..MaxEvents)]
  /\ peDead \in [KeyedPolicies -> SUBSET (1..MaxEvents)]

\* An earlier message of the policy was handled: its key is what is marked.
MarkedBy(p, i) == \E j \in peApplied[p] : j < i

\* A message whose offset is committed was handled, or there is a reason it was not:
\* it was there before the consumer first started; it came later, and a start which
\* found no committed offset began past it; or an earlier message of its policy was
\* handled, and it was taken for a duplicate (PolicyEventConsumer.ts:83-86,
\* 127-130, 140-143).  A message that keeps failing is never passed over otherwise:
\* it is dead-lettered and comes again, through any stops, crashes and late calls.
PassedEventsExplained ==
  \A p \in KeyedPolicies : \A i \in 1..peCommitted[p] :
    \/ i <= peFirst[p] \/ i \in peMissed[p] \/ i \in peApplied[p]
    \/ i \in peDropped[p] /\ MarkedBy(p, i)
=============================================================================
