---------------------------- MODULE ClaimsEvents ----------------------------
(***************************************************************************)
(* ClaimsEventConsumer over Kafka: batches of messages, a circuit breaker,  *)
(* retries and a dead-letter topic.                                         *)
(*                                                                          *)
(* Kafka resolves the whole batch once the batch handler returns            *)
(* (eachBatchAutoResolve), whatever became of each message in it.  A         *)
(* consumer that starts continues at the committed offset, or at the end of   *)
(* the log where none is committed (fromBeginning: false).                    *)
(***************************************************************************)
EXTENDS Integers

CONSTANT MaxClaimEvents   \* bound: messages of the partition

ASSUME ClaimsEventsAssumption == MaxClaimEvents \in Nat

VARIABLES
  ceSize,      \* messages in the partition
  ceNext,      \* offset of the last message that is resolved
  ceBegan,     \* offset at which the consumer began when it last started
  ceCommitted, \* committed offset; -1: none yet
  ceBatch,     \* the batch under way: the offsets left of it
  ceAt,        \* what handleMessage is doing with the first of them
  ceRunning,   \* the consumer: stopped, running, or waiting in stop
  ceFirst,     \* history: the end of the log at the first start; -1: before it
  ceMissed,    \* history: offsets a later start began past, none being committed
  ceBroken,    \* history: offsets left in a batch that was broken off
  ceHandled,   \* history: offsets whose event took effect
  ceLate,      \* offsets whose handler the breaker gave up on and that still runs
  ceFailed,    \* history: offsets whose retries were exhausted
  ceDead       \* offsets in the dead-letter topic

ceStart == <<ceBegan, ceFirst, ceMissed>>
ceVars == <<ceSize, ceNext, ceCommitted, ceStart, ceBatch, ceAt, ceRunning, ceBroken,
            ceHandled, ceLate, ceFailed, ceDead>>

Offsets == 1..MaxClaimEvents

ClaimsEventsInit ==
  /\ ceSize = 0 /\ ceNext = 0 /\ ceBegan = 0 /\ ceCommitted = -1
  /\ ceFirst = -1 /\ ceMissed = {} /\ ceBatch = {} /\ ceAt = "idle"
  /\ ceRunning = "stopped" /\ ceBroken = {} /\ ceHandled = {}
  /\ ceLate = {} /\ ceFailed = {} /\ ceDead = {}

ClaimEventArrives ==
  /\ ceSize < MaxClaimEvents /\ ceSize' = ceSize + 1
  /\ UNCHANGED <<ceNext, ceCommitted, ceStart, ceBatch, ceAt, ceRunning, ceBroken, ceHandled,
                 ceLate, ceFailed, ceDead>>

-----------------------------------------------------------------------------
(* start, stop, the end of the process.                                    *)

\* Where a consumer that starts begins, and what it begins past: the messages that
\* came after those of the last run, when no offset is committed.
ClaimsBeginAt == IF ceCommitted = -1 THEN ceSize ELSE ceCommitted
ClaimsBegunPast == IF ceCommitted = -1 THEN (ceNext + 1)..ceSize ELSE {}

StartClaims ==
  /\ ceRunning = "stopped" /\ ceRunning' = "running"
  /\ ceBegan' = ClaimsBeginAt /\ ceNext' = ClaimsBeginAt
  /\ IF ceFirst = -1
       THEN ceFirst' = ClaimsBeginAt /\ UNCHANGED ceMissed
       ELSE ceMissed' = ceMissed \cup ClaimsBegunPast /\ UNCHANGED ceFirst
  /\ UNCHANGED <<ceSize, ceCommitted, ceBatch, ceAt, ceBroken, ceHandled, ceLate,
                 ceFailed, ceDead>>

\* stop waits five seconds, in which messages go on being handled, ...
StopClaims ==
  /\ ceRunning = "running" /\ ceRunning' = "stopping"
  /\ UNCHANGED <<ceSize, ceNext, ceCommitted, ceStart, ceBatch, ceAt, ceBroken, ceHandled,
                 ceLate, ceFailed, ceDead>>

\* ... then disconnects: Kafka lets the message that is being handled end.
DisconnectClaims ==
  /\ ceRunning = "stopping" /\ ceRunning' = "disconnecting"
  /\ UNCHANGED <<ceSize, ceNext, ceCommitted, ceStart, ceBatch, ceAt, ceBroken, ceHandled,
                 ceLate, ceFailed, ceDead>>

\* An offset was resolved since the start: there is one to commit.
ClaimsResolved == ceNext > ceBegan

Disconnected ==
  /\ ceRunning = "disconnecting" /\ ceBatch = {} /\ ceRunning' = "stopped"
  /\ ceCommitted' = IF ClaimsResolved THEN ceNext ELSE ceCommitted
  /\ UNCHANGED <<ceSize, ceNext, ceStart, ceBatch, ceAt, ceBroken, ceHandled, ceLate, ceFailed, ceDead>>

CrashClaims ==
  /\ ceRunning # "stopped" /\ ceRunning' = "stopped" /\ ceBatch' = {} /\ ceAt' = "idle"
  /\ ceLate' = {}
  /\ UNCHANGED <<ceSize, ceNext, ceCommitted, ceStart, ceBroken, ceHandled, ceFailed, ceDead>>

CommitClaims ==
  /\ ceRunning # "stopped" /\ ClaimsResolved /\ ceCommitted # ceNext /\ ceCommitted' = ceNext
  /\ UNCHANGED <<ceSize, ceNext, ceStart, ceBatch, ceAt, ceRunning, ceBroken, ceHandled, ceLate,
                 ceFailed, ceDead>>

-----------------------------------------------------------------------------
(* eachBatch                                                               *)

FetchBatch ==
  /\ ceRunning \in {"running", "stopping"} /\ ceBatch = {} /\ ceNext < ceSize
  /\ ceBatch' = (ceNext + 1)..ceSize /\ ceAt' = "idle"
  /\ UNCHANGED <<ceSize, ceNext, ceCommitted, ceStart, ceRunning, ceBroken, ceHandled, ceLate,
                 ceFailed, ceDead>>

Current == CHOOSE o \in ceBatch : \A x \in ceBatch : o <= x
Handled(o) == ceHandled \cup {o}
ceFixed == <<ceSize, ceNext, ceCommitted, ceStart, ceBatch, ceRunning, ceBroken>>

\* The batch is broken off when the consumer is being disconnected, or has lost
\* the partition; its last offset is resolved all the same.
BreakOff ==
  /\ ceBatch # {} /\ ceAt = "idle"
  /\ ceBroken' = ceBroken \cup ceBatch
  /\ ceNext' = CHOOSE o \in ceBatch : \A x \in ceBatch : x <= o
  /\ ceBatch' = {}
  /\ UNCHANGED <<ceSize, ceCommitted, ceStart, ceAt, ceRunning, ceHandled, ceLate, ceFailed, ceDead>>

HandleClaimEvent ==
  /\ ceBatch # {} /\ ceAt = "idle" /\ ceRunning # "disconnecting" /\ ceAt' = "firing"
  /\ UNCHANGED <<ceFixed, ceHandled, ceLate, ceFailed, ceDead>>

\* Through the breaker: it succeeds, ...
FireSucceeds ==
  /\ ceAt = "firing" /\ ceAt' = "done" /\ ceHandled' = Handled(Current)
  /\ UNCHANGED <<ceFixed, ceLate, ceFailed, ceDead>>

\* ... fails, is rejected because the breaker is open or the message is empty, or
\* takes too long: then it goes on by itself.
FireFails ==
  /\ ceAt = "firing" /\ ceAt' = "retrying"
  /\ ceLate' \in {ceLate, ceLate \cup {Current}}
  /\ UNCHANGED <<ceFixed, ceHandled, ceFailed, ceDead>>

LateClaimCall ==
  /\ \E o \in ceLate : ceLate' = ceLate \ {o} /\ ceHandled' \in {ceHandled, Handled(o)}
  /\ UNCHANGED <<ceFixed, ceAt, ceFailed, ceDead>>

\* processMessageWithRetry, at the first try or a later one: the claims service is
\* called again.  After that the message is sent to the dead-letter topic.
RetrySucceeds ==
  /\ ceAt = "retrying" /\ ceAt' = "burying" /\ ceHandled' = Handled(Current)
  /\ UNCHANGED <<ceFixed, ceLate, ceFailed, ceDead>>

\* sendToDLQ, whose own failure is only logged.
Bury ==
  /\ ceAt = "burying" /\ ceAt' = "done" /\ ceDead' \in {ceDead, ceDead \cup {Current}}
  /\ UNCHANGED <<ceFixed, ceHandled, ceLate, ceFailed>>

\* The retries are exhausted: the error leaves handleMessage, is logged, and the
\* next message is taken.
RetriesExhausted ==
  /\ ceAt = "retrying" /\ ceAt' = "passed" /\ ceFailed' = ceFailed \cup {Current}
  /\ UNCHANGED <<ceFixed, ceHandled, ceLate, ceDead>>

\* Mutant: an offset is resolved before its message is handled.
ResolveFirst ==
  /\ ceBatch # {} /\ ceAt \in {"idle", "done", "passed"}
  /\ ceNext' = Current /\ ceBatch' = ceBatch \ {Current} /\ ceAt' = "idle"
  /\ UNCHANGED <<ceSize, ceCommitted, ceStart, ceRunning, ceBroken, ceHandled, ceLate, ceFailed, ceDead>>

\* A handled message is resolved; one that failed is resolved with the batch.
NextMessage ==
  /\ ceBatch # {} /\ ceAt \in {"done", "passed"}
  /\ ceBatch' = ceBatch \ {Current} /\ ceAt' = "idle"
  /\ ceNext' = IF ceAt = "done" \/ ceBatch = {Current} THEN Current ELSE ceNext
  /\ UNCHANGED <<ceSize, ceCommitted, ceStart, ceRunning, ceBroken, ceHandled, ceLate, ceFailed, ceDead>>

ClaimsEventsNext ==
  \/ ClaimEventArrives \/ StartClaims \/ StopClaims \/ DisconnectClaims \/ Disconnected
  \/ CrashClaims \/ CommitClaims \/ FetchBatch \/ BreakOff \/ HandleClaimEvent
  \/ FireSucceeds \/ FireFails \/ LateClaimCall \/ RetrySucceeds \/ Bury
  \/ RetriesExhausted \/ NextMessage

ClaimsEventsSpec == ClaimsEventsInit /\ [][ClaimsEventsNext]_ceVars

-----------------------------------------------------------------------------
\* The partition, the batch and the consumer are of their types.
ClaimsEventsTypeOK ==
  /\ ceSize \in 0..MaxClaimEvents /\ ceNext \in 0..ceSize /\ ceBegan \in 0..ceNext
  /\ ceCommitted \in -1..ceSize /\ ceFirst \in -1..ceSize /\ ceMissed \subseteq Offsets
  /\ ceBatch \subseteq (ceNext + 1)..ceSize
  /\ ceAt \in {"idle", "firing", "retrying", "burying", "done", "passed"}
  /\ ceRunning \in {"stopped", "running", "stopping", "disconnecting"}
  /\ ceHandled \subseteq Offsets /\ ceBroken \subseteq Offsets
  /\ ceLate \subseteq Offsets /\ ceFailed \subseteq Offsets /\ ceDead \subseteq Offsets

\* A message whose offset is committed took effect, or there is a reason it did not: it
\* was there before the consumer first started; it came later, and a start which found
\* no committed offset began past it (ClaimsEventConsumer.ts:73-76); it failed its
\* retries; or it was left in a batch that was broken off (:83-98).  And only messages
\* that took effect are dead-lettered (:189-195).
PassedMessagesExplained ==
  /\ \A o \in 1..ceCommitted :
       o <= ceFirst \/ o \in ceMissed \cup ceHandled \cup ceFailed \cup ceBroken
  /\ ceDead \subseteq ceHandled

\* "If retries exhausted, send to DLQ" (ClaimsEventConsumer.ts:194).  The code sends
\* a message there when a retry succeeded, and never when its retries are exhausted.
ExhaustedIsDeadLettered ==
  \A o \in ceFailed : ceNext >= o => o \in ceHandled \cup ceDead
=============================================================================
