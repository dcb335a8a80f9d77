----------------------------- MODULE EventsProofs -----------------------------
(***************************************************************************)
(* What the consumers and the producers of events keep: their type         *)
(* invariants, what may be lost of the policy events, which messages of    *)
(* the claims topic were passed over, and that a resolved claim is stored. *)
(***************************************************************************)
EXTENDS PolicyEvents, ClaimsEvents, EventProducers, WellFoundedInduction, TLAPS

-----------------------------------------------------------------------------
(* The policy events                                                       *)

\* The partitions are within their bound, and the consumer within the partitions.
WithinLog ==
  \A p \in KeyedPolicies :
    /\ Len(peLog[p]) <= MaxEvents
    /\ peNext[p] <= Len(peLog[p]) /\ peCommitted[p] <= Len(peLog[p])
    /\ peBegan[p] <= peNext[p]
    /\ peAt[p].at # "idle" => peNext[p] < Len(peLog[p])

\* A consumer that does not run handles nothing, and one that never started has passed
\* no offset.
Stopped ==
  /\ ~peRunning => \A p \in KeyedPolicies : peAt[p].at = "idle"
  /\ \A p \in KeyedPolicies : peFirst[p] = -1 => ~peRunning /\ peCommitted[p] = -1

\* A key that is marked had a message that took effect among those passed; while the
\* consumer is stopped, and until it resolves an offset, that many are committed.
MarkedApplied ==
  \A p \in KeyedPolicies :
    /\ p \in peSeen =>
         /\ \E j \in peApplied[p] : j <= peNext[p]
         /\ peCommitted[p] = peNext[p] \/ (peRunning /\ Resolved(p))
    /\ peAt[p].at = "applied" => Offset(p) \in peApplied[p]

\* There is a reason why the message at i is behind the consumer.
OffsetsExplained(p, i) ==
  \/ i <= peFirst[p] \/ i \in peMissed[p] \/ i \in peApplied[p]
  \/ i \in peDropped[p] /\ MarkedBy(p, i)

\* There is one for every offset passed since the start, committed or not.
PassedExplained ==
  \A p \in KeyedPolicies :
    /\ \A i \in 1..peNext[p] : peFirst[p] # -1 => OffsetsExplained(p, i)
    /\ \A i \in 1..peCommitted[p] : OffsetsExplained(p, i)

PolicyEventsInv ==
  /\ PolicyEventsTypeOK
  /\ WithinLog
  /\ Stopped
  /\ MarkedApplied
  /\ PassedExplained

-----------------------------------------------------------------------------
\* The invariant of the types for one policy, as the steps use it.
LEMMA OffsetType ==
  ASSUME PolicyEventsInv, NEW p \in KeyedPolicies
  PROVE  /\ peNext[p] \in Nat /\ peBegan[p] \in Nat /\ Len(peLog[p]) \in Nat
         /\ peCommitted[p] \in Nat \cup {-1} /\ peFirst[p] \in Nat \cup {-1}
         /\ peNext[p] < Len(peLog[p]) => Offset(p) \in 1..MaxEvents
<1>1. peNext[p] \in Nat /\ peBegan[p] \in Nat /\ peCommitted[p] \in Nat \cup {-1}
      /\ peFirst[p] \in Nat \cup {-1} /\ peLog[p] \in Seq(Messages)
  BY DEF PolicyEventsInv, PolicyEventsTypeOK
<1>2. Len(peLog[p]) \in Nat
  BY <1>1
<1>3. Len(peLog[p]) <= MaxEvents
  BY DEF PolicyEventsInv, WithinLog
<1>. QED
  BY <1>1, <1>2, <1>3, PolicyEventsAssumption DEF Offset

\* The initial state satisfies the invariant.
LEMMA PolicyEventsInitInv == PolicyEventsInit => PolicyEventsInv
<1>. SUFFICES ASSUME PolicyEventsInit PROVE PolicyEventsInv
  OBVIOUS
<1>. USE PolicyEventsAssumption DEF PolicyEventsInit
<1>1. PolicyEventsTypeOK
  <2>1. NotHandling \in [at : {"idle", "applying", "applied", "failed"}, tries : 0..MaxApplyRetries]
    BY DEF NotHandling
  <2>2. <<>> \in Seq(Messages) /\ -1 \in Nat \cup {-1} /\ 0 \in Nat /\ {} \in SUBSET (1..MaxEvents)
    OBVIOUS
  <2>. QED
    BY <2>1, <2>2 DEF PolicyEventsTypeOK
<1>2. WithinLog /\ Stopped
  BY DEF WithinLog, Stopped, NotHandling
<1>3. MarkedApplied /\ PassedExplained
  BY DEF MarkedApplied, PassedExplained, NotHandling
<1>. QED
  BY <1>1, <1>2, <1>3 DEF PolicyEventsInv

-----------------------------------------------------------------------------
(* The partition and the consumer.                                         *)

\* A partition that grows leaves the consumer within it.
LEMMA PolicyArrivesStep ==
  ASSUME PolicyEventsInv, NEW p \in KeyedPolicies, Arrives(p)
  PROVE  PolicyEventsInv'
<1>1. PICK msg \in Messages : peLog' = [peLog EXCEPT ![p] = Append(@, msg)]
  BY DEF Arrives
<1>2. UNCHANGED <<peRunning, peBegan, peCommitted, peNext, peAt, peLate, peSeen, peApplied, peDropped,
                  peFirst, peMissed, peDead>>
      /\ Len(peLog[p]) < MaxEvents
  BY DEF Arrives, peConsumer, pePassed
<1>3. peLog' \in [KeyedPolicies -> Seq(Messages)] /\ Len(peLog'[p]) = Len(peLog[p]) + 1
  BY <1>1 DEF PolicyEventsInv, PolicyEventsTypeOK
<1>4. \A q \in KeyedPolicies : q # p => peLog'[q] = peLog[q] /\ Len(peLog'[q]) = Len(peLog[q])
  BY <1>1 DEF PolicyEventsInv, PolicyEventsTypeOK
<1>5. PolicyEventsTypeOK'
  BY <1>2, <1>3 DEF PolicyEventsInv, PolicyEventsTypeOK
<1>6. WithinLog'
  BY <1>2, <1>3, <1>4, OffsetType, PolicyEventsAssumption DEF PolicyEventsInv, WithinLog
<1>7. Stopped' /\ MarkedApplied' /\ PassedExplained'
  BY <1>2 DEF PolicyEventsInv, Stopped, MarkedApplied, Resolved, Offset, PassedExplained, OffsetsExplained,
              MarkedBy
<1>. QED
  BY <1>5, <1>6, <1>7 DEF PolicyEventsInv

\* A consumer that starts continues at what is committed, or at the end.
LEMMA PolicyStartStep ==
  ASSUME PolicyEventsInv, StartConsumer
  PROVE  PolicyEventsInv'
<1>1. /\ ~peRunning /\ peRunning' = TRUE
      /\ UNCHANGED <<peLog, peCommitted, peAt, peLate, peSeen, peApplied, peDropped, peDead>>
  BY DEF StartConsumer
<1>2. /\ peBegan' = [p \in KeyedPolicies |-> BeginsAt(p)] /\ peNext' = peBegan'
      /\ peFirst' = [p \in KeyedPolicies |->
                       IF peFirst[p] = -1 THEN BeginsAt(p) ELSE peFirst[p]]
      /\ peMissed' = [p \in KeyedPolicies |->
                        IF peFirst[p] = -1 THEN {} ELSE peMissed[p] \cup BegunPast(p)]
  BY DEF StartConsumer
<1>3. ASSUME NEW p \in KeyedPolicies
      PROVE  BeginsAt(p) \in 0..Len(peLog[p]) /\ BegunPast(p) \in SUBSET (1..MaxEvents)
  BY OffsetType, PolicyEventsAssumption DEF BeginsAt, BegunPast, PolicyEventsInv, WithinLog
<1>4. PolicyEventsTypeOK'
  BY <1>1, <1>2, <1>3, OffsetType DEF PolicyEventsInv, PolicyEventsTypeOK
<1>5. WithinLog' /\ Stopped'
  BY <1>1, <1>2, <1>3, OffsetType DEF PolicyEventsInv, WithinLog, Stopped
<1>6. MarkedApplied'
  <2>1. ASSUME NEW p \in KeyedPolicies, p \in peSeen
        PROVE  peNext'[p] = peNext[p] /\ peCommitted[p] = peNext[p]
    BY <1>1, <1>2, <2>1, OffsetType DEF PolicyEventsInv, MarkedApplied, BeginsAt
  <2>2. \A p \in KeyedPolicies : peAt[p].at = "idle"
    BY <1>1 DEF PolicyEventsInv, Stopped
  <2>. QED
    BY <1>1, <1>2, <2>1, <2>2 DEF PolicyEventsInv, MarkedApplied, Resolved, Offset
<1>7. PassedExplained'
  <2>1. ASSUME NEW p \in KeyedPolicies, NEW i \in 1..Len(peLog[p]), OffsetsExplained(p, i), peFirst[p] # -1
        PROVE  OffsetsExplained(p, i)'
    BY <1>1, <1>2, <2>1 DEF OffsetsExplained, MarkedBy
  <2>2. ASSUME NEW p \in KeyedPolicies, NEW i \in 1..peNext'[p]
        PROVE  OffsetsExplained(p, i)'
    <3>1. CASE peFirst[p] = -1
      BY <1>2, <1>3, <2>2, <3>1, OffsetType DEF OffsetsExplained
    <3>2. CASE peFirst[p] # -1 /\ peCommitted[p] # -1
      BY <1>2, <2>1, <2>2, <3>2, OffsetType DEF BeginsAt, PolicyEventsInv, PassedExplained, WithinLog
    <3>3. CASE peFirst[p] # -1 /\ peCommitted[p] = -1
      <4>1. peNext'[p] = Len(peLog[p]) /\ peMissed'[p] = peMissed[p] \cup ((peNext[p] + 1)..Len(peLog[p]))
        BY <1>2, <3>3 DEF BeginsAt, BegunPast
      <4>2. CASE i <= peNext[p]
        BY <2>1, <2>2, <3>3, <4>1, <4>2, OffsetType DEF PolicyEventsInv, PassedExplained
      <4>3. CASE i > peNext[p]
        BY <2>2, <4>1, <4>3, OffsetType DEF OffsetsExplained
      <4>. QED
        BY <4>2, <4>3, OffsetType
    <3>. QED
      BY <3>1, <3>2, <3>3
  <2>3. ASSUME NEW p \in KeyedPolicies, NEW i \in 1..peCommitted[p]
        PROVE  OffsetsExplained(p, i)'
    <3>1. peCommitted[p] # -1 /\ peFirst[p] # -1
      BY <2>3 DEF PolicyEventsInv, Stopped
    <3>. QED
      BY <2>1, <2>3, <3>1, OffsetType DEF PolicyEventsInv, PassedExplained, WithinLog
  <2>. QED
    BY <1>1, <2>2, <2>3 DEF PassedExplained
<1>. QED
  BY <1>4, <1>5, <1>6, <1>7 DEF PolicyEventsInv

\* What is committed is what was passed.
LEMMA PolicyStopStep ==
  ASSUME PolicyEventsInv, StopConsumer
  PROVE  PolicyEventsInv'
<1>1. /\ peRunning /\ peRunning' = FALSE /\ \A p \in KeyedPolicies : peAt[p].at = "idle"
      /\ UNCHANGED <<peLog, peBegan, peNext, peAt, peLate, peSeen, peApplied, peDropped,
                     peFirst, peMissed, peDead>>
      /\ peCommitted' = [p \in KeyedPolicies |->
                           IF Resolved(p) THEN peNext[p] ELSE peCommitted[p]]
  BY DEF StopConsumer, pePassed
<1>2. PolicyEventsTypeOK'
  BY <1>1, OffsetType DEF PolicyEventsInv, PolicyEventsTypeOK
<1>3. WithinLog' /\ Stopped'
  BY <1>1 DEF PolicyEventsInv, WithinLog, Stopped
<1>4. MarkedApplied'
  BY <1>1 DEF PolicyEventsInv, MarkedApplied, Resolved
<1>5. PassedExplained'
  BY <1>1 DEF PolicyEventsInv, PassedExplained, OffsetsExplained, MarkedBy, Stopped
<1>. QED
  BY <1>2, <1>3, <1>4, <1>5 DEF PolicyEventsInv

\* A crash loses what the consumer kept in memory.
LEMMA CrashStep ==
  ASSUME PolicyEventsInv, CrashConsumer
  PROVE  PolicyEventsInv'
<1>1. /\ peRunning /\ peRunning' = FALSE /\ peSeen' = {}
      /\ peAt' = [p \in KeyedPolicies |-> NotHandling]
      /\ peLate' = [p \in KeyedPolicies |-> {}]
      /\ UNCHANGED <<peLog, peBegan, peCommitted, peNext, peApplied, peDropped, peFirst,
                     peMissed, peDead>>
  BY DEF CrashConsumer, pePassed
<1>2. PolicyEventsTypeOK'
  <2>1. NotHandling \in [at : {"idle", "applying", "applied", "failed"}, tries : 0..MaxApplyRetries]
    BY PolicyEventsAssumption DEF NotHandling
  <2>. QED
    BY <1>1, <2>1 DEF PolicyEventsInv, PolicyEventsTypeOK
<1>3. WithinLog' /\ Stopped'
  BY <1>1 DEF PolicyEventsInv, WithinLog, Stopped, NotHandling
<1>4. MarkedApplied' /\ PassedExplained'
  BY <1>1 DEF PolicyEventsInv, MarkedApplied, NotHandling, PassedExplained, OffsetsExplained, MarkedBy
<1>. QED
  BY <1>2, <1>3, <1>4 DEF PolicyEventsInv

\* So is what is committed while the consumer runs.
LEMMA PolicyCommitStep ==
  ASSUME PolicyEventsInv, NEW p \in KeyedPolicies, AutoCommit(p)
  PROVE  PolicyEventsInv'
<1>1. /\ peRunning /\ peCommitted' = [peCommitted EXCEPT ![p] = peNext[p]]
      /\ UNCHANGED <<peLog, peRunning, peBegan, peNext, peAt, peLate, peSeen, peApplied, peDropped,
                     peFirst, peMissed, peDead>>
  BY DEF AutoCommit, pePassed
<1>2. PolicyEventsTypeOK'
  BY <1>1, OffsetType DEF PolicyEventsInv, PolicyEventsTypeOK
<1>3. WithinLog' /\ Stopped'
  BY <1>1 DEF PolicyEventsInv, WithinLog, Stopped, PolicyEventsTypeOK
<1>4. MarkedApplied'
  BY <1>1 DEF PolicyEventsInv, MarkedApplied, Resolved, Offset, PolicyEventsTypeOK
<1>5. PassedExplained'
  BY <1>1 DEF PolicyEventsInv, Stopped, PassedExplained, OffsetsExplained, MarkedBy, PolicyEventsTypeOK
<1>. QED
  BY <1>2, <1>3, <1>4, <1>5 DEF PolicyEventsInv

-----------------------------------------------------------------------------
(* handleMessage                                                           *)

\* A step of a handler that passes no offset: what took effect stays, and "applied" is
\* reached by taking effect.
LEMMA HandlerStep ==
  ASSUME PolicyEventsInv, NEW p \in KeyedPolicies, peRunning,
         NEW at \in {"idle", "applying", "applied", "failed"}, NEW tries \in 0..MaxApplyRetries,
         Handle(p, at, tries), at # "idle" => peNext[p] < Len(peLog[p]),
         UNCHANGED <<peLog, peRunning, peBegan, peCommitted, peNext, peSeen, peDropped, peFirst,
                     peMissed>>,
         peApplied' \in [KeyedPolicies -> SUBSET (1..MaxEvents)],
         \A q \in KeyedPolicies : peApplied[q] \subseteq peApplied'[q],
         at = "applied" => Offset(p) \in peApplied'[p],
         peLate' \in [KeyedPolicies -> SUBSET (1..MaxEvents)],
         peDead' \in [KeyedPolicies -> SUBSET (1..MaxEvents)]
  PROVE  PolicyEventsInv'
<1>1. peAt' = [peAt EXCEPT ![p] = [at |-> at, tries |-> tries]]
  BY DEF Handle
<1>2. peAt'[p].at = at /\ \A q \in KeyedPolicies : q # p => peAt'[q] = peAt[q]
  BY <1>1 DEF PolicyEventsInv, PolicyEventsTypeOK
<1>3. PolicyEventsTypeOK'
  BY <1>1 DEF PolicyEventsInv, PolicyEventsTypeOK
<1>4. WithinLog' /\ Stopped'
  BY <1>2 DEF PolicyEventsInv, WithinLog, Stopped
<1>5. MarkedApplied'
  BY <1>2 DEF PolicyEventsInv, MarkedApplied, Resolved, Offset
<1>6. PassedExplained'
  BY DEF PolicyEventsInv, PassedExplained, OffsetsExplained, MarkedBy
<1>. QED
  BY <1>3, <1>4, <1>5, <1>6 DEF PolicyEventsInv

\* An offset is passed: its message took effect, or one before it did and it is dropped.
LEMMA PassStep ==
  ASSUME PolicyEventsInv, NEW p \in KeyedPolicies, peRunning, peNext[p] < Len(peLog[p]),
         \E j \in peApplied[p] : j <= Offset(p),
         Offset(p) \in peApplied[p] \/ (Offset(p) \in peDropped'[p] /\ MarkedBy(p, Offset(p))),
         peNext' = [peNext EXCEPT ![p] = Offset(p)],
         peSeen' \subseteq peSeen \cup {p}, peAt'[p].at = "idle",
         peAt' \in [KeyedPolicies -> [at : {"idle", "applying", "applied", "failed"},
                                      tries : 0..MaxApplyRetries]],
         \A q \in KeyedPolicies : q # p => peAt'[q] = peAt[q],
         peDropped' \in [KeyedPolicies -> SUBSET (1..MaxEvents)],
         \A q \in KeyedPolicies : peDropped[q] \subseteq peDropped'[q],
         UNCHANGED <<peLog, peRunning, peBegan, peCommitted, peLate, peApplied, peFirst, peMissed,
                     peDead>>
  PROVE  PolicyEventsInv'
<1>1. /\ peNext' \in [KeyedPolicies -> Nat] /\ peNext'[p] = peNext[p] + 1
      /\ \A q \in KeyedPolicies : q # p => peNext'[q] = peNext[q]
  BY OffsetType DEF PolicyEventsInv, PolicyEventsTypeOK, Offset
<1>2. PolicyEventsTypeOK'
  BY <1>1 DEF PolicyEventsInv, PolicyEventsTypeOK
<1>3. WithinLog' /\ Stopped'
  <2>1. WithinLog'
    BY <1>1, OffsetType DEF PolicyEventsInv, WithinLog
  <2>2. Stopped'
    BY <1>1 DEF PolicyEventsInv, Stopped
  <2>. QED
    BY <2>1, <2>2
<1>4. MarkedApplied'
  <2>1. (\E j \in peApplied[p] : j <= peNext'[p]) /\ Resolved(p)'
    BY <1>1, OffsetType DEF Offset, Resolved, PolicyEventsInv, WithinLog
  <2>. QED
    BY <1>1, <2>1 DEF PolicyEventsInv, MarkedApplied, Resolved, Offset
<1>5. \A q \in KeyedPolicies : \A i \in Nat : OffsetsExplained(q, i) => OffsetsExplained(q, i)'
  BY DEF OffsetsExplained, MarkedBy
<1>6. /\ peNext'[p] = Offset(p)
      /\ \/ Offset(p) \in peApplied'[p]
         \/ Offset(p) \in peDropped'[p] /\ \E j \in peApplied'[p] : j < Offset(p)
  BY <1>1 DEF MarkedBy, Offset
<1>7. PassedExplained'
  <2>1. \A i \in 1..peNext'[p] : i \in 1..peNext[p] \/ i = peNext'[p]
    BY <1>1, OffsetType
  <2>2. ASSUME NEW i \in 1..peNext'[p], peFirst[p] # -1 PROVE OffsetsExplained(p, i)'
    <3>1. CASE i \in 1..peNext[p]
      BY <1>5, <2>2, <3>1 DEF PolicyEventsInv, PassedExplained
    <3>2. CASE i = Offset(p)
      BY <1>6, <3>2 DEF OffsetsExplained, MarkedBy
    <3>. QED
      BY <1>6, <2>1, <3>1, <3>2
  <2>3. \A q \in KeyedPolicies : q # p => \A i \in 1..peNext'[q] : peFirst[q] # -1 => OffsetsExplained(q, i)'
    BY <1>1, <1>5, OffsetType DEF PolicyEventsInv, PassedExplained
  <2>4. \A q \in KeyedPolicies : \A i \in 1..peCommitted[q] : OffsetsExplained(q, i)'
    BY <1>5, OffsetType DEF PolicyEventsInv, PassedExplained
  <2>. QED
    BY <2>2, <2>3, <2>4 DEF PassedExplained
<1>. QED
  BY <1>2, <1>3, <1>4, <1>7 DEF PolicyEventsInv

\* A handler that is not idle runs in a consumer that runs.
LEMMA HandlerRuns ==
  ASSUME PolicyEventsInv, NEW p \in KeyedPolicies, peAt[p].at # "idle"
  PROVE  peRunning /\ peNext[p] < Len(peLog[p]) /\ Offset(p) \in 1..MaxEvents
BY OffsetType DEF PolicyEventsInv, Stopped, WithinLog

\* A duplicate, and a message that was processed, pass their offset.
LEMMA PolicyPassSteps ==
  ASSUME PolicyEventsInv, NEW p \in KeyedPolicies, SkipDuplicate(p) \/ MarkProcessed(p)
  PROVE  PolicyEventsInv'
<1>1. CASE SkipDuplicate(p)
  <2>1. /\ peDropped' = [peDropped EXCEPT ![p] = @ \cup {Offset(p)}]
        /\ peNext' = [peNext EXCEPT ![p] = Offset(p)]
        /\ peRunning /\ peNext[p] < Len(peLog[p]) /\ peAt[p].at = "idle" /\ p \in peSeen
        /\ UNCHANGED <<peLog, peRunning, peBegan, peCommitted, peFirst, peMissed, peAt, peLate, peSeen,
                       peApplied, peDead>>
    BY <1>1 DEF SkipDuplicate, Waiting, peFixed
  <2>2. MarkedBy(p, Offset(p)) /\ \E j \in peApplied[p] : j <= Offset(p)
    <3>1. PICK j \in peApplied[p] : j <= peNext[p]
      BY <2>1 DEF PolicyEventsInv, MarkedApplied
    <3>2. j \in 1..MaxEvents
      BY <3>1 DEF PolicyEventsInv, PolicyEventsTypeOK
    <3>. QED
      BY <3>1, <3>2, OffsetType DEF MarkedBy, Offset
  <2>3. /\ peDropped' \in [KeyedPolicies -> SUBSET (1..MaxEvents)] /\ Offset(p) \in peDropped'[p]
        /\ \A q \in KeyedPolicies : peDropped[q] \subseteq peDropped'[q]
    BY <2>1, OffsetType DEF PolicyEventsInv, PolicyEventsTypeOK
  <2>4. peAt' \in [KeyedPolicies -> [at : {"idle", "applying", "applied", "failed"},
                                     tries : 0..MaxApplyRetries]]
    BY <2>1 DEF PolicyEventsInv, PolicyEventsTypeOK
  <2>. QED
    BY <2>1, <2>2, <2>3, <2>4, PassStep
<1>2. CASE MarkProcessed(p)
  <2>1. peRunning /\ peNext[p] < Len(peLog[p]) /\ Offset(p) \in 1..MaxEvents
    BY <1>2, HandlerRuns DEF MarkProcessed
  <2>2. Offset(p) \in peApplied[p] /\ \E j \in peApplied[p] : j <= Offset(p)
    BY <1>2, <2>1 DEF MarkProcessed, PolicyEventsInv, MarkedApplied
  <2>3. peAt' = [peAt EXCEPT ![p] = [at |-> "idle", tries |-> 0]]
    BY <1>2 DEF MarkProcessed, Handle
  <2>4. /\ peAt'[p].at = "idle"
        /\ peAt' \in [KeyedPolicies -> [at : {"idle", "applying", "applied", "failed"},
                                        tries : 0..MaxApplyRetries]]
        /\ \A q \in KeyedPolicies : q # p => peAt'[q] = peAt[q]
    BY <2>3, PolicyEventsAssumption DEF PolicyEventsInv, PolicyEventsTypeOK
  <2>5. /\ peNext' = [peNext EXCEPT ![p] = Offset(p)] /\ peSeen' \subseteq peSeen \cup {p}
        /\ UNCHANGED <<peLog, peRunning, peBegan, peCommitted, peFirst, peMissed, peLate, peApplied,
                       peDropped, peDead>>
    BY <1>2 DEF MarkProcessed, peFixed
  <2>6. peDropped \in [KeyedPolicies -> SUBSET (1..MaxEvents)]
    BY DEF PolicyEventsInv, PolicyEventsTypeOK
  <2>. QED
    BY <2>1, <2>2, <2>4, <2>5, <2>6, PassStep
<1>. QED
  BY <1>1, <1>2

\* The other steps of a handler.
LEMMA PolicyHandlerSteps ==
  ASSUME PolicyEventsInv, NEW p \in KeyedPolicies,
         \/ BeginMessage(p) \/ ApplyEvent(p) \/ RetryEvent(p) \/ GiveUpEvent(p)
         \/ BreakerRejects(p) \/ DeadLetter(p)
  PROVE  PolicyEventsInv'
<1>0. /\ peApplied \in [KeyedPolicies -> SUBSET (1..MaxEvents)]
      /\ peLate \in [KeyedPolicies -> SUBSET (1..MaxEvents)]
      /\ peDead \in [KeyedPolicies -> SUBSET (1..MaxEvents)]
      /\ peAt[p].tries \in 0..MaxApplyRetries /\ 0 \in 0..MaxApplyRetries
  BY PolicyEventsAssumption DEF PolicyEventsInv, PolicyEventsTypeOK
<1>1. CASE BeginMessage(p)
  <2>1. /\ peRunning /\ peNext[p] < Len(peLog[p])
        /\ UNCHANGED <<peLog, peRunning, peBegan, peCommitted, peNext, peLate, peSeen, peApplied, peDropped,
                       peFirst, peMissed, peDead>>
    BY <1>1 DEF BeginMessage, Waiting, peFixed
  <2>2. Handle(p, "failed", 0) \/ Handle(p, "applying", 0)
    BY <1>1 DEF BeginMessage
  <2>. QED
    BY <1>0, <2>1, <2>2, HandlerStep
<1>2. CASE ApplyEvent(p)
  <2>1. peRunning /\ peNext[p] < Len(peLog[p]) /\ Offset(p) \in 1..MaxEvents
    BY <1>2, HandlerRuns DEF ApplyEvent
  <2>2. peApplied' = [peApplied EXCEPT ![p] = @ \cup {Offset(p)}]
    BY <1>2 DEF ApplyEvent
  <2>3. /\ peApplied' \in [KeyedPolicies -> SUBSET (1..MaxEvents)]
        /\ \A q \in KeyedPolicies : peApplied[q] \subseteq peApplied'[q]
        /\ Offset(p) \in peApplied'[p]
    BY <1>0, <2>1, <2>2
  <2>4. /\ Handle(p, "applied", 0)
        /\ UNCHANGED <<peLog, peRunning, peBegan, peCommitted, peNext, peLate, peSeen, peDropped,
                       peFirst, peMissed, peDead>>
    BY <1>2 DEF ApplyEvent, peFixed
  <2>. QED
    BY <1>0, <2>1, <2>3, <2>4, HandlerStep
<1>3. CASE RetryEvent(p)
  <2>1. peRunning /\ peNext[p] < Len(peLog[p])
    BY <1>3, HandlerRuns DEF RetryEvent
  <2>2. peAt[p].tries + 1 \in 0..MaxApplyRetries
    BY <1>0, <1>3, PolicyEventsAssumption DEF RetryEvent
  <2>3. /\ Handle(p, "applying", peAt[p].tries + 1)
        /\ UNCHANGED <<peLog, peRunning, peBegan, peCommitted, peNext, peLate, peSeen, peApplied, peDropped,
                       peFirst, peMissed, peDead>>
    BY <1>3 DEF RetryEvent, peFixed
  <2>. QED
    BY <1>0, <2>1, <2>2, <2>3, HandlerStep
<1>4. CASE GiveUpEvent(p)
  <2>1. peRunning /\ peNext[p] < Len(peLog[p])
    BY <1>4, HandlerRuns DEF GiveUpEvent
  <2>2. /\ Handle(p, "failed", 0)
        /\ UNCHANGED <<peLog, peRunning, peBegan, peCommitted, peNext, peLate, peSeen, peApplied, peDropped,
                       peFirst, peMissed, peDead>>
    BY <1>4 DEF GiveUpEvent, peFixed
  <2>. QED
    BY <1>0, <2>1, <2>2, HandlerStep
<1>5. CASE BreakerRejects(p)
  <2>1. peRunning /\ peNext[p] < Len(peLog[p]) /\ Offset(p) \in 1..MaxEvents
    BY <1>5, HandlerRuns DEF BreakerRejects
  <2>2. peLate' \in [KeyedPolicies -> SUBSET (1..MaxEvents)]
    BY <1>0, <1>5, <2>1 DEF BreakerRejects
  <2>3. /\ Handle(p, "failed", 0)
        /\ UNCHANGED <<peLog, peRunning, peBegan, peCommitted, peNext, peSeen, peApplied, peDropped,
                       peFirst, peMissed, peDead>>
    BY <1>5 DEF BreakerRejects, peFixed
  <2>. QED
    BY <1>0, <2>1, <2>2, <2>3, HandlerStep
<1>6. CASE DeadLetter(p)
  <2>1. peRunning /\ peNext[p] < Len(peLog[p]) /\ Offset(p) \in 1..MaxEvents
    BY <1>6, HandlerRuns DEF DeadLetter
  <2>2. peDead' \in [KeyedPolicies -> SUBSET (1..MaxEvents)]
    BY <1>0, <1>6, <2>1 DEF DeadLetter
  <2>3. /\ Handle(p, "idle", 0)
        /\ UNCHANGED <<peLog, peRunning, peBegan, peCommitted, peNext, peLate, peSeen, peApplied, peDropped,
                       peFirst, peMissed>>
    BY <1>6 DEF DeadLetter, peFixed
  <2>. QED
    BY <1>0, <2>1, <2>2, <2>3, HandlerStep
<1>. QED
  BY <1>1, <1>2, <1>3, <1>4, <1>5, <1>6

\* A call the breaker gave up on ends, and may have taken effect.
LEMMA LateStep ==
  ASSUME PolicyEventsInv, NEW p \in KeyedPolicies, LateCallEnds(p)
  PROVE  PolicyEventsInv'
<1>1. PICK i \in peLate[p] :
        /\ peLate' = [peLate EXCEPT ![p] = @ \ {i}]
        /\ peApplied' \in {peApplied, [peApplied EXCEPT ![p] = @ \cup {i}]}
  BY DEF LateCallEnds
<1>2. UNCHANGED <<peLog, peRunning, peBegan, peCommitted, peNext, peAt, peSeen, peDropped, peFirst,
                  peMissed, peDead>>
  BY DEF LateCallEnds, peFixed
<1>3. /\ peLate' \in [KeyedPolicies -> SUBSET (1..MaxEvents)]
      /\ peApplied' \in [KeyedPolicies -> SUBSET (1..MaxEvents)]
      /\ \A q \in KeyedPolicies : peApplied[q] \subseteq peApplied'[q]
  <2>1. /\ peLate \in [KeyedPolicies -> SUBSET (1..MaxEvents)]
        /\ peApplied \in [KeyedPolicies -> SUBSET (1..MaxEvents)]
    BY DEF PolicyEventsInv, PolicyEventsTypeOK
  <2>2. i \in 1..MaxEvents
    BY <2>1
  <2>3. CASE peApplied' = peApplied
    BY <1>1, <2>1, <2>3
  <2>4. CASE peApplied' = [peApplied EXCEPT ![p] = @ \cup {i}]
    BY <1>1, <2>1, <2>2, <2>4
  <2>. QED
    BY <1>1, <2>3, <2>4
<1>4. PolicyEventsTypeOK' /\ WithinLog' /\ Stopped'
  BY <1>2, <1>3 DEF PolicyEventsInv, PolicyEventsTypeOK, WithinLog, Stopped
<1>5. MarkedApplied'
  BY <1>2, <1>3 DEF PolicyEventsInv, MarkedApplied, Resolved, Offset
<1>6. PassedExplained'
  BY <1>2, <1>3 DEF PolicyEventsInv, PassedExplained, OffsetsExplained, MarkedBy
<1>. QED
  BY <1>4, <1>5, <1>6 DEF PolicyEventsInv

\* Every step preserves the invariant.
LEMMA PolicyEventsNextInv == PolicyEventsInv /\ [PolicyEventsNext]_peVars => PolicyEventsInv'
<1>. SUFFICES ASSUME PolicyEventsInv, [PolicyEventsNext]_peVars PROVE PolicyEventsInv'
  OBVIOUS
<1>1. CASE PolicyEventsNext
  BY <1>1, PolicyStartStep, PolicyStopStep, CrashStep, PolicyArrivesStep, PolicyCommitStep, PolicyPassSteps, PolicyHandlerSteps, LateStep
     DEF PolicyEventsNext
<1>2. CASE UNCHANGED peVars
  BY <1>2 DEF peVars, PolicyEventsInv, PolicyEventsTypeOK, WithinLog, Stopped, MarkedApplied, Resolved,
              Offset, PassedExplained, OffsetsExplained, MarkedBy, pePassed
<1>. QED
  BY <1>1, <1>2

-----------------------------------------------------------------------------
\* The partitions, the offsets and the consumer keep their types.
THEOREM PolicyEventsTyped == PolicyEventsSpec => []PolicyEventsTypeOK
<1>1. PolicyEventsInv => PolicyEventsTypeOK
  BY DEF PolicyEventsInv
<1>. QED
  BY PolicyEventsInitInv, PolicyEventsNextInv, <1>1, PTL DEF PolicyEventsSpec

\* Through any starts, stops, crashes, retries and late calls: a message whose offset
\* is committed took effect, was there before the first start, was begun past by a start
\* without a committed offset, or was dropped after an earlier one of its policy took
\* effect (PolicyEventConsumer.ts:83-86, 127-130, 140-143).
THEOREM PassedEventsAlwaysExplained == PolicyEventsSpec => []PassedEventsExplained
<1>1. PolicyEventsInv => PassedEventsExplained
  BY DEF PolicyEventsInv, PassedExplained, OffsetsExplained, PassedEventsExplained
<1>. QED
  BY PolicyEventsInitInv, PolicyEventsNextInv, <1>1, PTL DEF PolicyEventsSpec

-----------------------------------------------------------------------------
(* The claims events                                                       *)

\* What may have become of a message that is passed.
Settled == (1..ceFirst) \cup ceMissed \cup ceHandled \cup ceFailed \cup ceBroken

\* A batch is under way only while the consumer runs, and a step of a message only
\* while the message is there; nothing is committed before the first start.
BatchUnderWay ==
  /\ ceRunning = "stopped" => ceBatch = {}
  /\ ceBatch = {} => ceAt = "idle"
  /\ ceFirst = -1 => ceRunning = "stopped" /\ ceCommitted = -1 /\ ceNext = 0

\* What the steps of the current message have achieved.
CurrentSettled ==
  /\ ceAt \in {"burying", "done"} => Current \in ceHandled
  /\ ceAt = "passed" => Current \in ceFailed

\* Behind the next offset, and behind every offset of the batch but in it, all is
\* settled.
PrefixSettled ==
  /\ \A o \in 1..ceNext : o \in Settled
  /\ \A o \in 1..ceCommitted : o \in Settled
  /\ \A b \in ceBatch : \A o \in 1..b : o \in ceBatch \/ o \in Settled

ClaimsEventsInv ==
  /\ ClaimsEventsTypeOK
  /\ BatchUnderWay
  /\ CurrentSettled
  /\ PrefixSettled
  /\ PassedMessagesExplained

-----------------------------------------------------------------------------
(* The least and the greatest of a batch.                                  *)

\* A set of natural numbers that is not empty has a least element.
LEMMA LeastOf ==
  ASSUME NEW S \in SUBSET Nat, S # {}
  PROVE  \E m \in S : \A x \in S : m <= x
<1>. DEFINE Below == {ss \in Nat \X Nat : ss[1] < ss[2]}
<1>1. IsWellFoundedOn(Below, Nat)
  BY NatLessThanWellFounded, Zenon DEF OpToRel
<1>. HIDE DEF Below
<1>2. PICK m \in S : \A x \in S : ~ (<<x, m>> \in Below)
  BY <1>1, WFMin
<1>3. ASSUME NEW x \in S, ~ (m <= x) PROVE FALSE
  <2>1. <<x, m>> \in Nat \X Nat /\ x < m
    BY <1>3
  <2>2. <<x, m>> \in Below
    BY <2>1 DEF Below
  <2>. QED
    BY <2>2, <1>2
<1>. QED
  BY <1>3

\* One that is bounded has a greatest.
LEMMA GreatestOf ==
  ASSUME NEW n \in Nat, NEW S \in SUBSET (1..n), S # {}
  PROVE  \E m \in S : \A x \in S : x <= m
<1>. DEFINE T == {k \in Nat : n - k \in S}
<1>1. T \in SUBSET Nat
  OBVIOUS
<1>2. PICK s \in S : TRUE
  OBVIOUS
<1>3. n - s \in T
  BY <1>2
<1>4. PICK k \in T : \A x \in T : k <= x
  BY <1>1, <1>3, LeastOf
<1>5. ASSUME NEW x \in S PROVE x <= n - k
  <2>1. n - x \in T
    OBVIOUS
  <2>. QED
    BY <2>1, <1>4
<1>. QED
  BY <1>4, <1>5

\* The current message is the least offset of the batch.
LEMMA CurrentIsLeast ==
  ASSUME ClaimsEventsTypeOK, ceBatch # {}
  PROVE  Current \in ceBatch /\ \A x \in ceBatch : Current <= x
<1>1. ceBatch \in SUBSET Nat
  BY DEF ClaimsEventsTypeOK
<1>2. \E m \in ceBatch : \A x \in ceBatch : m <= x
  BY <1>1, LeastOf
<1>. QED
  BY <1>2 DEF Current

-----------------------------------------------------------------------------
\* The initial state satisfies the invariant.
LEMMA ClaimsEventsInitInv == ClaimsEventsInit => ClaimsEventsInv
BY ClaimsEventsAssumption
   DEF ClaimsEventsInit, ClaimsEventsInv, ClaimsEventsTypeOK, BatchUnderWay, CurrentSettled,
       PrefixSettled, PassedMessagesExplained

\* Steps of the consumer and of Kafka that handle no message.
LEMMA ClaimsConsumerSteps ==
  ASSUME ClaimsEventsInv,
         \/ ClaimEventArrives \/ StartClaims \/ StopClaims \/ DisconnectClaims
         \/ Disconnected \/ CrashClaims \/ CommitClaims \/ UNCHANGED ceVars
  PROVE  ClaimsEventsInv'
<1>. USE ClaimsEventsAssumption
     DEF ClaimsEventsInv, ClaimsEventsTypeOK, BatchUnderWay, CurrentSettled, Current, PrefixSettled,
         Settled, PassedMessagesExplained, Offsets, ceStart
<1>1. CASE ClaimEventArrives  BY <1>1 DEF ClaimEventArrives
<1>2. CASE StartClaims
  <2>1. ClaimsBeginAt \in 0..ceSize /\ ClaimsBegunPast \in SUBSET Offsets
    BY DEF ClaimsBeginAt, ClaimsBegunPast
  <2>2. /\ ceRunning = "stopped" /\ ceRunning' = "running"
        /\ ceBegan' = ClaimsBeginAt /\ ceNext' = ClaimsBeginAt
        /\ \/ ceFirst = -1 /\ ceFirst' = ClaimsBeginAt /\ ceMissed' = ceMissed
           \/ ceFirst # -1 /\ ceFirst' = ceFirst /\ ceMissed' = ceMissed \cup ClaimsBegunPast
        /\ UNCHANGED <<ceSize, ceCommitted, ceBatch, ceAt, ceBroken, ceHandled, ceLate, ceFailed, ceDead>>
    BY <1>2 DEF StartClaims
  <2>3. ClaimsEventsTypeOK' /\ BatchUnderWay' /\ CurrentSettled'
    <3>1. ceAt' = "idle" /\ ceBatch' = {} /\ ceRunning' = "running"
      BY <2>2
    <3>2. BatchUnderWay' /\ CurrentSettled'
      <4>1. ceFirst' # -1
        BY <2>1, <2>2
      <4>. QED
        BY <3>1, <4>1
    <3>3. ceSize' \in 0..MaxClaimEvents /\ ceNext' \in 0..ceSize' /\ ceBegan' \in 0..ceNext'
      BY <2>1, <2>2
    <3>4. ceCommitted' \in -1..ceSize' /\ ceFirst' \in -1..ceSize'
      BY <2>1, <2>2
    <3>5. ceMissed' \subseteq Offsets
      BY <2>1, <2>2
    <3>. QED
      BY <2>2, <3>1, <3>2, <3>3, <3>4, <3>5
  <2>4. Settled \subseteq Settled'
    BY <2>1, <2>2
  <2>5. \A o \in 1..ceNext' : o \in Settled'
    <3>1. CASE ceCommitted # -1
      BY <2>2, <2>4, <3>1 DEF ClaimsBeginAt
    <3>2. CASE ceCommitted = -1 /\ ceFirst = -1
      BY <2>1, <2>2, <3>2
    <3>3. CASE ceCommitted = -1 /\ ceFirst # -1
      BY <2>2, <2>4, <3>3 DEF ClaimsBeginAt, ClaimsBegunPast
    <3>. QED
      BY <3>1, <3>2, <3>3
  <2>6. PrefixSettled' /\ PassedMessagesExplained'
    BY <2>2, <2>4, <2>5
  <2>. QED
    BY <2>3, <2>6
<1>3. CASE StopClaims         BY <1>3 DEF StopClaims
<1>4. CASE DisconnectClaims   BY <1>4 DEF DisconnectClaims
<1>5. CASE Disconnected       BY <1>5 DEF Disconnected, ClaimsResolved
<1>6. CASE CrashClaims        BY <1>6 DEF CrashClaims
<1>7. CASE CommitClaims       BY <1>7 DEF CommitClaims
<1>8. CASE UNCHANGED ceVars   BY <1>8 DEF ceVars
<1>. QED
  BY <1>1, <1>2, <1>3, <1>4, <1>5, <1>6, <1>7, <1>8

\* A batch that is fetched begins behind the next offset.
LEMMA FetchStep ==
  ASSUME ClaimsEventsInv, FetchBatch
  PROVE  ClaimsEventsInv'
BY ClaimsEventsAssumption
   DEF FetchBatch, ClaimsEventsInv, ClaimsEventsTypeOK, BatchUnderWay, CurrentSettled, PrefixSettled,
       Settled, PassedMessagesExplained, Offsets, ceStart

\* What is left of a batch that is broken off counts as settled.
LEMMA BreakOffStep ==
  ASSUME ClaimsEventsInv, BreakOff
  PROVE  ClaimsEventsInv'
<1>. DEFINE last == CHOOSE o \in ceBatch : \A x \in ceBatch : x <= o
<1>1. ceBatch \in SUBSET (1..ceSize) /\ ceSize \in Nat /\ ceBatch # {}
  BY DEF ClaimsEventsInv, ClaimsEventsTypeOK, BreakOff
<1>2. last \in ceBatch
  <2>1. \E m \in ceBatch : \A x \in ceBatch : x <= m
    BY <1>1, GreatestOf
  <2>. QED
    BY <2>1
<1>3. ceNext' = last /\ ceBatch' = {} /\ ceBroken' = ceBroken \cup ceBatch /\ ceAt' = "idle"
  BY DEF BreakOff
<1>4. UNCHANGED <<ceSize, ceCommitted, ceBegan, ceFirst, ceMissed, ceRunning, ceHandled, ceLate, ceFailed, ceDead>>
  BY DEF BreakOff, ceStart
<1>. HIDE DEF last
<1>5. ClaimsEventsTypeOK'
  BY <1>1, <1>2, <1>3, <1>4, ClaimsEventsAssumption DEF ClaimsEventsInv, ClaimsEventsTypeOK, Offsets
<1>6. BatchUnderWay' /\ CurrentSettled'
  BY <1>1, <1>3, <1>4 DEF ClaimsEventsInv, BatchUnderWay, CurrentSettled
<1>7. PrefixSettled'
  BY <1>2, <1>3, <1>4 DEF ClaimsEventsInv, PrefixSettled, Settled
<1>8. PassedMessagesExplained'
  BY <1>3, <1>4 DEF ClaimsEventsInv, PassedMessagesExplained
<1>. QED
  BY <1>5, <1>6, <1>7, <1>8 DEF ClaimsEventsInv

\* The steps of the handler settle the current message at most.
LEMMA ClaimsHandlerSteps ==
  ASSUME ClaimsEventsInv,
         \/ HandleClaimEvent \/ FireSucceeds \/ FireFails \/ LateClaimCall
         \/ RetrySucceeds \/ Bury \/ RetriesExhausted
  PROVE  ClaimsEventsInv'
<1>1. UNCHANGED <<ceSize, ceNext, ceCommitted, ceBegan, ceFirst, ceMissed, ceBatch, ceRunning, ceBroken>>
  BY DEF HandleClaimEvent, FireSucceeds, FireFails, LateClaimCall, RetrySucceeds, Bury,
         RetriesExhausted, ceFixed, ceStart
<1>2. Current' = Current
  BY <1>1 DEF Current
<1>3. ceHandled \subseteq ceHandled' /\ ceFailed \subseteq ceFailed' /\ ceBatch \subseteq Offsets
  BY ClaimsEventsAssumption
  DEF HandleClaimEvent, FireSucceeds, FireFails, LateClaimCall, RetrySucceeds, Bury,
      RetriesExhausted, Handled, ClaimsEventsInv, ClaimsEventsTypeOK, Offsets
<1>4. ceBatch # {}  => Current \in Offsets
  BY <1>3, CurrentIsLeast DEF ClaimsEventsInv
<1>5. ClaimsEventsTypeOK' /\ BatchUnderWay' /\ CurrentSettled' /\ ceDead' \subseteq ceHandled'
  <2>. USE <1>1, <1>2, <1>4
       DEF ClaimsEventsInv, ClaimsEventsTypeOK, BatchUnderWay, CurrentSettled, PassedMessagesExplained, Handled, ceFixed, ceStart
  <2>1. CASE HandleClaimEvent  BY <2>1 DEF HandleClaimEvent
  <2>2. CASE FireSucceeds      BY <2>2 DEF FireSucceeds
  <2>3. CASE FireFails         BY <2>3 DEF FireFails
  <2>4. CASE LateClaimCall     BY <2>4 DEF LateClaimCall
  <2>5. CASE RetrySucceeds     BY <2>5 DEF RetrySucceeds
  <2>6. CASE Bury              BY <2>6 DEF Bury
  <2>7. CASE RetriesExhausted  BY <2>7 DEF RetriesExhausted
  <2>. QED
    BY <2>1, <2>2, <2>3, <2>4, <2>5, <2>6, <2>7
<1>6. PrefixSettled'
  BY <1>1, <1>3 DEF ClaimsEventsInv, PrefixSettled, Settled
<1>7. PassedMessagesExplained'
  BY <1>1, <1>3, <1>5 DEF ClaimsEventsInv, PassedMessagesExplained
<1>. QED
  BY <1>5, <1>6, <1>7 DEF ClaimsEventsInv

\* The next message: what lies before it is settled, and so is the one that is left.
LEMMA NextMessageStep ==
  ASSUME ClaimsEventsInv, NextMessage
  PROVE  ClaimsEventsInv'
<1>1. ceBatch # {} /\ ceAt \in {"done", "passed"} /\ ceBatch' = ceBatch \ {Current} /\ ceAt' = "idle"
  BY DEF NextMessage
<1>2. UNCHANGED <<ceSize, ceCommitted, ceBegan, ceFirst, ceMissed, ceRunning, ceBroken, ceHandled, ceLate, ceFailed, ceDead>>
  BY DEF NextMessage, ceStart
<1>3. ceNext' = Current \/ ceNext' = ceNext
  BY DEF NextMessage
<1>4. Current \in ceBatch /\ \A x \in ceBatch : Current <= x
  BY <1>1, CurrentIsLeast DEF ClaimsEventsInv
<1>5. Current \in Settled
  BY <1>1 DEF ClaimsEventsInv, CurrentSettled, Settled
<1>6. \A o \in 1..Current : o \in Settled
  <2>1. \A o \in 1..Current : o \in ceBatch \/ o \in Settled
    BY <1>4 DEF ClaimsEventsInv, PrefixSettled
  <2>2. \A o \in 1..Current : o \in ceBatch => o = Current
    BY <1>4 DEF ClaimsEventsInv, ClaimsEventsTypeOK
  <2>. QED
    BY <2>1, <2>2, <1>5
<1>. HIDE DEF Current
<1>7. ClaimsEventsTypeOK'
  BY <1>1, <1>2, <1>3, <1>4, ClaimsEventsAssumption DEF ClaimsEventsInv, ClaimsEventsTypeOK
<1>8. BatchUnderWay' /\ CurrentSettled'
  BY <1>1, <1>2 DEF ClaimsEventsInv, BatchUnderWay, CurrentSettled
<1>9. PrefixSettled'
  BY <1>1, <1>2, <1>3, <1>5, <1>6 DEF ClaimsEventsInv, PrefixSettled, Settled
<1>10. PassedMessagesExplained'
  BY <1>2 DEF ClaimsEventsInv, PassedMessagesExplained
<1>. QED
  BY <1>7, <1>8, <1>9, <1>10 DEF ClaimsEventsInv

\* Every step preserves the invariant.
LEMMA ClaimsEventsNextInv == ClaimsEventsInv /\ [ClaimsEventsNext]_ceVars => ClaimsEventsInv'
BY ClaimsConsumerSteps, FetchStep, BreakOffStep, ClaimsHandlerSteps, NextMessageStep
   DEF ClaimsEventsNext

-----------------------------------------------------------------------------
\* The partition, the batch and the consumer keep their types.
THEOREM ClaimsEventsTyped == ClaimsEventsSpec => []ClaimsEventsTypeOK
<1>1. ClaimsEventsInv => ClaimsEventsTypeOK
  BY DEF ClaimsEventsInv
<1>. QED
  BY ClaimsEventsInitInv, ClaimsEventsNextInv, <1>1, PTL DEF ClaimsEventsSpec

\* Whatever starts, stops, crashes, retries and late calls there are: a message behind
\* the committed offset took effect, was there before the first start, was begun past
\* by a start without a committed offset, failed its retries or was in a batch that was
\* broken off; and only messages that took effect are dead-lettered
\* (ClaimsEventConsumer.ts:73-98, :189-195).
THEOREM PassedMessagesAlwaysExplained == ClaimsEventsSpec => []PassedMessagesExplained
<1>1. ClaimsEventsInv => PassedMessagesExplained
  BY DEF ClaimsEventsInv
<1>. QED
  BY ClaimsEventsInitInv, ClaimsEventsNextInv, <1>1, PTL DEF ClaimsEventsSpec

-----------------------------------------------------------------------------
(* The producers                                                           *)

\* The types, with the domains.
ProducersTypeInv ==
  /\ epConn \in [Producers -> {"new", "connected", "disconnected", "failed", "promised", "closed"}]
  /\ epCall \in [Producers -> Nat] /\ \A p \in Producers : epCall[p] \in 0..Attempts[p]
  /\ epCalls \in [Producers -> 0..MaxPublished]
  /\ epResolved \in [Producers -> Nat] /\ epAcked \in [Producers -> Nat]
  /\ epStored \in [Producers -> Nat]

\* Only the policy producer ever has a connection.
OnlyPolicyConnects ==
  \A p \in Producers \ {"policy"} : epConn[p] \notin {"connected", "disconnected"}

EventProducersInv ==
  /\ ProducersTypeInv
  /\ OnlyPolicyConnects
  /\ ResolvedIsStored

-----------------------------------------------------------------------------
\* The attempts of each producer.
LEMMA AttemptsType == \A p \in Producers : Attempts[p] \in Nat \ {0}
BY DEF Attempts, Producers

\* What becomes of the attempt when it fails: the next one, or none.
LEMMA NextAttempt ==
  ASSUME ProducersTypeInv, NEW p \in Producers,
         epCall' = [epCall EXCEPT ![p] = IF @ < Attempts[p] THEN @ + 1 ELSE 0]
  PROVE  epCall' \in [Producers -> Nat] /\ \A q \in Producers : epCall'[q] \in 0..Attempts[q]
BY AttemptsType DEF ProducersTypeInv

\* The initial state satisfies the invariant.
LEMMA EventProducersInitInv == EventProducersInit => EventProducersInv
BY EventProducersAssumption, AttemptsType
   DEF EventProducersInit, EventProducersInv, ProducersTypeInv, OnlyPolicyConnects, ResolvedIsStored, None, Producers

\* The connections.
LEMMA ConnectionSteps ==
  ASSUME EventProducersInv, \/ ConnectPolicy \/ InitializeClaims \/ BuildUnderwriting \/ Shutdown
               \/ \E p \in Producers : Reconnect(p)
  PROVE  EventProducersInv'
<1>1. UNCHANGED <<epCall, epCalls, epResolved, epAcked, epStored>>
  BY DEF ConnectPolicy, InitializeClaims, BuildUnderwriting, Shutdown, Reconnect
<1>2. ProducersTypeInv' /\ OnlyPolicyConnects'
  <2>. USE <1>1 DEF EventProducersInv, ProducersTypeInv, OnlyPolicyConnects, Producers
  <2>1. CASE ConnectPolicy      BY <2>1 DEF ConnectPolicy
  <2>2. CASE InitializeClaims   BY <2>2 DEF InitializeClaims
  <2>3. CASE BuildUnderwriting  BY <2>3 DEF BuildUnderwriting
  <2>4. CASE Shutdown           BY <2>4 DEF Shutdown
  <2>5. CASE \E p \in Producers : Reconnect(p)
    BY <2>5 DEF Reconnect
  <2>. QED
    BY <2>1, <2>2, <2>3, <2>4, <2>5
<1>3. ResolvedIsStored'
  BY <1>1 DEF EventProducersInv, ResolvedIsStored
<1>. QED
  BY <1>2, <1>3 DEF EventProducersInv

\* A call begins.
LEMMA BeginStep ==
  ASSUME EventProducersInv, NEW p \in Producers, BeginPublish(p)
  PROVE  EventProducersInv'
<1>1. ProducersTypeInv'
  BY AttemptsType, EventProducersAssumption DEF BeginPublish, EventProducersInv, ProducersTypeInv
<1>2. OnlyPolicyConnects' /\ ResolvedIsStored'
  BY DEF BeginPublish, EventProducersInv, OnlyPolicyConnects, ResolvedIsStored
<1>. QED
  BY <1>1, <1>2 DEF EventProducersInv

\* An event that is acknowledged is stored; only a connected producer gets there.
LEMMA AcknowledgedStep ==
  ASSUME EventProducersInv, NEW p \in Producers, SendAcknowledged(p)
  PROVE  EventProducersInv'
<1>1. p = "policy"
  BY DEF SendAcknowledged, EventProducersInv, OnlyPolicyConnects
<1>2. ProducersTypeInv'
  BY AttemptsType DEF SendAcknowledged, EventProducersInv, ProducersTypeInv
<1>3. OnlyPolicyConnects'
  BY DEF SendAcknowledged, EventProducersInv, OnlyPolicyConnects
<1>4. ResolvedIsStored'
  BY <1>1 DEF SendAcknowledged, EventProducersInv, ProducersTypeInv, ResolvedIsStored, Producers
<1>. QED
  BY <1>2, <1>3, <1>4 DEF EventProducersInv

\* A send that fails resolves nothing, and may have stored the event.
LEMMA FailedSteps ==
  ASSUME EventProducersInv, NEW p \in Producers, SendFails(p) \/ SendThrows(p)
  PROVE  EventProducersInv'
<1>1. epCall' = [epCall EXCEPT ![p] = IF @ < Attempts[p] THEN @ + 1 ELSE 0]
  BY DEF SendFails, SendThrows
<1>2. UNCHANGED <<epConn, epCalls, epResolved, epAcked>>
  BY DEF SendFails, SendThrows
<1>3. \/ UNCHANGED epStored
      \/ p = "policy" /\ epStored' = [epStored EXCEPT ![p] = @ + 1]
  BY DEF SendFails, SendThrows, EventProducersInv, OnlyPolicyConnects
<1>4. ProducersTypeInv'
  <2>1. epCall' \in [Producers -> Nat] /\ \A q \in Producers : epCall'[q] \in 0..Attempts[q]
    BY <1>1, NextAttempt DEF EventProducersInv
  <2>. QED
    BY <2>1, <1>2, <1>3 DEF EventProducersInv, ProducersTypeInv
<1>5. OnlyPolicyConnects'
  BY <1>2 DEF EventProducersInv, OnlyPolicyConnects
<1>6. ResolvedIsStored'
  BY <1>2, <1>3 DEF EventProducersInv, ProducersTypeInv, ResolvedIsStored, Producers
<1>. QED
  BY <1>4, <1>5, <1>6 DEF EventProducersInv

\* Every step preserves the invariant.
LEMMA EventProducersNextInv == EventProducersInv /\ [EventProducersNext]_epVars => EventProducersInv'
<1>. SUFFICES ASSUME EventProducersInv, [EventProducersNext]_epVars PROVE EventProducersInv'
  OBVIOUS
<1>1. CASE EventProducersNext
  BY <1>1, ConnectionSteps, BeginStep, AcknowledgedStep, FailedSteps DEF EventProducersNext
<1>2. CASE UNCHANGED epVars
  BY <1>2 DEF epVars, EventProducersInv, ProducersTypeInv, OnlyPolicyConnects, ResolvedIsStored
<1>. QED
  BY <1>1, <1>2

-----------------------------------------------------------------------------
\* The producers and their calls keep their types.
THEOREM EventProducersTyped == EventProducersSpec => []EventProducersTypeOK
<1>1. EventProducersInv => EventProducersTypeOK
  BY DEF EventProducersInv, ProducersTypeInv, EventProducersTypeOK
<1>. QED
  BY EventProducersInitInv, EventProducersNextInv, <1>1, PTL DEF EventProducersSpec

\* However often the brokers are lost and calls are repeated: a publish call that
\* ended without an error has its event in the topic, and the claims and underwriting
\* producers never resolve or store one (ClaimsEventProducer.ts:68,
\* UnderwritingEventProducer.ts:31).
THEOREM ResolvedIsAlwaysStored == EventProducersSpec => []ResolvedIsStored
<1>1. EventProducersInv => ResolvedIsStored
  BY DEF EventProducersInv
<1>. QED
  BY EventProducersInitInv, EventProducersNextInv, <1>1, PTL DEF EventProducersSpec
=============================================================================
