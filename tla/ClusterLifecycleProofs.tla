----------------------- MODULE ClusterLifecycleProofs -----------------------
(***************************************************************************)
(* Proofs about ClusterLifecycle, for any number of workers, connections,  *)
(* restarts and faults: the number of workers is kept, and a restart is    *)
(* announced only when none of its workers is left.                        *)
(***************************************************************************)
EXTENDS ClusterLifecycle, FiniteSetTheorems, TLAPS

\* A process the primary still has to replace no longer runs.
Apart == Up \cap exited = {}

\* A restart has counted exactly the exits of its workers that were handled.
CountInv == \A i \in Restarts : counted[i] = Cardinality(asked[i] \ Known)

\* A restart that has not begun has asked nobody.
FutureInv == \A i \in Restarts : i > signals => asked[i] = {}

IInv ==
  /\ TypeOK
  /\ Apart
  /\ Population
  /\ CountInv
  /\ FutureInv
  /\ AnnouncedTruth

-----------------------------------------------------------------------------
(* Finiteness.                                                             *)

\* Every set of forked workers is finite.
LEMMA ForkedFinite ==
  ASSUME NEW n \in Nat, NEW S \in SUBSET (1..n)
  PROVE  IsFiniteSet(S) /\ Cardinality(S) \in Nat
<1>1. IsFiniteSet(1..n)
  BY FS_Interval
<1>2. IsFiniteSet(S)
  BY <1>1, FS_Subset
<1>. QED
  BY <1>2, FS_CardinalityType

\* The part of a set of workers that the primary no longer has is no larger
\* than the set, and as large only when it has none of them left.
LEMMA GonePart ==
  ASSUME NEW n \in Nat, NEW A \in SUBSET (1..n), NEW K
  PROVE  /\ Cardinality(A \ K) \in 0..Cardinality(A)
         /\ Cardinality(A \ K) = Cardinality(A) => A \cap K = {}
<1>1. IsFiniteSet(A) /\ Cardinality(A) \in Nat
  BY ForkedFinite
<1>2. A \ K \in SUBSET A /\ A \ K \in SUBSET (1..n)
  OBVIOUS
<1>3. Cardinality(A \ K) \in Nat
  BY <1>2, ForkedFinite
<1>4. Cardinality(A \ K) <= Cardinality(A)
  BY <1>1, <1>2, FS_Subset
<1>5. Cardinality(A \ K) = Cardinality(A) => A = A \ K
  BY <1>1, <1>2, FS_Subset
<1>6. A = A \ K => A \cap K = {}
  OBVIOUS
<1>. QED
  BY <1>1, <1>3, <1>4, <1>5, <1>6

\* The invariant holds initially.
LEMMA InitIInv == Init => IInv
<1>. SUFFICES ASSUME Init PROVE IInv
  OBVIOUS
<1>. USE CountsAssumption DEF Init
<1>1. Known = 1..WorkerCount /\ Up = 1..WorkerCount
  BY DEF Known, Up
<1>2. Cardinality(1..WorkerCount) = WorkerCount
  BY FS_Interval
<1>3. Cardinality({}) = 0
  BY FS_EmptySet
<1>4. TypeOK
  BY <1>1, <1>3 DEF TypeOK, Restarts, NoWorker
<1>5. Population
  BY <1>1, <1>2 DEF Population
<1>6. CountInv
  <2>1. \A i \in Restarts : asked[i] \ Known = {}
    OBVIOUS
  <2>. QED
    BY <1>3, <2>1 DEF CountInv
<1>. QED
  BY <1>1, <1>4, <1>5, <1>6 DEF IInv, Apart, FutureInv, AnnouncedTruth

-----------------------------------------------------------------------------
(* Steps of the workers, of clients and of the environment.                *)

\* What does not concern the primary's list of workers or its restarts keeps
\* the invariant, if it keeps the types.
LEMMA ListKept ==
  ASSUME IInv, Known' = Known, UNCHANGED restarts, TypeOK', Apart'
  PROVE  IInv'
<1>. USE DEF IInv, restarts
<1>1. Population'
  BY DEF Population
<1>2. CountInv'
  BY DEF CountInv, Restarts
<1>3. FutureInv'
  BY DEF FutureInv, Restarts
<1>4. AnnouncedTruth'
  BY DEF AnnouncedTruth
<1>. QED
  BY <1>1, <1>2, <1>3, <1>4

\* One more fault stays within the bound.
LEMMA FaultCounted ==
  ASSUME TypeOK, Fault \/ UNCHANGED faults
  PROVE  faults' \in 0..MaxFaults
BY CountsAssumption DEF TypeOK, Fault

\* The end of a process: it is still in the primary's list.
LEMMA ExitStep ==
  ASSUME IInv, NEW p \in Up, Exit(p), Fault \/ UNCHANGED faults
  PROVE  IInv'
<1>. USE DEF Exit, restarts
<1>1. TypeOK /\ Apart
  BY DEF IInv
<1>2. Up' = Up \ {p} /\ exited' = exited \cup {p}
  BY DEF Up
<1>3. Known' = Known
  BY <1>2 DEF Known
<1>4. Apart'
  BY <1>1, <1>2 DEF Apart
<1>5. TypeOK'
  <2>1. primary' \in {"up", "down"} /\ born' \in Nat /\ Known' \subseteq 1..born'
    BY <1>1, <1>3 DEF TypeOK
  <2>2. mail' \subseteq Up'
    BY <1>1, <1>2 DEF TypeOK
  <2>3. open' \in [Conns -> {NoWorker} \cup serving' \cup draining']
    BY <1>1 DEF TypeOK
  <2>4. /\ signals' \in 0..MaxRestarts
        /\ asked' \in [Restarts -> SUBSET (1..born')]
        /\ \A i \in Restarts : counted'[i] \in 0..Cardinality(asked'[i])
        /\ announced' \subseteq 1..signals'
    BY <1>1 DEF TypeOK
  <2>5. faults' \in 0..MaxFaults
    BY <1>1, FaultCounted
  <2>. QED
    BY <2>1, <2>2, <2>3, <2>4, <2>5 DEF TypeOK, Restarts
<1>. QED
  BY <1>3, <1>4, <1>5, ListKept

\* A process that runs on in another state.
LEMMA MoveStep ==
  ASSUME IInv, Up' = Up, UNCHANGED <<primary, born, exited, restarts>>,
         mail' \subseteq mail, serving \cup draining \subseteq serving' \cup draining',
         open' \in [Conns -> {NoWorker} \cup serving \cup draining],
         Fault \/ UNCHANGED faults
  PROVE  IInv'
<1>. USE DEF restarts
<1>1. TypeOK /\ Apart
  BY DEF IInv
<1>2. Known' = Known
  BY DEF Known
<1>3. Apart'
  BY <1>1 DEF Apart
<1>4. TypeOK'
  <2>1. faults' \in 0..MaxFaults
    BY <1>1, FaultCounted
  <2>2. open' \in [Conns -> {NoWorker} \cup serving' \cup draining']
    OBVIOUS
  <2>3. mail' \subseteq Up' /\ Known' \subseteq 1..born'
    BY <1>1, <1>2 DEF TypeOK
  <2>4. /\ signals' \in 0..MaxRestarts
        /\ asked' \in [Restarts -> SUBSET (1..born')]
        /\ \A i \in Restarts : counted'[i] \in 0..Cardinality(asked'[i])
        /\ announced' \subseteq 1..signals'
    BY <1>1 DEF TypeOK
  <2>. QED
    BY <1>1, <2>1, <2>2, <2>3, <2>4 DEF TypeOK, Restarts
<1>. QED
  BY <1>2, <1>3, <1>4, ListKept

\* No step of a worker breaks the invariant.
LEMMA WorkerStep ==
  ASSUME IInv, NEW p \in Up, Worker(p)
  PROVE  IInv'
<1>. USE DEF workers
<1>0. TypeOK
  BY DEF IInv
<1>1. CASE Listen(p)
  <2>1. Up' = Up
    BY <1>1 DEF Listen, Up
  <2>. QED
    BY <1>0, <1>1, <2>1, MoveStep DEF Listen, TypeOK
<1>2. CASE StartFails(p)
  BY <1>2, ExitStep DEF StartFails
<1>3. CASE StartHangs(p)
  <2>1. Up' = Up
    BY <1>3 DEF StartHangs, Up
  <2>. QED
    BY <1>0, <1>3, <2>1, MoveStep DEF StartHangs, TypeOK
<1>4. CASE Accept(p)
  <2>1. Up' = Up
    BY <1>4 DEF Accept, Up
  <2>2. open' \in [Conns -> {NoWorker} \cup serving \cup draining]
    BY <1>0, <1>4 DEF Accept, TypeOK
  <2>. QED
    BY <1>4, <2>1, <2>2, MoveStep DEF Accept
<1>5. CASE ReadMail(p)
  <2>1. Up' = Up
    BY <1>5 DEF ReadMail, Up
  <2>. QED
    BY <1>0, <1>5, <2>1, MoveStep DEF ReadMail, TypeOK
<1>6. CASE Signal(p)
  <2>1. Up' = Up
    BY <1>6 DEF Signal, Up
  <2>. QED
    BY <1>0, <1>6, <2>1, MoveStep DEF Signal, TypeOK
<1>7. CASE Drained(p)
  BY <1>7, ExitStep DEF Drained
<1>8. CASE DrainTimeout(p)
  BY <1>8, ExitStep DEF DrainTimeout
<1>9. CASE Crash(p)
  BY <1>9, ExitStep DEF Crash
<1>10. CASE Orphaned(p)
  BY <1>10, ExitStep DEF Orphaned
<1>. QED
  BY <1>1, <1>2, <1>3, <1>4, <1>5, <1>6, <1>7, <1>8, <1>9, <1>10 DEF Worker

\* Nor does the end of a connection.
LEMMA CloseStep ==
  ASSUME IInv, NEW c \in Conns, Close(c)
  PROVE  IInv'
<1>1. Up' = Up
  BY DEF Close, Up, workers
<1>2. open' \in [Conns -> {NoWorker} \cup serving \cup draining]
  BY DEF Close, IInv, TypeOK
<1>. QED
  BY <1>1, <1>2, MoveStep DEF Close, workers

\* Nor does the death of the primary.
LEMMA PrimaryStopsStep ==
  ASSUME IInv, PrimaryStops
  PROVE  IInv'
<1>. USE DEF PrimaryStops, workers, restarts
<1>1. Known' = Known /\ Up' = Up
  BY DEF Known, Up
<1>2. TypeOK'
  BY <1>1 DEF IInv, TypeOK, Restarts
<1>3. Apart'
  BY <1>1 DEF IInv, Apart
<1>. QED
  BY <1>1, <1>2, <1>3, ListKept

-----------------------------------------------------------------------------
(* Steps of the primary.                                                   *)

\* A restart begins: all its workers are there, none is counted.
LEMMA RestartStep ==
  ASSUME IInv, Restart
  PROVE  IInv'
<1>. USE CountsAssumption DEF Restart, workers
<1>. DEFINE r == signals + 1
<1>0. TypeOK /\ Apart /\ Population /\ CountInv /\ FutureInv /\ AnnouncedTruth
  BY DEF IInv
<1>1. Known' = Known /\ Up' = Up
  BY DEF Known, Up
<1>2. r \in Restarts /\ asked[r] = {} /\ signals \in Nat
  BY <1>0 DEF TypeOK, FutureInv, Restarts
<1>3. /\ asked'[r] = Known
      /\ \A i \in Restarts : i # r => asked'[i] = asked[i]
  BY <1>0, <1>2 DEF TypeOK
<1>4. asked' \in [Restarts -> SUBSET (1..born')]
  BY <1>0, <1>2 DEF TypeOK
<1>5. CountInv'
  <2>. SUFFICES ASSUME NEW i \in Restarts
                PROVE  counted'[i] = Cardinality(asked'[i] \ Known')
    BY DEF CountInv, Restarts
  <2>1. asked'[i] \ Known' = asked[i] \ Known
    <3>1. CASE i = r
      BY <1>1, <1>2, <1>3, <3>1
    <3>2. CASE i # r
      BY <1>1, <1>3, <3>2
    <3>. QED
      BY <3>1, <3>2
  <2>. QED
    BY <1>0, <2>1 DEF CountInv
<1>6. FutureInv'
  BY <1>0, <1>2, <1>3 DEF FutureInv, Restarts
<1>7. AnnouncedTruth'
  BY <1>0, <1>1, <1>2, <1>3 DEF AnnouncedTruth, TypeOK, Restarts
<1>8. \A i \in Restarts : counted'[i] \in 0..Cardinality(asked'[i])
  <2>. SUFFICES ASSUME NEW i \in Restarts
                PROVE  counted'[i] \in 0..Cardinality(asked'[i])
    OBVIOUS
  <2>1. asked'[i] \in SUBSET (1..born') /\ born' \in Nat
    BY <1>0, <1>4 DEF TypeOK
  <2>2. Cardinality(asked'[i] \ Known') \in 0..Cardinality(asked'[i])
    BY <2>1, GonePart
  <2>. QED
    BY <1>5, <2>2 DEF CountInv, Restarts
<1>9. TypeOK'
  BY <1>0, <1>1, <1>2, <1>4, <1>8 DEF TypeOK, Restarts
<1>. QED
  BY <1>0, <1>1, <1>5, <1>6, <1>7, <1>9 DEF IInv, Apart, Population

\* A worker's exit is handled: it leaves the list, a new one enters, and each
\* restart that had asked it counts one more.
LEMMA ReplaceStep ==
  ASSUME IInv, NEW p \in exited, Replace(p)
  PROVE  IInv'
<1>. USE DEF Replace
<1>. DEFINE q == born + 1
<1>0. TypeOK /\ Apart /\ Population /\ CountInv /\ FutureInv /\ AnnouncedTruth
  BY DEF IInv
<1>1. born \in Nat /\ born' = q /\ Known \subseteq 1..born /\ p \in Known
  BY <1>0 DEF TypeOK, Known
<1>2. q \notin Known /\ q # p
  BY <1>1
<1>3. Up' = Up \cup {q}
  BY DEF Up
<1>4. Known' = (Known \ {p}) \cup {q}
  BY <1>0, <1>3 DEF Known, Apart
<1>5. Apart'
  BY <1>0, <1>2, <1>3 DEF Apart, Known
<1>6. Population'
  <2>1. IsFiniteSet(Known)
    BY <1>1, ForkedFinite
  <2>2. /\ IsFiniteSet(Known \ {p})
        /\ Cardinality(Known \ {p}) = Cardinality(Known) - 1
    BY <1>1, <2>1, FS_RemoveElement
  <2>3. Cardinality((Known \ {p}) \cup {q}) = Cardinality(Known \ {p}) + 1
    BY <1>2, <2>2, FS_AddElement
  <2>4. Cardinality(Known) \in Nat
    BY <1>1, ForkedFinite
  <2>. QED
    BY <1>0, <1>4, <2>2, <2>3, <2>4 DEF Population
<1>7. \A i \in Restarts : asked[i] \in SUBSET (1..born) /\ q \notin asked[i]
  BY <1>0, <1>1 DEF TypeOK
<1>8. \A i \in Restarts :
        counted'[i] = IF p \in asked[i] THEN counted[i] + 1 ELSE counted[i]
  BY DEF HearExit
<1>9. UNCHANGED <<signals, asked>>
  BY DEF HearExit
<1>10. CountInv'
  <2>. SUFFICES ASSUME NEW i \in Restarts
                PROVE  counted'[i] = Cardinality(asked[i] \ Known')
    BY <1>9 DEF CountInv, Restarts
  <2>1. CASE p \in asked[i]
    <3>1. asked[i] \ Known' = (asked[i] \ Known) \cup {p}
      BY <1>1, <1>2, <1>4, <1>7, <2>1
    <3>2. asked[i] \ Known \in SUBSET (1..born)
      BY <1>7
    <3>3. IsFiniteSet(asked[i] \ Known)
      BY <1>1, <3>2, ForkedFinite
    <3>4. p \notin asked[i] \ Known
      BY <1>1
    <3>5. Cardinality((asked[i] \ Known) \cup {p}) = Cardinality(asked[i] \ Known) + 1
      BY <3>3, <3>4, FS_AddElement
    <3>. QED
      BY <1>0, <1>8, <2>1, <3>1, <3>5 DEF CountInv
  <2>2. CASE p \notin asked[i]
    <3>1. asked[i] \ Known' = asked[i] \ Known
      BY <1>4, <1>7, <2>2
    <3>. QED
      BY <1>0, <1>8, <2>2, <3>1 DEF CountInv
  <2>. QED
    BY <2>1, <2>2
<1>11. FutureInv'
  BY <1>0, <1>9 DEF FutureInv, Restarts
<1>12. announced' \subseteq Restarts
  <2>1. announced \subseteq Restarts
    BY <1>0, CountsAssumption DEF TypeOK, Restarts
  <2>2. announced' \subseteq announced \cup Restarts
    BY DEF HearExit
  <2>. QED
    BY <2>1, <2>2
<1>13. AnnouncedTruth'
  <2>. SUFFICES ASSUME NEW i \in announced' PROVE asked[i] \cap Known' = {}
    BY <1>9 DEF AnnouncedTruth
  <2>0. i \in Restarts
    BY <1>12
  <2>1. CASE i \in announced
    BY <1>0, <1>4, <1>7, <2>0, <2>1 DEF AnnouncedTruth
  <2>2. CASE i \notin announced
    <3>1. p \in asked[i] /\ counted[i] + 1 = Cardinality(asked[i])
      BY <2>0, <2>2 DEF HearExit
    <3>2. counted'[i] = Cardinality(asked[i])
      BY <1>8, <2>0, <3>1
    <3>3. Cardinality(asked[i] \ Known') = Cardinality(asked[i])
      BY <1>9, <1>10, <2>0, <3>2 DEF CountInv, Restarts
    <3>. QED
      BY <1>1, <1>7, <2>0, <3>3, GonePart
  <2>. QED
    BY <2>1, <2>2
<1>14. announced' \subseteq 1..signals'
  <2>. SUFFICES ASSUME NEW i \in announced' PROVE i \in 1..signals
    BY <1>9
  <2>1. CASE i \in announced
    BY <1>0, <2>1 DEF TypeOK
  <2>2. CASE i \notin announced
    <3>1. i \in Restarts /\ asked[i] # {}
      BY <1>12, <2>2 DEF HearExit
    <3>. QED
      BY <1>0, <3>1 DEF FutureInv, Restarts, TypeOK
  <2>. QED
    BY <2>1, <2>2
<1>15. \A i \in Restarts : counted'[i] \in 0..Cardinality(asked'[i])
  <2>. SUFFICES ASSUME NEW i \in Restarts
                PROVE  counted'[i] \in 0..Cardinality(asked[i])
    BY <1>9
  <2>1. Cardinality(asked[i] \ Known') \in 0..Cardinality(asked[i])
    BY <1>1, <1>7, GonePart
  <2>. QED
    BY <1>9, <1>10, <2>1 DEF CountInv, Restarts
<1>16. TypeOK'
  <2>1. Known' \subseteq 1..born' /\ born' \in Nat
    BY <1>1, <1>4
  <2>2. mail' \subseteq Up'
    BY <1>0, <1>3 DEF TypeOK
  <2>3. asked' \in [Restarts -> SUBSET (1..born')]
    <3>1. 1..born \subseteq 1..born'
      BY <1>1
    <3>2. asked \in [Restarts -> SUBSET (1..born)]
      BY <1>0 DEF TypeOK
    <3>. QED
      BY <1>9, <3>1, <3>2
  <2>. QED
    BY <1>0, <1>9, <1>14, <1>15, <2>1, <2>2, <2>3 DEF TypeOK, Restarts
<1>. QED
  BY <1>5, <1>6, <1>10, <1>11, <1>13, <1>16 DEF IInv

-----------------------------------------------------------------------------
(* The theorems.                                                           *)

\* Steps that change nothing keep the invariant.
LEMMA StutterStep ==
  ASSUME IInv, UNCHANGED vars
  PROVE  IInv'
<1>1. Known' = Known /\ Up' = Up
  BY DEF vars, workers, Known, Up
<1>2. TypeOK'
  BY <1>1 DEF IInv, TypeOK, vars, workers, restarts, Restarts
<1>3. Apart'
  BY <1>1 DEF IInv, Apart, vars, workers
<1>. QED
  BY <1>1, <1>2, <1>3, ListKept DEF vars

\* The inductive invariant of server.ts's processes.
THEOREM ClusterInvariance == Spec => []IInv
<1>1. Init => IInv
  BY InitIInv
<1>2. IInv /\ [Next]_vars => IInv'
  BY WorkerStep, CloseStep, PrimaryStopsStep, RestartStep, ReplaceStep, StutterStep
     DEF Next
<1>. QED
  BY <1>1, <1>2, PTL DEF Spec

\* Type correctness; no restart counts more exits than it has workers
\* (server.ts:72-79).
THEOREM ClusterTypeCorrect == Spec => []TypeOK
<1>1. IInv => TypeOK
  BY DEF IInv
<1>. QED
  BY <1>1, ClusterInvariance, PTL

\* The primary keeps as many workers as it was configured to have, whatever
\* deaths and restarts overlap (server.ts:56-65).
THEOREM PopulationKept == Spec => []Population
<1>1. IInv => Population
  BY DEF IInv
<1>. QED
  BY <1>1, ClusterInvariance, PTL

\* A restart is announced only when none of the workers it asked is left
\* (server.ts:72-79).
THEOREM AnnouncementsAreTrue == Spec => []AnnouncedTruth
<1>1. IInv => AnnouncedTruth
  BY DEF IInv
<1>. QED
  BY <1>1, ClusterInvariance, PTL
=============================================================================
