---------------------------- MODULE ServicesProofs ----------------------------
(***************************************************************************)
(* What the services of the server keep: claims and their transactions,    *)
(* the approvals of underwriting, the endorsements, and the documents.     *)
(***************************************************************************)
EXTENDS ClaimsServer, UnderwritingServer, Endorsements, DocumentStore, FiniteSets,
        FiniteSetTheorems, SequenceTheorems, TLAPS

-----------------------------------------------------------------------------
(* The claims service                                                      *)

Layer == [created : SUBSET Requests, row : SUBSET ServerStatuses]
Creations == {"create", "nested"}
ClaimUpdates == {"status", "reserves", "event"}
RequestType == [op : {"none", "create", "nested", "status", "reserves", "event"},
                at : {"free", "checking", "begin", "publishing"} \cup InTransaction,
                to : ServerStatuses]

Inside == {q \in Requests : slCalls[q].at \in InTransaction}

\* One open transaction for each request inside its own.
StackMatches == IsFiniteSet(Inside) /\ Cardinality(Inside) = Len(slStack)

\* What a request is at the stages of its operation.
Stage(q) ==
  /\ slCalls[q].at # "free" => slCalls[q].op # "none"
  /\ slCalls[q].at \in {"numbering", "asking"} => slCalls[q].op \in Creations
  /\ slCalls[q].at \in {"checking", "loading", "modelSaving"} => slCalls[q].op \in ClaimUpdates
  /\ slCalls[q].op \in Creations /\ slCalls[q].at \in {"saving", "committing"} => q \in slCarrier

\* A claim is written, and kept, only with one at the carrier.
Carried ==
  /\ slMade \subseteq slCarrier
  /\ \A i \in 1..Len(slStack) : slStack[i].created \subseteq slCarrier

\* Two requests under way have raced, both of them.
RacedPairs ==
  \A q, r \in Requests : q # r /\ slCalls[q].at # "free" /\ slCalls[r].at # "free" => q \in slRaced

\* A request that has not raced: its move is still the one that was checked, by the
\* validator or, for an event, by the repository, its
\* transaction is the only one, and holds what it has written.
Own(q) ==
  slCalls[q].at # "free" /\ q \notin slRaced =>
    /\ slCalls[q].op = "status" /\ slCalls[q].at \in {"begin", "loading", "modelSaving"}
         => slCalls[q].to \in AllowedMoves[slRow]
    /\ slCalls[q].op = "event" /\ slCalls[q].at = "modelSaving"
         => ~Forbids(slRow, slCalls[q].to)
    /\ slCalls[q].op = "reserves" /\ slCalls[q].at \in {"begin", "loading", "modelSaving"}
         => slCalls[q].to = slRow
    /\ slCalls[q].op \in ClaimUpdates /\ slCalls[q].at \in {"saving", "committing"}
         => slCalls[q].to = slRow
    /\ slCalls[q].at \in InTransaction => slStack[1].row \subseteq {slRow}
    /\ slCalls[q].op \in Creations /\ slCalls[q].at = "committing" => q \in slStack[1].created

Announced(q) == slCalls[q].at = "publishing" => q \in slMade \cup slRaced

ClaimsServerInv ==
  /\ ClaimsServerTypeOK /\ StackMatches /\ Carried /\ RacedPairs
  /\ \A q \in Requests : Stage(q) /\ Own(q) /\ Announced(q)

-----------------------------------------------------------------------------
\* Sequences as stacks.
LEMMA Push ==
  ASSUME NEW S, NEW s \in Seq(S), NEW e \in S
  PROVE  /\ Append(s, e) \in Seq(S) /\ Len(Append(s, e)) = Len(s) + 1
         /\ \A i \in 1..Len(s) : Append(s, e)[i] = s[i]
         /\ Append(s, e)[Len(s) + 1] = e
         /\ \A i \in 1..Len(Append(s, e)) : i \in 1..Len(s) \/ Append(s, e)[i] = e
OBVIOUS

LEMMA BelowTop ==
  ASSUME NEW m \in Nat
  PROVE  m - 1 + 1 = m /\ (1 <= m \/ m = 0) /\ \A i \in 1..m : 1 + i - 1 = i
OBVIOUS

LEMMA PopTop ==
  ASSUME NEW S, NEW s \in Seq(S), Len(s) >= 1
  PROVE  LET t == SubSeq(s, 1, Len(s) - 1)
         IN  /\ t \in Seq(S) /\ Len(t) = Len(s) - 1
             /\ \A i \in 1..Len(t) : t[i] = s[i] /\ i \in 1..Len(s)
             /\ (t = <<>>) <=> (Len(s) = 1)
<1>. DEFINE n == Len(s) t == SubSeq(s, 1, n - 1)
<1>1. n \in Nat /\ n >= 1 /\ n - 1 \in Nat
  OBVIOUS
<1>2. t \in Seq(S) /\ Len(t) = n - 1 /\ \A i \in 1..(n - 1) : t[i] = s[i]
  <2>. DEFINE m == n - 1
  <2>1. m \in Int /\ \A i \in 1..m : s[i] \in S
    BY <1>1
  <2>2. m - 1 + 1 = m /\ (1 <= m \/ m = 0) /\ \A i \in 1..m : 1 + i - 1 = i
    <3>1. m \in Nat
      BY <1>1
    <3>. HIDE DEF m
    <3>. QED
      BY <3>1, BelowTop
  <2>. HIDE DEF m
  <2>3. /\ SubSeq(s, 1, m) \in Seq(S)
        /\ Len(SubSeq(s, 1, m)) = IF 1 <= m THEN m - 1 + 1 ELSE 0
        /\ \A i \in 1..(m - 1 + 1) : SubSeq(s, 1, m)[i] = s[1 + i - 1]
    BY <2>1, SubSeqProperties
  <2>4. Len(SubSeq(s, 1, m)) = m
    BY <2>2, <2>3
  <2>5. \A i \in 1..m : SubSeq(s, 1, m)[i] = s[i]
    BY <2>2, <2>3
  <2>. QED
    BY <2>3, <2>4, <2>5 DEF m
<1>3. \A i \in 1..(n - 1) : i \in 1..n
  BY <1>1
<1>4. (n = 1) <=> (n - 1 = 0)
  BY <1>1
<1>5. (t = <<>>) <=> (Len(t) = 0)
  <2>. HIDE DEF t
  <2>1. t # <<>> => Len(t) \in Nat \ {0}
    BY <1>2, EmptySeq
  <2>2. Len(<<>>) = 0
    BY EmptySeq
  <2>. QED
    BY <2>1, <2>2
<1>. QED
  BY <1>2, <1>3, <1>4, <1>5

LEMMA ChangeTop ==
  ASSUME NEW S, NEW s \in Seq(S), Len(s) >= 1, NEW e \in S
  PROVE  LET t == [s EXCEPT ![Len(s)] = e]
         IN  /\ t \in Seq(S) /\ Len(t) = Len(s) /\ t[Len(s)] = e
             /\ \A i \in 1..Len(s) : t[i] = s[i] \/ t[i] = e
OBVIOUS

\* Counting who is inside a transaction.
LEMMA Enters ==
  ASSUME StackMatches, NEW q \in Requests, q \notin Inside, Inside' = Inside \cup {q},
         Len(slStack') = Len(slStack) + 1
  PROVE  StackMatches'
BY FS_AddElement DEF StackMatches

LEMMA Leaves ==
  ASSUME StackMatches, NEW q \in Requests, q \in Inside, Inside' = Inside \ {q},
         Len(slStack') = Len(slStack) - 1
  PROVE  StackMatches'
BY FS_RemoveElement DEF StackMatches

LEMMA Stays ==
  ASSUME StackMatches, Inside' = Inside, Len(slStack') = Len(slStack)
  PROVE  StackMatches'
BY DEF StackMatches

\* A request inside a transaction has a layer; one that has not raced has the only one.
LEMMA LayersOfRequests ==
  ASSUME ClaimsServerInv, NEW q \in Inside
  PROVE  /\ slStack \in Seq(Layer) /\ Len(slStack) \in Nat /\ Len(slStack) >= 1
         /\ q \notin slRaced => Len(slStack) = 1
<1>1. slStack \in Seq(Layer) /\ Len(slStack) \in Nat
  BY DEF ClaimsServerInv, ClaimsServerTypeOK, Layer
<1>2. Len(slStack) >= 1
  <2>1. Cardinality(Inside) # 0 /\ Cardinality(Inside) \in Nat
    BY FS_EmptySet, FS_CardinalityType DEF ClaimsServerInv, StackMatches
  <2>. QED
    BY <2>1, <1>1 DEF ClaimsServerInv, StackMatches
<1>3. ASSUME q \notin slRaced PROVE Len(slStack) = 1
  <2>1. q \in Requests /\ slCalls[q].at # "free"
    BY DEF Inside, InTransaction
  <2>2. \A r \in Inside : r = q
    BY <1>3, <2>1 DEF ClaimsServerInv, RacedPairs, Inside, InTransaction
  <2>3. Inside = {q}
    BY <2>2
  <2>. QED
    BY <2>3, FS_Singleton DEF ClaimsServerInv, StackMatches
<1>. QED
  BY <1>1, <1>2, <1>3

LEMMA ClaimsServerInitInv == ClaimsServerInit => ClaimsServerInv
<1>. SUFFICES ASSUME ClaimsServerInit PROVE ClaimsServerInv
  OBVIOUS
<1>1. NoRequest \in RequestType /\ NoRequest.at = "free" /\ NoRequest.op = "none"
  BY DEF NoRequest, RequestType, ServerStatuses
<1>2. slCalls \in [Requests -> RequestType] /\ \A q \in Requests : slCalls[q].at = "free"
  BY <1>1 DEF ClaimsServerInit
<1>3. slStack \in Seq(Layer) /\ Len(slStack) = 0
  BY DEF ClaimsServerInit
<1>4. ClaimsServerTypeOK
  BY <1>2, <1>3 DEF ClaimsServerInit, ClaimsServerTypeOK, ServerStatuses, RequestType, Layer
<1>5. Inside = {}
  BY <1>2 DEF Inside, InTransaction
<1>6. StackMatches
  BY <1>3, <1>5, FS_EmptySet DEF StackMatches
<1>7. Carried
  BY <1>3 DEF Carried, ClaimsServerInit
<1>8. \A q \in Requests : slCalls[q].op = "none"
  BY <1>1 DEF ClaimsServerInit
<1>. QED
  BY <1>2, <1>4, <1>6, <1>7, <1>8
     DEF ClaimsServerInv, RacedPairs, Stage, Own, Announced, Creations, ClaimUpdates

-----------------------------------------------------------------------------
\* A request under way moves.  Those that were under way with it have raced, so what
\* is to be shown is about the request itself, and the counts.
LEMMA ServerStep ==
  ASSUME ClaimsServerInv, NEW q \in Requests, slCalls[q].at # "free",
         ClaimsServerTypeOK', StackMatches', Carried',
         slRaced \subseteq slRaced', slCarrier \subseteq slCarrier', slMade \subseteq slMade',
         \A r \in Requests \ {q} :
           \/ slCalls'[r] = slCalls[r]
           \/ r \in slRaced' /\ q \in slRaced' /\ Stage(r)',
         Stage(q)', Own(q)', Announced(q)'
  PROVE  ClaimsServerInv'
<1>1. \A r \in Requests \ {q} : slCalls'[r].at # "free" => r \in slRaced' /\ q \in slRaced'
  BY DEF ClaimsServerInv, RacedPairs
<1>2. RacedPairs'
  BY <1>1 DEF RacedPairs
<1>3. \A r \in Requests \ {q} : Stage(r)'
  BY DEF ClaimsServerInv, Stage
<1>4. \A r \in Requests \ {q} : Own(r)' /\ Announced(r)'
  BY <1>1 DEF Own, Announced
<1>. QED
  BY <1>2, <1>3, <1>4 DEF ClaimsServerInv

\* The place a request moves to.
LEMMA Moves ==
  ASSUME ClaimsServerInv, NEW q \in Requests,
         NEW at \in {"checking", "begin", "publishing"} \cup InTransaction, ToPlace(q, at)
  PROVE  /\ slCalls' \in [Requests -> RequestType]
         /\ slCalls'[q].at = at /\ slCalls'[q].op = slCalls[q].op /\ slCalls'[q].to = slCalls[q].to
         /\ \A r \in Requests \ {q} : slCalls'[r] = slCalls[r]
         /\ at \in InTransaction => Inside' = Inside \cup {q}
         /\ at \notin InTransaction => Inside' = Inside \ {q}
<1>1. slCalls \in [Requests -> RequestType]
  BY DEF ClaimsServerInv, ClaimsServerTypeOK, RequestType
<1>2. slCalls' = [slCalls EXCEPT ![q].at = at]
  BY DEF ToPlace, InTransaction
<1>. DEFINE call == [slCalls[q] EXCEPT !.at = at]
<1>3. call \in RequestType /\ call.at = at /\ call.op = slCalls[q].op /\ call.to = slCalls[q].to
  BY <1>1 DEF RequestType
<1>4. slCalls' = [slCalls EXCEPT ![q] = call]
  BY <1>2
<1>. HIDE DEF call
<1>5. slCalls' \in [Requests -> RequestType] /\ slCalls'[q] = call
      /\ \A r \in Requests \ {q} : slCalls'[r] = slCalls[r]
  BY <1>1, <1>3, <1>4
<1>. QED
  BY <1>3, <1>5 DEF Inside

LEMMA Frees ==
  ASSUME ClaimsServerInv, NEW q \in Requests, ToPlace(q, "free")
  PROVE  /\ slCalls' \in [Requests -> RequestType] /\ slCalls'[q] = NoRequest
         /\ \A r \in Requests \ {q} : slCalls'[r] = slCalls[r]
         /\ Inside' = Inside \ {q}
         /\ Stage(q)' /\ Own(q)' /\ Announced(q)'
<1>1. slCalls \in [Requests -> RequestType] /\ slCalls' = [slCalls EXCEPT ![q] = NoRequest]
  BY DEF ClaimsServerInv, ClaimsServerTypeOK, RequestType, ToPlace
<1>2. NoRequest \in RequestType /\ NoRequest.at = "free" /\ NoRequest.op = "none"
  BY DEF NoRequest, RequestType, ServerStatuses
<1>3. slCalls' \in [Requests -> RequestType] /\ slCalls'[q] = NoRequest
      /\ \A r \in Requests \ {q} : slCalls'[r] = slCalls[r]
  BY <1>1, <1>2
<1>. QED
  BY <1>2, <1>3 DEF Inside, InTransaction, Stage, Own, Announced, Creations, ClaimUpdates

LEMMA ServerTypes ==
  ASSUME ClaimsServerInv,
         slRow' \in ServerStatuses, slStack' \in Seq(Layer), slCalls' \in [Requests -> RequestType],
         slMade' \subseteq Requests, slCarrier' \subseteq Requests, slRaced' \subseteq Requests
  PROVE  ClaimsServerTypeOK'
BY DEF ClaimsServerTypeOK, Layer, RequestType

LEMMA ServerTypesNow ==
  ASSUME ClaimsServerInv
  PROVE  /\ slRow \in ServerStatuses /\ slStack \in Seq(Layer) /\ slCalls \in [Requests -> RequestType]
         /\ slMade \subseteq Requests /\ slCarrier \subseteq Requests /\ slRaced \subseteq Requests
BY DEF ClaimsServerInv, ClaimsServerTypeOK, Layer, RequestType

-----------------------------------------------------------------------------
\* A request arrives: it races with all that are under way, or it is alone.
LEMMA ArriveStep ==
  ASSUME ClaimsServerInv, NEW q \in Requests, NEW op \in {"create", "status", "reserves", "event"},
         NEW at \in {"checking", "begin"}, NEW to \in ServerStatuses, Arrive(q, op, at, to),
         op \in {"status", "reserves"} => at = "checking",
         op \in {"create", "event"} => at = "begin"
  PROVE  ClaimsServerInv'
<1>. DEFINE call == [op |-> op, at |-> at, to |-> to]
<1>1. call \in RequestType /\ call.op = op /\ call.at = at
  BY DEF RequestType
<1>2. slCalls[q].at = "free" /\ slCalls' = [slCalls EXCEPT ![q] = call] /\ slRaced' = Raced(q)
      /\ UNCHANGED <<slRow, slStack, slMade, slCarrier>>
  BY DEF Arrive
<1>. HIDE DEF call
<1>3. slCalls' \in [Requests -> RequestType] /\ slCalls'[q] = call
      /\ \A r \in Requests \ {q} : slCalls'[r] = slCalls[r]
  BY <1>1, <1>2, ServerTypesNow
<1>4. Inside' = Inside
  BY <1>1, <1>2, <1>3 DEF Inside, InTransaction
<1>5. /\ slRaced' \subseteq Requests
      /\ \A r \in Requests \ {q} : slCalls'[r].at # "free" => r \in slRaced' /\ q \in slRaced'
  BY <1>2, <1>3, ServerTypesNow DEF Raced, Idle
<1>6. ClaimsServerTypeOK'
  BY <1>2, <1>3, <1>5, ServerTypesNow, ServerTypes
<1>7. StackMatches' /\ Carried'
  BY <1>2, <1>4, Stays DEF ClaimsServerInv, Carried
<1>8. RacedPairs'
  BY <1>5 DEF RacedPairs
<1>9. Stage(q)' /\ Own(q)' /\ Announced(q)'
  BY <1>1, <1>3 DEF Stage, Own, Announced, Creations, ClaimUpdates, InTransaction
<1>10. \A r \in Requests \ {q} : Stage(r)' /\ Own(r)' /\ Announced(r)'
  BY <1>2, <1>3, <1>5 DEF ClaimsServerInv, Stage, Own, Announced
<1>. QED
  BY <1>6, <1>7, <1>8, <1>9, <1>10 DEF ClaimsServerInv

\* Before the transaction: the move is checked, or the status read.
LEMMA CheckStep ==
  ASSUME ClaimsServerInv, NEW q \in Requests, CheckMove(q) \/ ReadStatus(q)
  PROVE  ClaimsServerInv'
<1>1. /\ slCalls[q].at = "checking" /\ UNCHANGED <<slRow, slStack, slMade, slCarrier, slRaced>>
      /\ q \notin Inside
  BY DEF CheckMove, ReadStatus, Inside, InTransaction
<1>2. CASE CheckMove(q) /\ slCalls[q].to \notin AllowedMoves[slRow]
  <2>1. ToPlace(q, "free")
    BY <1>2 DEF CheckMove
  <2>2. ClaimsServerTypeOK' /\ StackMatches' /\ Carried'
    BY <1>1, <2>1, Frees, Stays, ServerTypes, ServerTypesNow DEF ClaimsServerInv, Carried
  <2>. QED
    BY <1>1, <2>1, <2>2, Frees, ServerStep
<1>3. CASE CheckMove(q) /\ slCalls[q].to \in AllowedMoves[slRow]
  <2>1. ToPlace(q, "begin") /\ slCalls[q].op = "status"
    BY <1>3 DEF CheckMove
  <2>2. /\ slCalls' \in [Requests -> RequestType]
        /\ slCalls'[q].at = "begin" /\ slCalls'[q].op = "status" /\ slCalls'[q].to = slCalls[q].to
        /\ \A r \in Requests \ {q} : slCalls'[r] = slCalls[r] /\ Inside' = Inside
    BY <1>1, <2>1, Moves DEF InTransaction
  <2>3. Inside' = Inside
    BY <1>1, <2>1, Moves DEF InTransaction
  <2>4. ClaimsServerTypeOK' /\ StackMatches' /\ Carried'
    BY <1>1, <2>2, <2>3, Stays, ServerTypes, ServerTypesNow DEF ClaimsServerInv, Carried
  <2>5. Stage(q)' /\ Own(q)' /\ Announced(q)'
    BY <1>1, <1>3, <2>2 DEF Stage, Own, Announced, Creations, ClaimUpdates, InTransaction
  <2>. QED
    BY <1>1, <2>2, <2>4, <2>5, ServerStep
<1>4. CASE ReadStatus(q)
  <2>. DEFINE call == [slCalls[q] EXCEPT !.at = "begin", !.to = slRow]
  <2>1. call \in RequestType /\ call.at = "begin" /\ call.op = "reserves" /\ call.to = slRow
    BY <1>4, ServerTypesNow DEF ReadStatus, RequestType
  <2>2. slCalls' = [slCalls EXCEPT ![q] = call]
    BY <1>4 DEF ReadStatus
  <2>. HIDE DEF call
  <2>3. slCalls' \in [Requests -> RequestType] /\ slCalls'[q] = call
        /\ \A r \in Requests \ {q} : slCalls'[r] = slCalls[r]
    BY <2>1, <2>2, ServerTypesNow
  <2>4. Inside' = Inside
    BY <1>1, <2>1, <2>3 DEF Inside, InTransaction
  <2>5. ClaimsServerTypeOK' /\ StackMatches' /\ Carried'
    BY <1>1, <2>3, <2>4, Stays, ServerTypes, ServerTypesNow DEF ClaimsServerInv, Carried
  <2>6. Stage(q)' /\ Own(q)' /\ Announced(q)'
    BY <1>1, <2>1, <2>3 DEF Stage, Own, Announced, Creations, ClaimUpdates, InTransaction
  <2>. QED
    BY <1>1, <2>3, <2>5, <2>6, ServerStep
<1>. QED
  BY <1>2, <1>3, <1>4 DEF CheckMove

\* A transaction begins: a layer more, and empty.
LEMMA StartStep ==
  ASSUME ClaimsServerInv, NEW q \in Requests, Start(q)
  PROVE  ClaimsServerInv'
<1>1. PICK at \in {"numbering", "loading"} :
        ToPlace(q, at) /\ at = IF slCalls[q].op \in Creations THEN "numbering" ELSE "loading"
  BY DEF Start, Creations
<1>2. /\ slCalls[q].at = "begin" /\ slStack' = Append(slStack, NoWrites)
      /\ UNCHANGED <<slRow, slMade, slCarrier, slRaced>> /\ q \notin Inside
  BY DEF Start, slTable, Inside, InTransaction
<1>3. /\ slCalls' \in [Requests -> RequestType]
      /\ slCalls'[q].at = at /\ slCalls'[q].op = slCalls[q].op /\ slCalls'[q].to = slCalls[q].to
      /\ \A r \in Requests \ {q} : slCalls'[r] = slCalls[r]
  BY <1>1, Moves DEF InTransaction
<1>4. Inside' = Inside \cup {q}
  BY <1>1, Moves DEF InTransaction
<1>5. NoWrites \in Layer /\ NoWrites.created = {} /\ NoWrites.row = {}
  BY DEF NoWrites, Layer
<1>6. /\ slStack' \in Seq(Layer) /\ Len(slStack') = Len(slStack) + 1 /\ Len(slStack) \in Nat
      /\ \A i \in 1..Len(slStack') : (i \in 1..Len(slStack) /\ slStack'[i] = slStack[i]) \/ slStack'[i] = NoWrites
      /\ slStack'[Len(slStack) + 1] = NoWrites
  BY <1>2, <1>5, Push, ServerTypesNow
<1>7. ClaimsServerTypeOK' /\ StackMatches'
  BY <1>2, <1>3, <1>4, <1>6, Enters, ServerTypes, ServerTypesNow DEF ClaimsServerInv
<1>8. Carried'
  BY <1>2, <1>5, <1>6 DEF ClaimsServerInv, Carried
<1>9. Stage(q)' /\ Announced(q)'
  <2>1. slCalls[q].op \in {"none", "create", "nested", "status", "reserves", "event"}
    BY ServerTypesNow DEF RequestType
  <2>. QED
    BY <1>1, <1>2, <1>3, <2>1 DEF ClaimsServerInv, Stage, Announced, Creations, ClaimUpdates
<1>10. Own(q)'
  <2>. SUFFICES ASSUME q \notin slRaced PROVE slStack'[1].row = {}
    BY <1>1, <1>2, <1>3 DEF ClaimsServerInv, Own, ClaimUpdates
  <2>1. Inside' = {q}
    <3>1. \A r \in Inside : r = q
      BY <1>2 DEF ClaimsServerInv, RacedPairs, Inside, InTransaction
    <3>. QED
      BY <1>2, <1>4, <3>1
  <2>2. Len(slStack') = 1
    BY <1>7, <2>1, FS_Singleton DEF StackMatches
  <2>3. Len(slStack) + 1 = 1
    BY <1>6, <2>2
  <2>. QED
    BY <1>5, <1>6, <2>3
<1>. QED
  BY <1>2, <1>3, <1>7, <1>8, <1>9, <1>10, ServerStep
-----------------------------------------------------------------------------
\* A step that leaves the stack, and what is kept, alone.
LEMMA QuietStep ==
  ASSUME ClaimsServerInv, NEW q \in Requests, slCalls[q].at # "free",
         slCalls' \in [Requests -> RequestType], Inside' = Inside,
         \A r \in Requests \ {q} : slCalls'[r] = slCalls[r],
         slRow' \in ServerStatuses, UNCHANGED <<slStack, slMade, slRaced>>,
         slCarrier \subseteq slCarrier', slCarrier' \subseteq Requests,
         Stage(q)', Own(q)', Announced(q)'
  PROVE  ClaimsServerInv'
<1>1. ClaimsServerTypeOK' /\ StackMatches' /\ Carried'
  BY Stays, ServerTypes, ServerTypesNow DEF ClaimsServerInv, Carried
<1>. QED
  BY <1>1, ServerStep

\* create asks the carrier, an update loads the claim, a creation is announced.
LEMMA QuietSteps ==
  ASSUME ClaimsServerInv, NEW q \in Requests, AskCarrier(q) \/ LoadClaim(q) \/ Publish(q)
  PROVE  ClaimsServerInv'
<1>1. /\ slCalls[q].at \in {"asking", "loading", "publishing"} /\ UNCHANGED <<slRow, slStack, slMade, slRaced>>
      /\ slCarrier \subseteq slCarrier' /\ slCarrier' \subseteq Requests
  BY ServerTypesNow DEF AskCarrier, LoadClaim, Publish
<1>2. CASE Publish(q)
  <2>1. ToPlace(q, "free") /\ q \notin Inside
    BY <1>2 DEF Publish, Inside, InTransaction
  <2>2. Inside \ {q} = Inside
    BY <2>1
  <2>. QED
    BY <1>1, <2>1, <2>2, Frees, QuietStep, ServerTypesNow
<1>3. CASE AskCarrier(q) \/ LoadClaim(q)
  <2>1. PICK at \in {"saving", "modelSaving"} :
          /\ ToPlace(q, at) /\ q \in Inside
          /\ at = "saving" => slCalls[q].at = "asking" /\ q \in slCarrier'
          /\ at = "modelSaving" => slCalls[q].at = "loading" /\ ~Forbids(slRow, slCalls[q].to)
    BY <1>3 DEF AskCarrier, LoadClaim, Inside, InTransaction
  <2>2. /\ slCalls' \in [Requests -> RequestType]
        /\ slCalls'[q].at = at /\ slCalls'[q].op = slCalls[q].op /\ slCalls'[q].to = slCalls[q].to
        /\ \A r \in Requests \ {q} : slCalls'[r] = slCalls[r]
    BY <2>1, Moves DEF InTransaction
  <2>3. Inside' = Inside
    <3>1. Inside' = Inside \cup {q}
      BY <2>1, Moves DEF InTransaction
    <3>. QED
      BY <2>1, <3>1
  <2>4. Stage(q)'
    BY <1>1, <2>1, <2>2 DEF ClaimsServerInv, Stage
  <2>5. Own(q)'
    <3>1. slCalls[q].at = "asking" => slCalls[q].op \in Creations
      BY DEF ClaimsServerInv, Stage
    <3>. QED
      BY <1>1, <2>1, <2>2, <3>1 DEF ClaimsServerInv, Own, InTransaction, Creations, ClaimUpdates
  <2>6. Announced(q)'
    BY <2>2 DEF Announced
  <2>. QED
    BY <1>1, <2>2, <2>3, <2>4, <2>5, <2>6, QuietStep, ServerTypesNow
<1>. QED
  BY <1>2, <1>3

\* The model's own save: nothing of the stack holds the row, so what it holds of it is
\* nothing.
LEMMA SaveModelStep ==
  ASSUME ClaimsServerInv, NEW q \in Requests, SaveModel(q)
  PROVE  ClaimsServerInv'
<1>1. /\ slCalls[q].at = "modelSaving" /\ ToPlace(q, "saving") /\ slRow' = slCalls[q].to
      /\ UNCHANGED <<slStack, slMade, slCarrier, slRaced>> /\ ~RowLocked /\ q \in Inside
  BY DEF SaveModel, Inside, InTransaction
<1>2. /\ slCalls' \in [Requests -> RequestType]
      /\ slCalls'[q].at = "saving" /\ slCalls'[q].op = slCalls[q].op /\ slCalls'[q].to = slCalls[q].to
      /\ \A r \in Requests \ {q} : slCalls'[r] = slCalls[r]
  BY <1>1, Moves DEF InTransaction
<1>3. Inside' = Inside
  <2>1. Inside' = Inside \cup {q}
    BY <1>1, Moves DEF InTransaction
  <2>. QED
    BY <1>1, <2>1
<1>4. slRow' \in ServerStatuses
  BY <1>1, ServerTypesNow DEF RequestType
<1>5. slCalls[q].op \in ClaimUpdates
  BY <1>1 DEF ClaimsServerInv, Stage
<1>6. Stage(q)' /\ Announced(q)'
  BY <1>2, <1>5 DEF Stage, Announced, Creations, ClaimUpdates
<1>7. Own(q)'
  <2>1. q \notin slRaced => slStack[1].row = {}
    <3>1. q \notin slRaced => 1 \in DOMAIN slStack
      BY <1>1, LayersOfRequests
    <3>. QED
      BY <1>1, <3>1 DEF RowLocked
  <2>. QED
    BY <1>1, <1>2, <1>5, <2>1 DEF Own, Creations, ClaimUpdates
<1>. QED
  BY <1>1, <1>2, <1>3, <1>4, <1>6, <1>7, QuietStep, ServerTypesNow

\* A write goes into the layer on top.
LEMMA Writes ==
  ASSUME ClaimsServerInv, NEW q \in Inside, NEW created \in SUBSET Requests,
         NEW rows \in SUBSET ServerStatuses, Write(created, rows)
  PROVE  /\ slStack' \in Seq(Layer) /\ Len(slStack') = Len(slStack)
         /\ \A i \in 1..Len(slStack) : slStack'[i].created \subseteq slStack[i].created \cup created
                                       /\ slStack'[i].row \subseteq slStack[i].row \cup rows
         /\ created \subseteq slStack'[Len(slStack)].created
<1>. DEFINE n == Len(slStack)
            top == [created |-> slStack[n].created \cup created,
                    row |-> IF rows = {} THEN slStack[n].row ELSE rows]
<1>1. slStack \in Seq(Layer) /\ n \in Nat /\ n >= 1
  BY LayersOfRequests
<1>2. slStack[n] \in Layer
  BY <1>1
<1>3. top \in Layer /\ top.created = slStack[n].created \cup created
      /\ top.row \subseteq slStack[n].row \cup rows
  BY <1>2 DEF Layer
<1>4. slStack' = [slStack EXCEPT ![n] = top]
  BY DEF Write
<1>. HIDE DEF top
<1>5. /\ slStack' \in Seq(Layer) /\ Len(slStack') = n
      /\ \A i \in 1..n : i # n => slStack'[i] = slStack[i]
      /\ slStack'[n] = top
  BY <1>1, <1>3, <1>4
<1>6. n \in 1..n
  BY <1>1
<1>. HIDE DEF n
<1>7. \A i \in 1..n : slStack'[i] = slStack[i] \/ (i = n /\ slStack'[i] = top)
  BY <1>5, Zenon
<1>8. created \subseteq slStack'[n].created
  <2>1. slStack'[n] = top
    BY <1>5, Zenon
  <2>. QED
    BY <1>3, <2>1, Zenon
<1>9. \A i \in 1..n : slStack'[i].created \subseteq slStack[i].created \cup created
                      /\ slStack'[i].row \subseteq slStack[i].row \cup rows
  BY <1>3, <1>7
<1>. QED
  BY <1>5, <1>8, <1>9 DEF n

LEMMA SaveStep ==
  ASSUME ClaimsServerInv, NEW q \in Requests, SaveClaim(q) \/ SaveUpdate(q)
  PROVE  ClaimsServerInv'
<1>1. /\ slCalls[q].at = "saving" /\ ToPlace(q, "committing") /\ q \in Inside
      /\ UNCHANGED <<slRow, slMade, slCarrier, slRaced>>
  BY DEF SaveClaim, SaveUpdate, slTable, Inside, InTransaction
<1>2. PICK created \in SUBSET Requests, rows \in SUBSET ServerStatuses :
        /\ Write(created, rows)
        /\ created \subseteq {q} /\ (slCalls[q].op \in Creations <=> q \in created)
        /\ slCalls[q].op \in Creations => rows = {}
        /\ rows \subseteq {slCalls[q].to}
  <2>1. CASE SaveClaim(q)
    <3>1. Write({q}, {}) /\ slCalls[q].op \in Creations
      BY <2>1 DEF SaveClaim, Creations
    <3>. WITNESS {q} \in SUBSET Requests, {} \in SUBSET ServerStatuses
    <3>. QED
      BY <3>1
  <2>2. CASE SaveUpdate(q)
    <3>1. Write({}, {slCalls[q].to}) /\ slCalls[q].op \notin Creations /\ slCalls[q].to \in ServerStatuses
      BY <2>2, ServerTypesNow DEF SaveUpdate, Creations, RequestType
    <3>2. {slCalls[q].to} \in SUBSET ServerStatuses
      BY <3>1
    <3>. WITNESS {} \in SUBSET Requests, {slCalls[q].to} \in SUBSET ServerStatuses
    <3>. QED
      BY <3>1
  <2>. QED
    BY <2>1, <2>2
<1>3. /\ slCalls' \in [Requests -> RequestType]
      /\ slCalls'[q].at = "committing" /\ slCalls'[q].op = slCalls[q].op /\ slCalls'[q].to = slCalls[q].to
      /\ \A r \in Requests \ {q} : slCalls'[r] = slCalls[r]
  BY <1>1, Moves DEF InTransaction
<1>4. Inside' = Inside
  <2>1. Inside' = Inside \cup {q}
    BY <1>1, Moves DEF InTransaction
  <2>. QED
    BY <1>1, <2>1
<1>5. /\ slStack' \in Seq(Layer) /\ Len(slStack') = Len(slStack)
      /\ \A i \in 1..Len(slStack) : slStack'[i].created \subseteq slStack[i].created \cup created
                                    /\ slStack'[i].row \subseteq slStack[i].row \cup rows
      /\ created \subseteq slStack'[Len(slStack)].created
  BY <1>1, <1>2, Writes
<1>6. ClaimsServerTypeOK' /\ StackMatches'
  BY <1>1, <1>3, <1>4, <1>5, Stays, ServerTypes, ServerTypesNow DEF ClaimsServerInv
<1>7. Carried'
  <2>1. created \subseteq slCarrier
    BY <1>1, <1>2 DEF ClaimsServerInv, Stage
  <2>. QED
    BY <1>1, <1>5, <2>1 DEF ClaimsServerInv, Carried
<1>8. Stage(q)' /\ Announced(q)'
  BY <1>1, <1>3 DEF ClaimsServerInv, Stage, Announced
<1>9. Own(q)'
  <2>. SUFFICES ASSUME q \notin slRaced
                PROVE  /\ slCalls[q].op \in ClaimUpdates => slCalls[q].to = slRow
                       /\ slStack'[1].row \subseteq {slRow}
                       /\ slCalls[q].op \in Creations => q \in slStack'[1].created
    BY <1>1, <1>3 DEF Own
  <2>1. Len(slStack) = 1 /\ 1 \in 1..Len(slStack)
    BY <1>1, LayersOfRequests, 1 \in 1..1
  <2>2. slStack[1].row \subseteq {slRow} /\ (slCalls[q].op \in ClaimUpdates => slCalls[q].to = slRow)
    BY <1>1 DEF ClaimsServerInv, Own, InTransaction
  <2>3. rows \subseteq {slRow}
    <3>1. slCalls[q].op # "none"
      BY <1>1 DEF ClaimsServerInv, Stage
    <3>2. slCalls[q].op \in Creations \cup ClaimUpdates
      BY <3>1, ServerTypesNow DEF RequestType, Creations, ClaimUpdates
    <3>. QED
      BY <1>2, <2>2, <3>2
  <2>. QED
    BY <1>2, <1>5, <2>1, <2>2, <2>3
<1>. QED
  BY <1>1, <1>3, <1>6, <1>7, <1>8, <1>9, ServerStep

\* A step fails, and the transaction on top is rolled back.
LEMMA FailStep ==
  ASSUME ClaimsServerInv, NEW q \in Requests, Fail(q)
  PROVE  ClaimsServerInv'
<1>1. /\ slCalls[q].at # "free" /\ q \in Inside /\ ToPlace(q, "free") /\ slStack' = Below
      /\ UNCHANGED <<slRow, slMade, slCarrier, slRaced>>
  BY DEF Fail, slTable, Inside, InTransaction
<1>2. slStack' \in Seq(Layer) /\ Len(slStack') = Len(slStack) - 1
      /\ \A i \in 1..Len(slStack') : slStack'[i] = slStack[i] /\ i \in 1..Len(slStack)
  BY <1>1, LayersOfRequests, PopTop DEF Below
<1>3. ClaimsServerTypeOK' /\ StackMatches' /\ Carried'
  <2>1. Carried'
    BY <1>1, <1>2 DEF ClaimsServerInv, Carried
  <2>. QED
    BY <1>1, <1>2, <2>1, Frees, Leaves, ServerTypes, ServerTypesNow DEF ClaimsServerInv
<1>. QED
  BY <1>1, <1>3, Frees, ServerStep

\* What a commit leaves: the top is kept, or handed down.
LEMMA Commits ==
  ASSUME ClaimsServerInv, NEW q \in Inside, CommitTop
  PROVE  /\ slStack' \in Seq(Layer) /\ Len(slStack') = Len(slStack) - 1
         /\ slRow' \in ServerStatuses /\ slMade \subseteq slMade' /\ slMade' \subseteq slCarrier
         /\ \A i \in 1..Len(slStack') : slStack'[i].created \subseteq slCarrier
         /\ q \notin slRaced =>
              /\ slMade' = slMade \cup slStack[1].created
              /\ slRow' = slRow \/ slRow' \in slStack[1].row
         /\ slRow' # slRow => Len(slStack) = 1 /\ slRow' \in slStack[1].row
<1>. DEFINE n == Len(slStack)
<1>1. slStack \in Seq(Layer) /\ n \in Nat /\ n >= 1 /\ (q \notin slRaced => n = 1)
  BY LayersOfRequests
<1>2. /\ Below \in Seq(Layer) /\ Len(Below) = n - 1
      /\ \A i \in 1..Len(Below) : Below[i] = slStack[i] /\ i \in 1..n
      /\ (Below = <<>>) <=> (n = 1)
  BY <1>1, PopTop DEF Below
<1>3. TopLayer \in Layer /\ TopLayer.created \subseteq slCarrier /\ TopLayer = slStack[n]
  <2>1. n \in 1..n /\ slStack[n] \in Layer
    BY <1>1
  <2>. QED
    BY <2>1 DEF TopLayer, ClaimsServerInv, Carried
<1>4. CASE n = 1
  <2>1. /\ slStack' = <<>> /\ slMade' = slMade \cup TopLayer.created
        /\ slRow' = IF TopLayer.row = {} THEN slRow ELSE CHOOSE r \in TopLayer.row : TRUE
    BY <1>2, <1>4 DEF CommitTop
  <2>2. slRow' = slRow \/ slRow' \in TopLayer.row
    BY <2>1
  <2>3. slStack' \in Seq(Layer) /\ Len(slStack') = n - 1 /\ 1..Len(slStack') = {}
    BY <1>4, <2>1
  <2>. QED
    BY <1>3, <1>4, <2>1, <2>2, <2>3, ServerTypesNow DEF Layer, ClaimsServerInv, Carried
<1>5. CASE n # 1
  <2>. DEFINE m == Len(Below)
              down == [created |-> Below[m].created \cup TopLayer.created,
                       row |-> IF TopLayer.row = {} THEN Below[m].row ELSE TopLayer.row]
  <2>1. slStack' = [Below EXCEPT ![m] = down] /\ UNCHANGED slTable
    BY <1>2, <1>5 DEF CommitTop
  <2>2. m \in Nat /\ m >= 1 /\ m \in 1..m
    BY <1>1, <1>2, <1>5
  <2>3. Below[m] \in Layer /\ Below[m].created \subseteq slCarrier
    BY <1>2, <2>2 DEF ClaimsServerInv, Carried
  <2>4. down \in Layer /\ down.created \subseteq slCarrier
    BY <1>3, <2>3 DEF Layer
  <2>. HIDE DEF down
  <2>5. slStack' \in Seq(Layer) /\ Len(slStack') = m
        /\ \A i \in 1..m : slStack'[i] = Below[i] \/ slStack'[i] = down
    BY <1>2, <2>1, <2>2, <2>4, ChangeTop
  <2>6. \A i \in 1..Len(slStack') : slStack'[i].created \subseteq slCarrier
    BY <1>2, <2>4, <2>5 DEF ClaimsServerInv, Carried
  <2>. QED
    BY <1>1, <1>2, <1>5, <2>1, <2>5, <2>6, ServerTypesNow DEF slTable, ClaimsServerInv, Carried
<1>. QED
  BY <1>4, <1>5

LEMMA CommitStep ==
  ASSUME ClaimsServerInv, NEW q \in Requests, Commit(q)
  PROVE  ClaimsServerInv'
<1>1. /\ slCalls[q].at = "committing" /\ q \in Inside /\ CommitTop
      /\ ToPlace(q, IF slCalls[q].op = "create" THEN "publishing" ELSE "free")
      /\ UNCHANGED <<slCarrier, slRaced>>
  BY DEF Commit, Inside, InTransaction
<1>2. /\ slStack' \in Seq(Layer) /\ Len(slStack') = Len(slStack) - 1
      /\ slRow' \in ServerStatuses /\ slMade \subseteq slMade' /\ slMade' \subseteq slCarrier
      /\ \A i \in 1..Len(slStack') : slStack'[i].created \subseteq slCarrier
      /\ q \notin slRaced => slMade' = slMade \cup slStack[1].created
  BY <1>1, Commits
<1>3. Carried' /\ slMade' \subseteq Requests
  BY <1>1, <1>2, ServerTypesNow DEF Carried
<1>4. CASE slCalls[q].op = "create"
  <2>1. ToPlace(q, "publishing")
    BY <1>1, <1>4
  <2>2. /\ slCalls' \in [Requests -> RequestType]
        /\ slCalls'[q].at = "publishing" /\ slCalls'[q].op = "create"
        /\ \A r \in Requests \ {q} : slCalls'[r] = slCalls[r]
    BY <1>4, <2>1, Moves
  <2>3. Inside' = Inside \ {q}
    BY <2>1, Moves DEF InTransaction
  <2>4. ClaimsServerTypeOK' /\ StackMatches'
    BY <1>1, <1>2, <1>3, <2>2, <2>3, Leaves, ServerTypes, ServerTypesNow DEF ClaimsServerInv
  <2>5. Stage(q)' /\ Own(q)'
    BY <2>2 DEF Stage, Own, Creations, ClaimUpdates, InTransaction
  <2>6. Announced(q)'
    BY <1>1, <1>2, <1>4 DEF ClaimsServerInv, Own, Announced, Creations
  <2>. QED
    BY <1>1, <1>2, <1>3, <2>2, <2>4, <2>5, <2>6, ServerStep
<1>5. CASE slCalls[q].op # "create"
  <2>1. ToPlace(q, "free")
    BY <1>1, <1>5
  <2>2. ClaimsServerTypeOK' /\ StackMatches'
    BY <1>1, <1>2, <1>3, <2>1, Frees, Leaves, ServerTypes, ServerTypesNow DEF ClaimsServerInv
  <2>. QED
    BY <1>1, <1>2, <1>3, <2>1, <2>2, Frees, ServerStep
<1>. QED
  BY <1>4, <1>5

\* The claim number: another creation may begin, and races with this one.
LEMMA NumberStep ==
  ASSUME ClaimsServerInv, NEW q \in Requests, Number(q)
  PROVE  ClaimsServerInv'
<1>1. slCalls[q].at = "numbering" /\ slCalls[q].op \in Creations /\ q \in Inside
      /\ UNCHANGED <<slRow, slStack, slMade, slCarrier>>
  BY DEF Number, ClaimsServerInv, Stage, Inside, InTransaction
<1>2. CASE ToPlace(q, "asking") /\ UNCHANGED slRaced
  <2>1. /\ slCalls' \in [Requests -> RequestType]
        /\ slCalls'[q].at = "asking" /\ slCalls'[q].op = slCalls[q].op
        /\ \A r \in Requests \ {q} : slCalls'[r] = slCalls[r]
    BY <1>2, Moves DEF InTransaction
  <2>2. Inside' = Inside
    <3>1. Inside' = Inside \cup {q}
      BY <1>2, Moves DEF InTransaction
    <3>. QED
      BY <1>1, <3>1
  <2>3. Stage(q)' /\ Own(q)' /\ Announced(q)'
    BY <1>1, <1>2, <2>1 DEF ClaimsServerInv, Stage, Own, Announced, Creations, ClaimUpdates, InTransaction
  <2>. QED
    BY <1>1, <1>2, <2>1, <2>2, <2>3, QuietStep, ServerTypesNow
<1>3. CASE ~(ToPlace(q, "asking") /\ UNCHANGED slRaced)
  <2>1. PICK n \in Idle :
          /\ slCalls' = [slCalls EXCEPT ![q].at = "asking",
               ![n] = [NoRequest EXCEPT !.op = "nested", !.at = "begin"]]
          /\ slRaced' = Raced(n)
    BY <1>3 DEF Number
  <2>2. n # q /\ n \in Requests /\ slCalls[n].at = "free" /\ Idle # Requests
    BY <1>1 DEF Idle
  <2>. DEFINE first == [slCalls[q] EXCEPT !.at = "asking"]
              second == [NoRequest EXCEPT !.op = "nested", !.at = "begin"]
  <2>3. first \in RequestType /\ first.at = "asking" /\ first.op = slCalls[q].op
    BY ServerTypesNow DEF RequestType, InTransaction
  <2>4. second \in RequestType /\ second.at = "begin" /\ second.op = "nested"
    BY DEF RequestType, NoRequest, ServerStatuses
  <2>5. slCalls' = [slCalls EXCEPT ![q] = first, ![n] = second]
    BY <2>1
  <2>. HIDE DEF first, second
  <2>6. slCalls' \in [Requests -> RequestType] /\ slCalls'[q] = first /\ slCalls'[n] = second
        /\ \A r \in Requests \ {q, n} : slCalls'[r] = slCalls[r]
    BY <2>2, <2>3, <2>4, <2>5, ServerTypesNow
  <2>7. slRaced' = slRaced \cup {n} \cup (Requests \ Idle) /\ q \in slRaced' /\ n \in slRaced'
        /\ slRaced' \subseteq Requests
    BY <1>1, <2>1, <2>2, ServerTypesNow DEF Raced, Idle
  <2>8. Inside' = Inside
    BY <1>1, <2>2, <2>3, <2>4, <2>6 DEF Inside, InTransaction
  <2>9. ClaimsServerTypeOK' /\ StackMatches' /\ Carried'
    BY <1>1, <2>6, <2>7, <2>8, Stays, ServerTypes, ServerTypesNow DEF ClaimsServerInv, Carried
  <2>10. Stage(q)' /\ Own(q)' /\ Announced(q)' /\ Stage(n)'
    BY <1>1, <2>3, <2>4, <2>6, <2>7 DEF Stage, Own, Announced, Creations, ClaimUpdates
  <2>. QED
    BY <1>1, <2>6, <2>7, <2>9, <2>10, ServerStep
<1>. QED
  BY <1>2, <1>3

LEMMA Arrivals ==
  ASSUME ClaimsServerInv, NEW q \in Requests, CreateClaim(q) \/ UpdateClaimStatus(q) \/ UpdateReserves(q) \/ ClaimEvent(q)
  PROVE  ClaimsServerInv'
<1>1. "NEW" \in ServerStatuses /\ Targets \subseteq ServerStatuses
  BY ClaimsServerAssumption DEF ServerStatuses
<1>. QED
  BY <1>1, ArriveStep DEF CreateClaim, UpdateClaimStatus, UpdateReserves, ClaimEvent

LEMMA ClaimsServerNextInv == ClaimsServerInv /\ [ClaimsServerNext]_slVars => ClaimsServerInv'
<1>. SUFFICES ASSUME ClaimsServerInv, [ClaimsServerNext]_slVars PROVE ClaimsServerInv'
  OBVIOUS
<1>1. CASE UNCHANGED slVars
  BY <1>1 DEF slVars, slTable, ClaimsServerInv, ClaimsServerTypeOK, StackMatches, Carried, RacedPairs,
     Stage, Own, Announced, Inside
<1>2. CASE ClaimsServerNext
  BY <1>2, Arrivals, CheckStep, StartStep, CommitStep, FailStep, NumberStep, QuietSteps, SaveStep, SaveModelStep
     DEF ClaimsServerNext
<1>. QED
  BY <1>1, <1>2

-----------------------------------------------------------------------------
\* The claim, the stack of savepoints and the requests (ClaimRepository.ts) are of
\* their types, however many requests share the query runner.
THEOREM ClaimsServerTyped == ClaimsServerSpec => []ClaimsServerTypeOK
<1>1. ClaimsServerInv => ClaimsServerTypeOK
  BY DEF ClaimsServerInv
<1>. QED
  BY ClaimsServerInitInv, ClaimsServerNextInv, <1>1, PTL DEF ClaimsServerSpec

\* The query runner's open transactions are those of the requests inside one, and an
\* announced claim is there unless its request raced (ClaimRepository.ts:102-155,
\* ClaimsService.ts:53-56).
THEOREM TransactionsAlwaysMatch == ClaimsServerSpec => []TransactionsMatch
<1>1. ClaimsServerInv => TransactionsMatch
  <2>. SUFFICES ASSUME ClaimsServerInv PROVE TransactionsMatch
    OBVIOUS
  <2>1. (Len(slStack) = 0) <=> (Inside = {})
    BY FS_EmptySet DEF ClaimsServerInv, StackMatches
  <2>. QED
    BY <2>1 DEF ClaimsServerInv, TransactionsMatch, Announced, Inside
<1>. QED
  BY ClaimsServerInitInv, ClaimsServerNextInv, <1>1, PTL DEF ClaimsServerSpec

\* A claim that is kept has one at the carrier, and moves as the validator's table says
\* or as an event asks and the repository lets it, unless requests raced
\* (ClaimRepository.ts:129-141, 203-216, claims.validator.ts:170-180).
THEOREM MovesAreAllowedUnlessRaced == ClaimsServerSpec => MovesAllowedUnlessRaced
<1>. DEFINE Moved == /\ slMade' \subseteq slCarrier'
                     /\ slRow' # slRow => slRow' \in AllowedMoves[slRow] \/ AskedByEvent(slRow') \/ slRaced # {}
<1>1. ClaimsServerInv /\ [ClaimsServerNext]_slVars => [Moved]_slVars
  <2>. SUFFICES ASSUME ClaimsServerInv, ClaimsServerNext PROVE Moved
    OBVIOUS
  <2>1. slMade' \subseteq slCarrier'
    BY ClaimsServerNextInv DEF ClaimsServerInv, Carried
  <2>2. ASSUME slRow' # slRow, slRaced = {} PROVE slRow' \in AllowedMoves[slRow] \/ AskedByEvent(slRow')
    <3>1. PICK q \in Requests : Commit(q) \/ SaveModel(q)
      BY <2>2 DEF ClaimsServerNext, CreateClaim, UpdateClaimStatus, UpdateReserves, ClaimEvent, Arrive, CheckMove,
         ReadStatus, Start, Fail, Number, AskCarrier, SaveClaim, Publish, LoadClaim, SaveUpdate, slTable
    <3>2. CASE Commit(q)
      <4>1. q \in Inside /\ CommitTop /\ slCalls[q].at = "committing"
        BY <3>2 DEF Commit, Inside, InTransaction
      <4>2. slRow' \in slStack[1].row
        BY <2>2, <4>1, Commits
      <4>3. slStack[1].row \subseteq {slRow}
        BY <2>2, <4>1 DEF ClaimsServerInv, Own, InTransaction
      <4>. QED
        BY <2>2, <4>2, <4>3
    <3>3. CASE SaveModel(q)
      <4>1. slCalls[q].at = "modelSaving" /\ slRow' = slCalls[q].to
        BY <3>3 DEF SaveModel
      <4>2. slCalls[q].op \in ClaimUpdates
        BY <4>1 DEF ClaimsServerInv, Stage
      <4>. QED
        BY <2>2, <4>1, <4>2 DEF ClaimsServerInv, Own, ClaimUpdates, AskedByEvent
    <3>. QED
      BY <3>1, <3>2, <3>3
  <2>. QED
    BY <2>1, <2>2
<1>. QED
  BY ClaimsServerInitInv, ClaimsServerNextInv, <1>1, PTL DEF ClaimsServerSpec, MovesAllowedUnlessRaced

-----------------------------------------------------------------------------
(* The underwriting service                                                *)

NoScore == -1
KnownScores == RiskScores \cup {NoScore}
UnderwritingWork ==
  [at : {"idle", "looking", "caching", "deciding", "syncing", "decided", "resolving", "failed"},
   op : {"none", "assess", "evaluate", "decide"}, score : KnownScores, tries : {0, 1, 2},
   first : {"none", "synced", "failed"}, second : {"none", "synced", "failed", "late", "refused"}]

\* A call that decides has a score, which is not zero once it was decided on; one that
\* was decided has told OneShield or failed to; and an approval that is resolved was
\* told again.
WorkFits(work) ==
  /\ work \in UnderwritingWork
  /\ work.at \in {"caching", "deciding", "syncing", "decided", "resolving"} => work.score \in RiskScores
  /\ work.op = "decide" => work.score \in RiskScores
  /\ work.at \in {"syncing", "decided", "resolving"} => CanDecide(work.score)
  /\ work.at \in {"decided", "resolving"} => work.first # "none"
  /\ work.at = "resolving" /\ Approved(work) => work.second \in {"synced", "failed"}

DoneFits(done) ==
  /\ done.outcome \in {"none", "resolved", "dead", "dropped"}
  /\ done.outcome = "resolved" =>
       /\ done.score \in RiskScores /\ CanDecide(done.score) /\ done.first # "none"
       /\ Approved(done) => done.second \in {"synced", "failed"}

UnderwritingServerInv ==
  /\ uvPolicy \in RiskScores /\ uvCache \in KnownScores
  /\ uvWork = [c \in Callers |-> uvWork[c]] /\ \A c \in Callers : WorkFits(uvWork[c])
  /\ DoneFits(uvDone)

LEMMA NoWorkFits == WorkFits(NoWork) /\ NoWork.at = "idle" /\ NoWork \in UnderwritingWork
BY DEF WorkFits, NoWork, UnderwritingWork, KnownScores, NoScore

LEMMA NoneDoneFits == \A outcome \in {"none", "dead", "dropped"} : DoneFits([NoneDone EXCEPT !.outcome = outcome])
BY DEF DoneFits, NoneDone

LEMMA UnderwritingServerInitInv == UnderwritingServerInit => UnderwritingServerInv
<1>1. DoneFits(NoneDone)
  BY DEF DoneFits, NoneDone
<1>. QED
  BY <1>1, NoWorkFits DEF UnderwritingServerInit, UnderwritingServerInv, KnownScores, NoScore

\* A step of call c.
LEMMA UnderwritingStep ==
  ASSUME UnderwritingServerInv, NEW c \in Callers, NEW work,
         uvWork' = [uvWork EXCEPT ![c] = work], WorkFits(work),
         uvPolicy' = uvPolicy, uvCache' \in KnownScores, DoneFits(uvDone')
  PROVE  UnderwritingServerInv'
BY DEF UnderwritingServerInv

LEMMA CallsNow ==
  ASSUME UnderwritingServerInv, NEW c \in Callers
  PROVE  WorkFits(uvWork[c]) /\ uvWork[c] \in UnderwritingWork /\ DoneFits(uvDone)
         /\ uvCache \in KnownScores /\ uvPolicy \in RiskScores
BY DEF UnderwritingServerInv, WorkFits

\* What becomes of a call that moves on.
LEMMA WorkMoves ==
  ASSUME NEW work \in UnderwritingWork, work.at \in {"looking", "caching", "deciding", "failed", "idle"},
         work.at \in {"caching", "deciding"} => work.score \in RiskScores,
         work.op = "decide" => work.score \in RiskScores
  PROVE  WorkFits(work)
BY DEF WorkFits

LEMMA WorkNow ==
  ASSUME UnderwritingServerInv, NEW c \in Callers
  PROVE  /\ uvWork[c] \in UnderwritingWork /\ uvWork[c].score \in KnownScores /\ uvWork[c].tries \in {0, 1, 2}
         /\ uvWork[c].at \in {"caching", "deciding", "syncing", "decided", "resolving"} => uvWork[c].score \in RiskScores
         /\ uvWork[c].op = "decide" => uvWork[c].score \in RiskScores
BY CallsNow DEF WorkFits, UnderwritingWork

LEMMA RequestWork ==
  ASSUME NEW at \in {"looking", "failed"}, NEW op \in {"assess", "evaluate"}
  PROVE  WorkFits([NoWork EXCEPT !.at = at, !.op = op])
BY NoWorkFits DEF WorkFits, UnderwritingWork, NoWork

LEMMA DecisionWork ==
  ASSUME NEW s \in RiskScores
  PROVE  WorkFits([NoWork EXCEPT !.at = "deciding", !.op = "decide", !.score = s])
<1>1. s \in KnownScores
  BY DEF KnownScores
<1>. QED
  BY <1>1, NoWorkFits DEF WorkFits, UnderwritingWork, NoWork

LEMMA RequestSteps ==
  ASSUME UnderwritingServerInv, AssessPolicyRisk \/ MakeDecision \/ TakeRequest
  PROVE  UnderwritingServerInv'
<1>1. \E c \in Callers : \E work : uvWork' = [uvWork EXCEPT ![c] = work] /\ WorkFits(work)
  <2>1. CASE AssessPolicyRisk
    <3>1. PICK op \in {"assess", "evaluate"} :
            uvWork' = [uvWork EXCEPT !["controller"] = [NoWork EXCEPT !.at = "looking", !.op = op]]
      BY <2>1 DEF AssessPolicyRisk
    <3>. QED
      BY <3>1, RequestWork DEF Callers
  <2>2. CASE MakeDecision
    BY <2>2, DecisionWork DEF MakeDecision, Callers
  <2>3. CASE TakeRequest
    <3>1. PICK at \in {"looking", "failed"} :
            uvWork' = [uvWork EXCEPT !["consumer"] = [NoWork EXCEPT !.at = at, !.op = "evaluate"]]
      BY <2>3 DEF TakeRequest
    <3>. QED
      BY <3>1, RequestWork DEF Callers
  <2>. QED
    BY <2>1, <2>2, <2>3
<1>2. UNCHANGED <<uvPolicy, uvCache, uvDone>>
  BY DEF AssessPolicyRisk, MakeDecision, TakeRequest
<1>. QED
  <2>1. PICK c \in Callers : \E work : uvWork' = [uvWork EXCEPT ![c] = work] /\ WorkFits(work)
    BY <1>1
  <2>2. PICK work : uvWork' = [uvWork EXCEPT ![c] = work] /\ WorkFits(work)
    BY <2>1
  <2>. QED
    BY <1>2, <2>2, CallsNow, UnderwritingStep

LEMMA SettleWork ==
  ASSUME UnderwritingServerInv, NEW c \in Callers, NEW work, WorkFits(work), Settle(c, work),
         uvPolicy' = uvPolicy, uvCache' \in KnownScores, DoneFits(uvDone')
  PROVE  UnderwritingServerInv'
BY NoWorkFits, UnderwritingStep DEF Settle

LEMMA ServiceSteps ==
  ASSUME UnderwritingServerInv, NEW c \in Callers,
         ServeCached(c) \/ Assess(c) \/ CacheAssessment(c) \/ Decide(c) \/ SyncDecision(c)
  PROVE  UnderwritingServerInv'
<1>0. uvPolicy' = uvPolicy /\ DoneFits(uvDone')
  BY CallsNow DEF ServeCached, Assess, CacheAssessment, Decide, SyncDecision
<1>1. CASE ServeCached(c)
  <2>1. PICK work : work = [uvWork[c] EXCEPT !.at = AfterAssessment(c), !.score = uvCache]
    OBVIOUS
  <2>2. uvCache \in RiskScores /\ uvCache \in KnownScores /\ AfterAssessment(c) \in {"idle", "deciding"}
    BY <1>1, CallsNow DEF ServeCached, KnownScores, NoScore, AfterAssessment
  <2>3. work \in UnderwritingWork /\ work.at = AfterAssessment(c) /\ work.score = uvCache
    BY <2>1, <2>2, WorkNow DEF UnderwritingWork
  <2>4. WorkFits(work)
    BY <2>2, <2>3, WorkMoves
  <2>. QED
    BY <1>0, <1>1, <2>1, <2>4, CallsNow, SettleWork DEF ServeCached
<1>2. CASE Assess(c)
  <2>1. PICK work : work = [uvWork[c] EXCEPT !.at = "caching", !.score = uvPolicy]
    OBVIOUS
  <2>2. uvPolicy \in KnownScores /\ uvPolicy \in RiskScores
    BY CallsNow DEF KnownScores
  <2>3. work \in UnderwritingWork /\ work.at = "caching" /\ work.score = uvPolicy
    BY <2>1, <2>2, WorkNow DEF UnderwritingWork
  <2>4. WorkFits(work)
    BY <2>2, <2>3, WorkMoves
  <2>5. uvWork' = [uvWork EXCEPT ![c] = work]
    BY <1>2, <2>1 DEF Assess, UnderwritingServerInv
  <2>. QED
    BY <1>0, <1>2, <2>4, <2>5, CallsNow, UnderwritingStep DEF Assess
<1>3. CASE CacheAssessment(c)
  <2>1. PICK work : work = [uvWork[c] EXCEPT !.at = AfterAssessment(c)]
    OBVIOUS
  <2>2. uvWork[c].score \in RiskScores /\ AfterAssessment(c) \in {"idle", "deciding"}
    BY <1>3, WorkNow DEF CacheAssessment, At, AfterAssessment
  <2>3. work \in UnderwritingWork /\ work.at = AfterAssessment(c) /\ work.score = uvWork[c].score
    BY <2>1, <2>2, WorkNow DEF UnderwritingWork
  <2>4. WorkFits(work)
    BY <2>2, <2>3, WorkMoves
  <2>5. uvCache' \in KnownScores
    BY <1>3, WorkNow DEF CacheAssessment
  <2>. QED
    BY <1>0, <1>3, <2>1, <2>4, <2>5, SettleWork DEF CacheAssessment
<1>4. CASE Decide(c)
  <2>1. PICK work : work = [uvWork[c] EXCEPT !.at = "syncing"]
    OBVIOUS
  <2>2. WorkFits(work)
    BY <1>4, <2>1, CallsNow DEF Decide, At, WorkFits, UnderwritingWork
  <2>3. uvWork' = [uvWork EXCEPT ![c] = work]
    BY <1>4, <2>1 DEF Decide, Move
  <2>. QED
    BY <1>0, <1>4, <2>2, <2>3, CallsNow, UnderwritingStep DEF Decide
<1>5. CASE SyncDecision(c)
  <2>1. PICK told \in {"synced", "failed"} : uvWork' = [uvWork EXCEPT ![c].first = told, ![c].at = "decided"]
    BY <1>5 DEF SyncDecision
  <2>2. PICK work : work = [uvWork[c] EXCEPT !.first = told, !.at = "decided"]
    OBVIOUS
  <2>3. WorkFits(work)
    BY <1>5, <2>2, CallsNow DEF SyncDecision, At, WorkFits, UnderwritingWork
  <2>4. uvWork' = [uvWork EXCEPT ![c] = work]
    BY <2>1, <2>2 DEF UnderwritingServerInv
  <2>. QED
    BY <1>0, <1>5, <2>3, <2>4, CallsNow, UnderwritingStep DEF SyncDecision
<1>. QED
  BY <1>1, <1>2, <1>3, <1>4, <1>5

LEMMA ThrowStep ==
  ASSUME UnderwritingServerInv, NEW c \in Callers, Throws(c)
  PROVE  UnderwritingServerInv'
<1>0. UNCHANGED <<uvPolicy, uvCache, uvDone>>
  BY DEF Throws
<1>1. CASE c = "consumer"
  <2>1. PICK work : work = [uvWork[c] EXCEPT !.at = "failed"]
    OBVIOUS
  <2>2. work \in UnderwritingWork /\ work.at = "failed" /\ work.op = uvWork[c].op /\ work.score = uvWork[c].score
    BY <2>1, WorkNow DEF UnderwritingWork
  <2>3. WorkFits(work)
    BY <2>2, WorkNow, WorkMoves
  <2>4. uvWork' = [uvWork EXCEPT ![c] = work]
    BY <1>1, <2>1 DEF Throws, Move
  <2>. QED
    BY <1>0, <2>3, <2>4, CallsNow, UnderwritingStep
<1>2. CASE c # "consumer" /\ uvWork[c].tries < ControllerTries - 1
  <2>1. PICK at : at = IF uvWork[c].op = "decide" THEN "deciding" ELSE "looking"
    OBVIOUS
  <2>2. PICK tries : tries = uvWork[c].tries + 1
    OBVIOUS
  <2>3. tries \in {0, 1, 2}
    BY <1>2, <2>2, WorkNow DEF ControllerTries
  <2>4. uvWork' = [uvWork EXCEPT ![c] = [uvWork[c] EXCEPT !.tries = tries, !.at = at]]
    <3>1. uvWork' = [uvWork EXCEPT ![c].tries = @ + 1, ![c].at = at]
      BY <1>2, <2>1 DEF Throws
    <3>. QED
      BY <2>2, <3>1 DEF UnderwritingServerInv
  <2>5. PICK work : work = [uvWork[c] EXCEPT !.tries = tries, !.at = at]
    OBVIOUS
  <2>6. work \in UnderwritingWork /\ work.at = at /\ work.op = uvWork[c].op /\ work.score = uvWork[c].score
    BY <2>1, <2>3, <2>5, WorkNow DEF UnderwritingWork
  <2>7. WorkFits(work)
    BY <2>1, <2>6, WorkNow, WorkMoves
  <2>. QED
    BY <1>0, <2>4, <2>5, <2>7, CallsNow, UnderwritingStep
<1>3. CASE c # "consumer" /\ ~(uvWork[c].tries < ControllerTries - 1)
  BY <1>0, <1>3, CallsNow, NoWorkFits, SettleWork DEF Throws
<1>. QED
  BY <1>1, <1>2, <1>3

\* The consumer's own steps.
LEMMA ConsumerSteps ==
  ASSUME UnderwritingServerInv, FireSync \/ NothingToFire
  PROVE  UnderwritingServerInv'
<1>. DEFINE c == "consumer"
<1>0. UNCHANGED <<uvPolicy, uvCache, uvDone>> /\ c \in Callers /\ uvWork[c].at = "decided"
  BY DEF FireSync, NothingToFire, At, Callers
<1>1. CASE FireSync
  <2>1. PICK told \in {"synced", "failed", "late", "refused"} :
          uvWork' = [uvWork EXCEPT ![c].second = told,
                       ![c].at = IF told \in {"synced", "failed"} THEN "resolving" ELSE "failed"]
    BY <1>1 DEF FireSync
  <2>2. PICK at : at = IF told \in {"synced", "failed"} THEN "resolving" ELSE "failed"
    OBVIOUS
  <2>3. PICK work : work = [uvWork[c] EXCEPT !.second = told, !.at = at]
    OBVIOUS
  <2>4. uvWork' = [uvWork EXCEPT ![c] = work]
    BY <2>1, <2>2, <2>3 DEF UnderwritingServerInv
  <2>5. /\ work \in UnderwritingWork /\ work.at = at /\ work.op = uvWork[c].op
        /\ work.score = uvWork[c].score /\ work.first = uvWork[c].first /\ work.second = told
    BY <1>0, <2>2, <2>3, WorkNow DEF UnderwritingWork
  <2>6. WorkFits(work)
    BY <1>0, <2>2, <2>5, CallsNow DEF WorkFits
  <2>. QED
    BY <1>0, <2>4, <2>6, CallsNow, UnderwritingStep
<1>2. CASE NothingToFire
  <2>1. PICK work : work = [uvWork[c] EXCEPT !.at = "resolving"]
    OBVIOUS
  <2>2. uvWork' = [uvWork EXCEPT ![c] = work] /\ ~Approved(uvWork[c])
    BY <1>2, <2>1 DEF NothingToFire, Move, Message
  <2>3. /\ work \in UnderwritingWork /\ work.at = "resolving" /\ work.op = uvWork[c].op
        /\ work.score = uvWork[c].score /\ work.first = uvWork[c].first
    BY <1>0, <2>1, WorkNow DEF UnderwritingWork
  <2>4. ~Approved(work)
    BY <2>2, <2>3 DEF Approved
  <2>5. WorkFits(work)
    BY <1>0, <2>3, <2>4, CallsNow DEF WorkFits
  <2>. QED
    BY <1>0, <2>2, <2>5, CallsNow, UnderwritingStep
<1>. QED
  BY <1>1, <1>2

LEMMA PassSteps ==
  ASSUME UnderwritingServerInv, AnswerDecision \/ Resolve \/ PassFailed
  PROVE  UnderwritingServerInv'
<1>0. "consumer" \in Callers /\ "controller" \in Callers
  BY DEF Callers
<1>1. CASE AnswerDecision
  BY <1>0, <1>1, CallsNow, NoWorkFits, SettleWork DEF AnswerDecision
<1>2. CASE Resolve
  <2>1. PICK done : done = [outcome |-> "resolved", score |-> uvWork["consumer"].score,
                            first |-> uvWork["consumer"].first, second |-> uvWork["consumer"].second]
    OBVIOUS
  <2>2. /\ done.outcome = "resolved" /\ done.score = uvWork["consumer"].score
        /\ done.first = uvWork["consumer"].first /\ done.second = uvWork["consumer"].second
    BY <2>1
  <2>3. uvWork["consumer"].at = "resolving" /\ WorkFits(uvWork["consumer"])
    BY <1>0, <1>2, CallsNow DEF Resolve, At
  <2>4. DoneFits(done)
    BY <2>2, <2>3 DEF DoneFits, WorkFits, Approved
  <2>5. uvDone' = done /\ Settle("consumer", NoWork) /\ UNCHANGED <<uvPolicy, uvCache>>
    BY <1>2, <2>1 DEF Resolve, Passed, Message
  <2>6. DoneFits(uvDone')
    BY <2>4, <2>5
  <2>. QED
    BY <1>0, <2>5, <2>6, CallsNow, NoWorkFits, SettleWork
<1>3. CASE PassFailed
  <2>1. PICK outcome \in {"dead", "dropped"} : uvDone' = [NoneDone EXCEPT !.outcome = outcome]
    BY <1>3 DEF PassFailed, Passed
  <2>2. DoneFits(uvDone')
    BY <2>1, NoneDoneFits
  <2>. QED
    BY <1>0, <1>3, <2>2, CallsNow, NoWorkFits, SettleWork DEF PassFailed, Passed
<1>. QED
  BY <1>1, <1>2, <1>3

LEMMA UnderwritingServerNextInv ==
  UnderwritingServerInv /\ [UnderwritingServerNext]_uvVars => UnderwritingServerInv'
<1>. SUFFICES ASSUME UnderwritingServerInv, [UnderwritingServerNext]_uvVars PROVE UnderwritingServerInv'
  OBVIOUS
<1>1. CASE PolicyChanges \/ AssessmentExpires \/ UNCHANGED uvVars
  <2>1. uvWork' = uvWork /\ uvDone' = uvDone
    BY <1>1 DEF PolicyChanges, AssessmentExpires, uvVars
  <2>2. uvPolicy' \in RiskScores /\ uvCache' \in KnownScores
    BY <1>1 DEF PolicyChanges, AssessmentExpires, uvVars, UnderwritingServerInv, KnownScores, NoScore
  <2>. QED
    BY <2>1, <2>2 DEF UnderwritingServerInv
<1>2. CASE AssessPolicyRisk \/ MakeDecision \/ TakeRequest
  BY <1>2, RequestSteps
<1>3. ASSUME NEW c \in Callers,
             \/ ServeCached(c) \/ Assess(c) \/ CacheAssessment(c) \/ Decide(c)
             \/ SyncDecision(c) \/ Throws(c)
      PROVE  UnderwritingServerInv'
  BY <1>3, ServiceSteps, ThrowStep
<1>4. CASE AnswerDecision \/ FireSync \/ NothingToFire \/ Resolve \/ PassFailed
  BY <1>4, ConsumerSteps, PassSteps
<1>. QED
  BY <1>1, <1>2, <1>3, <1>4 DEF UnderwritingServerNext

\* Assessments, calls and outcomes of messages are of their types.
THEOREM UnderwritingServerTyped == UnderwritingServerSpec => []UnderwritingServerTypeOK
<1>1. UnderwritingServerInv => UnderwritingServerTypeOK
  <2>. SUFFICES ASSUME UnderwritingServerInv PROVE UnderwritingServerTypeOK
    OBVIOUS
  <2>1. 0..(ControllerTries - 1) = {0, 1, 2}
    BY DEF ControllerTries
  <2>2. uvWork \in [Callers -> UnderwritingWork]
    BY CallsNow DEF UnderwritingServerInv
  <2>. QED
    BY <2>1, <2>2 DEF UnderwritingServerInv, UnderwritingServerTypeOK, UnderwritingWork, KnownScores,
                      NoScore, DoneFits
<1>. QED
  BY <1>1, UnderwritingServerInitInv, UnderwritingServerNextInv, PTL DEF UnderwritingServerSpec

\* A message resolved as approved was told to OneShield twice, successfully or not, and
\* a policy whose score is zero is never decided (UnderwritingService.ts:121, :262-276,
\* UnderwritingEventConsumer.ts:166-168).
THEOREM ApprovalAlwaysToldTwice == UnderwritingServerSpec => []ApprovalToldTwice
<1>1. UnderwritingServerInv => ApprovalToldTwice
  <2>. SUFFICES ASSUME UnderwritingServerInv, uvDone.outcome = "resolved"
                PROVE  /\ uvDone.score > 0 /\ uvDone.first # "none"
                       /\ uvDone.score <= LowRisk => uvDone.second \in {"synced", "failed"}
    BY DEF ApprovalToldTwice
  <2>1. /\ uvDone.score \in RiskScores /\ uvDone.score # 0 /\ uvDone.first # "none"
        /\ Approved(uvDone) => uvDone.second \in {"synced", "failed"}
    BY DEF UnderwritingServerInv, DoneFits, CanDecide
  <2>2. uvDone.score <= LowRisk => Approved(uvDone)
    BY DEF Approved, DecisionRules
  <2>3. uvDone.score > 0
    <3>1. \A s \in RiskScores : s # 0 => s > 0
      BY RiskScoresAssumption
    <3>. QED
      BY <2>1, <3>1, Zenon
  <2>. QED
    BY <2>1, <2>2, <2>3
<1>. QED
  BY <1>1, UnderwritingServerInitInv, UnderwritingServerNextInv, PTL DEF UnderwritingServerSpec

-----------------------------------------------------------------------------
(* The endorsements                                                        *)

CreationStages == {"new", "valid", "inserted", "cached", "committed", "failed"}
Task == [at : {"idle", "filling", "updating", "deleting", "syncing", "synced", "sync failed"},
         of : EndorsementIds \cup {"none"}, read : {"none", "PENDING", "SYNCED"}]

\* An endorsement that excludes others: its creation is under way or it is pending.
Excludes(e) == e \in UnderWay \/ enStatus[e] \in Blocking

EndorsementsTypes ==
  /\ enStage \in [EndorsementIds -> CreationStages]
  /\ enStatus \in [EndorsementIds -> {"none", "PENDING", "SYNCED"}]
  /\ enCache \subseteq EndorsementIds /\ enListed \in BOOLEAN
  /\ enWork \in [Readers -> Task]
  /\ enAtCarrier \subseteq EndorsementIds /\ enReverted \subseteq EndorsementIds

PairsExplained ==
  \A e, f \in EndorsementIds :
    e # f /\ Excludes(e) /\ Excludes(f) => {e, f} \in enTogether \/ {e, f} \cap enReverted # {}
CacheExplained == \A e \in enCache : Row(e) \/ enStage[e] \in {"cached", "failed"}
CarrierKnows ==
  /\ \A e \in EndorsementIds : enStatus[e] = "SYNCED" => e \in enAtCarrier
  /\ \A c \in Readers : enWork[c].at = "synced" => enWork[c].of \in enAtCarrier
TasksHaveRows ==
  \A c \in Readers : enWork[c].at # "idle" => enWork[c].of \in EndorsementIds /\ Row(enWork[c].of)

EndorsementsInv ==
  EndorsementsTypes /\ PairsExplained /\ CacheExplained /\ CarrierKnows /\ TasksHaveRows

LEMMA EndorsementsInitInv == EndorsementsInit => EndorsementsInv
<1>. SUFFICES ASSUME EndorsementsInit PROVE EndorsementsInv
  OBVIOUS
<1>1. NoTask \in Task /\ NoTask.at = "idle"
  BY DEF NoTask, Task
<1>2. enListed \in BOOLEAN
  BY Zenon DEF EndorsementsInit
<1>3. EndorsementsTypes
  BY <1>1, <1>2 DEF EndorsementsInit, EndorsementsTypes, CreationStages
<1>4. PairsExplained /\ CacheExplained /\ CarrierKnows /\ TasksHaveRows
  BY <1>1 DEF EndorsementsInit, PairsExplained, Excludes, UnderWay, Blocking, CacheExplained,
              CarrierKnows, TasksHaveRows
<1>. QED
  BY <1>3, <1>4 DEF EndorsementsInv

LEMMA EndorsementTypesNow ==
  ASSUME EndorsementsInv
  PROVE  /\ enStage \in [EndorsementIds -> CreationStages]
         /\ enStatus \in [EndorsementIds -> {"none", "PENDING", "SYNCED"}]
         /\ enCache \subseteq EndorsementIds /\ enListed \in BOOLEAN
         /\ enWork \in [Readers -> Task]
         /\ enAtCarrier \subseteq EndorsementIds /\ enReverted \subseteq EndorsementIds
BY DEF EndorsementsInv, EndorsementsTypes

-----------------------------------------------------------------------------
(* Creations                                                               *)

\* A creation moves on: those that exclude others stay, or one more comes that was
\* under way together with the rest.
LEMMA CreationStep ==
  ASSUME EndorsementsInv, NEW e \in EndorsementIds, NEW to \in CreationStages,
         enStage' = [enStage EXCEPT ![e] = to],
         UNCHANGED <<enListed, enWork, enAtCarrier, enReverted>>,
         enStatus' = enStatus \/ (enStatus' = [enStatus EXCEPT ![e] = "PENDING"] /\ e \in UnderWay),
         enCache' = enCache \/ (enCache' = enCache \cup {e} /\ to = "cached"),
         enTogether \subseteq enTogether',
         enStage[e] \in {"cached", "failed"} => to \in {"cached", "failed"} \/ enStatus'[e] = "PENDING",
         \/ to \in {"failed", "committed"} \/ e \in UnderWay
         \/ \A f \in EndorsementIds \ {e} : enStatus[f] \notin Blocking /\ (f \in UnderWay => {e, f} \in enTogether')
  PROVE  EndorsementsInv'
<1>. USE EndorsementTypesNow
<1>1. /\ enStage' \in [EndorsementIds -> CreationStages] /\ enStage'[e] = to
      /\ \A f \in EndorsementIds \ {e} : enStage'[f] = enStage[f]
  OBVIOUS
<1>2. /\ enStatus' \in [EndorsementIds -> {"none", "PENDING", "SYNCED"}]
      /\ \A f \in EndorsementIds \ {e} : enStatus'[f] = enStatus[f]
      /\ enStatus'[e] = enStatus[e] \/ (enStatus'[e] = "PENDING" /\ e \in UnderWay)
  OBVIOUS
<1>3. enCache' \subseteq EndorsementIds /\ enListed' \in BOOLEAN
  OBVIOUS
<1>4. EndorsementsTypes'
  BY <1>1, <1>2, <1>3 DEF EndorsementsTypes
<1>5. \A f \in EndorsementIds : enStatus'[f] # enStatus[f] => f = e /\ enStatus'[e] = "PENDING"
  BY <1>2
<1>6. CarrierKnows' /\ TasksHaveRows'
  <2>1. \A f \in EndorsementIds : Row(f) => Row(f)'
    BY <1>5 DEF Row
  <2>2. \A f \in EndorsementIds : enStatus'[f] = "SYNCED" => enStatus[f] = "SYNCED"
    BY <1>5
  <2>. QED
    BY <2>1, <2>2 DEF EndorsementsInv, CarrierKnows, TasksHaveRows
<1>7. CacheExplained'
  <2>1. ASSUME NEW f \in enCache'
        PROVE  Row(f)' \/ enStage'[f] \in {"cached", "failed"}
    <3>1. CASE f # e
      BY <1>1, <1>2, <2>1, <3>1 DEF EndorsementsInv, CacheExplained, Row
    <3>2. CASE f = e
      BY <1>1, <1>2, <2>1, <3>2 DEF EndorsementsInv, CacheExplained, Row
    <3>. QED
      BY <3>1, <3>2
  <2>. QED
    BY <2>1 DEF CacheExplained
<1>8. PairsExplained'
  <2>1. \A f \in EndorsementIds \ {e} : Excludes(f)' <=> Excludes(f)
    BY <1>1, <1>2 DEF Excludes, UnderWay
  <2>2. Excludes(e)' => \/ Excludes(e)
                        \/ \A f \in EndorsementIds \ {e} :
                             enStatus[f] \notin Blocking /\ (f \in UnderWay => {e, f} \in enTogether')
    <3>1. to \in {"failed", "committed"} => e \notin UnderWay'
      BY <1>1 DEF UnderWay
    <3>. QED
      BY <1>2, <3>1 DEF Excludes
  <2>3. ASSUME NEW f \in EndorsementIds \ {e}, Excludes(e)', Excludes(f)
        PROVE  {e, f} \in enTogether' \/ {e, f} \cap enReverted # {}
    <3>1. CASE Excludes(e)
      BY <2>3, <3>1 DEF EndorsementsInv, PairsExplained
    <3>2. CASE ~Excludes(e)
      BY <2>2, <2>3, <3>2 DEF Excludes
    <3>. QED
      BY <3>1, <3>2
  <2>4. ASSUME NEW d \in EndorsementIds, NEW f \in EndorsementIds, d # f, Excludes(d)', Excludes(f)'
        PROVE  {d, f} \in enTogether' \/ {d, f} \cap enReverted' # {}
    <3>1. CASE d = e
      BY <2>1, <2>3, <2>4, <3>1
    <3>2. CASE f = e
      <4>1. {d, f} = {f, d}
        OBVIOUS
      <4>. QED
        BY <2>1, <2>3, <2>4, <3>2, <4>1
    <3>3. CASE d # e /\ f # e
      BY <2>1, <2>4, <3>3 DEF EndorsementsInv, PairsExplained
    <3>. QED
      BY <3>1, <3>2, <3>3
  <2>. QED
    BY <2>4 DEF PairsExplained
<1>. QED
  BY <1>4, <1>6, <1>7, <1>8 DEF EndorsementsInv

LEMMA CreationSteps ==
  ASSUME EndorsementsInv, NEW e \in EndorsementIds,
         \/ ValidateEndorsement(e) \/ InsertEndorsement(e) \/ CacheCreated(e)
         \/ CommitEndorsement(e) \/ CreationFails(e)
  PROVE  EndorsementsInv'
<1>. USE DEF CreationStages
<1>1. CASE ValidateEndorsement(e)
  <2>1. \A f \in EndorsementIds \ {e} : enStatus[f] \notin Blocking /\ (f \in UnderWay => {e, f} \in enTogether')
    BY <1>1 DEF ValidateEndorsement, Conflicts
  <2>2. enTogether \subseteq enTogether' /\ enStage[e] = "new"
    BY <1>1 DEF ValidateEndorsement
  <2>. QED
    BY <1>1, <2>1, <2>2, CreationStep DEF ValidateEndorsement
<1>2. CASE InsertEndorsement(e)
  <2>1. e \in UnderWay /\ enStage[e] = "valid"
    BY <1>2 DEF InsertEndorsement, UnderWay
  <2>. QED
    BY <1>2, <2>1, CreationStep DEF InsertEndorsement, enData
<1>3. CASE CacheCreated(e)
  <2>1. e \in UnderWay /\ enStage[e] = "inserted"
    BY <1>3 DEF CacheCreated, UnderWay
  <2>. QED
    BY <1>3, <2>1, CreationStep DEF CacheCreated
<1>4. CASE CommitEndorsement(e)
  <2>1. e \in UnderWay /\ enStage[e] = "cached"
    BY <1>4 DEF CommitEndorsement, UnderWay
  <2>2. enStatus'[e] = "PENDING"
    BY <1>4, EndorsementTypesNow DEF CommitEndorsement
  <2>. QED
    BY <1>4, <2>1, <2>2, CreationStep DEF CommitEndorsement
<1>5. CASE CreationFails(e)
  BY <1>5, CreationStep DEF CreationFails, enData
<1>. QED
  BY <1>1, <1>2, <1>3, <1>4, <1>5

-----------------------------------------------------------------------------
(* Reads, updates, deletions and synchronisations                          *)

\* A call moves on and the rows keep their status.
LEMMA TaskStep ==
  ASSUME EndorsementsInv, NEW c \in Readers, NEW task \in Task, enWork' = [enWork EXCEPT ![c] = task],
         UNCHANGED <<enStage, enStatus, enListed, enTogether, enReverted>>,
         task.at # "idle" => task.of \in EndorsementIds /\ Row(task.of),
         task.at = "synced" => task.of \in enAtCarrier',
         enAtCarrier \subseteq enAtCarrier', enAtCarrier' \subseteq EndorsementIds,
         enCache' \subseteq EndorsementIds,
         \A e \in enCache' : e \in enCache \/ Row(e)
  PROVE  EndorsementsInv'
<1>. USE EndorsementTypesNow
<1>1. /\ enWork' \in [Readers -> Task] /\ enWork'[c] = task
      /\ \A d \in Readers \ {c} : enWork'[d] = enWork[d]
  OBVIOUS
<1>2. EndorsementsTypes'
  BY <1>1 DEF EndorsementsTypes
<1>3. \A e \in EndorsementIds : (Row(e)' <=> Row(e)) /\ (Excludes(e)' <=> Excludes(e))
  BY DEF Row, Excludes, UnderWay
<1>4. PairsExplained' /\ CacheExplained'
  BY <1>3 DEF EndorsementsInv, PairsExplained, CacheExplained
<1>5. CarrierKnows' /\ TasksHaveRows'
  BY <1>1, <1>3 DEF EndorsementsInv, CarrierKnows, TasksHaveRows
<1>. QED
  BY <1>2, <1>4, <1>5 DEF EndorsementsInv

\* How a call begins, goes on and returns.
LEMMA TaskBegins ==
  ASSUME EndorsementsInv, NEW c \in Readers, NEW e \in EndorsementIds, Row(e),
         NEW at \in {"filling", "updating", "deleting", "syncing"}, Begins(c, at, e)
  PROVE  \E task \in Task : /\ enWork' = [enWork EXCEPT ![c] = task]
                            /\ task.at = at /\ task.of = e
<1>1. PICK task : task = [at |-> at, of |-> e, read |-> enStatus[e]]
  OBVIOUS
<1>2. task \in Task /\ task.at = at /\ task.of = e
  BY <1>1, EndorsementTypesNow DEF Task
<1>. QED
  BY <1>1, <1>2 DEF Begins

LEMMA TaskMoves ==
  ASSUME EndorsementsInv, NEW c \in Readers, NEW from, NEW to \in {"synced", "sync failed"}, Steps(c, from, to)
  PROVE  \E task \in Task : /\ enWork' = [enWork EXCEPT ![c] = task]
                            /\ task.at = to /\ task.of = enWork[c].of
<1>1. PICK task : task = [enWork[c] EXCEPT !.at = to]
  OBVIOUS
<1>2. task \in Task /\ task.at = to /\ task.of = enWork[c].of
  BY <1>1, EndorsementTypesNow DEF Task
<1>. QED
  BY <1>1, <1>2 DEF Steps

LEMMA TaskReturns ==
  ASSUME NEW c \in Readers, NEW from, Returns(c, from)
  PROVE  /\ enWork' = [enWork EXCEPT ![c] = NoTask]
         /\ NoTask \in Task /\ NoTask.at = "idle" /\ enWork[c].at = from
BY DEF Returns, NoTask, Task

LEMMA TaskNow ==
  ASSUME EndorsementsInv, NEW c \in Readers, enWork[c].at # "idle"
  PROVE  enWork[c].of \in EndorsementIds /\ Row(enWork[c].of)
BY DEF EndorsementsInv, TasksHaveRows

LEMMA BeginTasks ==
  ASSUME EndorsementsInv, NEW c \in Readers,
         FindEndorsement(c) \/ FindForUpdate(c) \/ FindForDelete(c) \/ BeginSync(c)
  PROVE  EndorsementsInv'
<1>1. UNCHANGED <<enStage, enStatus, enCache, enListed, enAtCarrier, enTogether, enReverted>>
  BY DEF FindEndorsement, FindForUpdate, FindForDelete, BeginSync, enData
<1>2. PICK e \in EndorsementIds, at \in {"filling", "updating", "deleting", "syncing"} :
        Row(e) /\ Begins(c, at, e)
  BY DEF FindEndorsement, FindForUpdate, FindForDelete, BeginSync
<1>3. PICK task \in Task : enWork' = [enWork EXCEPT ![c] = task] /\ task.at = at /\ task.of = e
  BY <1>2, TaskBegins
<1>. QED
  BY <1>1, <1>2, <1>3, EndorsementTypesNow, TaskStep

LEMMA EndTasks ==
  ASSUME EndorsementsInv, NEW c \in Readers, FillEndorsement(c) \/ RefuseUpdate(c) \/ DropEndorsement(c)
  PROVE  EndorsementsInv'
<1>1. UNCHANGED <<enStage, enStatus, enListed, enAtCarrier, enTogether, enReverted>>
  BY DEF FillEndorsement, RefuseUpdate, DropEndorsement, enData
<1>2. PICK from \in {"filling", "updating", "deleting"} : Returns(c, from)
  BY DEF FillEndorsement, RefuseUpdate, DropEndorsement
<1>3. enWork' = [enWork EXCEPT ![c] = NoTask] /\ NoTask \in Task /\ NoTask.at = "idle" /\ enWork[c].at # "idle"
  BY <1>2, TaskReturns
<1>4. enWork[c].of \in EndorsementIds /\ Row(enWork[c].of)
  BY <1>3, TaskNow
<1>5. enCache' \subseteq enCache \cup {enWork[c].of}
  BY DEF FillEndorsement, RefuseUpdate, DropEndorsement, enData
<1>6. enCache' \subseteq EndorsementIds /\ \A e \in enCache' : e \in enCache \/ Row(e)
  BY <1>4, <1>5, EndorsementTypesNow
<1>. QED
  BY <1>1, <1>3, <1>6, EndorsementTypesNow, TaskStep

LEMMA CarrierStep ==
  ASSUME EndorsementsInv, NEW c \in Readers, CallCarrier(c)
  PROVE  EndorsementsInv'
<1>1. /\ UNCHANGED <<enStage, enStatus, enCache, enListed, enTogether, enReverted>>
      /\ enWork[c].at = "syncing"
      /\ enAtCarrier' \in {enAtCarrier, enAtCarrier \cup {enWork[c].of}}
  BY DEF CallCarrier, Steps
<1>2. enWork[c].of \in EndorsementIds /\ Row(enWork[c].of)
  BY <1>1, TaskNow
<1>3. PICK to \in {"synced", "sync failed"} :
        Steps(c, "syncing", to) /\ (to = "synced" => enWork[c].of \in enAtCarrier')
  BY DEF CallCarrier
<1>4. PICK task \in Task : /\ enWork' = [enWork EXCEPT ![c] = task]
                           /\ task.at = to /\ task.of = enWork[c].of
  BY <1>3, TaskMoves
<1>5. enAtCarrier \subseteq enAtCarrier' /\ enAtCarrier' \subseteq EndorsementIds
  BY <1>1, <1>2, EndorsementTypesNow
<1>. QED
  BY <1>1, <1>2, <1>3, <1>4, <1>5, EndorsementTypesNow, TaskStep

\* A synchronisation saves its outcome.
LEMMA StatusStep ==
  ASSUME EndorsementsInv, NEW c \in Readers, enWork' = [enWork EXCEPT ![c] = NoTask],
         UNCHANGED <<enStage, enCache, enListed, enAtCarrier, enTogether>>,
         NEW e \in EndorsementIds, Row(e), NEW status \in {"PENDING", "SYNCED"},
         enStatus' = [enStatus EXCEPT ![e] = status],
         status = "SYNCED" => e \in enAtCarrier,
         enReverted \subseteq enReverted', enReverted' \subseteq EndorsementIds,
         status = "PENDING" /\ enStatus[e] = "SYNCED" => e \in enReverted'
  PROVE  EndorsementsInv'
<1>. USE EndorsementTypesNow
<1>1. /\ enWork' \in [Readers -> Task] /\ enWork'[c].at = "idle"
      /\ \A d \in Readers \ {c} : enWork'[d] = enWork[d]
  BY DEF NoTask, Task
<1>2. /\ enStatus' \in [EndorsementIds -> {"none", "PENDING", "SYNCED"}] /\ enStatus'[e] = status
      /\ \A f \in EndorsementIds \ {e} : enStatus'[f] = enStatus[f]
  OBVIOUS
<1>3. EndorsementsTypes'
  BY <1>1, <1>2 DEF EndorsementsTypes
<1>4. \A f \in EndorsementIds : Row(f)' <=> Row(f)
  BY <1>2 DEF Row
<1>5. CacheExplained' /\ TasksHaveRows'
  BY <1>1, <1>4 DEF EndorsementsInv, CacheExplained, TasksHaveRows
<1>6. CarrierKnows'
  BY <1>1, <1>2 DEF EndorsementsInv, CarrierKnows
<1>7. \A f \in EndorsementIds : Excludes(f)' => Excludes(f) \/ f \in enReverted'
  BY <1>2 DEF Excludes, UnderWay, Blocking, Row
<1>8. PairsExplained'
  BY <1>7 DEF EndorsementsInv, PairsExplained
<1>. QED
  BY <1>3, <1>5, <1>6, <1>8 DEF EndorsementsInv

LEMMA SaveSteps ==
  ASSUME EndorsementsInv, NEW c \in Readers, SaveSynced(c) \/ SavePending(c)
  PROVE  EndorsementsInv'
<1>1. /\ UNCHANGED <<enStage, enCache, enListed, enAtCarrier, enTogether>>
      /\ enWork[c].at # "idle" /\ enReverted \subseteq enReverted' /\ enReverted' \subseteq EndorsementIds
  BY EndorsementTypesNow DEF SaveSynced, SavePending, Returns, Steps
<1>2. enWork[c].of \in EndorsementIds /\ Row(enWork[c].of)
  BY <1>1, TaskNow
<1>3. enStatus' = enStatus => enReverted' = enReverted
  BY DEF SaveSynced, SavePending
<1>4. CASE enStatus' = enStatus
  <2>1. CASE Steps(c, "synced", "sync failed")
    <3>1. PICK task \in Task : /\ enWork' = [enWork EXCEPT ![c] = task]
                               /\ task.at = "sync failed" /\ task.of = enWork[c].of
      BY <2>1, TaskMoves
    <3>. QED
      BY <1>1, <1>2, <1>3, <1>4, <3>1, EndorsementTypesNow, TaskStep
  <2>2. CASE Returns(c, "synced") \/ Returns(c, "sync failed")
    <3>1. enWork' = [enWork EXCEPT ![c] = NoTask] /\ NoTask \in Task /\ NoTask.at = "idle"
      BY <2>2, TaskReturns
    <3>. QED
      BY <1>1, <1>3, <1>4, <3>1, EndorsementTypesNow, TaskStep
  <2>. QED
    BY <2>1, <2>2 DEF SaveSynced, SavePending
<1>5. CASE SaveSynced(c) /\ enStatus' # enStatus
  <2>1. /\ Returns(c, "synced") /\ enStatus' = [enStatus EXCEPT ![enWork[c].of] = "SYNCED"]
        /\ enReverted' = enReverted
    BY <1>5 DEF SaveSynced, SaveStatus
  <2>2. enWork[c].of \in enAtCarrier
    BY <2>1 DEF Returns, EndorsementsInv, CarrierKnows
  <2>3. enWork' = [enWork EXCEPT ![c] = NoTask]
    BY <2>1, TaskReturns
  <2>4. PICK e \in EndorsementIds : e = enWork[c].of
    BY <1>2
  <2>. QED
    BY <1>1, <1>2, <2>1, <2>2, <2>3, <2>4, StatusStep
<1>6. CASE SavePending(c) /\ enStatus' # enStatus
  <2>1. /\ Returns(c, "sync failed") /\ enStatus' = [enStatus EXCEPT ![enWork[c].of] = "PENDING"]
        /\ enReverted' = enReverted \cup {e \in EndorsementIds :
                                            enStatus[e] = "SYNCED" /\ enStatus'[e] = "PENDING"}
    BY <1>6 DEF SavePending, SaveStatus
  <2>2. enWork' = [enWork EXCEPT ![c] = NoTask]
    BY <2>1, TaskReturns
  <2>3. PICK e \in EndorsementIds : e = enWork[c].of
    BY <1>2
  <2>4. enStatus'[e] = "PENDING"
    BY <2>1, <2>3, EndorsementTypesNow
  <2>5. enStatus[e] = "SYNCED" => e \in enReverted'
    BY <2>1, <2>4
  <2>. QED
    BY <1>1, <1>2, <2>1, <2>2, <2>3, <2>5, StatusStep
<1>. QED
  BY <1>4, <1>5, <1>6

LEMMA EndorsementsNextInv == EndorsementsInv /\ [EndorsementsNext]_enVars => EndorsementsInv'
<1>. SUFFICES ASSUME EndorsementsInv, [EndorsementsNext]_enVars PROVE EndorsementsInv'
  OBVIOUS
<1>1. CASE EndorsementExpires \/ ListEndorsements \/ UNCHANGED enVars
  <2>1. UNCHANGED <<enStage, enStatus, enWork, enAtCarrier, enTogether, enReverted>> /\ enCache' \subseteq enCache
    BY <1>1 DEF EndorsementExpires, ListEndorsements, enVars
  <2>2. enListed' \in BOOLEAN
    <3>1. enListed' \in {enListed, TRUE, FALSE}
      BY <1>1 DEF EndorsementExpires, ListEndorsements, enVars
    <3>. QED
      BY <3>1, Zenon DEF EndorsementsInv, EndorsementsTypes
  <2>3. EndorsementsTypes'
    BY <2>1, <2>2 DEF EndorsementsInv, EndorsementsTypes
  <2>4. \A e \in EndorsementIds : (Row(e)' <=> Row(e)) /\ (Excludes(e)' <=> Excludes(e))
    BY <2>1 DEF Row, Excludes, UnderWay
  <2>5. PairsExplained' /\ CacheExplained' /\ CarrierKnows' /\ TasksHaveRows'
    BY <2>1, <2>4, EndorsementTypesNow
       DEF EndorsementsInv, PairsExplained, CacheExplained, CarrierKnows, TasksHaveRows
  <2>. QED
    BY <2>3, <2>5 DEF EndorsementsInv
<1>2. ASSUME NEW e \in EndorsementIds,
             \/ ValidateEndorsement(e) \/ InsertEndorsement(e) \/ CacheCreated(e)
             \/ CommitEndorsement(e) \/ CreationFails(e)
      PROVE  EndorsementsInv'
  BY <1>2, CreationSteps
<1>3. ASSUME NEW c \in Readers,
             \/ FindEndorsement(c) \/ FillEndorsement(c) \/ FindForUpdate(c) \/ RefuseUpdate(c)
             \/ FindForDelete(c) \/ DropEndorsement(c) \/ BeginSync(c) \/ CallCarrier(c)
             \/ SaveSynced(c) \/ SavePending(c)
      PROVE  EndorsementsInv'
  BY <1>3, BeginTasks, EndTasks, CarrierStep, SaveSteps
<1>. QED
  BY <1>1, <1>2, <1>3 DEF EndorsementsNext

\* Creations, rows, caches and calls of the endorsements are of their types.
THEOREM EndorsementsTyped == EndorsementsSpec => []EndorsementsTypeOK
<1>1. EndorsementsInv => EndorsementsTypeOK
  BY DEF EndorsementsInv, EndorsementsTypes, EndorsementsTypeOK, CreationStages, Task
<1>. QED
  BY <1>1, EndorsementsInitInv, EndorsementsNextInv, PTL DEF EndorsementsSpec

\* Two endorsements of one date are pending together only if their creations
\* overlapped or a failed repetition made a synced one pending again; a cached one
\* without a row is a creation under way or rolled back; a synced one is at the
\* carrier (Endorsement.ts:156, :217, EndorsementRepository.ts:86).
THEOREM ConflictsAlwaysExplained == EndorsementsSpec => []ConflictsExplained
<1>1. EndorsementsInv => ConflictsExplained
  BY EndorsementTypesNow
     DEF EndorsementsInv, PairsExplained, CacheExplained, CarrierKnows, ConflictsExplained, Excludes
<1>. QED
  BY <1>1, EndorsementsInitInv, EndorsementsNextInv, PTL DEF EndorsementsSpec

-----------------------------------------------------------------------------
(* The documents                                                           *)

UploadSteps == {"receiving", "encrypting", "storing", "saving", "confirming"}
DocumentSteps == AtRepository \cup {"idle", "receiving", "confirming", "looking",
                                    "answering", "dropping again", "listing"}
DocumentReaders == {"get", "decrypt", "delete", "erase"}
ReaderSteps == {"looking", "finding", "fetching", "filling", "erasing", "dropping", "answering",
                "dropping again"}

\* The contents that the key holds or has lost to another request.
Kept == ({dcObject} \cup dcReplaced \cup dcErased) \ {0}

\* What a request may be, given the files, the rows and the contents kept: an upload
\* has a file of its own, whose content is kept once it was put and which has its row
\* once it was saved; the others work on a document with a row.
Fits(call, files, rows, kept) ==
  /\ call \in [at : DocumentSteps, op : DocumentReaders \cup {"none", "upload", "list"},
               file : 0..files, heard : BOOLEAN]
  /\ call.op = "upload" <=> call.at \in UploadSteps
  /\ call.at = "idle" => call.op = "none"
  /\ call.op = "upload" => call.file # 0
  /\ call.op \in DocumentReaders <=> call.at \in ReaderSteps
  /\ call.op \in DocumentReaders => call.file \in rows
  /\ call.op \in {"none", "list"} => call.file = 0
  /\ call.at = "confirming" => call.file \in rows
  /\ call.at = "saving" => call.file \in kept

DocumentStores ==
  /\ dcFiles \in 0..MaxFiles /\ dcRows \subseteq 1..dcFiles /\ dcObject \in 0..dcFiles
  /\ dcCache \subseteq 1..dcFiles /\ dcList \in BOOLEAN
  /\ dcConfirmed \cup dcRefused \cup dcReplaced \cup dcErased \subseteq Files
  /\ dcConfirmed \subseteq dcRows /\ dcRows \subseteq Kept

DocumentStoreInv ==
  /\ DocumentStores
  /\ dcCall = [c \in DocumentCalls |-> dcCall[c]]
  /\ \A c \in DocumentCalls : Fits(dcCall[c], dcFiles, dcRows, Kept)
  /\ dcObject # 0 =>
       dcObject \in dcRows \cup dcRefused \/ \E c \in DocumentCalls : dcCall[c].file = dcObject

LEMMA NoCallFits ==
  ASSUME NEW files \in Nat, NEW rows, NEW kept
  PROVE  Fits(NoCall, files, rows, kept)
BY DEF Fits, NoCall, DocumentSteps, UploadSteps, AtRepository, DocumentReaders, ReaderSteps

LEMMA FitsGrow ==
  ASSUME NEW files \in Nat, NEW more \in Nat, files <= more,
         NEW rows, NEW kept, NEW rows2, NEW kept2, rows \subseteq rows2, kept \subseteq kept2,
         NEW call, Fits(call, files, rows, kept)
  PROVE  Fits(call, more, rows2, kept2)
<1>1. 0..files \subseteq 0..more
  OBVIOUS
<1>. QED
  BY <1>1 DEF Fits

LEMMA DocumentStoreInitInv == DocumentStoreInit => DocumentStoreInv
<1>. SUFFICES ASSUME DocumentStoreInit PROVE DocumentStoreInv
  OBVIOUS
<1>1. DocumentStores
  <2>1. dcFiles \in 0..MaxFiles /\ dcObject \in 0..dcFiles
    BY DocumentStoreAssumption DEF DocumentStoreInit
  <2>2. dcList \in BOOLEAN
    BY Zenon DEF DocumentStoreInit
  <2>. QED
    BY <2>1, <2>2 DEF DocumentStoreInit, DocumentStores
<1>2. \A c \in DocumentCalls : Fits(dcCall[c], dcFiles, dcRows, Kept)
  BY NoCallFits DEF DocumentStoreInit
<1>. QED
  BY <1>1, <1>2 DEF DocumentStoreInit, DocumentStoreInv

LEMMA FilesNow ==
  ASSUME DocumentStoreInv
  PROVE  dcFiles \in Nat /\ dcFiles <= MaxFiles /\ 1..dcFiles \subseteq Files
BY DocumentStoreAssumption DEF DocumentStoreInv, DocumentStores, Files

\* A step of request c: the stores only grow, what one request loses of the content
\* another keeps, and the file of c stays known.
LEMMA DocumentStep ==
  ASSUME DocumentStoreInv, NEW c \in DocumentCalls, NEW call,
         dcCall' = [dcCall EXCEPT ![c] = call],
         Fits(call, dcFiles', dcRows', Kept'),
         dcFiles' \in Nat, dcFiles <= dcFiles', DocumentStores',
         dcRows \subseteq dcRows', Kept \subseteq Kept', dcRefused \subseteq dcRefused',
         dcObject' \in {dcObject, 0, call.file},
         dcCall[c].file \in {0, call.file} \cup dcRows' \cup dcRefused'
  PROVE  DocumentStoreInv'
<1>1. /\ dcCall' = [d \in DocumentCalls |-> dcCall'[d]] /\ dcCall'[c] = call
      /\ \A d \in DocumentCalls \ {c} : dcCall'[d] = dcCall[d]
  BY DEF DocumentStoreInv
<1>2. \A d \in DocumentCalls : Fits(dcCall'[d], dcFiles', dcRows', Kept')
  <2>1. ASSUME NEW d \in DocumentCalls \ {c} PROVE Fits(dcCall[d], dcFiles', dcRows', Kept')
    BY FilesNow, FitsGrow DEF DocumentStoreInv
  <2>. QED
    BY <1>1, <2>1
<1>3. ASSUME dcObject' # 0
      PROVE  dcObject' \in dcRows' \cup dcRefused' \/ \E d \in DocumentCalls : dcCall'[d].file = dcObject'
  <2>1. CASE dcObject' = call.file
    BY <1>1, <2>1
  <2>2. CASE dcObject' = dcObject
    <3>1. CASE dcObject \in dcRows \cup dcRefused
      BY <2>2, <3>1
    <3>2. ASSUME NEW d \in DocumentCalls, dcCall[d].file = dcObject
          PROVE  dcObject' \in dcRows' \cup dcRefused' \/ \E e \in DocumentCalls : dcCall'[e].file = dcObject'
      BY <1>1, <1>3, <2>2, <3>2
    <3>. QED
      BY <1>3, <2>2, <3>1, <3>2 DEF DocumentStoreInv
  <2>. QED
    BY <1>3, <2>1, <2>2
<1>. QED
  BY <1>1, <1>2, <1>3 DEF DocumentStoreInv

\* A step of request c that leaves the stores alone.
LEMMA QuietDocumentStep ==
  ASSUME DocumentStoreInv, NEW c \in DocumentCalls, NEW call, UNCHANGED dcStores,
         dcCall' = [dcCall EXCEPT ![c] = call],
         Fits(call, dcFiles, dcRows, Kept),
         dcCache' \subseteq dcCache \cup {dcCall[c].file}, 
         dcCache' \subseteq dcCache \/ dcCall[c].file # 0,
         dcList' \in BOOLEAN,
         dcRefused' \in {dcRefused, dcRefused \cup ({dcCall[c].file} \ {0})},
         dcConfirmed' = dcConfirmed \/ (dcConfirmed' = dcConfirmed \cup {dcCall[c].file} /\ dcCall[c].file \in dcRows),
         dcCall[c].file \in {0, call.file} \cup dcRows \cup dcRefused'
  PROVE  DocumentStoreInv'
<1>1. /\ dcFiles' = dcFiles /\ dcRows' = dcRows /\ dcObject' = dcObject
      /\ dcReplaced' = dcReplaced /\ dcErased' = dcErased
  BY DEF dcStores
<1>2. Kept' = Kept
  BY <1>1 DEF Kept
<1>3. dcCall[c].file \in 0..dcFiles
  BY DEF DocumentStoreInv, Fits
<1>4. dcCall[c].file # 0 => dcCall[c].file \in 1..dcFiles /\ dcCall[c].file \in Files
  BY <1>3, FilesNow
<1>5. dcCache' \subseteq 1..dcFiles
  BY <1>4 DEF DocumentStoreInv, DocumentStores
<1>6. dcRefused' \subseteq Files /\ dcRefused \subseteq dcRefused'
  BY <1>4 DEF DocumentStoreInv, DocumentStores
<1>7. dcConfirmed' \subseteq dcRows /\ dcConfirmed' \subseteq Files
  BY FilesNow DEF DocumentStoreInv, DocumentStores
<1>8. DocumentStores'
  BY <1>1, <1>2, <1>5, <1>6, <1>7 DEF DocumentStoreInv, DocumentStores, Files
<1>9. dcCall[c].file \in {0, call.file} \cup dcRows' \cup dcRefused'
  BY <1>1
<1>10. Fits(call, dcFiles', dcRows', Kept')
  BY <1>1, <1>2, Zenon
<1>11. dcFiles' \in Nat /\ dcFiles <= dcFiles'
  BY <1>1, FilesNow
<1>12. dcRows \subseteq dcRows' /\ Kept \subseteq Kept' /\ dcObject' \in {dcObject, 0, call.file}
  BY <1>1, <1>2
<1>. QED
  BY <1>6, <1>8, <1>9, <1>10, <1>11, <1>12, DocumentStep

CacheWithin(c) ==
  /\ dcCache' \subseteq dcCache \cup {dcCall[c].file}
  /\ dcCache' \subseteq dcCache \/ dcCall[c].file # 0
  /\ dcList' \in BOOLEAN

\* What is known of a request that is under way.
LEMMA FitsNow ==
  ASSUME DocumentStoreInv, NEW c \in DocumentCalls
  PROVE  /\ dcCall[c] \in [at : DocumentSteps, op : DocumentReaders \cup {"none", "upload", "list"},
                           file : 0..dcFiles, heard : BOOLEAN]
         /\ dcCall[c].op = "upload" <=> dcCall[c].at \in UploadSteps
         /\ dcCall[c].at = "idle" => dcCall[c].op = "none"
         /\ dcCall[c].op = "upload" => dcCall[c].file # 0
         /\ dcCall[c].op \in DocumentReaders <=> dcCall[c].at \in ReaderSteps
         /\ dcCall[c].op \in DocumentReaders => dcCall[c].file \in dcRows
         /\ 0 \notin dcRows
         /\ dcCall[c].op \in {"none", "list"} => dcCall[c].file = 0
         /\ dcCall[c].at = "confirming" => dcCall[c].file \in dcRows
         /\ dcCall[c].at = "saving" => dcCall[c].file \in Kept
         /\ dcList \in BOOLEAN /\ dcFiles \in Nat
         /\ dcFiles <= MaxFiles
BY FilesNow DEF DocumentStoreInv, Fits, DocumentStores

\* A request goes on to its next step.
LEMMA DocumentMoves ==
  ASSUME DocumentStoreInv, NEW c \in DocumentCalls, NEW from, NEW to, DocStep(c, from, to)
  PROVE  \E call : /\ dcCall' = [dcCall EXCEPT ![c] = call]
                   /\ call = [dcCall[c] EXCEPT !.at = to]
                   /\ dcCall[c].at = from
BY DEF DocStep, DocAt

LEMMA MovedFits ==
  ASSUME DocumentStoreInv, NEW c \in DocumentCalls, NEW to \in DocumentSteps, NEW call,
         call = [dcCall[c] EXCEPT !.at = to], to # "idle",
         dcCall[c].at \in UploadSteps <=> to \in UploadSteps,
         dcCall[c].at \in ReaderSteps <=> to \in ReaderSteps,
         NEW files \in Nat, dcFiles <= files, NEW rows, dcRows \subseteq rows, NEW kept, Kept \subseteq kept,
         to = "confirming" => dcCall[c].file \in rows,
         to = "saving" => dcCall[c].file \in kept
  PROVE  /\ Fits(call, files, rows, kept)
         /\ call.file = dcCall[c].file /\ call.op = dcCall[c].op
<1>1. /\ call.at = to /\ call.op = dcCall[c].op /\ call.file = dcCall[c].file
      /\ call.heard = dcCall[c].heard
      /\ call \in [at : DocumentSteps, op : DocumentReaders \cup {"none", "upload", "list"},
                   file : 0..dcFiles, heard : BOOLEAN]
  BY FitsNow
<1>2. 0..dcFiles \subseteq 0..files
  BY FitsNow
<1>3. call \in [at : DocumentSteps, op : DocumentReaders \cup {"none", "upload", "list"},
                file : 0..files, heard : BOOLEAN]
  BY <1>1, <1>2
<1>. HIDE DEF DocumentSteps
<1>. QED
  BY <1>1, <1>3, FitsNow DEF Fits

LEMMA QuietMove ==
  ASSUME DocumentStoreInv, NEW c \in DocumentCalls, NEW from, NEW to \in DocumentSteps,
         DocStep(c, from, to), to \notin {"idle", "confirming", "saving"},
         from \in UploadSteps <=> to \in UploadSteps,
         from \in ReaderSteps <=> to \in ReaderSteps,
         UNCHANGED <<dcStores, dcAnswers>>, CacheWithin(c)
  PROVE  DocumentStoreInv'
<1>1. PICK call : /\ dcCall' = [dcCall EXCEPT ![c] = call]
                  /\ call = [dcCall[c] EXCEPT !.at = to]
                  /\ dcCall[c].at = from
  BY DocumentMoves
<1>2. Fits(call, dcFiles, dcRows, Kept) /\ call.file = dcCall[c].file
  BY <1>1, FitsNow, MovedFits
<1>3. /\ dcRefused' \in {dcRefused, dcRefused \cup ({dcCall[c].file} \ {0})}
      /\ dcConfirmed' = dcConfirmed
      /\ dcCall[c].file \in {0, call.file} \cup dcRows \cup dcRefused'
  BY <1>2 DEF dcAnswers
<1>. QED
  BY <1>1, <1>2, <1>3, QuietDocumentStep DEF CacheWithin

\* A request ends: its file has a row, or the upload was refused.
LEMMA QuietEnd ==
  ASSUME DocumentStoreInv, NEW c \in DocumentCalls, dcCall' = [dcCall EXCEPT ![c] = NoCall],
         UNCHANGED dcStores, CacheWithin(c),
         dcRefused' = dcRefused \/ Refuse(c),
         dcConfirmed' = dcConfirmed \/ (dcConfirmed' = dcConfirmed \cup {dcCall[c].file} /\ DocAt(c, "confirming")),
         dcCall[c].op = "upload" => DocAt(c, "confirming") \/ Refuse(c)
  PROVE  DocumentStoreInv'
<1>1. Fits(NoCall, dcFiles, dcRows, Kept)
  BY NoCallFits, FitsNow
<1>2. dcRefused' \in {dcRefused, dcRefused \cup ({dcCall[c].file} \ {0})}
  BY FitsNow DEF Refuse
<1>3. dcConfirmed' = dcConfirmed \/ (dcConfirmed' = dcConfirmed \cup {dcCall[c].file} /\ dcCall[c].file \in dcRows)
  BY FitsNow DEF DocAt
<1>4. dcCall[c].file \in {0} \cup dcRows \cup dcRefused'
  <2>1. CASE dcCall[c].op = "upload"
    BY <2>1, FitsNow DEF DocAt, Refuse
  <2>2. CASE dcCall[c].op # "upload"
    BY <2>2, FitsNow
  <2>. QED
    BY <2>1, <2>2
<1>5. dcCall[c].file \in {0, NoCall.file} \cup dcRows \cup dcRefused'
  BY <1>4
<1>. QED
  BY <1>1, <1>2, <1>3, <1>5, QuietDocumentStep DEF CacheWithin

\* A request begins.
LEMMA QuietBegin ==
  ASSUME DocumentStoreInv, NEW c \in DocumentCalls, DocAt(c, "idle"), NEW call,
         dcCall' = [dcCall EXCEPT ![c] = call], Fits(call, dcFiles, dcRows, Kept),
         UNCHANGED <<dcStores, dcCache, dcList, dcAnswers>>
  PROVE  DocumentStoreInv'
<1>1. dcCall[c].file = 0 /\ dcList' \in BOOLEAN
  BY FitsNow DEF DocAt
<1>2. /\ dcRefused' \in {dcRefused, dcRefused \cup ({dcCall[c].file} \ {0})}
      /\ dcConfirmed' = dcConfirmed /\ dcCache' \subseteq dcCache
      /\ dcCall[c].file \in {0, call.file} \cup dcRows \cup dcRefused'
  BY <1>1 DEF dcAnswers
<1>3. dcCache' \subseteq dcCache \cup {dcCall[c].file}
  BY <1>2
<1>. QED
  BY <1>1, <1>2, <1>3, QuietDocumentStep

LEMMA BeginSteps ==
  ASSUME DocumentStoreInv, NEW c \in DocumentCalls,
         RequestDocument(c) \/ RequestDeletion(c) \/ RequestList(c)
  PROVE  DocumentStoreInv'
<1>1. /\ DocAt(c, "idle") /\ UNCHANGED <<dcStores, dcCache, dcList, dcAnswers>>
  BY DEF RequestDocument, RequestDeletion, RequestList
<1>2. PICK call : dcCall' = [dcCall EXCEPT ![c] = call] /\ Fits(call, dcFiles, dcRows, Kept)
  <2>1. CASE RequestDocument(c) \/ RequestDeletion(c)
    <3>1. PICK f \in dcRows, op \in DocumentReaders, at \in {"looking", "erasing"} :
            dcCall' = [dcCall EXCEPT ![c] = [at |-> at, op |-> op, file |-> f, heard |-> TRUE]]
      BY <2>1 DEF RequestDocument, RequestDeletion, DocumentReaders
    <3>2. f \in 0..dcFiles
      BY FilesNow DEF DocumentStoreInv, DocumentStores
    <3>3. Fits([at |-> at, op |-> op, file |-> f, heard |-> TRUE], dcFiles, dcRows, Kept)
      BY <3>2 DEF Fits, DocumentSteps, UploadSteps, AtRepository, DocumentReaders, ReaderSteps
    <3>. QED
      BY <3>1, <3>3
  <2>2. CASE RequestList(c)
    <3>1. Fits([at |-> "listing", op |-> "list", file |-> 0, heard |-> TRUE], dcFiles, dcRows, Kept)
      BY FilesNow DEF Fits, DocumentSteps, UploadSteps, AtRepository, DocumentReaders, ReaderSteps
    <3>. QED
      BY <2>2, <3>1 DEF RequestList
  <2>. QED
    BY <2>1, <2>2
<1>. QED
  BY <1>1, <1>2, QuietBegin

LEMMA DocumentReadSteps ==
  ASSUME DocumentStoreInv, NEW c \in DocumentCalls,
         \/ LookUpDocument(c) \/ FindDocument(c) \/ FetchContent(c) \/ FillDocument(c)
         \/ AnswerDocument(c) \/ ListDocuments(c) \/ DropDocument(c) \/ DropDocumentAgain(c)
         \/ EndUnheard(c)
  PROVE  DocumentStoreInv'
<1>. USE DEF DocumentSteps, UploadSteps, AtRepository, ReaderSteps
<1>1. UNCHANGED <<dcStores, dcAnswers>>
  BY DEF LookUpDocument, FindDocument, FetchContent, FillDocument, AnswerDocument, ListDocuments,
         DropDocument, DropDocumentAgain, EndUnheard
<1>2. dcCall[c].at \notin UploadSteps \/ DocAt(c, "confirming")
  BY DEF LookUpDocument, FindDocument, FetchContent, FillDocument, AnswerDocument, ListDocuments,
         DropDocument, DropDocumentAgain, EndUnheard, DocAt
<1>3. dcCall[c].op = "upload" => DocAt(c, "confirming")
  BY <1>2, FitsNow
<1>4. CacheWithin(c)
  <2>1. dcList' \in BOOLEAN
    <3>1. dcList' \in {dcList, TRUE}
      BY DEF LookUpDocument, FindDocument, FetchContent, FillDocument, AnswerDocument, ListDocuments,
             DropDocument, DropDocumentAgain, EndUnheard
    <3>. QED
      BY <3>1, FitsNow, Zenon
  <2>2. dcCache' \subseteq dcCache \/ (FillDocument(c) /\ dcCache' = dcCache \cup {dcCall[c].file})
    BY DEF LookUpDocument, FindDocument, FetchContent, FillDocument, AnswerDocument, ListDocuments,
           DropDocument, DropDocumentAgain, EndUnheard
  <2>3. FillDocument(c) => dcCall[c].file # 0
    BY FitsNow DEF FillDocument, DocAt
  <2>. QED
    BY <2>1, <2>2, <2>3 DEF CacheWithin
<1>5. CASE dcCall' = [dcCall EXCEPT ![c] = NoCall]
  BY <1>1, <1>3, <1>4, <1>5, QuietEnd DEF dcAnswers
<1>6. \/ dcCall' = [dcCall EXCEPT ![c] = NoCall]
      \/ \E from \in ReaderSteps,
            to \in {"finding", "answering", "fetching", "filling", "dropping again"} : DocStep(c, from, to)
  BY DEF LookUpDocument, FindDocument, FetchContent, FillDocument, AnswerDocument, ListDocuments,
         DropDocument, DropDocumentAgain, EndUnheard, GivenUp
<1>7. ASSUME NEW from \in ReaderSteps,
             NEW to \in {"finding", "answering", "fetching", "filling", "dropping again"},
             DocStep(c, from, to)
      PROVE  DocumentStoreInv'
  BY <1>1, <1>4, <1>7, QuietMove
<1>. QED
  BY <1>5, <1>6, <1>7

LEMMA UploadSteps1 ==
  ASSUME DocumentStoreInv, NEW c \in DocumentCalls,
         DocumentBreakerTimesOut(c) \/ TakeFile(c) \/ EncryptUpload(c) \/ ConfirmUpload(c)
  PROVE  DocumentStoreInv'
<1>. USE DEF DocumentSteps, UploadSteps, AtRepository, ReaderSteps
<1>1. CASE TakeFile(c) \/ EncryptUpload(c)
  <2>1. UNCHANGED <<dcStores, dcCache, dcList, dcConfirmed>> /\ CacheWithin(c)
    BY <1>1, FitsNow DEF TakeFile, EncryptUpload, CacheWithin
  <2>2. CASE Refuse(c)
    BY <2>1, <2>2, QuietEnd DEF Refuse
  <2>3. CASE ~Refuse(c)
    <3>1. /\ dcRefused' = dcRefused
          /\ DocStep(c, "receiving", "encrypting") \/ DocStep(c, "encrypting", "storing")
      BY <1>1, <2>3 DEF TakeFile, EncryptUpload
    <3>. QED
      BY <2>1, <3>1, QuietMove DEF dcAnswers
  <2>. QED
    BY <2>2, <2>3
<1>2. CASE ConfirmUpload(c)
  <2>1. UNCHANGED dcStores /\ CacheWithin(c) /\ DocAt(c, "confirming")
    <3>1. dcCall[c].file # 0
      BY <1>2, FitsNow DEF ConfirmUpload, DocAt
    <3>. QED
      BY <1>2, <3>1, FitsNow DEF ConfirmUpload, CacheWithin
  <2>2. /\ dcCall' = [dcCall EXCEPT ![c] = NoCall]
        /\ dcRefused' = dcRefused \/ Refuse(c)
        /\ dcConfirmed' = dcConfirmed \/ dcConfirmed' = dcConfirmed \cup {dcCall[c].file}
    BY <1>2 DEF ConfirmUpload, Refuse
  <2>. QED
    BY <2>1, <2>2, QuietEnd
<1>3. CASE DocumentBreakerTimesOut(c)
  <2>. DEFINE call == [dcCall[c] EXCEPT !.heard = FALSE]
  <2>1. /\ dcCall' = [dcCall EXCEPT ![c] = call]
        /\ UNCHANGED <<dcStores, dcCache, dcList, dcConfirmed>>
        /\ dcRefused' = IF dcCall[c].op = "upload" THEN dcRefused \cup {dcCall[c].file} ELSE dcRefused
    BY <1>3 DEF DocumentBreakerTimesOut
  <2>2. /\ call \in [at : DocumentSteps, op : DocumentReaders \cup {"none", "upload", "list"},
                     file : 0..dcFiles, heard : BOOLEAN]
        /\ call.at = dcCall[c].at /\ call.op = dcCall[c].op /\ call.file = dcCall[c].file
    BY FitsNow
  <2>. HIDE DEF call
  <2>3. Fits(call, dcFiles, dcRows, Kept)
    BY <2>2, FitsNow DEF Fits
  <2>4. dcRefused' \in {dcRefused, dcRefused \cup ({dcCall[c].file} \ {0})}
    BY <2>1, FitsNow
  <2>5. dcCall[c].file \in {0, call.file} \cup dcRows \cup dcRefused'
    BY <2>2
  <2>6. PICK same : same = call
    OBVIOUS
  <2>7. dcCache' \subseteq dcCache \cup {dcCall[c].file} /\ dcCache' \subseteq dcCache /\ dcList' \in BOOLEAN
    BY <2>1, FitsNow
  <2>. QED
    BY <2>1, <2>3, <2>4, <2>5, <2>6, <2>7, QuietDocumentStep
<1>. QED
  BY <1>1, <1>2, <1>3

LEMMA ReceiveStep ==
  ASSUME DocumentStoreInv, NEW c \in DocumentCalls, ReceiveUpload(c)
  PROVE  DocumentStoreInv'
<1>1. /\ DocAt(c, "idle") /\ dcFiles < MaxFiles /\ dcFiles' = dcFiles + 1
      /\ UNCHANGED <<dcRows, dcObject, dcReplaced, dcErased, dcCache, dcList, dcConfirmed, dcRefused>>
  BY DEF ReceiveUpload, dcAnswers
<1>2. PICK call : /\ call = [at |-> "receiving", op |-> "upload", file |-> dcFiles + 1, heard |-> TRUE]
                  /\ dcCall' = [dcCall EXCEPT ![c] = call]
  BY DEF ReceiveUpload
<1>3. dcFiles' \in Nat /\ dcFiles <= dcFiles' /\ dcFiles' \in 0..MaxFiles /\ dcFiles' # 0
      /\ 1..dcFiles \subseteq 1..dcFiles' /\ 0..dcFiles \subseteq 0..dcFiles' /\ dcFiles' \in 0..dcFiles'
  BY <1>1, FitsNow, DocumentStoreAssumption
<1>4. Fits(call, dcFiles', dcRows', Kept')
  BY <1>1, <1>2, <1>3 DEF Fits, DocumentSteps, UploadSteps, AtRepository, DocumentReaders, ReaderSteps
<1>5. Kept' = Kept
  BY <1>1 DEF Kept
<1>6. DocumentStores'
  <2>1. dcRows \subseteq 1..dcFiles /\ dcCache \subseteq 1..dcFiles /\ dcObject \in 0..dcFiles
    BY DEF DocumentStoreInv, DocumentStores
  <2>2. dcRows' \subseteq 1..dcFiles' /\ dcCache' \subseteq 1..dcFiles' /\ dcObject' \in 0..dcFiles'
    BY <1>1, <1>3, <2>1
  <2>. QED
    BY <1>1, <1>3, <1>5, <2>2 DEF DocumentStoreInv, DocumentStores, Files
<1>7. dcCall[c].file = 0
  BY <1>1, FitsNow DEF DocAt
<1>. QED
  BY <1>1, <1>2, <1>3, <1>4, <1>5, <1>6, <1>7, DocumentStep

LEMMA MovedTo ==
  ASSUME DocumentStoreInv, NEW c \in DocumentCalls, NEW from, NEW to, DocStep(c, from, to)
  PROVE  dcCall'[c].at = to
<1>1. PICK call : /\ dcCall' = [dcCall EXCEPT ![c] = call]
                  /\ call = [dcCall[c] EXCEPT !.at = to]
  BY DocumentMoves
<1>2. call.at = to
  BY <1>1, FitsNow
<1>3. dcCall'[c] = call
  BY <1>1 DEF DocumentStoreInv
<1>. QED
  BY <1>2, <1>3

LEMMA FileNumbers ==
  ASSUME DocumentStoreInv
  PROVE  0 \in 0..dcFiles /\ \A f \in 0..dcFiles : f # 0 => f \in 1..dcFiles /\ f \in Files
BY FilesNow

\* What a step does that moves request c on and changes the stores.
LEMMA StoreMove ==
  ASSUME DocumentStoreInv, NEW c \in DocumentCalls, NEW from \in DocumentSteps, NEW to \in DocumentSteps,
         DocStep(c, from, to), to # "idle",
         from \in UploadSteps <=> to \in UploadSteps,
         from \in ReaderSteps <=> to \in ReaderSteps,
         UNCHANGED <<dcFiles, dcCache, dcList, dcConfirmed, dcRefused>>,
         dcObject' \in {dcObject, 0, dcCall[c].file}, dcObject' \in 0..dcFiles,
         dcRows \subseteq dcRows', dcRows' \subseteq 1..dcFiles, dcRows' \subseteq Kept',
         Kept \subseteq Kept', dcReplaced' \cup dcErased' \subseteq Files,
         to = "confirming" => dcCall[c].file \in dcRows',
         to = "saving" => dcCall[c].file \in Kept'
  PROVE  DocumentStoreInv'
<1>1. PICK call : /\ dcCall' = [dcCall EXCEPT ![c] = call]
                  /\ call = [dcCall[c] EXCEPT !.at = to]
                  /\ dcCall[c].at = from
  BY DocumentMoves
<1>2. Fits(call, dcFiles, dcRows', Kept') /\ call.file = dcCall[c].file
  BY <1>1, FitsNow, MovedFits
<1>3. Fits(call, dcFiles', dcRows', Kept')
  BY <1>2, Zenon
<1>4. DocumentStores'
  BY DEF DocumentStoreInv, DocumentStores, Files
<1>5. dcFiles' \in Nat /\ dcFiles <= dcFiles' /\ dcRefused \subseteq dcRefused'
  BY FitsNow
<1>6. dcCall[c].file \in {0, call.file} \cup dcRows' \cup dcRefused' /\ dcObject' \in {dcObject, 0, call.file}
  BY <1>2
<1>. QED
  BY <1>1, <1>3, <1>4, <1>5, <1>6, DocumentStep

LEMMA StoreSteps ==
  ASSUME DocumentStoreInv, NEW c \in DocumentCalls, PutObject(c) \/ SaveRow(c) \/ SoftDelete(c)
  PROVE  DocumentStoreInv'
<1>. USE DEF DocumentSteps, UploadSteps, AtRepository, ReaderSteps
<1>0. /\ dcCall[c].file \in 0..dcFiles /\ dcObject \in 0..dcFiles
      /\ dcRows \subseteq 1..dcFiles /\ dcRows \subseteq Kept /\ dcReplaced \cup dcErased \subseteq Files
      /\ dcObject # 0 => dcObject \in Files
  <2>1. dcCall[c].file \in 0..dcFiles
    BY FitsNow
  <2>2. dcObject \in 0..dcFiles /\ dcRows \subseteq 1..dcFiles /\ dcRows \subseteq Kept
        /\ dcReplaced \cup dcErased \subseteq Files
    BY DEF DocumentStoreInv, DocumentStores
  <2>. QED
    BY <2>1, <2>2, FileNumbers
<1>1. CASE Refuse(c) /\ (PutObject(c) \/ SaveRow(c))
  <2>1. UNCHANGED <<dcStores, dcCache, dcList, dcConfirmed>>
    <3>1. dcCall' = [dcCall EXCEPT ![c] = NoCall] /\ NoCall.at = "idle"
      BY <1>1 DEF Refuse, NoCall
    <3>2. dcCall'[c].at = "idle"
      BY <3>1 DEF DocumentStoreInv
    <3>3. ~DocStep(c, "storing", "saving") /\ ~DocStep(c, "saving", "confirming")
      BY <3>2, MovedTo
    <3>. QED
      BY <1>1, <3>3 DEF PutObject, SaveRow, dcStores
  <2>2. CacheWithin(c)
    BY <2>1, FitsNow DEF CacheWithin
  <2>. QED
    BY <1>1, <2>1, <2>2, QuietEnd DEF Refuse
<1>2. CASE PutObject(c) /\ ~Refuse(c)
  <2>1. /\ DocStep(c, "storing", "saving") /\ dcObject' = dcCall[c].file
        /\ dcReplaced' = dcReplaced \cup ({dcObject} \ {0}) /\ dcRefused' = dcRefused
        /\ UNCHANGED <<dcFiles, dcRows, dcErased, dcCache, dcList, dcConfirmed>>
    BY <1>2 DEF PutObject
  <2>2. dcCall[c].file # 0
    BY <2>1, FitsNow DEF DocStep, DocAt
  <2>3. Kept \subseteq Kept' /\ dcCall[c].file \in Kept'
    BY <2>1, <2>2 DEF Kept
  <2>4. dcReplaced' \cup dcErased' \subseteq Files
    BY <1>0, <2>1
  <2>5. dcRows' \subseteq 1..dcFiles /\ dcRows' \subseteq Kept' /\ dcRows \subseteq dcRows'
    BY <1>0, <2>1, <2>3
  <2>. QED
    BY <1>0, <2>1, <2>3, <2>4, <2>5, StoreMove
<1>3. CASE SaveRow(c) /\ ~Refuse(c)
  <2>1. /\ DocStep(c, "saving", "confirming") /\ dcRows' = dcRows \cup {dcCall[c].file}
        /\ UNCHANGED <<dcFiles, dcObject, dcReplaced, dcErased, dcCache, dcList, dcConfirmed, dcRefused>>
    BY <1>3 DEF SaveRow
  <2>2. dcCall[c].file \in Kept /\ dcCall[c].file # 0
    BY <2>1, FitsNow DEF DocStep, DocAt
  <2>3. Kept' = Kept
    BY <2>1 DEF Kept
  <2>4. dcCall[c].file \in 1..dcFiles
    BY <1>0, <2>2, FileNumbers
  <2>5. dcRows' \subseteq 1..dcFiles /\ dcRows' \subseteq Kept' /\ dcRows \subseteq dcRows'
    BY <1>0, <2>1, <2>2, <2>3, <2>4
  <2>. QED
    BY <1>0, <2>1, <2>3, <2>5, StoreMove
<1>4. CASE SoftDelete(c)
  <2>1. UNCHANGED <<dcFiles, dcRows, dcReplaced, dcCache, dcList, dcConfirmed, dcRefused>>
        /\ DocAt(c, "erasing")
    BY <1>4 DEF SoftDelete, dcAnswers
  <2>2. dcCall[c].op # "upload"
    BY <2>1, FitsNow DEF DocAt
  <2>3. CASE GivenUp(c) /\ UNCHANGED <<dcObject, dcErased>>
    <3>1. UNCHANGED dcStores /\ CacheWithin(c)
      BY <2>1, <2>3, FitsNow DEF dcStores, CacheWithin
    <3>. QED
      BY <2>1, <2>2, <2>3, <3>1, QuietEnd DEF GivenUp
  <2>4. CASE DocStep(c, "erasing", "dropping") /\ UNCHANGED <<dcObject, dcErased>>
    <3>1. Kept' = Kept
      BY <2>1, <2>4 DEF Kept
    <3>. QED
      BY <1>0, <2>1, <2>4, <3>1, StoreMove
  <2>5. CASE /\ DocStep(c, "erasing", "dropping")
             /\ dcObject' = 0 /\ dcErased' = dcErased \cup ({dcObject} \ {0})
    <3>1. Kept \subseteq Kept'
      BY <2>1, <2>5 DEF Kept
    <3>2. dcReplaced' \cup dcErased' \subseteq Files
      BY <1>0, <2>1, <2>5
    <3>3. 0 \in 0..dcFiles
      BY FileNumbers
    <3>. QED
      BY <1>0, <2>1, <2>5, <3>1, <3>2, <3>3, StoreMove
  <2>. QED
    BY <1>4, <2>3, <2>4, <2>5 DEF SoftDelete
<1>. QED
  BY <1>1, <1>2, <1>3, <1>4

LEMMA DocumentStoreNextInv == DocumentStoreInv /\ [DocumentStoreNext]_dcVars => DocumentStoreInv'
<1>. SUFFICES ASSUME DocumentStoreInv, [DocumentStoreNext]_dcVars PROVE DocumentStoreInv'
  OBVIOUS
<1>1. CASE UNCHANGED dcVars
  BY <1>1 DEF dcVars, DocumentStoreInv, DocumentStores, Kept
<1>2. CASE DocumentCacheExpires
  <2>1. UNCHANGED <<dcFiles, dcRows, dcObject, dcReplaced, dcErased, dcCall, dcConfirmed, dcRefused>>
        /\ dcCache' \subseteq dcCache
    BY <1>2 DEF DocumentCacheExpires, dcStores, dcAnswers
  <2>2. dcList' \in BOOLEAN
    <3>1. dcList' = dcList \/ dcList' = FALSE
      BY <1>2 DEF DocumentCacheExpires
    <3>. QED
      BY <3>1, Zenon DEF DocumentStoreInv, DocumentStores
  <2>3. Kept' = Kept
    BY <2>1 DEF Kept
  <2>4. DocumentStores'
    BY <2>1, <2>2, <2>3 DEF DocumentStoreInv, DocumentStores
  <2>. QED
    BY <2>1, <2>3, <2>4 DEF DocumentStoreInv
<1>3. ASSUME NEW c \in DocumentCalls,
             \/ DocumentBreakerTimesOut(c) \/ ReceiveUpload(c) \/ TakeFile(c)
             \/ EncryptUpload(c) \/ PutObject(c) \/ SaveRow(c) \/ ConfirmUpload(c) \/ EndUnheard(c)
             \/ RequestDocument(c) \/ LookUpDocument(c) \/ FindDocument(c) \/ FetchContent(c)
             \/ FillDocument(c) \/ AnswerDocument(c)
             \/ RequestDeletion(c) \/ SoftDelete(c) \/ DropDocument(c) \/ DropDocumentAgain(c)
             \/ RequestList(c) \/ ListDocuments(c)
      PROVE  DocumentStoreInv'
  BY <1>3, UploadSteps1, ReceiveStep, StoreSteps, BeginSteps, DocumentReadSteps
<1>. QED
  BY <1>1, <1>2, <1>3 DEF DocumentStoreNext

\* The stores, the caches and the requests about documents are of their types.
THEOREM DocumentStoreTyped == DocumentStoreSpec => []DocumentStoreTypeOK
<1>1. DocumentStoreInv => DocumentStoreTypeOK
  BY FitsNow DEF DocumentStoreInv, DocumentStores, DocumentStoreTypeOK, DocumentSteps
<1>. QED
  BY <1>1, DocumentStoreInitInv, DocumentStoreNextInv, PTL DEF DocumentStoreSpec

\* A confirmed upload has its row; a row without its content has lost it to a later
\* upload under the shared key or to a permanent deletion, never to a failure between
\* the stores; and content that no row names is that of an upload refused or under
\* way (DocumentRepository.ts:96-113).
THEOREM StoresAlwaysAgree == DocumentStoreSpec => []StoresAgree
<1>1. DocumentStoreInv => StoresAgree
  BY DEF DocumentStoreInv, DocumentStores, StoresAgree, Kept
<1>. QED
  BY <1>1, DocumentStoreInitInv, DocumentStoreNextInv, PTL DEF DocumentStoreSpec
=============================================================================
