--------------------------- MODULE EventProducers ---------------------------
(***************************************************************************)
(* The producers of policy, claims and underwriting events over the Kafka   *)
(* client of config/kafka.ts: how each gets its connection, and what a call *)
(* of one of its publish functions comes to.                                *)
(*                                                                          *)
(* The policy producer connects without being waited for.  The claims       *)
(* producer is made without a client, and the underwriting producer keeps    *)
(* the promise of a connection for the connection: neither can send.         *)
(***************************************************************************)
EXTENDS Integers

CONSTANT MaxPublished   \* bound: calls of each producer

ASSUME EventProducersAssumption == MaxPublished \in Nat

VARIABLES
  epConn,      \* each producer's connection
  epCall,      \* the publish call under way: its attempt; 0: none
  epCalls,     \* publish calls made
  epResolved,  \* publish calls that ended without an error
  epAcked,     \* events the brokers acknowledged to their call
  epStored     \* events in the topics, acknowledged or not

epVars == <<epConn, epCall, epCalls, epResolved, epAcked, epStored>>

Producers == {"policy", "claims", "underwriting"}
\* The claims producer tries three times.
Attempts == [policy |-> 1, claims |-> 3, underwriting |-> 1]
None == [p \in Producers |-> 0]

EventProducersInit ==
  /\ epConn = [p \in Producers |-> "new"] /\ epCall = None /\ epCalls = None
  /\ epResolved = None /\ epAcked = None /\ epStored = None

\* PolicyEventProducer.initialize
ConnectPolicy ==
  /\ epConn["policy"] = "new"
  /\ \E c \in {"connected", "failed"} : epConn' = [epConn EXCEPT !["policy"] = c]
  /\ UNCHANGED <<epCall, epCalls, epResolved, epAcked, epStored>>

\* ClaimsEventProducer.initialize calls createProducer without a client, which
\* throws: isInitialized stays false.
InitializeClaims ==
  /\ epConn["claims"] = "new" /\ epConn' = [epConn EXCEPT !["claims"] = "failed"]
  /\ UNCHANGED <<epCall, epCalls, epResolved, epAcked, epStored>>

\* The constructor of UnderwritingEventProducer does not wait for createProducer.
BuildUnderwriting ==
  /\ epConn["underwriting"] = "new" /\ epConn' = [epConn EXCEPT !["underwriting"] = "promised"]
  /\ UNCHANGED <<epCall, epCalls, epResolved, epAcked, epStored>>

\* createProducer's client reports a lost connection and connects again.
Reconnect(p) ==
  /\ \/ epConn[p] = "connected" /\ epConn' = [epConn EXCEPT ![p] = "disconnected"]
     \/ epConn[p] = "disconnected" /\ epConn' = [epConn EXCEPT ![p] = "connected"]
  /\ UNCHANGED <<epCall, epCalls, epResolved, epAcked, epStored>>

BeginPublish(p) ==
  /\ epCall[p] = 0 /\ epCalls[p] < MaxPublished
  /\ epCalls' = [epCalls EXCEPT ![p] = @ + 1] /\ epCall' = [epCall EXCEPT ![p] = 1]
  /\ UNCHANGED <<epConn, epResolved, epAcked, epStored>>

\* send: all replicas have the event.
SendAcknowledged(p) ==
  /\ epCall[p] > 0 /\ epConn[p] = "connected"
  /\ epStored' = [epStored EXCEPT ![p] = @ + 1] /\ epAcked' = [epAcked EXCEPT ![p] = @ + 1]
  /\ epResolved' = [epResolved EXCEPT ![p] = @ + 1] /\ epCall' = [epCall EXCEPT ![p] = 0]
  /\ UNCHANGED <<epConn, epCalls>>

\* send times out: the event may be there all the same.
SendFails(p) ==
  /\ epCall[p] > 0 /\ epConn[p] \in {"connected", "disconnected"}
  /\ epCall' = [epCall EXCEPT ![p] = IF @ < Attempts[p] THEN @ + 1 ELSE 0]
  /\ \/ UNCHANGED epStored
     \/ epConn[p] = "connected" /\ epStored' = [epStored EXCEPT ![p] = @ + 1]
  /\ UNCHANGED <<epConn, epCalls, epResolved, epAcked>>

\* Mutant: the loop of attempts ends without throwing its last error.
ForgetsError(p) ==
  /\ epCall[p] > 0 /\ epCall' = [epCall EXCEPT ![p] = IF @ < Attempts[p] THEN @ + 1 ELSE 0]
  /\ epResolved' = [epResolved EXCEPT ![p] = IF epCall[p] < Attempts[p] THEN @ ELSE @ + 1]
  /\ UNCHANGED <<epConn, epCalls, epAcked, epStored>>

\* A call on what is no connection throws, and is retried where it is retried; the
\* last attempt's error leaves the publish function.
SendThrows(p) ==
  /\ epCall[p] > 0 /\ epConn[p] \notin {"connected", "disconnected"}
  /\ epCall' = [epCall EXCEPT ![p] = IF @ < Attempts[p] THEN @ + 1 ELSE 0]
  /\ UNCHANGED <<epConn, epCalls, epResolved, epAcked, epStored>>

\* shutdown of the policy producer; the claims producer's returns at once, and the
\* underwriting producer's disconnect throws.
Shutdown ==
  /\ epConn["policy"] \in {"connected", "disconnected"}
  /\ epConn' = [epConn EXCEPT !["policy"] = "closed"]
  /\ UNCHANGED <<epCall, epCalls, epResolved, epAcked, epStored>>

EventProducersNext ==
  \/ ConnectPolicy \/ InitializeClaims \/ BuildUnderwriting \/ Shutdown
  \/ \E p \in Producers :
       Reconnect(p) \/ BeginPublish(p) \/ SendAcknowledged(p) \/ SendFails(p) \/ SendThrows(p)

EventProducersSpec == EventProducersInit /\ [][EventProducersNext]_epVars

-----------------------------------------------------------------------------
\* The producers and their calls are of their types.
EventProducersTypeOK ==
  /\ epConn \in [Producers -> {"new", "connected", "disconnected", "failed", "promised", "closed"}]
  /\ \A p \in Producers : epCall[p] \in 0..Attempts[p]
  /\ epCalls \in [Producers -> 0..MaxPublished] /\ epResolved \in [Producers -> Nat]
  /\ epAcked \in [Producers -> Nat] /\ epStored \in [Producers -> Nat]

\* A publish call that ends without an error has its event in the topic, so that its
\* caller may rely on it; the calls of the claims and underwriting producers all end
\* with an error, and an event they should announce is never stored.
ResolvedIsStored ==
  /\ \A p \in Producers : epResolved[p] = epAcked[p] /\ epAcked[p] <= epStored[p]
  /\ epResolved["claims"] = 0 /\ epStored["underwriting"] = 0
=============================================================================
