----------------------------- MODULE Connections -----------------------------
(***************************************************************************)
(* The connections that one worker process keeps: the database's instance,  *)
(* which config/database.ts makes, checks, replaces and closes, and the     *)
(* client of a RedisManager, with the timer that watches it.                *)
(*                                                                          *)
(* Every function awaits the server between reading the one variable that   *)
(* holds the instance and writing it, and none excludes another.            *)
(***************************************************************************)
EXTENDS Naturals, FiniteSets

CONSTANTS
  PoolCalls,     \* slots for calls
  MaxPools,      \* bound: instances of Sequelize
  MaxClients     \* bound: clients of Redis, and its timers

ASSUME ConnectionsAssumption == MaxPools \in Nat /\ MaxClients \in Nat \ {0}

VARIABLES
  cnInstance,    \* sequelizeInstance; 0 is null
  cnOpen,        \* the instances made and not closed
  cnCall,        \* per call, what it does and the instance it works on
  cnAnswer,      \* the last answer of getSequelize
  cnSpoilt,      \* history: a failure, or a crossing of calls, that leaves an instance
  cnClient,      \* the RedisManager's client: none, answering, or lost
  cnClients,     \* clients made; none is ever closed
  cnTimers       \* timers of the health monitor; none is ever cleared

cnPools == <<cnInstance, cnOpen, cnCall, cnAnswer, cnSpoilt>>
cnRedis == <<cnClient, cnClients, cnTimers>>
cnVars == <<cnPools, cnRedis>>

PoolIds == 1..MaxPools
PoolCall == [op : {"none", "get", "health", "close"},
             at : {"idle", "connecting", "checking", "closing", "closed"}, pool : 0..MaxPools]
NoPoolCall == [op |-> "none", at |-> "idle", pool |-> 0]

ConnectionsInit ==
  /\ cnInstance = 0 /\ cnOpen = {} /\ cnAnswer = "none" /\ cnSpoilt = FALSE
  /\ cnCall = [c \in PoolCalls |-> NoPoolCall]
  /\ cnClient = "none" /\ cnClients = 0 /\ cnTimers = 0

Waits(c, at) == cnCall[c].at = at
Starts(c, op, at, pool) == cnCall' = [cnCall EXCEPT ![c] = [op |-> op, at |-> at, pool |-> pool]]
Stops(c) == cnCall' = [cnCall EXCEPT ![c] = NoPoolCall]
Alone(c) == \A d \in PoolCalls \ {c} : Waits(d, "idle")
Spoils(why) == cnSpoilt' = (cnSpoilt \/ why)

-----------------------------------------------------------------------------
(* The database                                                            *)

\* initializeDatabase: a new instance is made and authenticated, and a pool of
\* its own is tried on each replica.
InitializeDatabase(c, op) ==
  \E p \in PoolIds \ cnOpen :
    /\ \A q \in PoolIds \ cnOpen : p <= q
    /\ cnOpen' = cnOpen \cup {p} /\ Starts(c, op, "connecting", p)

\* getSequelize; checkDatabaseHealth begins with it.
GetSequelize(c, op) ==
  /\ Waits(c, "idle")
  /\ IF cnInstance = 0
     THEN InitializeDatabase(c, op) /\ Spoils(~Alone(c))
     ELSE /\ Starts(c, op, "checking", cnInstance) /\ UNCHANGED cnOpen
          /\ Spoils(\E d \in PoolCalls : cnCall[d].op = "close")
  /\ UNCHANGED <<cnInstance, cnAnswer, cnRedis>>

CallReturns(c, pool) ==
  cnAnswer' = IF cnCall[c].op = "health" THEN cnAnswer ELSE IF pool \in cnOpen THEN "open" ELSE "gone"

Connected(c) ==
  /\ Waits(c, "connecting") /\ cnInstance' = cnCall[c].pool
  /\ Stops(c) /\ CallReturns(c, cnCall[c].pool)
  /\ UNCHANGED <<cnOpen, cnSpoilt, cnRedis>>

\* The primary or a replica does not answer: what was made is not closed.
ConnectFails(c) ==
  /\ Waits(c, "connecting") /\ Stops(c) /\ Spoils(TRUE)
  /\ UNCHANGED <<cnInstance, cnOpen, cnAnswer, cnRedis>>

\* authenticate answered: the variable is read again.
Checked(c) ==
  /\ Waits(c, "checking") /\ Stops(c) /\ CallReturns(c, cnInstance)
  /\ UNCHANGED <<cnInstance, cnOpen, cnSpoilt, cnRedis>>

\* It failed: the connection is lost, and a new instance takes its place.
Reconnects(c) ==
  /\ Waits(c, "checking") /\ InitializeDatabase(c, cnCall[c].op) /\ Spoils(TRUE)
  /\ UNCHANGED <<cnInstance, cnAnswer, cnRedis>>

\* checkDatabaseHealth's own queries, after getSequelize, keep nothing: their
\* failure leaves the pool of a replica.
CheckDatabaseHealth(c) == GetSequelize(c, "health")

\* closeDatabase: it waits for a second and closes what the variable holds then.
CloseDatabase(c) ==
  /\ Waits(c, "idle") /\ cnInstance # 0
  /\ Starts(c, "close", "closing", 0) /\ Spoils(~Alone(c))
  /\ UNCHANGED <<cnInstance, cnOpen, cnAnswer, cnRedis>>

ClosesInstance(c) ==
  /\ Waits(c, "closing") /\ cnInstance # 0
  /\ cnOpen' = cnOpen \ {cnInstance} /\ Starts(c, "close", "closed", cnInstance)
  /\ Spoils(~Alone(c))
  /\ UNCHANGED <<cnInstance, cnAnswer, cnRedis>>

\* Closing failed, or another call has closed the instance before.
CloseFails(c) ==
  /\ Waits(c, "closing") /\ Stops(c)
  /\ UNCHANGED <<cnInstance, cnOpen, cnAnswer, cnSpoilt, cnRedis>>

\* Mutant: the variable keeps the closed instance.
ForgetsNothing(c) ==
  /\ Waits(c, "closed") /\ Stops(c) /\ Spoils(~Alone(c))
  /\ UNCHANGED <<cnInstance, cnOpen, cnAnswer, cnRedis>>

\* The variable is cleared, whatever it holds by now.
ForgetsInstance(c) ==
  /\ Waits(c, "closed") /\ cnInstance' = 0 /\ Stops(c) /\ Spoils(~Alone(c))
  /\ UNCHANGED <<cnOpen, cnAnswer, cnRedis>>

-----------------------------------------------------------------------------
(* Redis                                                                   *)

NewClient == cnClients < MaxClients /\ cnClients' = cnClients + 1

StartHealthMonitoring == cnTimers' = cnTimers + 1

\* initialize: the client is kept although it does not answer; the monitor is
\* started if it does.
InitializeRedis ==
  /\ NewClient
  /\ \/ cnClient' = "answering" /\ StartHealthMonitoring
     \/ cnClient' = "lost" /\ UNCHANGED cnTimers
  /\ UNCHANGED cnPools

\* A new client replaces the old one if it answers.
HandleFailover == NewClient /\ cnClient' \in {cnClient, "answering"}

\* getClient, whose ping failed: it fails over, and throws in either case.
GetClient ==
  /\ cnClient # "none" /\ HandleFailover
  /\ UNCHANGED <<cnPools, cnTimers>>

RedisLost ==
  /\ cnClient = "answering" /\ cnClient' = "lost"
  /\ UNCHANGED <<cnPools, cnClients, cnTimers>>

RedisReconnects ==
  /\ cnClient = "lost" /\ cnClient' = "answering"
  /\ UNCHANGED <<cnPools, cnClients, cnTimers>>

ConnectionsNext ==
  \/ InitializeRedis \/ GetClient \/ RedisLost \/ RedisReconnects
  \/ \E c \in PoolCalls :
       \/ GetSequelize(c, "get") \/ CheckDatabaseHealth(c) \/ Connected(c) \/ ConnectFails(c)
       \/ Checked(c) \/ Reconnects(c) \/ CloseDatabase(c) \/ ClosesInstance(c)
       \/ CloseFails(c) \/ ForgetsInstance(c)

ConnectionsSpec == ConnectionsInit /\ [][ConnectionsNext]_cnVars

-----------------------------------------------------------------------------
\* The instances, the calls and the clients are of their types.
ConnectionsTypeOK ==
  /\ cnInstance \in 0..MaxPools /\ cnOpen \subseteq PoolIds
  /\ cnCall \in [PoolCalls -> PoolCall]
  /\ cnAnswer \in {"none", "open", "gone"} /\ cnSpoilt \in BOOLEAN
  /\ cnClient \in {"none", "answering", "lost"}
  /\ cnClients \in 0..MaxClients /\ cnTimers \in 0..cnClients

\* As long as no connection failed, no instance was made beside another call and
\* no call crossed a close (database.ts:117, :139, :169), at most one instance is
\* open, getSequelize answers an open one, and the variable holds exactly what
\* is open when no call is under way.
OneInstance ==
  ~cnSpoilt =>
    /\ Cardinality(cnOpen) <= 1 /\ cnAnswer # "gone"
    /\ (\A c \in PoolCalls : Waits(c, "idle")) => cnOpen = {cnInstance} \ {0}
=============================================================================
