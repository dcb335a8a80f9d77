-------------------------- MODULE ClusterLifecycle --------------------------
(***************************************************************************)
(* The processes of the backend (server.ts): the primary forks WORKER_COUNT *)
(* workers, forks a new one for each that dies, and on SIGUSR2 asks every   *)
(* worker it has to shut down.  A worker asked to shut down stops           *)
(* accepting, waits for its connections to end, for 30 s at most, and       *)
(* exits.                                                                   *)
(*                                                                          *)
(* Processes are numbered in the order of their forks, from 1.  A process   *)
(* that has exited stays known to the primary until its exit event is       *)
(* handled.  Of Node itself the model has that a message sent to a worker   *)
(* waits until the worker listens for messages, that a worker which loses   *)
(* its primary exits, and that a process without a handler for SIGTERM dies *)
(* of it.                                                                   *)
(***************************************************************************)
EXTENDS Integers, FiniteSets

CONSTANTS
  WorkerCount,   \* WORKER_COUNT
  Conns,         \* client connections
  MaxRestarts,   \* bound: SIGUSR2 signals sent to the primary
  MaxFaults      \* bound: crashes, failed or hanging starts, signals to workers

ASSUME CountsAssumption ==
  /\ WorkerCount \in Nat \ {0}
  /\ MaxRestarts \in Nat
  /\ MaxFaults \in Nat

VARIABLES
  primary,     \* the primary process: "up" or "down"
  born,        \* how many workers have been forked
  booting,     \* workers on their way to listen()
  hung,        \* workers whose listen() failed with an 'error' event
  serving,     \* workers accepting connections, with their handlers set up
  draining,    \* workers in shutdown()
  exited,      \* dead workers whose exit event the primary has not handled
  mail,        \* workers with a 'shutdown' message they have not read
  open,        \* the worker that serves each connection, or NoWorker
  signals,     \* how many SIGUSR2 the primary has handled
  asked,       \* workers of each restart: cluster.workers when it began
  counted,     \* restartCount of each restart
  announced,   \* restarts that logged 'All workers restarted successfully'
  faults       \* how many faults have happened

workers == <<booting, hung, serving, draining, exited>>
restarts == <<signals, asked, counted, announced>>
vars == <<primary, born, workers, mail, open, restarts, faults>>

NoWorker == 0

\* Processes that run, and those in cluster.workers.
Up == booting \cup hung \cup serving \cup draining
Known == Up \cup exited

Restarts == 1..MaxRestarts

Init ==
  /\ primary = "up"
  /\ born = WorkerCount
  /\ booting = 1..WorkerCount
  /\ hung = {}
  /\ serving = {}
  /\ draining = {}
  /\ exited = {}
  /\ mail = {}
  /\ open = [c \in Conns |-> NoWorker]
  /\ signals = 0
  /\ asked = [i \in Restarts |-> {}]
  /\ counted = [i \in Restarts |-> 0]
  /\ announced = {}
  /\ faults = 0

-----------------------------------------------------------------------------
(* A worker.                                                               *)

Fault ==
  /\ faults < MaxFaults
  /\ faults' = faults + 1

\* Process p ends: its connections and its unread messages are gone.
Exit(p) ==
  /\ booting' = booting \ {p}
  /\ hung' = hung \ {p}
  /\ serving' = serving \ {p}
  /\ draining' = draining \ {p}
  /\ exited' = exited \cup {p}
  /\ mail' = mail \ {p}
  /\ open' = [c \in Conns |-> IF open[c] = p THEN NoWorker ELSE open[c]]
  /\ UNCHANGED <<primary, born, restarts>>

\* startServer: both servers listen, then the shutdown handlers are set up.
Listen(p) ==
  /\ p \in booting
  /\ booting' = booting \ {p}
  /\ serving' = serving \cup {p}
  /\ UNCHANGED <<primary, born, hung, draining, exited, mail, open, restarts, faults>>

\* startServer's catch: certificates that cannot be read.
StartFails(p) ==
  /\ p \in booting
  /\ Fault
  /\ Exit(p)

\* A listen() that fails emits 'error', which setupMonitoring logs: the promise
\* startServer awaits never settles, and no shutdown handler is ever set up.
StartHangs(p) ==
  /\ p \in booting
  /\ Fault
  /\ booting' = booting \ {p}
  /\ hung' = hung \cup {p}
  /\ UNCHANGED <<primary, born, serving, draining, exited, mail, open, restarts>>

Accept(p) == \E c \in Conns :
  /\ p \in serving
  /\ open[c] = NoWorker
  /\ open' = [open EXCEPT ![c] = p]
  /\ UNCHANGED <<primary, born, workers, mail, restarts, faults>>

\* The client, or the server after its answer, ends a connection.
Close(c) ==
  /\ open[c] # NoWorker
  /\ open' = [open EXCEPT ![c] = NoWorker]
  /\ UNCHANGED <<primary, born, workers, mail, restarts, faults>>

\* Mutant: a message read before the handlers are set up is lost.
ReadMailEarly(p) ==
  /\ p \in mail
  /\ p \notin hung
  /\ mail' = mail \ {p}
  /\ serving' = serving \ {p}
  /\ draining' = draining \cup ({p} \cap serving)
  /\ UNCHANGED <<primary, born, booting, hung, exited, open, restarts, faults>>

\* The 'message' handler; a second shutdown() of the same worker only arms a
\* later timer.
ReadMail(p) ==
  /\ p \in mail
  /\ p \in serving \cup draining
  /\ mail' = mail \ {p}
  /\ serving' = serving \ {p}
  /\ draining' = draining \cup {p}
  /\ UNCHANGED <<primary, born, booting, hung, exited, open, restarts, faults>>

\* SIGTERM or SIGINT sent to one worker.
Signal(p) ==
  /\ p \in serving
  /\ Fault
  /\ serving' = serving \ {p}
  /\ draining' = draining \cup {p}
  /\ UNCHANGED <<primary, born, booting, hung, exited, mail, open, restarts>>

\* Both servers are closed and have no connection left: process.exit(0).
Drained(p) ==
  /\ p \in draining
  /\ \A c \in Conns : open[c] # p
  /\ UNCHANGED faults
  /\ Exit(p)

\* Mutant: no drain timer.
NoDrainTimeout(p) == FALSE /\ UNCHANGED vars

\* 'Forced shutdown after timeout': process.exit(1).
DrainTimeout(p) ==
  /\ p \in draining
  /\ UNCHANGED faults
  /\ Exit(p)

\* An uncaught exception, a kill, or SIGTERM before the handlers are set up.
Crash(p) ==
  /\ p \in Up
  /\ Fault
  /\ Exit(p)

\* The channel to the primary closes under a worker.
Orphaned(p) ==
  /\ primary = "down"
  /\ p \in Up
  /\ UNCHANGED faults
  /\ Exit(p)

-----------------------------------------------------------------------------
(* The primary.                                                            *)

\* Mutant: the restart listens to the exits of all workers.
HearAnyExit(p) ==
  /\ counted' = [i \in Restarts |-> IF asked[i] # {} THEN counted[i] + 1 ELSE counted[i]]
  /\ announced' = announced \cup
       {i \in Restarts : asked[i] # {} /\ counted[i] + 1 = Cardinality(asked[i])}
  /\ UNCHANGED <<signals, asked>>

\* The exit listeners that the restarts have put on worker p.
HearExit(p) ==
  /\ counted' = [i \in Restarts |-> IF p \in asked[i] THEN counted[i] + 1 ELSE counted[i]]
  /\ announced' = announced \cup
       {i \in Restarts : p \in asked[i] /\ counted[i] + 1 = Cardinality(asked[i])}
  /\ UNCHANGED <<signals, asked>>

\* Mutant: a worker that was asked to shut down is not replaced.
ReplaceOnlyCrashed(p) ==
  /\ primary = "up"
  /\ p \in exited
  /\ exited' = exited \ {p}
  /\ HearExit(p)
  /\ IF \E i \in Restarts : p \in asked[i]
       THEN UNCHANGED <<born, booting>>
       ELSE /\ born' = born + 1
            /\ booting' = booting \cup {born + 1}
  /\ UNCHANGED <<primary, hung, serving, draining, mail, open, faults>>

\* The exit event of p: the restarts' listeners, then cluster.on('exit').
Replace(p) ==
  /\ primary = "up"
  /\ p \in exited
  /\ exited' = exited \ {p}
  /\ HearExit(p)
  /\ born' = born + 1
  /\ booting' = booting \cup {born + 1}
  /\ UNCHANGED <<primary, hung, serving, draining, mail, open, faults>>

\* SIGUSR2.
Restart ==
  /\ primary = "up"
  /\ signals < MaxRestarts
  /\ signals' = signals + 1
  /\ asked' = [asked EXCEPT ![signals + 1] = Known]
  /\ mail' = mail \cup Up
  /\ UNCHANGED <<primary, born, workers, open, counted, announced, faults>>

\* The primary, the process the container's SIGTERM reaches, has no handler
\* for it.
PrimaryStops ==
  /\ primary = "up"
  /\ primary' = "down"
  /\ UNCHANGED <<born, workers, mail, open, restarts, faults>>

-----------------------------------------------------------------------------

Worker(p) ==
  \/ Listen(p) \/ StartFails(p) \/ StartHangs(p)
  \/ Accept(p)
  \/ ReadMail(p) \/ Signal(p)
  \/ Drained(p) \/ DrainTimeout(p)
  \/ Crash(p) \/ Orphaned(p)

Next ==
  \/ \E p \in Up : Worker(p)
  \/ \E p \in exited : Replace(p)
  \/ \E c \in Conns : Close(c)
  \/ Restart
  \/ PrimaryStops

Spec == Init /\ [][Next]_vars

\* Nothing is assumed of clients: a connection may stay open for ever.
Fairness ==
  /\ WF_vars(\E p \in booting : Listen(p))
  /\ WF_vars(\E p \in mail : ReadMail(p))
  /\ WF_vars(\E p \in draining : DrainTimeout(p))
  /\ WF_vars(\E p \in exited : Replace(p))
  /\ WF_vars(\E p \in Up : Orphaned(p))

FairSpec == Spec /\ Fairness

-----------------------------------------------------------------------------
(* Properties.                                                             *)

\* Processes are in one state each, only running ones have mail and
\* connections, and no restart counts more exits than it has workers
\* (server.ts:72-79).
TypeOK ==
  /\ primary \in {"up", "down"}
  /\ born \in Nat
  /\ Known \subseteq 1..born
  /\ mail \subseteq Up
  /\ open \in [Conns -> {NoWorker} \cup serving \cup draining]
  /\ signals \in 0..MaxRestarts
  /\ asked \in [Restarts -> SUBSET (1..born)]
  /\ \A i \in Restarts : counted[i] \in 0..Cardinality(asked[i])
  /\ announced \subseteq 1..signals
  /\ faults \in 0..MaxFaults

\* However deaths, replacements and restarts overlap, the primary has as many
\* workers, running or about to be replaced, as it was configured to have
\* (server.ts:56-65).
Population == Cardinality(Known) = WorkerCount

\* 'All workers restarted successfully' is logged (server.ts:77) only when no
\* worker from before that restart is left, also when restarts overlap or a
\* worker of a later generation dies meanwhile.
AnnouncedTruth == \A i \in announced : asked[i] \cap Known = {}

\* A restart ends: every worker it asked, the ones still starting included,
\* exits and is counted.  Not so when the primary dies or when one of its
\* workers hangs in listen() (server.ts:68-82).
RestartCompletes == \A i \in Restarts :
  asked[i] # {} ~> \/ i \in announced
                   \/ asked[i] \cap hung # {}
                   \/ primary = "down"

\* Once faults and restarts have ended, the service returns to its full number
\* of accepting workers but for those that hang (server.ts:61-65); without its
\* primary it ends.
Recovers ==
  <>[](IF primary = "up" THEN Cardinality(serving \cup hung) = WorkerCount ELSE Up = {})

\* What server.ts:67 says of SIGUSR2, "Zero-downtime restart handler": without
\* a fault the last accepting worker does not stop accepting.
ZeroDowntime ==
  [][serving # {} /\ serving' = {} => faults' # faults \/ primary' = "down"]_vars

\* What server.ts:121 and 131 say of stopping, "graceful shutdown handlers"
\* that "Implement connection draining": a worker that has connections does
\* not end, unless by a fault, without having drained them.
GracefulStop ==
  [][\A c \in Conns : open[c] \notin {NoWorker} \cup Up'
       => faults' # faults \/ open[c] \in draining]_vars
=============================================================================
