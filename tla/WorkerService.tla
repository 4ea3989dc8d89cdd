--------------------------- MODULE WorkerService ---------------------------
(***************************************************************************)
(* The worker as a service: start(), which loads the worker's record,      *)
(* connects to the message queue and only then opens the API and the       *)
(* socket to the coordinator; authenticate with its retry; the heartbeats; *)
(* updateWorker; and, from Synchronize, the loop, which needs the record.  *)
(*                                                                         *)
(* When the first authenticate fails it answers undefined and retries on   *)
(* its own.  start() goes on with the undefined it got: `held' is what the *)
(* socket's client keeps, `worker' what the storage manager has.           *)
(*                                                                         *)
(* A heartbeat is one step: findRunning's answer is emitted without a      *)
(* further wait.  What socket.io does not deliver while it is disconnected *)
(* it keeps and delivers, in order, at the next connect; only the last     *)
(* heartbeat kept is modelled.                                             *)
(***************************************************************************)
EXTENDS Synchronize

CONSTANT Capacities  (* capacities an operator may give the worker *)

ASSUME CapacitiesAssumption == Capacities \subseteq Nat /\ 0 \in Capacities

VARIABLES
  boot,       (* where start() is                                            *)
  worker,     (* LocalPersistentStorageManager's _worker                     *)
  held,       (* SocketIoClient's _worker                                    *)
  wedged,     (* the start queue's worker threw and never called back        *)
  capacity,   (* the capacity in the record in memory                        *)
  saved,      (* the capacity in the Workers table                           *)
  socket,     (* the socket is connected                                     *)
  greetings,  (* connect handlers that wait for their first heartbeat        *)
  intervals,  (* heartbeat intervals that were set                           *)
  kept,       (* the last heartbeat emitted while disconnected               *)
  reported    (* the last heartbeat the coordinator got                      *)

record     == <<worker, capacity, saved>>
connection == <<socket, greetings, intervals, kept, reported>>
service    == <<boot, record, held, wedged, connection>>
vars       == <<syncVars, service>>

NoReport == [load |-> 0, capacity |-> -1]
Reports  == [load : 0..Cardinality(Tasks), capacity : Capacities] \cup {NoReport}

TypeOK ==
  /\ SyncTypeOK
  /\ boot \in {"initializing", "connecting", "up", "failed"}
  /\ worker \in {"undefined", "loaded"}
  /\ held \in {"undefined", "loaded"}
  /\ wedged \in BOOLEAN
  /\ capacity \in Capacities /\ saved \in Capacities
  /\ socket \in BOOLEAN
  /\ greetings \in Nat
  /\ intervals \in {0, 1}
  /\ kept \in Reports /\ reported \in Reports

Init ==
  /\ SyncInit
  /\ boot = "initializing"
  /\ worker = "undefined" /\ held = "undefined"
  /\ wedged = FALSE
  /\ capacity = 0 /\ saved = 0
  /\ socket = FALSE /\ greetings = 0 /\ intervals = 0
  /\ kept = NoReport /\ reported = NoReport

-----------------------------------------------------------------------------
(* start() and authenticate *)

(* the first answer of authenticate lets start() go on *)
Initialized(answer) ==
  IF boot = "initializing" THEN boot' = "connecting" /\ held' = answer
  ELSE UNCHANGED <<boot, held>>

(* the record is found, or created, in the Workers table *)
Authenticates ==
  /\ worker = "undefined"
  /\ worker' = "loaded"
  /\ capacity' = saved
  /\ Initialized("loaded")
  /\ UNCHANGED <<syncVars, saved, wedged, connection>>

(* it is tried again five seconds later *)
AuthenticateFails ==
  /\ Fault
  /\ worker = "undefined"
  /\ Initialized("undefined")
  /\ UNCHANGED <<table, marks, loop, record, wedged, connection>>

(* Mutant of QueueConnects: the API is opened before the record is there.   *)
QueueConnectsEarly ==
  /\ boot \in {"initializing", "connecting"}
  /\ boot' = "up"
  /\ held' = "loaded"
  /\ UNCHANGED <<syncVars, record, wedged, connection>>

(* MainQueue.connect returns, whether or not it made a connection: the API  *)
(* listens and the socket is opened                                         *)
QueueConnects ==
  /\ boot = "connecting"
  /\ boot' = "up"
  /\ UNCHANGED <<syncVars, record, held, wedged, connection>>

(* MainQueue.connect throws: start() ends there *)
QueueConnectThrows ==
  /\ Fault
  /\ boot = "connecting"
  /\ boot' = "failed"
  /\ UNCHANGED <<table, marks, loop, record, held, wedged, connection>>

-----------------------------------------------------------------------------
(* SocketIoClient *)

RunningTasks == {t \in Tasks : rows[t].exec = Running}

Current == [load |-> Cardinality(RunningTasks), capacity |-> capacity]

(* emitHeartBeat: with no record it throws, and its catch block returns *)
EmitHeartBeat ==
  IF held = "undefined" THEN UNCHANGED <<kept, reported>>
  ELSE IF socket THEN reported' = Current /\ UNCHANGED kept
  ELSE kept' = Current /\ UNCHANGED reported

SocketConnects ==
  /\ boot = "up" /\ ~socket
  /\ socket' = TRUE
  /\ greetings' = greetings + 1
  /\ reported' = IF kept = NoReport THEN reported ELSE kept
  /\ kept' = NoReport
  /\ UNCHANGED <<syncVars, boot, record, held, wedged, intervals>>

SocketDisconnects ==
  /\ Fault
  /\ socket
  /\ socket' = FALSE
  /\ UNCHANGED <<table, marks, loop, boot, record, held, wedged, greetings, intervals, kept, reported>>

(* Mutant of Greet: a connect starts no interval.                          *)
GreetOnce ==
  /\ greetings > 0
  /\ greetings' = greetings - 1
  /\ EmitHeartBeat
  /\ UNCHANGED <<syncVars, boot, record, held, wedged, socket, intervals>>

(* the rest of a connect handler, after the wait for its heartbeat *)
Greet ==
  /\ greetings > 0
  /\ greetings' = greetings - 1
  /\ intervals' = IF intervals = 0 THEN 1 ELSE intervals
  /\ EmitHeartBeat
  /\ UNCHANGED <<syncVars, boot, record, held, wedged, socket>>

(* the interval's heartbeat *)
HeartBeat ==
  /\ intervals > 0
  /\ EmitHeartBeat
  /\ UNCHANGED <<syncVars, boot, record, held, wedged, socket, greetings, intervals>>

(* findRunning fails: nothing is emitted, and a connect handler goes on *)
HeartBeatFails ==
  /\ Fault
  /\ \/ /\ greetings > 0
        /\ greetings' = greetings - 1
        /\ intervals' = IF intervals = 0 THEN 1 ELSE intervals
     \/ /\ intervals > 0
        /\ UNCHANGED <<greetings, intervals>>
  /\ UNCHANGED <<table, marks, loop, boot, record, held, wedged, socket, kept, reported>>

-----------------------------------------------------------------------------
(* The API *)

(* startTask: with no record the first line that reads it throws, and the   *)
(* queue's worker never calls back                                          *)
StartTask(t) ==
  /\ boot = "up" /\ ~wedged
  /\ IF worker = "undefined"
     THEN wedged' = TRUE /\ UNCHANGED syncVars
     ELSE Request(t) /\ UNCHANGED wedged
  /\ UNCHANGED <<boot, record, held, connection>>

(* updateFromInput; capacities are only raised, which bounds the updates *)
UpdateWorker(c) ==
  /\ boot = "up" /\ worker = "loaded"
  /\ c > capacity
  /\ capacity' = c /\ saved' = c
  /\ UNCHANGED <<syncVars, boot, worker, held, wedged, connection>>

(* the record in memory is changed before the save that fails *)
UpdateWorkerFails(c) ==
  /\ Fault
  /\ boot = "up" /\ worker = "loaded"
  /\ c > capacity
  /\ capacity' = c
  /\ UNCHANGED <<table, marks, loop, boot, worker, saved, held, wedged, connection>>

Crash ==
  /\ LoopCrashes
  /\ boot' = "initializing"
  /\ worker' = "undefined" /\ held' = "undefined"
  /\ wedged' = FALSE
  /\ capacity' = 0
  /\ socket' = FALSE /\ greetings' = 0 /\ intervals' = 0
  /\ kept' = NoReport
  /\ UNCHANGED <<saved, reported>>

-----------------------------------------------------------------------------
LoopBegins  == Begin(worker = "loaded") /\ UNCHANGED service
LoopStep    == SynchronizeTaskExecutions /\ UNCHANGED service
LoopFails   == AttemptFails /\ UNCHANGED service
RowsChange  == TaskChanges /\ UNCHANGED service

Next ==
  \/ Authenticates \/ AuthenticateFails
  \/ QueueConnects \/ QueueConnectThrows
  \/ SocketConnects \/ SocketDisconnects
  \/ Greet \/ HeartBeat \/ HeartBeatFails
  \/ \E t \in Tasks : StartTask(t)
  \/ \E c \in Capacities : UpdateWorker(c) \/ UpdateWorkerFails(c)
  \/ LoopBegins \/ LoopStep \/ LoopFails
  \/ RowsChange
  \/ Crash

Spec == Init /\ [][Next]_vars

(* Node runs every continuation; authenticate retries every five seconds;   *)
(* the loop's and the heartbeat's timers fire; socket.io reconnects; and    *)
(* MainQueue.connect returns (MainQueue's SendReturns).                     *)
Fairness ==
  /\ WF_vars(Authenticates)
  /\ WF_vars(QueueConnects)
  /\ WF_vars(SocketConnects)
  /\ WF_vars(Greet)
  /\ WF_vars(HeartBeat)
  /\ WF_vars(LoopBegins)
  /\ WF_vars(LoopStep)

FairSpec == Spec /\ Fairness

-----------------------------------------------------------------------------
(* A request that wedges the start queue was let in by a start that went on  *)
(* without the worker's record: the order of start() keeps the API closed    *)
(* until authenticate has answered, and only a failed answer opens it early. *)
WedgedOnlyIfUndefined ==
  wedged => held = "undefined" /\ crashes + faults > 0

(* Once the service is up with the record, the coordinator's picture of it   *)
(* follows: after the last change of rows or capacity, the last heartbeat    *)
(* delivered has the load of the running rows and the record's capacity,     *)
(* whatever the socket lost or kept on the way.  Which connect handler sets  *)
(* the interval, and how often the socket was reconnected, does not matter.  *)
ReportConverges ==
  <>[](boot = "up" /\ held = "loaded" => reported = Current)

=============================================================================
