------------------------ MODULE WorkerServiceProofs ------------------------
(***************************************************************************)
(* Theorems about WorkerService, and so about Synchronize within it, for   *)
(* every set of tasks, every set of capacities and any number of restarts  *)
(* and faults.                                                             *)
(***************************************************************************)
EXTENDS WorkerService, TaskExecutionProofs, FiniteSetTheorems

-----------------------------------------------------------------------------
USE DEF Undefined, Initializing, Running, Zombie, Completed,
        Unknown, Incomplete, Cancel, Success, Error,
        JobPending, JobOnline, JobStopped, JobExited

(* A row keeps its form, and stays, when its task starts, ends or is        *)
(* cancelled.                                                               *)
LEMMA RowsStay ==
  ASSUME NEW row \in Row, Stored(row)
  PROVE  /\ MarkRunning(row) \in Row /\ Stored(MarkRunning(row))
         /\ MarkError(row) \in Row /\ Stored(MarkError(row))
         /\ MarkCancelled(row) \in Row /\ Stored(MarkCancelled(row))
         /\ ~Stamped(row) =>
              \A code \in ExitCodes : /\ UpdateLocal(row, JobStopped, code) \in Row
                                      /\ Stored(UpdateLocal(row, JobStopped, code))
<1>1. JobStopped \in JobStatuses
  BY DEF JobStatuses
<1>2. \A code \in ExitCodes :
        LET new == UpdateLocal(row, JobStopped, code)
        IN  new \in Row /\ (~Stamped(row) => new.exec = Completed)
  BY <1>1, UpdateFacts
<1>3. /\ Stored(MarkRunning(row)) /\ Stored(MarkError(row)) /\ Stored(MarkCancelled(row))
  BY DEF MarkRunning, MarkError, MarkCancelled, Stored, Row
<1>4. QED  BY <1>2, <1>3, MarkTypes DEF Stored

(* What an action of the task's life does to the rows: they are rows again, *)
(* and none appears or goes.                                                *)
LEMMA ChangeFacts ==
  ASSUME SyncTypeOK, NEW t \in Tasks, Starts(t) \/ Ends(t) \/ StopReads(t) \/ StopSaves(t)
  PROVE  /\ rows' \in [Tasks -> Row]
         /\ \A u \in Tasks : Stored(rows'[u]) <=> Stored(rows[u])
         /\ UNCHANGED <<used, marks, loop, troubles>>
<1>1. rows \in [Tasks -> Row] /\ rows[t] \in Row
  BY DEF SyncTypeOK
<1>2. CASE Starts(t)
  <2>1. Stored(rows[t])
    BY <1>2 DEF Starts, Stored
  <2>2. QED  BY <1>1, <1>2, <2>1, RowsStay DEF Starts
<1>3. CASE Ends(t)
  <2>1. PICK row \in {MarkError(rows[t])}
                       \cup {UpdateLocal(rows[t], JobStopped, code) : code \in ExitCodes} :
          rows' = [rows EXCEPT ![t] = row]
    BY <1>3 DEF Ends
  <2>2. row \in Row /\ Stored(row) /\ Stored(rows[t])
    BY <1>1, <1>3, RowsStay DEF Ends
  <2>3. QED  BY <1>1, <1>3, <2>1, <2>2 DEF Ends
<1>4. CASE StopReads(t)
  BY <1>1, <1>4 DEF StopReads
<1>5. CASE StopSaves(t)
  BY <1>1, <1>5, RowsStay DEF StopSaves
<1>6. QED  BY <1>2, <1>3, <1>4, <1>5

-----------------------------------------------------------------------------
(* Type correctness, of the loop first *)

LEMMA CodesType == DOMAIN Codes = 1..3 /\ Len(Codes) = 3
BY DEF Codes

LEMMA IdleLoopType == IdleLoop \in Loops
BY CodesType DEF IdleLoop, Loops, LoopStates

LEMMA TurnType ==
  ASSUME loop \in Loops, NextTurn
  PROVE  loop' \in Loops
<1>1. loop.turn \in 1..3
  BY CodesType DEF Loops
<1>2. CASE loop.turn = 3
  BY <1>2, CodesType, IdleLoopType DEF NextTurn
<1>3. CASE loop.turn # 3
  <2>1. loop' = [pc |-> "watch", turn |-> loop.turn + 1, batch |-> {}]
    BY <1>3, CodesType DEF NextTurn
  <2>2. loop.turn + 1 \in 1..3
    BY <1>1, <1>3
  <2>3. QED  BY <2>1, <2>2, CodesType DEF Loops, LoopStates
<1>4. QED  BY <1>2, <1>3

LEMMA LoopMovesType ==
  ASSUME loop \in Loops, NEW from, NEW to \in LoopStates, LoopMoves(from, to)
  PROVE  loop' \in Loops
BY DEF LoopMoves, Loops

LEMMA SyncInitType == SyncInit => SyncTypeOK
BY ConstantRows, IdleLoopType DEF SyncInit, SyncTypeOK

LEMMA LoopType ==
  ASSUME SyncTypeOK, SynchronizeTaskExecutions
  PROVE  SyncTypeOK'
<1>1. loop \in Loops /\ sync \in [Tasks -> {"null", "never", "in progress", "complete"}]
  BY DEF SyncTypeOK
<1>2. CASE Watch
  <2>1. loop' \in Loops
    BY <1>1, <1>2, LoopMovesType DEF Watch, LoopStates
  <2>2. sync' \in [Tasks -> {"null", "never", "in progress", "complete"}]
    BY <1>1, <1>2 DEF Watch
  <2>3. QED  BY <1>2, <2>1, <2>2 DEF Watch, SyncTypeOK, table, troubles
<1>3. CASE Select
  <2>1. loop' \in Loops
    <3>1. Selected \in SUBSET Tasks
      BY DEF Selected
    <3>2. CASE Selected = {}
      BY <1>1, <1>3, <3>2, TurnType DEF Select
    <3>3. CASE Selected # {}
      BY <1>1, <1>3, <3>1, <3>3 DEF Select, Loops, LoopStates
    <3>4. QED  BY <3>2, <3>3
  <2>2. QED  BY <1>3, <2>1 DEF Select, SyncTypeOK, table, marks, troubles
<1>4. CASE MarkInProgress
  <2>1. loop' \in Loops
    BY <1>1, <1>4, LoopMovesType DEF MarkInProgress, LoopStates
  <2>2. sync' \in [Tasks -> {"null", "never", "in progress", "complete"}]
    BY <1>1, <1>4 DEF MarkInProgress, SetSyncStatus
  <2>3. QED  BY <1>4, <2>1, <2>2 DEF MarkInProgress, SyncTypeOK, table, troubles
<1>5. CASE Send
  <2>1. loop' \in Loops
    BY <1>1, <1>5, LoopMovesType DEF Send, LoopStates
  <2>2. QED  BY <1>5, <2>1 DEF Send, SyncTypeOK, table, marks, troubles
<1>6. CASE MarkComplete
  <2>1. loop' \in Loops
    BY <1>1, <1>6, TurnType DEF MarkComplete
  <2>2. sync' \in [Tasks -> {"null", "never", "in progress", "complete"}]
    BY <1>1, <1>6 DEF MarkComplete, SetSyncStatus
  <2>3. stamped' \subseteq Tasks
    BY <1>1, <1>6 DEF MarkComplete, SyncTypeOK, Loops
  <2>4. QED  BY <1>6, <2>1, <2>2, <2>3 DEF MarkComplete, SyncTypeOK, table, troubles
<1>7. QED  BY <1>2, <1>3, <1>4, <1>5, <1>6 DEF SynchronizeTaskExecutions

LEMMA TaskChangesType ==
  ASSUME SyncTypeOK, TaskChanges
  PROVE  SyncTypeOK'
<1>1. ASSUME NEW t \in Tasks, Starts(t) \/ Ends(t) \/ StopReads(t) \/ StopSaves(t)
      PROVE  SyncTypeOK'
  <2>1. stopping' \subseteq Tasks
    BY <1>1 DEF Starts, Ends, StopReads, StopSaves, SyncTypeOK
  <2>2. QED  BY <1>1, <2>1, ChangeFacts DEF SyncTypeOK, marks, troubles
<1>2. ASSUME NEW code \in RemoveCodes, RemoveWithCompletionCode(code)
      PROVE  SyncTypeOK'
  BY <1>2, ConstantRows DEF RemoveWithCompletionCode, SyncTypeOK, troubles
<1>3. QED  BY <1>1, <1>2 DEF TaskChanges

(* Troubles are counted. *)
LEMMA TroubleFacts ==
  ASSUME SyncTypeOK, Fault \/ LoopCrashes
  PROVE  crashes' \in Nat /\ faults' \in Nat /\ crashes' + faults' > 0
<1>1. crashes \in Nat /\ faults \in Nat
  BY DEF SyncTypeOK
<1>2. CASE Fault
  <2>1. faults' = faults + 1 /\ crashes' = crashes
    BY <1>2 DEF Fault
  <2>2. QED  BY <1>1, <2>1
<1>3. CASE LoopCrashes
  <2>1. crashes' = crashes + 1 /\ faults' = faults
    BY <1>3 DEF LoopCrashes
  <2>2. QED  BY <1>1, <2>1
<1>4. QED  BY <1>2, <1>3

(* Every step is a step of one of these kinds for the table and the loop.   *)
LEMMA SyncSteps ==
  ASSUME Next
  PROVE  \/ UNCHANGED syncVars
         \/ Fault /\ UNCHANGED <<table, marks, loop>>
         \/ Begin(worker = "loaded")
         \/ SynchronizeTaskExecutions
         \/ AttemptFails
         \/ \E t \in Tasks : Request(t)
         \/ TaskChanges
         \/ LoopCrashes
<1>1. CASE \/ Authenticates \/ QueueConnects \/ SocketConnects \/ Greet \/ HeartBeat
           \/ \E c \in Capacities : UpdateWorker(c)
  BY <1>1 DEF Authenticates, QueueConnects, SocketConnects, Greet, HeartBeat, UpdateWorker
<1>2. CASE \/ AuthenticateFails \/ QueueConnectThrows \/ SocketDisconnects \/ HeartBeatFails
           \/ \E c \in Capacities : UpdateWorkerFails(c)
  BY <1>2 DEF AuthenticateFails, QueueConnectThrows, SocketDisconnects, HeartBeatFails,
              UpdateWorkerFails
<1>3. ASSUME NEW t \in Tasks, StartTask(t) PROVE UNCHANGED syncVars \/ Request(t)
  BY <1>3 DEF StartTask
<1>4. CASE LoopBegins \/ LoopStep \/ LoopFails \/ RowsChange \/ Crash
  BY <1>4 DEF LoopBegins, LoopStep, LoopFails, RowsChange, Crash
<1>5. QED  BY <1>1, <1>2, <1>3, <1>4 DEF Next

LEMMA SyncNextType == SyncTypeOK /\ [Next]_vars => SyncTypeOK'
<1> SUFFICES ASSUME SyncTypeOK, [Next]_vars PROVE SyncTypeOK'
  OBVIOUS
<1>1. CASE UNCHANGED syncVars
  BY <1>1 DEF SyncTypeOK, syncVars
<1>2. CASE Fault /\ UNCHANGED <<table, marks, loop>>
  BY <1>2, TroubleFacts DEF SyncTypeOK, table, marks
<1>3. CASE Begin(worker = "loaded")
  <2>1. loop' \in Loops
    BY <1>3 DEF Begin, SyncTypeOK, Loops, LoopStates
  <2>2. QED  BY <1>3, <2>1 DEF Begin, SyncTypeOK, table, marks, troubles
<1>4. CASE SynchronizeTaskExecutions
  BY <1>4, LoopType
<1>5. CASE AttemptFails
  <2>1. loop' \in Loops
    BY <1>5, TurnType DEF AttemptFails, SyncTypeOK
  <2>2. QED  BY <1>5, <2>1, TroubleFacts DEF AttemptFails, SyncTypeOK, table, marks
<1>6. ASSUME NEW t \in Tasks, Request(t) PROVE SyncTypeOK'
  <2>1. rows' \in [Tasks -> Row]
    BY <1>6, ConstantRows DEF Request, SyncTypeOK
  <2>2. sync' \in [Tasks -> {"null", "never", "in progress", "complete"}]
    BY <1>6 DEF Request, SyncTypeOK
  <2>3. QED  BY <1>6, <2>1, <2>2 DEF Request, SyncTypeOK, troubles
<1>7. CASE TaskChanges
  BY <1>7, TaskChangesType
<1>8. CASE LoopCrashes
  <2>1. crashes' \in Nat
    BY <1>8, TroubleFacts
  <2>2. QED  BY <1>8, <2>1, IdleLoopType DEF LoopCrashes, SyncTypeOK, marks
<1>9. QED  BY <1>1, <1>2, <1>3, <1>4, <1>5, <1>6, <1>7, <1>8, SyncSteps DEF vars

-----------------------------------------------------------------------------
(* The invariant behind the marks.  A mark of time goes with Complete.  A   *)
(* row that is InProgress is stored, and its id is never given out again.   *)
(* The rows selected still have Never when they are marked, because the     *)
(* loop is the only writer of the column and waits for nobody.              *)
MarksConsistent ==
  /\ SyncTypeOK
  /\ \A t \in Tasks :
       /\ Stored(rows[t]) => t \in used
       /\ t \in stamped => sync[t] = "complete" /\ t \in used
       /\ sync[t] = "in progress" => Stored(rows[t])
       /\ sync[t] = "complete" => t \in used
       /\ t \in loop.batch => t \in used
       /\ loop.pc = "mark" /\ t \in loop.batch /\ Stored(rows[t]) => sync[t] = "never"
  /\ InProgressIsHeld

LEMMA MarksInit == SyncInit => MarksConsistent
BY SyncInitType DEF SyncInit, MarksConsistent, InProgressIsHeld, IdleLoop, Stored, NoRow

(* A turn that ends leaves nothing in the loop's hands.                     *)
LEMMA TurnFacts ==
  ASSUME NextTurn
  PROVE  loop'.pc \in {"idle", "watch"} /\ loop'.batch = {}
BY DEF NextTurn, IdleLoop

LEMMA CompletedIsStored ==
  ASSUME NEW row \in Row, row.exec = Completed PROVE Stored(row)
BY DEF Stored

LEMMA LoopMarks ==
  ASSUME MarksConsistent, SyncTypeOK', SynchronizeTaskExecutions
  PROVE  MarksConsistent'
<1> USE DEF MarksConsistent, InProgressIsHeld, SyncTypeOK, table, marks, troubles
<1>1. CASE Watch
  <2>1. \A t \in Tasks : sync[t] = "in progress" => t \notin stamped
    OBVIOUS
  <2>2. \A t \in Tasks : sync'[t] = sync[t]
    BY <1>1, <2>1 DEF Watch
  <2>3. loop'.pc = "select" /\ loop'.batch = loop.batch /\ loop.pc = "watch"
    BY <1>1 DEF Watch, LoopMoves, Loops
  <2>4. QED  BY <1>1, <2>2, <2>3 DEF Watch
<1>2. CASE Select
  <2>1. CASE Selected = {}
    BY <1>2, <2>1, TurnFacts DEF Select
  <2>2. CASE Selected # {}
    <3>1. loop'.pc = "mark" /\ loop'.batch = Selected /\ loop.pc = "select"
      <4>1. loop \in [pc : LoopStates, turn : DOMAIN Codes, batch : SUBSET Tasks]
        BY DEF Loops
      <4>2. loop.pc = "select" /\ loop' = [loop EXCEPT !.pc = "mark", !.batch = Selected]
        BY <1>2, <2>2 DEF Select
      <4>3. QED  BY <4>1, <4>2
    <3>2. ASSUME NEW t \in Selected PROVE t \in Tasks /\ sync[t] = "never" /\ Stored(rows[t])
      <4>1. t \in Tasks /\ rows[t].exec = Completed /\ UnSynced(t)
        BY DEF Selected
      <4>2. sync[t] = "never"
        BY <4>1 DEF UnSynced
      <4>3. rows[t] \in Row
        BY <4>1
      <4>4. Stored(rows[t])
        BY <4>1, <4>3, CompletedIsStored
      <4>5. QED  BY <4>1, <4>2, <4>4
    <3>3. QED  BY <1>2, <3>1, <3>2 DEF Select
  <2>3. QED  BY <2>1, <2>2
<1>3. CASE MarkInProgress
  <2>1. loop'.pc = "send" /\ loop'.batch = loop.batch /\ loop.pc = "mark"
    BY <1>3 DEF MarkInProgress, LoopMoves, Loops
  <2>2. \A t \in Tasks : sync'[t] = IF t \in loop.batch /\ Stored(rows[t]) THEN "in progress" ELSE sync[t]
    BY <1>3 DEF MarkInProgress, SetSyncStatus
  <2>3. QED  BY <1>3, <2>1, <2>2 DEF MarkInProgress
<1>4. CASE Send
  <2>1. loop'.pc = "finish" /\ loop'.batch = loop.batch /\ loop.pc = "send"
    BY <1>4 DEF Send, LoopMoves, Loops
  <2>2. QED  BY <1>4, <2>1 DEF Send
<1>5. CASE MarkComplete
  <2>1. loop'.pc \in {"idle", "watch"} /\ loop'.batch = {}
    BY <1>5, TurnFacts DEF MarkComplete
  <2>2. \A t \in Tasks : sync'[t] = IF t \in loop.batch /\ Stored(rows[t]) THEN "complete" ELSE sync[t]
    BY <1>5 DEF MarkComplete, SetSyncStatus
  <2>3. QED  BY <1>5, <2>1, <2>2 DEF MarkComplete
<1>6. QED  BY <1>1, <1>2, <1>3, <1>4, <1>5 DEF SynchronizeTaskExecutions

LEMMA NextMarks == MarksConsistent /\ [Next]_vars => MarksConsistent'
<1> SUFFICES ASSUME MarksConsistent, [Next]_vars PROVE MarksConsistent'
  OBVIOUS
<1>0. SyncTypeOK /\ SyncTypeOK'
  BY SyncNextType DEF MarksConsistent
<1>1. CASE UNCHANGED syncVars
  BY <1>0, <1>1 DEF MarksConsistent, InProgressIsHeld, syncVars
<1>2. CASE Fault /\ UNCHANGED <<table, marks, loop>>
  <2>1. crashes' + faults' > 0
    BY <1>0, <1>2, TroubleFacts
  <2>2. QED  BY <1>0, <1>2, <2>1 DEF MarksConsistent, InProgressIsHeld, table, marks
<1>3. CASE Begin(worker = "loaded")
  <2>1. loop'.pc = "watch" /\ loop'.batch = loop.batch /\ loop.pc = "idle"
    BY <1>0, <1>3 DEF Begin, SyncTypeOK, Loops
  <2>2. QED  BY <1>0, <1>3, <2>1 DEF Begin, MarksConsistent, InProgressIsHeld, table, marks, troubles
<1>4. CASE SynchronizeTaskExecutions
  BY <1>0, <1>4, LoopMarks
<1>5. CASE AttemptFails
  <2>1. crashes' + faults' > 0
    BY <1>0, <1>5, TroubleFacts DEF AttemptFails
  <2>2. QED  BY <1>0, <1>5, <2>1, TurnFacts DEF AttemptFails, MarksConsistent, InProgressIsHeld, table, marks
<1>6. ASSUME NEW t \in Tasks, Request(t) PROVE MarksConsistent'
  <2>1. PICK status \in {"null", "never"} : sync' = [sync EXCEPT ![t] = status]
    BY <1>6 DEF Request
  <2>2. Stored(InitialRow) /\ t \notin used
    BY <1>6 DEF Request, Stored, InitialRow
  <2>3. /\ rows' = [rows EXCEPT ![t] = InitialRow] /\ used' = used \cup {t}
        /\ UNCHANGED <<stamped, loop, crashes, faults>>
    BY <1>6 DEF Request, troubles
  <2>4. /\ \A u \in Tasks \ {t} : rows'[u] = rows[u] /\ sync'[u] = sync[u]
        /\ sync'[t] \in {"null", "never"} /\ Stored(rows'[t])
    BY <1>0, <2>1, <2>2, <2>3 DEF SyncTypeOK
  <2>5. ~Stored(rows[t]) /\ t \notin stamped /\ t \notin loop.batch
    BY <2>2 DEF MarksConsistent
  <2>6. QED  BY <1>0, <2>3, <2>4, <2>5 DEF MarksConsistent, InProgressIsHeld
<1>7. CASE TaskChanges
  <2>1. ASSUME NEW t \in Tasks, Starts(t) \/ Ends(t) \/ StopReads(t) \/ StopSaves(t)
        PROVE  MarksConsistent'
    BY <1>0, <2>1, ChangeFacts DEF MarksConsistent, InProgressIsHeld, marks, troubles
  <2>2. ASSUME NEW code \in RemoveCodes, RemoveWithCompletionCode(code)
        PROVE  MarksConsistent'
    <3>1. ASSUME NEW t \in Tasks
          PROVE  \/ rows'[t] = rows[t] /\ sync'[t] = sync[t] /\ (t \in stamped' => t \in stamped)
                 \/ ~Stored(rows'[t]) /\ sync'[t] = "null" /\ t \notin stamped'
      <4>1. LET gone == Stored(rows[t]) /\ rows[t].compl = code
            IN  /\ rows'[t] = IF gone THEN NoRow ELSE rows[t]
                /\ sync'[t] = IF gone THEN "null" ELSE sync[t]
                /\ (t \in stamped' <=> t \in stamped /\ ~gone)
        BY <2>2 DEF RemoveWithCompletionCode
      <4>2. ~Stored(NoRow)
        BY DEF Stored, NoRow
      <4>3. QED  BY <4>1, <4>2
    <3>2. QED  BY <1>0, <2>2, <3>1 DEF RemoveWithCompletionCode, MarksConsistent, InProgressIsHeld, troubles
  <2>3. QED  BY <1>7, <2>1, <2>2 DEF TaskChanges
<1>8. CASE LoopCrashes
  <2>1. crashes' + faults' > 0
    BY <1>0, <1>8, TroubleFacts
  <2>2. QED  BY <1>0, <1>8, <2>1 DEF LoopCrashes, IdleLoop, MarksConsistent, InProgressIsHeld, marks
<1>9. QED  BY <1>1, <1>2, <1>3, <1>4, <1>5, <1>6, <1>7, <1>8, SyncSteps DEF vars

(* MarksConsistent holds of the loop within the service, always.            *)
THEOREM MarksAreConsistent == Spec => []MarksConsistent
<1>1. Init => MarksConsistent
  BY MarksInit DEF Init
<1>2. QED  BY <1>1, NextMarks, PTL DEF Spec

(* An InProgress row is in the loop's hands until the first trouble.        *)
THEOREM InProgressIsAlwaysHeld == Spec => []InProgressIsHeld
<1>1. MarksConsistent => InProgressIsHeld
  BY DEF MarksConsistent
<1>2. QED  BY <1>1, MarksAreConsistent, PTL

(* The watchdog never finds a row, whatever fails and however often the     *)
(* worker restarts.                                                         *)
THEOREM MarksAreNeverStamped == Spec => []MarksAreUnstamped
<1>1. MarksConsistent => MarksAreUnstamped
  BY DEF MarksConsistent, MarksAreUnstamped
<1>2. QED  BY <1>1, MarksAreConsistent, PTL

(* The mark of a row that is in progress or complete goes forward only. *)
Forward(t) ==
  /\ sync[t] = "in progress" /\ Stored(rows'[t]) => sync'[t] \in {"in progress", "complete"}
  /\ sync[t] = "complete" /\ Stored(rows'[t]) => sync'[t] = "complete"

LEMMA NextForward == MarksConsistent /\ [Next]_vars => \A t \in Tasks : Forward(t)
<1> SUFFICES ASSUME MarksConsistent, [Next]_vars, NEW u \in Tasks PROVE Forward(u)
  OBVIOUS
<1>0. SyncTypeOK
  BY DEF MarksConsistent
<1>1. ASSUME sync'[u] = sync[u] PROVE Forward(u)
  BY <1>1 DEF Forward
<1>2. CASE SynchronizeTaskExecutions
  <2>1. CASE Watch
    <3>1. sync[u] = "in progress" => u \notin stamped
      BY DEF MarksConsistent
    <3>2. sync'[u] = sync[u]
      BY <2>1, <3>1 DEF Watch
    <3>3. QED  BY <3>2, <1>1
  <2>2. CASE MarkInProgress
    <3>1. /\ loop.pc = "mark"
          /\ sync'[u] = IF u \in loop.batch /\ Stored(rows[u]) THEN "in progress" ELSE sync[u]
      BY <2>2 DEF MarkInProgress, LoopMoves, SetSyncStatus
    <3>2. u \in loop.batch /\ Stored(rows[u]) => sync[u] = "never"
      BY <3>1 DEF MarksConsistent
    <3>3. QED  BY <3>1, <3>2 DEF Forward
  <2>3. CASE MarkComplete
    <3>1. sync'[u] = IF u \in loop.batch /\ Stored(rows[u]) THEN "complete" ELSE sync[u]
      BY <2>3 DEF MarkComplete, SetSyncStatus
    <3>2. QED  BY <3>1 DEF Forward
  <2>4. CASE Select \/ Send
    BY <2>4, <1>1 DEF Select, Send, marks
  <2>5. QED  BY <1>2, <2>1, <2>2, <2>3, <2>4 DEF SynchronizeTaskExecutions
<1>3. ASSUME NEW t \in Tasks, Request(t) PROVE Forward(u)
  <2>1. PICK status \in {"null", "never"} : sync' = [sync EXCEPT ![t] = status]
    BY <1>3 DEF Request
  <2>2. CASE u = t
    <3>1. u \notin used
      BY <1>3, <2>2 DEF Request
    <3>2. sync[u] # "complete" /\ sync[u] # "in progress"
      BY <3>1 DEF MarksConsistent
    <3>3. QED  BY <3>2 DEF Forward
  <2>3. CASE u # t
    BY <1>0, <2>1, <2>3, <1>1 DEF SyncTypeOK
  <2>4. QED  BY <2>2, <2>3
<1>4. CASE TaskChanges
  <2>1. ASSUME NEW t \in Tasks, Starts(t) \/ Ends(t) \/ StopReads(t) \/ StopSaves(t) PROVE Forward(u)
    BY <2>1, <1>1 DEF Starts, Ends, StopReads, StopSaves, marks
  <2>2. ASSUME NEW code \in RemoveCodes, RemoveWithCompletionCode(code) PROVE Forward(u)
    <3>1. LET gone == Stored(rows[u]) /\ rows[u].compl = code
          IN  /\ rows'[u] = IF gone THEN NoRow ELSE rows[u]
              /\ sync'[u] = IF gone THEN "null" ELSE sync[u]
      BY <2>2 DEF RemoveWithCompletionCode
    <3>2. ~Stored(NoRow)
      BY DEF Stored, NoRow
    <3>3. QED  BY <3>1, <3>2, <1>1 DEF Forward
  <2>3. QED  BY <1>4, <2>1, <2>2 DEF TaskChanges
<1>5. CASE UNCHANGED sync
  BY <1>5, <1>1
<1>6. QED
  <2>1. CASE Fault /\ UNCHANGED <<table, marks, loop>>
    BY <2>1, <1>5 DEF marks
  <2>2. CASE Begin(worker = "loaded") \/ AttemptFails \/ LoopCrashes
    BY <2>2, <1>5 DEF Begin, AttemptFails, LoopCrashes, marks
  <2>3. CASE UNCHANGED syncVars
    BY <2>3, <1>5 DEF syncVars
  <2>4. Next \/ UNCHANGED vars
    OBVIOUS
  <2>5. CASE UNCHANGED vars
    BY <2>5, <1>5 DEF vars, syncVars
  <2>6. QED  BY <1>2, <1>3, <1>4, <2>1, <2>2, <2>3, <2>4, <2>5, SyncSteps

(* No row is sent twice, whatever fails and however often the worker        *)
(* restarts.                                                                *)
THEOREM NothingIsEverSentAgain == Spec => NothingIsSentAgain
<1>1. MarksConsistent /\ [Next]_vars
        => [\A t \in Tasks :
              /\ sync[t] = "in progress" /\ Stored(rows'[t]) => sync'[t] \in {"in progress", "complete"}
              /\ sync[t] = "complete" /\ Stored(rows'[t]) => sync'[t] = "complete"]_syncVars
  BY NextForward DEF Forward
<1>2. QED  BY <1>1, MarksAreConsistent, PTL DEF Spec, NothingIsSentAgain

-----------------------------------------------------------------------------
(* Type correctness of the service *)

(* A heartbeat reports no more tasks than there are. *)
LEMMA CurrentType ==
  ASSUME capacity \in Capacities PROVE Current \in Reports
<1>1. IsFiniteSet(Tasks) /\ RunningTasks \subseteq Tasks
  BY SynchronizeAssumption DEF RunningTasks
<1>2. /\ Cardinality(RunningTasks) \in Nat /\ Cardinality(Tasks) \in Nat
      /\ Cardinality(RunningTasks) <= Cardinality(Tasks)
  BY <1>1, FS_Subset, FS_CardinalityType
<1>3. Cardinality(RunningTasks) \in 0..Cardinality(Tasks)
  BY <1>2
<1>4. QED  BY <1>3 DEF Current, Reports

LEMMA HeartBeatType ==
  ASSUME TypeOK, EmitHeartBeat PROVE kept' \in Reports /\ reported' \in Reports
BY CurrentType DEF TypeOK, EmitHeartBeat

LEMMA InitType == Init => TypeOK
BY SyncInitType, CapacitiesAssumption DEF Init, TypeOK, Reports

LEMMA NextType == TypeOK /\ [Next]_vars => TypeOK'
<1> SUFFICES ASSUME TypeOK, [Next]_vars PROVE TypeOK'
  OBVIOUS
<1>0. SyncTypeOK'
  BY SyncNextType DEF TypeOK
<1> USE <1>0 DEF TypeOK, record, connection
<1>1. CASE UNCHANGED service
  BY <1>1 DEF service
<1>2. CASE Authenticates
  BY <1>2 DEF Authenticates, Initialized
<1>3. CASE AuthenticateFails
  BY <1>3 DEF AuthenticateFails, Initialized
<1>4. CASE QueueConnects \/ QueueConnectThrows
  BY <1>4 DEF QueueConnects, QueueConnectThrows
<1>5. CASE SocketConnects
  <2>1. NoReport \in Reports
    BY DEF Reports
  <2>2. kept' \in Reports /\ reported' \in Reports
    BY <1>5, <2>1 DEF SocketConnects
  <2>3. socket' \in BOOLEAN /\ greetings' \in Nat
    BY <1>5 DEF SocketConnects
  <2>4. QED  BY <1>5, <2>2, <2>3 DEF SocketConnects
<1>6. CASE SocketDisconnects
  BY <1>6 DEF SocketDisconnects
<1>7. CASE Greet
  BY <1>7, HeartBeatType DEF Greet
<1>8. CASE HeartBeat
  BY <1>8, HeartBeatType DEF HeartBeat
<1>9. CASE HeartBeatFails
  BY <1>9 DEF HeartBeatFails
<1>10. ASSUME NEW t \in Tasks, StartTask(t) PROVE TypeOK'
  BY <1>10 DEF StartTask
<1>11. ASSUME NEW c \in Capacities, UpdateWorker(c) \/ UpdateWorkerFails(c) PROVE TypeOK'
  BY <1>11 DEF UpdateWorker, UpdateWorkerFails
<1>12. CASE Crash
  BY <1>12, CapacitiesAssumption DEF Crash, Reports
<1>13. CASE LoopBegins \/ LoopStep \/ LoopFails \/ RowsChange
  BY <1>1, <1>13 DEF LoopBegins, LoopStep, LoopFails, RowsChange
<1>14. QED
  BY <1>1, <1>2, <1>3, <1>4, <1>5, <1>6, <1>7, <1>8, <1>9, <1>10, <1>11, <1>12, <1>13
  DEF Next, vars

(* TypeOK holds of the service, always. *)
THEOREM TypeCorrect == Spec => []TypeOK
<1>1. QED  BY InitType, NextType, PTL DEF Spec

-----------------------------------------------------------------------------
(* The invariant behind the wedged queue.  The API is closed before the     *)
(* first authenticate answers.  Once it has answered, a storage manager     *)
(* without a record means that it failed, and then the socket's client has  *)
(* no record for the rest of the process's life.                            *)
RecordConsistent ==
  /\ SyncTypeOK
  /\ boot = "initializing" => ~wedged
  /\ boot # "initializing" /\ worker = "undefined" => held = "undefined" /\ crashes + faults > 0
  /\ WedgedOnlyIfUndefined

(* Troubles that happened are not forgotten. *)
LEMMA TroublesStay ==
  ASSUME SyncTypeOK, Next
  PROVE  UNCHANGED troubles \/ crashes' + faults' > 0
<1>1. CASE Fault \/ AttemptFails \/ LoopCrashes
  BY <1>1, TroubleFacts DEF AttemptFails
<1>2. CASE UNCHANGED syncVars
  BY <1>2 DEF syncVars, troubles
<1>3. CASE Begin(worker = "loaded")
  BY <1>3 DEF Begin
<1>4. CASE SynchronizeTaskExecutions
  BY <1>4 DEF SynchronizeTaskExecutions, Watch, Select, MarkInProgress, Send, MarkComplete
<1>5. CASE \E t \in Tasks : Request(t)
  BY <1>5 DEF Request
<1>6. CASE TaskChanges
  BY <1>6 DEF TaskChanges, Starts, Ends, StopReads, StopSaves, RemoveWithCompletionCode
<1>7. QED  BY <1>1, <1>2, <1>3, <1>4, <1>5, <1>6, SyncSteps

LEMMA NextRecord == RecordConsistent /\ [Next]_vars => RecordConsistent'
<1> SUFFICES ASSUME RecordConsistent, [Next]_vars PROVE RecordConsistent'
  OBVIOUS
<1>0. SyncTypeOK' /\ (Next => UNCHANGED troubles \/ crashes' + faults' > 0)
  BY SyncNextType, TroublesStay DEF RecordConsistent
<1> USE <1>0 DEF RecordConsistent, WedgedOnlyIfUndefined, record
<1>1. CASE UNCHANGED <<boot, worker, held, wedged>>
  BY <1>1 DEF troubles, vars, syncVars
<1>2. CASE Authenticates
  BY <1>2 DEF Authenticates, Initialized, syncVars
<1>3. CASE AuthenticateFails
  <2>1. crashes' + faults' > 0
    BY <1>3, TroubleFacts DEF AuthenticateFails
  <2>2. QED  BY <1>3, <2>1 DEF AuthenticateFails, Initialized
<1>4. CASE QueueConnects
  BY <1>4 DEF QueueConnects, syncVars
<1>5. CASE QueueConnectThrows
  <2>1. crashes' + faults' > 0
    BY <1>5, TroubleFacts DEF QueueConnectThrows
  <2>2. QED  BY <1>5, <2>1 DEF QueueConnectThrows
<1>6. ASSUME NEW t \in Tasks, StartTask(t) PROVE RecordConsistent'
  <2>1. CASE worker = "undefined"
    BY <1>6, <2>1 DEF StartTask, syncVars
  <2>2. CASE worker # "undefined"
    BY <1>1, <1>6, <2>2 DEF StartTask
  <2>3. QED  BY <2>1, <2>2
<1>7. CASE Crash
  BY <1>7 DEF Crash
<1>8. CASE \/ SocketConnects \/ SocketDisconnects \/ Greet \/ HeartBeat \/ HeartBeatFails
           \/ \E c \in Capacities : UpdateWorker(c) \/ UpdateWorkerFails(c)
           \/ LoopBegins \/ LoopStep \/ LoopFails \/ RowsChange
  <2>1. UNCHANGED <<boot, worker, held, wedged>>
    BY <1>8 DEF SocketConnects, SocketDisconnects, Greet, HeartBeat, HeartBeatFails, UpdateWorker,
                UpdateWorkerFails, LoopBegins, LoopStep, LoopFails, RowsChange, service
  <2>2. QED  BY <1>1, <2>1
<1>9. QED  BY <1>1, <1>2, <1>3, <1>4, <1>5, <1>6, <1>7, <1>8 DEF Next, vars, service

(* A wedged start queue always goes back to a failed authenticate.          *)
THEOREM WedgedOnlyAfterFailure == Spec => []WedgedOnlyIfUndefined
<1>1. Init => RecordConsistent
  BY SyncInitType DEF Init, RecordConsistent, WedgedOnlyIfUndefined
<1>2. RecordConsistent => WedgedOnlyIfUndefined
  BY DEF RecordConsistent
<1>3. QED  BY <1>1, <1>2, NextRecord, PTL DEF Spec

=============================================================================
