-------------------------- MODULE LocalTasksProofs --------------------------
(***************************************************************************)
(* Theorems about LocalTasks for every set of tasks, every number of bus   *)
(* events in handling and every combination of disturbances.               *)
(***************************************************************************)
EXTENDS LocalTasks, TaskExecutionProofs, FiniteSetTheorems, TLAPS

-----------------------------------------------------------------------------
USE DEF Undefined, Initializing, Running, Zombie, Completed,
        Unknown, Incomplete, Cancel, Success, Error,
        JobPending, JobOnline, JobStopped, JobExited

-----------------------------------------------------------------------------
(* Type correctness *)

LEMMA IdleTypes ==
  /\ IdleStarter \in [pc : StarterStates, task : Tasks \cup {NoTask}]
  /\ IdleStop \in [pc : StopStates, old : Row]
  /\ IdleRefresh \in [pc : RefreshStates, list : SUBSET Tasks, running : SUBSET Tasks]
BY ConstantRows DEF IdleStarter, IdleStop, IdleRefresh, StarterStates, StopStates, RefreshStates

(* A handler that is not idle has a task. *)
LEMMA BusyJobs ==
  ASSUME TypeOK, NEW h \in Handlers
  PROVE  /\ job[h].pc # "idle" <=> job[h] \in BusyJob
         /\ job[h].pc # "idle" => Updated(job[h]) \in Row
<1>1. IdleJob.pc = "idle"
  BY DEF IdleJob
<1>2. \A j \in BusyJob : j.pc # "idle"
  BY DEF BusyJob, JobStates
<1>3. job[h] \in {IdleJob} \cup BusyJob
  BY DEF TypeOK
<1>4. \A j \in BusyJob : Updated(j) \in Row
  BY UpdateFacts DEF BusyJob, Updated
<1>5. QED  BY <1>1, <1>2, <1>3, <1>4

LEMMA JobMoves ==
  ASSUME NEW j \in BusyJob, NEW p \in JobStates, NEW row \in Row
  PROVE  /\ [j EXCEPT !.pc = p] \in BusyJob
         /\ [j EXCEPT !.pc = p, !.old = row] \in BusyJob
BY DEF BusyJob

LEMMA InitType == Init => TypeOK
BY IdleTypes, ConstantRows DEF Init, TypeOK, ExitCodes, Announcements

(* Every action keeps every variable in its type. *)
LEMMA NextType == TypeOK /\ [Next]_vars => TypeOK'
<1> SUFFICES ASSUME TypeOK, [Next]_vars PROVE TypeOK'
  OBVIOUS
<1> USE IdleTypes, ConstantRows, ConstantsAssumption
<1> USE DEF TypeOK, table, pm2, troubles, Fault, Handlers
<1>1. ASSUME NEW t \in Tasks, Admit(t) PROVE TypeOK'
  BY <1>1 DEF Admit, StarterStates
<1>2. CASE AdmitFails
  BY <1>2 DEF AdmitFails, StarterStates
<1>3. CASE SaveRunning
  <2>1. Save(rows[starter.task], InitialRow, MarkRunning(InitialRow)) \in Row \/ starter.task \notin Tasks
    BY SaveFacts, MarkTypes
  <2>2. QED  BY <1>3, <2>1 DEF SaveRunning, StarterMoves, StarterStates
<1>4. CASE Launch
  BY <1>4 DEF Launch, StarterMoves, StarterStates
<1>5. CASE RecordJob
  <2>1. load' \in Int
    BY <1>5 DEF RecordJob
  <2>2. starter' \in [pc : StarterStates, task : Tasks \cup {NoTask}]
    BY <1>5 DEF RecordJob, StarterMoves, StarterStates
  <2>3. QED  BY <1>5, <2>1, <2>2 DEF RecordJob
<1>6. CASE StartFails
  <2>1. faults' \in Nat
    BY <1>6 DEF StartFails
  <2>2. QED  BY <1>6, <2>1 DEF StartFails, StarterStates
<1>7. CASE SaveError
  <2>1. Save(rows[starter.task], InitialRow, MarkError(InitialRow)) \in Row \/ starter.task \notin Tasks
    BY SaveFacts, MarkTypes
  <2>2. QED  BY <1>7, <2>1 DEF SaveError, StarterMoves, StarterStates
<1>8. CASE SaveErrorFails
  BY <1>8 DEF SaveErrorFails, StarterMoves, StarterStates
<1>9. CASE Respond
  BY <1>9 DEF Respond, StarterStates
<1>10. ASSUME NEW b \in BusSlots, NEW t \in Tasks, BusEvent(b, t) PROVE TypeOK'
  <2>1. \A r \in Reports(t) : r.status \in JobStatuses /\ r.exit \in ExitCodes
    BY DEF Reports, JobStatuses, ExitCodes
  <2>2. \E j \in BusyJob : job' = [job EXCEPT ![b] = j]
    BY <1>10, <2>1 DEF BusEvent, BusyJob, JobStates
  <2>3. QED  BY <1>10, <2>2 DEF BusEvent
<1>11. ASSUME NEW h \in Handlers, FindTask(h) PROVE TypeOK'
  <2>1. job[h] \in BusyJob /\ rows[job[h].task] \in Row
    BY <1>11, BusyJobs DEF FindTask, BusyJob
  <2>2. [job[h] EXCEPT !.pc = "apply", !.old = rows[job[h].task]] \in BusyJob
    BY <2>1, JobMoves DEF JobStates
  <2>3. job' \in [Handlers -> {IdleJob} \cup BusyJob]
    BY <1>11, <2>2 DEF FindTask
  <2>4. QED  BY <1>11, <2>3 DEF FindTask
<1>12. ASSUME NEW h \in Handlers, ApplyUpdate(h) PROVE TypeOK'
  <2>1. job[h] \in BusyJob
    BY <1>12, BusyJobs DEF ApplyUpdate
  <2>2. [job[h] EXCEPT !.pc = "save"] \in BusyJob
    BY <2>1, JobMoves, ConstantRows DEF JobStates
  <2>3. job' \in [Handlers -> {IdleJob} \cup BusyJob]
    BY <1>12, <2>2 DEF ApplyUpdate
  <2>4. load' \in Int
    BY <1>12 DEF ApplyUpdate
  <2>5. announced' \in [Tasks -> Announcements]
    BY <1>12, <2>1 DEF ApplyUpdate, Announced, Announcements
  <2>6. QED  BY <1>12, <2>3, <2>4, <2>5 DEF ApplyUpdate
<1>13. ASSUME NEW h \in Handlers, SaveUpdate(h) PROVE TypeOK'
  <2>1. job[h] \in BusyJob /\ Updated(job[h]) \in Row
    BY <1>13, BusyJobs DEF SaveUpdate
  <2>2. Save(rows[job[h].task], job[h].old, Updated(job[h])) \in Row
    BY <2>1, SaveFacts DEF BusyJob
  <2>3. job' \in [Handlers -> {IdleJob} \cup BusyJob]
    <3>1. [job[h] EXCEPT !.pc = "delete"] \in BusyJob
      BY <2>1, JobMoves, ConstantRows DEF JobStates
    <3>2. QED  BY <1>13, <3>1 DEF SaveUpdate
  <2>4. rows' \in [Tasks -> Row]
    BY <1>13, <2>2 DEF SaveUpdate
  <2>5. QED  BY <1>13, <2>3, <2>4 DEF SaveUpdate
<1>14. ASSUME NEW h \in Handlers, RemoveProcess(h) PROVE TypeOK'
  BY <1>14 DEF RemoveProcess
<1>15. ASSUME NEW h \in Handlers, HandlerFails(h) PROVE TypeOK'
  BY <1>15 DEF HandlerFails
<1>16. ASSUME NEW t \in Tasks, NEW w \in Stoppers PROVE Found(t, w) \in [pc : StopStates, old : Row]
  BY DEF Found, Signal, StopStates
<1>17. ASSUME NEW t \in Tasks, UserStop(t) PROVE TypeOK'
  BY <1>16, <1>17 DEF UserStop, Stoppers
<1>18. ASSUME NEW t \in Tasks, UpdateZombie(t) PROVE TypeOK'
  BY <1>16, <1>18 DEF UpdateZombie, Stoppers
<1>19. ASSUME NEW t \in Tasks, NEW w \in Stoppers, SaveStop(t, w) PROVE TypeOK'
  <2>1. Save(rows[t], stop[t][w].old, MarkCancelled(stop[t][w].old)) \in Row
    BY SaveFacts, MarkTypes
  <2>2. Signal(w) \in [pc : StopStates, old : Row]
    BY DEF Signal, StopStates
  <2>3. QED  BY <1>19, <2>1, <2>2 DEF SaveStop
<1>20. ASSUME NEW t \in Tasks, NEW w \in Stoppers, StopFails(t, w) PROVE TypeOK'
  BY <1>20 DEF StopFails
<1>21. ASSUME NEW t \in Tasks, NEW w \in Stoppers, SignalStop(t, w) PROVE TypeOK'
  <2>1. stop' \in [Tasks -> [Stoppers -> [pc : StopStates, old : Row]]]
    BY <1>21 DEF SignalStop
  <2>2. /\ proc' \in [Tasks -> {"none", "online", "stopped", "removed", "lost"}]
        /\ exited' \in [Tasks -> ExitCodes]
    <3>1. CASE proc[t] = "online"
      <4>1. PICK e \in {"expected", "unexpected"} : exited' = [exited EXCEPT ![t] = e]
        BY <1>21, <3>1 DEF SignalStop
      <4>2. e \in ExitCodes
        BY DEF ExitCodes
      <4>3. exited' \in [Tasks -> ExitCodes]
        BY <4>1, <4>2
      <4>4. proc' = [proc EXCEPT ![t] = "stopped"]
        BY <1>21, <3>1 DEF SignalStop
      <4>5. QED  BY <4>3, <4>4
    <3>2. CASE proc[t] # "online"
      BY <1>21, <3>2 DEF SignalStop
    <3>3. QED  BY <3>1, <3>2
  <2>3. QED  BY <1>21, <2>1, <2>2 DEF SignalStop
<1>22. CASE ListProcesses
  <2>1. refresh' \in [pc : RefreshStates, list : SUBSET Tasks, running : SUBSET Tasks]
    BY <1>22 DEF ListProcesses, Known, RefreshStates
  <2>2. job' \in [Handlers -> {IdleJob} \cup BusyJob]
    BY <1>22 DEF ListProcesses, Known, BusyJob, JobStates, JobStatuses
  <2>3. QED  BY <1>22, <2>1, <2>2 DEF ListProcesses
<1>23. CASE FindRunning
  <2>1. refresh' \in [pc : RefreshStates, list : SUBSET Tasks, running : SUBSET Tasks]
    <3>1. RunningTasks \in SUBSET Tasks
      BY DEF RunningTasks
    <3>2. CASE RunningTasks = {}
      BY <1>23, <3>2 DEF FindRunning
    <3>3. CASE RunningTasks # {}
      BY <1>23, <3>1, <3>3 DEF FindRunning, RefreshStates
    <3>4. QED  BY <3>2, <3>3
  <2>2. \A h \in Handlers : job[h].pc = "listed" =>
                              [job[h] EXCEPT !.pc = "find"] \in BusyJob
    BY BusyJobs, JobMoves, ConstantRows DEF JobStates
  <2>3. job' \in [Handlers -> {IdleJob} \cup BusyJob]
    BY <1>23, <2>2 DEF FindRunning
  <2>4. load' \in Int
    BY <1>23 DEF FindRunning
  <2>5. QED  BY <1>23, <2>1, <2>3, <2>4 DEF FindRunning
<1>24. CASE SweepZombies
  BY <1>24 DEF SweepZombies, RefreshStates, StopStates, Stoppers
<1>25. CASE NotifyTaskLoad
  <2>1. Cardinality(refresh.running) \in Nat
    BY FS_Subset, FS_CardinalityType
  <2>2. WorkUnits * Cardinality(refresh.running) \in Int
    BY <2>1
  <2>3. QED  BY <1>25, <2>2 DEF NotifyTaskLoad
<1>26. ASSUME NEW code \in RemoveCodes, RemoveWithCompletionCode(code) PROVE TypeOK'
  BY <1>26 DEF RemoveWithCompletionCode
<1>27. ASSUME NEW t \in Tasks, ProcessExits(t) PROVE TypeOK'
  BY <1>27 DEF ProcessExits, ExitCodes
<1>28. ASSUME NEW t \in Tasks, FifteenMinutesPass(t) PROVE TypeOK'
  BY <1>28 DEF FifteenMinutesPass
<1>29. CASE Pm2Killed
  BY <1>29 DEF Pm2Killed
<1>30. CASE Crash
  BY <1>30 DEF Crash
<1>31. CASE UNCHANGED vars
  BY <1>31 DEF vars
<1>32. QED
  BY <1>1, <1>2, <1>3, <1>4, <1>5, <1>6, <1>7, <1>8, <1>9, <1>10, <1>11, <1>12, <1>13, <1>14,
     <1>15, <1>17, <1>18, <1>19, <1>20, <1>21, <1>22, <1>23, <1>24, <1>25, <1>26, <1>27,
     <1>28, <1>29, <1>30, <1>31 DEF Next

(* TypeOK holds in every reachable state. *)
THEOREM TypeCorrect == Spec => []TypeOK
BY InitType, NextType, PTL DEF Spec

-----------------------------------------------------------------------------
(* Consistency is inductive *)

Settled(t) == Stamped(rows[t]) \/ ~Stored(rows[t])

(* What no action undoes: a row's stamp, a known process, its end, what has *)
(* been announced.  A handler that an action leaves alone stays consistent. *)
Keeps ==
  \A t \in Tasks :
    /\ Settled(t) => Settled(t)'
    /\ proc[t] # "none" => proc'[t] # "none"
    /\ proc[t] \notin {"none", "online"} => proc'[t] # "online" /\ exited'[t] = exited[t]
    /\ announced[t] # "nothing" => announced'[t] # "nothing"
    /\ announced[t] = "success" => announced'[t] = "success"

LEMMA IdleConsistent == JobConsistent(IdleJob)
BY DEF JobConsistent, IdleJob

LEMMA JobStays ==
  ASSUME Keeps, NEW j \in {IdleJob} \cup BusyJob, JobConsistent(j)
  PROVE  JobConsistent(j)'
<1>1. CASE j = IdleJob
  BY <1>1 DEF JobConsistent, IdleJob
<1>2. CASE j \in BusyJob /\ j.pc # "idle"
  <2>1. j.task \in Tasks
    BY <1>2 DEF BusyJob
  <2>2. ReportConsistent(j)'
    BY <1>2, <2>1 DEF Keeps, JobConsistent, ReportConsistent
  <2>3. j.pc \in {"apply", "save"} => CopyConsistent(j)'
    BY <1>2, <2>1 DEF Keeps, JobConsistent, CopyConsistent, Settled
  <2>4. QED
    BY <1>2, <2>1, <2>2, <2>3 DEF Keeps, JobConsistent, Settled
<1>3. QED  BY <1>1, <1>2 DEF BusyJob, JobStates

(* Saving an update of a consistent copy never makes a stamped row run,     *)
(* stamps what it completes, and takes a Success only from the copy's       *)
(* update.                                                                  *)
LEMMA SavedUpdate ==
  ASSUME NEW row \in Row, NEW j \in BusyJob,
         row.exec = Completed => Stamped(row),
         row.exec = Running => ~Stamped(row),
         ~Stored(row) => row = NoRow,
         j.old.exec = Completed => Stamped(j.old),
         Stamped(j.old) => Stamped(row) \/ ~Stored(row)
  PROVE  LET saved == Save(row, j.old, Updated(j)) IN
         /\ Stored(saved) <=> Stored(row)
         /\ ~Stored(saved) => saved = NoRow
         /\ saved.exec = Completed => Stamped(saved)
         /\ saved.exec = Running => ~Stamped(saved)
         /\ Stamped(row) => Stamped(saved)
         /\ Updated(j).exec = Completed => Stamped(saved) \/ ~Stored(saved)
         /\ Stamped(saved) => Stamped(row) \/ j.status >= JobStopped
         /\ saved.compl = Success => row.compl = Success \/ Updated(j).compl = Success
<1> DEFINE new == Updated(j)
           saved == Save(row, j.old, new)
<1>1. /\ new \in Row
      /\ j.status < JobStopped => new = j.old
      /\ Stamped(j.old) => new.exec = j.old.exec /\ Stamped(new)
      /\ j.status >= JobStopped /\ ~Stamped(j.old) => new.exec = Completed /\ Stamped(new)
  BY UpdateFacts DEF Updated, BusyJob
<1>2. /\ j.old \in Row
      /\ j.status < JobStopped \/ j.status >= JobStopped
  BY DEF BusyJob, JobStatuses
<1>3. /\ ~Stored(row) => saved = row
      /\ Stored(row) =>
           /\ saved.exec = IF new.exec = j.old.exec THEN row.exec ELSE new.exec
           /\ saved.compl = IF new.compl = j.old.compl THEN row.compl ELSE new.compl
           /\ saved.completed_at =
                IF new.completed_at = j.old.completed_at THEN row.completed_at ELSE new.completed_at
  BY <1>1, <1>2, SaveFacts
<1> HIDE DEF new, saved
<1>4. /\ Stored(saved) <=> Stored(row)
      /\ ~Stored(saved) => saved = NoRow
      /\ saved.exec = Completed => Stamped(saved)
      /\ saved.exec = Running => ~Stamped(saved)
      /\ Stamped(row) => Stamped(saved)
      /\ new.exec = Completed => Stamped(saved) \/ ~Stored(saved)
      /\ Stamped(saved) => Stamped(row) \/ j.status >= JobStopped
      /\ saved.compl = Success => row.compl = Success \/ new.compl = Success
  BY <1>1, <1>2, <1>3 DEF Stored, Stamped, Row, NoRow
<1>5. QED  BY <1>4 DEF new, saved

LEMMA InitConsistent == Init => Consistent
BY DEF Init, Consistent, RowConsistent, ProcessConsistent, StarterConsistent, JobConsistent,
       IdleStarter, IdleJob, NoRow, Stored, Stamped

(* The count of faults never returns to 0. *)
LEMMA FaultsStay == TypeOK /\ [Next]_vars => (faults' = 0 => faults = 0)
<1> SUFFICES ASSUME TypeOK, [Next]_vars PROVE Fault \/ faults' = faults
  BY DEF TypeOK, Fault
<1> USE DEF troubles
<1>1. CASE AdmitFails \/ SaveRunning \/ Launch \/ RecordJob \/ StartFails \/ SaveError
           \/ SaveErrorFails \/ Respond
  BY <1>1 DEF AdmitFails, SaveRunning, Launch, RecordJob, StartFails, SaveError, SaveErrorFails,
              Respond
<1>2. CASE ListProcesses \/ FindRunning \/ SweepZombies \/ NotifyTaskLoad \/ Pm2Killed \/ Crash
  BY <1>2 DEF ListProcesses, FindRunning, SweepZombies, NotifyTaskLoad, Pm2Killed, Crash
<1>3. ASSUME NEW t \in Tasks,
             Admit(t) \/ UserStop(t) \/ UpdateZombie(t) \/ ProcessExits(t) \/ FifteenMinutesPass(t)
      PROVE  Fault \/ faults' = faults
  BY <1>3 DEF Admit, UserStop, UpdateZombie, ProcessExits, FifteenMinutesPass
<1>4. ASSUME NEW h \in Handlers,
             FindTask(h) \/ ApplyUpdate(h) \/ SaveUpdate(h) \/ RemoveProcess(h) \/ HandlerFails(h)
      PROVE  Fault \/ faults' = faults
  BY <1>4 DEF FindTask, ApplyUpdate, SaveUpdate, RemoveProcess, HandlerFails
<1>5. ASSUME NEW t \in Tasks, NEW w \in Stoppers, SaveStop(t, w) \/ StopFails(t, w) \/ SignalStop(t, w)
      PROVE  Fault \/ faults' = faults
  BY <1>5 DEF SaveStop, StopFails, SignalStop
<1>6. ASSUME NEW b \in BusSlots, NEW t \in Tasks, BusEvent(b, t) PROVE Fault \/ faults' = faults
  BY <1>6 DEF BusEvent
<1>7. ASSUME NEW code \in RemoveCodes, RemoveWithCompletionCode(code)
      PROVE  Fault \/ faults' = faults
  BY <1>7 DEF RemoveWithCompletionCode
<1>8. QED  BY <1>1, <1>2, <1>3, <1>4, <1>5, <1>6, <1>7 DEF Next, vars

(* Every action keeps the invariant. *)
LEMMA NextConsistent == TypeOK /\ Consistent /\ [Next]_vars => Consistent'
<1> SUFFICES ASSUME TypeOK, Consistent, [Next]_vars PROVE Consistent'
  OBVIOUS
<1> USE DEF Consistent
<1>0. faults' = 0 => faults = 0
  BY FaultsStay
<1> USE <1>0
<1> DEFINE
      Table     == \A t \in Tasks : RowConsistent(t)
      Processes == \A t \in Tasks : ProcessConsistent(t)
      Jobs      == \A h \in Handlers : JobConsistent(job[h])
(* the parts of the invariant an action does not reach *)
<1>a. ASSUME UNCHANGED <<rows, used, proc, exited, announced>> PROVE Table' /\ Processes'
  BY <1>a DEF RowConsistent, ProcessConsistent
<1>b. ASSUME UNCHANGED <<rows, proc, starter>>, used \subseteq used' PROVE StarterConsistent'
  BY <1>b DEF StarterConsistent
<1>c. ASSUME Keeps, \A h \in Handlers : job'[h] = job[h] \/ JobConsistent(job[h])' PROVE Jobs'
  <2>1. SUFFICES ASSUME NEW h \in Handlers, job'[h] = job[h] PROVE JobConsistent(job[h])'
    BY <1>c
  <2>2. job[h] \in {IdleJob} \cup BusyJob
    BY DEF TypeOK
  <2>3. \A j \in {IdleJob} \cup BusyJob : JobConsistent(j) => JobConsistent(j)'
    BY <1>c, JobStays
  <2>4. QED  BY <2>1, <2>2, <2>3
<1>d. ASSUME UNCHANGED <<rows, proc, exited, announced>> PROVE Keeps
  BY <1>d DEF Keeps, Settled
<1>e. JobConsistent(IdleJob)'
  BY DEF JobConsistent, IdleJob
<1>f. ASSUME NEW t \in Tasks, proc[t] = "online", proc' = [proc EXCEPT ![t] = "stopped"],
             \A u \in Tasks \ {t} : exited'[u] = exited[u],
             UNCHANGED <<rows, used, announced, starter, job>>
      PROVE  Consistent'
  <2>1. /\ announced[t] = "nothing"
        /\ \A u \in Tasks \ {t} : proc'[u] = proc[u]
        /\ proc'[t] = "stopped"
    BY <1>f DEF ProcessConsistent, TypeOK
  <2>2. Keeps
    BY <1>f, <2>1 DEF Keeps, Settled
  <2>3. Table'
    BY <1>f DEF RowConsistent
  <2>4. Processes'
    BY <1>f, <2>1 DEF ProcessConsistent
  <2>5. StarterConsistent'
    BY <1>f, <2>1 DEF StarterConsistent, TypeOK
  <2>6. QED  BY <1>f, <2>2, <2>3, <2>4, <2>5, <1>c
<1>1. ASSUME NEW t \in Tasks, Admit(t) PROVE Consistent'
  <2>1. /\ proc[t] = "none" /\ announced[t] = "nothing"
        /\ rows' = [rows EXCEPT ![t] = InitialRow] /\ used' = used \cup {t}
        /\ starter' = [pc |-> "created", task |-> t]
        /\ UNCHANGED <<proc, exited, announced, job>>
    BY <1>1 DEF Admit, pm2, TypeOK, Announcements, ProcessConsistent
  <2>2. ~Stamped(InitialRow) /\ Stored(InitialRow)
    BY DEF InitialRow, Stamped, Stored
  <2>3. Table'
    BY <2>1, <2>2 DEF RowConsistent, TypeOK, InitialRow
  <2>4. Processes'
    BY <2>1 DEF ProcessConsistent, TypeOK
  <2>5. StarterConsistent'
    BY <2>1, <2>2 DEF StarterConsistent, TypeOK
  <2>6. Jobs'
    <3>1. SUFFICES ASSUME NEW h \in Handlers PROVE JobConsistent(job[h])'
      OBVIOUS
    <3>2. job[h].pc = "idle" \/ job[h].task # t
      BY <2>1 DEF JobConsistent, ReportConsistent
    <3>3. CASE job[h].pc = "idle"
      BY <2>1, <3>3 DEF JobConsistent
    <3>4. CASE job[h].pc # "idle" /\ job[h].task # t
      <4>1. job[h].task \in Tasks /\ rows'[job[h].task] = rows[job[h].task]
        BY <2>1, <3>4, BusyJobs DEF BusyJob, TypeOK
      <4>2. QED
        BY <2>1, <4>1 DEF JobConsistent, ReportConsistent, CopyConsistent
    <3>5. QED  BY <3>2, <3>3, <3>4
  <2>7. QED  BY <2>3, <2>4, <2>5, <2>6
<1>2. CASE AdmitFails
  <2>1. StarterConsistent'
    BY <1>2 DEF AdmitFails, StarterConsistent
  <2>2. QED  BY <1>2, <2>1, <1>a, <1>c, <1>d DEF AdmitFails, table, pm2
<1>3. CASE SaveRunning
  <2>1. PICK t \in Tasks :
        /\ starter.task = t /\ t \in used /\ proc[t] = "none" /\ ~Stamped(rows[t]) /\ starter.pc = "created"
        /\ rows' = [rows EXCEPT ![t] = Save(rows[t], InitialRow, MarkRunning(InitialRow))]
        /\ starter' = [starter EXCEPT !.pc = "launching"]
        /\ UNCHANGED <<used, proc, exited, announced, job>>
    BY <1>3 DEF SaveRunning, StarterMoves, pm2, StarterConsistent, TypeOK
  <2>2. /\ Stored(rows'[t]) <=> Stored(rows[t])
        /\ ~Stored(rows'[t]) => rows'[t] = rows[t]
        /\ Stored(rows'[t]) => rows'[t].exec = Running
        /\ rows'[t].compl = rows[t].compl
        /\ rows'[t].completed_at = rows[t].completed_at
    <3>1. rows[t] \in Row /\ rows'[t] = Save(rows[t], InitialRow, MarkRunning(InitialRow))
      BY <2>1 DEF TypeOK
    <3>2. QED  BY <3>1, SavedRunning DEF Stored
  <2>3. \A u \in Tasks \ {t} : rows'[u] = rows[u]
    BY <2>1 DEF TypeOK
  <2>4. Keeps
    BY <2>1, <2>2, <2>3 DEF Keeps, Settled, Stamped
  <2>5. Table'
    <3>1. RowConsistent(t)'
      BY <2>1, <2>2 DEF RowConsistent, Stamped
    <3>2. \A u \in Tasks \ {t} : RowConsistent(u)'
      BY <2>1, <2>3 DEF RowConsistent
    <3>3. QED  BY <3>1, <3>2
  <2>6. Processes'
    BY <2>1, <2>2, <2>3 DEF ProcessConsistent, Stamped
  <2>7. StarterConsistent'
    BY <2>1, <2>2 DEF StarterConsistent, TypeOK, Stamped
  <2>8. QED  BY <2>1, <2>4, <2>5, <2>6, <2>7, <1>c
<1>4. CASE Launch
  <2>1. PICK t \in Tasks :
        /\ starter.task = t /\ t \in used /\ proc[t] = "none" /\ ~Stamped(rows[t])
        /\ proc' = [proc EXCEPT ![t] = "online"]
        /\ starter' = [starter EXCEPT !.pc = "recording"]
        /\ UNCHANGED <<rows, used, exited, announced, job>>
    BY <1>4 DEF Launch, StarterMoves, table, StarterConsistent, TypeOK
  <2>2. Keeps
    BY <2>1 DEF Keeps, Settled, TypeOK
  <2>3. Table'
    BY <2>1 DEF RowConsistent
  <2>4. Processes'
    BY <2>1 DEF ProcessConsistent, TypeOK
  <2>5. StarterConsistent'
    BY <2>1 DEF StarterConsistent, TypeOK
  <2>6. QED  BY <2>1, <2>2, <2>3, <2>4, <2>5, <1>c
<1>5. CASE RecordJob
  <2>1. StarterConsistent'
    BY <1>5 DEF RecordJob, StarterMoves, StarterConsistent, TypeOK, table, pm2
  <2>2. QED  BY <1>5, <2>1, <1>a, <1>c, <1>d DEF RecordJob, table, pm2
<1>6. CASE StartFails
  <2>1. StarterConsistent'
    BY <1>6 DEF StartFails, Fault, StarterConsistent, TypeOK, table, pm2
  <2>2. QED  BY <1>6, <2>1, <1>a, <1>c, <1>d DEF StartFails, table, pm2
<1>7. CASE SaveError
  <2>1. PICK t \in Tasks :
        /\ starter.task = t /\ t \in used /\ faults # 0
        /\ rows' = [rows EXCEPT ![t] = Save(rows[t], InitialRow, MarkError(InitialRow))]
        /\ starter' = [starter EXCEPT !.pc = "responding"]
        /\ UNCHANGED <<used, proc, exited, announced, job, faults>>
    BY <1>7 DEF SaveError, StarterMoves, pm2, troubles, StarterConsistent, TypeOK
  <2>2. /\ Stored(rows'[t]) <=> Stored(rows[t])
        /\ ~Stored(rows'[t]) => rows'[t] = rows[t]
        /\ Stored(rows'[t]) => /\ rows'[t].exec = Completed
                               /\ rows'[t].compl = Error
                               /\ Stamped(rows'[t])
    <3>1. rows[t] \in Row /\ rows'[t] = Save(rows[t], InitialRow, MarkError(InitialRow))
      BY <2>1 DEF TypeOK
    <3>2. QED  BY <3>1, SavedError DEF Stored
  <2>3. \A u \in Tasks \ {t} : rows'[u] = rows[u]
    BY <2>1 DEF TypeOK
  <2>4. Keeps
    BY <2>1, <2>2, <2>3 DEF Keeps, Settled
  <2>5. Table'
    <3>1. RowConsistent(t)'
      BY <2>1, <2>2 DEF RowConsistent
    <3>2. \A u \in Tasks \ {t} : RowConsistent(u)'
      BY <2>1, <2>3 DEF RowConsistent
    <3>3. QED  BY <3>1, <3>2
  <2>6. Processes'
    BY <2>1, <2>2, <2>3 DEF ProcessConsistent
  <2>7. StarterConsistent'
    BY <2>1 DEF StarterConsistent, TypeOK
  <2>8. QED  BY <2>1, <2>4, <2>5, <2>6, <2>7, <1>c
<1>8. CASE SaveErrorFails
  <2>1. StarterConsistent'
    BY <1>8 DEF SaveErrorFails, StarterMoves, StarterConsistent, TypeOK, table, pm2
  <2>2. QED  BY <1>8, <2>1, <1>a, <1>c, <1>d DEF SaveErrorFails, table, pm2
<1>9. CASE Respond
  <2>1. StarterConsistent'
    BY <1>9 DEF Respond, StarterConsistent, IdleStarter, TypeOK, table, pm2
  <2>2. QED  BY <1>9, <2>1, <1>a, <1>c, <1>d DEF Respond, table, pm2
<1>10. ASSUME NEW b \in BusSlots, NEW t \in Tasks, BusEvent(b, t) PROVE Consistent'
  <2>1. PICK r \in Reports(t) :
          job' = [job EXCEPT ![b] = [pc |-> "find", task |-> t, status |-> r.status,
                                     exit |-> r.exit, old |-> NoRow]]
    BY <1>10 DEF BusEvent
  <2>2. /\ r.status \in {JobOnline, JobStopped}
        /\ r.status = JobStopped => proc[t] # "online"
        /\ r.exit # "none" => r.status = JobStopped /\ r.exit = exited[t]
    BY <1>10 DEF BusEvent, Reports
  <2>3. job'[b] = [pc |-> "find", task |-> t, status |-> r.status, exit |-> r.exit, old |-> NoRow]
    BY <2>1 DEF TypeOK, Handlers
  <2>4. JobConsistent(job[b])'
    BY <1>10, <2>2, <2>3 DEF BusEvent, JobConsistent, ReportConsistent, table, pm2
  <2>5. \A h \in Handlers : job'[h] = job[h] \/ JobConsistent(job[h])'
    BY <2>1, <2>4 DEF TypeOK
  <2>6. QED  BY <1>10, <2>5, <1>a, <1>b, <1>c, <1>d DEF BusEvent, table, pm2
<1>11. ASSUME NEW h \in Handlers, FindTask(h) PROVE Consistent'
  <2>1. /\ job[h] \in BusyJob /\ job[h].pc = "find" /\ JobConsistent(job[h])
        /\ UNCHANGED <<rows, used, proc, exited, announced, starter>>
    BY <1>11, BusyJobs DEF FindTask, table, pm2
  <2>2. PICK t \in Tasks : job[h].task = t
    BY <2>1 DEF BusyJob
  <2>3. job'[h] = IF Stored(rows[t]) THEN [job[h] EXCEPT !.pc = "apply", !.old = rows[t]] ELSE IdleJob
    BY <1>11, <2>2 DEF FindTask, TypeOK
  <2>4. JobConsistent(job[h])'
    <3>1. CASE ~Stored(rows[t])
      BY <2>3, <3>1, <1>e
    <3>2. CASE Stored(rows[t])
      <4>1. /\ job'[h].pc = "apply" /\ job'[h].task = t /\ job'[h].old = rows[t]
            /\ job'[h].status = job[h].status /\ job'[h].exit = job[h].exit
        BY <2>1, <2>2, <2>3, <3>2 DEF BusyJob
      <4>2. ReportConsistent(job[h])'
        BY <2>1, <2>2, <4>1 DEF JobConsistent, ReportConsistent
      <4>3. CopyConsistent(job[h])'
        BY <2>1, <4>1 DEF CopyConsistent, RowConsistent
      <4>4. QED  BY <4>1, <4>2, <4>3 DEF JobConsistent
    <3>3. QED  BY <3>1, <3>2
  <2>5. \A g \in Handlers : job'[g] = job[g] \/ JobConsistent(job[g])'
    BY <1>11, <2>4 DEF FindTask, TypeOK
  <2>6. QED  BY <2>1, <2>5, <1>a, <1>b, <1>c, <1>d
<1>12. ASSUME NEW h \in Handlers, ApplyUpdate(h) PROVE Consistent'
  <2>1. /\ job[h] \in BusyJob /\ job[h].pc = "apply" /\ JobConsistent(job[h])
        /\ UNCHANGED <<rows, used, proc, exited, starter>>
    BY <1>12, BusyJobs DEF ApplyUpdate, table, pm2
  <2>2. PICK t \in Tasks : job[h].task = t
    BY <2>1 DEF BusyJob
  <2>3. /\ job[h].old \in Row /\ job[h].status \in JobStatuses /\ job[h].exit \in ExitCodes
        /\ ReportConsistent(job[h]) /\ CopyConsistent(job[h])
    BY <2>1 DEF BusyJob, JobConsistent
  <2>4. Updated(job[h]).compl = Success =>
          /\ announced[t] = "success" \/ exited[t] = "expected"
          /\ job[h].status < JobStopped => announced[t] = "success"
    <3>1. /\ Updated(job[h]).compl = Success => job[h].old.compl = Success \/ job[h].exit = "expected"
          /\ job[h].status < JobStopped => Updated(job[h]) = job[h].old
      BY <2>3, UpdateFacts DEF Updated
    <3>2. QED  BY <2>2, <2>3, <3>1 DEF ReportConsistent, CopyConsistent, ExitCodes
  <2>5. /\ \A u \in Tasks \ {t} : announced'[u] = announced[u]
        /\ job[h].status < JobStopped => announced'[t] = announced[t]
        /\ job[h].status >= JobStopped => announced'[t] = Announced(announced[t], Updated(job[h]).compl)
    BY <1>12, <2>2, <2>3 DEF ApplyUpdate, TypeOK, JobStatuses
  <2>6. /\ announced[t] # "nothing" => announced'[t] # "nothing"
        /\ announced[t] = "success" => announced'[t] = "success"
        /\ job[h].status >= JobStopped => announced'[t] # "nothing"
        /\ announced'[t] = "success" => announced[t] = "success" \/ exited[t] = "expected"
        /\ Updated(job[h]).compl = Success => announced'[t] = "success"
        /\ announced'[t] # announced[t] => proc[t] \notin {"none", "online"}
    <3>1. CASE job[h].status < JobStopped
      BY <2>3, <2>4, <2>5, <3>1 DEF JobStatuses
    <3>2. CASE job[h].status >= JobStopped
      <4>1. job[h].status = JobStopped /\ proc[t] \notin {"none", "online"}
        BY <2>2, <2>3, <3>2 DEF ReportConsistent
      <4>2. QED  BY <2>4, <2>5, <3>2, <4>1 DEF Announced
    <3>3. QED  BY <2>3, <3>1, <3>2 DEF JobStatuses
  <2>7. Keeps
    BY <2>1, <2>5, <2>6 DEF Keeps, Settled
  <2>8. Table'
    BY <2>1, <2>5, <2>6 DEF RowConsistent
  <2>9. Processes'
    BY <2>1, <2>5, <2>6 DEF ProcessConsistent
  <2>10. StarterConsistent'
    BY <2>1, <1>b
  <2>11. JobConsistent(job[h])'
    <3>1. /\ job'[h].pc = "save" /\ job'[h].task = t /\ job'[h].old = job[h].old
          /\ job'[h].status = job[h].status /\ job'[h].exit = job[h].exit
      BY <1>12, <2>1, <2>2 DEF ApplyUpdate, TypeOK, BusyJob
    <3>2. ReportConsistent(job[h])'
      BY <2>1, <2>2, <2>3, <3>1 DEF ReportConsistent
    <3>3. CopyConsistent(job[h])'
      BY <2>1, <2>2, <2>3, <2>6, <3>1 DEF CopyConsistent
    <3>4. Updated(job[h])' = Updated(job[h])
      BY <3>1 DEF Updated
    <3>5. QED
      BY <2>6, <3>1, <3>2, <3>3, <3>4 DEF JobConsistent
  <2>12. \A g \in Handlers : job'[g] = job[g] \/ JobConsistent(job[g])'
    BY <1>12, <2>11 DEF ApplyUpdate, TypeOK
  <2>13. QED  BY <2>7, <2>8, <2>9, <2>10, <2>12, <1>c
<1>13. ASSUME NEW h \in Handlers, SaveUpdate(h) PROVE Consistent'
  <2>1. /\ job[h] \in BusyJob /\ job[h].pc = "save" /\ JobConsistent(job[h])
        /\ UNCHANGED <<used, proc, exited, announced, starter>>
    BY <1>13, BusyJobs DEF SaveUpdate, pm2
  <2>2. PICK t \in Tasks : job[h].task = t
    BY <2>1 DEF BusyJob
  <2>3. /\ rows[t] \in Row /\ RowConsistent(t)
        /\ ReportConsistent(job[h]) /\ CopyConsistent(job[h])
    BY <2>1 DEF TypeOK, JobConsistent
  <2> DEFINE saved == Save(rows[t], job[h].old, Updated(job[h]))
  <2>4. /\ Stored(saved) <=> Stored(rows[t])
        /\ ~Stored(saved) => saved = NoRow
        /\ saved.exec = Completed => Stamped(saved)
        /\ saved.exec = Running => ~Stamped(saved)
        /\ Stamped(rows[t]) => Stamped(saved)
        /\ Updated(job[h]).exec = Completed => Stamped(saved) \/ ~Stored(saved)
        /\ Stamped(saved) => Stamped(rows[t]) \/ job[h].status >= JobStopped
        /\ saved.compl = Success => rows[t].compl = Success \/ Updated(job[h]).compl = Success
    BY <2>1, <2>2, <2>3, SavedUpdate DEF RowConsistent, CopyConsistent
  <2>5. rows'[t] = saved /\ \A u \in Tasks \ {t} : rows'[u] = rows[u]
    BY <1>13, <2>2 DEF SaveUpdate, TypeOK
  <2> HIDE DEF saved
  <2>6. job[h].status >= JobStopped => announced[t] # "nothing" /\ proc[t] \notin {"none", "online"}
    BY <2>1, <2>2, <2>3 DEF JobConsistent, ReportConsistent
  <2>7. Updated(job[h]).compl = Success => announced[t] = "success"
    BY <2>1, <2>2 DEF JobConsistent
  <2>8. Keeps
    BY <2>1, <2>4, <2>5 DEF Keeps, Settled
  <2>9. Table'
    <3>1. RowConsistent(t)'
      BY <2>1, <2>3, <2>4, <2>5, <2>6, <2>7 DEF RowConsistent
    <3>2. \A u \in Tasks \ {t} : RowConsistent(u)'
      BY <2>1, <2>5 DEF RowConsistent
    <3>3. QED  BY <3>1, <3>2
  <2>10. Processes'
    BY <2>1, <2>4, <2>5 DEF ProcessConsistent
  <2>11. StarterConsistent'
    <3>1. starter.pc \in {"created", "launching"} => ~Stamped(rows'[starter.task])
      <4>1. CASE starter.task # t
        BY <2>5, <4>1 DEF StarterConsistent, TypeOK, ConstantsAssumption, Stamped, NoRow
      <4>2. CASE starter.task = t
        BY <2>3, <2>4, <2>5, <2>6, <4>2 DEF StarterConsistent
      <4>3. QED  BY <4>1, <4>2
    <3>2. QED  BY <2>1, <3>1 DEF StarterConsistent
  <2>12. JobConsistent(job[h])'
    <3> DEFINE delete == Updated(job[h]).exec = Completed /\ job[h].status = JobStopped
    <3>1. job'[h] = IF delete THEN [job[h] EXCEPT !.pc = "delete"] ELSE IdleJob
      BY <1>13 DEF SaveUpdate, TypeOK
    <3>2. CASE ~delete
      BY <3>1, <3>2, <1>e
    <3>3. CASE delete
      <4>1. /\ job'[h].pc = "delete" /\ job'[h].task = t
            /\ job'[h].status = job[h].status /\ job'[h].exit = job[h].exit
        BY <2>1, <2>2, <3>1, <3>3 DEF BusyJob
      <4>2. ReportConsistent(job[h])'
        BY <2>1, <2>2, <2>3, <4>1 DEF ReportConsistent
      <4>3. Settled(t)'
        BY <2>4, <2>5, <3>3 DEF Settled
      <4>4. QED  BY <4>1, <4>2, <4>3 DEF JobConsistent, Settled
    <3>4. QED  BY <3>2, <3>3
  <2>13. \A g \in Handlers : job'[g] = job[g] \/ JobConsistent(job[g])'
    BY <1>13, <2>12 DEF SaveUpdate, TypeOK
  <2>14. QED  BY <2>8, <2>9, <2>10, <2>11, <2>13, <1>c
<1>14. ASSUME NEW h \in Handlers, RemoveProcess(h) PROVE Consistent'
  <2>1. /\ job[h] \in BusyJob /\ job[h].pc = "delete" /\ JobConsistent(job[h])
        /\ UNCHANGED <<rows, used, exited, announced, starter>>
    BY <1>14, BusyJobs DEF RemoveProcess, table
  <2>2. PICK t \in Tasks : job[h].task = t
    BY <2>1 DEF BusyJob
  <2>3. /\ \A u \in Tasks \ {t} : proc'[u] = proc[u]
        /\ proc'[t] = proc[t] \/ (proc[t] = "stopped" /\ proc'[t] = "removed")
    <3>1. proc' = IF proc[t] = "stopped" THEN [proc EXCEPT ![t] = "removed"] ELSE proc
      BY <1>14, <2>2 DEF RemoveProcess
    <3>2. CASE proc[t] = "stopped"
      BY <3>1, <3>2 DEF TypeOK
    <3>3. CASE proc[t] # "stopped"
      BY <3>1, <3>3
    <3>4. QED  BY <3>2, <3>3
  <2>4. Settled(t)
    BY <2>1, <2>2 DEF JobConsistent, Settled
  <2>5. Keeps
    BY <2>1, <2>3 DEF Keeps, Settled
  <2>6. Table'
    BY <2>1 DEF RowConsistent
  <2>7. Processes'
    BY <2>1, <2>3, <2>4 DEF ProcessConsistent, Settled
  <2>8. StarterConsistent'
    BY <2>1, <2>3 DEF StarterConsistent, TypeOK
  <2>9. \A g \in Handlers : job'[g] = job[g] \/ JobConsistent(job[g])'
    BY <1>14, <1>e DEF RemoveProcess, TypeOK
  <2>10. QED  BY <2>5, <2>6, <2>7, <2>8, <2>9, <1>c
<1>15. ASSUME NEW h \in Handlers, HandlerFails(h) PROVE Consistent'
  <2>1. \A g \in Handlers : job'[g] = job[g] \/ JobConsistent(job[g])'
    BY <1>15, <1>e DEF HandlerFails, TypeOK
  <2>2. QED  BY <1>15, <2>1, <1>a, <1>b, <1>c, <1>d DEF HandlerFails, table, pm2
<1>16. ASSUME NEW t \in Tasks, UserStop(t) PROVE Consistent'
  BY <1>16, <1>a, <1>b, <1>c, <1>d DEF UserStop, table, pm2
<1>17. ASSUME NEW t \in Tasks, UpdateZombie(t) PROVE Consistent'
  BY <1>17, <1>a, <1>b, <1>c, <1>d DEF UpdateZombie, table, pm2
<1>18. ASSUME NEW t \in Tasks, NEW w \in Stoppers, SaveStop(t, w) PROVE Consistent'
  <2>1. /\ stop[t][w].old \in Row /\ rows[t] \in Row
        /\ UNCHANGED <<used, proc, exited, announced, starter, job>>
    BY <1>18 DEF SaveStop, pm2, TypeOK
  <2>2. /\ rows'[t] = Save(rows[t], stop[t][w].old, MarkCancelled(stop[t][w].old))
        /\ \A u \in Tasks \ {t} : rows'[u] = rows[u]
    BY <1>18 DEF SaveStop, TypeOK
  <2>3. /\ Stored(rows'[t]) <=> Stored(rows[t])
        /\ ~Stored(rows'[t]) => rows'[t] = rows[t]
        /\ Stamped(rows'[t]) <=> Stamped(rows[t])
        /\ Stored(rows'[t]) => rows'[t].exec = Zombie \/ rows'[t].exec = rows[t].exec
        /\ rows'[t].compl = Success => rows[t].compl = Success
    BY <2>1, <2>2, SavedCancel DEF Stored, Stamped
  <2>4. Keeps
    BY <2>1, <2>2, <2>3 DEF Keeps, Settled
  <2>5. Table'
    <3>1. RowConsistent(t)'
      BY <2>1, <2>3 DEF RowConsistent
    <3>2. \A u \in Tasks \ {t} : RowConsistent(u)'
      BY <2>1, <2>2 DEF RowConsistent
    <3>3. QED  BY <3>1, <3>2
  <2>6. Processes'
    BY <2>1, <2>2, <2>3 DEF ProcessConsistent
  <2>7. StarterConsistent'
    <3>1. starter.pc \in {"created", "launching"} => starter.task \in used
      BY DEF StarterConsistent
    <3>2. QED  BY <2>1, <2>2, <2>3, <3>1 DEF StarterConsistent, TypeOK
  <2>8. QED  BY <2>1, <2>4, <2>5, <2>6, <2>7, <1>c
<1>19. ASSUME NEW t \in Tasks, NEW w \in Stoppers, StopFails(t, w) PROVE Consistent'
  BY <1>19, <1>a, <1>b, <1>c, <1>d DEF StopFails, table, pm2
<1>20. ASSUME NEW t \in Tasks, NEW w \in Stoppers, SignalStop(t, w) PROVE Consistent'
  <2>1. /\ UNCHANGED <<rows, used, announced, starter, job>>
        /\ \/ UNCHANGED <<proc, exited>>
           \/ /\ proc[t] = "online" /\ proc' = [proc EXCEPT ![t] = "stopped"]
              /\ \A u \in Tasks \ {t} : exited'[u] = exited[u]
    BY <1>20 DEF SignalStop, table, pm2, TypeOK
  <2>2. CASE UNCHANGED <<proc, exited>>
    BY <2>1, <2>2, <1>a, <1>b, <1>c, <1>d
  <2>3. CASE /\ proc[t] = "online" /\ proc' = [proc EXCEPT ![t] = "stopped"]
             /\ \A u \in Tasks \ {t} : exited'[u] = exited[u]
    BY <2>1, <2>3, <1>f
  <2>4. QED  BY <2>1, <2>2, <2>3
<1>21. CASE ListProcesses
  <2>1. PICK report \in [Known -> [status : {JobOnline, JobStopped}, exit : ExitCodes]] :
          /\ \A t \in Known : report[t] \in Reports(t)
          /\ job' = [h \in Handlers |-> IF h \in Known
                                        THEN [pc |-> "listed", task |-> h, status |-> report[h].status,
                                              exit |-> report[h].exit, old |-> NoRow]
                                        ELSE job[h]]
    BY <1>21 DEF ListProcesses
  <2>2. UNCHANGED <<rows, used, proc, exited, announced, starter>>
    BY <1>21 DEF ListProcesses, table, pm2
  <2>3. ASSUME NEW h \in Handlers, h \in Known PROVE JobConsistent(job[h])'
    <3>1. report[h] \in Reports(h) /\ proc[h] \in {"online", "stopped"}
      BY <2>1, <2>3 DEF Known
    <3>2. /\ report[h].status \in {JobOnline, JobStopped}
          /\ report[h].status = JobStopped => proc[h] # "online"
          /\ report[h].exit # "none" => report[h].status = JobStopped /\ report[h].exit = exited[h]
      <4>1. CASE proc[h] = "online"
        BY <3>1, <4>1 DEF Reports
      <4>2. CASE proc[h] # "online"
        <5>1. report[h] \in [status : {JobStopped}, exit : {"none", exited[h]}]
          BY <3>1, <4>2 DEF Reports
        <5>2. QED  BY <4>2, <5>1
      <4>3. QED  BY <4>1, <4>2
    <3>3. job'[h] = [pc |-> "listed", task |-> h, status |-> report[h].status,
                     exit |-> report[h].exit, old |-> NoRow]
      BY <2>1, <2>3
    <3>4. QED  BY <2>2, <3>1, <3>2, <3>3 DEF JobConsistent, ReportConsistent
  <2>4. \A h \in Handlers : job'[h] = job[h] \/ JobConsistent(job[h])'
    BY <2>1, <2>3
  <2>5. QED  BY <2>2, <2>4, <1>a, <1>b, <1>c, <1>d
<1>22. CASE FindRunning
  <2>1. UNCHANGED <<rows, used, proc, exited, announced, starter>>
    BY <1>22 DEF FindRunning, table, pm2
  <2>2. ASSUME NEW h \in Handlers PROVE job'[h] = job[h] \/ JobConsistent(job[h])'
    <3>1. \/ job'[h] = job[h]
          \/ job'[h] = IdleJob
          \/ job[h].pc = "listed" /\ job'[h] = [job[h] EXCEPT !.pc = "find"]
      BY <1>22 DEF FindRunning
    <3>2. CASE job[h].pc = "listed" /\ job'[h] = [job[h] EXCEPT !.pc = "find"]
      <4>1. job[h] \in BusyJob /\ JobConsistent(job[h])
        BY <3>2, BusyJobs
      <4>2. /\ job'[h].pc = "find" /\ job'[h].task = job[h].task
            /\ job'[h].status = job[h].status /\ job'[h].exit = job[h].exit
        BY <3>2, <4>1 DEF BusyJob
      <4>3. QED  BY <2>1, <3>2, <4>1, <4>2 DEF JobConsistent, ReportConsistent
    <3>3. QED  BY <3>1, <3>2, <1>e
  <2>3. QED  BY <2>1, <2>2, <1>a, <1>b, <1>c, <1>d
<1>23. CASE SweepZombies
  BY <1>23, <1>a, <1>b, <1>c, <1>d DEF SweepZombies, table, pm2
<1>24. CASE NotifyTaskLoad
  BY <1>24, <1>a, <1>b, <1>c, <1>d DEF NotifyTaskLoad, table, pm2
<1>25. ASSUME NEW code \in RemoveCodes, RemoveWithCompletionCode(code) PROVE Consistent'
  <2>1. /\ rows' = [t \in Tasks |-> IF rows[t].compl = code THEN NoRow ELSE rows[t]]
        /\ UNCHANGED <<used, proc, exited, announced, starter, job>>
    BY <1>25 DEF RemoveWithCompletionCode, pm2
  <2>2. \A t \in Tasks : rows'[t] = NoRow \/ rows'[t] = rows[t]
    BY <2>1
  <2>3. ~Stored(NoRow) /\ ~Stamped(NoRow) /\ NoRow.exec = Undefined /\ NoRow.compl = Unknown
    BY DEF NoRow, Stored, Stamped
  <2>4. Keeps
    BY <2>1, <2>2, <2>3 DEF Keeps, Settled
  <2>5. Table'
    BY <2>1, <2>2, <2>3 DEF RowConsistent
  <2>6. Processes'
    BY <2>1, <2>2, <2>3 DEF ProcessConsistent
  <2>7. StarterConsistent'
    BY <2>1, <2>2, <2>3 DEF StarterConsistent, TypeOK
  <2>8. QED  BY <2>1, <2>4, <2>5, <2>6, <2>7, <1>c
<1>26. ASSUME NEW t \in Tasks, ProcessExits(t) PROVE Consistent'
  BY <1>26, <1>f DEF ProcessExits, table, TypeOK
<1>27. ASSUME NEW t \in Tasks, FifteenMinutesPass(t) PROVE Consistent'
  BY <1>27, <1>a, <1>b, <1>c, <1>d DEF FifteenMinutesPass, table, pm2
<1>28. CASE Pm2Killed
  <2>1. /\ UNCHANGED <<rows, used, exited, announced, starter, job>>
        /\ \A t \in Tasks : proc'[t] = proc[t] \/ (proc[t] \in {"online", "stopped"} /\ proc'[t] = "lost")
    <3>1. /\ proc' = [t \in Tasks |-> IF t \in Known THEN "lost" ELSE proc[t]]
          /\ \A t \in Known : proc[t] \in {"online", "stopped"}
      BY <1>28 DEF Pm2Killed, Known
    <3>2. UNCHANGED <<rows, used, exited, announced, starter, job>>
      BY <1>28 DEF Pm2Killed, table
    <3>3. \A t \in Tasks : proc'[t] = IF t \in Known THEN "lost" ELSE proc[t]
      BY <3>1
    <3>4. QED  BY <3>1, <3>2, <3>3
  <2>2. Keeps
    BY <2>1 DEF Keeps, Settled
  <2>3. Table' /\ Processes'
    BY <2>1 DEF RowConsistent, ProcessConsistent
  <2>4. StarterConsistent'
    BY <2>1 DEF StarterConsistent, TypeOK
  <2>5. QED  BY <2>1, <2>2, <2>3, <2>4, <1>c
<1>29. CASE Crash
  <2>1. /\ UNCHANGED <<rows, used, proc, exited, announced>>
        /\ starter' = IdleStarter /\ job' = [h \in Handlers |-> IdleJob]
    BY <1>29 DEF Crash, table, pm2
  <2>2. StarterConsistent'
    BY <2>1 DEF StarterConsistent, IdleStarter
  <2>3. Jobs'
    BY <2>1, <1>e
  <2>4. QED  BY <2>1, <2>2, <2>3, <1>a
<1>30. CASE UNCHANGED vars
  BY <1>30, <1>a, <1>b, <1>c, <1>d DEF vars
<1>31. QED
  BY <1>1, <1>2, <1>3, <1>4, <1>5, <1>6, <1>7, <1>8, <1>9, <1>10, <1>11, <1>12, <1>13, <1>14,
     <1>15, <1>16, <1>17, <1>18, <1>19, <1>20, <1>21, <1>22, <1>23, <1>24, <1>25, <1>26, <1>27,
     <1>28, <1>29, <1>30 DEF Next

-----------------------------------------------------------------------------
(* Theorems *)

(* In every reachable state the table, PM2's entries, the messages and the  *)
(* copies in flight agree.                                                  *)
THEOREM AlwaysConsistent == Spec => []Consistent
BY TypeCorrect, InitConsistent, NextConsistent, PTL DEF Spec

(* A task that runs has not completed, whatever the writers of its row do.  *)
THEOREM RunningIsNotCompleted == Spec => []RunningNotCompleted
<1>1. Consistent => RunningNotCompleted
  BY DEF Consistent, RowConsistent, RunningNotCompleted
<1>2. QED  BY <1>1, AlwaysConsistent, PTL

(* Success is recorded and announced only for an expected exit code.        *)
THEOREM SuccessIsAlwaysEarned == Spec => []SuccessIsEarned
<1>1. Consistent => SuccessIsEarned
  BY DEF Consistent, RowConsistent, ProcessConsistent, SuccessIsEarned
<1>2. QED  BY <1>1, AlwaysConsistent, PTL

(* PM2's entry of a task goes only after the completion is in the table.    *)
THEOREM RemovedAfterCompletion == Spec => []RemovedOnlyAfterCompletionSaved
<1>1. Consistent => RemovedOnlyAfterCompletionSaved
  BY DEF Consistent, ProcessConsistent, RemovedOnlyAfterCompletionSaved
<1>2. QED  BY <1>1, AlwaysConsistent, PTL

(* A completion is announced before it is saved.                            *)
THEOREM AlwaysAnnouncedFirst == Spec => []AnnouncedFirst
<1>1. Consistent => AnnouncedFirst
  BY DEF Consistent, RowConsistent, AnnouncedFirst
<1>2. QED  BY <1>1, AlwaysConsistent, PTL

(* Before the first fault a completed task has no live process.             *)
THEOREM CompletedHasStopped == Spec => []CompletedMeansStopped
<1>1. Consistent => CompletedMeansStopped
  BY DEF Consistent, RowConsistent, ProcessConsistent, CompletedMeansStopped
<1>2. QED  BY <1>1, AlwaysConsistent, PTL

-----------------------------------------------------------------------------
(* The stamp is permanent *)

(* No action takes the stamp off a row, other than by removing the row.     *)
LEMMA NextStamps ==
  TypeOK /\ Consistent /\ [Next]_vars
    => \A t \in Tasks : Stamped(rows[t]) => Stamped(rows'[t]) \/ ~Stored(rows'[t])
<1> SUFFICES ASSUME TypeOK, Consistent, [Next]_vars, NEW u \in Tasks, Stamped(rows[u])
             PROVE  Stamped(rows'[u]) \/ ~Stored(rows'[u])
  OBVIOUS
<1> DEFINE Kept == Stamped(rows'[u]) \/ ~Stored(rows'[u])
<1> HIDE DEF Kept
<1>1. rows[u] \in Row /\ RowConsistent(u)
  BY DEF TypeOK, Consistent
<1>2. ASSUME NEW t \in Tasks, Admit(t) PROVE Kept
  <2>1. u # t
    BY <1>1, <1>2 DEF Admit, RowConsistent, NoRow, Stamped
  <2>2. QED  BY <1>2, <2>1 DEF Admit, TypeOK, Kept
<1>3. CASE SaveRunning
  BY <1>1, <1>3, SavedRunning DEF SaveRunning, TypeOK, Stamped, Kept
<1>4. CASE SaveError
  BY <1>1, <1>4, SavedError DEF SaveError, TypeOK, Stamped, Kept
<1>5. ASSUME NEW h \in Handlers, SaveUpdate(h) PROVE Kept
  <2>1. /\ job[h] \in BusyJob /\ job[h].pc = "save" /\ JobConsistent(job[h])
    BY <1>5, BusyJobs DEF SaveUpdate, Consistent
  <2>2. rows' = [rows EXCEPT ![job[h].task] = Save(rows[job[h].task], job[h].old, Updated(job[h]))]
    BY <1>5 DEF SaveUpdate
  <2>3. CASE u = job[h].task
    <3>1. Stamped(Save(rows[u], job[h].old, Updated(job[h])))
      BY <1>1, <2>1, <2>3, SavedUpdate DEF RowConsistent, JobConsistent, CopyConsistent
    <3>2. QED  BY <2>2, <2>3, <3>1 DEF TypeOK, Kept
  <2>4. CASE u # job[h].task
    BY <2>2, <2>4 DEF TypeOK, Kept
  <2>5. QED  BY <2>3, <2>4
<1>6. ASSUME NEW t \in Tasks, NEW w \in Stoppers, SaveStop(t, w) PROVE Kept
  <2>1. stop[t][w].old \in Row
    BY DEF TypeOK
  <2>2. QED  BY <1>1, <1>6, <2>1, SavedCancel DEF SaveStop, TypeOK, Stamped, Kept
<1>7. ASSUME NEW code \in RemoveCodes, RemoveWithCompletionCode(code) PROVE Kept
  BY <1>7 DEF RemoveWithCompletionCode, Stored, NoRow, Kept
<1>8. CASE UNCHANGED rows
  BY <1>8 DEF Kept
<1>9. QED
  BY <1>2, <1>3, <1>4, <1>5, <1>6, <1>7, <1>8
  DEF Next, Kept, vars, table, AdmitFails, Launch, RecordJob, StartFails, SaveErrorFails, Respond,
      BusEvent, FindTask, ApplyUpdate, RemoveProcess, HandlerFails, UserStop, UpdateZombie,
      StopFails, SignalStop, ListProcesses, FindRunning, SweepZombies, NotifyTaskLoad,
      ProcessExits, FifteenMinutesPass, Pm2Killed, Crash

(* Once stamped, a row stays stamped until it is removed.                   *)
THEOREM CompletionIsAlwaysPermanent == Spec => CompletionIsPermanent
<1>1. TypeOK /\ Consistent /\ [Next]_vars
        => [\A t \in Tasks : Stamped(rows[t]) => Stamped(rows'[t]) \/ ~Stored(rows'[t])]_rows
  BY NextStamps
<1>2. QED  BY <1>1, TypeCorrect, AlwaysConsistent, PTL DEF Spec, CompletionIsPermanent

-----------------------------------------------------------------------------
(* The table's rows live as TaskLifecycle says *)

LEMMA StatusLives ==
  /\ StatusLife(Initializing) = "created"
  /\ StatusLife(Running) = "running"
  /\ StatusLife(Zombie) = "zombie"
  /\ StatusLife(Completed) = "completed"
<1>1. StatusLife(Initializing) = "created"  BY DEF StatusLife
<1>2. StatusLife(Running) = "running"       BY DEF StatusLife
<1>3. StatusLife(Zombie) = "zombie"         BY DEF StatusLife
<1>4. StatusLife(Completed) = "completed"   BY DEF StatusLife
<1>5. QED  BY <1>1, <1>2, <1>3, <1>4

LEMMA InitLife == Init => Lifecycle!Init
BY DEF Init, Lifecycle!Init, lives, stampedTasks, pendingStart, Life, NoRow, Stamped, IdleStarter

(* Life depends on the row only through these. *)
LEMMA LifeFacts ==
  ASSUME TypeOK, Consistent, NEW t \in Tasks
  PROVE  /\ lives[t] = Life(t)
         /\ Life(t) = "none" <=> t \notin used
         /\ Life(t) = "removed" <=> t \in used /\ ~Stored(rows[t])
         /\ t \in stampedTasks <=> Stamped(rows[t])
BY StatusLives DEF lives, stampedTasks, Life, TypeOK, Row, Stored, Consistent, RowConsistent

(* Every action is a step of TaskLifecycle or leaves its state alone. *)
LEMMA NextLife ==
  TypeOK /\ Consistent /\ [Next]_vars => [Lifecycle!Next]_(Lifecycle!vars)
<1> SUFFICES ASSUME TypeOK, Consistent, [Next]_vars PROVE [Lifecycle!Next]_(Lifecycle!vars)
  OBVIOUS
<1> DEFINE Step == [Lifecycle!Next]_(Lifecycle!vars)
<1> HIDE DEF Step
<1>a. ASSUME UNCHANGED lives, UNCHANGED stampedTasks,
             UNCHANGED pendingStart \/ pendingStart' = {}
      PROVE  Step
  BY <1>a DEF Step, Lifecycle!Next, Lifecycle!Abandon, Lifecycle!vars
<1>b. ASSUME UNCHANGED table PROVE UNCHANGED lives /\ UNCHANGED stampedTasks
  BY <1>b DEF table, lives, Life, stampedTasks
(* a row is completed, if it is there *)
<1>f. ASSUME NEW t \in Tasks, t \in used, t \notin pendingStart,
             ~Stored(rows[t]) => rows'[t] = rows[t],
             Stored(rows[t]) => rows'[t].exec = Completed /\ Stamped(rows'[t]),
             \A u \in Tasks \ {t} : rows'[u] = rows[u],
             UNCHANGED used, UNCHANGED pendingStart
      PROVE  Step
  <2>1. CASE ~Stored(rows[t])
    <3>1. \A u \in Tasks : rows'[u] = rows[u]
      BY <1>f, <2>1
    <3>2. UNCHANGED lives /\ UNCHANGED stampedTasks
      BY <1>f, <3>1 DEF lives, Life, stampedTasks
    <3>3. QED  BY <1>f, <3>2, <1>a
  <2>2. CASE Stored(rows[t])
    <3>1. lives[t] \notin {"none", "removed"}
      BY <1>f, <2>2, LifeFacts
    <3>2. lives' = [lives EXCEPT ![t] = "completed"]
      <4>1. Life(t)' = "completed"
        BY <1>f, <2>2, StatusLives DEF Life, Stored
      <4>2. \A u \in Tasks \ {t} : Life(u)' = Life(u)
        BY <1>f DEF Life
      <4>3. QED  BY <4>1, <4>2 DEF lives
    <3>3. stampedTasks' = stampedTasks \cup {t}
      BY <1>f, <2>2 DEF stampedTasks
    <3>4. QED  BY <1>f, <3>1, <3>2, <3>3 DEF Step, Lifecycle!Next, Lifecycle!Finish
  <2>3. QED  BY <2>1, <2>2
<1>1. ASSUME NEW t \in Tasks, Admit(t) PROVE Step
  <2>1. /\ starter.pc = "idle" /\ t \notin used /\ rows[t] = NoRow
        /\ rows' = [rows EXCEPT ![t] = InitialRow] /\ used' = used \cup {t}
        /\ starter' = [pc |-> "created", task |-> t]
    BY <1>1 DEF Admit, Consistent, RowConsistent
  <2>2. pendingStart = {} /\ pendingStart' = {t}
    BY <2>1 DEF pendingStart
  <2>3. lives[t] = "none" /\ lives' = [lives EXCEPT ![t] = "created"]
    <3>1. rows'[t] = InitialRow /\ Stored(InitialRow) /\ InitialRow.exec = Initializing
      BY <2>1 DEF TypeOK, InitialRow, Stored
    <3>2. Life(t) = "none" /\ Life(t)' = "created"
      BY <2>1, <3>1, StatusLives DEF Life
    <3>3. \A u \in Tasks \ {t} : Life(u)' = Life(u)
      BY <2>1 DEF Life, TypeOK
    <3>4. QED  BY <3>2, <3>3 DEF lives
  <2>4. UNCHANGED stampedTasks
    BY <2>1 DEF stampedTasks, Stamped, InitialRow, NoRow, TypeOK
  <2>5. QED  BY <2>2, <2>3, <2>4 DEF Step, Lifecycle!Next, Lifecycle!Create
<1>2. ASSUME SaveRunning PROVE Step
  <2>1. PICK t \in Tasks :
        /\ starter.pc = "created" /\ starter.task = t /\ t \in used /\ ~Stamped(rows[t])
        /\ rows' = [rows EXCEPT ![t] = Save(rows[t], InitialRow, MarkRunning(InitialRow))]
        /\ starter' = [starter EXCEPT !.pc = "launching"] /\ used' = used
    BY <1>2 DEF SaveRunning, StarterMoves, Consistent, StarterConsistent, TypeOK
  <2>2. t \in pendingStart /\ pendingStart' = {}
    BY <2>1 DEF pendingStart, TypeOK
  <2>3. /\ ~Stored(rows[t]) => rows'[t] = rows[t]
        /\ Stored(rows[t]) => rows'[t].exec = Running
        /\ rows'[t].completed_at = rows[t].completed_at
        /\ \A u \in Tasks \ {t} : rows'[u] = rows[u]
    BY <2>1, SavedRunning DEF TypeOK
  <2>4. t \notin stampedTasks /\ UNCHANGED stampedTasks
    BY <2>1, <2>3 DEF stampedTasks, Stamped
  <2>5. lives' = [lives EXCEPT ![t] = IF @ = "removed" THEN @ ELSE "running"]
    <3>1. Life(t)' = IF lives[t] = "removed" THEN lives[t] ELSE "running"
      <4>1. CASE ~Stored(rows[t])
        BY <2>1, <2>3, <4>1 DEF Life, lives
      <4>2. CASE Stored(rows[t])
        BY <2>1, <2>3, <4>2, LifeFacts, StatusLives DEF Life, Stored
      <4>3. QED  BY <4>1, <4>2
    <3>2. \A u \in Tasks \ {t} : Life(u)' = Life(u)
      BY <2>1, <2>3 DEF Life
    <3>3. QED  BY <3>1, <3>2 DEF lives
  <2>6. QED  BY <2>2, <2>4, <2>5 DEF Step, Lifecycle!Next, Lifecycle!Start
<1>3. ASSUME SaveError PROVE Step
  <2>1. PICK t \in Tasks :
        /\ starter.pc = "failing" /\ starter.task = t /\ t \in used
        /\ rows' = [rows EXCEPT ![t] = Save(rows[t], InitialRow, MarkError(InitialRow))]
        /\ starter' = [starter EXCEPT !.pc = "responding"] /\ used' = used
    BY <1>3 DEF SaveError, StarterMoves, Consistent, StarterConsistent, TypeOK
  <2>2. pendingStart = {} /\ pendingStart' = {}
    BY <2>1 DEF pendingStart, TypeOK
  <2>3. /\ ~Stored(rows[t]) => rows'[t] = rows[t]
        /\ Stored(rows[t]) => rows'[t].exec = Completed /\ Stamped(rows'[t])
        /\ \A u \in Tasks \ {t} : rows'[u] = rows[u]
    BY <2>1, SavedError DEF TypeOK
  <2>4. t \in used /\ t \notin pendingStart /\ UNCHANGED used /\ UNCHANGED pendingStart
    BY <2>1, <2>2
  <2>5. QED  BY <2>3, <2>4, <1>f
<1>4. ASSUME NEW h \in Handlers, SaveUpdate(h) PROVE Step
  <2>1. /\ job[h] \in BusyJob /\ job[h].pc = "save" /\ JobConsistent(job[h])
        /\ used' = used /\ starter' = starter
    BY <1>4, BusyJobs DEF SaveUpdate, Consistent
  <2>2. PICK t \in Tasks : job[h].task = t
    BY <2>1 DEF BusyJob
  <2>3. t \in used /\ t \notin pendingStart /\ UNCHANGED used /\ UNCHANGED pendingStart
    BY <2>1, <2>2 DEF JobConsistent, ReportConsistent, Consistent, ProcessConsistent,
                      StarterConsistent, pendingStart
  <2>4. /\ rows'[t] = Save(rows[t], job[h].old, Updated(job[h]))
        /\ \A u \in Tasks \ {t} : rows'[u] = rows[u]
    BY <1>4, <2>2 DEF SaveUpdate, TypeOK
  <2>5. /\ rows[t] \in Row /\ job[h].old \in Row /\ Updated(job[h]) \in Row
        /\ job[h].status \in JobStatuses /\ job[h].exit \in ExitCodes
        /\ job[h].old.exec = Completed => Stamped(job[h].old)
    BY <2>1, BusyJobs DEF TypeOK, BusyJob, JobConsistent, CopyConsistent
  <2>6. /\ ~Stored(rows[t]) => rows'[t] = rows[t]
        /\ Stored(rows[t]) =>
             /\ rows'[t].exec = IF Updated(job[h]).exec = job[h].old.exec THEN rows[t].exec
                                ELSE Updated(job[h]).exec
             /\ rows'[t].completed_at =
                  IF Updated(job[h]).completed_at = job[h].old.completed_at THEN rows[t].completed_at
                  ELSE Updated(job[h]).completed_at
    BY <2>4, <2>5, SaveFacts
  <2>7. CASE job[h].status >= JobStopped /\ ~Stamped(job[h].old)
    <3>1. Updated(job[h]).exec = Completed /\ Stamped(Updated(job[h])) /\ job[h].old.exec # Completed
      BY <2>5, <2>7, UpdateFacts DEF Updated
    <3>2. Stored(rows[t]) => rows'[t].exec = Completed /\ Stamped(rows'[t])
      BY <2>6, <2>7, <3>1 DEF Stamped
    <3>3. QED  BY <2>3, <2>4, <2>6, <3>2, <1>f
  <2>8. CASE ~(job[h].status >= JobStopped /\ ~Stamped(job[h].old))
    <3>1. /\ Updated(job[h]).exec = job[h].old.exec
          /\ Updated(job[h]).completed_at = job[h].old.completed_at
      BY <2>5, <2>8, UpdateFacts DEF Updated, JobStatuses, Stamped, Row
    <3>2. \A u \in Tasks : Life(u)' = Life(u) /\ Stamped(rows'[u]) = Stamped(rows[u])
      <4>1. Life(t)' = Life(t) /\ Stamped(rows'[t]) = Stamped(rows[t])
        BY <2>3, <2>6, <3>1 DEF Life, Stored, Stamped
      <4>2. QED  BY <2>3, <2>4, <4>1 DEF Life
    <3>3. UNCHANGED lives /\ UNCHANGED stampedTasks
      BY <3>2 DEF lives, stampedTasks
    <3>4. QED  BY <2>3, <3>3, <1>a
  <2>9. QED  BY <2>7, <2>8
<1>5. ASSUME NEW t \in Tasks, NEW w \in Stoppers, SaveStop(t, w) PROVE Step
  <2>1. /\ rows[t] \in Row /\ stop[t][w].old \in Row
        /\ rows'[t] = Save(rows[t], stop[t][w].old, MarkCancelled(stop[t][w].old))
        /\ \A u \in Tasks \ {t} : rows'[u] = rows[u]
        /\ UNCHANGED used /\ UNCHANGED pendingStart
    BY <1>5 DEF SaveStop, TypeOK, pendingStart
  <2>2. /\ ~Stored(rows[t]) => rows'[t] = rows[t]
        /\ Stored(rows[t]) => rows'[t].exec \in {Zombie, rows[t].exec}
        /\ rows'[t].completed_at = rows[t].completed_at
    BY <2>1, SavedCancel
  <2>3. UNCHANGED stampedTasks
    BY <2>1, <2>2 DEF stampedTasks, Stamped
  <2>4. \A u \in Tasks \ {t} : Life(u)' = Life(u)
    BY <2>1 DEF Life
  <2>5. CASE Stored(rows[t]) /\ rows'[t].exec = Zombie
    <3>1. t \in used /\ lives[t] \notin {"none", "removed"}
      BY <2>5, LifeFacts DEF Consistent, RowConsistent
    <3>2. Life(t)' = "zombie"
      BY <2>1, <2>5, <3>1, StatusLives DEF Life, Stored
    <3>3. lives' = [lives EXCEPT ![t] = "zombie"]
      BY <2>4, <3>2 DEF lives
    <3>4. QED  BY <2>1, <2>3, <3>1, <3>3 DEF Step, Lifecycle!Next, Lifecycle!Lose
  <2>6. CASE ~(Stored(rows[t]) /\ rows'[t].exec = Zombie)
    <3>1. Life(t)' = Life(t)
      BY <2>1, <2>2, <2>6 DEF Life, Stored
    <3>2. UNCHANGED lives
      BY <2>4, <3>1 DEF lives
    <3>3. QED  BY <2>1, <2>3, <3>2, <1>a
  <2>7. QED  BY <2>5, <2>6
<1>6. ASSUME NEW code \in RemoveCodes, RemoveWithCompletionCode(code) PROVE Step
  <2> DEFINE gone == {t \in Tasks : Stored(rows[t]) /\ rows[t].compl = code}
  <2>1. /\ rows' = [t \in Tasks |-> IF rows[t].compl = code THEN NoRow ELSE rows[t]]
        /\ UNCHANGED used /\ UNCHANGED pendingStart
    BY <1>6 DEF RemoveWithCompletionCode, pendingStart
  <2>2. \A t \in Tasks : rows'[t] = IF t \in gone THEN NoRow ELSE rows[t]
    BY <2>1 DEF Consistent, RowConsistent
  <2>3. \A t \in gone : t \in used /\ lives[t] # "none"
    BY LifeFacts DEF Consistent, RowConsistent
  <2> HIDE DEF gone
  <2>4. gone \in SUBSET Tasks
    BY DEF gone
  <2>5. ~Stored(NoRow) /\ ~Stamped(NoRow)
    BY DEF NoRow, Stored, Stamped
  <2>6. lives' = [t \in Tasks |-> IF t \in gone THEN "removed" ELSE lives[t]]
    <3>1. \A t \in Tasks : Life(t)' = IF t \in gone THEN "removed" ELSE Life(t)
      BY <2>1, <2>2, <2>3, <2>5 DEF Life
    <3>2. QED  BY <3>1 DEF lives
  <2>7. stampedTasks' = stampedTasks \ gone
    BY <2>2, <2>5 DEF stampedTasks
  <2>8. QED  BY <2>1, <2>3, <2>4, <2>6, <2>7 DEF Step, Lifecycle!Next, Lifecycle!Remove
<1>7. ASSUME UNCHANGED table, starter'.pc # "created" \/ UNCHANGED starter PROVE Step
  <2>1. UNCHANGED pendingStart \/ pendingStart' = {}
    BY <1>7 DEF pendingStart
  <2>2. QED  BY <1>7, <2>1, <1>a, <1>b
<1>8. ASSUME UNCHANGED table, NEW p \in StarterStates \ {"created"},
             starter' = [starter EXCEPT !.pc = p]
      PROVE  Step
  BY <1>7, <1>8 DEF TypeOK
<1>9. ASSUME AdmitFails \/ Launch \/ RecordJob \/ StartFails \/ SaveErrorFails \/ Respond \/ Crash
      PROVE  Step
  <2>1. UNCHANGED table
    BY <1>9 DEF AdmitFails, Launch, RecordJob, StartFails, SaveErrorFails, Respond, Crash, table
  <2>2. CASE AdmitFails \/ Crash
    <3>1. starter'.pc # "created"
      BY <2>2 DEF AdmitFails, Crash, IdleStarter
    <3>2. QED  BY <2>1, <3>1, <1>7
  <2>3. CASE Launch \/ RecordJob \/ StartFails \/ SaveErrorFails
    <3>1. \E p \in StarterStates \ {"created"} : starter' = [starter EXCEPT !.pc = p]
      BY <2>3 DEF Launch, RecordJob, StartFails, SaveErrorFails, StarterMoves, StarterStates
    <3>2. QED  BY <2>1, <3>1, <1>8
  <2>4. CASE Respond
    <3>1. starter'.pc # "created"
      BY <2>4 DEF Respond, IdleStarter, TypeOK
    <3>2. QED  BY <2>1, <3>1, <1>7
  <2>5. QED  BY <1>9, <2>2, <2>3, <2>4
<1>10. QED
  BY <1>1, <1>2, <1>3, <1>4, <1>5, <1>6, <1>7, <1>9
  DEF Step, Next, vars, table, BusEvent, FindTask, ApplyUpdate, RemoveProcess, HandlerFails,
      UserStop, UpdateZombie, StopFails, SignalStop, ListProcesses, FindRunning, SweepZombies,
      NotifyTaskLoad, ProcessExits, FifteenMinutesPass, Pm2Killed

(* The table implements TaskLifecycle.                                      *)
THEOREM LifecycleIsImplemented == Spec => ImplementsLifecycle
BY InitLife, NextLife, TypeCorrect, AlwaysConsistent, PTL DEF Spec, ImplementsLifecycle, Lifecycle!Spec

-----------------------------------------------------------------------------
(* What a step does to one task's row, to its process, to one handler and   *)
(* to the starter: the properties below are about one of them at a time.    *)

LEMMA RowSteps ==
  ASSUME TypeOK, [Next]_vars, NEW t \in Tasks
  PROVE  \/ rows'[t] = rows[t] /\ (t \in used' <=> t \in used)
         \/ Admit(t)
         \/ SaveRunning /\ starter.task = t
         \/ SaveError /\ starter.task = t
         \/ \E h \in Handlers : SaveUpdate(h) /\ job[h].task = t
         \/ \E w \in Stoppers : SaveStop(t, w)
         \/ \E code \in RemoveCodes : RemoveWithCompletionCode(code) /\ rows[t].compl = code
<1> DEFINE Same == rows'[t] = rows[t] /\ (t \in used' <=> t \in used)
<1>1. ASSUME NEW u \in Tasks, Admit(u), u # t PROVE Same
  BY <1>1 DEF Admit, TypeOK
<1>2. ASSUME SaveRunning \/ SaveError, starter.task # t PROVE Same
  BY <1>2 DEF SaveRunning, SaveError, TypeOK
<1>3. ASSUME NEW h \in Handlers, SaveUpdate(h), job[h].task # t PROVE Same
  BY <1>3 DEF SaveUpdate, TypeOK
<1>4. ASSUME NEW u \in Tasks, NEW w \in Stoppers, SaveStop(u, w), u # t PROVE Same
  BY <1>4 DEF SaveStop, TypeOK
<1>5. ASSUME NEW code \in RemoveCodes, RemoveWithCompletionCode(code), rows[t].compl # code PROVE Same
  BY <1>5 DEF RemoveWithCompletionCode
<1>6. CASE UNCHANGED table
  BY <1>6 DEF table
<1> HIDE DEF Same
<1>7. QED
  BY <1>1, <1>2, <1>3, <1>4, <1>5, <1>6
  DEF Same, Next, vars, table, AdmitFails, Launch, RecordJob, StartFails, SaveErrorFails, Respond,
      BusEvent, FindTask, ApplyUpdate, RemoveProcess, HandlerFails, UserStop, UpdateZombie,
      StopFails, SignalStop, ListProcesses, FindRunning, SweepZombies, NotifyTaskLoad,
      ProcessExits, FifteenMinutesPass, Pm2Killed, Crash

(* A process goes online when it is launched, then stops, and then is       *)
(* deleted or lost; its exit code is set when it stops.                     *)
LEMMA ProcessSteps ==
  ASSUME TypeOK, [Next]_vars, NEW t \in Tasks
  PROVE  \/ proc'[t] = proc[t] /\ exited'[t] = exited[t]
         \/ Launch /\ starter.task = t /\ proc'[t] = "online" /\ exited'[t] = exited[t]
         \/ /\ proc[t] = "online" /\ proc'[t] = "stopped"
            /\ (\E w \in Stoppers : SignalStop(t, w)) \/ ProcessExits(t)
         \/ /\ proc[t] = "stopped" /\ proc'[t] = "removed" /\ exited'[t] = exited[t]
            /\ \E h \in Handlers : RemoveProcess(h) /\ job[h].task = t
         \/ Pm2Killed /\ proc[t] \in {"online", "stopped"} /\ proc'[t] = "lost" /\ exited'[t] = exited[t]
<1> DEFINE Same == proc'[t] = proc[t] /\ exited'[t] = exited[t]
<1>1. CASE Launch
  <2>1. /\ proc' = [proc EXCEPT ![starter.task] = "online"] /\ exited' = exited
    BY <1>1 DEF Launch
  <2>2. CASE starter.task = t
    BY <1>1, <2>1, <2>2 DEF TypeOK
  <2>3. CASE starter.task # t
    BY <2>1, <2>3 DEF TypeOK
  <2>4. QED  BY <2>2, <2>3
<1>2. ASSUME NEW h \in Handlers, RemoveProcess(h)
      PROVE  Same \/ (job[h].task = t /\ proc[t] = "stopped" /\ proc'[t] = "removed" /\ exited'[t] = exited[t])
  <2> DEFINE u == job[h].task
  <2>1. /\ proc' = IF proc[u] = "stopped" THEN [proc EXCEPT ![u] = "removed"] ELSE proc
        /\ exited' = exited
    BY <1>2 DEF RemoveProcess
  <2> HIDE DEF u
  <2>2. CASE proc[u] = "stopped" /\ u = t
    BY <2>1, <2>2 DEF TypeOK, u
  <2>3. CASE proc[u] = "stopped" /\ u # t
    BY <2>1, <2>3 DEF TypeOK
  <2>4. CASE proc[u] # "stopped"
    BY <2>1, <2>4
  <2>5. QED  BY <2>2, <2>3, <2>4
<1>3. ASSUME NEW u \in Tasks, NEW w \in Stoppers, SignalStop(u, w)
      PROVE  Same \/ (u = t /\ proc[t] = "online" /\ proc'[t] = "stopped")
  <2>1. CASE proc[u] # "online"
    BY <1>3, <2>1 DEF SignalStop, pm2
  <2>2. CASE proc[u] = "online"
    <3>1. PICK e \in {"expected", "unexpected"} :
            proc' = [proc EXCEPT ![u] = "stopped"] /\ exited' = [exited EXCEPT ![u] = e]
      BY <1>3, <2>2 DEF SignalStop
    <3>2. QED  BY <2>2, <3>1 DEF TypeOK
  <2>3. QED  BY <2>1, <2>2
<1>4. ASSUME NEW u \in Tasks, ProcessExits(u)
      PROVE  Same \/ (u = t /\ proc[t] = "online" /\ proc'[t] = "stopped")
  <2>1. PICK e \in {"expected", "unexpected"} :
          /\ proc' = [proc EXCEPT ![u] = "stopped"] /\ exited' = [exited EXCEPT ![u] = e]
          /\ proc[u] = "online"
    BY <1>4 DEF ProcessExits
  <2>2. QED  BY <2>1 DEF TypeOK
<1>5. CASE Pm2Killed
  <2>1. proc' = [u \in Tasks |-> IF u \in Known THEN "lost" ELSE proc[u]] /\ exited' = exited
    BY <1>5 DEF Pm2Killed
  <2>2. proc'[t] = IF t \in Known THEN "lost" ELSE proc[t]
    BY <2>1
  <2>3. QED  BY <1>5, <2>1, <2>2 DEF Known
<1>6. CASE UNCHANGED pm2
  BY <1>6 DEF pm2
<1> HIDE DEF Same
<1>7. QED
  BY <1>1, <1>2, <1>3, <1>4, <1>5, <1>6
  DEF Same, Next, vars, pm2, Admit, AdmitFails, SaveRunning, RecordJob, StartFails, SaveError,
      SaveErrorFails, Respond, BusEvent, FindTask, ApplyUpdate, SaveUpdate, HandlerFails, UserStop,
      UpdateZombie, SaveStop, StopFails, ListProcesses, FindRunning, SweepZombies, NotifyTaskLoad,
      RemoveWithCompletionCode, FifteenMinutesPass, Crash

(* A handler takes a report of a task that PM2 knows, or goes on with what  *)
(* it has, or ends.                                                         *)
LEMMA HandlerSteps ==
  ASSUME TypeOK, [Next]_vars, NEW h \in Handlers
  PROVE  \/ job'[h] = job[h]
         \/ /\ job'[h] = IdleJob
            /\ SaveUpdate(h) \/ job[h].pc \in {"find", "listed", "delete"} \/ HandlerFails(h) \/ Crash
         \/ \E t \in Tasks :
              /\ proc[t] \in {"online", "stopped", "removed"} /\ job'[h].task = t
              /\ (\E b \in BusSlots : BusEvent(b, t)) \/ ListProcesses
              /\ job'[h].pc \in {"find", "listed"} /\ job[h].pc = "idle"
         \/ FindTask(h) /\ job'[h] = [job[h] EXCEPT !.pc = "apply", !.old = rows[job[h].task]]
         \/ ApplyUpdate(h) /\ job'[h] = [job[h] EXCEPT !.pc = "save"]
         \/ SaveUpdate(h) /\ job'[h] = [job[h] EXCEPT !.pc = "delete"]
         \/ FindRunning /\ job[h].pc = "listed" /\ job'[h] = [job[h] EXCEPT !.pc = "find"]
<1> DEFINE Same == job'[h] = job[h]
           Ends == /\ job'[h] = IdleJob
                   /\ \/ SaveUpdate(h) \/ job[h].pc \in {"find", "listed", "delete"}
                      \/ HandlerFails(h) \/ Crash
           Takes == \E t \in Tasks :
              /\ proc[t] \in {"online", "stopped", "removed"} /\ job'[h].task = t
              /\ (\E b \in BusSlots : BusEvent(b, t)) \/ ListProcesses
              /\ job'[h].pc \in {"find", "listed"} /\ job[h].pc = "idle"
<1>1. ASSUME NEW b \in BusSlots, NEW t \in Tasks, BusEvent(b, t) PROVE Same \/ Takes
  <2>1. PICK r \in Reports(t) :
          job' = [job EXCEPT ![b] = [pc |-> "find", task |-> t, status |-> r.status,
                                     exit |-> r.exit, old |-> NoRow]]
    BY <1>1 DEF BusEvent
  <2>2. b \in Handlers /\ job[b].pc = "idle" /\ proc[t] \in {"online", "stopped", "removed"}
    BY <1>1 DEF BusEvent, Handlers
  <2>3. CASE h = b
    <3>1. job'[h].task = t /\ job'[h].pc = "find"
      BY <2>1, <2>3 DEF TypeOK
    <3>2. Takes
      BY <1>1, <2>2, <2>3, <3>1
    <3>3. QED  BY <3>2
  <2>4. CASE h # b
    BY <2>1, <2>4 DEF TypeOK
  <2>5. QED  BY <2>3, <2>4
<1>2. ASSUME ListProcesses PROVE Same \/ Takes
  <2>1. PICK report \in [Known -> [status : {JobOnline, JobStopped}, exit : ExitCodes]] :
          job' = [g \in Handlers |-> IF g \in Known
                                     THEN [pc |-> "listed", task |-> g, status |-> report[g].status,
                                           exit |-> report[g].exit, old |-> NoRow]
                                     ELSE job[g]]
    BY <1>2 DEF ListProcesses
  <2>2. CASE h \in Known
    <3>1. job'[h].task = h /\ job'[h].pc = "listed"
      BY <2>1, <2>2
    <3>2. h \in Tasks /\ proc[h] \in {"online", "stopped"} /\ job[h].pc = "idle"
      BY <1>2, <2>2 DEF ListProcesses, Known
    <3>3. Takes
      BY <1>2, <3>1, <3>2
    <3>4. QED  BY <3>3
  <2>3. CASE h \notin Known
    BY <2>1, <2>3
  <2>4. QED  BY <2>2, <2>3
<1>3. ASSUME NEW g \in Handlers, FindTask(g)
      PROVE  \/ Same \/ Ends
             \/ FindTask(h) /\ job'[h] = [job[h] EXCEPT !.pc = "apply", !.old = rows[job[h].task]]
  <2>1. CASE g = h
    BY <1>3, <2>1 DEF FindTask, TypeOK
  <2>2. CASE g # h
    BY <1>3, <2>2 DEF FindTask, TypeOK
  <2>3. QED  BY <2>1, <2>2
<1>4. ASSUME NEW g \in Handlers, ApplyUpdate(g)
      PROVE  Same \/ (ApplyUpdate(h) /\ job'[h] = [job[h] EXCEPT !.pc = "save"])
  <2>1. job' = [job EXCEPT ![g].pc = "save"]
    BY <1>4 DEF ApplyUpdate
  <2>2. QED  BY <1>4, <2>1 DEF TypeOK
<1>5. ASSUME NEW g \in Handlers, SaveUpdate(g)
      PROVE  Same \/ Ends \/ (SaveUpdate(h) /\ job'[h] = [job[h] EXCEPT !.pc = "delete"])
  <2>1. CASE g = h
    BY <1>5, <2>1 DEF SaveUpdate, TypeOK
  <2>2. CASE g # h
    BY <1>5, <2>2 DEF SaveUpdate, TypeOK
  <2>3. QED  BY <2>1, <2>2
<1>6. ASSUME NEW g \in Handlers, RemoveProcess(g) \/ HandlerFails(g) PROVE Same \/ Ends
  <2>1. job' = [job EXCEPT ![g] = IdleJob] /\ (job[g].pc = "delete" \/ HandlerFails(g))
    BY <1>6 DEF RemoveProcess, HandlerFails
  <2>2. QED  BY <2>1 DEF TypeOK
<1>7. CASE FindRunning
  BY <1>7 DEF FindRunning
<1>8. CASE Crash
  BY <1>8 DEF Crash
<1>9. CASE UNCHANGED job
  BY <1>9
<1> HIDE DEF Same, Ends, Takes
<1>10. QED
  BY <1>1, <1>2, <1>3, <1>4, <1>5, <1>6, <1>7, <1>8, <1>9
  DEF Same, Ends, Takes, Next, vars, Admit, AdmitFails, SaveRunning, Launch, RecordJob, StartFails,
      SaveError, SaveErrorFails, Respond, UserStop, UpdateZombie, SaveStop, StopFails, SignalStop,
      SweepZombies, NotifyTaskLoad, RemoveWithCompletionCode, ProcessExits, FifteenMinutesPass,
      Pm2Killed

(* The starter takes up a task, moves on with it, or lets go of it. *)
LEMMA StarterSteps ==
  ASSUME TypeOK, [Next]_vars
  PROVE  \/ starter' = starter
         \/ \E t \in Tasks : Admit(t) /\ starter' = [pc |-> "created", task |-> t]
         \/ SaveRunning /\ starter.pc = "created" /\ starter' = [starter EXCEPT !.pc = "launching"]
         \/ Launch /\ starter.pc = "launching" /\ starter' = [starter EXCEPT !.pc = "recording"]
         \/ RecordJob /\ starter.pc = "recording" /\ starter' = [starter EXCEPT !.pc = "responding"]
         \/ /\ StartFails /\ starter.pc \in {"created", "launching", "recording"}
            /\ starter' = [starter EXCEPT !.pc = "failing"]
         \/ SaveError /\ starter.pc = "failing" /\ starter' = [starter EXCEPT !.pc = "responding"]
         \/ SaveErrorFails /\ starter.pc = "failing" /\ starter' = [starter EXCEPT !.pc = "wedged"]
         \/ /\ Respond /\ starter.pc = "responding" /\ ~Stored(rows[starter.task])
            /\ starter' = [starter EXCEPT !.pc = "wedged"]
         \/ ((Respond /\ starter.pc = "responding") \/ Crash) /\ starter' = IdleStarter
         \/ AdmitFails /\ starter' = [pc |-> "wedged", task |-> NoTask]
<1>1. CASE \/ SaveRunning \/ Launch \/ RecordJob \/ StartFails \/ SaveError \/ SaveErrorFails
           \/ AdmitFails \/ Crash \/ \E t \in Tasks : Admit(t)
  BY <1>1 DEF SaveRunning, Launch, RecordJob, StartFails, SaveError, SaveErrorFails, StarterMoves,
              AdmitFails, Crash, Admit
<1>2. CASE Respond
  BY <1>2 DEF Respond
<1>3. CASE UNCHANGED starter
  BY <1>3
<1>4. QED
  BY <1>1, <1>2, <1>3
  DEF Next, vars, BusEvent, FindTask, ApplyUpdate, SaveUpdate, RemoveProcess, HandlerFails,
      UserStop, UpdateZombie, SaveStop, StopFails, SignalStop, ListProcesses, FindRunning,
      SweepZombies, NotifyTaskLoad, RemoveWithCompletionCode, ProcessExits, FifteenMinutesPass,
      Pm2Killed

-----------------------------------------------------------------------------
(* An Error is earned *)

(* A process that has not stopped has no exit code, and before the first    *)
(* fault an Error, in the table or in a copy, comes from an exit code.      *)
ErrorConsistent ==
  /\ \A t \in Tasks : proc[t] \in {"none", "online"} => exited[t] = "none"
  /\ faults = 0 =>
       /\ \A t \in Tasks : rows[t].compl = Error => exited[t] = "unexpected"
       /\ \A h \in Handlers :
            job[h].pc \in {"apply", "save"} /\ job[h].old.compl = Error
              => exited[job[h].task] = "unexpected"

LEMMA NextError ==
  TypeOK /\ Consistent /\ ErrorConsistent /\ [Next]_vars => ErrorConsistent'
<1> SUFFICES ASSUME TypeOK, Consistent, ErrorConsistent, [Next]_vars PROVE ErrorConsistent'
  OBVIOUS
<1>1. ASSUME NEW t \in Tasks, proc'[t] \in {"none", "online"} PROVE exited'[t] = "none"
  <2>1. CASE Launch /\ starter.task = t
    BY <2>1, ProcessSteps DEF ErrorConsistent, Launch, StarterMoves, Consistent, StarterConsistent
  <2>2. CASE ~(Launch /\ starter.task = t)
    BY <1>1, <2>2, ProcessSteps DEF ErrorConsistent
  <2>3. QED  BY <2>1, <2>2
<1>2. ASSUME NEW t \in Tasks, exited[t] = "unexpected" PROVE exited'[t] = "unexpected"
  BY <1>2, ProcessSteps DEF ErrorConsistent
<1>3. ASSUME NEW t \in Tasks, faults' = 0, rows'[t].compl = Error PROVE exited[t] = "unexpected"
  <2>0. /\ faults = 0 /\ rows[t] \in Row
        /\ rows[t].compl = Error => exited[t] = "unexpected"
    BY <1>3, FaultsStay DEF TypeOK, ErrorConsistent
  <2>1. ASSUME Admit(t) PROVE FALSE
    <3>1. rows'[t] = InitialRow
      BY <2>1 DEF Admit, TypeOK
    <3>2. QED  BY <1>3, <3>1 DEF InitialRow
  <2>2. ASSUME SaveRunning, starter.task = t PROVE rows[t].compl = Error
    <3>1. rows'[t] = Save(rows[t], InitialRow, MarkRunning(InitialRow))
      BY <2>2 DEF SaveRunning, TypeOK
    <3>2. QED  BY <1>3, <2>0, <3>1, SavedRunning
  <2>3. ASSUME SaveError PROVE FALSE
    BY <2>0, <2>3 DEF SaveError, StarterMoves, Consistent, StarterConsistent
  <2>4. ASSUME NEW h \in Handlers, SaveUpdate(h), job[h].task = t PROVE exited[t] = "unexpected"
    <3>1. /\ job[h] \in BusyJob /\ job[h].pc = "save" /\ JobConsistent(job[h])
          /\ Updated(job[h]) \in Row
      BY <2>4, BusyJobs DEF SaveUpdate, Consistent
    <3>2. rows'[t] = Save(rows[t], job[h].old, Updated(job[h]))
      BY <2>4 DEF SaveUpdate, TypeOK
    <3>3. /\ job[h].old \in Row /\ job[h].status \in JobStatuses /\ job[h].exit \in ExitCodes
      BY <3>1 DEF BusyJob
    <3>4. rows[t].compl = Error \/ Updated(job[h]).compl = Error
      BY <1>3, <2>0, <3>1, <3>2, <3>3, SaveFacts
    <3>5. Updated(job[h]).compl = Error => job[h].old.compl = Error \/ job[h].exit = "unexpected"
      BY <3>3, UpdateFacts DEF Updated
    <3>6. job[h].exit = "unexpected" => exited[t] = "unexpected"
      BY <2>4, <3>1 DEF JobConsistent, ReportConsistent
    <3>7. job[h].old.compl = Error => exited[t] = "unexpected"
      BY <2>0, <2>4, <3>1 DEF ErrorConsistent
    <3>8. QED  BY <2>0, <3>4, <3>5, <3>6, <3>7
  <2>5. ASSUME NEW w \in Stoppers, SaveStop(t, w) PROVE rows[t].compl = Error
    <3>1. rows'[t] = Save(rows[t], stop[t][w].old, MarkCancelled(stop[t][w].old)) /\ stop[t][w].old \in Row
      BY <2>5 DEF SaveStop, TypeOK
    <3>2. rows'[t].compl \in {rows[t].compl, Cancel}
      BY <2>0, <3>1, SavedCancel
    <3>3. QED  BY <1>3, <3>2
  <2>6. ASSUME NEW code \in RemoveCodes, RemoveWithCompletionCode(code), rows[t].compl = code PROVE FALSE
    <3>1. rows'[t] = NoRow
      BY <2>6 DEF RemoveWithCompletionCode
    <3>2. QED  BY <1>3, <3>1 DEF NoRow
  <2>7. QED  BY <1>3, <2>0, <2>1, <2>2, <2>3, <2>4, <2>5, <2>6, RowSteps
<1>4. ASSUME NEW h \in Handlers, faults' = 0,
             job'[h].pc \in {"apply", "save"}, job'[h].old.compl = Error
      PROVE  exited'[job'[h].task] = "unexpected"
  <2>0. faults = 0
    BY <1>4, FaultsStay
  <2>1. job[h].pc # "idle" => job[h] \in BusyJob /\ job[h].task \in Tasks
    BY BusyJobs DEF BusyJob
  <2>2. job'[h].pc \notin {"idle", "find", "listed", "delete"}
    BY <1>4
  <2>3. CASE job'[h] = job[h]
    <3>1. job[h].task \in Tasks
      BY <2>1, <2>2, <2>3
    <3>2. exited[job[h].task] = "unexpected"
      BY <1>4, <2>0, <2>3 DEF ErrorConsistent
    <3>3. QED  BY <2>3, <3>1, <3>2, <1>2
  <2>4. CASE FindTask(h) /\ job'[h] = [job[h] EXCEPT !.pc = "apply", !.old = rows[job[h].task]]
    <3>1. job[h].pc = "find"
      BY <2>4 DEF FindTask
    <3>2. job'[h].old = rows[job[h].task] /\ job'[h].task = job[h].task /\ job[h].task \in Tasks
      BY <2>1, <2>4, <3>1 DEF BusyJob
    <3>3. exited[job[h].task] = "unexpected"
      BY <1>4, <2>0, <3>2 DEF ErrorConsistent
    <3>4. QED  BY <3>2, <3>3, <1>2
  <2>5. CASE ApplyUpdate(h) /\ job'[h] = [job[h] EXCEPT !.pc = "save"]
    <3>1. job[h].pc = "apply"
      BY <2>5 DEF ApplyUpdate
    <3>2. job'[h].old = job[h].old /\ job'[h].task = job[h].task /\ job[h].task \in Tasks
      BY <2>1, <2>5, <3>1 DEF BusyJob
    <3>3. exited[job[h].task] = "unexpected"
      BY <1>4, <2>0, <3>1, <3>2 DEF ErrorConsistent
    <3>4. QED  BY <3>2, <3>3, <1>2
  <2>6. CASE SaveUpdate(h) /\ job'[h] = [job[h] EXCEPT !.pc = "delete"]
    <3>1. job[h] \in BusyJob
      BY <2>1, <2>6 DEF SaveUpdate
    <3>2. QED  BY <2>2, <2>6, <3>1 DEF BusyJob
  <2>7. CASE FindRunning /\ job[h].pc = "listed" /\ job'[h] = [job[h] EXCEPT !.pc = "find"]
    BY <2>1, <2>2, <2>7 DEF BusyJob
  <2>8. job'[h] # IdleJob /\ job'[h].pc \notin {"find", "listed"}
    BY <2>2 DEF IdleJob
  <2>9. QED
    BY <2>3, <2>4, <2>5, <2>6, <2>7, <2>8, HandlerSteps
<1>5. \A t \in Tasks : faults' = 0 /\ rows'[t].compl = Error => exited'[t] = "unexpected"
  BY <1>2, <1>3
<1>6. QED  BY <1>1, <1>4, <1>5 DEF ErrorConsistent

(* Before the first fault an Error is recorded only for a process that      *)
(* PM2 reported with another exit code than the expected one.               *)
THEOREM ErrorIsAlwaysEarned == Spec => []ErrorIsEarned
<1>1. Init => ErrorConsistent
  BY DEF Init, ErrorConsistent, NoRow, IdleJob
<1>2. ErrorConsistent => ErrorIsEarned
  BY DEF ErrorConsistent, ErrorIsEarned
<1>3. QED  BY <1>1, <1>2, NextError, TypeCorrect, AlwaysConsistent, PTL DEF Spec

-----------------------------------------------------------------------------
(* The start queue *)

(* A wedged queue waits on a row that is gone, whose id is not given out    *)
(* again, or on nothing.                                                    *)
WedgeConsistent ==
  starter.pc = "wedged" /\ faults = 0 => starter.task \in used /\ ~Stored(rows[starter.task])

LEMMA GoneStaysGone ==
  ASSUME TypeOK, Consistent, [Next]_vars, NEW t \in Tasks, t \in used, ~Stored(rows[t])
  PROVE  t \in used' /\ ~Stored(rows'[t])
<1> DEFINE Gone == t \in used' /\ ~Stored(rows'[t])
<1>0. rows[t] \in Row /\ ~Stored(NoRow)
  BY DEF TypeOK, Stored, NoRow
<1>1. CASE SaveRunning /\ starter.task = t
  BY <1>0, <1>1, SavedRunning DEF SaveRunning, TypeOK
<1>2. CASE SaveError /\ starter.task = t
  BY <1>0, <1>2, SavedError DEF SaveError, TypeOK
<1>3. ASSUME NEW h \in Handlers, SaveUpdate(h), job[h].task = t PROVE Gone
  BY <1>0, <1>3 DEF SaveUpdate, TypeOK, Save
<1>4. ASSUME NEW w \in Stoppers, SaveStop(t, w) PROVE Gone
  BY <1>0, <1>4 DEF SaveStop, TypeOK, Save
<1>5. ASSUME NEW code \in RemoveCodes, RemoveWithCompletionCode(code), rows[t].compl = code PROVE Gone
  BY <1>0, <1>5 DEF RemoveWithCompletionCode
<1>6. ~Admit(t)
  BY DEF Admit
<1> HIDE DEF Gone
<1>7. CASE rows'[t] = rows[t] /\ (t \in used' <=> t \in used)
  BY <1>7 DEF Gone
<1>8. (SaveRunning \/ SaveError) /\ starter.task = t => Gone
  BY <1>1, <1>2 DEF Gone
<1>9. QED  BY <1>3, <1>4, <1>5, <1>6, <1>7, <1>8, RowSteps DEF Gone

LEMMA NextWedge ==
  TypeOK /\ Consistent /\ WedgeConsistent /\ [Next]_vars => WedgeConsistent'
<1> SUFFICES ASSUME TypeOK, Consistent, WedgeConsistent, [Next]_vars, starter'.pc = "wedged", faults' = 0
             PROVE  starter'.task \in used' /\ ~Stored(rows'[starter'.task])
  BY DEF WedgeConsistent
<1>1. faults = 0
  BY FaultsStay
<1>2. CASE starter' = starter
  <2>1. starter.task \in Tasks /\ starter.task \in used /\ ~Stored(rows[starter.task])
    BY <1>1, <1>2 DEF WedgeConsistent, TypeOK
  <2>2. QED  BY <1>2, <2>1, GoneStaysGone
<1>3. CASE Respond /\ starter.pc = "responding" /\ ~Stored(rows[starter.task])
           /\ starter' = [starter EXCEPT !.pc = "wedged"]
  <2>1. starter.task \in used /\ starter.task \in Tasks /\ starter'.task = starter.task
    BY <1>3 DEF Consistent, StarterConsistent, TypeOK
  <2>2. QED  BY <1>3, <2>1, GoneStaysGone
<1>4. ~SaveErrorFails /\ ~AdmitFails
  BY <1>1 DEF SaveErrorFails, AdmitFails, Fault, StarterMoves, Consistent, StarterConsistent, TypeOK
<1>5. QED  BY <1>2, <1>3, <1>4, StarterSteps DEF TypeOK, IdleStarter

(* The start queue hangs only for a failure or a row that was removed.      *)
THEOREM AlwaysWedgedOnlyByLoss == Spec => []WedgedOnlyByLoss
<1>1. Init => WedgeConsistent
  BY DEF Init, WedgeConsistent, IdleStarter
<1>2. TypeOK /\ WedgeConsistent => WedgedOnlyByLoss
  BY DEF TypeOK, WedgeConsistent, WedgedOnlyByLoss
<1>3. QED  BY <1>1, <1>2, NextWedge, TypeCorrect, AlwaysConsistent, PTL DEF Spec

-----------------------------------------------------------------------------
(* The sweep *)

(* A task that has run for 15 minutes was launched, so a refresh that began *)
(* since has its process in its list if PM2 has it, and what the sweep      *)
(* takes from such a list has no process and never gets one.                *)
SweepConsistent ==
  \A t \in Tasks :
    /\ t \in aged => t \in used /\ ~Launching(t)
    /\ t \in aged /\ refresh.pc # "idle" => t \notin Known \ refresh.list
    /\ stop[t]["sweep"].pc # "idle" => t \in aged \ Known

(* A task ages by itself, once, when it has been launched. *)
LEMMA AgedSteps ==
  ASSUME TypeOK, Consistent, [Next]_vars, NEW t \in Tasks
  PROVE  \/ t \in aged' <=> t \in aged
         \/ /\ t \notin aged /\ t \in aged' /\ t \in used /\ ~Launching(t) /\ rows[t].exec = Running
            /\ refresh.pc # "idle" => t \notin Known \ refresh.list
            /\ UNCHANGED <<rows, used, starter, refresh, proc, stop>>
<1> DEFINE Same == t \in aged' <=> t \in aged
<1>1. ASSUME NEW u \in Tasks, FifteenMinutesPass(u)
      PROVE  \/ Same
             \/ /\ t \notin aged /\ t \in aged' /\ t \in used /\ ~Launching(t) /\ rows[t].exec = Running
                /\ refresh.pc # "idle" => t \notin Known \ refresh.list
                /\ UNCHANGED <<rows, used, starter, refresh, proc, stop>>
  <2>1. CASE u # t
    BY <1>1, <2>1 DEF FifteenMinutesPass
  <2>2. CASE u = t
    <3>1. t \in used
      BY <1>1, <2>2 DEF FifteenMinutesPass, Consistent, RowConsistent, Stored
    <3>2. QED  BY <1>1, <2>2, <3>1 DEF FifteenMinutesPass, table, pm2
  <2>3. QED  BY <2>1, <2>2
<1>2. CASE UNCHANGED aged
  BY <1>2
<1> HIDE DEF Same
<1>3. QED
  BY <1>1, <1>2
  DEF Same, Next, vars, Admit, AdmitFails, SaveRunning, Launch, RecordJob, StartFails, SaveError,
      SaveErrorFails, Respond, BusEvent, FindTask, ApplyUpdate, SaveUpdate, RemoveProcess,
      HandlerFails, UserStop, UpdateZombie, SaveStop, StopFails, SignalStop, ListProcesses,
      FindRunning, SweepZombies, NotifyTaskLoad, RemoveWithCompletionCode, ProcessExits, Pm2Killed,
      Crash

(* A refresh begins with the list it keeps to its end, and reads the rows   *)
(* once.                                                                    *)
LEMMA RefreshSteps ==
  ASSUME TypeOK, [Next]_vars
  PROVE  \/ refresh' = refresh
         \/ refresh'.pc = "idle"
         \/ ListProcesses /\ refresh'.list = Known /\ refresh'.running = {} /\ UNCHANGED <<rows, proc>>
         \/ /\ refresh.pc # "idle" /\ refresh'.list = refresh.list
            /\ refresh'.running \in {refresh.running, RunningTasks} /\ UNCHANGED rows
<1>1. CASE ListProcesses
  BY <1>1 DEF ListProcesses, table, pm2
<1>2. CASE FindRunning \/ SweepZombies \/ NotifyTaskLoad \/ Crash
  <2>1. CASE FindRunning /\ RunningTasks # {}
    BY <2>1 DEF FindRunning, table, TypeOK
  <2>2. CASE SweepZombies
    BY <2>2 DEF SweepZombies, table, TypeOK
  <2>3. CASE (FindRunning /\ RunningTasks = {}) \/ NotifyTaskLoad \/ Crash
    BY <2>3 DEF FindRunning, NotifyTaskLoad, Crash, IdleRefresh
  <2>4. QED  BY <1>2, <2>1, <2>2, <2>3
<1>3. ASSUME NEW h \in Handlers, HandlerFails(h) PROVE refresh' = refresh \/ refresh'.pc = "idle"
  BY <1>3 DEF HandlerFails, IdleRefresh
<1>4. CASE UNCHANGED refresh
  BY <1>4
<1>5. QED
  BY <1>1, <1>2, <1>3, <1>4
  DEF Next, vars, Admit, AdmitFails, SaveRunning, Launch, RecordJob, StartFails, SaveError,
      SaveErrorFails, Respond, BusEvent, FindTask, ApplyUpdate, SaveUpdate, RemoveProcess, UserStop,
      UpdateZombie, SaveStop, StopFails, SignalStop, RemoveWithCompletionCode, ProcessExits,
      FifteenMinutesPass, Pm2Killed

(* A call of stopTask saves only what it found to be less than cancelled,   *)
(* and the sweep calls it only for the old among the tasks it misses.       *)
LEMMA StopSteps ==
  ASSUME TypeOK, [Next]_vars, NEW t \in Tasks, NEW w \in Stoppers
  PROVE  \/ stop'[t][w] = stop[t][w]
         \/ stop'[t][w].pc \in {"idle", "signal"} /\ (w = "sweep" => stop'[t][w].pc = "idle")
         \/ /\ stop'[t][w].pc = "save" /\ Stored(rows[t]) /\ rows[t].compl < Cancel
            /\ w = "sweep" => stop[t][w].pc = "find"
         \/ /\ SweepZombies /\ w = "sweep" /\ refresh.pc = "updating" /\ t \notin refresh.list
            /\ t \in aged /\ stop'[t][w].pc = "find"
<1> DEFINE Same == stop'[t][w] = stop[t][w]
           Over == stop'[t][w].pc \in {"idle", "signal"} /\ (w = "sweep" => stop'[t][w].pc = "idle")
           Saves == /\ stop'[t][w].pc = "save" /\ Stored(rows[t]) /\ rows[t].compl < Cancel
                    /\ w = "sweep" => stop[t][w].pc = "find"
           Swept == /\ SweepZombies /\ w = "sweep" /\ refresh.pc = "updating" /\ t \notin refresh.list
                    /\ t \in aged /\ stop'[t][w].pc = "find"
<1>0. /\ stop \in [Tasks -> [Stoppers -> [pc : StopStates, old : Row]]]
      /\ Signal(w).pc \in {"idle", "signal"} /\ (w = "sweep" => Signal(w).pc = "idle")
      /\ IdleStop.pc = "idle"
  BY DEF TypeOK, Signal, IdleStop, Stoppers
<1>1. ASSUME NEW u \in Tasks, UserStop(u) PROVE Same \/ Over \/ Saves
  <2>1. stop' = [stop EXCEPT ![u]["user"] = Found(u, "user")] /\ "user" \in Stoppers
    BY <1>1 DEF UserStop, Stoppers
  <2>2. CASE u = t /\ w = "user"
    <3>1. stop'[t][w] = Found(t, w)
      BY <1>0, <2>1, <2>2
    <3>2. QED  BY <1>0, <2>2, <3>1 DEF Found
  <2>3. CASE ~(u = t /\ w = "user")
    BY <1>0, <2>1, <2>3
  <2>4. QED  BY <2>2, <2>3
<1>2. ASSUME NEW u \in Tasks, UpdateZombie(u) PROVE Same \/ Over \/ Saves
  <2>1. /\ stop' = [stop EXCEPT ![u]["sweep"] = Found(u, "sweep")] /\ "sweep" \in Stoppers
        /\ stop[u]["sweep"].pc = "find"
    BY <1>2 DEF UpdateZombie, Stoppers
  <2>2. CASE u = t /\ w = "sweep"
    <3>1. stop'[t][w] = Found(t, w)
      BY <1>0, <2>1, <2>2
    <3>2. QED  BY <1>0, <2>1, <2>2, <3>1 DEF Found
  <2>3. CASE ~(u = t /\ w = "sweep")
    BY <1>0, <2>1, <2>3
  <2>4. QED  BY <2>2, <2>3
<1>3. ASSUME NEW u \in Tasks, NEW v \in Stoppers, SaveStop(u, v) \/ StopFails(u, v) \/ SignalStop(u, v)
      PROVE  Same \/ Over
  <2>1. stop' = [stop EXCEPT ![u][v] = Signal(v)] \/ stop' = [stop EXCEPT ![u][v] = IdleStop]
    BY <1>3 DEF SaveStop, StopFails, SignalStop
  <2>2. CASE u = t /\ v = w
    <3>1. stop'[t][w] = Signal(w) \/ stop'[t][w] = IdleStop
      BY <1>0, <2>1, <2>2
    <3>2. QED  BY <1>0, <3>1
  <2>3. CASE ~(u = t /\ v = w)
    BY <1>0, <2>1, <2>3
  <2>4. QED  BY <2>2, <2>3
<1>4. CASE SweepZombies
  <2> DEFINE zombies == (refresh.running \ refresh.list) \cap aged
  <2>1. /\ refresh.pc = "updating"
        /\ stop' = [u \in Tasks |-> IF u \in zombies
                                    THEN [stop[u] EXCEPT !["sweep"] = [pc |-> "find", old |-> NoRow]]
                                    ELSE stop[u]]
    BY <1>4 DEF SweepZombies
  <2>2. stop'[t] = IF t \in zombies THEN [stop[t] EXCEPT !["sweep"] = [pc |-> "find", old |-> NoRow]]
                   ELSE stop[t]
    BY <2>1
  <2>3. CASE t \in zombies /\ w = "sweep"
    <3>1. stop'[t][w] = [pc |-> "find", old |-> NoRow]
      BY <1>0, <2>2, <2>3
    <3>2. QED  BY <1>4, <2>1, <2>3, <3>1
  <2>4. CASE ~(t \in zombies /\ w = "sweep")
    BY <1>0, <2>2, <2>4
  <2>5. QED  BY <2>3, <2>4
<1>5. CASE Crash
  BY <1>0, <1>5 DEF Crash
<1>6. CASE UNCHANGED stop
  BY <1>6
<1> HIDE DEF Same, Over, Saves
<1>7. QED
  BY <1>1, <1>2, <1>3, <1>4, <1>5, <1>6
  DEF Same, Over, Saves, Next, vars, Admit, AdmitFails, SaveRunning, Launch, RecordJob, StartFails,
      SaveError, SaveErrorFails, Respond, BusEvent, FindTask, ApplyUpdate, SaveUpdate, RemoveProcess,
      HandlerFails, ListProcesses, FindRunning, NotifyTaskLoad, RemoveWithCompletionCode,
      ProcessExits, FifteenMinutesPass, Pm2Killed

LEMMA NextSweep ==
  TypeOK /\ Consistent /\ SweepConsistent /\ [Next]_vars => SweepConsistent'
<1> SUFFICES ASSUME TypeOK, Consistent, SweepConsistent, [Next]_vars, NEW t \in Tasks
             PROVE  /\ t \in aged' => t \in used' /\ ~Launching(t)'
                    /\ t \in aged' /\ refresh'.pc # "idle" => t \notin Known' \ refresh'.list
                    /\ stop'[t]["sweep"].pc # "idle" => t \in aged' \ Known'
  BY DEF SweepConsistent
<1>0. /\ t \in aged => t \in used /\ ~Launching(t)
      /\ t \in aged /\ refresh.pc # "idle" => t \notin Known \ refresh.list
      /\ stop[t]["sweep"].pc # "idle" => t \in aged \ Known
      /\ "sweep" \in Stoppers
  BY DEF SweepConsistent, Stoppers
<1>1. t \in used => t \in used' /\ ~Admit(t)
  BY RowSteps
  DEF Admit, SaveRunning, SaveError, SaveUpdate, SaveStop, RemoveWithCompletionCode
<1>2. t \in used /\ ~Launching(t) => ~Launching(t)'
  <2>1. SUFFICES ASSUME t \in used, ~Launching(t) PROVE ~Launching(t)'
    OBVIOUS
  <2>2. ASSUME NEW u \in Tasks, Admit(u), starter' = [pc |-> "created", task |-> u] PROVE ~Launching(t)'
    BY <2>1, <2>2, <1>1 DEF Launching
  <2>3. CASE SaveRunning /\ starter.pc = "created" /\ starter' = [starter EXCEPT !.pc = "launching"]
    BY <2>1, <2>3 DEF Launching, TypeOK
  <2>4. CASE \/ starter' = IdleStarter
             \/ starter' = [pc |-> "wedged", task |-> NoTask]
             \/ \E p \in {"recording", "responding", "failing", "wedged"} : starter' = [starter EXCEPT !.pc = p]
    BY <2>4 DEF Launching, TypeOK, IdleStarter
  <2>5. CASE starter' = starter
    BY <2>1, <2>5 DEF Launching
  <2>6. QED  BY <2>2, <2>3, <2>4, <2>5, StarterSteps
<1>3. ~(Launch /\ starter.task = t) => Known' \cap {t} \subseteq Known
  BY ProcessSteps DEF Known
<1>4. t \in aged => ~(Launch /\ starter.task = t)
  BY <1>0 DEF Launch, StarterMoves, Launching
<1>5. CASE /\ t \notin aged /\ t \in aged' /\ t \in used /\ ~Launching(t)
           /\ refresh.pc # "idle" => t \notin Known \ refresh.list
           /\ UNCHANGED <<rows, used, starter, refresh, proc, stop>>
  BY <1>0, <1>5 DEF Launching, Known
<1>6. CASE t \in aged' <=> t \in aged
  <2>1. t \in aged' => t \in used' /\ ~Launching(t)'
    BY <1>0, <1>1, <1>2, <1>6
  <2>2. ASSUME t \in aged', refresh'.pc # "idle" PROVE t \notin Known' \ refresh'.list
    <3>1. t \in aged /\ (t \in Known' => t \in Known)
      BY <2>2, <1>3, <1>4, <1>6
    <3>2. CASE ListProcesses /\ refresh'.list = Known
      BY <3>1, <3>2
    <3>3. CASE refresh.pc # "idle" /\ refresh'.list = refresh.list
      BY <1>0, <3>1, <3>3
    <3>4. QED  BY <2>2, <3>2, <3>3, RefreshSteps
  <2>3. ASSUME stop'[t]["sweep"].pc # "idle" PROVE t \in aged' \ Known'
    <3>1. t \in aged \ Known
      <4>1. CASE SweepZombies /\ refresh.pc = "updating" /\ t \notin refresh.list /\ t \in aged
        BY <1>0, <4>1
      <4>2. CASE stop[t]["sweep"].pc # "idle"
        BY <1>0, <4>2
      <4>3. QED  BY <1>0, <2>3, <4>1, <4>2, StopSteps
    <3>2. QED  BY <3>1, <1>3, <1>4, <1>6
  <2>4. QED  BY <2>1, <2>2, <2>3
<1>7. QED  BY <1>5, <1>6, AgedSteps

(* What the sweep's bookkeeping says holds always. *)
LEMMA AlwaysSweepConsistent == Spec => []SweepConsistent
<1>1. Init => SweepConsistent
  BY DEF Init, SweepConsistent, IdleStop, IdleStarter, IdleRefresh, Stoppers
<1>2. QED  BY <1>1, NextSweep, TypeCorrect, AlwaysConsistent, PTL DEF Spec

(* No task whose process PM2 still has is given up by the sweep.            *)
THEOREM LiveProcessIsNotSwept == Spec => []LiveProcessNotSwept
<1>1. SweepConsistent => LiveProcessNotSwept
  BY DEF SweepConsistent, LiveProcessNotSwept, Known
<1>2. QED  BY <1>1, AlwaysSweepConsistent, PTL

-----------------------------------------------------------------------------
(* What nothing repairs *)

(* A copy that goes with a report of a live process is saved as it was      *)
(* read, which changes nothing.                                             *)
LEMMA OnlineUpdateSavesNothing ==
  ASSUME NEW row \in Row, NEW j \in BusyJob, j.status = JobOnline
  PROVE  Save(row, j.old, Updated(j)) = row
<1>1. Updated(j) = j.old /\ j.old \in Row
  BY UpdateFacts DEF Updated, BusyJob
<1>2. /\ Save(row, j.old, j.old) \in Row
      /\ Save(row, j.old, j.old).exec = row.exec
      /\ Save(row, j.old, j.old).compl = row.compl
      /\ Save(row, j.old, j.old).completed_at = row.completed_at
  BY <1>1, SaveFacts
<1>3. QED  BY <1>1, <1>2 DEF Row

LEMMA NextForsaken ==
  ASSUME TypeOK, Consistent, [Next]_vars, NEW t \in Tasks, Forsaken(t)
  PROVE  Forsaken(t)' \/ ~Stored(rows'[t])
<1>1. /\ rows[t] \in Row /\ rows[t].exec = Running /\ rows[t].compl = Cancel
      /\ proc[t] \in {"none", "lost"}
      /\ starter.task = t => starter.pc \in {"responding", "wedged"}
      /\ \A h \in Handlers : job[h].task = t => job[h].status = JobOnline
      /\ \A w \in Stoppers : stop[t][w].pc # "save"
  BY DEF Forsaken, TypeOK
<1>2. t \in used /\ t # NoTask
  BY <1>1, ConstantsAssumption DEF Consistent, RowConsistent, Stored
<1>3. rows'[t] = rows[t] \/ ~Stored(rows'[t])
  <2>1. ASSUME NEW h \in Handlers, SaveUpdate(h), job[h].task = t PROVE rows'[t] = rows[t]
    <3>1. job[h] \in BusyJob /\ job[h].status = JobOnline
      BY <1>1, <2>1, BusyJobs DEF SaveUpdate
    <3>2. rows'[t] = Save(rows[t], job[h].old, Updated(job[h]))
      BY <2>1 DEF SaveUpdate, TypeOK
    <3>3. QED  BY <1>1, <3>1, <3>2, OnlineUpdateSavesNothing
  <2>2. ASSUME NEW code \in RemoveCodes, RemoveWithCompletionCode(code), rows[t].compl = code
        PROVE  ~Stored(rows'[t])
    BY <2>2 DEF RemoveWithCompletionCode, Stored, NoRow
  <2>3. ~Admit(t)
    BY <1>2 DEF Admit
  <2>4. ~((SaveRunning \/ SaveError) /\ starter.task = t)
    BY <1>1 DEF SaveRunning, SaveError, StarterMoves
  <2>5. ASSUME NEW w \in Stoppers PROVE ~SaveStop(t, w)
    BY <1>1 DEF SaveStop
  <2>6. QED  BY <2>1, <2>2, <2>3, <2>4, <2>5, RowSteps
<1>4. proc'[t] = proc[t]
  BY <1>1, ProcessSteps DEF Launch, StarterMoves
<1>5. starter'.task = t => starter'.pc \in {"responding", "wedged"}
  <2>1. ~Admit(t)
    BY <1>2 DEF Admit
  <2>2. QED  BY <1>1, <1>2, <2>1, StarterSteps DEF TypeOK, IdleStarter
<1>6. ASSUME NEW h \in Handlers, job'[h].task = t PROVE job'[h].status = JobOnline
  <2>1. job'[h] # IdleJob
    BY <1>2, <1>6 DEF IdleJob
  <2>2. CASE job'[h] = job[h]
    BY <1>1, <1>6, <2>2
  <2>3. ASSUME NEW u \in Tasks, proc[u] \in {"online", "stopped", "removed"}, job'[h].task = u PROVE FALSE
    BY <1>1, <1>6, <2>3
  <2>4. ASSUME job[h].pc # "idle",
               \/ job'[h] = [job[h] EXCEPT !.pc = "apply", !.old = rows[job[h].task]]
               \/ \E p \in JobStates : job'[h] = [job[h] EXCEPT !.pc = p]
        PROVE  job'[h].status = JobOnline
    <3>1. job[h] \in BusyJob
      BY <2>4, BusyJobs
    <3>2. job'[h].task = job[h].task /\ job'[h].status = job[h].status
      BY <2>4, <3>1 DEF BusyJob
    <3>3. QED  BY <1>1, <1>6, <3>2
  <2>5. CASE FindTask(h) /\ job'[h] = [job[h] EXCEPT !.pc = "apply", !.old = rows[job[h].task]]
    BY <2>4, <2>5 DEF FindTask
  <2>6. CASE \/ ApplyUpdate(h) /\ job'[h] = [job[h] EXCEPT !.pc = "save"]
             \/ SaveUpdate(h) /\ job'[h] = [job[h] EXCEPT !.pc = "delete"]
             \/ FindRunning /\ job[h].pc = "listed" /\ job'[h] = [job[h] EXCEPT !.pc = "find"]
    <3>1. job[h].pc # "idle"
      BY <2>6 DEF ApplyUpdate, SaveUpdate
    <3>2. \E p \in JobStates : job'[h] = [job[h] EXCEPT !.pc = p]
      BY <2>6 DEF JobStates
    <3>3. QED  BY <2>4, <3>1, <3>2
  <2>7. QED  BY <2>1, <2>2, <2>3, <2>5, <2>6, HandlerSteps
<1>7. ASSUME NEW w \in Stoppers PROVE stop'[t][w].pc # "save"
  BY <1>1, StopSteps
<1>8. QED  BY <1>1, <1>3, <1>4, <1>5, <1>6, <1>7 DEF Forsaken

(* A task that was cancelled before it was made running, and that has no    *)
(* process, is running until its row is removed.                            *)
THEOREM ForsakenAlwaysRunsOn == Spec => ForsakenRunsOn
<1>1. TypeOK /\ Consistent /\ [Next]_vars
        => [\A t \in Tasks : Forsaken(t) => Forsaken(t)' \/ ~Stored(rows'[t])]_vars
  BY NextForsaken
<1>2. QED  BY <1>1, TypeCorrect, AlwaysConsistent, PTL DEF Spec, ForsakenRunsOn

=============================================================================
