--------------------------- MODULE LocalLoadProofs ---------------------------
(***************************************************************************)
(* What makes the worker exceed its local capacity, for every set of       *)
(* tasks, every capacity and every number of bus events in handling:       *)
(* nothing but the events that LocalLoad names.                            *)
(***************************************************************************)
EXTENDS LocalLoad, LocalTasksProofs

-----------------------------------------------------------------------------
USE DEF Undefined, Initializing, Running, Zombie, Completed,
        Unknown, Incomplete, Cancel, Success, Error,
        JobPending, JobOnline, JobStopped, JobExited

-----------------------------------------------------------------------------
(* The work units of a set of tasks *)

LEMMA UnitsGrow ==
  ASSUME NEW m \in Nat, NEW n \in Nat, m <= n
  PROVE  WorkUnits * m <= WorkUnits * n
<1>1. WorkUnits \in Nat
  BY ConstantsAssumption
<1>2. PICK d \in Nat : n = m + d
  <2>1. n - m \in Nat /\ n = m + (n - m)
    OBVIOUS
  <2>2. QED  BY <2>1
<1>3. WorkUnits * n = WorkUnits * m + WorkUnits * d
  BY <1>1, <1>2
<1>4. /\ WorkUnits * d \in Nat /\ WorkUnits * m \in Nat
  BY <1>1
<1>5. QED  BY <1>3, <1>4

(* A subset needs no more, and a further task its own units. *)
LEMMA UnitFacts ==
  ASSUME NEW S \in SUBSET Tasks, NEW T \in SUBSET Tasks
  PROVE  /\ Cardinality(S) \in Nat
         /\ WorkUnits * Cardinality(S) \in Nat
         /\ WorkUnits * (Cardinality(S) + 1) = WorkUnits * Cardinality(S) + WorkUnits
         /\ S \subseteq T => WorkUnits * Cardinality(S) <= WorkUnits * Cardinality(T)
         /\ \A t \in Tasks : S \subseteq T \cup {t}
              => WorkUnits * Cardinality(S) <= WorkUnits * Cardinality(T) + WorkUnits
         /\ \A t \in T : S \subseteq T \ {t}
              => WorkUnits * Cardinality(S) <= WorkUnits * Cardinality(T) - WorkUnits
<1>1. WorkUnits \in Nat /\ IsFiniteSet(Tasks)
  BY ConstantsAssumption
<1>2. ASSUME NEW U \in SUBSET Tasks
      PROVE  /\ IsFiniteSet(U) /\ Cardinality(U) \in Nat
             /\ WorkUnits * Cardinality(U) \in Nat
             /\ WorkUnits * (Cardinality(U) + 1) = WorkUnits * Cardinality(U) + WorkUnits
  <2>1. IsFiniteSet(U) /\ Cardinality(U) \in Nat
    BY <1>1, FS_Subset, FS_CardinalityType
  <2>2. QED  BY <1>1, <2>1
<1>3. ASSUME NEW U \in SUBSET Tasks, S \subseteq U
      PROVE  WorkUnits * Cardinality(S) <= WorkUnits * Cardinality(U)
  <2>1. Cardinality(S) <= Cardinality(U)
    BY <1>2, <1>3, FS_Subset
  <2>2. QED  BY <1>2, <2>1, UnitsGrow
<1>4. ASSUME NEW t \in Tasks, S \subseteq T \cup {t}
      PROVE  WorkUnits * Cardinality(S) <= WorkUnits * Cardinality(T) + WorkUnits
  <2>1. T \cup {t} \in SUBSET Tasks
    BY <1>4
  <2>2. /\ Cardinality(T \cup {t}) \in Nat
        /\ Cardinality(T \cup {t}) <= Cardinality(T) + 1
    BY <1>2, <2>1, FS_AddElement
  <2>3. WorkUnits * Cardinality(T \cup {t}) <= WorkUnits * (Cardinality(T) + 1)
    BY <1>2, <2>2, UnitsGrow
  <2>4. WorkUnits * Cardinality(S) <= WorkUnits * Cardinality(T \cup {t})
    BY <1>3, <1>4, <2>1
  <2>5. QED  BY <1>1, <1>2, <2>1, <2>3, <2>4
<1>5. ASSUME NEW t \in T, S \subseteq T \ {t}
      PROVE  WorkUnits * Cardinality(S) <= WorkUnits * Cardinality(T) - WorkUnits
  <2>1. T \ {t} \in SUBSET Tasks
    OBVIOUS
  <2>2. Cardinality(T) = Cardinality(T \ {t}) + 1 /\ Cardinality(T \ {t}) \in Nat
    BY <1>2, <2>1, FS_RemoveElement
  <2>3. WorkUnits * Cardinality(T) = WorkUnits * Cardinality(T \ {t}) + WorkUnits
    BY <1>2, <2>1, <2>2
  <2>4. WorkUnits * Cardinality(S) <= WorkUnits * Cardinality(T \ {t})
    BY <1>3, <1>5, <2>1
  <2>5. QED  BY <1>1, <1>2, <2>1, <2>3, <2>4
<1>6. QED  BY <1>2, <1>3, <1>4, <1>5

-----------------------------------------------------------------------------
(* What a step in order does *)

(* What a proof about a step may start from. *)
InOrderStep ==
  /\ TypeOK /\ Consistent /\ [Next]_vars
  /\ Order /\ Order' /\ RowsFollow /\ NothingSwept

(* Nothing fails and nobody stops or removes a task. *)
LEMMA NoDisturbance ==
  ASSUME InOrderStep
  PROVE  /\ crashes = 0 /\ faults = 0 /\ crashes' = 0 /\ faults' = 0
         /\ ~Crash /\ ~Fault
         /\ ~SaveError /\ ~SaveErrorFails
         /\ \A h \in Handlers : ~HandlerFails(h)
         /\ \A t \in Tasks, w \in Stoppers : ~SaveStop(t, w)
         /\ \A t \in Tasks : t \in used => Stored(rows[t]) /\ Stored(rows'[t])
         /\ \A t \in Tasks : proc[t] # "lost" /\ proc'[t] # "lost"
<1>1. crashes = 0 /\ faults = 0 /\ crashes' = 0 /\ faults' = 0
  <2>1. Order /\ Order'
    BY DEF InOrderStep
  <2>2. crashes = 0 /\ faults = 0
    BY <2>1 DEF Order
  <2>3. crashes' = 0 /\ faults' = 0
    BY <2>1 DEF Order
  <2>4. QED  BY <2>2, <2>3
<1>2. ~Crash /\ ~Fault
  BY <1>1 DEF Crash, Fault
<1>3. ~SaveError /\ ~SaveErrorFails
  BY <1>1 DEF SaveError, SaveErrorFails, StarterMoves, InOrderStep, Consistent, StarterConsistent
<1>4. \A t \in Tasks, w \in Stoppers : ~SaveStop(t, w)
  BY DEF SaveStop, Stoppers, InOrderStep, Order, NothingSwept
<1>5. ASSUME NEW t \in Tasks, t \in used PROVE Stored(rows'[t])
  <2>1. t \in used'
    BY <1>5, RowSteps
    DEF InOrderStep, Admit, SaveRunning, SaveError, SaveUpdate, SaveStop, RemoveWithCompletionCode
  <2>2. QED  BY <2>1 DEF InOrderStep, Order
<1>6. \A h \in Handlers : ~HandlerFails(h)
  BY <1>2 DEF HandlerFails
<1>7. \A t \in Tasks : t \in used => Stored(rows[t])
  BY DEF InOrderStep, Order
<1>8. \A t \in Tasks : proc[t] # "lost" /\ proc'[t] # "lost"
  BY DEF InOrderStep, Order
<1>9. QED  BY <1>1, <1>2, <1>3, <1>4, <1>5, <1>6, <1>7, <1>8

(* A handler that stamps has a task whose process is over. *)
LEMMA StampingFacts ==
  ASSUME TypeOK, Consistent, NEW h \in Handlers, Stamping(h)
  PROVE  /\ job[h] \in BusyJob /\ job[h].task \in Tasks
         /\ proc[job[h].task] \notin {"none", "online"}
         /\ job[h].old \in Row /\ Updated(job[h]) \in Row
         /\ Stamped(Updated(job[h])) /\ ~Stamped(job[h].old)
         /\ job[h].pc = "save" => announced[job[h].task] # "nothing"
<1>1. job[h] \in BusyJob /\ JobConsistent(job[h]) /\ Updated(job[h]) \in Row
  BY BusyJobs DEF Stamping, Consistent
<1>2. Stamped(Updated(job[h]))
  BY <1>1, UpdateFacts DEF Stamping, Updated, BusyJob
<1>3. QED  BY <1>1, <1>2 DEF Stamping, BusyJob, JobConsistent, ReportConsistent

(* One that does not, writes no stamp. *)
LEMMA NotStampingFacts ==
  ASSUME TypeOK, Consistent, NEW h \in Handlers, job[h].pc \in {"apply", "save"}, ~Stamping(h)
  PROVE  /\ job[h] \in BusyJob
         /\ Updated(job[h]).completed_at = job[h].old.completed_at
         /\ Updated(job[h]).exec = job[h].old.exec
<1>1. job[h] \in BusyJob /\ JobConsistent(job[h]) /\ Updated(job[h]) \in Row
  BY BusyJobs DEF Consistent
<1>2. job[h].status \in {JobOnline, JobStopped} /\ job[h].old \in Row
  BY <1>1 DEF JobConsistent, ReportConsistent, BusyJob
<1>3. CASE job[h].status = JobOnline
  BY <1>1, <1>3, UpdateFacts DEF Updated, BusyJob
<1>4. CASE Stamped(job[h].old)
  <2>1. Stamped(Updated(job[h])) /\ Updated(job[h]).exec = job[h].old.exec
    BY <1>1, <1>4, UpdateFacts DEF Updated, BusyJob
  <2>2. QED  BY <1>1, <1>2, <1>4, <2>1 DEF Stamped, Row
<1>5. QED  BY <1>1, <1>2, <1>3, <1>4 DEF Stamping

(* Only a handler that stamps puts a stamp on a row. *)
LEMMA NewStamp ==
  ASSUME InOrderStep, NEW t \in Tasks, ~Stamped(rows[t]), Stamped(rows'[t])
  PROVE  \E g \in Handlers : SaveUpdate(g) /\ Stamping(g) /\ job[g].task = t
<1>0. TypeOK /\ Consistent /\ [Next]_vars /\ rows[t] \in Row
  BY DEF InOrderStep, TypeOK
<1>1. ~Admit(t)
  BY <1>0 DEF Admit, TypeOK, Stamped, InitialRow
<1>2. ~(SaveRunning /\ starter.task = t)
  BY <1>0, SavedRunning DEF SaveRunning, TypeOK, Stamped
<1>3. ASSUME NEW code \in RemoveCodes, RemoveWithCompletionCode(code), rows[t].compl = code PROVE FALSE
  BY <1>3 DEF RemoveWithCompletionCode, Stamped, NoRow
<1>4. PICK g \in Handlers : SaveUpdate(g) /\ job[g].task = t
  BY <1>0, <1>1, <1>2, <1>3, RowSteps, NoDisturbance
<1>5. ASSUME ~Stamping(g) PROVE FALSE
  <2>1. /\ job[g] \in BusyJob /\ Updated(job[g]) \in Row
        /\ Updated(job[g]).completed_at = job[g].old.completed_at
    BY <1>0, <1>4, <1>5, NotStampingFacts, BusyJobs DEF SaveUpdate
  <2>2. rows'[t] = Save(rows[t], job[g].old, Updated(job[g]))
    BY <1>0, <1>4 DEF SaveUpdate, TypeOK
  <2>3. rows'[t].completed_at = rows[t].completed_at
    BY <1>0, <2>1, <2>2, SaveFacts DEF BusyJob
  <2>4. QED  BY <2>3 DEF Stamped
<1>6. QED  BY <1>4, <1>5

(* A handler that stamps does put the stamp on its row. *)
LEMMA StampingSaves ==
  ASSUME InOrderStep, NEW h \in Handlers, SaveUpdate(h), Stamping(h)
  PROVE  Stamped(rows'[job[h].task])
<1> DEFINE t == job[h].task
<1>1. /\ TypeOK /\ Consistent
      /\ job[h] \in BusyJob /\ t \in Tasks /\ rows[t] \in Row /\ proc[t] # "none"
      /\ job[h].old \in Row /\ Updated(job[h]) \in Row
      /\ Stamped(Updated(job[h])) /\ ~Stamped(job[h].old)
  BY StampingFacts DEF InOrderStep, TypeOK
<1>2. rows'[t] = Save(rows[t], job[h].old, Updated(job[h]))
  BY <1>1 DEF SaveUpdate, TypeOK
<1>3. Stored(rows[t])
  BY <1>1, NoDisturbance DEF Consistent, ProcessConsistent
<1> HIDE DEF t
<1>4. rows'[t].completed_at = Updated(job[h]).completed_at
  BY <1>1, <1>2, <1>3, SaveFacts DEF Stamped
<1>5. QED  BY <1>1, <1>4 DEF Stamped, t

(* A stamp stays. *)
LEMMA StampStays ==
  ASSUME InOrderStep, NEW t \in Tasks, Stamped(rows[t])
  PROVE  Stamped(rows'[t])
<1>1. Stored(rows[t]) /\ t \in used
  BY DEF InOrderStep, Consistent, RowConsistent, Stamped, NoRow
<1>2. QED  BY <1>1, NextStamps, NoDisturbance DEF InOrderStep

-----------------------------------------------------------------------------
(* The rows *)

LEMMA NextRowsFollow ==
  ASSUME InOrderStep
  PROVE  RowsFollow'
<1>0. TypeOK /\ Consistent /\ [Next]_vars /\ Order /\ RowsFollow
  BY DEF InOrderStep
<1>a. ASSUME NEW t \in Tasks, proc[t] # "none" PROVE proc'[t] # "none"
  BY <1>0, <1>a, ProcessSteps
<1>1. ASSUME starter'.pc = "launching" PROVE rows'[starter'.task].exec = Running
  <2>1. CASE SaveRunning
    <3>1. /\ starter.pc = "created" /\ starter' = [starter EXCEPT !.pc = "launching"]
          /\ rows' = [rows EXCEPT ![starter.task] = Save(rows[starter.task], InitialRow, MarkRunning(InitialRow))]
      BY <2>1 DEF SaveRunning, StarterMoves
    <3>2. starter.task \in Tasks /\ starter.task \in used /\ starter'.task = starter.task
      BY <1>0, <3>1 DEF Consistent, StarterConsistent, TypeOK
    <3>3. Stored(rows[starter.task]) /\ rows[starter.task] \in Row
      BY <1>0, <3>2, NoDisturbance DEF TypeOK
    <3>4. QED  BY <1>0, <3>1, <3>2, <3>3, SavedRunning DEF TypeOK
  <2>2. CASE ~SaveRunning
    <3>1. starter' = starter /\ starter.pc = "launching"
      <4>1. starter' = starter \/ SaveRunning
        BY <1>0, <1>1, NoDisturbance, StarterSteps DEF IdleStarter, TypeOK
      <4>2. QED  BY <1>1, <2>2, <4>1
    <3>2. /\ starter.task \in used /\ starter.task \in Tasks /\ proc[starter.task] = "none"
          /\ rows[starter.task].exec = Running
      BY <1>0, <3>1 DEF Consistent, StarterConsistent, RowsFollow, TypeOK
    <3>3. ASSUME NEW h \in Handlers, SaveUpdate(h) PROVE job[h].task # starter.task
      BY <1>0, <3>2, <3>3 DEF SaveUpdate, Consistent, JobConsistent, ReportConsistent
    <3>4. ASSUME NEW code \in RemoveCodes, RemoveWithCompletionCode(code), rows[starter.task].compl = code
          PROVE  FALSE
      <4>1. ~Stored(rows'[starter.task])
        BY <3>2, <3>4 DEF RemoveWithCompletionCode, Stored, NoRow
      <4>2. QED  BY <3>2, <4>1, NoDisturbance
    <3>5. ~Admit(starter.task)
      BY <3>2 DEF Admit
    <3>6. rows'[starter.task] = rows[starter.task]
      BY <1>0, <2>2, <3>2, <3>3, <3>4, <3>5, NoDisturbance, RowSteps
    <3>7. QED  BY <3>1, <3>2, <3>6
  <2>3. QED  BY <2>1, <2>2
<1>2. ASSUME NEW h \in Handlers, Stamping(h)' PROVE ~Stamped(rows'[job'[h].task])
  <2>1. job'[h].pc \in {"apply", "save"} /\ job'[h].status = JobStopped /\ ~Stamped(job'[h].old)
    BY <1>2 DEF Stamping
  <2>2. CASE job'[h] = job[h]
    <3>1. Stamping(h)
      BY <2>1, <2>2 DEF Stamping
    <3>2. job[h].task \in Tasks /\ ~Stamped(rows[job[h].task]) /\ job[h] \in BusyJob
      BY <1>0, <3>1, StampingFacts DEF RowsFollow
    <3>3. ASSUME NEW g \in Handlers, SaveUpdate(g), Stamping(g), job[g].task = job[h].task PROVE FALSE
      <4>1. g # h
        <5>1. SaveUpdate(h) => job'[h].pc \in {"idle", "delete"}
          BY <1>0, <3>2 DEF SaveUpdate, TypeOK, IdleJob, BusyJob
        <5>2. QED  BY <2>1, <3>3, <5>1
      <4>2. QED  BY <1>0, <3>1, <3>3, <4>1 DEF Order, TwoStampings
    <3>4. QED  BY <2>2, <3>2, <3>3, NewStamp
  <2>3. CASE FindTask(h) /\ job'[h] = [job[h] EXCEPT !.pc = "apply", !.old = rows[job[h].task]]
    <3>1. job[h] \in BusyJob /\ rows' = rows
      BY <1>0, <2>3, BusyJobs DEF FindTask, table
    <3>2. job'[h].old = rows[job[h].task] /\ job'[h].task = job[h].task
      BY <2>3, <3>1 DEF BusyJob
    <3>3. QED  BY <2>1, <3>1, <3>2
  <2>4. CASE ApplyUpdate(h) /\ job'[h] = [job[h] EXCEPT !.pc = "save"]
    <3>1. job[h] \in BusyJob /\ rows' = rows /\ job[h].pc = "apply"
      BY <1>0, <2>4, BusyJobs DEF ApplyUpdate, table
    <3>2. /\ job'[h].old = job[h].old /\ job'[h].task = job[h].task /\ job'[h].status = job[h].status
      BY <2>4, <3>1 DEF BusyJob
    <3>3. Stamping(h)
      BY <2>1, <3>1, <3>2 DEF Stamping
    <3>4. QED  BY <1>0, <3>1, <3>2, <3>3 DEF RowsFollow
  <2>5. ASSUME job[h].pc # "idle", NEW p \in {"delete", "find"}, job'[h] = [job[h] EXCEPT !.pc = p]
        PROVE  FALSE
    <3>1. job[h] \in BusyJob
      BY <1>0, <2>5, BusyJobs
    <3>2. QED  BY <2>1, <2>5, <3>1 DEF BusyJob
  <2>6. ~(SaveUpdate(h) /\ job'[h] = [job[h] EXCEPT !.pc = "delete"])
    BY <2>5 DEF SaveUpdate
  <2>7. ~(FindRunning /\ job[h].pc = "listed" /\ job'[h] = [job[h] EXCEPT !.pc = "find"])
    BY <2>5
  <2>8. job'[h] # IdleJob /\ job'[h].pc \notin {"find", "listed"}
    BY <2>1 DEF IdleJob
  <2>9. QED  BY <1>0, <2>2, <2>3, <2>4, <2>6, <2>7, <2>8, HandlerSteps
<1>b. ASSUME NEW t \in Tasks, proc[t] # "none", rows[t].exec = Running
      PROVE  Stamped(rows'[t]) \/ rows'[t].exec = Running
  <2>0. t \in used /\ rows[t] \in Row /\ RowConsistent(t)
    BY <1>0, <1>b DEF Consistent, ProcessConsistent, TypeOK
  <2>1. ~Admit(t)
    BY <2>0 DEF Admit
  <2>2. ~(SaveRunning /\ starter.task = t)
    BY <1>0, <1>b DEF SaveRunning, StarterMoves, Consistent, StarterConsistent
  <2>3. ASSUME NEW h \in Handlers, SaveUpdate(h), job[h].task = t
        PROVE  Stamped(rows'[t]) \/ rows'[t].exec = Running
    <3>1. CASE Stamping(h)
      BY <2>3, <3>1, StampingSaves
    <3>2. CASE ~Stamping(h)
      <4>1. job[h] \in BusyJob /\ Updated(job[h]) \in Row /\ Updated(job[h]).exec = job[h].old.exec
        BY <1>0, <2>3, <3>2, NotStampingFacts, BusyJobs DEF SaveUpdate
      <4>2. rows'[t] = Save(rows[t], job[h].old, Updated(job[h]))
        BY <1>0, <2>3 DEF SaveUpdate, TypeOK
      <4>3. QED  BY <1>b, <2>0, <4>1, <4>2, SaveFacts DEF BusyJob
    <3>3. QED  BY <3>1, <3>2
  <2>4. ASSUME NEW code \in RemoveCodes, RemoveWithCompletionCode(code), rows[t].compl = code PROVE FALSE
    <3>1. ~Stored(rows'[t])
      BY <2>4 DEF RemoveWithCompletionCode, Stored, NoRow
    <3>2. QED  BY <2>0, <3>1, NoDisturbance
  <2>5. CASE rows'[t] = rows[t]
    BY <1>b, <2>5
  <2>6. QED  BY <1>0, <2>1, <2>2, <2>3, <2>4, <2>5, RowSteps, NoDisturbance
<1>3. ASSUME NEW t \in Tasks, rows'[t].exec = Running PROVE Launching(t)' \/ proc'[t] # "none"
  <2>1. CASE proc[t] # "none"
    BY <2>1, <1>a
  <2>2. CASE SaveRunning /\ starter.task = t
    <3>1. starter' = [starter EXCEPT !.pc = "launching"]
      BY <2>2 DEF SaveRunning, StarterMoves
    <3>2. QED  BY <1>0, <2>2, <3>1 DEF Launching, TypeOK
  <2>3. CASE proc[t] = "none" /\ ~(SaveRunning /\ starter.task = t)
    <3>1. ASSUME NEW h \in Handlers, SaveUpdate(h), job[h].task = t PROVE FALSE
      BY <1>0, <2>3, <3>1 DEF SaveUpdate, Consistent, JobConsistent, ReportConsistent
    <3>2. ~Admit(t)
      BY <1>0, <1>3 DEF Admit, TypeOK, InitialRow
    <3>3. ASSUME NEW code \in RemoveCodes, RemoveWithCompletionCode(code), rows[t].compl = code PROVE FALSE
      BY <1>3, <3>3 DEF RemoveWithCompletionCode, NoRow
    <3>4. rows'[t] = rows[t]
      BY <1>0, <2>3, <3>1, <3>2, <3>3, RowSteps, NoDisturbance
    <3>5. Launching(t)
      BY <1>0, <1>3, <2>3, <3>4 DEF RowsFollow
    <3>6. CASE Launch
      <4>1. proc'[t] = "online"
        BY <1>0, <3>5, <3>6 DEF Launch, Launching, TypeOK
      <4>2. QED  BY <4>1
    <3>7. CASE ~Launch
      <4>1. starter' = starter
        BY <1>0, <2>3, <3>5, <3>7, StarterSteps, NoDisturbance DEF Launching, Admit, StartFails, AdmitFails
      <4>2. QED  BY <3>5, <4>1 DEF Launching
    <3>8. QED  BY <3>6, <3>7
  <2>4. QED  BY <2>1, <2>2, <2>3
<1>4. ASSUME NEW t \in Tasks, proc'[t] # "none" PROVE Stamped(rows'[t]) \/ rows'[t].exec = Running
  <2>1. CASE proc[t] # "none" /\ Stamped(rows[t])
    BY <2>1, StampStays
  <2>2. CASE proc[t] # "none" /\ rows[t].exec = Running
    BY <2>2, <1>b
  <2>3. CASE proc[t] = "none"
    <3>1. Launch /\ starter.task = t
      BY <1>0, <1>4, <2>3, ProcessSteps
    <3>2. rows' = rows /\ rows[t].exec = Running
      BY <1>0, <3>1 DEF Launch, StarterMoves, table, RowsFollow
    <3>3. QED  BY <3>2
  <2>4. QED  BY <1>0, <2>1, <2>2, <2>3 DEF RowsFollow
<1>5. QED  BY <1>1, <1>2, <1>3, <1>4 DEF RowsFollow

-----------------------------------------------------------------------------
(* The load *)

LEMMA LoadSteps ==
  ASSUME TypeOK, [Next]_vars
  PROVE  \/ load' = load
         \/ RecordJob /\ load' = load + WorkUnits
         \/ \E h \in Handlers : /\ ApplyUpdate(h) /\ load' = load - WorkUnits
                                /\ Stamped(Updated(job[h])) /\ ~Stamped(job[h].old)
         \/ FindRunning /\ RunningTasks = {} /\ load' = 0
         \/ NotifyTaskLoad /\ load' = WorkUnits * Cardinality(refresh.running)
         \/ Crash
<1>1. CASE RecordJob \/ FindRunning \/ NotifyTaskLoad
  BY <1>1 DEF RecordJob, FindRunning, NotifyTaskLoad
<1>2. ASSUME NEW h \in Handlers, ApplyUpdate(h)
      PROVE  load' = load \/ (load' = load - WorkUnits /\ Stamped(Updated(job[h])) /\ ~Stamped(job[h].old))
  BY <1>2 DEF ApplyUpdate
<1>3. QED
  BY <1>1, <1>2
  DEF Next, vars, Admit, AdmitFails, SaveRunning, Launch, StartFails, SaveError, SaveErrorFails,
      Respond, BusEvent, FindTask, SaveUpdate, RemoveProcess, HandlerFails, UserStop, UpdateZombie,
      SaveStop, StopFails, SignalStop, ListProcesses, SweepZombies, RemoveWithCompletionCode,
      ProcessExits, FifteenMinutesPass, Pm2Killed

(* What lowers the load is a handler that stamps. *)
LEMMA LoweringStamps ==
  ASSUME InOrderStep, NEW h \in Handlers, ApplyUpdate(h),
         Stamped(Updated(job[h])), ~Stamped(job[h].old)
  PROVE  Stamping(h)
<1>1. SUFFICES ASSUME ~Stamping(h) PROVE FALSE
  OBVIOUS
<1>2. job[h].pc \in {"apply", "save"}
  BY DEF ApplyUpdate
<1>3. Updated(job[h]).completed_at = job[h].old.completed_at
  BY <1>1, <1>2, NotStampingFacts DEF InOrderStep
<1>4. QED  BY <1>3 DEF Stamped

(* A live process is due. *)
LEMMA LiveIsDue ==
  ASSUME InOrderStep
  PROVE  Live \subseteq Due
<1>1. TypeOK /\ Consistent /\ faults = 0
  BY NoDisturbance DEF InOrderStep
<1>2. SUFFICES ASSUME NEW t \in Tasks, proc[t] = "online" PROVE t \in Due
  BY DEF Live
<1>3. ~Stamped(rows[t])
  BY <1>1, <1>2 DEF Consistent, RowConsistent, ProcessConsistent
<1>4. ~Lowered(t)
  BY <1>1, <1>2, StampingFacts DEF Lowered
<1>5. QED  BY <1>2, <1>3, <1>4 DEF Due

(* Only a launch makes a task due. *)
LEMMA DueSteps ==
  ASSUME InOrderStep, NEW t \in Due'
  PROVE  t \in Due \/ (Launch /\ starter.task = t)
<1>1. /\ t \in Tasks /\ proc'[t] # "none" /\ ~Stamped(rows'[t])
      /\ TypeOK /\ Consistent /\ [Next]_vars
  BY DEF Due, InOrderStep
<1>2. ~Lowered(t)'
  BY DEF Due
<1>3. proc[t] # "none" \/ (Launch /\ starter.task = t)
  BY <1>1, ProcessSteps
<1>4. ~Stamped(rows[t])
  BY <1>1, StampStays
<1>5. ASSUME NEW h \in Handlers, Stamping(h), job[h].pc = "save", job[h].task = t PROVE FALSE
  <2>1. job[h] \in BusyJob
    BY <1>1, <1>5, StampingFacts
  <2>2. ~SaveUpdate(h)
    BY <1>1, <1>5, StampingSaves
  <2>3. job'[h] # job[h]
    BY <1>2, <1>5 DEF Lowered, Stamping
  <2>4. ~FindTask(h) /\ ~ApplyUpdate(h)
    BY <1>5 DEF FindTask, ApplyUpdate
  <2>5. QED  BY <1>1, <1>5, <2>2, <2>3, <2>4, HandlerSteps, NoDisturbance
<1>6. QED  BY <1>1, <1>3, <1>4, <1>5 DEF Due, Lowered

(* The handler that lowers the load is the only one to do so for its task. *)
LEMMA LoweringEndsDue ==
  ASSUME InOrderStep, NEW h \in Handlers, ApplyUpdate(h), Stamping(h)
  PROVE  job[h].task \in Due /\ Due' \subseteq Due \ {job[h].task}
<1>0. PICK t \in Tasks : t = job[h].task
  BY StampingFacts DEF InOrderStep
<1>1. /\ TypeOK /\ Consistent /\ job[h] \in BusyJob /\ proc[t] # "none"
      /\ job[h].pc = "apply"
  BY <1>0, StampingFacts DEF InOrderStep, ApplyUpdate
<1>2. ~Stamped(rows[t])
  BY <1>0 DEF InOrderStep, RowsFollow
<1>3. ~Lowered(t)
  <2>1. SUFFICES ASSUME NEW g \in Handlers, Stamping(g), job[g].pc = "save", job[g].task = t PROVE FALSE
    BY DEF Lowered
  <2>2. g # h
    BY <1>1, <2>1
  <2>3. TwoStampings
    BY <1>0, <2>1, <2>2 DEF TwoStampings
  <2>4. QED  BY <2>3 DEF InOrderStep, Order
<1>4. Lowered(t)'
  <2>1. job'[h] = [job[h] EXCEPT !.pc = "save"]
    BY <1>1 DEF ApplyUpdate, TypeOK
  <2>2. /\ job'[h].pc = "save" /\ job'[h].task = t
        /\ job'[h].status = job[h].status /\ job'[h].old = job[h].old
    BY <1>0, <1>1, <2>1 DEF BusyJob
  <2>3. Stamping(h)'
    BY <2>2 DEF Stamping
  <2>4. QED  BY <2>2, <2>3 DEF Lowered
<1>5. t \in Due /\ t \notin Due'
  BY <1>1, <1>2, <1>3, <1>4 DEF Due
<1>6. ~Launch
  <2>1. Launch => job' = job
    BY DEF Launch
  <2>2. job'[h] # job[h]
    BY <1>1 DEF ApplyUpdate, TypeOK, BusyJob
  <2>3. QED  BY <2>1, <2>2
<1>7. QED  BY <1>0, <1>5, <1>6, DueSteps

LEMMA CreditSteps ==
  ASSUME InOrderStep
  PROVE  \/ Credit' = Credit /\ ~Launch /\ ~RecordJob
         \/ Launch /\ load' = load /\ Credit = 0 /\ Credit' = WorkUnits
         \/ RecordJob /\ load' = load + WorkUnits /\ Credit = WorkUnits /\ Credit' = 0
<1>1. TypeOK /\ [Next]_vars
  BY DEF InOrderStep
<1>2. CASE Launch
  BY <1>1, <1>2 DEF Launch, StarterMoves, Credit, TypeOK
<1>3. CASE RecordJob
  BY <1>1, <1>3 DEF RecordJob, StarterMoves, Credit, TypeOK
<1>4. CASE ~Launch /\ ~RecordJob
  <2>1. starter'.pc = "recording" <=> starter.pc = "recording"
    <3>1. ~StartFails /\ ~AdmitFails
      BY NoDisturbance DEF StartFails, AdmitFails
    <3>2. CASE starter' = starter
      BY <3>2
    <3>3. ASSUME NEW t \in Tasks, Admit(t), starter' = [pc |-> "created", task |-> t]
          PROVE  starter'.pc # "recording" /\ starter.pc # "recording"
      BY <3>3 DEF Admit
    <3>4. CASE SaveRunning /\ starter.pc = "created" /\ starter' = [starter EXCEPT !.pc = "launching"]
      BY <1>1, <3>4 DEF TypeOK
    <3>5. CASE Respond /\ starter.pc = "responding"
               /\ (starter' = [starter EXCEPT !.pc = "wedged"] \/ starter' = IdleStarter)
      BY <1>1, <3>5 DEF TypeOK, IdleStarter
    <3>6. QED  BY <1>1, <1>4, <3>1, <3>2, <3>3, <3>4, <3>5, StarterSteps, NoDisturbance
  <2>2. QED  BY <1>4, <2>1 DEF Credit
<1>5. QED  BY <1>2, <1>3, <1>4

(* The load covers what is due, whichever way it changes. *)
LEMMA NextLoadCovers ==
  ASSUME InOrderStep, LoadCovers
  PROVE  LoadCovers'
<1>0. /\ TypeOK /\ [Next]_vars /\ load \in Int /\ load' \in Int
      /\ WorkUnits \in Nat /\ Credit \in {0, WorkUnits}
  BY NextType, ConstantsAssumption DEF InOrderStep, TypeOK, Credit
<1>1. /\ Due \in SUBSET Tasks /\ Due' \in SUBSET Tasks
      /\ WorkUnits * Cardinality(Due) \in Nat /\ WorkUnits * Cardinality(Due') \in Nat
  <2>1. Due \in SUBSET Tasks /\ Due' \in SUBSET Tasks
    BY DEF Due
  <2>2. QED  BY <2>1, UnitFacts
<1>2. WorkUnits * Cardinality(Due) <= load + Credit
  BY DEF LoadCovers
<1>3. SUFFICES WorkUnits * Cardinality(Due') <= load' + Credit'
  BY DEF LoadCovers
<1>4. CASE Launch /\ load' = load /\ Credit = 0 /\ Credit' = WorkUnits
  <2>1. starter.task \in Tasks
    BY <1>0, <1>4 DEF InOrderStep, Consistent, StarterConsistent, Launch, StarterMoves, TypeOK
  <2>2. Due' \subseteq Due \cup {starter.task}
    BY DueSteps
  <2>3. WorkUnits * Cardinality(Due') <= WorkUnits * Cardinality(Due) + WorkUnits
    BY <1>1, <2>1, <2>2, UnitFacts
  <2>4. QED  BY <1>0, <1>1, <1>2, <1>4, <2>3
<1>5. ASSUME ~Launch PROVE Due' \subseteq Due /\ WorkUnits * Cardinality(Due') <= WorkUnits * Cardinality(Due)
  <2>1. Due' \subseteq Due
    BY <1>5, DueSteps
  <2>2. QED  BY <1>1, <2>1, UnitFacts
<1>6. CASE RecordJob /\ load' = load + WorkUnits /\ Credit = WorkUnits /\ Credit' = 0
  <2>1. ~Launch
    BY <1>6 DEF RecordJob, Launch, StarterMoves
  <2>2. QED  BY <1>0, <1>1, <1>2, <1>5, <1>6, <2>1
<1>7. CASE Credit' = Credit /\ ~Launch /\ ~RecordJob
  <2>1. CASE load' = load
    BY <1>0, <1>1, <1>2, <1>5, <1>7, <2>1
  <2>2. ASSUME NEW h \in Handlers, ApplyUpdate(h), load' = load - WorkUnits,
               Stamped(Updated(job[h])), ~Stamped(job[h].old)
        PROVE  WorkUnits * Cardinality(Due') <= load' + Credit'
    <3>1. Stamping(h)
      BY <2>2, LoweringStamps
    <3>2. job[h].task \in Due /\ Due' \subseteq Due \ {job[h].task}
      BY <2>2, <3>1, LoweringEndsDue
    <3>3. WorkUnits * Cardinality(Due') <= WorkUnits * Cardinality(Due) - WorkUnits
      BY <1>1, <3>2, UnitFacts
    <3>4. QED  BY <1>0, <1>1, <1>2, <1>7, <2>2, <3>3
  <2>3. CASE FindRunning /\ RunningTasks = {} /\ load' = 0
    <3>1. Due = {}
      BY <2>3 DEF Due, RunningTasks, InOrderStep, RowsFollow
    <3>2. Due' = {}
      BY <1>5, <1>7, <3>1
    <3>3. Cardinality(Due') = 0
      BY <3>2, FS_EmptySet
    <3>4. QED  BY <1>0, <1>7, <2>3, <3>3
  <2>4. CASE NotifyTaskLoad /\ load' = WorkUnits * Cardinality(refresh.running)
    <3>1. refresh.running \in SUBSET Tasks
      BY <1>0 DEF TypeOK
    <3>2. Due \subseteq refresh.running \cup Uncounted
      BY <2>4 DEF NotifyTaskLoad, InOrderStep, Order, StartOverlooked
    <3>3. CASE starter.pc = "recording"
      <4>1. starter.task \in Tasks /\ Due \subseteq refresh.running \cup {starter.task}
        BY <1>0, <3>2, <3>3 DEF Uncounted, InOrderStep, Consistent, StarterConsistent, TypeOK
      <4>2. WorkUnits * Cardinality(Due) <= WorkUnits * Cardinality(refresh.running) + WorkUnits
        BY <1>1, <3>1, <4>1, UnitFacts
      <4>3. Credit = WorkUnits
        BY <3>3 DEF Credit
      <4>4. QED  BY <1>0, <1>1, <1>5, <1>7, <2>4, <4>2, <4>3
    <3>4. CASE starter.pc # "recording"
      <4>1. Due \subseteq refresh.running
        BY <3>2, <3>4 DEF Uncounted
      <4>2. WorkUnits * Cardinality(Due) <= WorkUnits * Cardinality(refresh.running)
        BY <1>1, <3>1, <4>1, UnitFacts
      <4>3. Credit = 0
        BY <3>4 DEF Credit
      <4>4. QED  BY <1>0, <1>1, <1>5, <1>7, <2>4, <4>2, <4>3
    <3>5. QED  BY <3>3, <3>4
  <2>5. QED  BY <1>0, <1>7, <2>1, <2>2, <2>3, <2>4, LoadSteps, NoDisturbance
<1>8. QED  BY <1>4, <1>6, <1>7, CreditSteps

(* What was admitted has room until it is launched, and after. *)
LEMMA NextRoomIsKept ==
  ASSUME InOrderStep, LoadCovers, RoomIsKept
  PROVE  RoomIsKept'
<1>0. /\ TypeOK /\ [Next]_vars /\ load \in Int /\ WorkUnits \in Nat /\ Capacity \in Nat
  BY ConstantsAssumption DEF InOrderStep, TypeOK
<1>1. Live \in SUBSET Tasks /\ Live' \in SUBSET Tasks /\ Due \in SUBSET Tasks
  BY DEF Live, Due
<1>2. /\ Cardinality(Live) \in Nat /\ Cardinality(Live') \in Nat
      /\ WorkUnits * Cardinality(Live) \in Nat /\ WorkUnits * Cardinality(Live') \in Nat
      /\ WorkUnits * (Cardinality(Live) + 1) = WorkUnits * Cardinality(Live) + WorkUnits
      /\ WorkUnits * (Cardinality(Live') + 1) = WorkUnits * Cardinality(Live') + WorkUnits
      /\ WorkUnits * Cardinality(Due) \in Nat
  BY <1>1, UnitFacts
<1>3. ASSUME ~Launch PROVE WorkUnits * Cardinality(Live') <= WorkUnits * Cardinality(Live)
  <2>1. Live' \subseteq Live
    BY <1>0, <1>3, ProcessSteps DEF Live
  <2>2. QED  BY <1>1, <2>1, UnitFacts
<1>4. WorkUnits * Cardinality(Live') <= Capacity
  <2>1. CASE Launch
    <3>1. starter.pc = "launching" /\ starter.task \in Tasks
      BY <1>0, <2>1 DEF Launch, StarterMoves, InOrderStep, Consistent, StarterConsistent, TypeOK
    <3>2. Live' \subseteq Live \cup {starter.task}
      BY <1>0, ProcessSteps DEF Live
    <3>3. WorkUnits * Cardinality(Live') <= WorkUnits * Cardinality(Live) + WorkUnits
      BY <1>1, <3>1, <3>2, UnitFacts
    <3>4. WorkUnits * (Cardinality(Live) + 1) <= Capacity
      BY <3>1 DEF RoomIsKept
    <3>5. QED  BY <1>0, <1>2, <3>3, <3>4
  <2>2. CASE ~Launch
    <3>1. WorkUnits * Cardinality(Live) <= Capacity
      BY DEF RoomIsKept
    <3>2. QED  BY <1>0, <1>2, <1>3, <2>2, <3>1
  <2>3. QED  BY <2>1, <2>2
<1>5. ASSUME starter'.pc \in {"created", "launching"}
      PROVE  WorkUnits * (Cardinality(Live') + 1) <= Capacity
  <2>0. ~Launch
    BY <1>0, <1>5 DEF Launch, StarterMoves, TypeOK
  <2>1. ASSUME NEW t \in Tasks, Admit(t) PROVE WorkUnits * (Cardinality(Live') + 1) <= Capacity
    <3>1. starter.pc = "idle" /\ Capacity - load >= WorkUnits
      BY <2>1 DEF Admit
    <3>2. WorkUnits * Cardinality(Due) <= load
      BY <1>0, <3>1 DEF LoadCovers, Credit
    <3>3. WorkUnits * Cardinality(Live) <= WorkUnits * Cardinality(Due)
      BY <1>1, LiveIsDue, UnitFacts
    <3>4. QED  BY <1>0, <1>2, <1>3, <2>0, <3>1, <3>2, <3>3
  <2>2. CASE starter.pc \in {"created", "launching"}
    <3>1. WorkUnits * (Cardinality(Live) + 1) <= Capacity
      BY <2>2 DEF RoomIsKept
    <3>2. QED  BY <1>0, <1>2, <1>3, <2>0, <3>1
  <2>3. \/ \E t \in Tasks : Admit(t)
        \/ starter.pc \in {"created", "launching"}
    BY <1>0, <1>5, StarterSteps DEF IdleStarter, TypeOK
  <2>4. QED  BY <2>1, <2>2, <2>3
<1>6. QED  BY <1>4, <1>5 DEF RoomIsKept

-----------------------------------------------------------------------------
(* The sweep *)

(* A task that PM2 no longer knows was stamped. *)
LEMMA UnknownIsStamped ==
  ASSUME InOrderStep, NEW t \in Tasks, proc[t] # "none", t \notin Known
  PROVE  Stamped(rows[t])
<1>1. proc[t] = "removed"
  BY NoDisturbance DEF Known, InOrderStep, TypeOK
<1>2. t \in used
  BY DEF InOrderStep, Consistent, ProcessConsistent
<1>3. QED  BY <1>1, <1>2, NoDisturbance DEF InOrderStep, Consistent, ProcessConsistent

LEMMA NextNothingSwept ==
  ASSUME InOrderStep
  PROVE  NothingSwept'
<1> SUFFICES ASSUME NEW t \in Tasks
             PROVE  /\ stop'[t]["sweep"].pc = "idle"
                    /\ t \in aged' => proc'[t] # "none"
                    /\ t \in aged' /\ refresh'.pc # "idle" =>
                         t \in refresh'.list \/ (Stamped(rows'[t]) /\ t \notin refresh'.running)
  BY DEF NothingSwept
<1>0. /\ TypeOK /\ Consistent /\ [Next]_vars /\ "sweep" \in Stoppers
      /\ stop[t]["sweep"].pc = "idle"
      /\ t \in aged => proc[t] # "none"
      /\ t \in aged /\ refresh.pc # "idle" =>
           t \in refresh.list \/ (Stamped(rows[t]) /\ t \notin refresh.running)
  BY DEF InOrderStep, NothingSwept, Stoppers
<1>1. RowConsistent(t) /\ rows[t] \in Row
  BY <1>0 DEF Consistent, TypeOK
<1>2. stop'[t]["sweep"].pc = "idle"
  <2>1. CASE SweepZombies
    <3>1. t \notin (refresh.running \ refresh.list) \cap aged
      BY <1>0, <2>1 DEF SweepZombies
    <3>2. stop'[t] = stop[t]
      BY <2>1, <3>1 DEF SweepZombies
    <3>3. QED  BY <1>0, <3>2
  <2>2. CASE ~SweepZombies
    BY <1>0, <2>2, StopSteps
  <2>3. QED  BY <2>1, <2>2
<1>3. proc[t] # "none" => proc'[t] # "none"
  BY <1>0, ProcessSteps
<1>4. CASE /\ t \notin aged /\ t \in aged' /\ ~Launching(t) /\ rows[t].exec = Running
           /\ refresh.pc # "idle" => t \notin Known \ refresh.list
           /\ UNCHANGED <<rows, used, starter, refresh, proc, stop>>
  <2>1. proc[t] # "none"
    BY <1>4 DEF InOrderStep, RowsFollow
  <2>2. ~Stamped(rows[t])
    BY <1>1, <1>4 DEF RowConsistent
  <2>3. t \in Known
    BY <2>1, <2>2, UnknownIsStamped
  <2>4. QED  BY <1>2, <1>3, <1>4, <2>1, <2>3
<1>5. CASE t \in aged' <=> t \in aged
  <2>1. ASSUME t \in aged, refresh'.pc # "idle"
        PROVE  t \in refresh'.list \/ (Stamped(rows'[t]) /\ t \notin refresh'.running)
    <3>0. proc[t] # "none"
      BY <1>0, <2>1
    <3>1. CASE refresh' = refresh
      BY <1>0, <2>1, <3>1, StampStays
    <3>2. CASE refresh'.list = Known /\ refresh'.running = {} /\ UNCHANGED <<rows, proc>>
      BY <3>0, <3>2, UnknownIsStamped
    <3>3. CASE /\ refresh.pc # "idle" /\ refresh'.list = refresh.list
               /\ refresh'.running \in {refresh.running, RunningTasks} /\ UNCHANGED rows
      <4>1. Stamped(rows[t]) => t \notin RunningTasks
        BY <1>1 DEF RowConsistent, RunningTasks
      <4>2. QED  BY <1>0, <2>1, <3>3, <4>1
    <3>4. QED  BY <1>0, <2>1, <3>1, <3>2, <3>3, RefreshSteps
  <2>2. QED  BY <1>0, <1>2, <1>3, <1>5, <2>1
<1>6. QED  BY <1>0, <1>4, <1>5, AgedSteps

-----------------------------------------------------------------------------
(* The worker keeps to its capacity *)

LEMMA InitLoadConsistent == LoadInit => LoadConsistent
<1> SUFFICES ASSUME LoadInit PROVE LoadConsistent
  OBVIOUS
<1> USE DEF LoadInit, Init
<1>0. WorkUnits \in Nat /\ Capacity \in Nat /\ WorkUnits * 0 = 0
  BY ConstantsAssumption
<1>1. Live = {} /\ Due = {} /\ Cardinality({}) = 0
  BY FS_EmptySet DEF Live, Due
<1>2. ASSUME NEW h \in Handlers PROVE ~Stamping(h)
  BY <1>2 DEF Stamping, IdleJob
<1>3. Order
  BY <1>2 DEF Order, StartOverlooked, TwoStampings, IdleRefresh, IdleStop, Stoppers
<1>4. LoadCovers /\ RoomIsKept
  BY <1>0, <1>1 DEF LoadCovers, RoomIsKept, Credit, IdleStarter
<1>5. RowsFollow
  BY <1>2 DEF RowsFollow, IdleStarter, NoRow
<1>6. NothingSwept
  BY DEF NothingSwept, IdleRefresh, IdleStop, Stoppers
<1>7. QED  BY <1>3, <1>4, <1>5, <1>6 DEF LoadConsistent

LEMMA NextLoadConsistent ==
  TypeOK /\ Consistent /\ LoadConsistent /\ [LoadNext]_loadVars => LoadConsistent'
<1> SUFFICES ASSUME TypeOK, Consistent, LoadConsistent, [LoadNext]_loadVars, orderly'
             PROVE  Order' /\ LoadCovers' /\ RoomIsKept' /\ RowsFollow' /\ NothingSwept'
  BY DEF LoadConsistent
<1>1. CASE LoadNext
  <2>1. [Next]_vars /\ orderly /\ Order'
    BY <1>1 DEF LoadNext
  <2>2. InOrderStep /\ LoadCovers /\ RoomIsKept
    BY <2>1 DEF InOrderStep, LoadConsistent
  <2>3. QED
    BY <2>1, <2>2, NextLoadCovers, NextRoomIsKept, NextRowsFollow, NextNothingSwept
<1>2. CASE UNCHANGED loadVars
  <2>1. orderly /\ Order /\ LoadCovers /\ RoomIsKept /\ RowsFollow /\ NothingSwept
    BY <1>2 DEF loadVars, LoadConsistent
  <2>2. UNCHANGED vars
    BY <1>2 DEF loadVars
  <2>3. /\ Due' = Due /\ Live' = Live /\ Uncounted' = Uncounted
        /\ \A h \in Handlers : Stamping(h)' <=> Stamping(h)
    BY <2>2 DEF vars, Due, Live, Lowered, Uncounted, Stamping
  <2>4. Order'
    BY <2>1, <2>2, <2>3 DEF vars, Order, StartOverlooked, TwoStampings
  <2>5. InOrderStep
    BY <2>1, <2>2, <2>4 DEF InOrderStep
  <2>6. QED
    BY <2>1, <2>4, <2>5, NextLoadCovers, NextRoomIsKept, NextRowsFollow, NextNothingSwept
<1>3. QED  BY <1>1, <1>2

(* The history variable leaves the behaviours as they are. *)
LEMMA LoadIsLocalTasks == LoadSpec => Spec
<1>1. LoadInit => Init
  BY DEF LoadInit
<1>2. [LoadNext]_loadVars => [Next]_vars
  BY DEF LoadNext, loadVars
<1>3. QED  BY <1>1, <1>2, PTL DEF LoadSpec, Spec

(* As long as everything is in order, the load covers every launched task   *)
(* whose end it has not been lowered for, so that admission, which looks at *)
(* the load only, leaves room for what it starts.                           *)
THEOREM AlwaysLoadConsistent == LoadSpec => []LoadConsistent
<1>1. LoadSpec => []TypeOK /\ []Consistent
  BY LoadIsLocalTasks, TypeCorrect, AlwaysConsistent, PTL
<1>2. QED  BY <1>1, InitLoadConsistent, NextLoadConsistent, PTL DEF LoadSpec

(* As long as everything is in order, live processes fit into the capacity. *)
THEOREM CapacityIsKept == LoadSpec => []CapacityKept
<1>1. LoadConsistent => CapacityKept
  BY DEF LoadConsistent, RoomIsKept, CapacityKept
<1>2. QED  BY <1>1, AlwaysLoadConsistent, PTL

=============================================================================
