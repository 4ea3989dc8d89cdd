----------------------------- MODULE LocalTasks -----------------------------
(***************************************************************************)
(* The local half of task execution: TaskSupervisor (startTask, stopTask,  *)
(* _update, notifyTaskLoad), LocalTaskManager (bus events, the periodic    *)
(* refresh, the zombie sweep) and the PM2 process manager they drive.      *)
(*                                                                         *)
(* Everything runs in one Node process, so a step of this module is the    *)
(* code between two awaits.  Four kinds of activity interleave at those    *)
(* awaits:                                                                 *)
(*   - starter: the start queue, which runs one startTask at a time;       *)
(*   - job[h]:  calls of refreshOneTaskForProcess, h a bus event being     *)
(*              handled or, for h a task, the refresh's call for it;       *)
(*   - refresh: refreshAllTasks, every 20 seconds, one at a time;          *)
(*   - stop[t]: calls of stopTask, by a user or by the zombie sweep.       *)
(* Each of them reads a row, waits, and writes back what it decided.       *)
(***************************************************************************)
EXTENDS TaskExecution, FiniteSets

CONSTANTS
  Tasks,         (* tasks the coordinator may ask this worker to run         *)
  BusSlots,      (* bus events that may be in handling at the same time      *)
  NoTask,        (* stands for no task                                       *)
  WorkUnits,     (* local_work_units, the same for every task                *)
  Capacity,      (* the worker's local_work_capacity                         *)
  RemoveCodes,   (* codes removeCompletedExecutionsWithCode is called with   *)
  Disturbances,  (* what the environment may do, of those named below        *)
  MaxTroubles    (* bound on restarts and faults together                    *)

ASSUME ConstantsAssumption ==
  /\ IsFiniteSet(Tasks)
  /\ BusSlots \cap Tasks = {}
  /\ NoTask \notin Tasks
  /\ WorkUnits \in Nat
  /\ Capacity \in Nat
  /\ RemoveCodes \subseteq CompletionResults
  /\ Disturbances \subseteq {"stop",    (* a user stops tasks                *)
                             "kill",    (* the PM2 daemon dies               *)
                             "crash",   (* the worker dies and restarts      *)
                             "faults"}  (* a save or a call to PM2 fails     *)
  /\ MaxTroubles \in Nat

VARIABLES
  rows,       (* the TaskExecutions table                                    *)
  used,       (* ids the table ever gave out                                 *)
  proc,       (* PM2's entry for each task                                   *)
  exited,     (* the exit code PM2 has for a stopped process                 *)
  announced,  (* what sendTaskExecutionComplete was called with so far       *)
  starter,    (* the start queue's worker                                    *)
  job,        (* handlers of one process' status                             *)
  stop,       (* calls of stopTask                                           *)
  refresh,    (* the periodic refresh                                        *)
  load,       (* _localTaskLoad                                              *)
  aged,       (* tasks whose started_at is more than 15 minutes ago          *)
  crashes,    (* restarts so far                                             *)
  faults      (* failures so far                                             *)

table == <<rows, used>>
pm2   == <<proc, exited>>
troubles == <<crashes, faults>>
vars  == <<rows, used, proc, exited, announced, starter, job, stop, refresh,
           load, aged, crashes, faults>>

Handlers == BusSlots \cup Tasks
Stoppers == {"user", "sweep"}

IdleStarter == [pc |-> "idle", task |-> NoTask]
IdleJob     == [pc |-> "idle", task |-> NoTask, status |-> JobOnline, exit |-> "none", old |-> NoRow]
IdleStop    == [pc |-> "idle", old |-> NoRow]
IdleRefresh == [pc |-> "idle", list |-> {}, running |-> {}]

StarterStates == {"idle", "created", "launching", "recording", "failing", "responding", "wedged"}
JobStates     == {"listed", "find", "apply", "save", "delete"}
StopStates    == {"idle", "find", "save", "signal"}
RefreshStates == {"idle", "listed", "updating", "sweeping"}

BusyJob == [pc : JobStates, task : Tasks, status : JobStatuses, exit : ExitCodes, old : Row]

Announcements == {"nothing", "completion", "success"}

TypeOK ==
  /\ rows \in [Tasks -> Row]
  /\ used \subseteq Tasks
  /\ proc \in [Tasks -> {"none", "online", "stopped", "removed", "lost"}]
  /\ exited \in [Tasks -> ExitCodes]
  /\ announced \in [Tasks -> Announcements]
  /\ starter \in [pc : StarterStates, task : Tasks \cup {NoTask}]
  /\ job \in [Handlers -> {IdleJob} \cup BusyJob]
  /\ stop \in [Tasks -> [Stoppers -> [pc : StopStates, old : Row]]]
  /\ refresh \in [pc : RefreshStates, list : SUBSET Tasks, running : SUBSET Tasks]
  /\ load \in Int
  /\ aged \subseteq Tasks
  /\ crashes \in Nat
  /\ faults \in Nat

Init ==
  /\ rows = [t \in Tasks |-> NoRow]
  /\ used = {}
  /\ proc = [t \in Tasks |-> "none"]
  /\ exited = [t \in Tasks |-> "none"]
  /\ announced = [t \in Tasks |-> "nothing"]
  /\ starter = IdleStarter
  /\ job = [h \in Handlers |-> IdleJob]
  /\ stop = [t \in Tasks |-> [w \in Stoppers |-> IdleStop]]
  /\ refresh = IdleRefresh
  /\ load = 0
  /\ aged = {}
  /\ crashes = 0
  /\ faults = 0

(* something that the worker asked of the table, PM2 or the disk fails *)
Fault ==
  /\ "faults" \in Disturbances
  /\ crashes + faults < MaxTroubles
  /\ faults' = faults + 1
  /\ UNCHANGED crashes

-----------------------------------------------------------------------------
(* startTask, as the start queue's only worker runs it *)

(* Mutant of Admit: a task fits as long as there is any room.               *)
AdmitFull(t) ==
  /\ starter.pc = "idle"
  /\ t \notin used
  /\ Capacity >= load
  /\ rows' = [rows EXCEPT ![t] = InitialRow]
  /\ used' = used \cup {t}
  /\ starter' = [pc |-> "created", task |-> t]
  /\ UNCHANGED <<pm2, announced, job, stop, refresh, load, aged, troubles>>

(* the capacity check and the INSERT; a request that does not fit is        *)
(* answered without a change of state                                       *)
Admit(t) ==
  /\ starter.pc = "idle"
  /\ t \notin used
  /\ Capacity - load >= WorkUnits
  /\ rows' = [rows EXCEPT ![t] = InitialRow]
  /\ used' = used \cup {t}
  /\ starter' = [pc |-> "created", task |-> t]
  /\ UNCHANGED <<pm2, announced, job, stop, refresh, load, aged, troubles>>

(* the INSERT is outside the try block: the queue's worker rejects and      *)
(* never calls back                                                         *)
AdmitFails ==
  /\ Fault
  /\ starter.pc = "idle"
  /\ Capacity - load >= WorkUnits
  /\ starter' = [pc |-> "wedged", task |-> NoTask]
  /\ UNCHANGED <<table, pm2, announced, job, stop, refresh, load, aged>>

Launching(t) == starter.pc \in {"created", "launching"} /\ starter.task = t

StarterMoves(from, to) ==
  /\ starter.pc = from
  /\ starter' = [starter EXCEPT !.pc = to]

SaveRunning ==
  /\ StarterMoves("created", "launching")
  /\ LET t == starter.task IN
     rows' = [rows EXCEPT ![t] = Save(rows[t], InitialRow, MarkRunning(InitialRow))]
  /\ UNCHANGED <<used, pm2, announced, job, stop, refresh, load, aged, troubles>>

(* Mutant of Launch: the starter does not move on.                          *)
LaunchAgain ==
  /\ StarterMoves("launching", "launching")
  /\ proc' = [proc EXCEPT ![starter.task] = "online"]
  /\ UNCHANGED <<table, exited, announced, job, stop, refresh, load, aged, troubles>>

(* pm2.start: the process runs whether or not the row is still there *)
Launch ==
  /\ StarterMoves("launching", "recording")
  /\ proc' = [proc EXCEPT ![starter.task] = "online"]
  /\ UNCHANGED <<table, exited, announced, job, stop, refresh, load, aged, troubles>>

(* job_id and job_name are saved, then the load is raised *)
RecordJob ==
  /\ StarterMoves("recording", "responding")
  /\ load' = load + WorkUnits
  /\ UNCHANGED <<table, pm2, announced, job, stop, refresh, aged, troubles>>

(* preparing the directories, a save, or pm2.start throws *)
StartFails ==
  /\ Fault
  /\ starter.pc \in {"created", "launching", "recording"}
  /\ starter' = [starter EXCEPT !.pc = "failing"]
  /\ UNCHANGED <<table, pm2, announced, job, stop, refresh, load, aged>>

SaveError ==
  /\ StarterMoves("failing", "responding")
  /\ LET t == starter.task IN
     rows' = [rows EXCEPT ![t] = Save(rows[t], InitialRow, MarkError(InitialRow))]
  /\ UNCHANGED <<used, pm2, announced, job, stop, refresh, load, aged, troubles>>

(* The save in the catch block throws out of startTask: what failed the     *)
(* start may last, so this is no further fault.                             *)
SaveErrorFails ==
  /\ StarterMoves("failing", "wedged")
  /\ UNCHANGED <<table, pm2, announced, job, stop, refresh, load, aged, troubles>>

(* Mutant of Respond: only a task that is still running is answered.        *)
RespondRunning ==
  /\ starter.pc = "responding"
  /\ starter' = IF rows[starter.task].exec = Running THEN IdleStarter
                ELSE [starter EXCEPT !.pc = "wedged"]
  /\ UNCHANGED <<table, pm2, announced, job, stop, refresh, load, aged, troubles>>

(* the row is read again for the answer; .get() of a missing row throws *)
Respond ==
  /\ starter.pc = "responding"
  /\ starter' = IF Stored(rows[starter.task]) THEN IdleStarter
                ELSE [starter EXCEPT !.pc = "wedged"]
  /\ UNCHANGED <<table, pm2, announced, job, stop, refresh, load, aged, troubles>>

StarterStep == SaveRunning \/ Launch \/ RecordJob \/ SaveError \/ Respond

-----------------------------------------------------------------------------
(* refreshOneTaskForProcess *)

(* What PM2 may report of a process it knows.  The exit code may be missing *)
(* from a report that already says stopped.                                 *)
Reports(t) ==
  IF proc[t] = "online" THEN {[status |-> JobOnline, exit |-> "none"]}
  ELSE [status : {JobStopped}, exit : {"none", exited[t]}]

(* PM2 puts an event on the bus when a process starts, goes online, stops,  *)
(* exits or is deleted; the worker takes it off as it pleases               *)
BusEvent(b, t) ==
  /\ job[b].pc = "idle"
  /\ proc[t] \in {"online", "stopped", "removed"}
  /\ \E r \in Reports(t) :
       job' = [job EXCEPT ![b] = [pc |-> "find", task |-> t, status |-> r.status,
                                  exit |-> r.exit, old |-> NoRow]]
  /\ UNCHANGED <<table, pm2, announced, starter, stop, refresh, load, aged, troubles>>

(* findById; the statistics are then read from ps while the copy ages *)
FindTask(h) ==
  /\ job[h].pc = "find"
  /\ LET row == rows[job[h].task] IN
     job' = [job EXCEPT ![h] = IF Stored(row) THEN [@ EXCEPT !.pc = "apply", !.old = row] ELSE IdleJob]
  /\ UNCHANGED <<table, pm2, announced, starter, stop, refresh, load, aged, troubles>>

(* the message carries the copy; what matters later is whether any message, *)
(* and whether one with a Success, was sent                                 *)
Announced(before, compl) ==
  IF compl = Success \/ before = "success" THEN "success" ELSE "completion"

Updated(j) == UpdateLocal(j.old, j.status, j.exit)

(* Mutant of ApplyUpdate: only a status beyond stopped is announced.        *)
ApplyUpdateExited(h) ==
  /\ job[h].pc = "apply"
  /\ LET t == job[h].task IN
     /\ load' = IF Stamped(Updated(job[h])) /\ ~Stamped(job[h].old) THEN load - WorkUnits ELSE load
     /\ announced' = IF job[h].status > JobStopped
                     THEN [announced EXCEPT ![t] = Announced(@, Updated(job[h]).compl)]
                     ELSE announced
  /\ job' = [job EXCEPT ![h].pc = "save"]
  /\ UNCHANGED <<table, pm2, starter, stop, refresh, aged, troubles>>

(* Mutant of ApplyUpdate: every report of the end lowers the load.          *)
ApplyUpdateTwice(h) ==
  /\ job[h].pc = "apply"
  /\ LET t == job[h].task IN
     /\ load' = IF Stamped(Updated(job[h])) THEN load - WorkUnits ELSE load
     /\ announced' = IF job[h].status >= JobStopped
                     THEN [announced EXCEPT ![t] = Announced(@, Updated(job[h]).compl)]
                     ELSE announced
  /\ job' = [job EXCEPT ![h].pc = "save"]
  /\ UNCHANGED <<table, pm2, starter, stop, refresh, aged, troubles>>

(* _update as far as the message: the load is lowered by the copy that was  *)
(* not yet stamped, and the result is announced before it is saved          *)
ApplyUpdate(h) ==
  /\ job[h].pc = "apply"
  /\ LET t == job[h].task IN
     /\ load' = IF Stamped(Updated(job[h])) /\ ~Stamped(job[h].old) THEN load - WorkUnits ELSE load
     /\ announced' = IF job[h].status >= JobStopped
                     THEN [announced EXCEPT ![t] = Announced(@, Updated(job[h]).compl)]
                     ELSE announced
  /\ job' = [job EXCEPT ![h].pc = "save"]
  /\ UNCHANGED <<table, pm2, starter, stop, refresh, aged, troubles>>

(* the save; a process of a completed task is then to be deleted *)
SaveUpdate(h) ==
  /\ job[h].pc = "save"
  /\ LET t == job[h].task
         delete == Updated(job[h]).exec = Completed /\ job[h].status = JobStopped
     IN
     /\ rows' = [rows EXCEPT ![t] = Save(rows[t], job[h].old, Updated(job[h]))]
     /\ job' = [job EXCEPT ![h] = IF delete THEN [@ EXCEPT !.pc = "delete"] ELSE IdleJob]
  /\ UNCHANGED <<used, pm2, announced, starter, stop, refresh, load, aged, troubles>>

(* deleteTask; "process not found" counts as done *)
RemoveProcess(h) ==
  /\ job[h].pc = "delete"
  /\ LET t == job[h].task IN
     proc' = IF proc[t] = "stopped" THEN [proc EXCEPT ![t] = "removed"] ELSE proc
  /\ job' = [job EXCEPT ![h] = IdleJob]
  /\ UNCHANGED <<table, exited, announced, starter, stop, refresh, load, aged, troubles>>

(* the save or the delete rejects; when this is one of the refresh's calls, *)
(* its Promise.all rejects with it and the refresh gives up                 *)
HandlerFails(h) ==
  /\ Fault
  /\ job[h].pc \in {"save", "delete"}
  /\ job' = [job EXCEPT ![h] = IdleJob]
  /\ refresh' = IF h \in Tasks /\ refresh.pc = "updating" THEN IdleRefresh ELSE refresh
  /\ UNCHANGED <<table, pm2, announced, starter, stop, load, aged>>

JobStep(h) == FindTask(h) \/ ApplyUpdate(h) \/ SaveUpdate(h) \/ RemoveProcess(h)

-----------------------------------------------------------------------------
(* stopTask *)

(* after the row is dealt with, a user's stop goes on to the process *)
Signal(w) == IF w = "user" THEN [pc |-> "signal", old |-> NoRow] ELSE IdleStop

(* Mutant of Found: an incomplete task is not cancelled.                    *)
FoundUnknown(t, w) ==
  IF ~Stored(rows[t]) THEN IdleStop
  ELSE IF rows[t].compl < Incomplete THEN [pc |-> "save", old |-> rows[t]]
  ELSE Signal(w)

(* Mutant of Found: a cancelled task is cancelled once more.                *)
FoundCancelled(t, w) ==
  IF ~Stored(rows[t]) THEN IdleStop
  ELSE IF rows[t].compl <= Cancel THEN [pc |-> "save", old |-> rows[t]]
  ELSE Signal(w)

(* findById and what follows from the row it returns *)
Found(t, w) ==
  IF ~Stored(rows[t]) THEN IdleStop
  ELSE IF rows[t].compl < Cancel THEN [pc |-> "save", old |-> rows[t]]
  ELSE Signal(w)

UserStop(t) ==
  /\ "stop" \in Disturbances
  /\ t \in used
  /\ stop[t]["user"].pc = "idle"
  /\ stop' = [stop EXCEPT ![t]["user"] = Found(t, "user")]
  /\ UNCHANGED <<table, pm2, announced, starter, job, refresh, load, aged, troubles>>

UpdateZombie(t) ==
  /\ stop[t]["sweep"].pc = "find"
  /\ stop' = [stop EXCEPT ![t]["sweep"] = Found(t, "sweep")]
  /\ UNCHANGED <<table, pm2, announced, starter, job, refresh, load, aged, troubles>>

SaveStop(t, w) ==
  /\ stop[t][w].pc = "save"
  /\ LET old == stop[t][w].old IN
     rows' = [rows EXCEPT ![t] = Save(rows[t], old, MarkCancelled(old))]
  /\ stop' = [stop EXCEPT ![t][w] = Signal(w)]
  /\ UNCHANGED <<used, pm2, announced, starter, job, refresh, load, aged, troubles>>

(* every error is caught: the call returns null *)
StopFails(t, w) ==
  /\ Fault
  /\ stop[t][w].pc = "save"
  /\ stop' = [stop EXCEPT ![t][w] = IdleStop]
  /\ UNCHANGED <<table, pm2, announced, starter, job, refresh, load, aged>>

(* pm2.stop: a process killed by the signal may have any exit code, and a   *)
(* process PM2 does not have is an error that is caught                     *)
SignalStop(t, w) ==
  /\ stop[t][w].pc = "signal"
  /\ IF proc[t] = "online"
     THEN /\ proc' = [proc EXCEPT ![t] = "stopped"]
          /\ \E e \in {"expected", "unexpected"} : exited' = [exited EXCEPT ![t] = e]
     ELSE UNCHANGED pm2
  /\ stop' = [stop EXCEPT ![t][w] = IdleStop]
  /\ UNCHANGED <<table, announced, starter, job, refresh, load, aged, troubles>>

StopStep(t, w) == SaveStop(t, w) \/ SignalStop(t, w)

-----------------------------------------------------------------------------
(* refreshAllTasks *)

(* Mutant of Known: PM2's list is cut down to what is online.               *)
KnownOnline == {t \in Tasks : proc[t] = "online"}

Known == {t \in Tasks : proc[t] \in {"online", "stopped"}}
RunningTasks == {t \in Tasks : rows[t].exec = Running}

(* the previous refresh's calls are over when the next one lists, 20        *)
(* seconds later                                                            *)
ListProcesses ==
  /\ refresh.pc = "idle"
  /\ \A t \in Tasks : job[t].pc = "idle"
  /\ refresh' = [pc |-> "listed", list |-> Known, running |-> {}]
  /\ \E report \in [Known -> [status : {JobOnline, JobStopped}, exit : ExitCodes]] :
       /\ \A t \in Known : report[t] \in Reports(t)
       /\ job' = [h \in Handlers |-> IF h \in Known
                                     THEN [pc |-> "listed", task |-> h, status |-> report[h].status,
                                           exit |-> report[h].exit, old |-> NoRow]
                                     ELSE job[h]]
  /\ UNCHANGED <<table, pm2, announced, starter, stop, load, aged, troubles>>

(* Mutant of FindRunning: the early return reports no load.                 *)
FindRunningSilently ==
  /\ refresh.pc = "listed"
  /\ refresh' = IF RunningTasks = {} THEN IdleRefresh
                ELSE [refresh EXCEPT !.pc = "updating", !.running = RunningTasks]
  /\ job' = [h \in Handlers |-> IF job[h].pc # "listed" THEN job[h]
                                ELSE IF RunningTasks = {} THEN IdleJob
                                ELSE [job[h] EXCEPT !.pc = "find"]]
  /\ UNCHANGED <<table, pm2, announced, starter, stop, load, aged, troubles>>

(* findRunning, with the early return that skips the list and reports 0 *)
FindRunning ==
  /\ refresh.pc = "listed"
  /\ IF RunningTasks = {}
     THEN /\ refresh' = IdleRefresh
          /\ load' = 0
     ELSE /\ refresh' = [refresh EXCEPT !.pc = "updating", !.running = RunningTasks]
          /\ UNCHANGED load
  /\ job' = [h \in Handlers |-> IF job[h].pc # "listed" THEN job[h]
                                ELSE IF RunningTasks = {} THEN IdleJob
                                ELSE [job[h] EXCEPT !.pc = "find"]]
  /\ UNCHANGED <<table, pm2, announced, starter, stop, aged, troubles>>

(* Mutant of SweepZombies: without the 15 minutes.                          *)
SweepAtOnce ==
  /\ refresh.pc = "updating"
  /\ \A t \in Tasks : job[t].pc = "idle"
  /\ LET zombies == refresh.running \ refresh.list IN
     stop' = [t \in Tasks |-> IF t \in zombies
                              THEN [stop[t] EXCEPT !["sweep"] = [pc |-> "find", old |-> NoRow]]
                              ELSE stop[t]]
  /\ refresh' = [refresh EXCEPT !.pc = "sweeping"]
  /\ UNCHANGED <<table, pm2, announced, starter, job, load, aged, troubles>>

(* running tasks that were not in the list, 15 minutes after their start *)
SweepZombies ==
  /\ refresh.pc = "updating"
  /\ \A t \in Tasks : job[t].pc = "idle"
  /\ LET zombies == (refresh.running \ refresh.list) \cap aged IN
     stop' = [t \in Tasks |-> IF t \in zombies
                              THEN [stop[t] EXCEPT !["sweep"] = [pc |-> "find", old |-> NoRow]]
                              ELSE stop[t]]
  /\ refresh' = [refresh EXCEPT !.pc = "sweeping"]
  /\ UNCHANGED <<table, pm2, announced, starter, job, load, aged, troubles>>

(* the load becomes that of the rows found running when the refresh began *)
NotifyTaskLoad ==
  /\ refresh.pc = "sweeping"
  /\ \A t \in Tasks : stop[t]["sweep"].pc = "idle"
  /\ load' = WorkUnits * Cardinality(refresh.running)
  /\ refresh' = IdleRefresh
  /\ UNCHANGED <<table, pm2, announced, starter, job, stop, aged, troubles>>

RefreshStep == ListProcesses \/ FindRunning \/ SweepZombies \/ NotifyTaskLoad

-----------------------------------------------------------------------------
(* removeCompletedExecutionsWithCode *)
RemoveWithCompletionCode(code) ==
  /\ \E t \in Tasks : Stored(rows[t]) /\ rows[t].compl = code
  /\ rows' = [t \in Tasks |-> IF rows[t].compl = code THEN NoRow ELSE rows[t]]
  /\ UNCHANGED <<used, pm2, announced, starter, job, stop, refresh, load, aged, troubles>>

-----------------------------------------------------------------------------
(* the environment *)

ProcessExits(t) ==
  /\ proc[t] = "online"
  /\ proc' = [proc EXCEPT ![t] = "stopped"]
  /\ \E e \in {"expected", "unexpected"} : exited' = [exited EXCEPT ![t] = e]
  /\ UNCHANGED <<table, announced, starter, job, stop, refresh, load, aged, troubles>>

(* A start, and a refresh that listed the processes before it, take less    *)
(* than 15 minutes together, which is what the delay is there for.          *)
FifteenMinutesPass(t) ==
  /\ rows[t].exec = Running
  /\ t \notin aged
  /\ ~Launching(t)
  /\ refresh.pc # "idle" => t \notin Known \ refresh.list
  /\ aged' = aged \cup {t}
  /\ UNCHANGED <<table, pm2, announced, starter, job, stop, refresh, load, troubles>>

(* the daemon dies with every process in its charge; the worker only logs *)
Pm2Killed ==
  /\ "kill" \in Disturbances
  /\ Known # {}
  /\ proc' = [t \in Tasks |-> IF t \in Known THEN "lost" ELSE proc[t]]
  /\ UNCHANGED <<table, exited, announced, starter, job, stop, refresh, load, aged, troubles>>

(* the worker dies and restarts: the table and the processes stay, every    *)
(* call in progress is gone and the load starts at 0                        *)
Crash ==
  /\ "crash" \in Disturbances
  /\ crashes + faults < MaxTroubles
  /\ crashes' = crashes + 1
  /\ UNCHANGED faults
  /\ starter' = IdleStarter
  /\ job' = [h \in Handlers |-> IdleJob]
  /\ stop' = [t \in Tasks |-> [w \in Stoppers |-> IdleStop]]
  /\ refresh' = IdleRefresh
  /\ load' = 0
  /\ UNCHANGED <<table, pm2, announced, aged>>

-----------------------------------------------------------------------------
Next ==
  \/ \E t \in Tasks : Admit(t)
  \/ AdmitFails
  \/ SaveRunning
  \/ Launch
  \/ RecordJob
  \/ StartFails
  \/ SaveError
  \/ SaveErrorFails
  \/ Respond
  \/ \E b \in BusSlots, t \in Tasks : BusEvent(b, t)
  \/ \E h \in Handlers : FindTask(h)
  \/ \E h \in Handlers : ApplyUpdate(h)
  \/ \E h \in Handlers : SaveUpdate(h)
  \/ \E h \in Handlers : RemoveProcess(h)
  \/ \E h \in Handlers : HandlerFails(h)
  \/ \E t \in Tasks : UserStop(t)
  \/ \E t \in Tasks : UpdateZombie(t)
  \/ \E t \in Tasks, w \in Stoppers : SaveStop(t, w)
  \/ \E t \in Tasks, w \in Stoppers : StopFails(t, w)
  \/ \E t \in Tasks, w \in Stoppers : SignalStop(t, w)
  \/ ListProcesses
  \/ FindRunning
  \/ SweepZombies
  \/ NotifyTaskLoad
  \/ \E code \in RemoveCodes : RemoveWithCompletionCode(code)
  \/ \E t \in Tasks : ProcessExits(t)
  \/ \E t \in Tasks : FifteenMinutesPass(t)
  \/ Pm2Killed
  \/ Crash

(* Node runs every continuation that is ready, the refresh is rescheduled   *)
(* whatever happens, tasks end, and time passes.  Requests, events on the   *)
(* bus and disturbances are never promised.                                 *)
Fairness ==
  /\ WF_vars(StarterStep)
  /\ \A h \in Handlers : WF_vars(JobStep(h))
  /\ \A t \in Tasks, w \in Stoppers : WF_vars(StopStep(t, w))
  /\ \A t \in Tasks : WF_vars(UpdateZombie(t))
  /\ WF_vars(RefreshStep)
  /\ \A t \in Tasks : WF_vars(ProcessExits(t)) /\ WF_vars(FifteenMinutesPass(t))

Spec == Init /\ [][Next]_vars
FairSpec == Spec /\ Fairness

-----------------------------------------------------------------------------
(* Properties *)

(* A task that runs has not completed: no interleaving of the starter's     *)
(* save with handlers, stops and their stale copies leaves a stamped row    *)
(* Running, where it would hold capacity for ever.                          *)
RunningNotCompleted ==
  \A t \in Tasks : rows[t].exec = Running => ~Stamped(rows[t])

(* Success is never recorded or announced for a process whose exit code is  *)
(* not the expected one, whichever of the handlers' copies wins.            *)
SuccessIsEarned ==
  \A t \in Tasks : rows[t].compl = Success \/ announced[t] = "success" => exited[t] = "expected"

(* Before the first fault, an Error is recorded only for a process that PM2 *)
(* reported with another exit code than the expected one.  With             *)
(* SuccessIsEarned, a result that a second report overwrites is never       *)
(* turned into its opposite.                                                *)
ErrorIsEarned ==
  faults = 0 => \A t \in Tasks : rows[t].compl = Error => exited[t] = "unexpected"

(* PM2's entry, which is the only other place that has the exit code, is    *)
(* deleted only after the completion is in the table (or the row is gone).  *)
RemovedOnlyAfterCompletionSaved ==
  \A t \in Tasks : proc[t] = "removed" => Stamped(rows[t]) \/ ~Stored(rows[t])

(* The coordinator is told first: a Success in the table was announced as   *)
(* such and, before the first fault, so was every other completion, so a    *)
(* restart can repeat a message but not lose it.                            *)
AnnouncedFirst ==
  \A t \in Tasks :
    /\ rows[t].compl = Success => announced[t] = "success"
    /\ faults = 0 /\ Stamped(rows[t]) => announced[t] # "nothing"

(* Before the first fault, a completed task has no live process: the only   *)
(* way to complete is a report that the process stopped.                    *)
CompletedMeansStopped ==
  faults = 0 =>
    \A t \in Tasks : Stamped(rows[t]) => proc[t] \notin {"none", "online"}

(* The sweep gives up no task whose process PM2 still has, although it      *)
(* compares a list of processes with rows that were read after it, and a    *)
(* task may be started between the two.                                     *)
LiveProcessNotSwept ==
  \A t \in Tasks : stop[t]["sweep"].pc # "idle" => proc[t] \notin {"online", "stopped"}

(* The start queue hangs only when something failed, or when the row it     *)
(* reads for its answer was removed.                                        *)
WedgedOnlyByLoss ==
  starter.pc = "wedged" => faults > 0 \/ ~Stored(rows[starter.task])

(* The inductive invariant: what ties the table, PM2's entries, the         *)
(* messages and the copies in flight to each other.                         *)
RowConsistent(t) ==
  /\ Stored(rows[t]) => t \in used
  /\ ~Stored(rows[t]) => rows[t] = NoRow
  /\ rows[t].exec = Completed => Stamped(rows[t])
  /\ rows[t].exec = Running => ~Stamped(rows[t])
  /\ rows[t].compl = Success => announced[t] = "success"
  /\ faults = 0 /\ Stamped(rows[t]) => announced[t] # "nothing"

ProcessConsistent(t) ==
  /\ proc[t] # "none" => t \in used
  /\ proc[t] = "removed" => Stamped(rows[t]) \/ ~Stored(rows[t])
  /\ announced[t] # "nothing" => proc[t] \notin {"none", "online"}
  /\ announced[t] = "success" => exited[t] = "expected"

StarterConsistent ==
  /\ starter.pc \notin {"idle", "wedged"} => starter.task \in used
  /\ starter.pc \in {"created", "launching"} =>
       proc[starter.task] = "none" /\ ~Stamped(rows[starter.task])
  /\ faults = 0 => starter.pc # "failing"

(* a report says no more than what PM2 still holds *)
ReportConsistent(j) ==
  /\ proc[j.task] # "none"
  /\ j.status \in {JobOnline, JobStopped}
  /\ j.status = JobStopped => proc[j.task] # "online"
  /\ j.exit # "none" => j.status = JobStopped /\ j.exit = exited[j.task]

(* a stamped copy is of a stamped row, or of one that is gone *)
CopyConsistent(j) ==
  /\ j.old.exec = Completed => Stamped(j.old)
  /\ Stamped(j.old) => Stamped(rows[j.task]) \/ ~Stored(rows[j.task])
  /\ j.old.compl = Success => announced[j.task] = "success"

JobConsistent(j) ==
  j.pc # "idle" =>
    /\ ReportConsistent(j)
    /\ j.pc \in {"apply", "save"} => CopyConsistent(j)
    /\ j.pc = "save" /\ j.status = JobStopped => announced[j.task] # "nothing"
    /\ j.pc = "save" /\ Updated(j).compl = Success => announced[j.task] = "success"
    /\ j.pc = "delete" => Stamped(rows[j.task]) \/ ~Stored(rows[j.task])

Consistent ==
  /\ \A t \in Tasks : RowConsistent(t)
  /\ \A t \in Tasks : ProcessConsistent(t)
  /\ StarterConsistent
  /\ \A h \in Handlers : JobConsistent(job[h])

(* Once stamped, a row stays stamped until it is removed, although every    *)
(* handler writes back a copy that may predate the stamp.                   *)
CompletionIsPermanent ==
  [][\A t \in Tasks : Stamped(rows[t]) => Stamped(rows'[t]) \/ ~Stored(rows'[t])]_rows

(* A task that was cancelled before its start made it running, and whose    *)
(* process is gone with no report of its end in handling                    *)
Forsaken(t) ==
  /\ rows[t].exec = Running /\ rows[t].compl = Cancel
  /\ proc[t] \in {"none", "lost"}
  /\ starter.task = t => starter.pc \in {"responding", "wedged"}
  /\ \A h \in Handlers : job[h].task = t => job[h].status = JobOnline
  /\ \A w \in Stoppers : stop[t][w].pc # "save"

(* Nothing repairs such a task: the guard of stopTask takes its Cancel for  *)
(* the sweep's, so it stays Running, and keeps its share of the capacity at *)
(* every refresh, until its row is removed.                                 *)
ForsakenRunsOn ==
  [][\A t \in Tasks : Forsaken(t) => Forsaken(t)' \/ ~Stored(rows'[t])]_vars

(* A process that stopped while no event reached the worker is found by the *)
(* refresh.                                                                 *)
MissedExitIsCaught ==
  \A t \in Tasks : proc[t] = "stopped" ~> (proc[t] # "stopped" \/ Stamped(rows[t]) \/ ~Stored(rows[t]))

(* A task that the table has running but that no longer has a process, and  *)
(* is not about to get one, does not stay running.                          *)
Abandoned(t) ==
  rows[t].exec = Running /\ proc[t] \in {"none", "lost"} /\ ~Launching(t)
LostTaskIsSwept == \A t \in Tasks : Abandoned(t) ~> ~Abandoned(t)

(* The load returns to 0 when the tasks are over, however often stale       *)
(* copies lowered it and stale refreshes replaced it.                       *)
LoadConverges == <>[](load = 0)

(* Every start is answered, and the queue moves on: only a fault, or the    *)
(* removal of the row before it is read for the answer, wedges the queue.   *)
StartIsAnswered ==
  starter.pc # "idle" ~>
    \/ starter.pc = "idle"
    \/ starter.pc = "wedged" /\ (faults > 0 \/ ~Stored(rows[starter.task]))

(* The table's rows live as TaskLifecycle says.                             *)
StatusLife(code) ==
  CASE code = Initializing -> "created"
    [] code = Running      -> "running"
    [] code = Zombie       -> "zombie"
    [] code = Completed    -> "completed"

Life(t) ==
  IF t \notin used THEN "none"
  ELSE IF ~Stored(rows[t]) THEN "removed"
  ELSE StatusLife(rows[t].exec)

lives        == [t \in Tasks |-> Life(t)]
stampedTasks == {t \in Tasks : Stamped(rows[t])}
pendingStart == {t \in Tasks : starter.pc = "created" /\ starter.task = t}

Lifecycle == INSTANCE TaskLifecycle WITH
  life <- lives, stamped <- stampedTasks, pending <- pendingStart

ImplementsLifecycle == Lifecycle!Spec

(* No more work units of live processes than the worker's capacity.         *)
WithinCapacity == WorkUnits * Cardinality({t \in Tasks : proc[t] = "online"}) <= Capacity

(* A recorded Success or Error is not changed again.                        *)
RecordedResultKept ==
  [][\A t \in Tasks : rows[t].compl \in {Success, Error} /\ Stored(rows'[t])
        => rows'[t].compl = rows[t].compl]_rows

(* A task that was created but whose start was forgotten is found as well.  *)
AbandonedStart(t) == rows[t].exec = Initializing /\ ~Launching(t)
AbandonedStartIsSwept == \A t \in Tasks : AbandonedStart(t) ~> ~AbandonedStart(t)

=============================================================================
