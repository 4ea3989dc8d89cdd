---------------------------- MODULE ClusterTasks ----------------------------
(***************************************************************************)
(* The cluster half of task execution: TaskSupervisor and LSFTaskManager,  *)
(* which submits a task with bsub, polls it with bjobs and stops it with   *)
(* bkill, each over ssh.                                                   *)
(*                                                                         *)
(* The tasks here are the ones for which startTask found no room in the    *)
(* local queue.  As in LocalTasks, a step is the code between two awaits.  *)
(* Three things differ from a local task: startTask returns before the job *)
(* is submitted, so the output of bsub is handled while the task is polled *)
(* and stopped; only the poll reports a job, and only of rows that are     *)
(* Running; and all the updates of one poll are applied in one step, since *)
(* nothing is awaited between bjobs' answer and the saves.                 *)
(***************************************************************************)
EXTENDS TaskExecution, FiniteSets

CONSTANTS
  Tasks,         (* tasks the coordinator may ask this worker to run         *)
  NoTask,        (* stands for no task                                       *)
  WorkUnits,     (* cluster_work_units, the same for every task              *)
  Capacity,      (* the worker's cluster_work_capacity                       *)
  RemoveCodes,   (* codes removeCompletedExecutionsWithCode is called with   *)
  Disturbances,  (* what the environment may do, of those named below        *)
  MaxTroubles    (* bound on restarts and faults together                    *)

ASSUME ConstantsAssumption ==
  /\ IsFiniteSet(Tasks)
  /\ NoTask \notin Tasks
  /\ WorkUnits \in Nat
  /\ Capacity \in Nat
  /\ RemoveCodes \subseteq CompletionResults
  /\ Disturbances \subseteq {"stop",    (* a user stops tasks                *)
                             "purge",   (* LSF forgets jobs that ended       *)
                             "crash",   (* the worker dies and restarts      *)
                             "faults"}  (* ssh, a save or the script fails   *)
  /\ MaxTroubles \in Nat

VARIABLES
  rows,       (* the TaskExecutions table, but for job_id                    *)
  used,       (* ids the table ever gave out                                 *)
  known,      (* tasks whose row has the job_id                              *)
  lsf,        (* LSF's state of each task's job                              *)
  purged,     (* jobs that ended and that bjobs no longer lists              *)
  announced,  (* tasks for which a completion was announced                  *)
  starter,    (* the start queue's worker                                    *)
  submit,     (* the ssh process that submits a task, and its copy of the row *)
  poll,       (* pollClusterJobStatus                                        *)
  update,     (* the saves of one poll                                       *)
  stop,       (* calls of stopTask                                           *)
  load,       (* _clusterTaskLoad                                            *)
  aged,       (* tasks whose started_at is more than 15 minutes ago          *)
  crashes,    (* restarts so far                                             *)
  faults      (* failures so far                                             *)

table   == <<rows, used, known>>
cluster == <<lsf, purged>>
troubles == <<crashes, faults>>
vars    == <<rows, used, known, lsf, purged, announced, starter, submit, poll, update, stop,
             load, aged, crashes, faults>>

Stoppers == {"user", "sweep"}

IdleStarter == [pc |-> "idle", task |-> NoTask]
IdleSubmit  == [pc |-> "idle", failed |-> FALSE]
IdlePoll    == [pc |-> "idle", running |-> {}, ids |-> {}, listed |-> {}]
IdleUpdate  == [pc |-> "idle", old |-> NoRow, status |-> JobPending]
IdleStop    == [pc |-> "idle", old |-> NoRow]

TypeOK ==
  /\ rows \in [Tasks -> Row]
  /\ used \subseteq Tasks /\ known \subseteq used
  /\ lsf \in [Tasks -> {"none", "pending", "running", "done", "exit"}]
  /\ purged \subseteq {t \in Tasks : lsf[t] \in {"done", "exit"}}
  /\ announced \subseteq Tasks
  /\ starter \in [pc : {"idle", "created", "submitting", "failing", "responding", "wedged"},
                  task : Tasks \cup {NoTask}]
  /\ submit \in [Tasks -> [pc : {"idle", "sent", "printed", "orphaned"}, failed : BOOLEAN]]
  /\ poll \in [pc : {"idle", "asked", "updating", "sweeping"},
               running : SUBSET Tasks, ids : SUBSET Tasks, listed : SUBSET Tasks]
  /\ update \in [Tasks -> [pc : {"idle", "read", "save"}, old : Row, status : JobStatuses]]
  /\ stop \in [Tasks -> [Stoppers -> [pc : {"idle", "find", "save", "signal"}, old : Row]]]
  /\ load \in Int
  /\ aged \subseteq Tasks
  /\ crashes \in Nat
  /\ faults \in Nat

Init ==
  /\ rows = [t \in Tasks |-> NoRow]
  /\ used = {} /\ known = {}
  /\ lsf = [t \in Tasks |-> "none"]
  /\ purged = {}
  /\ announced = {}
  /\ starter = IdleStarter
  /\ submit = [t \in Tasks |-> IdleSubmit]
  /\ poll = IdlePoll
  /\ update = [t \in Tasks |-> IdleUpdate]
  /\ stop = [t \in Tasks |-> [w \in Stoppers |-> IdleStop]]
  /\ load = 0
  /\ aged = {}
  /\ crashes = 0 /\ faults = 0

(* something that the worker asked of ssh, the table or the disk fails *)
Fault ==
  /\ "faults" \in Disturbances
  /\ crashes + faults < MaxTroubles
  /\ faults' = faults + 1
  /\ UNCHANGED crashes

-----------------------------------------------------------------------------
(* startTask *)

Admit(t) ==
  /\ starter.pc = "idle"
  /\ t \notin used
  /\ Capacity - load >= WorkUnits
  /\ rows' = [rows EXCEPT ![t] = InitialRow]
  /\ used' = used \cup {t}
  /\ starter' = [pc |-> "created", task |-> t]
  /\ UNCHANGED <<known, cluster, announced, submit, poll, update, stop, load, aged, troubles>>

(* the INSERT is outside the try block: the queue's worker never calls back *)
AdmitFails ==
  /\ Fault
  /\ starter.pc = "idle"
  /\ Capacity - load >= WorkUnits
  /\ starter' = [pc |-> "wedged", task |-> NoTask]
  /\ UNCHANGED <<table, cluster, announced, submit, poll, update, stop, load, aged>>

StarterMoves(from, to) ==
  /\ starter.pc = from
  /\ starter' = [starter EXCEPT !.pc = to]

SaveRunning ==
  /\ StarterMoves("created", "submitting")
  /\ LET t == starter.task IN
     rows' = [rows EXCEPT ![t] = Save(rows[t], InitialRow, MarkRunning(InitialRow))]
  /\ UNCHANGED <<used, known, cluster, announced, submit, poll, update, stop, load, aged, troubles>>

(* the script is written and ssh is spawned; nothing is awaited, so the     *)
(* load is raised at once                                                   *)
Submit ==
  /\ StarterMoves("submitting", "responding")
  /\ submit' = [submit EXCEPT ![starter.task] = [pc |-> "sent", failed |-> FALSE]]
  /\ load' = load + WorkUnits
  /\ UNCHANGED <<table, cluster, announced, poll, update, stop, aged, troubles>>

(* a directory, the save or the script fails *)
StartFails ==
  /\ Fault
  /\ starter.pc \in {"created", "submitting"}
  /\ starter' = [starter EXCEPT !.pc = "failing"]
  /\ UNCHANGED <<table, cluster, announced, submit, poll, update, stop, load, aged>>

SaveError ==
  /\ StarterMoves("failing", "responding")
  /\ LET t == starter.task IN
     rows' = [rows EXCEPT ![t] = Save(rows[t], InitialRow, MarkError(InitialRow))]
  /\ UNCHANGED <<used, known, cluster, announced, submit, poll, update, stop, load, aged, troubles>>

(* The save in the catch block throws out of startTask: what failed the     *)
(* start may last, so this is no further fault.                             *)
SaveErrorFails ==
  /\ StarterMoves("failing", "wedged")
  /\ UNCHANGED <<table, cluster, announced, submit, poll, update, stop, load, aged, troubles>>

(* Mutant of Respond: only a task that is still running is answered.        *)
RespondRunning ==
  /\ starter.pc = "responding"
  /\ starter' = IF rows[starter.task].exec = Running THEN IdleStarter
                ELSE [starter EXCEPT !.pc = "wedged"]
  /\ UNCHANGED <<table, cluster, announced, submit, poll, update, stop, load, aged, troubles>>

(* the row is read again for the answer; .get() of a missing row throws *)
Respond ==
  /\ starter.pc = "responding"
  /\ starter' = IF Stored(rows[starter.task]) THEN IdleStarter
                ELSE [starter EXCEPT !.pc = "wedged"]
  /\ UNCHANGED <<table, cluster, announced, submit, poll, update, stop, load, aged, troubles>>

StarterStep == SaveRunning \/ Submit \/ SaveError \/ Respond

-----------------------------------------------------------------------------
(* the ssh process that runs bsub, and the handlers of its output *)

(* LSF takes the job; a worker that died meanwhile does not undo that *)
BsubAccepts(t) ==
  /\ submit[t].pc \in {"sent", "orphaned"}
  /\ lsf[t] = "none"
  /\ lsf' = [lsf EXCEPT ![t] = "pending"]
  /\ UNCHANGED <<table, purged, announced, starter, submit, poll, update, stop, load, aged, troubles>>

(* "data" with the job's number, which is saved *)
SubmitPrints(t) ==
  /\ submit[t].pc = "sent"
  /\ lsf[t] # "none"
  /\ submit' = [submit EXCEPT ![t].pc = "printed"]
  /\ known' = IF Stored(rows[t]) THEN known \cup {t} ELSE known
  /\ UNCHANGED <<rows, used, cluster, announced, starter, poll, update, stop, load, aged, troubles>>

(* "data" without a number: the copy is marked, and saved at the close *)
SubmitGarbles(t) ==
  /\ Fault
  /\ submit[t].pc \in {"sent", "printed"}
  /\ submit' = [submit EXCEPT ![t] = [pc |-> "printed", failed |-> TRUE]]
  /\ UNCHANGED <<table, cluster, announced, starter, poll, update, stop, load, aged>>

(* "close": when the output was garbled, the copy the task was started with *)
(* is saved once more, with an Error                                        *)
SaveSubmitError(t) ==
  LET old == MarkRunning(InitialRow) IN
  rows' = [rows EXCEPT ![t] = Save(rows[t], old, MarkError(old))]

(* Mutant of SubmitCloses: the exit code of ssh is not looked at.           *)
SubmitClosesInError(t) ==
  /\ submit[t].pc = "printed"
  /\ SaveSubmitError(t)
  /\ submit' = [submit EXCEPT ![t] = IdleSubmit]
  /\ UNCHANGED <<used, known, cluster, announced, starter, poll, update, stop, load, aged, troubles>>

SubmitCloses(t) ==
  /\ submit[t].pc = "printed"
  /\ IF submit[t].failed THEN SaveSubmitError(t) ELSE UNCHANGED rows
  /\ submit' = [submit EXCEPT ![t] = IdleSubmit]
  /\ UNCHANGED <<used, known, cluster, announced, starter, poll, update, stop, load, aged, troubles>>

(* ssh ends with an error, perhaps after bsub took the job: LSF may take it *)
(* even later                                                               *)
SubmitBreaks(t) ==
  /\ Fault
  /\ submit[t].pc \in {"sent", "printed"}
  /\ SaveSubmitError(t)
  /\ submit' = [submit EXCEPT ![t] = [pc |-> IF submit[t].pc = "sent" THEN "orphaned" ELSE "idle",
                                      failed |-> FALSE]]
  /\ UNCHANGED <<used, known, cluster, announced, starter, poll, update, stop, load, aged>>

-----------------------------------------------------------------------------
(* refreshAllJobs *)

RunningTasks == {t \in Tasks : rows[t].exec = Running}

(* Mutant of FindRunning: the early return reports no load.                 *)
FindRunningSilently ==
  /\ poll.pc = "idle"
  /\ \A t \in Tasks : update[t].pc = "idle"
  /\ RunningTasks # {}
  /\ poll' = [pc |-> "asked", running |-> RunningTasks, ids |-> RunningTasks \cap known, listed |-> {}]
  /\ update' = [t \in Tasks |-> IF t \in RunningTasks
                                THEN [pc |-> "read", old |-> rows[t], status |-> JobPending]
                                ELSE IdleUpdate]
  /\ UNCHANGED <<table, cluster, announced, starter, submit, stop, load, aged, troubles>>

(* findRunning; the rows read here are the copies the updates are made to.  *)
(* When there are none the poll is over and reports 0.                      *)
FindRunning ==
  /\ poll.pc = "idle"
  /\ \A t \in Tasks : update[t].pc = "idle"
  /\ IF RunningTasks = {}
     THEN /\ load' = 0
          /\ UNCHANGED <<poll, update>>
     ELSE /\ poll' = [pc |-> "asked", running |-> RunningTasks, ids |-> RunningTasks \cap known,
                      listed |-> {}]
          /\ update' = [t \in Tasks |-> IF t \in RunningTasks
                                        THEN [pc |-> "read", old |-> rows[t], status |-> JobPending]
                                        ELSE IdleUpdate]
          /\ UNCHANGED load
  /\ UNCHANGED <<table, cluster, announced, starter, submit, stop, aged, troubles>>

StatusOf(state) ==
  CASE state = "pending" -> JobPending
    [] state = "running" -> JobOnline
    [] state = "done"    -> JobStopped
    [] state = "exit"    -> JobExited

Updated(t) == UpdateCluster(update[t].old, update[t].status)

(* The tasks that go from unstamped to stamped when listed jobs are applied *)
Ending(listed) ==
  {t \in listed : StatusOf(lsf[t]) >= JobStopped /\ ~Stamped(update[t].old)}

(* bjobs answers; every match is updated and announced before the first     *)
(* save is begun                                                            *)
Answered(listed) ==
  /\ update' = [t \in Tasks |-> IF t \in listed
                                THEN [update[t] EXCEPT !.pc = "save", !.status = StatusOf(lsf[t])]
                                ELSE IdleUpdate]
  /\ announced' = announced \cup {t \in listed : StatusOf(lsf[t]) >= JobStopped}
  /\ load' = load - WorkUnits * Cardinality(Ending(listed))
  /\ poll' = [poll EXCEPT !.pc = "updating", !.listed = listed]

Listed == {t \in poll.ids : lsf[t] # "none" /\ t \notin purged}

JobsListed ==
  /\ poll.pc = "asked"
  /\ Answered(Listed)
  /\ UNCHANGED <<table, cluster, starter, submit, stop, aged, troubles>>

(* lines of the answer that cannot be parsed are left out *)
AnswerGarbled ==
  /\ Fault
  /\ poll.pc = "asked"
  /\ \E parsed \in SUBSET Listed : Answered(parsed)
  /\ UNCHANGED <<table, cluster, starter, submit, stop, aged>>

(* ssh fails: the poll gives up and reports nothing *)
PollFails ==
  /\ Fault
  /\ poll.pc = "asked"
  /\ poll' = IdlePoll
  /\ update' = [t \in Tasks |-> IdleUpdate]
  /\ UNCHANGED <<table, cluster, announced, starter, submit, stop, load, aged>>

(* a pending job's started_at is moved up *)
SaveUpdate(t) ==
  /\ update[t].pc = "save"
  /\ rows' = [rows EXCEPT ![t] = Save(rows[t], update[t].old, Updated(t))]
  /\ aged' = IF update[t].status = JobPending /\ Stored(rows[t]) THEN aged \ {t} ELSE aged
  /\ update' = [update EXCEPT ![t] = IdleUpdate]
  /\ UNCHANGED <<used, known, cluster, announced, starter, submit, poll, stop, load, troubles>>

SaveUpdateFails(t) ==
  /\ Fault
  /\ update[t].pc = "save"
  /\ update' = [update EXCEPT ![t] = IdleUpdate]
  /\ poll' = IdlePoll
  /\ UNCHANGED <<table, cluster, announced, starter, submit, stop, load, aged>>

(* Mutant of SweepZombies: without the 15 minutes.                          *)
SweepAtOnce ==
  /\ poll.pc = "updating"
  /\ \A t \in Tasks : update[t].pc = "idle"
  /\ LET zombies == poll.running \ poll.listed IN
     stop' = [t \in Tasks |-> IF t \in zombies
                              THEN [stop[t] EXCEPT !["sweep"] = [pc |-> "find", old |-> NoRow]]
                              ELSE stop[t]]
  /\ poll' = [poll EXCEPT !.pc = "sweeping"]
  /\ UNCHANGED <<table, cluster, announced, starter, submit, update, load, aged, troubles>>

(* running tasks that bjobs did not list, 15 minutes after their start *)
SweepZombies ==
  /\ poll.pc = "updating"
  /\ \A t \in Tasks : update[t].pc = "idle"
  /\ LET zombies == (poll.running \ poll.listed) \cap aged IN
     stop' = [t \in Tasks |-> IF t \in zombies
                              THEN [stop[t] EXCEPT !["sweep"] = [pc |-> "find", old |-> NoRow]]
                              ELSE stop[t]]
  /\ poll' = [poll EXCEPT !.pc = "sweeping"]
  /\ UNCHANGED <<table, cluster, announced, starter, submit, update, load, aged, troubles>>

NotifyTaskLoad ==
  /\ poll.pc = "sweeping"
  /\ \A t \in Tasks : stop[t]["sweep"].pc = "idle"
  /\ load' = WorkUnits * Cardinality(poll.running)
  /\ poll' = IdlePoll
  /\ UNCHANGED <<table, cluster, announced, starter, submit, update, stop, aged, troubles>>

PollStep == FindRunning \/ JobsListed \/ SweepZombies \/ NotifyTaskLoad

-----------------------------------------------------------------------------
(* stopTask *)

Signal(w) == IF w = "user" THEN [pc |-> "signal", old |-> NoRow] ELSE IdleStop

(* Mutant of Found: a cancelled task is cancelled once more.                *)
FoundCancelled(t, w) ==
  IF ~Stored(rows[t]) THEN IdleStop
  ELSE IF rows[t].compl <= Cancel THEN [pc |-> "save", old |-> rows[t]]
  ELSE Signal(w)

(* Mutant of Found: an incomplete task is not cancelled.                    *)
FoundUnknown(t, w) ==
  IF ~Stored(rows[t]) THEN IdleStop
  ELSE IF rows[t].compl < Incomplete THEN [pc |-> "save", old |-> rows[t]]
  ELSE Signal(w)

Found(t, w) ==
  IF ~Stored(rows[t]) THEN IdleStop
  ELSE IF rows[t].compl < Cancel THEN [pc |-> "save", old |-> rows[t]]
  ELSE Signal(w)

UserStop(t) ==
  /\ "stop" \in Disturbances
  /\ t \in used
  /\ stop[t]["user"].pc = "idle"
  /\ stop' = [stop EXCEPT ![t]["user"] = Found(t, "user")]
  /\ UNCHANGED <<table, cluster, announced, starter, submit, poll, update, load, aged, troubles>>

UpdateZombie(t) ==
  /\ stop[t]["sweep"].pc = "find"
  /\ stop' = [stop EXCEPT ![t]["sweep"] = Found(t, "sweep")]
  /\ UNCHANGED <<table, cluster, announced, starter, submit, poll, update, load, aged, troubles>>

SaveStop(t, w) ==
  /\ stop[t][w].pc = "save"
  /\ LET old == stop[t][w].old IN
     rows' = [rows EXCEPT ![t] = Save(rows[t], old, MarkCancelled(old))]
  /\ stop' = [stop EXCEPT ![t][w] = Signal(w)]
  /\ UNCHANGED <<used, known, cluster, announced, starter, submit, poll, update, load, aged, troubles>>

(* bkill, with the job_id the row has by now; without one, and for a job    *)
(* that is over, it fails, which is caught                                  *)
KillJob(t) ==
  /\ stop[t]["user"].pc = "signal"
  /\ lsf' = IF t \in known /\ Stored(rows[t]) /\ lsf[t] \in {"pending", "running"}
            THEN [lsf EXCEPT ![t] = "exit"] ELSE lsf
  /\ stop' = [stop EXCEPT ![t]["user"] = IdleStop]
  /\ UNCHANGED <<table, purged, announced, starter, submit, poll, update, load, aged, troubles>>

StopFails(t, w) ==
  /\ Fault
  /\ stop[t][w].pc \in {"save", "signal"}
  /\ stop' = [stop EXCEPT ![t][w] = IdleStop]
  /\ UNCHANGED <<table, cluster, announced, starter, submit, poll, update, load, aged>>

-----------------------------------------------------------------------------
(* removeCompletedExecutionsWithCode *)
RemoveWithCompletionCode(code) ==
  /\ \E t \in Tasks : Stored(rows[t]) /\ rows[t].compl = code
  /\ rows' = [t \in Tasks |-> IF rows[t].compl = code THEN NoRow ELSE rows[t]]
  /\ UNCHANGED <<used, known, cluster, announced, starter, submit, poll, update, stop, load, aged,
                 troubles>>

-----------------------------------------------------------------------------
(* the environment *)

JobRuns(t) ==
  /\ lsf[t] = "pending"
  /\ lsf' = [lsf EXCEPT ![t] = "running"]
  /\ UNCHANGED <<table, purged, announced, starter, submit, poll, update, stop, load, aged, troubles>>

JobEnds(t) ==
  /\ lsf[t] = "running"
  /\ \E end \in {"done", "exit"} : lsf' = [lsf EXCEPT ![t] = end]
  /\ UNCHANGED <<table, purged, announced, starter, submit, poll, update, stop, load, aged, troubles>>

JobPurged(t) ==
  /\ "purge" \in Disturbances
  /\ lsf[t] \in {"done", "exit"}
  /\ t \notin purged
  /\ purged' = purged \cup {t}
  /\ UNCHANGED <<table, lsf, announced, starter, submit, poll, update, stop, load, aged, troubles>>

(* A start, bsub's answer and a poll that began before that answer take     *)
(* less than 15 minutes together.                                           *)
Submitting(t) ==
  \/ starter.pc \in {"created", "submitting"} /\ starter.task = t
  \/ submit[t].pc \in {"sent", "printed"}
  \/ poll.pc # "idle" /\ t \in known \cap (poll.running \ poll.ids)

FifteenMinutesPass(t) ==
  /\ rows[t].exec = Running
  /\ t \notin aged
  /\ ~Submitting(t)
  /\ aged' = aged \cup {t}
  /\ UNCHANGED <<table, cluster, announced, starter, submit, poll, update, stop, load, troubles>>

Crash ==
  /\ "crash" \in Disturbances
  /\ crashes + faults < MaxTroubles
  /\ crashes' = crashes + 1
  /\ UNCHANGED faults
  /\ starter' = IdleStarter
  /\ submit' = [t \in Tasks |-> IF submit[t].pc = "sent" THEN [pc |-> "orphaned", failed |-> FALSE]
                                ELSE IF submit[t].pc = "orphaned" THEN submit[t] ELSE IdleSubmit]
  /\ poll' = IdlePoll
  /\ update' = [t \in Tasks |-> IdleUpdate]
  /\ stop' = [t \in Tasks |-> [w \in Stoppers |-> IdleStop]]
  /\ load' = 0
  /\ UNCHANGED <<table, cluster, announced, aged>>

-----------------------------------------------------------------------------
Next ==
  \/ \E t \in Tasks : Admit(t)
  \/ AdmitFails
  \/ SaveRunning
  \/ Submit
  \/ StartFails
  \/ SaveError
  \/ SaveErrorFails
  \/ Respond
  \/ \E t \in Tasks : BsubAccepts(t)
  \/ \E t \in Tasks : SubmitPrints(t)
  \/ \E t \in Tasks : SubmitGarbles(t)
  \/ \E t \in Tasks : SubmitCloses(t)
  \/ \E t \in Tasks : SubmitBreaks(t)
  \/ FindRunning
  \/ JobsListed
  \/ AnswerGarbled
  \/ PollFails
  \/ \E t \in Tasks : SaveUpdate(t)
  \/ \E t \in Tasks : SaveUpdateFails(t)
  \/ SweepZombies
  \/ NotifyTaskLoad
  \/ \E t \in Tasks : UserStop(t)
  \/ \E t \in Tasks : UpdateZombie(t)
  \/ \E t \in Tasks, w \in Stoppers : SaveStop(t, w)
  \/ \E t \in Tasks : KillJob(t)
  \/ \E t \in Tasks, w \in Stoppers : StopFails(t, w)
  \/ \E code \in RemoveCodes : RemoveWithCompletionCode(code)
  \/ \E t \in Tasks : JobRuns(t)
  \/ \E t \in Tasks : JobEnds(t)
  \/ \E t \in Tasks : JobPurged(t)
  \/ \E t \in Tasks : FifteenMinutesPass(t)
  \/ Crash

(* Node runs what is ready, the poll is rescheduled whatever happens, ssh   *)
(* ends, jobs run and end, and time passes.                                 *)
Fairness ==
  /\ WF_vars(StarterStep)
  /\ WF_vars(PollStep)
  /\ \A t \in Tasks :
       /\ WF_vars(submit[t].pc = "sent" /\ BsubAccepts(t))
       /\ WF_vars(SubmitPrints(t) \/ SubmitCloses(t))
       /\ WF_vars(SaveUpdate(t))
       /\ WF_vars(UpdateZombie(t))
       /\ \A w \in Stoppers : WF_vars(SaveStop(t, w))
       /\ WF_vars(KillJob(t))
       /\ WF_vars(JobRuns(t) \/ JobEnds(t))
       /\ WF_vars(FifteenMinutesPass(t))

Spec == Init /\ [][Next]_vars
FairSpec == Spec /\ Fairness

-----------------------------------------------------------------------------
(* Properties *)

(* Success is recorded only for a job that LSF reported done, and after the *)
(* coordinator was told.                                                    *)
SuccessIsEarned ==
  \A t \in Tasks : rows[t].compl = Success => lsf[t] = "done" /\ t \in announced

(* Before the first fault, an Error is recorded only for a job that LSF      *)
(* reported as exited, whatever the row was when the poll read it.          *)
ErrorIsEarned ==
  faults = 0 => \A t \in Tasks : rows[t].compl = Error => lsf[t] = "exit"

(* Before the first fault, a recorded result is not lost: the late save of  *)
(* a stop may turn it into a Cancel, but no copy of the poll brings back an *)
(* older state.                                                             *)
ResultIsKept ==
  [][faults' = 0 =>
       \A t \in Tasks : rows[t].compl \in {Success, Error} /\ Stored(rows'[t])
         => rows'[t].compl \in {rows[t].compl, Cancel}]_vars

(* Before the first fault, a completed task has no job left in the cluster, *)
(* and the coordinator was told before the table.                           *)
CompletedMeansEnded ==
  faults = 0 =>
    \A t \in Tasks : Stamped(rows[t]) => lsf[t] \in {"done", "exit"} /\ t \in announced

(* Before the first fault, a task is swept only when bjobs cannot list its  *)
(* job: LSF forgot the job, or a restart lost its job_id.  A poll that      *)
(* began before the job_id was saved does not sweep it either.              *)
LiveJobNotSwept ==
  faults = 0 =>
    \A t \in Tasks : stop[t]["sweep"].pc # "idle" => t \notin known \/ t \in purged

(* The start queue hangs only when something failed, or when the row it     *)
(* reads for its answer was removed.                                        *)
WedgedOnlyByLoss ==
  starter.pc = "wedged" => faults > 0 \/ ~Stored(rows[starter.task])

(* A task that was cancelled before its start made it running, whose job    *)
(* bjobs will never list (again), and of which nothing is in handling       *)
Forsaken(t) ==
  /\ rows[t].exec = Running /\ rows[t].compl = Cancel
  /\ \/ t \in purged
     \/ t \notin known /\ submit[t].pc \in {"idle", "orphaned"}
  /\ starter.task = t => starter.pc \in {"responding", "wedged"}
  /\ submit[t].pc = "printed" => ~submit[t].failed
  /\ update[t].pc = "save" => update[t].status < JobStopped
  /\ \A w \in Stoppers : stop[t][w].pc # "save"

(* Nothing repairs such a task: the guard of stopTask takes its Cancel for  *)
(* the sweep's, so only a failure of its ssh, if that is still there, ends  *)
(* it.  Otherwise it stays Running, and keeps its share of the capacity,    *)
(* until its row is removed.                                                *)
ForsakenRunsOn ==
  [][\A t \in Tasks : Forsaken(t) => Forsaken(t)' \/ ~Stored(rows'[t]) \/ faults' > faults]_vars

(* Once stamped, a row stays stamped until it is removed, although the poll *)
(* and the submission both write back old copies.                           *)
CompletionIsPermanent ==
  [][\A t \in Tasks : Stamped(rows[t]) => Stamped(rows'[t]) \/ ~Stored(rows'[t])]_rows

(* A job that ended is noticed, or the task is given up, even when LSF      *)
(* forgot it or a restart lost its job_id.  The exception is a task that    *)
(* was cancelled while it was being started: it runs, and the sweep takes   *)
(* its cancel for its own.                                                  *)
EndIsNoticed ==
  \A t \in Tasks :
    lsf[t] \in {"done", "exit"} ~> rows[t].exec # Running \/ rows[t].compl = Cancel

(* The load returns to that of the running rows, 0 when the tasks are over, *)
(* however often restarts, failed saves and stale polls made it wrong.      *)
LoadConverges == <>[](load = WorkUnits * Cardinality(RunningTasks))

(* The table's rows live as TaskLifecycle says.                             *)
StatusLife(code) ==
  CASE code = Initializing -> "created"
    [] code = Running      -> "running"
    [] code = Zombie       -> "zombie"
    [] code = Completed    -> "completed"

Life(t) ==
  IF t \notin used THEN "none"
  ELSE IF ~Stored(rows[t]) THEN "removed"
  ELSE StatusLife(rows[t].exec)

lives        == [t \in Tasks |-> Life(t)]
stampedTasks == {t \in Tasks : Stamped(rows[t])}
pendingStart == {t \in Tasks : starter.pc = "created" /\ starter.task = t}

Lifecycle == INSTANCE TaskLifecycle WITH
  life    <- lives,
  stamped <- stampedTasks,
  pending <- pendingStart

ImplementsLifecycle == Lifecycle!Spec

=============================================================================
