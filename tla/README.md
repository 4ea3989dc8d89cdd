# Verification of the pipeline worker

TLA+ models of the MouseLight pipeline worker: the Node process that takes tasks from a
coordinator, runs them as local processes under PM2 or as jobs of an LSF cluster, keeps their
rows in a local sqlite table, and announces their ends on a message queue.  The models are
checked by TLC on small instances; the safety properties that hold are also theorems, which TLAPS
checks for every value of the constants.

Paths below are relative to `src/server/`.

## 1. The system

| Component | State | Operations | Interacts with |
|---|---|---|---|
| Task table, `data-model/sequelize/taskExecution.ts` | rows | create, save of the changed columns, `findById`, `findRunning`, `getPage`, `removeWithCompletionCode` | read and written by everything below |
| Task supervisor, `task-management/taskSupervisor.ts` | `_localTaskLoad`, `_clusterTaskLoad`, the start queue | `startTask` (one at a time), `stopTask`, `update`, `updateZombie`, `notifyTaskLoad` | calls both managers and the message queue; is their delegate |
| Local task manager, `task-management/localTaskManager.ts` | none | bus events, refresh every 20 s, `startTask`, `stopTask` | PM2, table, supervisor |
| PM2 client, `task-management/pm2-async.ts` | the processes, in the PM2 daemon | start, stop, list, delete, bus | local task manager |
| Cluster task manager, `task-management/lsfManager.ts` | none | submit by ssh and bsub, poll every 20 s, `stopTask` | LSF client, table, supervisor |
| LSF client, `task-management/lsf.ts` | the jobs, in LSF | bjobs, bkill | cluster task manager |
| Message queue client, `message-queue/mainQueue.ts` | `_connection`, `_channel`, `_lastConnectAttempt` | lazy connect, two sends | supervisor |
| Result synchronization, `data-access/synchronize.ts` | `sync_status`, `synchronized_at` of rows | watchdog, synchronize per code every 15 s | called by the supervisor's loop; table; remote writes are commented out |
| Coordinator connection, `io/serverConnection.ts` | socket, heartbeat interval, the record it was given | connect handler, heartbeat | table, worker record |
| Local database connector, `data-access/local/databaseConnector.ts` | worker record | authenticate with retry | everything asks it for the record |
| Worker record, `data-model/sequelize/worker.ts` | capacities, in memory and in a table | updateFromInput | API, supervisor, heartbeat |
| GraphQL API, `graphql/` | none | queries, pages, start, stop, remove, updateWorker | supervisor, table, worker record |
| Start, `pipelineWorkerApp.ts` | none | the order in which the above are started | all |

The rest (remote connector, options, machine properties, task definitions and repositories,
migrations, build and deployment scripts) keeps no state that the worker changes.

What is hard here:

- *Interleaving.*  Node runs one continuation at a time, so a step is the code between two
  awaits, but a start, several bus events, a refresh, a user's stop and a zombie sweep can be
  between two awaits at once.  Each reads a row, waits for `ps`, PM2, ssh or the message queue,
  and saves its own copy.  `save()` writes the columns the copy changed, nothing else; all the
  safety of the rows rests on that.
- *Two keepers of the load.*  The supervisor raises and lowers it; the refreshes replace it
  with a sum over rows they read earlier.
- *Crashes.*  The table and the processes survive a restart; calls in progress and both loads
  do not.
- *Unreliable reports.*  PM2's bus promises nothing; a report can say stopped without the exit
  code; bjobs can fail, be unreadable, or have forgotten a job.
- *One connection for many senders*, made by whichever finds none, whose fields are written by
  the continuations of calls and by the close handlers of all connections there ever were.
- *A start queue with one worker*, which goes on only if `startTask` does not throw.
- *A start that goes on without its record.*  When the first authenticate fails, everything is
  started with an undefined worker, and each part has its own idea of when that is over.
- *Pages of a moving table.*  A client walks by offsets through rows that end, end a second time,
  change their code, appear and go, and each query counts all rows first and lists those with its
  status later.

What makes each component correct is stated as the properties of section 3; PROJECT.json lists
every hazard at its line, with the properties that would catch it going wrong.

## 2. The modules

| Module | What it is |
|---|---|
| `TaskExecution` | a row (execution status, completion result, whether `completed_at` is set), `Save`, and the pure functions startTask, stopTask and `_update` apply to a copy of a row |
| `TaskLifecycle` | the abstract specification: what the table promises of a task's life, without handlers, copies or processes |
| `LocalTasks` | supervisor, local task manager and PM2: the table, PM2's entries, the starter, the handlers, the stops, the refresh, the load |
| `MCLocalTasks` | `LocalTasks` with the symmetry sets for TLC |
| `LocalLoad` | `LocalTasks` with a history variable that says whether everything so far was in order, and what the load and the capacity are then |
| `MCLocalLoad` | `LocalLoad` with the symmetry sets and the constraint for TLC |
| `ClusterTasks` | supervisor, cluster task manager and LSF |
| `MainQueue` | the message queue client |
| `Synchronize` | the supervisor's synchronization loop and what it does to the marks of the rows |
| `WorkerService` | the start of the worker, authenticate, the socket with its heartbeats and `updateWorker`, composed with the loop of `Synchronize` |
| `TaskPages` | the two paged queries and a client that walks through the pages |
| `TaskExecutionProofs` | lemmas about the functions of `TaskExecution` |
| `LocalTasksProofs` | the theorems about `LocalTasks` |
| `LocalLoadProofs` | the theorems about the load and the capacity |
| `ClusterTasksProofs` | the theorems about `ClusterTasks` |
| `WorkerServiceProofs` | the theorems about `WorkerService`, and so about `Synchronize` within it |
| `MainQueueProofs` | the theorems about `MainQueue` |
| `TaskPagesProofs` | the theorems about `TaskPages` |

`LocalTasks` and `ClusterTasks` extend `TaskExecution` and both implement `TaskLifecycle`.
`WorkerService` extends `Synchronize` and takes its actions as its own: the loop begins only
under a record that `authenticate` loaded, requests come only through an API that is open, and a
restart of the service is a restart of the loop.
Mutants of an operator (a plausible bug each, used to show that a property can fail) stand
before it and say so.

**`LocalLoad`** adds no behaviour to `LocalTasks`: `orderly` only records whether `Order` held in
every state so far, so each of its properties is about every run of the worker up to the first
state that is out of order.  What is out of order is named in `Order`: a fault or a restart, a
user's stop, the death of PM2, the removal of a row, a refresh that read the rows before a start
that was counted since (`StartOverlooked`), and two handlers that are each about to stamp the same
row (`TwoStampings`).

**How `LocalTasks` corresponds to the code.**  `starter` is the start queue's worker; its `pc`
is where `startTask` waits: `created` (row inserted), `launching` (row saved as running, PM2
asked), `recording` (process started, job_id to be saved), `failing` (the catch block),
`responding`, and `wedged` when `startTask` threw and the queue will never go on.  `job[h]` is a
call of `refreshOneTaskForProcess`: `listed` (in the refresh's list, not yet called), `find`
(before `findById`), `apply` (copy read, statistics being read), `save` (load lowered and
message sent, row to be saved), `delete`.  A handler `h` is either a bus slot or, for the
refresh, the task whose entry it handles.  `stop[t][w]` is a call of `stopTask`, by a user or by
the sweep.  `refresh` keeps the process list and the running rows it read.  `proc` is PM2's
entry: `stopped` is still listed, `removed` was deleted by the worker, `lost` went with the
daemon.

**`ClusterTasks`** differs where the code does: the load is raised when ssh is spawned, the
output of bsub is handled while the task is already polled (`submit`; `orphaned` is an ssh whose
output nobody reads any more), `known` says that the row has its job_id, and the updates of one
poll are all applied in the step in which bjobs answers, because the code awaits nothing between
the answer and the saves but the message queue.

**`MainQueue`** separates what the network does from the code that awaits it.  A reply or a loss
only settles promises (`got` in a call's record) and runs the close handler; `Resume` is the code
between two awaits, and any number of events may come before it: a connection may be lost between
the reply that opens a channel and the assignment of `_channel`, or while the catch block waits for
`close()`, which amqplib then never settles.  `on` is the connection whose answer a call waits for
and `left` counts the queues it has yet to assert.  The code asserts the second and third queue on
`this._channel`, which may meanwhile be another call's channel or null, and so does the model.
Nobody listens to "error" of a channel, so amqplib makes a refused queue an error of the connection:
it is a `ConnectionLost` like any other, and a channel goes by the name of its connection.

**`Synchronize`.**  `loop.pc` is where `synchronizeUnsuccessfulTasks` waits (`idle` for its 15
seconds, `watch`, `select`, `mark`, `send`, `finish` for the five awaits of
`synchronizeTaskExecutions`), `loop.turn` the completion code it is at, `loop.batch` the rows it
selected.  `AttemptFails` is the catch block around an attempt.  The last section of the module
stands for the rest of the worker: rows are requested, started, stopped, ended and removed by
actions that are coarser than `LocalTasks`, but keep the order that matters here, that a row may
turn Completed, Zombie or nothing between any two steps of the loop.

**`WorkerService`.**  `boot` is where `start()` is: it waits for the first answer of
`authenticate` (`initializing`) and for `MainQueue.connect` (`connecting`), and then opens the
API and the socket (`up`), or was left by an error (`failed`) while the rest of the process runs
on.  `worker` is the record of the storage manager, which the retry may set later; `held` is what
the socket's client was constructed with.  `greetings` are connect handlers waiting for their
first heartbeat; `kept` is what socket.io stores while it is disconnected.

**`TaskPages`.**  `ended` and `open` are the rows with and without a `completed_at`, and `newer` is
the order of the former: the rows a listing has before each.  `walk` is a client and its query:
`count` before the first read, `list` between the two.  `Complete` saves a time a handler stamped on
its own copy, so it may come late, behind rows that were stamped after it, and may be the second
stamp of a row that had ended already, which then moves, in either direction.  `Recode` changes a
code without a time.  A page query may have a `status`: the page is of the rows with that code, the
count of all.  `resolvers.ts:55` hands `args.status` on, but the schema (`typeDefinitions.ts:115`)
does not declare it, so the API itself has no filtered walks today.  Rows without a time, which
follow the others, are counted, but no property is about them on a page.  `wanted`, `seen` and
`clean` are history: the rows the walk should still return (those that had ended when it began, less
those that moved forward in its list or left it), what it has returned, and whether a row was
created between the two reads of a query.

### Abstractions

- Tasks of a model have one queue and the same work units.  The choice of the queue
  (`startTask`, lines 97 to 111) is a function of the loads and the request; a task the local
  queue cannot take is one of `ClusterTasks`.
- Reports below Stopped change statistics, `last_process_status_code` and, for the cluster,
  `started_at`; only the last is kept.  LSF states that `lsf.ts` does not map behave as running.
- "15 minutes" are an action that may happen to a running row.  It is assumed that a start and a
  refresh that listed the processes before it, and for the cluster bsub's answer and a poll that
  began before it, take less than that.
- The next refresh begins 20 s after the last, when the last one's handlers are over.
- A row comes from the coordinator with status Initializing and result Incomplete.
- Messages are not modelled as data: `announced` keeps what `sendTaskExecutionComplete` was
  called with.  Whether it reached the broker is `MainQueue`'s subject, where it can fail.
- The cluster's mode `generateCommandOnly` and a wrong job_id read from a split output are left
  out.  bjobs is taken to answer without error when it does not list a job; if it fails, that is
  the fault `PollFails`.
- The save in a failed start's catch block may fail as well without counting as a second fault.
- Ten minutes, for the watchdog, are whatever set of marked rows one likes.
- A heartbeat reads the running rows and is emitted in the same step.  Of the heartbeats socket.io
  keeps, the last is modelled: they are delivered in order, so it is the one that counts.
- The local work capacity stands for the whole record.  An update only raises it, which bounds
  the updates.
- No two rows are completed in the same millisecond.

## 3. What the runs check

Bounds are the constants of each `.cfg`; but for `LocalLoad`, which has a constraint, nothing else
limits a run.  `MaxTroubles` bounds
restarts and faults together: with 2 there may be two restarts, a restart after a fault, a fault
during the recovery from a restart, or two faults.  In `LocalRaces` the load is left out
(`WorkUnits = 0`), because a handler whose save fails lowers it once more at every later report;
`LocalRecovery` has it.  Deadlock is checked in every run but `PagedWalk`, where every row may have
been removed and the walk be over.

| Run | Instance | Question |
|---|---|---|
| `LocalRaces` | 1 task, 1 bus slot beside the refresh, stops, PM2's death, removal of cancelled and successful rows, one trouble | can stale copies, failed saves or a restart break a row or cost a live process?  `TypeOK`, `RunningNotCompleted`, `SuccessIsEarned`, `ErrorIsEarned`, `LiveProcessNotSwept`, `RemovedOnlyAfterCompletionSaved`, `AnnouncedFirst`, `CompletedMeansStopped`, `Consistent`, `ForsakenRunsOn`, `ImplementsLifecycle` |
| `LocalRecovery` | 1 task, 1 bus slot, PM2's death, one trouble | does the refresh repair?  `MissedExitIsCaught`, `LostTaskIsSwept`, `LoadConverges`, `StartIsAnswered` |
| `LocalLoad` | 2 tasks of which one fits, 1 bus slot, nothing disturbed, as long as all is in order and no task has run for 15 minutes | does the worker keep to its capacity?  `CapacityKept`, `LoadConsistent` |
| `ClusterRaces` | 1 task, stops, purges, removals, two troubles | can stale copies break a row, is a live job given up, and what does the poll repair?  `SuccessIsEarned`, `ErrorIsEarned`, `WedgedOnlyByLoss`, `CompletedMeansEnded`, `LiveJobNotSwept`, `ResultIsKept`, `ForsakenRunsOn`, `ImplementsLifecycle`, `EndIsNoticed`, `LoadConverges` |
| `QueueConnection` | 2 overlapping senders, 4 connection objects, 2 troubles | what can overlapping connects, closes and losses do to the shared fields, and does it mend?  `FailsOnlyInTrouble`, `ChannelDiesUnstored`, `SendReturns`, `Recovers`, `DeadStaysDead` |
| `WorkerService` | 1 task, 2 capacities, removals, two troubles | what an undefined record, a lost socket, a failed transaction or a restart do to the service: `InProgressIsHeld`, `MarksAreUnstamped`, `WedgedOnlyIfUndefined`, `NothingIsSentAgain`, `FailuresSettle`, `ReportConverges` |
| `PagedWalk` | 3 rows, 3 codes, walks with each status and without, limits 0, 1 and 2, a default limit of 3, one removal | does a walk return what it should, and end?  `WalkIsComplete`, `WalkEnds` |

Why these bounds: tasks share only the load, the start queue and the refresh's pass over the
list, so the races on a row need one task with all its actors: the starter, a bus event, the
refresh's own call, a user's stop and the sweep.  Two handlers are the first instance in which
copies race.  The theorems of section 4 hold for any number of tasks and bus events.  What needs
several tasks, the load, has a run with two, one of which has to wait (`LocalLoad`, 1.9 million
states), and one with three (`OverAdmission`).  `LocalLoad` follows a run no further once it is out
of order, where its properties say nothing, and leaves the passing of 15 minutes, with the sweep, to
the theorem.  With two senders at
most three connections have a name when a fourth is made: `_connection`, `_channel` and the other
sender's.  Connections left over stay open and may still be lost, until their name is needed (`Free`).
Two troubles are enough for a dead channel and its repair, or for a loss of the connection that one
of the senders has just closed.  Three rows and pages of one row make walks of up to four queries,
in a table whose order turns over meanwhile, and two rows are enough for one to be passed by another
while the walk is between them.  Larger instances that hold and are too slow to
keep as runs: `ClusterTasks` with two tasks that are polled and purged, and `WorkerService` with
two tasks and one trouble (1.3 million states).

The type invariants of the modules other than `LocalTasks`, `CompletionIsPermanent` of both halves
and `WedgedOnlyByLoss` of the local half are theorems (section 4) and are not among the runs'
properties: the second follows from `ImplementsLifecycle` and the third is the exception of
`StartIsAnswered`, which the runs check.

What some of the less obvious properties say of the code:

- `FailuresSettle`: the loop outlives whatever it meets.  Every failed or cancelled row whose
  `sync_status` the request had set ends up Complete, except the rows of an attempt that was cut
  short.  Those are `Abandoned`: InProgress without a `synchronized_at`, which the watchdog never
  finds (`MarksAreUnstamped`), so they stay InProgress for ever.
- `WedgedOnlyIfUndefined`: a request can meet a missing record, on which `startTask` throws and
  the start queue hangs, only in a process whose first `authenticate` failed.  Such a process
  never sends a heartbeat, even after the retry succeeded: the socket's client keeps the
  undefined it was constructed with.  `ReportConverges` therefore says `held = "loaded"`.
- `CapacityKept`: a start checks the load, waits several times, and raises the load after its process
  is already running; the refresh replaces the load with a sum over rows it read before.  The
  property says that none of this takes a worker over its capacity by itself: only what `Order` names
  does, and `OverAdmission` shows one of those.
- `LiveProcessNotSwept`: the refresh lists the processes before it reads the rows, so a task that is
  started in between looks like one without a process.  Only the 15 minutes keep the sweep off it;
  the mutant without them breaks the property.
- `ErrorIsEarned` and `SuccessIsEarned` together: `ResultOverwritten` shows that a second report can
  turn a result into Unknown; it can never turn one into its opposite.  `ResultIsKept` says more of
  the cluster half, where a poll's copies are the only ones a report is saved from: a result may only
  become a Cancel.
- `ForsakenRunsOn`: a task that was cancelled before its start made it running, and that then lost its
  process or job, stays Running for ever: `stopTask` returns early on its Cancel, also for the sweep.
  It is the exception in `EndIsNoticed`, and the reason why `LocalRecovery` has no stops.
- `ChannelDiesUnstored`: every close clears both fields, whosever connection it was, so a channel
  that was stored alive never stays after its death.  The one way to a dead `_channel` is that it was
  dead when it was stored: its connection closed between the reply and the assignment.
- `DeadStaysDead`: that state is final.  Every send finds a channel, throws on it and makes no new
  one, until some other connection is lost whose close handler happens to clear the field.
- `Recovers`: after the last trouble a channel is open for good, unless it is dead for good, or two
  overlapping calls keep closing each other's connections: the catch block of one closes the
  connection the other has just stored, whose close clears the field under the other's next queue,
  so that it ends in its own catch block.  Nothing in the code ends this; that it does end rests on
  timing, and each round may leave a connection open that nobody closes.
- `SendReturns`: a send comes back from every failure but one: a connection that is lost while the
  catch block awaits its `close()`, which leaves the send, and the save that waits for it, hanging.
- `NothingIsSentAgain`: whatever fails or restarts, the loop takes no row twice.  With `FailuresSettle`
  it also means that a row that is marked Complete now, while the create in `insertRemote` is commented
  out (`taskSupervisor.ts:243` calls the feature disabled, though the loop still runs), will not be sent
  when the create returns.
- `WalkIsComplete`: rows that end or are created while a client pages through the table only move
  the others back, so a walk repeats rows but misses none.  What it may miss is a row that moves
  forward: because a row listed before it was removed, lost the status, or was stamped again with
  an older time, or because the row itself was stamped again and came to the front.  And a row
  created between the count and the listing of one query may end the walk too soon, because
  `hasNextPage` is taken from the older count.  Without any of these exceptions the property fails.
  That the count is of all rows while the page has those with the status does no harm: a walk with
  a status only reads empty pages at its end.
  `WalkEnds` excludes limit 0, which the page query takes literally and answers with
  `hasNextPage` for ever.

### What the code does not do

Each of these runs checks one sentence of the repository and TLC finds a behaviour of the code
that breaks it; PROJECT.json quotes the sentence.

| Run | What happens |
|---|---|
| `ResultOverwritten` | two reports of one exit; the one without the exit code is saved last and Success becomes Unknown |
| `CancelledExitMissed` | a stopped task whose bus event is missed is never looked at again: the refresh returns early when nothing is Running |
| `OverAdmission` | a refresh that began before a start takes the start out of the load when it ends; a third process runs where two fit |
| `AbandonedStart` | a restart between the creation of a row and its first save leaves it Initializing for ever |
| `DeadChannel` | the connection is lost between the reply that opens the channel and the assignment of `_channel`: the close handler clears the field first, the dead channel is stored after it, and is used for ever |

### Fairness

Liveness is checked under `FairSpec`: weak fairness of the starter, of each handler, of each
stop, of the refresh or poll, of the processes' and jobs' ends and of the passing of 15 minutes.
Node runs every continuation that is ready, and both refreshes schedule their next round whether
or not the last one failed; each process ends, or nothing could be said of its exit.  For the
message queue: the broker answers what it was asked as long as the connection lives, and confirms
closes; amqplib settles the requests on a connection that closes, but a pending `close()` only when
it is confirmed; what was settled resumes; the clock runs, and tasks keep ending, so that there are
further sends.  For the service: `authenticate` is retried every five seconds
and succeeds in the end, `MainQueue.connect` returns (`SendReturns` says when it does: it is
assumed here that no connection is lost in the middle of being given up), socket.io reconnects, and the timers of the loop and of the heartbeat fire.  For the pages: the
two reads of a query return.  Nothing is assumed of requests, bus events, disturbances or faults.

## 4. What is proved

`LocalTasksProofs` proves, for every finite set of tasks, every set of bus slots and every value
of the other constants (`ConstantsAssumption`):

- `TypeCorrect`: `Spec => []TypeOK`.
- `AlwaysConsistent`: `Spec => []Consistent`, the inductive invariant.
- From it `RunningIsNotCompleted`, `SuccessIsAlwaysEarned`, `RemovedAfterCompletion`,
  `AlwaysAnnouncedFirst`, `CompletedHasStopped`, and the action property
  `CompletionIsAlwaysPermanent`.
- `LifecycleIsImplemented`: `Spec => Lifecycle!Spec`, the refinement of `TaskLifecycle`.
- From `Consistent` and one further invariant each: `ErrorIsAlwaysEarned`, `AlwaysWedgedOnlyByLoss`
  and `LiveProcessIsNotSwept`.
- The action property `ForsakenAlwaysRunsOn`.

Why the invariant is needed: none of the properties is inductive, because each step that can
break one of them is a save of a copy read several steps before.  `Consistent` says what a copy
still means when it is saved: a report says no more than what PM2 holds (`ReportConsistent`); a
copy that is stamped is of a row that is stamped or gone (`CopyConsistent`), so a save, which
writes changed columns only, never takes a stamp away; a handler about to save Success has
announced it; and as long as the starter has yet to make its row running, no process of the task
exists (`StarterConsistent`), so no handler can have stamped the row.  The proof has one step
per action; what a save and `_update` do to a row are lemmas (`SaveFacts`, `UpdateFacts`), and
so is that a step which leaves a handler alone keeps what is said of it (`JobStays`).

The later theorems rest on lemmas that say, for one task, what a step may do to one part of the
state (`RowSteps`, `ProcessSteps`, `HandlerSteps`, `StarterSteps`, `AgedSteps`, `RefreshSteps`,
`StopSteps`), so that an invariant over two parts is a matter of a few cases.  Their invariants say:

- `ErrorConsistent`: a process that has not stopped has no exit code, and an Error in a copy is one that
  an exit code earned.  The copies are needed because a save writes what they hold; that a process gets
  its exit code once is what keeps an earned Error earned.
- `WedgeConsistent`: a wedged queue waits on an id that was given out and whose row is gone, so that no
  later insert can bring the row back.
- `SweepConsistent`: a task that has run for 15 minutes is in the list of every refresh that is under way,
  if PM2 has its process, and what the sweep holds has no process and will not get one.  The assumption on
  the 15 minutes (section 2) is used here and nowhere else.

`ForsakenRunsOn` needs no invariant of its own beyond `Consistent`: that nothing can stamp the row is
that no report of an end is in handling and a lost process makes none.

`LocalLoadProofs` proves, under the same assumptions, `AlwaysLoadConsistent` and from it `CapacityIsKept`.
The properties are about `orderly`, so the step case starts from `Order` before and after the step
(`InOrderStep`); that PM2 did not die, nothing failed and no row was removed is then known
(`NoDisturbance`).  `LoadConsistent` has four parts.  `LoadCovers`: the load, with the units of a start that
is not counted yet, covers what was launched and has not lowered it (`Due`).  The proof needs each lowering
to end one task's share (`LoweringEndsDue`), which is why two stampings of one row are out of order, and
the sum of a refresh to cover what is due when it is assigned, which is why an overlooked start is.
`RoomIsKept`: an admitted task still has room when it is launched, because starts are made one at a time and
nothing else launches.  `RowsFollow`: a launched task is Running until it is stamped, once, so the refresh's
sum misses none.  `NothingSwept`: the sweep makes nobody a zombie, which would take a row out of that sum.

`WorkerServiceProofs` proves, for every finite set of tasks, every set of capacities with 0 in it
and any number of troubles (`SynchronizeAssumption`, `CapacitiesAssumption`):

- `TypeCorrect`: `Spec => []TypeOK`.  The part of a heartbeat rests on the cardinality of a subset.
- `MarksAreConsistent`: `Spec => []MarksConsistent`, the inductive invariant of the marks, and
  from it `InProgressIsAlwaysHeld` and `MarksAreNeverStamped`.
- `NothingIsEverSentAgain`, an action property: by `MarksConsistent` no InProgress row has the
  `synchronized_at` by which the watchdog would put it back, and what the loop holds to be marked is
  still Never.
- `WedgedOnlyAfterFailure`, from the invariant `RecordConsistent`.

That no InProgress row has a `synchronized_at` is not inductive: it rests on the rows that the
loop is about to mark still being Never when it marks them, a step after it selected them
(the loop is the only writer of the column), and on a mark of time going with Complete, which is
never selected again.  `MarksConsistent` says both; a row that was removed meanwhile is not marked,
and its id is never given out again.  Every step of the service is, for the table and the loop,
one of a few kinds (`SyncSteps`), so the proof of the loop does not depend on what else the
service does.  `RecordConsistent` adds to `WedgedOnlyIfUndefined` what the order of `start()`
gives: nothing is wedged before the first answer, and afterwards a storage manager without a
record means that the socket's client has none either.

`ClusterTasksProofs` proves, for every finite set of tasks, any capacity and any number of troubles
(`ConstantsAssumption`):

- `AlwaysConsistent`: `Spec => [](TypeOK /\ Consistent)`.  The two are one induction: `TypeOK` says
  that a job_id belongs to an id that was given out, which a late answer of bsub could break if
  anything were under way for an id that was not (`UnusedConsistent`).
- From it `TypeCorrect`, `SuccessIsAlwaysEarned`, `ErrorIsAlwaysEarned`, `CompletedHasEnded`,
  `LiveJobIsNeverSwept`, the action properties `CompletionIsAlwaysPermanent` and `ResultIsAlwaysKept`,
  and `LifecycleIsImplemented`, the refinement of `TaskLifecycle`.
- `AlwaysWedgedOnlyByLoss`, from `WedgeConsistent`, and the action property `ForsakenAlwaysRunsOn`, from
  `SubmitConsistent`: a submission is marked as failed only after its output was read, so the `close` of
  one that is forsaken saves nothing.

The argument differs from the local one where the code does.  What the poll is about to save is
what LSF said of a job that ended, and LSF's last word on a job stays (`UpdateConsistent`), so the
copy needs no comparison with the row it will be saved to.  That a job is never swept while bjobs
would list it is the subtle one: the sweep takes the running rows that the answer did not list,
and a job_id can be saved after the poll read the rows but before the sweep.  Such a task is being
submitted, so it is not yet 15 minutes old (`FreshConsistent`), and remains so until a poll has
asked for it (`PollConsistent`).  The proof first says what a step may do to each part of the
state (`NextRows` for the table, `SubmitMoves`, `SweepMoves`, `UpdateMoves`, `StarterSteps` for the
rest), and then has one lemma per part of the invariant.

`MainQueueProofs` proves, for all finite sets of callers and connections and any number of troubles,
`TypeCorrect`, `FailsOnlyAfterTrouble` and the action properties `ChannelAlwaysDiesUnstored` and
`DeadAlwaysStaysDead`, from the invariant `Consistent`: a call that waits on a channel knows its
connection and has queues left as long as it asserts; nothing but the call that made it refers to a
connection without listeners, whose loss nobody hears of, so such a loss cannot leave a dead channel
in the field; and before the first trouble nothing closes and nothing is rejected, and a connect that
has come as far as the queues has set the channel, so a send finds one (`Calm`).

`TaskPagesProofs` proves, for any finite set of rows, any codes and limits and any number of removals,
`TypeCorrect` and `WalkIsAlwaysComplete`.  The invariant is that, as long as no row was created
during a query, each row the walk has still to return is in its list and lies beyond its offset
(`Ahead`), and the count of a query in progress is no less than the rows the table has (`CountHolds`).
The rows listed before an unmoved row only grow (`UnmovedStayBehind`), so its place does not come
forward, and no place is beyond the number of rows (`PositionBounds`), so a walk that ends by its count
has nothing left to return.  `CompletedInOrder` shows that a late or a second stamp leaves the times in
one strict order.

`TaskExecutionProofs` holds the lemmas both halves use: what `Save`, `UpdateLocal`, `UpdateCluster`
and the marks of a row return, and what the saves of a start and of a stop leave in the table.

Only model-checked: the liveness properties, since liveness under fairness is out of the prover's
reach: `MissedExitIsCaught`, `LostTaskIsSwept`, `LoadConverges` of both halves, `StartIsAnswered`,
`EndIsNoticed`, `SendReturns`, `Recovers`, `FailuresSettle`, `ReportConverges` and `WalkEnds`.  Every
invariant and every action property of the passing runs is a theorem.

## 5. What is not modelled, and the plan

Modelled is what the worker is for, running tasks and recording their ends on both queues, with
the message queue that announces them, and around it the start of the service, the coordinator's
socket, the synchronization and the paged queries.  What could be added:

1. The composition of `LocalTasks` and `ClusterTasks` under one start queue, for the choice of the
   queue by the two loads; it is too large for TLC with the present detail.
2. The mode `generateCommandOnly`, once the code gives its poll a result.

Not modelled, and why:

- The entry of `synchronize.ts` as a process of its own: nothing starts it, and it would wait for
  ever for a storage manager that only `pipelineWorkerApp.ts` initializes.  So there is one
  synchronizer.  Its branches for rows that were found on the remote database cannot be reached,
  because that list is always empty since the query was commented out.
- The remote database connector: a pool that is set up once.  A remote database that cannot be
  reached is a failure of `Send`.
- States of PM2 that `pm2-async.ts` does not map (errored, launching) become Undefined, as if the
  process had not ended; chunks of bsub's output that split a job number; the mode
  `generateCommandOnly`, whose poll makes the cluster load undefined.  They are hazards of
  PROJECT.json without a property.
- `_connectionStatus` of the socket's client, which is assigned and never read;
  `is_accepting_jobs`, which no start reads.
- Parsing of `ps` and bjobs output beyond which jobs it yields, statistics, paths and scripts,
  task definitions and repositories (read-only tables), configuration, migrations, deployment.
