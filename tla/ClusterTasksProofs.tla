------------------------- MODULE ClusterTasksProofs -------------------------
(***************************************************************************)
(* Theorems about ClusterTasks for every set of tasks, any capacity, any   *)
(* number of troubles and every combination of disturbances.               *)
(***************************************************************************)
EXTENDS ClusterTasks, TaskExecutionProofs, FiniteSetTheorems, TLAPS

-----------------------------------------------------------------------------
USE DEF Undefined, Initializing, Running, Zombie, Completed,
        Unknown, Incomplete, Cancel, Success, Error,
        JobPending, JobOnline, JobStopped, JobExited

-----------------------------------------------------------------------------
(* The inductive invariant *)

Ended(t) == lsf[t] \in {"done", "exit"} /\ t \in announced

(* Nothing is under way for an id that was never given out. *)
UnusedConsistent(t) ==
  t \notin used =>
    /\ rows[t] = NoRow
    /\ submit[t].pc = "idle"
    /\ update[t].pc = "idle"
    /\ stop[t]["sweep"].pc = "idle"
    /\ t \notin aged

RowConsistent(t) ==
  /\ ~Stored(rows[t]) => rows[t] = NoRow
  /\ rows[t].compl = Success => lsf[t] = "done" /\ t \in announced
  /\ faults = 0 /\ rows[t].compl = Error => lsf[t] = "exit"
  /\ faults = 0 /\ Stamped(rows[t]) => Ended(t)

(* The poll's copy was read from a running row, and what it is about to     *)
(* save was announced and is what LSF said; LSF's last word on a job stays. *)
UpdateConsistent(t) ==
  /\ update[t].pc # "idle" => update[t].old.exec = Running
  /\ update[t].pc = "save" /\ update[t].status >= JobStopped =>
       /\ Ended(t)
       /\ update[t].status = JobStopped => lsf[t] = "done"
       /\ update[t].status = JobExited => lsf[t] = "exit"

(* Only the start makes its row running, and only a fault fails a start or  *)
(* a submission.                                                            *)
StarterConsistent ==
  /\ starter.pc \in {"created", "submitting", "failing", "responding"} => starter.task \in used
  /\ starter.pc = "created" =>
       /\ rows[starter.task].exec # Running
       /\ ~Stamped(rows[starter.task])
       /\ update[starter.task].pc = "idle"
  /\ starter.pc \in {"created", "submitting"} => submit[starter.task].pc = "idle"
  /\ starter.pc = "failing" => faults # 0
  /\ \A t \in Tasks : submit[t].failed => faults # 0

(* A task that is being started or submitted is not old enough to be swept. *)
Fresh(t) ==
  \/ starter.pc \in {"created", "submitting"} /\ starter.task = t
  \/ submit[t].pc \in {"sent", "printed"}

FreshConsistent(t) == Fresh(t) => t \notin aged /\ stop[t]["sweep"].pc = "idle"

(* A poll that asks for a job is told of it unless LSF forgot it.  A job_id *)
(* that was saved after the poll read the rows is of a fresh task.  Until   *)
(* the answer, the copies of a poll are there and wait for it.              *)
PollConsistent(t) ==
  /\ t \in known => lsf[t] # "none"
  /\ t \in poll.ids => t \in known
  /\ poll.pc # "idle" /\ t \in known \cap (poll.running \ poll.ids) => t \notin aged
  /\ faults = 0 /\ poll.pc = "updating" /\ t \in poll.ids \ poll.listed => t \in purged
  /\ poll.pc = "asked" => update[t].pc # "save" /\ (t \in poll.ids => update[t].pc = "read")

SweepConsistent(t) ==
  faults = 0 /\ stop[t]["sweep"].pc # "idle" => t \notin known \/ t \in purged

Consistent ==
  /\ StarterConsistent
  /\ \A t \in Tasks :
       /\ UnusedConsistent(t)
       /\ RowConsistent(t)
       /\ UpdateConsistent(t)
       /\ FreshConsistent(t)
       /\ PollConsistent(t)
       /\ SweepConsistent(t)

-----------------------------------------------------------------------------
(* Type correctness *)

StarterStates == {"idle", "created", "submitting", "failing", "responding", "wedged"}
StarterType == [pc : StarterStates, task : Tasks \cup {NoTask}]
SubmitType  == [pc : {"idle", "sent", "printed", "orphaned"}, failed : BOOLEAN]
PollType    == [pc : {"idle", "asked", "updating", "sweeping"},
                running : SUBSET Tasks, ids : SUBSET Tasks, listed : SUBSET Tasks]
UpdateType  == [pc : {"idle", "read", "save"}, old : Row, status : JobStatuses]
StopType    == [pc : {"idle", "find", "save", "signal"}, old : Row]

LEMMA IdleTypes ==
  /\ IdleStarter \in StarterType /\ IdleStarter.pc = "idle"
  /\ IdleSubmit \in SubmitType /\ IdleSubmit.pc = "idle" /\ ~IdleSubmit.failed
  /\ IdlePoll \in PollType /\ IdlePoll.pc = "idle" /\ IdlePoll.ids = {}
  /\ IdleUpdate \in UpdateType /\ IdleUpdate.pc = "idle"
  /\ IdleStop \in StopType /\ IdleStop.pc = "idle"
BY ConstantRows DEF IdleStarter, IdleSubmit, IdlePoll, IdleUpdate, IdleStop, StarterType,
   StarterStates, SubmitType, PollType, UpdateType, StopType, JobStatuses

LEMMA TypeFacts ==
  TypeOK <=>
    /\ rows \in [Tasks -> Row]
    /\ used \subseteq Tasks /\ known \subseteq used
    /\ lsf \in [Tasks -> {"none", "pending", "running", "done", "exit"}]
    /\ purged \subseteq {t \in Tasks : lsf[t] \in {"done", "exit"}}
    /\ announced \subseteq Tasks
    /\ starter \in StarterType
    /\ submit \in [Tasks -> SubmitType]
    /\ poll \in PollType
    /\ update \in [Tasks -> UpdateType]
    /\ stop \in [Tasks -> [Stoppers -> StopType]]
    /\ load \in Int
    /\ aged \subseteq Tasks
    /\ crashes \in Nat
    /\ faults \in Nat
BY DEF TypeOK, StarterType, StarterStates, SubmitType, PollType, UpdateType, StopType

LEMMA InitConsistent == Init => TypeOK /\ Consistent
<1> SUFFICES ASSUME Init PROVE TypeOK /\ Consistent
  OBVIOUS
<1>1. TypeOK
  BY IdleTypes, ConstantRows, TypeFacts DEF Init
<1>2. ~Stamped(NoRow) /\ NoRow.compl \notin {Success, Error}
  BY DEF Stamped, NoRow
<1>3. StarterConsistent
  BY IdleTypes DEF Init, StarterConsistent
<1>4. ASSUME NEW t \in Tasks
      PROVE  /\ rows[t] = NoRow /\ t \notin used /\ t \notin known /\ t \notin aged /\ poll = IdlePoll
             /\ submit[t] = IdleSubmit /\ update[t] = IdleUpdate
             /\ stop[t]["sweep"] = IdleStop
  BY <1>4 DEF Init, Stoppers
<1>5. QED
  BY <1>1, <1>2, <1>3, <1>4, IdleTypes
  DEF Consistent, UnusedConsistent, RowConsistent, UpdateConsistent, FreshConsistent, Fresh,
      PollConsistent, SweepConsistent

-----------------------------------------------------------------------------
(* What no action undoes: a job's end, what was announced, an id given out, *)
(* a job that LSF forgot, a fault.                                          *)
Keeps ==
  /\ faults' = 0 => faults = 0
  /\ used \subseteq used' /\ known \subseteq known' /\ known' \subseteq used'
  /\ announced \subseteq announced' /\ purged \subseteq purged'
  /\ \A t \in Tasks : lsf[t] # "none" => lsf'[t] # "none"
  /\ \A t \in Tasks : lsf[t] \in {"done", "exit"} => lsf'[t] = lsf[t]

LEMMA NextKeeps == TypeOK /\ Consistent /\ [Next]_vars => Keeps
<1> SUFFICES ASSUME TypeOK, Consistent, [Next]_vars PROVE Keeps
  OBVIOUS
<1> USE DEF table, cluster, troubles, Fault
<1>0. TypeOK
  OBVIOUS
<1>a. ASSUME UNCHANGED <<used, known, lsf, purged>>, announced \subseteq announced', UNCHANGED faults \/ Fault
      PROVE  Keeps
  BY <1>a DEF TypeOK, Keeps
<1>b. ASSUME UNCHANGED <<used, known, purged, announced, faults>>,
             NEW t \in Tasks, lsf[t] \notin {"done", "exit"},
             NEW s \in {"pending", "running", "done", "exit"}, lsf' = [lsf EXCEPT ![t] = s]
      PROVE  Keeps
  BY <1>b DEF TypeOK, Keeps
<1>1. ASSUME NEW t \in Tasks, Admit(t) PROVE Keeps
  BY <1>1 DEF Admit, TypeOK, Keeps
<1>2. ASSUME NEW t \in Tasks, BsubAccepts(t) PROVE Keeps
  BY <1>2, <1>b DEF BsubAccepts
<1>3. ASSUME NEW t \in Tasks, SubmitPrints(t) PROVE Keeps
  <2>1. t \in used
    BY <1>3 DEF SubmitPrints, Consistent, UnusedConsistent
  <2>2. QED  BY <1>3, <2>1 DEF SubmitPrints, TypeOK, Keeps
<1>4. ASSUME NEW t \in Tasks, KillJob(t) PROVE Keeps
  <2>1. CASE t \in known /\ Stored(rows[t]) /\ lsf[t] \in {"pending", "running"}
    BY <1>4, <2>1, <1>b DEF KillJob
  <2>2. CASE ~(t \in known /\ Stored(rows[t]) /\ lsf[t] \in {"pending", "running"})
    <3>1. lsf' = lsf
      BY <1>4, <2>2 DEF KillJob
    <3>2. QED  BY <1>4, <3>1, <1>a DEF KillJob
  <2>3. QED  BY <2>1, <2>2
<1>5. ASSUME NEW t \in Tasks, JobRuns(t) PROVE Keeps
  BY <1>5, <1>b DEF JobRuns
<1>6. ASSUME NEW t \in Tasks, JobEnds(t) PROVE Keeps
  BY <1>6, <1>b DEF JobEnds
<1>7. ASSUME NEW t \in Tasks, JobPurged(t) PROVE Keeps
  BY <1>7 DEF JobPurged, TypeOK, Keeps
<1>8. CASE JobsListed \/ AnswerGarbled
  BY <1>8, <1>a DEF JobsListed, AnswerGarbled, Answered
<1>9. CASE AdmitFails \/ SaveRunning \/ Submit \/ StartFails \/ SaveError \/ SaveErrorFails \/ Respond
           \/ FindRunning \/ PollFails \/ SweepZombies \/ NotifyTaskLoad \/ Crash
  BY <1>9, <1>a DEF AdmitFails, SaveRunning, Submit, StartFails, SaveError, SaveErrorFails, Respond,
                    FindRunning, PollFails, SweepZombies, NotifyTaskLoad, Crash
<1>10. ASSUME NEW t \in Tasks, SubmitGarbles(t) \/ SubmitCloses(t) \/ SubmitBreaks(t)
                               \/ SaveUpdate(t) \/ SaveUpdateFails(t) \/ UserStop(t)
                               \/ UpdateZombie(t) \/ FifteenMinutesPass(t)
       PROVE  Keeps
  BY <1>10, <1>a DEF SubmitGarbles, SubmitCloses, SubmitBreaks, SaveUpdate, SaveUpdateFails, UserStop,
                     UpdateZombie, FifteenMinutesPass
<1>11. ASSUME NEW t \in Tasks, NEW w \in Stoppers, SaveStop(t, w) \/ StopFails(t, w) PROVE Keeps
  BY <1>11, <1>a DEF SaveStop, StopFails
<1>12. ASSUME NEW code \in RemoveCodes, RemoveWithCompletionCode(code) PROVE Keeps
  BY <1>12, <1>a DEF RemoveWithCompletionCode
<1>13. CASE UNCHANGED vars
  BY <1>13, <1>a DEF vars
<1>14. QED
  BY <1>1, <1>2, <1>3, <1>4, <1>5, <1>6, <1>7, <1>8, <1>9, <1>10, <1>11, <1>12, <1>13 DEF Next

(* A poll's answer puts the listed rows, with what LSF said, before their   *)
(* saves, and says no more than LSF.                                        *)
LEMMA AnswerFacts ==
  ASSUME TypeOK, NEW listed \in SUBSET Listed, Answered(listed)
  PROVE  /\ update' \in [Tasks -> UpdateType]
         /\ poll' \in PollType
         /\ announced' \subseteq Tasks
         /\ load' \in Int
         /\ \A t \in Tasks :
              /\ update'[t].pc # "idle" => t \in listed /\ update'[t].old = update[t].old
              /\ update'[t].pc # "idle" /\ update'[t].status >= JobStopped =>
                   /\ t \in announced'
                   /\ lsf[t] \in {"done", "exit"}
                   /\ update'[t].status = JobStopped => lsf[t] = "done"
                   /\ update'[t].status = JobExited => lsf[t] = "exit"
<1>1. /\ rows \in [Tasks -> Row] /\ update \in [Tasks -> UpdateType] /\ poll \in PollType
      /\ lsf \in [Tasks -> {"none", "pending", "running", "done", "exit"}]
      /\ load \in Int /\ announced \subseteq Tasks
  BY TypeFacts
<1>2. \A t \in listed : t \in Tasks /\ lsf[t] \in {"pending", "running", "done", "exit"}
  BY <1>1 DEF Listed, PollType
<1>3. ASSUME NEW s \in {"pending", "running", "done", "exit"}
      PROVE  /\ StatusOf(s) \in JobStatuses
             /\ StatusOf(s) >= JobStopped <=> s \in {"done", "exit"}
             /\ StatusOf(s) = JobStopped => s = "done"
             /\ StatusOf(s) = JobExited => s = "exit"
  BY <1>3 DEF StatusOf, JobStatuses
<1>4. /\ update' = [t \in Tasks |-> IF t \in listed
                      THEN [update[t] EXCEPT !.pc = "save", !.status = StatusOf(lsf[t])]
                      ELSE IdleUpdate]
      /\ announced' = announced \cup {t \in listed : StatusOf(lsf[t]) >= JobStopped}
      /\ load' = load - WorkUnits * Cardinality(Ending(listed))
      /\ poll' = [poll EXCEPT !.pc = "updating", !.listed = listed]
  BY DEF Answered
<1>5. ASSUME NEW t \in Tasks, t \in listed
      PROVE  /\ update'[t] \in UpdateType /\ update'[t].old = update[t].old
             /\ update'[t].status = StatusOf(lsf[t])
  <2>1. update'[t] = [update[t] EXCEPT !.pc = "save", !.status = StatusOf(lsf[t])]
    BY <1>4, <1>5
  <2>2. update[t] \in UpdateType /\ StatusOf(lsf[t]) \in JobStatuses
    BY <1>1, <1>2, <1>3, <1>5
  <2> QED  BY <2>1, <2>2 DEF UpdateType
<1>6. \A t \in Tasks : t \notin listed => update'[t] = IdleUpdate
  BY <1>4
<1>7. update' \in [Tasks -> UpdateType]
  BY <1>4, <1>5, <1>6, IdleTypes
<1>8. load' \in Int
  <2>1. IsFiniteSet(Ending(listed))
    BY <1>2, FS_Subset, ConstantsAssumption DEF Ending
  <2>2. Cardinality(Ending(listed)) \in Nat
    BY <2>1, FS_CardinalityType
  <2>3. \A n \in Nat : load - WorkUnits * n \in Int
    BY <1>1, ConstantsAssumption
  <2>4. QED  BY <1>4, <2>2, <2>3
<1>9. poll' \in PollType
  BY <1>1, <1>2, <1>4 DEF PollType
<1>10. announced' \subseteq Tasks
  BY <1>1, <1>2, <1>4
<1>11. ASSUME NEW t \in Tasks, update'[t].pc # "idle"
       PROVE  /\ t \in listed /\ update'[t].old = update[t].old
              /\ update'[t].status >= JobStopped =>
                   /\ t \in announced'
                   /\ lsf[t] \in {"done", "exit"}
                   /\ update'[t].status = JobStopped => lsf[t] = "done"
                   /\ update'[t].status = JobExited => lsf[t] = "exit"
  <2>1. t \in listed
    BY <1>6, <1>11, IdleTypes
  <2>2. QED  BY <2>1, <1>2, <1>3, <1>4, <1>5
<1>12. QED  BY <1>7, <1>8, <1>9, <1>10, <1>11

LEMMA FoundTypes ==
  ASSUME TypeOK, NEW t \in Tasks, NEW w \in Stoppers
  PROVE  Found(t, w) \in StopType /\ Signal(w) \in StopType /\ Signal("sweep") = IdleStop
BY ConstantRows, IdleTypes DEF TypeOK, Found, Signal, StopType, IdleStop

(* Every action keeps every variable in its type. *)
LEMMA NextType == TypeOK /\ Consistent /\ [Next]_vars => TypeOK'
<1> SUFFICES ASSUME TypeOK, Consistent, [Next]_vars PROVE TypeOK'
  OBVIOUS
<1> USE IdleTypes, ConstantRows, ConstantsAssumption
<1> USE DEF table, cluster, troubles, Fault, Stoppers
<1>0. /\ rows \in [Tasks -> Row]
      /\ used \subseteq Tasks /\ known \subseteq used
      /\ lsf \in [Tasks -> {"none", "pending", "running", "done", "exit"}]
      /\ purged \subseteq {t \in Tasks : lsf[t] \in {"done", "exit"}}
      /\ announced \subseteq Tasks
      /\ starter \in StarterType
      /\ submit \in [Tasks -> SubmitType]
      /\ poll \in PollType
      /\ update \in [Tasks -> UpdateType]
      /\ stop \in [Tasks -> [Stoppers -> StopType]]
      /\ load \in Int /\ aged \subseteq Tasks /\ crashes \in Nat /\ faults \in Nat
  BY TypeFacts
<1> USE <1>0
(* the parts of the type that an action may reach *)
<1> DEFINE
      TableOK   == rows' \in [Tasks -> Row] /\ used' \subseteq Tasks /\ known' \subseteq used'
      ClusterOK == /\ lsf' \in [Tasks -> {"none", "pending", "running", "done", "exit"}]
                   /\ purged' \subseteq {t \in Tasks : lsf'[t] \in {"done", "exit"}}
                   /\ announced' \subseteq Tasks
      CallsOK   == starter' \in StarterType /\ submit' \in [Tasks -> SubmitType]
      PollOK    == poll' \in PollType /\ update' \in [Tasks -> UpdateType]
      StopOK    == stop' \in [Tasks -> [Stoppers -> StopType]]
      CountsOK  == load' \in Int /\ aged' \subseteq Tasks /\ crashes' \in Nat /\ faults' \in Nat
<1>t. ASSUME UNCHANGED <<rows, used, known>> PROVE TableOK
  BY <1>t
<1>c. ASSUME UNCHANGED <<lsf, purged, announced>> PROVE ClusterOK
  BY <1>c
<1>q. ASSUME TableOK, ClusterOK, CallsOK, PollOK, StopOK, CountsOK PROVE TypeOK'
  BY <1>q DEF TypeOK, StarterType, StarterStates, SubmitType, PollType, UpdateType, StopType
<1>s. ASSUME NEW p \in StarterStates, starter' = [starter EXCEPT !.pc = p] PROVE starter' \in StarterType
  BY <1>s DEF StarterType
<1>f. ASSUME Fault PROVE crashes' \in Nat /\ faults' \in Nat
  BY <1>f
<1>l. ASSUME NEW s \in Tasks, lsf[s] \notin {"done", "exit"},
             \E l \in {"pending", "running", "done", "exit"} : lsf' = [lsf EXCEPT ![s] = l],
             UNCHANGED <<purged, announced>>
      PROVE  ClusterOK
  BY <1>l
(* a save of a row *)
<1>r. ASSUME NEW u \in Tasks \cup {NoTask}, NEW old \in Row, NEW new \in Row,
             rows' = [rows EXCEPT ![u] = Save(rows[u], old, new)], UNCHANGED <<used, known>>
      PROVE  TableOK
  <2>1. u \in Tasks => Save(rows[u], old, new) \in Row
    BY SaveFacts
  <2>2. QED  BY <1>r, <2>1
<1>1. ASSUME NEW t \in Tasks, Admit(t) PROVE TypeOK'
  BY <1>1, <1>c, <1>q DEF Admit, StarterType, StarterStates
<1>2. CASE AdmitFails
  BY <1>2, <1>t, <1>c, <1>q DEF AdmitFails, StarterType, StarterStates
<1>3. CASE SaveRunning
  <2>1. TableOK
    BY <1>3, <1>r, MarkTypes DEF SaveRunning, StarterType
  <2>2. starter' \in StarterType
    BY <1>3, <1>s DEF SaveRunning, StarterMoves, StarterStates
  <2>3. QED  BY <1>3, <2>1, <2>2, <1>c, <1>q DEF SaveRunning
<1>4. CASE Submit
  <2>1. starter' \in StarterType
    BY <1>4, <1>s DEF Submit, StarterMoves, StarterStates
  <2>2. submit' \in [Tasks -> SubmitType]
    BY <1>4 DEF Submit, SubmitType
  <2>3. QED  BY <1>4, <2>1, <2>2, <1>t, <1>c, <1>q DEF Submit
<1>5. CASE StartFails
  <2>1. starter' \in StarterType
    BY <1>5, <1>s DEF StartFails, StarterStates
  <2>2. QED  BY <1>5, <2>1, <1>t, <1>c, <1>f, <1>q DEF StartFails
<1>6. CASE SaveError
  <2>1. TableOK
    BY <1>6, <1>r, MarkTypes DEF SaveError, StarterType
  <2>2. starter' \in StarterType
    BY <1>6, <1>s DEF SaveError, StarterMoves, StarterStates
  <2>3. QED  BY <1>6, <2>1, <2>2, <1>c, <1>q DEF SaveError
<1>7. CASE SaveErrorFails
  <2>1. starter' \in StarterType
    BY <1>7, <1>s DEF SaveErrorFails, StarterMoves, StarterStates
  <2>2. QED  BY <1>7, <2>1, <1>t, <1>c, <1>q DEF SaveErrorFails
<1>8. CASE Respond
  <2>1. starter' \in StarterType
    BY <1>8, <1>s DEF Respond, StarterStates
  <2>2. QED  BY <1>8, <2>1, <1>t, <1>c, <1>q DEF Respond
<1>9. ASSUME NEW t \in Tasks, BsubAccepts(t) PROVE TypeOK'
  <2>1. ClusterOK
    BY <1>9, <1>l DEF BsubAccepts
  <2>2. QED  BY <1>9, <2>1, <1>t, <1>q DEF BsubAccepts
<1>10. ASSUME NEW t \in Tasks, SubmitPrints(t) PROVE TypeOK'
  <2>1. t \in used
    BY <1>10 DEF SubmitPrints, Consistent, UnusedConsistent
  <2>2. TableOK /\ submit' \in [Tasks -> SubmitType]
    BY <1>10, <2>1 DEF SubmitPrints, SubmitType
  <2>3. QED  BY <1>10, <2>2, <1>c, <1>q DEF SubmitPrints
<1>11. ASSUME NEW t \in Tasks, SubmitGarbles(t) PROVE TypeOK'
  <2>1. submit' \in [Tasks -> SubmitType]
    BY <1>11 DEF SubmitGarbles, SubmitType
  <2>2. QED  BY <1>11, <2>1, <1>t, <1>c, <1>f, <1>q DEF SubmitGarbles
<1>12. ASSUME NEW t \in Tasks, SaveSubmitError(t), UNCHANGED <<used, known>> PROVE TableOK
  BY <1>12, <1>r, MarkTypes DEF SaveSubmitError
<1>13. ASSUME NEW t \in Tasks, SubmitCloses(t) PROVE TypeOK'
  <2>1. TableOK
    BY <1>13, <1>12, <1>t DEF SubmitCloses
  <2>2. submit' \in [Tasks -> SubmitType]
    BY <1>13 DEF SubmitCloses
  <2>3. QED  BY <1>13, <2>1, <2>2, <1>c, <1>q DEF SubmitCloses
<1>14. ASSUME NEW t \in Tasks, SubmitBreaks(t) PROVE TypeOK'
  <2>1. submit' \in [Tasks -> SubmitType]
    BY <1>14 DEF SubmitBreaks, SubmitType
  <2>2. QED  BY <1>14, <2>1, <1>12, <1>c, <1>f, <1>q DEF SubmitBreaks
<1>15. CASE FindRunning
  <2>1. CASE RunningTasks = {}
    <3>1. load' \in Int /\ PollOK
      BY <1>15, <2>1 DEF FindRunning
    <3>2. QED  BY <1>15, <3>1, <1>t, <1>c, <1>q DEF FindRunning
  <2>2. CASE RunningTasks # {}
    <3>1. RunningTasks \in SUBSET Tasks
      BY DEF RunningTasks
    <3>2. poll' \in PollType
      BY <1>15, <2>2, <3>1 DEF FindRunning, PollType
    <3>3. \A t \in Tasks : [pc |-> "read", old |-> rows[t], status |-> JobPending] \in UpdateType
      BY DEF UpdateType, JobStatuses
    <3>4. update' \in [Tasks -> UpdateType]
      BY <1>15, <2>2, <3>3 DEF FindRunning
    <3>5. QED  BY <1>15, <2>2, <3>2, <3>4, <1>t, <1>c, <1>q DEF FindRunning
  <2>3. QED  BY <2>1, <2>2
<1>16. ASSUME NEW listed \in SUBSET Listed, Answered(listed), UNCHANGED crashes, faults' \in Nat,
              UNCHANGED <<table, cluster, starter, submit, stop, aged>>
       PROVE  TypeOK'
  <2>1. PollOK /\ announced' \subseteq Tasks /\ load' \in Int
    BY <1>16, AnswerFacts
  <2>2. QED  BY <1>16, <2>1, <1>t, <1>q
<1>17. CASE JobsListed
  BY <1>17, <1>16 DEF JobsListed
<1>18. CASE AnswerGarbled
  BY <1>18, <1>16, <1>f DEF AnswerGarbled
<1>19. CASE PollFails
  BY <1>19, <1>t, <1>c, <1>f, <1>q DEF PollFails
<1>20. ASSUME NEW t \in Tasks, SaveUpdate(t) PROVE TypeOK'
  <2>1. update[t].old \in Row /\ update[t].status \in JobStatuses
    BY DEF UpdateType
  <2>2. TableOK
    BY <1>20, <2>1, <1>r, ClusterUpdateFacts DEF SaveUpdate, Updated
  <2>3. PollOK /\ aged' \subseteq Tasks
    BY <1>20 DEF SaveUpdate
  <2>4. QED  BY <1>20, <2>2, <2>3, <1>c, <1>q DEF SaveUpdate
<1>21. ASSUME NEW t \in Tasks, SaveUpdateFails(t) PROVE TypeOK'
  BY <1>21, <1>t, <1>c, <1>f, <1>q DEF SaveUpdateFails
<1>22. CASE SweepZombies
  <2>1. [pc |-> "find", old |-> NoRow] \in StopType
    BY DEF StopType
  <2>2. StopOK
    BY <1>22, <2>1 DEF SweepZombies
  <2>3. poll' \in PollType
    BY <1>22 DEF SweepZombies, PollType
  <2>4. QED  BY <1>22, <2>2, <2>3, <1>t, <1>c, <1>q DEF SweepZombies
<1>23. CASE NotifyTaskLoad
  <2>1. Cardinality(poll.running) \in Nat
    <3>1. poll.running \in SUBSET Tasks
      BY DEF PollType
    <3>2. QED  BY <3>1, FS_Subset, FS_CardinalityType
  <2>2. WorkUnits * Cardinality(poll.running) \in Int
    BY <2>1
  <2>3. QED  BY <1>23, <2>2, <1>t, <1>c, <1>q DEF NotifyTaskLoad
<1>24. ASSUME NEW t \in Tasks, NEW w \in Stoppers, NEW s \in StopType, stop' = [stop EXCEPT ![t][w] = s]
       PROVE  StopOK
  BY <1>24
<1>25. ASSUME NEW t \in Tasks, UserStop(t) PROVE TypeOK'
  BY <1>25, <1>24, FoundTypes, <1>t, <1>c, <1>q DEF UserStop
<1>26. ASSUME NEW t \in Tasks, UpdateZombie(t) PROVE TypeOK'
  BY <1>26, <1>24, FoundTypes, <1>t, <1>c, <1>q DEF UpdateZombie
<1>27. ASSUME NEW t \in Tasks, NEW w \in Stoppers, SaveStop(t, w) PROVE TypeOK'
  <2>1. stop[t][w].old \in Row
    BY DEF StopType
  <2>2. TableOK
    BY <1>27, <2>1, <1>r, MarkTypes DEF SaveStop
  <2>3. StopOK
    BY <1>27, <1>24, FoundTypes DEF SaveStop
  <2>4. QED  BY <1>27, <2>2, <2>3, <1>c, <1>q DEF SaveStop
<1>28. ASSUME NEW t \in Tasks, KillJob(t) PROVE TypeOK'
  <2>1. ClusterOK
    BY <1>28, <1>l, <1>c DEF KillJob
  <2>2. StopOK
    BY <1>28, <1>24 DEF KillJob
  <2>3. QED  BY <1>28, <2>1, <2>2, <1>t, <1>q DEF KillJob
<1>29. ASSUME NEW t \in Tasks, NEW w \in Stoppers, StopFails(t, w) PROVE TypeOK'
  BY <1>29, <1>24, <1>t, <1>c, <1>f, <1>q DEF StopFails
<1>30. ASSUME NEW code \in RemoveCodes, RemoveWithCompletionCode(code) PROVE TypeOK'
  BY <1>30, <1>c, <1>q DEF RemoveWithCompletionCode
<1>31. ASSUME NEW t \in Tasks, JobRuns(t) \/ JobEnds(t) PROVE TypeOK'
  <2>1. ClusterOK
    BY <1>31, <1>l DEF JobRuns, JobEnds
  <2>2. QED  BY <1>31, <2>1, <1>t, <1>q DEF JobRuns, JobEnds
<1>32. ASSUME NEW t \in Tasks, JobPurged(t) PROVE TypeOK'
  BY <1>32, <1>t, <1>q DEF JobPurged
<1>33. ASSUME NEW t \in Tasks, FifteenMinutesPass(t) PROVE TypeOK'
  BY <1>33, <1>t, <1>c, <1>q DEF FifteenMinutesPass
<1>34. CASE Crash
  <2>1. submit' \in [Tasks -> SubmitType]
    BY <1>34 DEF Crash, SubmitType
  <2>2. QED  BY <1>34, <2>1, <1>t, <1>c, <1>q DEF Crash
<1>35. CASE UNCHANGED vars
  BY <1>35, <1>t, <1>c, <1>q DEF vars
<1>36. QED
  BY <1>1, <1>2, <1>3, <1>4, <1>5, <1>6, <1>7, <1>8, <1>9, <1>10, <1>11, <1>13, <1>14, <1>15, <1>17,
     <1>18, <1>19, <1>20, <1>21, <1>22, <1>23, <1>25, <1>26, <1>27, <1>28, <1>29, <1>30, <1>31,
     <1>32, <1>33, <1>34, <1>35 DEF Next

-----------------------------------------------------------------------------
(* What a step does to the table: one of these, and nothing else.           *)

Saved(t, old, new) == rows' = [rows EXCEPT ![t] = Save(rows[t], old, new)]

Creates(t) ==
  /\ starter.pc = "idle" /\ t \notin used
  /\ rows' = [rows EXCEPT ![t] = InitialRow]
  /\ used' = used \cup {t}
  /\ starter' = [pc |-> "created", task |-> t]
  /\ UNCHANGED <<known, lsf, announced, submit, poll, update, stop, aged>>

Runs(t) ==
  /\ starter.pc = "created" /\ starter.task = t /\ t \in used
  /\ Saved(t, InitialRow, MarkRunning(InitialRow))
  /\ starter' = [starter EXCEPT !.pc = "submitting"]
  /\ UNCHANGED <<used, lsf, announced, update>>

(* the start or the submission of a task fails *)
Fails(t) ==
  /\ faults' # 0 /\ t \in used
  /\ Saved(t, InitialRow, MarkError(InitialRow))
       \/ Saved(t, MarkRunning(InitialRow), MarkError(MarkRunning(InitialRow)))
  /\ ~(starter.pc = "created" /\ starter.task = t)
  /\ UNCHANGED starter \/ (starter.pc # "created" /\ starter'.pc # "created")
  /\ UNCHANGED <<used, lsf, announced, update>>

Ends(t) ==
  /\ update[t].pc = "save" /\ Saved(t, update[t].old, Updated(t))
  /\ UNCHANGED <<used, starter, lsf, announced>>

Cancels(t) ==
  /\ \E old \in Row : Saved(t, old, MarkCancelled(old))
  /\ UNCHANGED <<used, starter, lsf, announced, update>>

Removes(code) ==
  /\ rows' = [t \in Tasks |-> IF rows[t].compl = code THEN NoRow ELSE rows[t]]
  /\ UNCHANGED <<used, starter, lsf, announced, update>>

Leaves == UNCHANGED <<rows, used>> /\ (UNCHANGED starter \/ starter'.pc # "created")

RowStep ==
  \/ \E t \in Tasks : Creates(t) \/ Runs(t) \/ Fails(t) \/ Ends(t) \/ Cancels(t)
  \/ \E code \in RemoveCodes : Removes(code)
  \/ Leaves

LEMMA NextRows == TypeOK /\ Consistent /\ [Next]_vars => RowStep
<1> SUFFICES ASSUME TypeOK, Consistent, [Next]_vars PROVE RowStep
  OBVIOUS
<1> USE DEF table, cluster, troubles
<1>0. starter \in StarterType /\ used \subseteq Tasks /\ faults \in Nat
  BY TypeFacts
<1>1. ASSUME NEW t \in Tasks, Admit(t) PROVE Creates(t)
  BY <1>1 DEF Admit, Creates
<1>2. ASSUME SaveRunning PROVE \E t \in Tasks : Runs(t)
  BY <1>0, <1>2 DEF SaveRunning, StarterMoves, Runs, Saved, Consistent, StarterConsistent
<1>3. ASSUME SaveError PROVE \E t \in Tasks : Fails(t)
  <2>1. starter.task \in used /\ starter.pc = "failing" /\ faults # 0
    BY <1>3 DEF SaveError, StarterMoves, Consistent, StarterConsistent
  <2>2. starter'.pc = "responding"
    BY <1>0, <1>3 DEF SaveError, StarterMoves, StarterType
  <2>3. Saved(starter.task, InitialRow, MarkError(InitialRow))
    BY <1>3 DEF SaveError, Saved
  <2>4. QED  BY <1>0, <1>3, <2>1, <2>2, <2>3 DEF SaveError, Fails
<1>4. ASSUME NEW t \in Tasks, submit[t].pc \in {"sent", "printed"}, SaveSubmitError(t), faults' # 0,
             UNCHANGED <<used, starter, lsf, announced, update>>
      PROVE  Fails(t)
  <2>1. t \in used /\ ~(starter.pc = "created" /\ starter.task = t)
    BY <1>4 DEF Consistent, UnusedConsistent, StarterConsistent
  <2>2. Saved(t, MarkRunning(InitialRow), MarkError(MarkRunning(InitialRow)))
    BY <1>4 DEF SaveSubmitError, Saved
  <2>3. QED  BY <1>4, <2>1, <2>2 DEF Fails
<1>5. ASSUME NEW t \in Tasks, SubmitCloses(t) PROVE RowStep
  <2>1. CASE submit[t].failed
    <3>1. faults # 0
      BY <2>1 DEF Consistent, StarterConsistent
    <3>2. QED  BY <1>4, <1>5, <2>1, <3>1 DEF SubmitCloses, RowStep
  <2>2. CASE ~submit[t].failed
    BY <1>5, <2>2 DEF SubmitCloses, RowStep, Leaves
  <2>3. QED  BY <2>1, <2>2
<1>6. ASSUME NEW t \in Tasks, SubmitBreaks(t) PROVE Fails(t)
  BY <1>0, <1>4, <1>6 DEF SubmitBreaks, Fault
<1>7. ASSUME NEW t \in Tasks, SaveUpdate(t) PROVE Ends(t)
  BY <1>7 DEF SaveUpdate, Ends, Saved
<1>8. ASSUME NEW t \in Tasks, NEW w \in Stoppers, SaveStop(t, w) PROVE Cancels(t)
  <2>1. stop[t][w].old \in Row
    BY TypeFacts DEF StopType
  <2>2. QED  BY <1>8, <2>1 DEF SaveStop, Cancels, Saved
<1>9. ASSUME NEW code \in RemoveCodes, RemoveWithCompletionCode(code) PROVE Removes(code)
  BY <1>9 DEF RemoveWithCompletionCode, Removes
<1>10. CASE AdmitFails \/ Submit \/ StartFails \/ SaveErrorFails \/ Respond \/ Crash
  <2>1. UNCHANGED <<rows, used>>
    BY <1>10 DEF AdmitFails, Submit, StartFails, SaveErrorFails, Respond, Crash
  <2>2. starter'.pc # "created"
    BY <1>0, <1>10, IdleTypes DEF AdmitFails, Submit, StartFails, SaveErrorFails, Respond, Crash,
       StarterMoves, StarterType
  <2>3. QED  BY <2>1, <2>2 DEF RowStep, Leaves
<1>11. CASE UNCHANGED <<rows, used, starter>>
  BY <1>11 DEF RowStep, Leaves
<1>12. CASE FindRunning \/ JobsListed \/ AnswerGarbled \/ PollFails \/ SweepZombies \/ NotifyTaskLoad
  BY <1>11, <1>12 DEF FindRunning, JobsListed, AnswerGarbled, PollFails, SweepZombies, NotifyTaskLoad
<1>13. ASSUME NEW t \in Tasks, BsubAccepts(t) \/ SubmitPrints(t) \/ SubmitGarbles(t) \/ SaveUpdateFails(t)
                               \/ UserStop(t) \/ UpdateZombie(t) \/ KillJob(t) \/ JobRuns(t)
                               \/ JobEnds(t) \/ JobPurged(t) \/ FifteenMinutesPass(t)
       PROVE  UNCHANGED <<rows, used, starter>>
  BY <1>13 DEF BsubAccepts, SubmitPrints, SubmitGarbles, SaveUpdateFails, UserStop, UpdateZombie,
               KillJob, JobRuns, JobEnds, JobPurged, FifteenMinutesPass
<1>14. ASSUME NEW t \in Tasks, NEW w \in Stoppers, StopFails(t, w) PROVE UNCHANGED <<rows, used, starter>>
  BY <1>14 DEF StopFails
<1>15. CASE UNCHANGED vars
  BY <1>11, <1>15 DEF vars
<1>16. QED
  BY <1>1, <1>2, <1>3, <1>5, <1>6, <1>7, <1>8, <1>9, <1>10, <1>11, <1>12, <1>13, <1>14, <1>15
  DEF Next, RowStep

-----------------------------------------------------------------------------
(* The poll's save, of a copy that was running: it stamps what it completes *)
(* and it takes no stamp away.                                              *)
LEMMA SavedUpdate ==
  ASSUME TypeOK, NEW t \in Tasks, update[t].old.exec = Running
  PROVE  LET saved == Save(rows[t], update[t].old, Updated(t))
             ends  == update[t].status >= JobStopped /\ ~Stamped(update[t].old)
         IN
         /\ ~Stored(rows[t]) => saved = rows[t]
         /\ Stored(rows[t]) /\ ends => saved.exec = Completed /\ Stamped(saved)
         /\ Stored(rows[t]) /\ ~ends => saved.exec = rows[t].exec
         /\ ~ends => saved.completed_at = rows[t].completed_at
         /\ saved.compl = Success => rows[t].compl = Success \/ update[t].status = JobStopped
         /\ \/ saved.compl = rows[t].compl
            \/ update[t].status = JobStopped /\ saved.compl = Success
            \/ update[t].status = JobExited /\ saved.compl = Error
<1> DEFINE old == update[t].old
           new == UpdateCluster(old, update[t].status)
           row == rows[t]
           saved == Save(row, old, new)
<1>1. row \in Row /\ old \in Row /\ update[t].status \in JobStatuses
  BY TypeFacts DEF UpdateType
<1>2. /\ new \in Row
      /\ update[t].status < JobStopped => new = old
      /\ Stamped(old) => new.exec = old.exec /\ Stamped(new)
      /\ update[t].status >= JobStopped /\ ~Stamped(old) => new.exec = Completed /\ Stamped(new)
      /\ new.compl = Success => old.compl = Success \/ update[t].status = JobStopped
      /\ \/ new.compl = old.compl
         \/ update[t].status = JobStopped /\ new.compl = Success
         \/ update[t].status = JobExited /\ new.compl = Error
  BY <1>1, ClusterUpdateFacts
<1>3. /\ ~Stored(row) => saved = row
      /\ Stored(row) =>
           /\ saved.exec = IF new.exec = old.exec THEN row.exec ELSE new.exec
           /\ saved.compl = IF new.compl = old.compl THEN row.compl ELSE new.compl
           /\ saved.completed_at =
                IF new.completed_at = old.completed_at THEN row.completed_at ELSE new.completed_at
  BY <1>1, <1>2, SaveFacts
<1>4. update[t].status < JobStopped \/ update[t].status >= JobStopped
  BY <1>1 DEF JobStatuses
<1>5. old.exec = Running /\ Updated(t) = new
  BY DEF Updated
<1> HIDE DEF old, new, row, saved
<1>6. /\ ~Stored(row) => saved = row
      /\ Stored(row) /\ update[t].status >= JobStopped /\ ~Stamped(old) =>
           saved.exec = Completed /\ Stamped(saved)
      /\ ~(update[t].status >= JobStopped /\ ~Stamped(old)) =>
           /\ Stored(row) => saved.exec = row.exec
           /\ saved.completed_at = row.completed_at
      /\ saved.compl = Success => row.compl = Success \/ update[t].status = JobStopped
      /\ \/ saved.compl = row.compl
         \/ update[t].status = JobStopped /\ saved.compl = Success
         \/ update[t].status = JobExited /\ saved.compl = Error
  BY <1>1, <1>2, <1>3, <1>4, <1>5 DEF Stamped, Row
<1>7. QED  BY <1>5, <1>6 DEF old, new, row, saved

-----------------------------------------------------------------------------
(* Who writes what, beside the table *)

LEMMA Writers ==
  [Next]_vars =>
    /\ \/ UNCHANGED submit
       \/ Submit \/ Crash
       \/ \E t \in Tasks : SubmitPrints(t) \/ SubmitGarbles(t) \/ SubmitCloses(t) \/ SubmitBreaks(t)
    /\ \/ UNCHANGED stop
       \/ SweepZombies \/ Crash
       \/ \E t \in Tasks : UserStop(t) \/ UpdateZombie(t) \/ KillJob(t)
       \/ \E t \in Tasks, w \in Stoppers : SaveStop(t, w) \/ StopFails(t, w)
    /\ aged' \subseteq aged \/ \E t \in Tasks : FifteenMinutesPass(t)
    /\ UNCHANGED known \/ \E t \in Tasks : SubmitPrints(t)
    /\ \/ UNCHANGED poll
       \/ FindRunning \/ JobsListed \/ AnswerGarbled \/ SweepZombies
       \/ poll' = IdlePoll
    /\ \/ UNCHANGED update
       \/ FindRunning \/ JobsListed \/ AnswerGarbled \/ PollFails \/ Crash
       \/ \E t \in Tasks : SaveUpdate(t) \/ SaveUpdateFails(t)
<1> SUFFICES ASSUME [Next]_vars
    PROVE /\ \/ UNCHANGED submit
             \/ Submit \/ Crash
             \/ \E t \in Tasks : SubmitPrints(t) \/ SubmitGarbles(t) \/ SubmitCloses(t) \/ SubmitBreaks(t)
          /\ \/ UNCHANGED stop
             \/ SweepZombies \/ Crash
             \/ \E t \in Tasks : UserStop(t) \/ UpdateZombie(t) \/ KillJob(t)
             \/ \E t \in Tasks, w \in Stoppers : SaveStop(t, w) \/ StopFails(t, w)
          /\ aged' \subseteq aged \/ \E t \in Tasks : FifteenMinutesPass(t)
          /\ UNCHANGED known \/ \E t \in Tasks : SubmitPrints(t)
          /\ \/ UNCHANGED poll
             \/ FindRunning \/ JobsListed \/ AnswerGarbled \/ SweepZombies
             \/ poll' = IdlePoll
          /\ \/ UNCHANGED update
             \/ FindRunning \/ JobsListed \/ AnswerGarbled \/ PollFails \/ Crash
             \/ \E t \in Tasks : SaveUpdate(t) \/ SaveUpdateFails(t)
  OBVIOUS
<1> USE DEF table
<1>1. CASE AdmitFails \/ SaveRunning \/ Submit \/ StartFails \/ SaveError \/ SaveErrorFails \/ Respond
  BY <1>1 DEF AdmitFails, SaveRunning, Submit, StartFails, SaveError, SaveErrorFails, Respond
<1>2. CASE FindRunning \/ JobsListed \/ AnswerGarbled \/ PollFails \/ SweepZombies \/ NotifyTaskLoad
           \/ Crash
  BY <1>2 DEF FindRunning, JobsListed, AnswerGarbled, PollFails, SweepZombies, NotifyTaskLoad, Crash
<1>3. ASSUME NEW t \in Tasks, Admit(t) \/ BsubAccepts(t) \/ SubmitPrints(t) \/ SubmitGarbles(t)
                              \/ SubmitCloses(t) \/ SubmitBreaks(t)
      PROVE  /\ UNCHANGED <<stop, aged, poll, update>>
             /\ UNCHANGED known \/ SubmitPrints(t)
             /\ UNCHANGED submit \/ SubmitPrints(t) \/ SubmitGarbles(t) \/ SubmitCloses(t) \/ SubmitBreaks(t)
  BY <1>3 DEF Admit, BsubAccepts, SubmitPrints, SubmitGarbles, SubmitCloses, SubmitBreaks
<1>4. ASSUME NEW t \in Tasks, SaveUpdate(t) \/ SaveUpdateFails(t)
      PROVE  /\ UNCHANGED <<submit, stop, known>> /\ aged' \subseteq aged
             /\ UNCHANGED poll \/ poll' = IdlePoll
  BY <1>4 DEF SaveUpdate, SaveUpdateFails
<1>5. ASSUME NEW t \in Tasks, UserStop(t) \/ UpdateZombie(t) \/ KillJob(t)
      PROVE  UNCHANGED <<submit, aged, known, poll, update>>
  BY <1>5 DEF UserStop, UpdateZombie, KillJob
<1>6. ASSUME NEW t \in Tasks, NEW w \in Stoppers, SaveStop(t, w) \/ StopFails(t, w)
      PROVE  UNCHANGED <<submit, aged, known, poll, update>>
  BY <1>6 DEF SaveStop, StopFails
<1>7. ASSUME NEW t \in Tasks, JobRuns(t) \/ JobEnds(t) \/ JobPurged(t)
      PROVE  UNCHANGED <<submit, stop, aged, known, poll, update>>
  BY <1>7 DEF JobRuns, JobEnds, JobPurged
<1>8. ASSUME NEW t \in Tasks, FifteenMinutesPass(t)
      PROVE  UNCHANGED <<submit, stop, known, poll, update>>
  BY <1>8 DEF FifteenMinutesPass
<1>9. ASSUME NEW code \in RemoveCodes, RemoveWithCompletionCode(code)
      PROVE  UNCHANGED <<submit, stop, aged, known, poll, update>>
  BY <1>9 DEF RemoveWithCompletionCode
<1>10. CASE UNCHANGED vars
  BY <1>10 DEF vars
<1>11. CASE Next
  BY <1>1, <1>2, <1>3, <1>4, <1>5, <1>6, <1>7, <1>8, <1>9, <1>11 DEF Next
<1>12. QED  BY <1>10, <1>11

(* A task is submitted by its start, and once. *)
LEMMA SubmitMoves ==
  ASSUME TypeOK, [Next]_vars, NEW t \in Tasks
  PROVE  /\ submit'[t].pc # "idle" =>
              submit[t].pc # "idle" \/ (Submit /\ starter.task = t)
         /\ submit'[t].pc \in {"sent", "printed"} =>
              submit[t].pc \in {"sent", "printed"} \/ (Submit /\ starter.task = t)
         /\ submit'[t].failed => submit[t].failed \/ faults' # 0
<1> USE IdleTypes
<1>0. submit \in [Tasks -> SubmitType] /\ faults \in Nat
  BY TypeFacts
<1>1. CASE Submit
  <2>1. submit' = [submit EXCEPT ![starter.task] = [pc |-> "sent", failed |-> FALSE]]
    BY <1>1 DEF Submit
  <2>2. CASE starter.task = t
    BY <1>0, <1>1, <2>1, <2>2
  <2>3. CASE starter.task # t
    BY <1>0, <2>1, <2>3
  <2>4. QED  BY <2>2, <2>3
<1>2. ASSUME NEW u \in Tasks, SubmitPrints(u) \/ SubmitGarbles(u) \/ SubmitCloses(u) \/ SubmitBreaks(u),
             u # t
      PROVE  submit'[t] = submit[t]
  BY <1>0, <1>2 DEF SubmitPrints, SubmitGarbles, SubmitCloses, SubmitBreaks
<1>3. CASE SubmitPrints(t) \/ SubmitGarbles(t)
  BY <1>0, <1>3 DEF SubmitPrints, SubmitGarbles, SubmitType, Fault
<1>4. CASE SubmitCloses(t) \/ SubmitBreaks(t)
  BY <1>0, <1>4 DEF SubmitCloses, SubmitBreaks, SubmitType, Fault
<1>5. CASE Crash
  BY <1>0, <1>5 DEF Crash, SubmitType
<1>6. CASE UNCHANGED submit
  BY <1>6
<1>7. QED  BY <1>1, <1>2, <1>3, <1>4, <1>5, <1>6, Writers

(* Only the poll begins a sweep. *)
LEMMA SweepMoves ==
  ASSUME TypeOK, [Next]_vars, NEW t \in Tasks, stop'[t]["sweep"].pc # "idle"
  PROVE  \/ stop[t]["sweep"].pc # "idle"
         \/ SweepZombies /\ t \in (poll.running \ poll.listed) \cap aged
<1> USE IdleTypes
<1>0. stop \in [Tasks -> [Stoppers -> StopType]] /\ "sweep" \in Stoppers /\ "user" \in Stoppers
  BY TypeFacts DEF Stoppers
<1>1. CASE SweepZombies
  BY <1>0, <1>1 DEF SweepZombies
<1>2. ASSUME NEW u \in Tasks, NEW w \in Stoppers, NEW s \in StopType, stop' = [stop EXCEPT ![u][w] = s],
             w = "sweep" => stop[u][w].pc # "idle"
      PROVE  stop[t]["sweep"].pc # "idle"
  BY <1>0, <1>2
<1>3. ASSUME NEW u \in Tasks, UserStop(u) \/ UpdateZombie(u) \/ KillJob(u)
      PROVE  stop[t]["sweep"].pc # "idle"
  BY <1>0, <1>2, <1>3, FoundTypes DEF UserStop, UpdateZombie, KillJob
<1>4. ASSUME NEW u \in Tasks, NEW w \in Stoppers, SaveStop(u, w) \/ StopFails(u, w)
      PROVE  stop[t]["sweep"].pc # "idle"
  BY <1>0, <1>2, <1>4, FoundTypes DEF SaveStop, StopFails
<1>5. CASE Crash
  BY <1>0, <1>5 DEF Crash
<1>6. CASE UNCHANGED stop
  BY <1>6
<1>7. QED  BY <1>1, <1>3, <1>4, <1>5, <1>6, Writers

(* A copy is read from a running row, and is given its status by LSF.       *)
LEMMA UpdateMoves ==
  ASSUME TypeOK, [Next]_vars, NEW t \in Tasks, update'[t].pc # "idle"
  PROVE  \/ update[t].pc # "idle" /\ update'[t] = update[t]
         \/ update'[t].pc = "read" /\ update'[t].old = rows[t] /\ rows[t].exec = Running
         \/ /\ t \in poll.ids \ purged /\ update'[t].old = update[t].old
            /\ poll.pc = "asked"
            /\ update'[t].status >= JobStopped =>
                 /\ t \in announced'
                 /\ lsf[t] \in {"done", "exit"} /\ UNCHANGED lsf
                 /\ update'[t].status = JobStopped => lsf[t] = "done"
                 /\ update'[t].status = JobExited => lsf[t] = "exit"
<1> USE IdleTypes
<1>0. update \in [Tasks -> UpdateType]
  BY TypeFacts
<1>1. CASE FindRunning
  <2>1. CASE RunningTasks = {}
    BY <1>1, <2>1 DEF FindRunning
  <2>2. CASE RunningTasks # {}
    BY <1>1, <2>2 DEF FindRunning, RunningTasks
  <2>3. QED  BY <2>1, <2>2
<1>2. ASSUME NEW listed \in SUBSET Listed, Answered(listed), UNCHANGED lsf, poll.pc = "asked"
      PROVE  /\ t \in poll.ids \ purged /\ update'[t].old = update[t].old
             /\ update'[t].status >= JobStopped =>
                  /\ t \in announced'
                  /\ lsf[t] \in {"done", "exit"} /\ UNCHANGED lsf
                  /\ update'[t].status = JobStopped => lsf[t] = "done"
                  /\ update'[t].status = JobExited => lsf[t] = "exit"
  BY <1>2, AnswerFacts DEF Listed
<1>3. CASE JobsListed
  BY <1>2, <1>3 DEF JobsListed, cluster
<1>4. CASE AnswerGarbled
  BY <1>2, <1>4 DEF AnswerGarbled, cluster
<1>5. CASE PollFails \/ Crash
  BY <1>5 DEF PollFails, Crash
<1>6. ASSUME NEW u \in Tasks, SaveUpdate(u) \/ SaveUpdateFails(u)
      PROVE  update[t].pc # "idle" /\ update'[t] = update[t]
  BY <1>0, <1>6 DEF SaveUpdate, SaveUpdateFails
<1>7. CASE UNCHANGED update
  BY <1>7
<1>8. QED  BY <1>1, <1>3, <1>4, <1>5, <1>6, <1>7, Writers

(* The start queue takes one task at a time from step to step. *)
LEMMA StarterSteps ==
  ASSUME TypeOK, [Next]_vars
  PROVE  \/ UNCHANGED starter
         \/ starter' = IdleStarter
         \/ /\ starter'.pc = "wedged"
            /\ \/ Fault \/ SaveErrorFails
               \/ /\ starter.pc = "responding" /\ ~Stored(rows[starter.task])
                  /\ starter'.task = starter.task
         \/ \E t \in Tasks : Creates(t)
         \/ /\ starter'.task = starter.task /\ starter.pc \in {"created", "submitting", "failing"}
            /\ \/ starter'.pc = "submitting" /\ starter.pc = "created" /\ UNCHANGED submit
               \/ starter'.pc = "failing" /\ faults' # 0
               \/ starter'.pc = "responding"
<1>0. starter \in StarterType /\ faults \in Nat
  BY TypeFacts
<1> USE DEF table, cluster, troubles
<1>1. ASSUME NEW t \in Tasks, Admit(t) PROVE Creates(t)
  BY <1>1 DEF Admit, Creates
<1>2. ASSUME SaveRunning \/ Submit \/ StartFails \/ SaveError
      PROVE  /\ starter'.task = starter.task /\ starter.pc \in {"created", "submitting", "failing"}
             /\ \/ starter'.pc = "submitting" /\ starter.pc = "created" /\ UNCHANGED submit
                \/ starter'.pc = "failing" /\ faults' # 0
                \/ starter'.pc = "responding"
  BY <1>0, <1>2 DEF SaveRunning, Submit, StartFails, SaveError, StarterMoves, StarterType, Fault
<1>3. CASE AdmitFails \/ SaveErrorFails \/ Respond \/ Crash
  BY <1>0, <1>3, IdleTypes DEF AdmitFails, SaveErrorFails, Respond, Crash, StarterMoves, StarterType
<1>4. CASE FindRunning \/ JobsListed \/ AnswerGarbled \/ PollFails \/ SweepZombies \/ NotifyTaskLoad
  BY <1>4 DEF FindRunning, JobsListed, AnswerGarbled, PollFails, SweepZombies, NotifyTaskLoad
<1>5. ASSUME NEW t \in Tasks, BsubAccepts(t) \/ SubmitPrints(t) \/ SubmitGarbles(t) \/ SubmitCloses(t)
                              \/ SubmitBreaks(t) \/ SaveUpdate(t) \/ SaveUpdateFails(t) \/ UserStop(t)
                              \/ UpdateZombie(t) \/ KillJob(t) \/ JobRuns(t) \/ JobEnds(t)
                              \/ JobPurged(t) \/ FifteenMinutesPass(t)
      PROVE  UNCHANGED starter
  BY <1>5 DEF BsubAccepts, SubmitPrints, SubmitGarbles, SubmitCloses, SubmitBreaks, SaveUpdate,
              SaveUpdateFails, UserStop, UpdateZombie, KillJob, JobRuns, JobEnds, JobPurged,
              FifteenMinutesPass
<1>6. ASSUME NEW t \in Tasks, NEW w \in Stoppers, SaveStop(t, w) \/ StopFails(t, w)
      PROVE  UNCHANGED starter
  BY <1>6 DEF SaveStop, StopFails
<1>7. ASSUME NEW code \in RemoveCodes, RemoveWithCompletionCode(code) PROVE UNCHANGED starter
  BY <1>7 DEF RemoveWithCompletionCode
<1>8. CASE UNCHANGED vars
  BY <1>8 DEF vars
<1>9. QED  BY <1>1, <1>2, <1>3, <1>4, <1>5, <1>6, <1>7, <1>8 DEF Next

-----------------------------------------------------------------------------
(* Consistency is inductive: first what a step does to one task's row *)

LEMMA RowMoves ==
  ASSUME TypeOK, Consistent, [Next]_vars, NEW t \in Tasks
  PROVE  \/ Creates(t) /\ rows'[t] = InitialRow
         \/ /\ ~Stored(rows'[t]) /\ rows'[t] = NoRow
            /\ \E code \in RemoveCodes : Removes(code)
         \/ /\ ~Stored(rows[t]) => rows'[t] = rows[t]
            /\ Stored(rows[t]) => Stored(rows'[t])
            /\ Stamped(rows[t]) => Stamped(rows'[t])
            /\ \/ rows'[t].exec = rows[t].exec
               \/ Runs(t) \/ Cancels(t)
               \/ Stamped(rows'[t]) /\ (Fails(t) \/ Ends(t))
            /\ rows'[t].exec = Running => rows[t].exec = Running \/ Runs(t)
            /\ rows'[t].compl = Success =>
                 rows[t].compl = Success \/ (lsf'[t] = "done" /\ t \in announced')
            /\ rows'[t].compl = Error => rows[t].compl = Error \/ faults' # 0 \/ lsf'[t] = "exit"
            /\ rows[t].compl \in {Success, Error} =>
                 rows'[t].compl \in {rows[t].compl, Cancel} \/ faults' # 0
            /\ Stamped(rows'[t]) =>
                 Stamped(rows[t]) \/ Fails(t) \/ (Ends(t) /\ Ended(t)')
<1> DEFINE Moves ==
         /\ ~Stored(rows[t]) => rows'[t] = rows[t]
         /\ Stored(rows[t]) => Stored(rows'[t])
         /\ Stamped(rows[t]) => Stamped(rows'[t])
         /\ \/ rows'[t].exec = rows[t].exec
            \/ Runs(t) \/ Cancels(t)
            \/ Stamped(rows'[t]) /\ (Fails(t) \/ Ends(t))
         /\ rows'[t].exec = Running => rows[t].exec = Running \/ Runs(t)
         /\ rows'[t].compl = Success =>
              rows[t].compl = Success \/ (lsf'[t] = "done" /\ t \in announced')
         /\ rows'[t].compl = Error => rows[t].compl = Error \/ faults' # 0 \/ lsf'[t] = "exit"
         /\ rows[t].compl \in {Success, Error} =>
              rows'[t].compl \in {rows[t].compl, Cancel} \/ faults' # 0
         /\ Stamped(rows'[t]) =>
              Stamped(rows[t]) \/ Fails(t) \/ (Ends(t) /\ Ended(t)')
<1>0. rows \in [Tasks -> Row] /\ rows[t] \in Row
  BY TypeFacts
<1>a. ASSUME rows'[t] = rows[t] PROVE Moves
  BY <1>a
<1>b. ASSUME NEW u \in Tasks \ {t}, NEW old, NEW new, Saved(u, old, new) PROVE Moves
  BY <1>0, <1>b, <1>a DEF Saved
<1>c. ASSUME NEW old, NEW new, Saved(t, old, new) PROVE rows'[t] = Save(rows[t], old, new)
  BY <1>0, <1>c DEF Saved
<1>1. ASSUME NEW u \in Tasks, Creates(u)
      PROVE  Moves \/ (Creates(t) /\ rows'[t] = InitialRow)
  BY <1>0, <1>1, <1>a DEF Creates
<1>2. ASSUME NEW u \in Tasks, Runs(u) PROVE Moves
  <2>1. CASE u = t
    <3>1. rows'[t] = Save(rows[t], InitialRow, MarkRunning(InitialRow))
      BY <1>2, <1>c, <2>1 DEF Runs
    <3>2. QED  BY <1>0, <1>2, <2>1, <3>1, SavedRunning DEF Stored, Stamped
  <2>2. CASE u # t
    BY <1>2, <1>b, <2>2 DEF Runs
  <2>3. QED  BY <2>1, <2>2
<1>3. ASSUME NEW u \in Tasks, Fails(u) PROVE Moves
  <2>1. PICK old \in {InitialRow, MarkRunning(InitialRow)} : Saved(u, old, MarkError(old))
    BY <1>3 DEF Fails
  <2>2. CASE u = t
    <3>1. rows'[t] = Save(rows[t], old, MarkError(old))
      BY <1>c, <2>1, <2>2
    <3>2. faults' # 0
      BY <1>3 DEF Fails
    <3>3. QED  BY <1>0, <1>3, <2>2, <3>1, <3>2, SavedError DEF Stored
  <2>3. CASE u # t
    BY <1>b, <2>1, <2>3
  <2>4. QED  BY <2>2, <2>3
<1>4. ASSUME NEW u \in Tasks, Ends(u) PROVE Moves
  <2>1. CASE u = t
    <3>1. rows'[t] = Save(rows[t], update[t].old, Updated(t))
      BY <1>4, <1>c, <2>1 DEF Ends
    <3>2. /\ update[t].old.exec = Running
          /\ update[t].status >= JobStopped => Ended(t)
          /\ update[t].status = JobStopped => lsf[t] = "done" /\ Ended(t)
          /\ update[t].status = JobExited => lsf[t] = "exit"
      BY <1>4, <2>1 DEF Ends, Consistent, UpdateConsistent
    <3>a. faults' = 0 =>
            /\ rows[t].compl = Success => lsf[t] = "done"
            /\ rows[t].compl = Error => lsf[t] = "exit"
      BY NextKeeps DEF Keeps, Consistent, RowConsistent
    <3>3. UNCHANGED <<lsf, announced>>
      BY <1>4, <2>1 DEF Ends
    <3>4. Ended(t) => Ended(t)'
      BY <3>3 DEF Ended
    <3>5. /\ rows'[t].compl = Error => rows[t].compl = Error \/ lsf'[t] = "exit"
          /\ faults' = 0 /\ rows[t].compl \in {Success, Error} => rows'[t].compl = rows[t].compl
      <4>1. \/ rows'[t].compl = rows[t].compl
            \/ update[t].status = JobStopped /\ rows'[t].compl = Success
            \/ update[t].status = JobExited /\ rows'[t].compl = Error
        BY <3>1, <3>2, SavedUpdate
      <4>2. QED  BY <3>2, <3>a, <3>3, <4>1
    <3> DEFINE saved == rows'[t]
    <3>6. /\ ~Stored(rows[t]) => saved = rows[t]
          /\ Stored(rows[t]) => saved.exec \in {rows[t].exec, Completed}
          /\ saved.exec # rows[t].exec => Stamped(saved)
          /\ Stamped(rows[t]) => Stamped(saved)
          /\ Stamped(saved) => Stamped(rows[t]) \/ Ended(t)
          /\ saved.compl = Success => rows[t].compl = Success \/ (lsf[t] = "done" /\ Ended(t))
      BY <1>0, <3>1, <3>2, SavedUpdate DEF Stored, Stamped
    <3>7. Stored(rows[t]) => Stored(saved)
      BY <3>6 DEF Stored
    <3>8. saved.exec = Running => rows[t].exec = Running
      BY <3>6
    <3> HIDE DEF saved
    <3>9. QED  BY <1>4, <2>1, <3>3, <3>4, <3>5, <3>6, <3>7, <3>8 DEF saved, Ended
  <2>2. CASE u # t
    BY <1>4, <1>b, <2>2 DEF Ends
  <2>3. QED  BY <2>1, <2>2
<1>5. ASSUME NEW u \in Tasks, Cancels(u) PROVE Moves
  <2>1. PICK old \in Row : Saved(u, old, MarkCancelled(old))
    BY <1>5 DEF Cancels
  <2>2. CASE u = t
    <3>1. rows'[t] = Save(rows[t], old, MarkCancelled(old))
      BY <1>c, <2>1, <2>2
    <3>2. QED  BY <1>0, <1>5, <2>2, <3>1, SavedCancel DEF Stored, Stamped
  <2>3. CASE u # t
    BY <1>b, <2>1, <2>3
  <2>4. QED  BY <2>2, <2>3
<1>6. ASSUME NEW code \in RemoveCodes, Removes(code)
      PROVE  Moves \/ (~Stored(rows'[t]) /\ rows'[t] = NoRow)
  <2>1. rows'[t] = NoRow \/ rows'[t] = rows[t]
    BY <1>6 DEF Removes
  <2>2. ~Stored(NoRow)
    BY DEF NoRow, Stored
  <2>3. QED  BY <2>1, <2>2, <1>a
<1>7. CASE Leaves
  BY <1>7, <1>a DEF Leaves
<1>8. QED  BY <1>1, <1>2, <1>3, <1>4, <1>5, <1>6, <1>7, NextRows DEF RowStep

LEMMA NextUnused ==
  ASSUME TypeOK, Consistent, [Next]_vars, NEW t \in Tasks PROVE UnusedConsistent(t)'
<1> SUFFICES ASSUME t \notin used'
             PROVE  /\ rows'[t] = NoRow /\ submit'[t].pc = "idle" /\ update'[t].pc = "idle"
                    /\ stop'[t]["sweep"].pc = "idle" /\ t \notin aged'
  BY DEF UnusedConsistent
<1>1. /\ t \notin used /\ rows[t] = NoRow /\ submit[t].pc = "idle" /\ update[t].pc = "idle"
      /\ stop[t]["sweep"].pc = "idle" /\ t \notin aged
  BY NextKeeps DEF Keeps, Consistent, UnusedConsistent
<1>2. ~Stored(NoRow) /\ NoRow.exec # Running
  BY DEF Stored, NoRow
<1>3. rows'[t] = NoRow
  BY <1>1, <1>2, RowMoves DEF Creates
<1>4. submit'[t].pc = "idle"
  <2>1. Submit => starter.task \in used
    BY DEF Submit, StarterMoves, Consistent, StarterConsistent
  <2>2. QED  BY <1>1, <2>1, SubmitMoves
<1>5. update'[t].pc = "idle"
  <2>1. t \notin poll.ids
    BY <1>1 DEF TypeOK, Consistent, PollConsistent
  <2>2. QED  BY <1>1, <1>2, <2>1, UpdateMoves
<1>6. stop'[t]["sweep"].pc = "idle"
  BY <1>1, SweepMoves
<1>7. t \notin aged'
  BY <1>1, <1>2, Writers DEF FifteenMinutesPass
<1>8. QED  BY <1>3, <1>4, <1>5, <1>6, <1>7

LEMMA NextRow ==
  ASSUME TypeOK, Consistent, [Next]_vars, NEW t \in Tasks PROVE RowConsistent(t)'
<1>1. RowConsistent(t) /\ Keeps /\ (t \in announced => t \in announced')
  BY NextKeeps DEF Consistent, Keeps
<1>2. /\ lsf[t] = "done" => lsf'[t] = "done"
      /\ lsf[t] = "exit" => lsf'[t] = "exit"
      /\ Ended(t) => Ended(t)'
  BY <1>1 DEF Keeps, Ended
<1>3. CASE Creates(t) /\ rows'[t] = InitialRow
  BY <1>3 DEF RowConsistent, InitialRow, Stored, Stamped
<1>4. CASE ~Stored(rows'[t]) /\ rows'[t] = NoRow
  BY <1>4 DEF RowConsistent, NoRow, Stamped
<1>5. CASE /\ ~Stored(rows[t]) => rows'[t] = rows[t]
           /\ Stored(rows[t]) => Stored(rows'[t])
           /\ rows'[t].compl = Success =>
                rows[t].compl = Success \/ (lsf'[t] = "done" /\ t \in announced')
           /\ rows'[t].compl = Error => rows[t].compl = Error \/ faults' # 0 \/ lsf'[t] = "exit"
           /\ Stamped(rows'[t]) => Stamped(rows[t]) \/ Fails(t) \/ (Ends(t) /\ Ended(t)')
  <2>1. ~Stored(rows'[t]) => rows'[t] = NoRow
    BY <1>1, <1>5 DEF RowConsistent
  <2>2. rows'[t].compl = Success => lsf'[t] = "done" /\ t \in announced'
    BY <1>1, <1>2, <1>5 DEF RowConsistent
  <2>3. faults' = 0 /\ Stamped(rows'[t]) => Ended(t)'
    BY <1>1, <1>2, <1>5 DEF RowConsistent, Keeps, Fails
  <2>4. faults' = 0 /\ rows'[t].compl = Error => lsf'[t] = "exit"
    BY <1>1, <1>2, <1>5 DEF RowConsistent, Keeps
  <2>5. QED  BY <2>1, <2>2, <2>3, <2>4 DEF RowConsistent
<1>6. QED  BY <1>3, <1>4, <1>5, RowMoves

LEMMA NextUpdate ==
  ASSUME TypeOK, Consistent, [Next]_vars, NEW t \in Tasks PROVE UpdateConsistent(t)'
<1>1. UpdateConsistent(t) /\ PollConsistent(t) /\ Keeps
  BY NextKeeps DEF Consistent
<1>2. SUFFICES ASSUME update'[t].pc # "idle" PROVE UpdateConsistent(t)'
  BY DEF UpdateConsistent
<1>3. CASE update[t].pc # "idle" /\ update'[t] = update[t]
  BY <1>1, <1>3 DEF UpdateConsistent, Keeps, Ended
<1>4. CASE update'[t].pc = "read" /\ update'[t].old = rows[t] /\ rows[t].exec = Running
  BY <1>4 DEF UpdateConsistent
<1>5. CASE /\ t \in poll.ids /\ update'[t].old = update[t].old
           /\ poll.pc = "asked"
           /\ update'[t].status >= JobStopped =>
                /\ t \in announced'
                /\ lsf[t] \in {"done", "exit"} /\ UNCHANGED lsf
                /\ update'[t].status = JobStopped => lsf[t] = "done"
                /\ update'[t].status = JobExited => lsf[t] = "exit"
  BY <1>1, <1>5 DEF UpdateConsistent, PollConsistent, Ended
<1>6. QED  BY <1>2, <1>3, <1>4, <1>5, UpdateMoves

LEMMA NextStarter ==
  ASSUME TypeOK, Consistent, [Next]_vars PROVE StarterConsistent'
<1>1. StarterConsistent /\ Keeps
  BY NextKeeps DEF Consistent
<1>2. \A t \in Tasks : submit'[t].failed => faults' # 0
  BY <1>1, SubmitMoves DEF StarterConsistent, Keeps
<1>3. starter \in StarterType /\ used \subseteq Tasks
  BY TypeFacts
<1>4. CASE UNCHANGED starter
  <2>1. starter.pc \in {"created", "submitting", "failing", "responding"} => starter'.task \in used'
    BY <1>1, <1>4 DEF StarterConsistent, Keeps
  <2>2. ASSUME starter.pc = "created"
        PROVE  /\ rows'[starter.task].exec # Running /\ ~Stamped(rows'[starter.task])
               /\ update'[starter.task].pc = "idle"
    <3>1. PICK t \in Tasks : t = starter.task
      BY <1>1, <1>3, <2>2 DEF StarterConsistent
    <3>2. rows[t].exec # Running /\ ~Stamped(rows[t]) /\ update[t].pc = "idle"
      BY <1>1, <2>2, <3>1 DEF StarterConsistent
    <3>3. ~Creates(t) /\ ~Runs(t)
      BY <1>3, <1>4, <2>2 DEF Creates, Runs, StarterType
    <3>4. ~Fails(t) /\ ~Ends(t)
      BY <2>2, <3>1, <3>2 DEF Fails, Ends
    <3>5. NoRow.exec # Running /\ ~Stamped(NoRow)
      BY DEF NoRow, Stamped
    <3>6. rows'[t].exec # Running /\ ~Stamped(rows'[t])
      BY <3>2, <3>3, <3>4, <3>5, RowMoves
    <3>7. poll.pc = "asked" => t \notin poll.ids
      BY <3>2 DEF Consistent, PollConsistent
    <3>8. update'[t].pc = "idle"
      BY <3>2, <3>7, UpdateMoves
    <3>9. QED  BY <3>1, <3>6, <3>8
  <2>3. starter.pc \in {"created", "submitting"} => submit'[starter.task].pc = "idle"
    <3>1. starter.pc \in {"created", "submitting"} =>
            starter.task \in Tasks /\ submit[starter.task].pc = "idle"
      BY <1>1, <1>3 DEF StarterConsistent
    <3>2. ~Submit
      BY <1>3, <1>4 DEF Submit, StarterMoves, StarterType
    <3>3. QED  BY <3>1, <3>2, SubmitMoves
  <2>4. starter.pc = "failing" => faults' # 0
    BY <1>1 DEF StarterConsistent, Keeps
  <2>5. QED  BY <1>2, <1>4, <2>1, <2>2, <2>3, <2>4 DEF StarterConsistent
<1>5. CASE starter'.pc \in {"idle", "wedged"}
  BY <1>2, <1>5 DEF StarterConsistent
<1>6. ASSUME NEW t \in Tasks, Creates(t) PROVE StarterConsistent'
  <2>1. /\ starter'.pc = "created" /\ starter'.task = t /\ t \in used'
        /\ rows'[t] = InitialRow /\ update'[t] = update[t] /\ submit'[t] = submit[t]
    BY <1>6, TypeFacts DEF Creates
  <2>2. update[t].pc = "idle" /\ submit[t].pc = "idle"
    BY <1>6 DEF Creates, Consistent, UnusedConsistent
  <2>3. InitialRow.exec # Running /\ ~Stamped(InitialRow)
    BY DEF InitialRow, Stamped
  <2>4. QED  BY <1>2, <2>1, <2>2, <2>3 DEF StarterConsistent
<1>7. CASE /\ starter'.task = starter.task /\ starter.pc \in {"created", "submitting", "failing"}
           /\ \/ starter'.pc = "submitting" /\ starter.pc = "created" /\ UNCHANGED submit
              \/ starter'.pc = "failing" /\ faults' # 0
              \/ starter'.pc = "responding"
  BY <1>1, <1>2, <1>7 DEF StarterConsistent, Keeps
<1>8. QED  BY <1>4, <1>5, <1>6, <1>7, IdleTypes, StarterSteps

LEMMA NextFresh ==
  ASSUME TypeOK, Consistent, [Next]_vars, NEW t \in Tasks PROVE FreshConsistent(t)'
<1>1. FreshConsistent(t) /\ UnusedConsistent(t)
  BY DEF Consistent
<1>2. SUFFICES ASSUME Fresh(t)' PROVE t \notin aged' /\ stop'[t]["sweep"].pc = "idle"
  BY DEF FreshConsistent
<1>3. Fresh(t) \/ Creates(t)
  <2>1. Submit /\ starter.task = t => Fresh(t)
    BY DEF Submit, StarterMoves, Fresh
  <2>2. CASE submit'[t].pc \in {"sent", "printed"}
    BY <2>1, <2>2, SubmitMoves DEF Fresh
  <2>3. CASE starter'.pc \in {"created", "submitting"} /\ starter'.task = t
    BY <2>3, IdleTypes, StarterSteps DEF Fresh, Creates
  <2>4. QED  BY <1>2, <2>2, <2>3 DEF Fresh
<1>4. CASE Creates(t)
  BY <1>1, <1>4 DEF Creates, UnusedConsistent
<1>5. CASE Fresh(t)
  <2>1. t \notin aged /\ stop[t]["sweep"].pc = "idle"
    BY <1>1, <1>5 DEF FreshConsistent
  <2>2. ~FifteenMinutesPass(t)
    BY <1>5 DEF FifteenMinutesPass, Submitting, Fresh
  <2>3. t \notin aged'
    BY <2>1, <2>2, Writers DEF FifteenMinutesPass
  <2>4. QED  BY <2>1, <2>3, SweepMoves
<1>6. QED  BY <1>3, <1>4, <1>5

LEMMA NextPoll ==
  ASSUME TypeOK, Consistent, [Next]_vars, NEW t \in Tasks PROVE PollConsistent(t)'
<1>1. PollConsistent(t) /\ FreshConsistent(t) /\ Keeps
  BY NextKeeps DEF Consistent
<1>0. poll \in PollType /\ update \in [Tasks -> UpdateType] /\ faults \in Nat
  BY TypeFacts
<1>2. t \in known' => t \in known \/ (SubmitPrints(t) /\ Fresh(t) /\ lsf[t] # "none")
  BY Writers DEF SubmitPrints, Fresh
<1>3. t \in known' => lsf'[t] # "none"
  BY <1>1, <1>2 DEF PollConsistent, Keeps
<1>4. t \in aged' => t \in aged \/ FifteenMinutesPass(t)
  BY Writers DEF FifteenMinutesPass
<1>5. CASE UNCHANGED poll
  <2>1. t \in poll.ids => t \in known'
    BY <1>1 DEF PollConsistent, Keeps
  <2>2. ASSUME poll.pc # "idle", t \in known' \cap (poll.running \ poll.ids) PROVE t \notin aged'
    <3>1. t \notin aged
      BY <1>1, <1>2, <2>2 DEF PollConsistent, FreshConsistent
    <3>2. CASE FifteenMinutesPass(t)
      BY <2>2, <3>2 DEF FifteenMinutesPass, Submitting, table
    <3>3. QED  BY <1>4, <3>1, <3>2
  <2>3. faults' = 0 /\ poll.pc = "updating" /\ t \in poll.ids \ poll.listed => t \in purged'
    BY <1>1 DEF PollConsistent, Keeps
  <2>4. ASSUME poll.pc = "asked"
        PROVE  update'[t].pc # "save" /\ (t \in poll.ids => update'[t].pc = "read")
    <3>1. \A u \in Tasks : update[u].pc # "save"
      BY <2>4 DEF Consistent, PollConsistent
    <3>2. ~FindRunning /\ ~PollFails /\ ~Crash
      BY <1>5, <2>4, IdleTypes DEF FindRunning, PollFails, Crash
    <3>3. ~JobsListed /\ ~AnswerGarbled
      BY <1>0, <1>5, <2>4 DEF JobsListed, AnswerGarbled, Answered, PollType
    <3>4. UNCHANGED update
      BY <3>1, <3>2, <3>3, Writers DEF SaveUpdate, SaveUpdateFails
    <3>5. QED  BY <1>1, <2>4, <3>4 DEF PollConsistent
  <2>5. QED  BY <1>3, <1>5, <2>1, <2>2, <2>3, <2>4 DEF PollConsistent
<1>6. CASE FindRunning
  <2>1. CASE RunningTasks = {}
    BY <1>5, <1>6, <2>1 DEF FindRunning
  <2>2. CASE RunningTasks # {}
    <3>1. /\ poll'.pc = "asked" /\ poll'.running = RunningTasks /\ poll'.ids = RunningTasks \cap known
          /\ known' = known
          /\ update'[t].pc = IF t \in RunningTasks THEN "read" ELSE "idle"
      BY <1>6, <2>2, IdleTypes DEF FindRunning, table
    <3>2. QED  BY <1>3, <3>1 DEF PollConsistent
  <2>3. QED  BY <2>1, <2>2
<1>7. ASSUME NEW listed \in SUBSET Listed, Answered(listed), poll.pc = "asked", UNCHANGED <<table, aged>>,
             faults' = 0 => listed = Listed, UNCHANGED <<lsf, purged>>
      PROVE  PollConsistent(t)'
  <2>1. /\ poll'.pc = "updating" /\ poll'.running = poll.running /\ poll'.ids = poll.ids
        /\ poll'.listed = listed
    BY <1>0, <1>7 DEF Answered, PollType
  <2>2. faults' = 0 /\ t \in poll'.ids \ poll'.listed => t \in purged'
    BY <1>1, <1>7, <2>1 DEF Listed, PollConsistent
  <2>3. QED  BY <1>1, <1>3, <1>7, <2>1, <2>2 DEF PollConsistent, table
<1>8. CASE JobsListed
  <2>1. Answered(Listed) /\ poll.pc = "asked" /\ UNCHANGED <<table, aged, lsf, purged>>
    BY <1>8 DEF JobsListed, cluster
  <2>2. QED  BY <1>7, <2>1
<1>9. CASE AnswerGarbled
  <2>1. PICK parsed \in SUBSET Listed : Answered(parsed)
    BY <1>9 DEF AnswerGarbled
  <2>2. faults' # 0 /\ poll.pc = "asked" /\ UNCHANGED <<table, aged, lsf, purged>>
    BY <1>0, <1>9 DEF AnswerGarbled, Fault, cluster
  <2>3. QED  BY <1>7, <2>1, <2>2
<1>10. CASE SweepZombies
  <2>1. /\ poll'.pc = "sweeping" /\ poll'.running = poll.running /\ poll'.ids = poll.ids
        /\ poll.pc # "idle" /\ UNCHANGED <<known, aged>>
    BY <1>0, <1>10 DEF SweepZombies, PollType, table
  <2>2. QED  BY <1>1, <1>3, <2>1 DEF PollConsistent
<1>11. CASE poll' = IdlePoll
  BY <1>3, <1>11, IdleTypes DEF PollConsistent
<1>12. QED  BY <1>5, <1>6, <1>8, <1>9, <1>10, <1>11, Writers

LEMMA NextSweep ==
  ASSUME TypeOK, Consistent, [Next]_vars, NEW t \in Tasks PROVE SweepConsistent(t)'
<1>1. SweepConsistent(t) /\ PollConsistent(t) /\ FreshConsistent(t) /\ Keeps
  BY NextKeeps DEF Consistent
<1>2. SUFFICES ASSUME faults' = 0, stop'[t]["sweep"].pc # "idle", t \in known' PROVE t \in purged'
  BY DEF SweepConsistent
<1>3. faults = 0
  BY <1>1, <1>2 DEF Keeps
<1>4. CASE stop[t]["sweep"].pc # "idle"
  <2>1. t \in known
    BY <1>1, <1>2, <1>4, Writers DEF SubmitPrints, Fresh, FreshConsistent
  <2>2. QED  BY <1>1, <1>3, <1>4, <2>1 DEF SweepConsistent, Keeps
<1>5. CASE SweepZombies /\ t \in (poll.running \ poll.listed) \cap aged
  <2>1. t \in known /\ poll.pc = "updating"
    BY <1>2, <1>5 DEF SweepZombies, table
  <2>2. t \in purged
    BY <1>1, <1>3, <1>5, <2>1 DEF PollConsistent
  <2>3. QED  BY <1>1, <2>2 DEF Keeps
<1>6. QED  BY <1>2, <1>4, <1>5, SweepMoves

LEMMA NextConsistent == TypeOK /\ Consistent /\ [Next]_vars => TypeOK' /\ Consistent'
<1> SUFFICES ASSUME TypeOK, Consistent, [Next]_vars PROVE Consistent'
  BY NextType
<1>1. QED
  BY NextStarter, NextUnused, NextRow, NextUpdate, NextFresh, NextPoll, NextSweep DEF Consistent

(* Every reachable state is consistent.                                     *)
THEOREM AlwaysConsistent == Spec => [](TypeOK /\ Consistent)
BY InitConsistent, NextConsistent, PTL DEF Spec

(* TypeOK holds in every reachable state.  It needs the invariant: a job_id *)
(* is saved only for an id that was given out.                              *)
THEOREM TypeCorrect == Spec => []TypeOK
BY AlwaysConsistent, PTL

-----------------------------------------------------------------------------
(* The safety properties *)

(* A Success is of a job that LSF reported done, and was announced.         *)
THEOREM SuccessIsAlwaysEarned == Spec => []SuccessIsEarned
<1>1. Consistent => SuccessIsEarned
  BY DEF Consistent, RowConsistent, SuccessIsEarned
<1>2. QED  BY <1>1, AlwaysConsistent, PTL

(* Before the first fault, a completed task has no job left in the cluster  *)
(* and was announced.                                                       *)
THEOREM CompletedHasEnded == Spec => []CompletedMeansEnded
<1>1. Consistent => CompletedMeansEnded
  BY DEF Consistent, RowConsistent, CompletedMeansEnded, Ended
<1>2. QED  BY <1>1, AlwaysConsistent, PTL

(* Before the first fault, the sweep never gives up a task whose job bjobs  *)
(* would list.                                                              *)
THEOREM LiveJobIsNeverSwept == Spec => []LiveJobNotSwept
<1>1. Consistent => LiveJobNotSwept
  BY DEF Consistent, SweepConsistent, LiveJobNotSwept
<1>2. QED  BY <1>1, AlwaysConsistent, PTL

(* Before the first fault, an Error is of a job that LSF reported as exited. *)
THEOREM ErrorIsAlwaysEarned == Spec => []ErrorIsEarned
<1>1. Consistent => ErrorIsEarned
  BY DEF Consistent, RowConsistent, ErrorIsEarned
<1>2. QED  BY <1>1, AlwaysConsistent, PTL

(* Before the first fault, nothing but a late cancel replaces a recorded    *)
(* result.                                                                  *)
THEOREM ResultIsAlwaysKept == Spec => ResultIsKept
<1>1. TypeOK /\ Consistent /\ [Next]_vars
        => [faults' = 0 =>
              \A t \in Tasks : rows[t].compl \in {Success, Error} /\ Stored(rows'[t])
                => rows'[t].compl \in {rows[t].compl, Cancel}]_vars
  <2> SUFFICES ASSUME TypeOK, Consistent, [Next]_vars, faults' = 0,
                      NEW t \in Tasks, rows[t].compl \in {Success, Error}, Stored(rows'[t])
               PROVE  rows'[t].compl \in {rows[t].compl, Cancel}
    OBVIOUS
  <2>1. ~Creates(t)
    <3>1. NoRow.compl \notin {Success, Error}
      BY DEF NoRow
    <3>2. QED  BY <3>1 DEF Creates, Consistent, UnusedConsistent
  <2>2. QED  BY <2>1, RowMoves
<1>2. QED  BY <1>1, AlwaysConsistent, PTL DEF Spec, ResultIsKept

(* Once stamped, a row stays stamped until it is removed.                   *)
THEOREM CompletionIsAlwaysPermanent == Spec => CompletionIsPermanent
<1>1. TypeOK /\ Consistent /\ [Next]_vars
        => [\A t \in Tasks : Stamped(rows[t]) => Stamped(rows'[t]) \/ ~Stored(rows'[t])]_rows
  <2> SUFFICES ASSUME TypeOK, Consistent, [Next]_vars, NEW t \in Tasks, Stamped(rows[t])
               PROVE  Stamped(rows'[t]) \/ ~Stored(rows'[t])
    OBVIOUS
  <2>1. ~Creates(t)
    <3>1. ~Stamped(NoRow)
      BY DEF NoRow, Stamped
    <3>2. QED  BY <3>1 DEF Creates, Consistent, UnusedConsistent
  <2>2. QED  BY <2>1, RowMoves
<1>2. QED  BY <1>1, AlwaysConsistent, PTL DEF Spec, CompletionIsPermanent

-----------------------------------------------------------------------------
(* The table's rows live as TaskLifecycle says *)

LEMMA StatusLives ==
  /\ StatusLife(Initializing) = "created"
  /\ StatusLife(Running) = "running"
  /\ StatusLife(Zombie) = "zombie"
  /\ StatusLife(Completed) = "completed"
<1>1. StatusLife(Initializing) = "created"  BY DEF StatusLife
<1>2. StatusLife(Running) = "running"       BY DEF StatusLife
<1>3. StatusLife(Zombie) = "zombie"         BY DEF StatusLife
<1>4. StatusLife(Completed) = "completed"   BY DEF StatusLife
<1>5. QED  BY <1>1, <1>2, <1>3, <1>4

LEMMA InitLife == Init => Lifecycle!Init
BY IdleTypes DEF Init, Lifecycle!Init, lives, stampedTasks, pendingStart, Life, NoRow, Stamped

LEMMA LifeFacts ==
  ASSUME TypeOK, Consistent, NEW t \in Tasks
  PROVE  /\ lives[t] = Life(t)
         /\ Life(t) = "none" <=> t \notin used
         /\ Life(t) = "removed" <=> t \in used /\ ~Stored(rows[t])
         /\ Stored(rows[t]) => t \in used
<1>1. rows[t].exec \in {Undefined, Initializing, Running, Zombie, Completed}
  BY DEF TypeOK, Row
<1>2. Stored(rows[t]) => t \in used
  BY DEF Stored, NoRow, Consistent, UnusedConsistent
<1>3. Stored(rows[t]) => StatusLife(rows[t].exec) \notin {"none", "removed"}
  BY <1>1, StatusLives DEF Stored
<1>4. QED  BY <1>2, <1>3 DEF lives, Life

(* The table is left alone and no start becomes pending. *)
LEMMA StutterLife ==
  ASSUME TypeOK, Leaves PROVE [Lifecycle!Next]_(Lifecycle!vars)
<1>1. UNCHANGED lives /\ UNCHANGED stampedTasks
  BY DEF Leaves, lives, Life, stampedTasks
<1>2. UNCHANGED pendingStart \/ pendingStart' = {}
  BY DEF Leaves, pendingStart
<1>3. QED  BY <1>1, <1>2 DEF Lifecycle!Next, Lifecycle!Abandon, Lifecycle!vars

(* One row is saved: the task is completed or lost, or its life stays.      *)
LEMMA SaveLife ==
  ASSUME TypeOK, Consistent, NEW t \in Tasks, UNCHANGED used, UNCHANGED pendingStart,
         \A u \in Tasks \ {t} : rows'[u] = rows[u],
         ~Stored(rows[t]) => rows'[t] = rows[t],
         Stored(rows[t]) =>
           \/ rows'[t].exec = Completed /\ Stamped(rows'[t]) /\ t \notin pendingStart
           \/ rows'[t].exec \in {Zombie, rows[t].exec} /\ Stamped(rows'[t]) = Stamped(rows[t])
  PROVE  [Lifecycle!Next]_(Lifecycle!vars)
<1>1. \A u \in Tasks \ {t} : Life(u)' = Life(u)
  BY DEF Life
<1>2. CASE Stored(rows[t]) /\ rows'[t].exec = Completed /\ Stamped(rows'[t]) /\ t \notin pendingStart
  <2>1. lives[t] \notin {"none", "removed"}
    BY <1>2, LifeFacts
  <2>2. Life(t)' = "completed"
    BY <1>2, LifeFacts, StatusLives DEF Life, Stored
  <2>3. lives' = [lives EXCEPT ![t] = "completed"]
    BY <1>1, <2>2 DEF lives
  <2>4. stampedTasks' = stampedTasks \cup {t}
    BY <1>2 DEF stampedTasks
  <2>5. QED  BY <1>2, <2>1, <2>3, <2>4 DEF Lifecycle!Next, Lifecycle!Finish
<1>3. CASE Stored(rows[t]) /\ rows'[t].exec = Zombie /\ Stamped(rows'[t]) = Stamped(rows[t])
  <2>1. lives[t] \notin {"none", "removed"}
    BY <1>3, LifeFacts
  <2>2. Life(t)' = "zombie"
    BY <1>3, LifeFacts, StatusLives DEF Life, Stored
  <2>3. lives' = [lives EXCEPT ![t] = "zombie"]
    BY <1>1, <2>2 DEF lives
  <2>4. UNCHANGED stampedTasks
    BY <1>3 DEF stampedTasks
  <2>5. QED  BY <2>1, <2>3, <2>4 DEF Lifecycle!Next, Lifecycle!Lose
<1>4. CASE rows'[t].exec = rows[t].exec /\ Stamped(rows'[t]) = Stamped(rows[t])
  <2>1. Life(t)' = Life(t)
    BY <1>4 DEF Life, Stored
  <2>2. UNCHANGED lives /\ UNCHANGED stampedTasks
    BY <1>1, <1>4, <2>1 DEF lives, stampedTasks
  <2>3. QED  BY <2>2 DEF Lifecycle!vars
<1>5. QED  BY <1>2, <1>3, <1>4

(* Every step is a step of TaskLifecycle or leaves its state alone.         *)
LEMMA NextLife ==
  TypeOK /\ Consistent /\ [Next]_vars => [Lifecycle!Next]_(Lifecycle!vars)
<1> SUFFICES ASSUME TypeOK, Consistent, [Next]_vars PROVE [Lifecycle!Next]_(Lifecycle!vars)
  OBVIOUS
<1> DEFINE Step == [Lifecycle!Next]_(Lifecycle!vars)
<1> HIDE DEF Step
<1>0. rows \in [Tasks -> Row] /\ starter \in StarterType /\ update \in [Tasks -> UpdateType]
  BY TypeFacts
<1>s. ASSUME NEW t \in Tasks, NEW old, NEW new, Saved(t, old, new)
      PROVE  /\ rows'[t] = Save(rows[t], old, new)
             /\ \A u \in Tasks \ {t} : rows'[u] = rows[u]
  BY <1>0, <1>s DEF Saved
<1>1. ASSUME NEW t \in Tasks, Creates(t) PROVE Step
  <2>1. /\ starter.pc = "idle" /\ t \notin used /\ rows[t] = NoRow
        /\ rows' = [rows EXCEPT ![t] = InitialRow] /\ used' = used \cup {t}
        /\ starter' = [pc |-> "created", task |-> t]
    BY <1>1 DEF Creates, Consistent, UnusedConsistent
  <2>2. pendingStart = {} /\ pendingStart' = {t}
    BY <2>1 DEF pendingStart
  <2>3. lives[t] = "none" /\ lives' = [lives EXCEPT ![t] = "created"]
    <3>1. rows'[t] = InitialRow /\ Stored(InitialRow) /\ InitialRow.exec = Initializing
      BY <1>0, <2>1 DEF InitialRow, Stored
    <3>2. Life(t) = "none" /\ Life(t)' = "created"
      BY <2>1, <3>1, StatusLives DEF Life
    <3>3. \A u \in Tasks \ {t} : Life(u)' = Life(u)
      BY <1>0, <2>1 DEF Life
    <3>4. QED  BY <3>2, <3>3 DEF lives
  <2>4. UNCHANGED stampedTasks
    BY <1>0, <2>1 DEF stampedTasks, Stamped, InitialRow, NoRow
  <2>5. QED  BY <2>2, <2>3, <2>4 DEF Step, Lifecycle!Next, Lifecycle!Create
<1>2. ASSUME NEW t \in Tasks, Runs(t) PROVE Step
  <2>1. /\ t \in used /\ ~Stamped(rows[t])
        /\ starter'.pc = "submitting" /\ starter.pc = "created" /\ starter.task = t /\ used' = used
    BY <1>0, <1>2 DEF Runs, Consistent, StarterConsistent, StarterType
  <2>2. t \in pendingStart /\ pendingStart' = {}
    BY <2>1 DEF pendingStart
  <2>3. /\ ~Stored(rows[t]) => rows'[t] = rows[t]
        /\ Stored(rows[t]) => rows'[t].exec = Running
        /\ rows'[t].completed_at = rows[t].completed_at
        /\ \A u \in Tasks \ {t} : rows'[u] = rows[u]
    BY <1>0, <1>2, <1>s, SavedRunning DEF Runs
  <2>4. t \notin stampedTasks /\ UNCHANGED stampedTasks
    BY <2>1, <2>3 DEF stampedTasks, Stamped
  <2>5. lives' = [lives EXCEPT ![t] = IF @ = "removed" THEN @ ELSE "running"]
    <3>1. Life(t)' = IF lives[t] = "removed" THEN lives[t] ELSE "running"
      <4>1. CASE ~Stored(rows[t])
        BY <2>1, <2>3, <4>1 DEF Life, lives
      <4>2. CASE Stored(rows[t])
        BY <2>1, <2>3, <4>2, LifeFacts, StatusLives DEF Life, Stored
      <4>3. QED  BY <4>1, <4>2
    <3>2. \A u \in Tasks \ {t} : Life(u)' = Life(u)
      BY <2>1, <2>3 DEF Life
    <3>3. QED  BY <3>1, <3>2 DEF lives
  <2>6. QED  BY <2>2, <2>4, <2>5 DEF Step, Lifecycle!Next, Lifecycle!Start
<1>3. ASSUME NEW t \in Tasks, Fails(t) PROVE Step
  <2>1. PICK old \in {InitialRow, MarkRunning(InitialRow)} : Saved(t, old, MarkError(old))
    BY <1>3 DEF Fails
  <2>2. /\ ~Stored(rows[t]) => rows'[t] = rows[t]
        /\ Stored(rows[t]) => rows'[t].exec = Completed /\ Stamped(rows'[t])
        /\ \A u \in Tasks \ {t} : rows'[u] = rows[u]
    BY <1>0, <1>s, <2>1, SavedError
  <2>3. t \notin pendingStart /\ UNCHANGED pendingStart /\ UNCHANGED used
    BY <1>3 DEF Fails, pendingStart
  <2>4. QED  BY <2>2, <2>3, SaveLife DEF Step
<1>4. ASSUME NEW t \in Tasks, Ends(t) PROVE Step
  <2>1. update[t].pc = "save" /\ update[t].old.exec = Running
    BY <1>4 DEF Ends, Consistent, UpdateConsistent
  <2>2. t \notin pendingStart /\ UNCHANGED pendingStart /\ UNCHANGED used
    BY <1>4, <2>1 DEF Ends, pendingStart, Consistent, StarterConsistent
  <2>3. /\ rows'[t] = Save(rows[t], update[t].old, Updated(t))
        /\ \A u \in Tasks \ {t} : rows'[u] = rows[u]
    BY <1>4, <1>s DEF Ends
  <2>4. /\ ~Stored(rows[t]) => rows'[t] = rows[t]
        /\ Stored(rows[t]) => \/ rows'[t].exec = Completed /\ Stamped(rows'[t])
                              \/ /\ rows'[t].exec = rows[t].exec
                                 /\ rows'[t].completed_at = rows[t].completed_at
    BY <2>1, <2>3, SavedUpdate
  <2>5. QED  BY <2>2, <2>3, <2>4, SaveLife DEF Step, Stamped
<1>5. ASSUME NEW t \in Tasks, Cancels(t) PROVE Step
  <2>1. PICK old \in Row : Saved(t, old, MarkCancelled(old))
    BY <1>5 DEF Cancels
  <2>2. /\ ~Stored(rows[t]) => rows'[t] = rows[t]
        /\ Stored(rows[t]) => rows'[t].exec \in {Zombie, rows[t].exec}
        /\ rows'[t].completed_at = rows[t].completed_at
        /\ \A u \in Tasks \ {t} : rows'[u] = rows[u]
    BY <1>0, <1>s, <2>1, SavedCancel
  <2>3. UNCHANGED pendingStart /\ UNCHANGED used
    BY <1>5 DEF Cancels, pendingStart
  <2>4. QED  BY <2>2, <2>3, SaveLife DEF Step, Stamped
<1>6. ASSUME NEW code \in RemoveCodes, Removes(code) PROVE Step
  <2> DEFINE gone == {t \in Tasks : Stored(rows[t]) /\ rows[t].compl = code}
  <2>1. /\ rows' = [t \in Tasks |-> IF rows[t].compl = code THEN NoRow ELSE rows[t]]
        /\ UNCHANGED used /\ UNCHANGED pendingStart
    BY <1>6 DEF Removes, pendingStart
  <2>2. \A t \in Tasks : rows'[t] = IF t \in gone THEN NoRow ELSE rows[t]
    BY <2>1 DEF Consistent, RowConsistent
  <2>3. \A t \in gone : t \in used /\ lives[t] # "none"
    BY LifeFacts
  <2> HIDE DEF gone
  <2>4. gone \in SUBSET Tasks
    BY DEF gone
  <2>5. ~Stored(NoRow) /\ ~Stamped(NoRow)
    BY DEF NoRow, Stored, Stamped
  <2>6. lives' = [t \in Tasks |-> IF t \in gone THEN "removed" ELSE lives[t]]
    <3>1. \A t \in Tasks : Life(t)' = IF t \in gone THEN "removed" ELSE Life(t)
      BY <2>1, <2>2, <2>3, <2>5 DEF Life
    <3>2. QED  BY <3>1 DEF lives
  <2>7. stampedTasks' = stampedTasks \ gone
    BY <2>2, <2>5 DEF stampedTasks
  <2>8. QED  BY <2>1, <2>3, <2>4, <2>6, <2>7 DEF Step, Lifecycle!Next, Lifecycle!Remove
<1>7. CASE Leaves
  BY <1>7, StutterLife DEF Step
<1>8. QED  BY <1>1, <1>2, <1>3, <1>4, <1>5, <1>6, <1>7, NextRows DEF Step, RowStep

(* The table implements TaskLifecycle, for cluster tasks as for local ones. *)
THEOREM LifecycleIsImplemented == Spec => ImplementsLifecycle
BY InitLife, NextLife, AlwaysConsistent, PTL DEF Spec, ImplementsLifecycle, Lifecycle!Spec

-----------------------------------------------------------------------------
(* The start queue *)

LEMMA GoneStaysGone ==
  ASSUME TypeOK, Consistent, [Next]_vars, NEW t \in Tasks, t \in used, ~Stored(rows[t])
  PROVE  t \in used' /\ ~Stored(rows'[t])
BY NextKeeps, RowMoves DEF Keeps, Creates

(* A wedged queue waits on a row that is gone, whose id is not given out    *)
(* again, or on nothing.                                                    *)
WedgeConsistent ==
  starter.pc = "wedged" /\ faults = 0 => starter.task \in used /\ ~Stored(rows[starter.task])

LEMMA NextWedge ==
  TypeOK /\ Consistent /\ WedgeConsistent /\ [Next]_vars => WedgeConsistent'
<1> SUFFICES ASSUME TypeOK, Consistent, WedgeConsistent, [Next]_vars, starter'.pc = "wedged", faults' = 0
             PROVE  starter'.task \in used' /\ ~Stored(rows'[starter'.task])
  BY DEF WedgeConsistent
<1>1. faults = 0 /\ ~Fault
  BY NextKeeps DEF Keeps, Fault, TypeOK
<1>2. CASE UNCHANGED starter
  <2>1. starter.task \in Tasks /\ starter.task \in used /\ ~Stored(rows[starter.task])
    BY <1>1, <1>2 DEF WedgeConsistent, TypeOK
  <2>2. QED  BY <1>2, <2>1, GoneStaysGone
<1>3. CASE starter.pc = "responding" /\ ~Stored(rows[starter.task]) /\ starter'.task = starter.task
  <2>1. starter.task \in used /\ starter.task \in Tasks
    BY <1>3 DEF Consistent, StarterConsistent, TypeOK
  <2>2. QED  BY <1>3, <2>1, GoneStaysGone
<1>4. ~SaveErrorFails
  BY <1>1 DEF SaveErrorFails, StarterMoves, Consistent, StarterConsistent
<1>5. ~(\E t \in Tasks : Creates(t))
  BY DEF Creates
<1>6. QED  BY <1>1, <1>2, <1>3, <1>4, <1>5, IdleTypes, StarterSteps

(* The start queue hangs only for a failure or a row that was removed.      *)
THEOREM AlwaysWedgedOnlyByLoss == Spec => []WedgedOnlyByLoss
<1>1. Init => WedgeConsistent
  BY DEF Init, WedgeConsistent, IdleStarter
<1>2. TypeOK /\ WedgeConsistent => WedgedOnlyByLoss
  BY DEF TypeOK, WedgeConsistent, WedgedOnlyByLoss
<1>3. QED  BY <1>1, <1>2, NextWedge, AlwaysConsistent, PTL DEF Spec

-----------------------------------------------------------------------------
(* What nothing repairs *)

(* Only a submission whose output was read can have been marked as failed.  *)
SubmitConsistent == \A t \in Tasks : submit[t].failed => submit[t].pc = "printed"

LEMMA SubmitSteps ==
  ASSUME TypeOK, SubmitConsistent, [Next]_vars, NEW t \in Tasks
  PROVE  /\ submit'[t].failed => submit'[t].pc = "printed"
         /\ submit'[t].failed => submit[t].failed \/ Fault
<1> USE IdleTypes
<1>0. submit \in [Tasks -> SubmitType] /\ (submit[t].failed => submit[t].pc = "printed")
  BY TypeFacts DEF SubmitConsistent
<1>1. CASE Submit
  <2>1. submit' = [submit EXCEPT ![starter.task] = [pc |-> "sent", failed |-> FALSE]]
    BY <1>1 DEF Submit
  <2>2. submit'[t] = submit[t] \/ submit'[t] = [pc |-> "sent", failed |-> FALSE]
    BY <1>0, <2>1
  <2>3. QED  BY <1>0, <2>2
<1>2. ASSUME NEW u \in Tasks, SubmitPrints(u) \/ SubmitGarbles(u) \/ SubmitCloses(u) \/ SubmitBreaks(u),
             u # t
      PROVE  submit'[t] = submit[t]
  BY <1>0, <1>2 DEF SubmitPrints, SubmitGarbles, SubmitCloses, SubmitBreaks
<1>3. CASE SubmitPrints(t)
  BY <1>0, <1>3 DEF SubmitPrints, SubmitType
<1>4. CASE SubmitGarbles(t)
  BY <1>0, <1>4 DEF SubmitGarbles, SubmitType
<1>5. CASE SubmitCloses(t) \/ SubmitBreaks(t)
  BY <1>0, <1>5 DEF SubmitCloses, SubmitBreaks, SubmitType
<1>6. CASE Crash
  BY <1>0, <1>6 DEF Crash, SubmitType
<1>7. CASE submit'[t] = submit[t]
  BY <1>0, <1>7
<1>8. QED  BY <1>1, <1>2, <1>3, <1>4, <1>5, <1>6, <1>7, Writers

LEMMA AlwaysSubmitConsistent == Spec => []SubmitConsistent
<1>1. Init => SubmitConsistent
  BY IdleTypes DEF Init, SubmitConsistent
<1>2. TypeOK /\ SubmitConsistent /\ [Next]_vars => SubmitConsistent'
  BY SubmitSteps DEF SubmitConsistent
<1>3. QED  BY <1>1, <1>2, TypeCorrect, PTL DEF Spec

(* A call of stopTask saves only what it found to be less than cancelled.   *)
LEMMA StopSteps ==
  ASSUME TypeOK, [Next]_vars, NEW t \in Tasks, NEW w \in Stoppers, stop'[t][w].pc = "save"
  PROVE  stop[t][w].pc = "save" \/ (Stored(rows[t]) /\ rows[t].compl < Cancel)
<1> DEFINE Saves == stop[t][w].pc = "save" \/ (Stored(rows[t]) /\ rows[t].compl < Cancel)
<1>0. /\ stop \in [Tasks -> [Stoppers -> StopType]] /\ "user" \in Stoppers /\ "sweep" \in Stoppers
      /\ \A v \in Stoppers : Signal(v).pc # "save"
  BY TypeFacts DEF Stoppers, Signal, IdleStop
<1>1. ASSUME NEW u \in Tasks, NEW v \in Stoppers, NEW s \in StopType, stop' = [stop EXCEPT ![u][v] = s],
             s.pc # "save"
      PROVE  Saves
  BY <1>0, <1>1
<1>2. ASSUME NEW u \in Tasks, NEW v \in Stoppers, stop' = [stop EXCEPT ![u][v] = Found(u, v)]
      PROVE  Saves
  <2>1. CASE u = t /\ v = w
    <3>1. stop'[t][w] = Found(t, w)
      BY <1>0, <1>2, <2>1
    <3>2. QED  BY <1>0, <3>1, IdleTypes DEF Found
  <2>2. CASE ~(u = t /\ v = w)
    BY <1>0, <1>2, <2>2
  <2>3. QED  BY <2>1, <2>2
<1> HIDE DEF Saves
<1>3. ASSUME NEW u \in Tasks, UserStop(u) \/ UpdateZombie(u) PROVE Saves
  BY <1>0, <1>2, <1>3 DEF UserStop, UpdateZombie
<1>4. ASSUME NEW u \in Tasks, KillJob(u) PROVE Saves
  BY <1>0, <1>1, <1>4, IdleTypes DEF KillJob
<1>5. ASSUME NEW u \in Tasks, NEW v \in Stoppers, SaveStop(u, v) \/ StopFails(u, v) PROVE Saves
  BY <1>0, <1>1, <1>5, IdleTypes, FoundTypes DEF SaveStop, StopFails
<1>6. CASE SweepZombies
  <2>1. stop'[t][w] = stop[t][w] \/ stop'[t][w] = [pc |-> "find", old |-> NoRow]
    BY <1>0, <1>6 DEF SweepZombies
  <2>2. QED  BY <2>1 DEF Saves
<1>7. CASE Crash
  BY <1>7, IdleTypes DEF Crash
<1>8. CASE UNCHANGED stop
  BY <1>8 DEF Saves
<1>9. QED  BY <1>3, <1>4, <1>5, <1>6, <1>7, <1>8, Writers DEF Saves

(* The saves that can change the row of a task whose start is over.         *)
LEMMA RowWriters ==
  ASSUME TypeOK, [Next]_vars, NEW t \in Tasks
  PROVE  \/ rows'[t] = rows[t]
         \/ Admit(t)
         \/ (SaveRunning \/ SaveError) /\ starter.task = t
         \/ submit[t].failed \/ Fault
         \/ SaveUpdate(t)
         \/ \E w \in Stoppers : SaveStop(t, w)
         \/ ~Stored(rows'[t])
<1>0. rows \in [Tasks -> Row] /\ ~Stored(NoRow)
  BY TypeFacts DEF Stored, NoRow
<1>1. ASSUME NEW u \in Tasks, Admit(u), u # t PROVE rows'[t] = rows[t]
  BY <1>0, <1>1 DEF Admit
<1>2. ASSUME SaveRunning \/ SaveError, starter.task # t PROVE rows'[t] = rows[t]
  BY <1>0, <1>2 DEF SaveRunning, SaveError
<1>3. ASSUME NEW u \in Tasks, SubmitCloses(u), u # t \/ ~submit[t].failed PROVE rows'[t] = rows[t]
  BY <1>0, <1>3 DEF SubmitCloses, SaveSubmitError
<1>4. ASSUME NEW u \in Tasks, SaveUpdate(u), u # t PROVE rows'[t] = rows[t]
  BY <1>0, <1>4 DEF SaveUpdate
<1>5. ASSUME NEW u \in Tasks, NEW w \in Stoppers, SaveStop(u, w), u # t PROVE rows'[t] = rows[t]
  BY <1>0, <1>5 DEF SaveStop
<1>6. ASSUME NEW code \in RemoveCodes, RemoveWithCompletionCode(code)
      PROVE  rows'[t] = rows[t] \/ ~Stored(rows'[t])
  BY <1>0, <1>6 DEF RemoveWithCompletionCode
<1>7. ASSUME NEW u \in Tasks, SubmitBreaks(u) PROVE Fault
  BY <1>7 DEF SubmitBreaks
<1>8. CASE UNCHANGED table
  BY <1>8 DEF table
<1>9. CASE UNCHANGED <<rows, used>>
  BY <1>9
<1>10. QED
  BY <1>1, <1>2, <1>3, <1>4, <1>5, <1>6, <1>7, <1>8, <1>9
  DEF Next, vars, AdmitFails, Submit, StartFails, SaveErrorFails, Respond, BsubAccepts, SubmitPrints,
      SubmitGarbles, FindRunning, JobsListed, AnswerGarbled, PollFails, SaveUpdateFails, SweepZombies,
      NotifyTaskLoad, UserStop, UpdateZombie, KillJob, StopFails, JobRuns, JobEnds, JobPurged,
      FifteenMinutesPass, Crash

(* A report that the job has not ended is saved as the row was read, which  *)
(* changes nothing.                                                         *)
LEMMA PendingUpdateSavesNothing ==
  ASSUME TypeOK, NEW t \in Tasks, update[t].status < JobStopped
  PROVE  Save(rows[t], update[t].old, Updated(t)) = rows[t]
<1>1. rows[t] \in Row /\ update[t].old \in Row /\ update[t].status \in JobStatuses
  BY TypeFacts DEF UpdateType
<1>2. Updated(t) = update[t].old
  BY <1>1, ClusterUpdateFacts DEF Updated
<1> DEFINE saved == Save(rows[t], update[t].old, update[t].old)
<1>3. /\ saved \in Row /\ saved.exec = rows[t].exec /\ saved.compl = rows[t].compl
      /\ saved.completed_at = rows[t].completed_at
  BY <1>1, SaveFacts
<1> HIDE DEF saved
<1>4. saved = rows[t]
  BY <1>1, <1>3 DEF Row
<1>5. QED  BY <1>2, <1>4 DEF saved

LEMMA NextForsaken ==
  ASSUME TypeOK, Consistent, SubmitConsistent, [Next]_vars, NEW t \in Tasks, Forsaken(t),
         ~Fault, Stored(rows'[t])
  PROVE  Forsaken(t)'
<1>1. /\ rows[t].exec = Running /\ rows[t].compl = Cancel
      /\ t \in purged \/ (t \notin known /\ submit[t].pc \in {"idle", "orphaned"})
      /\ starter.task = t => starter.pc \in {"responding", "wedged"}
      /\ ~submit[t].failed
      /\ update[t].pc = "save" => update[t].status < JobStopped
      /\ \A w \in Stoppers : stop[t][w].pc # "save"
  BY DEF Forsaken, SubmitConsistent
<1>2. t \in used /\ t # NoTask /\ Keeps
  <2>1. rows[t] # NoRow
    BY <1>1 DEF NoRow
  <2>2. QED  BY <2>1, NextKeeps, ConstantsAssumption DEF Consistent, UnusedConsistent
<1>3. rows'[t] = rows[t]
  <2>1. ~Admit(t)
    BY <1>2 DEF Admit
  <2>2. ~((SaveRunning \/ SaveError) /\ starter.task = t)
    BY <1>1 DEF SaveRunning, SaveError, StarterMoves
  <2>3. ASSUME SaveUpdate(t) PROVE rows'[t] = rows[t]
    <3>1. rows'[t] = Save(rows[t], update[t].old, Updated(t)) /\ update[t].status < JobStopped
      BY <1>1, <2>3, TypeFacts DEF SaveUpdate
    <3>2. QED  BY <3>1, PendingUpdateSavesNothing
  <2>4. ASSUME NEW w \in Stoppers PROVE ~SaveStop(t, w)
    BY <1>1 DEF SaveStop
  <2>5. QED  BY <1>1, <2>1, <2>2, <2>3, <2>4, RowWriters
<1>4. t \in purged' \/ (t \notin known' /\ submit'[t].pc \in {"idle", "orphaned"})
  <2>1. CASE t \in purged
    BY <1>2, <2>1 DEF Keeps
  <2>2. CASE t \notin known /\ submit[t].pc \in {"idle", "orphaned"}
    <3>1. t \notin known'
      BY <2>2, Writers DEF SubmitPrints
    <3>2. ~(Submit /\ starter.task = t)
      BY <1>1 DEF Submit, StarterMoves
    <3>3. submit'[t].pc \notin {"sent", "printed"} /\ submit'[t] \in SubmitType
      <4>1. submit'[t] \in SubmitType
        BY NextType, TypeFacts DEF TypeOK, SubmitType
      <4>2. QED  BY <2>2, <3>2, <4>1, SubmitMoves
    <3>4. QED  BY <3>1, <3>3 DEF SubmitType
  <2>3. QED  BY <1>1, <2>1, <2>2
<1>5. starter'.task = t => starter'.pc \in {"responding", "wedged"}
  <2>1. ~Creates(t)
    BY <1>2 DEF Creates
  <2>2. ASSUME NEW u \in Tasks, Creates(u), starter'.task = t PROVE u = t
    BY <2>2 DEF Creates
  <2>3. IdleStarter.task # t
    BY <1>2 DEF IdleStarter
  <2>4. QED  BY <1>1, <2>1, <2>2, <2>3, StarterSteps
<1>6. ~submit'[t].failed
  BY <1>1, SubmitSteps
<1>7. ASSUME update'[t].pc = "save" PROVE update'[t].status < JobStopped
  <2>1. t \notin poll.ids \ purged
    BY <1>1 DEF Consistent, PollConsistent
  <2>2. QED  BY <1>1, <1>7, <2>1, UpdateMoves
<1>8. ASSUME NEW w \in Stoppers PROVE stop'[t][w].pc # "save"
  BY <1>1, StopSteps
<1>9. QED  BY <1>1, <1>3, <1>4, <1>5, <1>6, <1>7, <1>8 DEF Forsaken

(* A task that was cancelled before it was made running, and whose job      *)
(* bjobs does not list, is running until something fails or its row is      *)
(* removed.                                                                 *)
THEOREM ForsakenAlwaysRunsOn == Spec => ForsakenRunsOn
<1>1. TypeOK /\ Consistent /\ SubmitConsistent /\ [Next]_vars
        => [\A t \in Tasks : Forsaken(t) => Forsaken(t)' \/ ~Stored(rows'[t]) \/ faults' > faults]_vars
  <2>1. TypeOK /\ Fault => faults' > faults
    BY DEF TypeOK, Fault
  <2>2. QED  BY <2>1, NextForsaken
<1>2. QED  BY <1>1, AlwaysConsistent, AlwaysSubmitConsistent, PTL DEF Spec, ForsakenRunsOn

=============================================================================
