---------------------------- MODULE Synchronize ----------------------------
(***************************************************************************)
(* The synchronization of failed and cancelled tasks with the remote       *)
(* database: the supervisor's loop, every 15 seconds, and what             *)
(* synchronizeTaskExecutions does to sync_status and synchronized_at.      *)
(*                                                                         *)
(* For each completion code in turn the loop lets the watchdog reset old   *)
(* marks, selects the rows to send, marks them InProgress, writes them to  *)
(* the remote database and marks them Complete, waiting after each.  The   *)
(* remote write is an empty transaction since its create was commented     *)
(* out, but it still fails when the remote database is not there.          *)
(*                                                                         *)
(* The loop is the only writer of the two columns.  The rest of a row is   *)
(* changed by the supervisor's handlers, which the actions of the last     *)
(* section stand for.                                                      *)
(***************************************************************************)
EXTENDS TaskExecution, FiniteSets, Sequences

CONSTANTS
  Tasks,         (* tasks the coordinator may ask this worker to run         *)
  RemoveCodes,   (* codes removeCompletedExecutionsWithCode is called with   *)
  MaxTroubles    (* bound on restarts and faults together                    *)

ASSUME SynchronizeAssumption ==
  /\ IsFiniteSet(Tasks)
  /\ RemoveCodes \subseteq CompletionResults
  /\ MaxTroubles \in Nat

VARIABLES
  rows,       (* the TaskExecutions table, but for the next two columns      *)
  used,       (* ids the table ever gave out                                 *)
  sync,       (* sync_status                                                 *)
  stamped,    (* tasks whose row has a synchronized_at                       *)
  stopping,   (* stopTask's calls that have read a row and not yet saved it  *)
  loop,       (* synchronizeUnsuccessfulTasks                                *)
  crashes,    (* restarts so far                                             *)
  faults      (* failures so far                                             *)

table    == <<rows, used, stopping>>
marks    == <<sync, stamped>>
troubles == <<crashes, faults>>
syncVars == <<rows, used, sync, stamped, stopping, loop, crashes, faults>>

(* the codes in the order of the loop; no row of this worker is Resubmitted *)
Resubmitted == 5
Codes == <<Error, Cancel, Resubmitted>>

LoopStates == {"idle", "watch", "select", "mark", "send", "finish"}
Loops == [pc : LoopStates, turn : DOMAIN Codes, batch : SUBSET Tasks]

IdleLoop == [pc |-> "idle", turn |-> 1, batch |-> {}]

SyncTypeOK ==
  /\ rows \in [Tasks -> Row]
  /\ used \subseteq Tasks
  /\ sync \in [Tasks -> {"null", "never", "in progress", "complete"}]
  /\ stamped \subseteq Tasks
  /\ stopping \subseteq Tasks
  /\ loop \in Loops
  /\ crashes \in Nat
  /\ faults \in Nat

SyncInit ==
  /\ rows = [t \in Tasks |-> NoRow]
  /\ used = {}
  /\ sync = [t \in Tasks |-> "null"]
  /\ stamped = {}
  /\ stopping = {}
  /\ loop = IdleLoop
  /\ crashes = 0 /\ faults = 0

Trouble == crashes + faults < MaxTroubles

(* something that the worker asked of a database fails *)
Fault ==
  /\ Trouble
  /\ faults' = faults + 1
  /\ UNCHANGED crashes

-----------------------------------------------------------------------------
(* synchronizeUnsuccessfulTasks *)

(* the loop passes its turn as long as the worker's record is not loaded *)
Begin(known) ==
  /\ loop.pc = "idle" /\ known
  /\ loop' = [loop EXCEPT !.pc = "watch"]
  /\ UNCHANGED <<table, marks, troubles>>

LoopMoves(from, to) ==
  /\ loop.pc = from
  /\ loop' = [loop EXCEPT !.pc = to]

(* this code is done, whether or not its attempt failed *)
NextTurn ==
  loop' = IF loop.turn = Len(Codes) THEN IdleLoop
          ELSE [pc |-> "watch", turn |-> loop.turn + 1, batch |-> {}]

(* watchdogInProgressSync: a null synchronized_at is not less than any time. *)
(* Which times are ten minutes old is left open.                             *)
Watch ==
  /\ LoopMoves("watch", "select")
  /\ \E old \in SUBSET stamped :
       sync' = [t \in Tasks |-> IF t \in old /\ sync[t] = "in progress" THEN "never" ELSE sync[t]]
  /\ UNCHANGED <<table, stamped, troubles>>

(* Mutant of UnSynced: rows that are synchronized are sent again.           *)
UnSyncedOrComplete(t) == sync[t] \in {"never", "complete"}

(* no code sets Expired, and a null is not equal to Never *)
UnSynced(t) == sync[t] = "never"

Selected == {t \in Tasks : /\ rows[t].exec = Completed
                           /\ rows[t].compl = Codes[loop.turn]
                           /\ UnSynced(t)}

Select ==
  /\ loop.pc = "select"
  /\ IF Selected = {} THEN NextTurn
     ELSE loop' = [loop EXCEPT !.pc = "mark", !.batch = Selected]
  /\ UNCHANGED <<table, marks, troubles>>

(* setSyncStatus, one transaction; rows removed meanwhile are not updated *)
SetSyncStatus(status) ==
  sync' = [t \in Tasks |-> IF t \in loop.batch /\ Stored(rows[t]) THEN status ELSE sync[t]]

MarkInProgress ==
  /\ LoopMoves("mark", "send")
  /\ SetSyncStatus("in progress")
  /\ UNCHANGED <<table, stamped, troubles>>

(* insertRemote *)
Send ==
  /\ LoopMoves("send", "finish")
  /\ UNCHANGED <<table, marks, troubles>>

(* Mutant of MarkComplete: the time is saved and the status is not.         *)
MarkCompleteTimeOnly ==
  /\ loop.pc = "finish" /\ NextTurn
  /\ stamped' = stamped \cup {t \in loop.batch : Stored(rows[t])}
  /\ UNCHANGED <<table, sync, troubles>>

MarkComplete ==
  /\ loop.pc = "finish" /\ NextTurn
  /\ SetSyncStatus("complete")
  /\ stamped' = stamped \cup {t \in loop.batch : Stored(rows[t])}
  /\ UNCHANGED <<table, troubles>>

(* Mutant of AttemptFails: an error leaves the loop, which is not scheduled *)
(* again.                                                                   *)
AttemptEndsLoop ==
  /\ Fault
  /\ loop.pc # "idle"
  /\ loop' = [loop EXCEPT !.pc = "over"]
  /\ UNCHANGED <<table, marks>>

(* A read, a transaction or the remote database fails.  The catch block     *)
(* gives the code up and leaves the marks as they are.                      *)
AttemptFails ==
  /\ Fault
  /\ loop.pc # "idle"
  /\ NextTurn
  /\ UNCHANGED <<table, marks>>

-----------------------------------------------------------------------------
(* What the rest of the worker does to the rows.  A request's sync_status   *)
(* is whatever the coordinator put into it: nothing, or Never.              *)

Request(t) ==
  /\ t \notin used
  /\ rows' = [rows EXCEPT ![t] = InitialRow]
  /\ used' = used \cup {t}
  /\ \E status \in {"null", "never"} : sync' = [sync EXCEPT ![t] = status]
  /\ UNCHANGED <<stamped, stopping, loop, troubles>>

Starts(t) ==
  /\ rows[t].exec = Initializing
  /\ rows' = [rows EXCEPT ![t] = MarkRunning(rows[t])]
  /\ UNCHANGED <<used, marks, stopping, loop, troubles>>

(* the task's process ends, or its start fails *)
Ends(t) ==
  /\ Stored(rows[t]) /\ ~Stamped(rows[t])
  /\ \E row \in {MarkError(rows[t])}
                \cup {UpdateLocal(rows[t], JobStopped, code) : code \in ExitCodes} :
       rows' = [rows EXCEPT ![t] = row]
  /\ UNCHANGED <<used, marks, stopping, loop, troubles>>

StopReads(t) ==
  /\ Stored(rows[t]) /\ rows[t].compl < Cancel
  /\ stopping' = stopping \cup {t}
  /\ UNCHANGED <<rows, used, marks, loop, troubles>>

(* the task may have ended since stopTask read its row *)
StopSaves(t) ==
  /\ t \in stopping
  /\ stopping' = stopping \ {t}
  /\ rows' = [rows EXCEPT ![t] = IF Stored(rows[t]) THEN MarkCancelled(rows[t]) ELSE rows[t]]
  /\ UNCHANGED <<used, marks, loop, troubles>>

RemoveWithCompletionCode(code) ==
  LET gone == {t \in Tasks : Stored(rows[t]) /\ rows[t].compl = code} IN
  /\ gone # {}
  /\ rows' = [t \in Tasks |-> IF t \in gone THEN NoRow ELSE rows[t]]
  /\ sync' = [t \in Tasks |-> IF t \in gone THEN "null" ELSE sync[t]]
  /\ stamped' = stamped \ gone
  /\ UNCHANGED <<used, stopping, loop, troubles>>

(* the worker restarts: its loop and its calls are gone *)
LoopCrashes ==
  /\ Trouble
  /\ loop' = IdleLoop
  /\ stopping' = {}
  /\ crashes' = crashes + 1
  /\ UNCHANGED <<rows, used, marks, faults>>

-----------------------------------------------------------------------------
SynchronizeTaskExecutions ==
  Watch \/ Select \/ MarkInProgress \/ Send \/ MarkComplete

TaskChanges ==
  \/ \E t \in Tasks : Starts(t) \/ Ends(t) \/ StopReads(t) \/ StopSaves(t)
  \/ \E code \in RemoveCodes : RemoveWithCompletionCode(code)

-----------------------------------------------------------------------------
(* An InProgress row is in the hands of the loop, which will mark it         *)
(* Complete, unless an attempt failed or the worker restarted: this is about *)
(* the two saves of synchronizeTaskExecutions and the catch block between.   *)
InProgressIsHeld ==
  \A t \in Tasks : sync[t] = "in progress" =>
    \/ t \in loop.batch /\ loop.pc \in {"send", "finish"}
    \/ crashes + faults > 0

(* A row that is InProgress was never synchronized before, so it has no      *)
(* synchronized_at: the watchdog, which asks for one older than ten minutes, *)
(* never finds a row, and an attempt that was cut short is never repeated.   *)
MarksAreUnstamped ==
  \A t \in Tasks : sync[t] = "in progress" => t \notin stamped

(* No row is sent twice: once it is InProgress it becomes Complete or stays  *)
(* as it is until it is removed, through restarts, failed transactions and   *)
(* the watchdog, and what is Complete stays so.                              *)
NothingIsSentAgain ==
  [][\A t \in Tasks :
       /\ sync[t] = "in progress" /\ Stored(rows'[t]) => sync'[t] \in {"in progress", "complete"}
       /\ sync[t] = "complete" /\ Stored(rows'[t]) => sync'[t] = "complete"]_syncVars

(* an attempt on t was cut short *)
Abandoned(t) == sync[t] = "in progress" /\ t \notin stamped

(* From some time on, a failed or cancelled row whose sync_status was given  *)
(* is Complete, unless an attempt on it was cut short: the loop outlives its *)
(* own failures and restarts, and a row that fails late is not overlooked.   *)
FailuresSettle ==
  <>[](\A t \in Tasks :
         rows[t].exec = Completed /\ rows[t].compl \in {Error, Cancel} =>
           sync[t] \in {"null", "complete"} \/ Abandoned(t))

=============================================================================
