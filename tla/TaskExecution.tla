---------------------------- MODULE TaskExecution ----------------------------
(***************************************************************************)
(* A row of the worker's TaskExecutions table, and the pure functions the  *)
(* worker applies to its private copy of a row.                            *)
(*                                                                         *)
(* Of the columns, the ones the worker's decisions read are kept: the      *)
(* execution status, the completion result and whether completed_at is     *)
(* set.  An exit code is "expected", "unexpected" or, when a report lacks  *)
(* it, "none".                                                             *)
(***************************************************************************)
EXTENDS Integers

-----------------------------------------------------------------------------
(* ExecutionStatus *)
Undefined    == 0
Initializing == 1
Running      == 2
Zombie       == 3
Completed    == 5

(* CompletionResult: the code compares these with <, so they are numbers *)
Unknown    == 0
Incomplete == 1
Cancel     == 2
Success    == 3
Error      == 4

CompletionResults == {Unknown, Incomplete, Cancel, Success, Error}

(* JobStatus: the values PM2 and LSF report between start and end of a job *)
JobPending == 1
JobOnline  == 3
JobStopped == 7
JobExited  == 8

JobStatuses == {JobPending, JobOnline, JobStopped, JobExited}

ExitCodes == {"none", "expected", "unexpected"}

-----------------------------------------------------------------------------
Row == [exec         : {Undefined, Initializing, Running, Zombie, Completed},
        compl        : CompletionResults,
        completed_at : {"null", "set"}]

(* no row with this id *)
NoRow == [exec |-> Undefined, compl |-> Unknown, completed_at |-> "null"]

(* the row the coordinator's request becomes when it is created *)
InitialRow == [exec |-> Initializing, compl |-> Incomplete, completed_at |-> "null"]

Stored(row) == row.exec # Undefined

Stamped(row) == row.completed_at # "null"

-----------------------------------------------------------------------------
(* Mutant of Save: every column of the copy is written.                     *)
SaveWholeRow(row, old, new) == IF Stored(row) THEN new ELSE row

(* Instance.save(): an UPDATE of the columns that differ from what the copy *)
(* held when it was read or last saved.  An UPDATE of a row that is gone    *)
(* changes nothing and reports no error.                                    *)
Save(row, old, new) ==
  LET column(was, is, stored) == IF is = was THEN stored ELSE is
  IN  IF Stored(row)
      THEN [exec         |-> column(old.exec, new.exec, row.exec),
            compl        |-> column(old.compl, new.compl, row.compl),
            completed_at |-> column(old.completed_at, new.completed_at, row.completed_at)]
      ELSE row

-----------------------------------------------------------------------------
(* startTask: the process is about to be handed to the process manager *)
MarkRunning(row) == [row EXCEPT !.exec = Running]

(* startTask: the catch block *)
MarkError(row) == [row EXCEPT !.exec = Completed, !.compl = Error, !.completed_at = "set"]

(* Mutant of MarkCancelled: a JobStatus is taken for an ExecutionStatus.    *)
MarkCancelledStopped(row) == [row EXCEPT !.exec = JobStopped, !.compl = Cancel]

(* stopTask *)
MarkCancelled(row) == [row EXCEPT !.exec = Zombie, !.compl = Cancel]

(* Mutants of Stamp: one forgets the status, the other the time.            *)
StampTimeOnly(row) ==
  IF Stamped(row) THEN row
  ELSE [row EXCEPT !.compl = IF row.compl < Cancel THEN Unknown ELSE row.compl,
                   !.completed_at = "set"]
StampStatusOnly(row) ==
  [row EXCEPT !.exec = Completed, !.compl = IF row.compl < Cancel THEN Unknown ELSE row.compl]

(* _update, the part that is the same for both queues: a job that stopped   *)
(* is stamped and marked complete once                                      *)
Stamp(row) ==
  IF Stamped(row) THEN row
  ELSE [row EXCEPT !.exec = Completed,
                   !.compl = IF row.compl < Cancel THEN Unknown ELSE row.compl,
                   !.completed_at = "set"]

(* Mutant of RecordLocalExit: a missing exit code counts as the expected    *)
(* one.                                                                     *)
RecordMissingExit(row, code) ==
  IF row.compl >= Cancel THEN row
  ELSE [row EXCEPT !.compl = IF code = "unexpected" THEN Error ELSE Success]

(* Mutant of RecordLocalExit: a missing exit code counts as an unexpected   *)
(* one.                                                                     *)
RecordMissingError(row, code) ==
  IF row.compl >= Cancel THEN row
  ELSE [row EXCEPT !.compl = IF code = "expected" THEN Success ELSE Error]

(* _update for a local task whose process PM2 reports as stopped *)
RecordLocalExit(row, code) ==
  IF code = "none" \/ row.compl >= Cancel THEN row
  ELSE [row EXCEPT !.compl = IF code = "expected" THEN Success ELSE Error]

(* Mutants of UpdateLocal: an online process counts as one that ended, or   *)
(* sets its task running.                                                   *)
UpdateLocalOnline(row, status, code) ==
  IF status < JobOnline THEN row ELSE RecordLocalExit(Stamp(row), code)
UpdateLocalRunning(row, status, code) ==
  IF status < JobStopped THEN MarkRunning(row) ELSE RecordLocalExit(Stamp(row), code)

UpdateLocal(row, status, code) ==
  IF status < JobStopped THEN row ELSE RecordLocalExit(Stamp(row), code)

-----------------------------------------------------------------------------
(* Mutant of RecordClusterEnd: a job that exited is taken for one that is   *)
(* done.                                                                    *)
RecordAnyEnd(row, status) ==
  IF row.compl >= Cancel THEN row ELSE [row EXCEPT !.compl = Success]

(* Mutant of RecordClusterEnd: a job that is done is taken for one that     *)
(* exited.                                                                  *)
RecordNoSuccess(row, status) ==
  IF row.compl >= Cancel THEN row
  ELSE [row EXCEPT !.compl = IF status >= JobStopped THEN Error ELSE row.compl]

(* _update for a cluster task *)
RecordClusterEnd(row, status) ==
  IF row.compl >= Cancel THEN row
  ELSE [row EXCEPT !.compl = IF status = JobStopped THEN Success
                             ELSE IF status = JobExited THEN Error ELSE row.compl]

(* Mutant of UpdateCluster: a running job counts as one that ended.         *)
UpdateClusterOnline(row, status) ==
  IF status < JobOnline THEN row ELSE RecordClusterEnd(Stamp(row), status)

UpdateCluster(row, status) ==
  IF status < JobStopped THEN row ELSE RecordClusterEnd(Stamp(row), status)

=============================================================================
