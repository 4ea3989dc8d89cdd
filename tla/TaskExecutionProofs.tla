------------------------- MODULE TaskExecutionProofs -------------------------
(***************************************************************************)
(* What a save and the supervisor's functions do to a row, for the proofs  *)
(* about the modules that extend TaskExecution.                            *)
(***************************************************************************)
EXTENDS TaskExecution, TLAPS

-----------------------------------------------------------------------------
(* The pure functions of TaskExecution stay within Row. *)

USE DEF Undefined, Initializing, Running, Zombie, Completed,
        Unknown, Incomplete, Cancel, Success, Error,
        JobPending, JobOnline, JobStopped, JobExited

LEMMA ConstantRows == NoRow \in Row /\ InitialRow \in Row
BY DEF NoRow, InitialRow, Row, CompletionResults

(* A save keeps the row well formed, and a column that the copy did not     *)
(* change keeps the value that is stored.                                   *)
LEMMA SaveFacts ==
  ASSUME NEW row \in Row, NEW old \in Row, NEW new \in Row
  PROVE  /\ Save(row, old, new) \in Row
         /\ ~Stored(row) => Save(row, old, new) = row
         /\ Stored(row) =>
              /\ Save(row, old, new).exec = IF new.exec = old.exec THEN row.exec ELSE new.exec
              /\ Save(row, old, new).compl = IF new.compl = old.compl THEN row.compl ELSE new.compl
              /\ Save(row, old, new).completed_at =
                   IF new.completed_at = old.completed_at THEN row.completed_at ELSE new.completed_at
BY DEF Save, Stored, Row

LEMMA MarkTypes ==
  ASSUME NEW row \in Row
  PROVE  MarkRunning(row) \in Row /\ MarkError(row) \in Row /\ MarkCancelled(row) \in Row
BY DEF MarkRunning, MarkError, MarkCancelled, Row, CompletionResults

(* A stamp is put once, completes the row and is neither Success nor Error. *)
LEMMA StampFacts ==
  ASSUME NEW row \in Row
  PROVE  /\ Stamp(row) \in Row
         /\ Stamped(Stamp(row))
         /\ Stamped(row) => Stamp(row) = row
         /\ ~Stamped(row) => Stamp(row).exec = Completed
         /\ Stamp(row).compl = Success => row.compl = Success
         /\ Stamp(row).compl = Error => row.compl = Error
<1>1. CASE Stamped(row)
  BY <1>1 DEF Stamp
<1>2. CASE ~Stamped(row)
  <2>1. row.compl \in Int /\ row.compl \in CompletionResults
    BY DEF Row, CompletionResults
  <2> DEFINE c == IF row.compl < Cancel THEN Unknown ELSE row.compl
  <2>2. Stamp(row) = [row EXCEPT !.exec = Completed, !.compl = c, !.completed_at = "set"]
    BY <1>2 DEF Stamp
  <2>3. /\ c \in CompletionResults
        /\ c = Success => row.compl = Success
        /\ c = Error => row.compl = Error
    BY <2>1 DEF CompletionResults
  <2> HIDE DEF c
  <2>4. QED  BY <2>2, <2>3, <1>2 DEF Stamped, Row
<1>3. QED  BY <1>1, <1>2

(* What an update does to a copy. *)
LEMMA UpdateFacts ==
  ASSUME NEW row \in Row, NEW status \in JobStatuses, NEW code \in ExitCodes
  PROVE  LET new == UpdateLocal(row, status, code) IN
         /\ new \in Row
         /\ status < JobStopped => new = row
         /\ Stamped(row) => new.exec = row.exec /\ Stamped(new)
         /\ status >= JobStopped /\ ~Stamped(row) => new.exec = Completed /\ Stamped(new)
         /\ new.compl = Success => row.compl = Success \/ code = "expected"
         /\ new.compl = Error => row.compl = Error \/ code = "unexpected"
<1> DEFINE stamped == Stamp(row)
<1>1. /\ stamped \in Row
      /\ Stamped(stamped)
      /\ Stamped(row) => stamped = row
      /\ ~Stamped(row) => stamped.exec = Completed
      /\ stamped.compl = Success => row.compl = Success
      /\ stamped.compl = Error => row.compl = Error
  BY StampFacts
<1>2. ASSUME NEW r \in Row
      PROVE  /\ RecordLocalExit(r, code) \in Row
             /\ RecordLocalExit(r, code).exec = r.exec
             /\ RecordLocalExit(r, code).completed_at = r.completed_at
             /\ RecordLocalExit(r, code).compl = Success => r.compl = Success \/ code = "expected"
             /\ RecordLocalExit(r, code).compl = Error => r.compl = Error \/ code = "unexpected"
  BY DEF RecordLocalExit, Row, CompletionResults, ExitCodes
<1>3. CASE status < JobStopped
  BY <1>3 DEF UpdateLocal, JobStatuses
<1>4. CASE ~(status < JobStopped)
  <2>1. UpdateLocal(row, status, code) = RecordLocalExit(stamped, code)
    BY <1>4 DEF UpdateLocal
  <2> HIDE DEF stamped
  <2>2. QED  BY <1>1, <1>2, <1>4, <2>1 DEF JobStatuses, Stamped
<1>5. QED  BY <1>3, <1>4

(* The same for a cluster task; only a job that is done makes a Success. *)
LEMMA ClusterUpdateFacts ==
  ASSUME NEW row \in Row, NEW status \in JobStatuses
  PROVE  LET new == UpdateCluster(row, status) IN
         /\ new \in Row
         /\ status < JobStopped => new = row
         /\ Stamped(row) => new.exec = row.exec /\ Stamped(new)
         /\ status >= JobStopped /\ ~Stamped(row) => new.exec = Completed /\ Stamped(new)
         /\ new.compl = Success => row.compl = Success \/ status = JobStopped
         /\ new.compl = Error => row.compl = Error \/ status = JobExited
         /\ \/ new.compl = row.compl
            \/ status = JobStopped /\ new.compl = Success
            \/ status = JobExited /\ new.compl = Error
<1> DEFINE stamped == Stamp(row)
<1>1. /\ stamped \in Row
      /\ Stamped(stamped)
      /\ Stamped(row) => stamped = row
      /\ ~Stamped(row) => stamped.exec = Completed
      /\ stamped.compl = Success => row.compl = Success
      /\ stamped.compl = Error => row.compl = Error
  BY StampFacts
<1>2. ASSUME NEW r \in Row
      PROVE  /\ RecordClusterEnd(r, status) \in Row
             /\ RecordClusterEnd(r, status).exec = r.exec
             /\ RecordClusterEnd(r, status).completed_at = r.completed_at
             /\ RecordClusterEnd(r, status).compl = Success => r.compl = Success \/ status = JobStopped
             /\ RecordClusterEnd(r, status).compl = Error => r.compl = Error \/ status = JobExited
  BY DEF RecordClusterEnd, Row, CompletionResults
<1>3. CASE status < JobStopped
  BY <1>3 DEF UpdateCluster, JobStatuses
<1>4. CASE ~(status < JobStopped)
  <2>1. UpdateCluster(row, status) = RecordClusterEnd(stamped, status)
    BY <1>4 DEF UpdateCluster
  <2>2. \/ RecordClusterEnd(stamped, status).compl = row.compl
        \/ status = JobStopped /\ RecordClusterEnd(stamped, status).compl = Success
        \/ status = JobExited /\ RecordClusterEnd(stamped, status).compl = Error
    <3>1. CASE row.compl >= Cancel
      <4>1. stamped.compl = row.compl
        BY <3>1 DEF Stamp, Row, CompletionResults
      <4>2. QED  BY <3>1, <4>1 DEF RecordClusterEnd
    <3>2. CASE ~(row.compl >= Cancel)
      <4>1. stamped.compl \in {row.compl, Unknown}
        BY DEF Stamp, Row, CompletionResults
      <4>2. ~(stamped.compl >= Cancel)
        BY <3>2, <4>1
      <4>3. RecordClusterEnd(stamped, status).compl =
              IF status = JobStopped THEN Success ELSE IF status = JobExited THEN Error ELSE stamped.compl
        BY <1>1, <4>2 DEF RecordClusterEnd, Row
      <4>4. status \in {JobStopped, JobExited}
        BY <1>4 DEF JobStatuses
      <4>5. QED  BY <4>3, <4>4
    <3>3. QED  BY <3>1, <3>2
  <2> HIDE DEF stamped
  <2>3. QED  BY <1>1, <1>2, <1>4, <2>1, <2>2 DEF JobStatuses, Stamped
<1>5. QED  BY <1>3, <1>4

-----------------------------------------------------------------------------
(* What the saves of a start and of a stop leave in the table: the row's    *)
(* stamp and result stay unless it is a failure that is recorded, and a row *)
(* that is gone stays gone.                                                 *)
LEMMA SavedRunning ==
  ASSUME NEW row \in Row
  PROVE  LET saved == Save(row, InitialRow, MarkRunning(InitialRow)) IN
         /\ ~Stored(row) => saved = row
         /\ Stored(row) => saved.exec = Running
         /\ saved.compl = row.compl
         /\ saved.completed_at = row.completed_at
<1>1. MarkRunning(InitialRow) = [exec |-> Running, compl |-> Incomplete, completed_at |-> "null"]
  BY DEF MarkRunning, InitialRow
<1>2. QED  BY <1>1, ConstantRows, MarkTypes, SaveFacts DEF InitialRow

LEMMA SavedError ==
  ASSUME NEW row \in Row, NEW old \in {InitialRow, MarkRunning(InitialRow)}
  PROVE  LET saved == Save(row, old, MarkError(old)) IN
         /\ ~Stored(row) => saved = row
         /\ Stored(row) => saved.exec = Completed /\ saved.compl = Error /\ Stamped(saved)
<1>1. /\ old \in Row /\ MarkError(old) \in Row
      /\ old.exec # Completed /\ old.compl # Error /\ old.completed_at # "set"
  <2>1. MarkRunning(InitialRow) = [exec |-> Running, compl |-> Incomplete, completed_at |-> "null"]
    BY DEF MarkRunning, InitialRow
  <2>2. old \in Row
    BY ConstantRows, MarkTypes
  <2>3. QED  BY <2>1, <2>2, MarkTypes DEF InitialRow
<1>2. /\ MarkError(old).exec = Completed
      /\ MarkError(old).compl = Error
      /\ MarkError(old).completed_at = "set"
  BY <1>1 DEF MarkError, Row
<1>3. QED  BY <1>1, <1>2, SaveFacts DEF Stamped

LEMMA SavedCancel ==
  ASSUME NEW row \in Row, NEW old \in Row
  PROVE  LET saved == Save(row, old, MarkCancelled(old)) IN
         /\ ~Stored(row) => saved = row
         /\ Stored(row) => saved.exec \in {Zombie, row.exec}
         /\ saved.compl \in {row.compl, Cancel}
         /\ saved.compl = Success => row.compl = Success
         /\ saved.completed_at = row.completed_at
<1>1. /\ MarkCancelled(old) \in Row
      /\ MarkCancelled(old).exec = Zombie
      /\ MarkCancelled(old).compl = Cancel
      /\ MarkCancelled(old).completed_at = old.completed_at
  BY MarkTypes DEF MarkCancelled, Row
<1>2. QED  BY <1>1, SaveFacts DEF Stored

=============================================================================
