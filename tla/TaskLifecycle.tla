---------------------------- MODULE TaskLifecycle ----------------------------
(***************************************************************************)
(* What the table promises of a task's life, whoever writes it and however *)
(* the writers interleave: a task is created once, at most one start is    *)
(* pending, only a pending start makes a task running, a task that carries *)
(* a completion stamp is never running, and the stamp goes only with the   *)
(* row.                                                                    *)
(***************************************************************************)
CONSTANT Tasks

VARIABLES
  life,     (* execution_status_code, or that there is (no longer) a row *)
  stamped,  (* tasks with a completed_at                                 *)
  pending   (* the task whose start is yet to be saved, if there is one  *)

vars == <<life, stamped, pending>>

Lives == {"none", "created", "running", "zombie", "completed", "removed"}

TypeOK ==
  /\ life \in [Tasks -> Lives]
  /\ stamped \subseteq Tasks
  /\ pending \subseteq Tasks

Init ==
  /\ life = [t \in Tasks |-> "none"]
  /\ stamped = {}
  /\ pending = {}

-----------------------------------------------------------------------------
Create(t) ==
  /\ pending = {}
  /\ life[t] = "none"
  /\ life' = [life EXCEPT ![t] = "created"]
  /\ pending' = {t}
  /\ UNCHANGED stamped

(* a task that was cancelled meanwhile is started all the same; one that    *)
(* was removed stays removed                                                *)
Start(t) ==
  /\ t \in pending
  /\ t \notin stamped
  /\ life' = [life EXCEPT ![t] = IF @ = "removed" THEN @ ELSE "running"]
  /\ pending' = {}
  /\ UNCHANGED stamped

(* the start fails, or is forgotten in a restart *)
Abandon ==
  /\ pending' = {}
  /\ UNCHANGED <<life, stamped>>

Finish(t) ==
  /\ life[t] \notin {"none", "removed"}
  /\ t \notin pending
  /\ life' = [life EXCEPT ![t] = "completed"]
  /\ stamped' = stamped \cup {t}
  /\ UNCHANGED pending

(* cancelled, or found without a process; a cancel that raced the end of    *)
(* the task leaves it stamped                                               *)
Lose(t) ==
  /\ life[t] \notin {"none", "removed"}
  /\ life' = [life EXCEPT ![t] = "zombie"]
  /\ UNCHANGED <<stamped, pending>>

Remove(gone) ==
  /\ \A t \in gone : life[t] # "none"
  /\ life' = [t \in Tasks |-> IF t \in gone THEN "removed" ELSE life[t]]
  /\ stamped' = stamped \ gone
  /\ UNCHANGED pending

Next ==
  \/ \E t \in Tasks : Create(t) \/ Start(t) \/ Finish(t) \/ Lose(t)
  \/ Abandon
  \/ \E gone \in SUBSET Tasks : Remove(gone)

Spec == Init /\ [][Next]_vars

=============================================================================
