------------------------------ MODULE LocalLoad ------------------------------
(***************************************************************************)
(* When does the worker keep to its local capacity?  LocalTasks with a     *)
(* history variable, which says whether everything so far was in order:    *)
(* nothing went wrong, nobody stopped or removed a task, no refresh missed *)
(* a start that was counted after it read the rows, and no two handlers    *)
(* held copies of one stopped task at the same time.                       *)
(*                                                                         *)
(* The load is kept twice: starts raise it and handlers lower it, and each *)
(* refresh replaces it with a sum over rows it read earlier.  The module   *)
(* says that the events above are all that makes it too low.               *)
(***************************************************************************)
EXTENDS LocalTasks

VARIABLE orderly

loadVars == <<vars, orderly>>

Live == {t \in Tasks : proc[t] = "online"}

(* a handler that is about to stamp the row, or has lowered the load and is *)
(* about to save the stamp                                                  *)
Stamping(h) ==
  /\ job[h].pc \in {"apply", "save"}
  /\ job[h].status = JobStopped
  /\ ~Stamped(job[h].old)

Lowered(t) == \E h \in Handlers : Stamping(h) /\ job[h].pc = "save" /\ job[h].task = t

(* tasks that were launched and whose end has not yet lowered the load *)
Due == {t \in Tasks : proc[t] # "none" /\ ~Stamped(rows[t]) /\ ~Lowered(t)}

(* started, but not yet counted *)
Uncounted == {t \in Tasks : starter.pc = "recording" /\ starter.task = t}

(* a refresh read the rows before a start that was counted meanwhile *)
StartOverlooked ==
  refresh.pc \in {"updating", "sweeping"} /\ ~(Due \subseteq refresh.running \cup Uncounted)

(* each of the two will lower the load *)
TwoStampings ==
  \E g, h \in Handlers : g # h /\ Stamping(g) /\ Stamping(h) /\ job[g].task = job[h].task

Order ==
  /\ crashes = 0 /\ faults = 0
  /\ \A t \in Tasks : /\ stop[t]["user"].pc = "idle"
                      /\ proc[t] # "lost"
                      /\ t \in used => Stored(rows[t])
  /\ ~StartOverlooked
  /\ ~TwoStampings

LoadInit == Init /\ orderly = TRUE
LoadNext == Next /\ orderly' = (orderly /\ Order')

LoadSpec == LoadInit /\ [][LoadNext]_loadVars

-----------------------------------------------------------------------------
(* As long as everything was in order, the processes that run need no more  *)
(* work units than the capacity, although the capacity is checked against   *)
(* the load before the start and the load is raised after it.               *)
CapacityKept == orderly => WorkUnits * Cardinality(Live) <= Capacity

(* The inductive invariant *)

(* the load accounts for what was launched, but for a start not yet counted *)
Credit == IF starter.pc = "recording" THEN WorkUnits ELSE 0
LoadCovers == WorkUnits * Cardinality(Due) <= load + Credit

(* an admitted task still has room when it is launched *)
RoomIsKept ==
  /\ starter.pc \in {"created", "launching"} => WorkUnits * (Cardinality(Live) + 1) <= Capacity
  /\ WorkUnits * Cardinality(Live) <= Capacity

(* a launched task is running until it is stamped, once *)
RowsFollow ==
  /\ starter.pc = "launching" => rows[starter.task].exec = Running
  /\ \A h \in Handlers : Stamping(h) => ~Stamped(rows[job[h].task])
  /\ \A t \in Tasks : rows[t].exec = Running => Launching(t) \/ proc[t] # "none"
  /\ \A t \in Tasks : proc[t] # "none" => Stamped(rows[t]) \/ rows[t].exec = Running

(* the sweep finds nothing: what the list misses was stamped before the     *)
(* refresh read the rows                                                    *)
NothingSwept ==
  \A t \in Tasks :
    /\ stop[t]["sweep"].pc = "idle"
    /\ t \in aged => proc[t] # "none"
    /\ t \in aged /\ refresh.pc # "idle" =>
         t \in refresh.list \/ (Stamped(rows[t]) /\ t \notin refresh.running)

LoadConsistent == orderly => Order /\ LoadCovers /\ RoomIsKept /\ RowsFollow /\ NothingSwept

=============================================================================
