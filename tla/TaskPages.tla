----------------------------- MODULE TaskPages -----------------------------
(***************************************************************************)
(* The two paged queries of the API, taskExecutionConnections and          *)
(* taskExecutionPage, over a table that changes, and a client that walks   *)
(* through the pages as long as hasNextPage is true.                       *)
(*                                                                         *)
(* Pages are cut from the rows in the order of completed_at, the newest    *)
(* first and the rows without one last.  Each query reads twice, the count *)
(* of the rows and then the page, and waits in between.  A cursor is the   *)
(* offset it encodes, and a row is its id.  No two rows are completed in   *)
(* the same millisecond.  A page also holds rows without a time, after all *)
(* others and in any order: nothing here is about those.                   *)
(*                                                                         *)
(* taskExecutionPage hands a status on: the page then has the rows with    *)
(* that code only, while the count remains that of the whole table.  (The  *)
(* schema of the API does not declare the argument, so that today only a   *)
(* caller of GraphQLAppContext can give one.)                              *)
(***************************************************************************)
EXTENDS Integers, FiniteSets

CONSTANTS
  Tasks,         (* rows the table may get                                   *)
  Codes,         (* values of completion_status_code                         *)
  Incomplete,    (* the code a row is created with                           *)
  NoStatus,      (* the status of a query without one                        *)
  Limits,        (* first, or limit, of a client's queries; 0 is allowed     *)
  DefaultLimit,  (* 10 in the code                                           *)
  MaxRemovals    (* bound on removals                                        *)

ASSUME PagesAssumption ==
  /\ IsFiniteSet(Tasks)
  /\ Incomplete \in Codes /\ NoStatus \notin Codes
  /\ Limits \subseteq Nat
  /\ DefaultLimit \in Nat \ {0}
  /\ MaxRemovals \in Nat

VARIABLES
  ended,     (* rows with a completed_at                                     *)
  newer,     (* of each such row, those with a later completed_at            *)
  open,      (* rows without a completed_at                                  *)
  code,      (* completion_status_code of the rows                           *)
  used,      (* ids the table ever gave out                                  *)
  removals,  (* removals so far                                              *)
  walk       (* the client's walk and the query it waits for                 *)

table == <<ended, newer, open, code, used, removals>>

vars == <<ended, newer, open, code, used, removals, walk>>

Kinds == {"connection", "page"}

(* wanted: rows that had ended when the walk began and have never since     *)
(* moved forward in its list; seen: ended rows returned; clean: no row was   *)
(* created between the two reads of a query                                  *)
Walks ==
  [pc : {"idle", "count", "list", "over"}, kind : Kinds, status : Codes \cup {NoStatus},
   offset : Nat, limit : Nat, count : Nat,
   wanted : SUBSET Tasks, seen : SUBSET Tasks, clean : BOOLEAN]

(* the times of the ended rows are in a strict order *)
IsOrdered ==
  /\ \A t \in ended : newer[t] \subseteq ended \ {t}
  /\ \A t, u \in ended : t # u => (t \in newer[u] <=> u \notin newer[t])
  /\ \A t \in ended : \A u \in newer[t] : newer[u] \subseteq newer[t]
  /\ \A t \in Tasks \ ended : newer[t] = {}

TypeOK ==
  /\ ended \subseteq used /\ open \subseteq used /\ used \subseteq Tasks
  /\ ended \cap open = {}
  /\ newer \in [Tasks -> SUBSET Tasks] /\ IsOrdered
  /\ code \in [Tasks -> Codes]
  /\ removals \in 0..MaxRemovals
  /\ walk \in Walks

Init ==
  /\ ended = {} /\ open = {} /\ used = {}
  /\ newer = [t \in Tasks |-> {}]
  /\ code = [t \in Tasks |-> Incomplete]
  /\ removals = 0
  /\ walk = [pc |-> "idle", kind |-> "page", status |-> NoStatus, offset |-> 0, limit |-> 0,
             count |-> 0, wanted |-> {}, seen |-> {}, clean |-> TRUE]

RowCount == Cardinality(ended) + Cardinality(open)

(* the where clause of getPage *)
Matches(c, status) == status = NoStatus \/ c = status

(* the rows a list with this status has before t *)
Before(t, status) == {u \in newer[t] : Matches(code[u], status)}

Position(t, status) == Cardinality(Before(t, status)) + 1

-----------------------------------------------------------------------------
(* The table *)

(* rows a change leaves in the list of the walk, and behind every row they   *)
(* had before them                                                           *)
Unmoved ==
  {t \in walk.wanted : /\ t \in ended'
                       /\ Matches(code'[t], walk.status)
                       /\ \A u \in Before(t, walk.status) :
                            u \in newer'[t] /\ Matches(code'[u], walk.status)}

Create(t) ==
  /\ t \notin used
  /\ used' = used \cup {t}
  /\ open' = open \cup {t}
  /\ walk' = [walk EXCEPT !.clean = @ /\ walk.pc # "list"]
  /\ UNCHANGED <<ended, newer, code, removals>>

(* A handler saves the time it stamped on its own copy, and the code.  The   *)
(* copy may be from before another handler's save: then the row had ended    *)
(* already and gets another time.  The time is that of the stamp, and other  *)
(* handlers may have saved later ones by now: the rows "later".              *)
Complete(t, c, later) ==
  /\ t \in open \cup ended
  /\ later \subseteq ended \ {t}
  /\ \A u \in later : newer[u] \ {t} \subseteq later
  /\ open' = open \ {t}
  /\ ended' = ended \cup {t}
  /\ newer' = [u \in Tasks |-> IF u = t THEN later
                               ELSE IF u \in ended \ later THEN newer[u] \cup {t}
                               ELSE newer[u] \ {t}]
  /\ code' = [code EXCEPT ![t] = c]
  /\ walk' = [walk EXCEPT !.wanted = Unmoved]
  /\ UNCHANGED <<used, removals>>

(* a cancellation, an exit code or a resubmission: a save without a new time *)
Recode(t, c) ==
  /\ t \in open \cup ended
  /\ code' = [code EXCEPT ![t] = c]
  /\ UNCHANGED <<ended, newer>>
  /\ walk' = [walk EXCEPT !.wanted = Unmoved]
  /\ UNCHANGED <<open, used, removals>>

(* removeCompletedExecutionsWithCode *)
RemoveRows(c) ==
  LET gone == {t \in ended \cup open : code[t] = c} IN
  /\ gone # {}
  /\ removals < MaxRemovals
  /\ removals' = removals + 1
  /\ ended' = ended \ gone
  /\ open' = open \ gone
  /\ newer' = [t \in Tasks |-> IF t \in gone THEN {} ELSE newer[t] \ gone]
  /\ UNCHANGED <<code, used>>
  /\ walk' = [walk EXCEPT !.wanted = Unmoved]

-----------------------------------------------------------------------------
(* The queries *)

(* the limit a query uses: in a connection 0 is as good as none *)
Limit(kind, requested) ==
  IF kind = "connection" /\ requested = 0 THEN DefaultLimit ELSE requested

(* a connection never has a status *)
BeginWalk(kind, requested, status) ==
  /\ walk.pc = "idle"
  /\ kind = "connection" => status = NoStatus
  /\ walk' = [pc |-> "count", kind |-> kind, status |-> status,
              offset |-> 0, limit |-> Limit(kind, requested), count |-> 0,
              wanted |-> {t \in ended : Matches(code[t], status)}, seen |-> {}, clean |-> TRUE]
  /\ UNCHANGED table

(* The count is of all rows, whatever the status.  A page beyond the end is  *)
(* answered without a second read.                                           *)
CountRows ==
  /\ walk.pc = "count"
  /\ walk' = IF walk.kind = "page" /\ walk.offset > RowCount
             THEN [walk EXCEPT !.pc = "over"]
             ELSE [walk EXCEPT !.pc = "list", !.count = RowCount]
  /\ UNCHANGED table

(* getPage, as far as the rows with a time go *)
Page(offset, limit, status) ==
  {t \in ended : /\ Matches(code[t], status)
                 /\ Position(t, status) \in offset + 1 .. offset + limit}

(* Mutant of NextOffset: a query begins at its cursor.                      *)
NextOffsetAtCursor(offset, limit) == offset + limit - 1

(* endCursor has offset + limit - 1, and a query begins after its cursor *)
NextOffset(offset, limit) == (offset + limit - 1) + 1

(* Mutant of HasNextPage: the last row of the page is not counted.          *)
HasNextPageSooner(offset, limit, count) == offset + limit + 1 < count

HasNextPage(offset, limit, count) == offset + limit < count

(* the client asks for the next page at once, if there is one *)
ListPage ==
  /\ walk.pc = "list"
  /\ LET seen == walk.seen \cup Page(walk.offset, walk.limit, walk.status) IN
     walk' = IF HasNextPage(walk.offset, walk.limit, walk.count)
             THEN [walk EXCEPT !.pc = "count", !.count = 0, !.seen = seen,
                               !.offset = NextOffset(walk.offset, walk.limit)]
             ELSE [walk EXCEPT !.pc = "over", !.seen = seen]
  /\ UNCHANGED table

-----------------------------------------------------------------------------
Next ==
  \/ \E t \in Tasks : Create(t)
  \/ \E t \in Tasks, c \in Codes \ {Incomplete} :
       Recode(t, c) \/ \E later \in SUBSET ended : Complete(t, c, later)
  \/ \E c \in Codes : RemoveRows(c)
  \/ \E kind \in Kinds, requested \in Limits, status \in Codes \cup {NoStatus} :
       BeginWalk(kind, requested, status)
  \/ CountRows
  \/ ListPage

Spec == Init /\ [][Next]_vars

(* both reads of a query return *)
FairSpec == Spec /\ WF_vars(CountRows) /\ WF_vars(ListPage)

-----------------------------------------------------------------------------
(* A walk through the pages returns every row, with the status it asks for,  *)
(* that had ended when the walk began.  Rows that end or are created         *)
(* meanwhile only move the others back.  What a walk may miss is a row that  *)
(* itself lost the status or got an earlier place, and one that a row listed *)
(* before it moved up by leaving its place: it was removed, lost the status, *)
(* or was stamped again with an older time.  A walk may also end too soon    *)
(* when a row is created between the two reads of a query, whose hasNextPage *)
(* is then taken from an older count.                                        *)
WalkIsComplete ==
  walk.pc = "over" /\ walk.clean => walk.wanted \subseteq walk.seen

(* A walk with a limit ends, although the table grows under it, and although *)
(* with a status it reads on, to the count of all rows, where no row with    *)
(* the status is left.  A page of limit 0, which the API takes literally,    *)
(* has a next page for ever.                                                 *)
WalkEnds == (walk.pc # "idle" /\ walk.limit > 0) ~> walk.pc = "over"

=============================================================================
