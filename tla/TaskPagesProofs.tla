-------------------------- MODULE TaskPagesProofs --------------------------
(***************************************************************************)
(* Theorems about TaskPages for any number of rows and codes, any limits   *)
(* and any number of removals.                                             *)
(***************************************************************************)
EXTENDS TaskPages, FiniteSetTheorems, TLAPS

-----------------------------------------------------------------------------
(* As long as no row was created during a query, what the walk has still to *)
(* return lies beyond its offset, and the count of a query is no less than   *)
(* the rows the table now has.                                               *)
Ahead ==
  walk.pc \in {"count", "list"} /\ walk.clean =>
    \A t \in walk.wanted \ walk.seen :
      /\ t \in ended
      /\ Matches(code[t], walk.status)
      /\ Position(t, walk.status) > walk.offset

CountHolds == walk.pc = "list" /\ walk.clean => walk.count >= RowCount

Consistent == TypeOK /\ Ahead /\ CountHolds /\ WalkIsComplete

-----------------------------------------------------------------------------
(* The table *)

LEMMA TableIsFinite ==
  ASSUME TypeOK
  PROVE  /\ IsFiniteSet(ended) /\ IsFiniteSet(open)
         /\ Cardinality(ended) \in Nat /\ Cardinality(open) \in Nat
         /\ RowCount \in Nat /\ Cardinality(ended) <= RowCount
<1>1. IsFiniteSet(used)
  BY PagesAssumption, FS_Subset DEF TypeOK
<1>2. IsFiniteSet(ended) /\ IsFiniteSet(open)
  BY <1>1, FS_Subset DEF TypeOK
<1>3. Cardinality(ended) \in Nat /\ Cardinality(open) \in Nat
  BY <1>2, FS_CardinalityType
<1>4. QED  BY <1>2, <1>3 DEF RowCount

(* Every ended row has a place among the ended rows, whatever the status.   *)
LEMMA PositionBounds ==
  ASSUME TypeOK, NEW t \in ended, NEW status
  PROVE  /\ IsFiniteSet(Before(t, status))
         /\ Position(t, status) \in Nat \ {0} /\ Position(t, status) <= Cardinality(ended)
<1>1. Before(t, status) \subseteq ended \ {t}
  BY DEF TypeOK, IsOrdered, Before
<1>2. IsFiniteSet(ended) /\ Cardinality(ended) \in Nat
  BY TableIsFinite
<1>3. IsFiniteSet(ended \ {t}) /\ Cardinality(ended \ {t}) = Cardinality(ended) - 1
  BY <1>2, FS_RemoveElement
<1>4. /\ IsFiniteSet(Before(t, status))
      /\ Cardinality(Before(t, status)) <= Cardinality(ended \ {t})
  BY <1>1, <1>3, FS_Subset
<1>5. Cardinality(Before(t, status)) \in Nat
  BY <1>4, FS_CardinalityType
<1>6. QED  BY <1>2, <1>3, <1>4, <1>5 DEF Position

(* The rows of a change that are Unmoved stay in the list of the walk, at    *)
(* the place they had or further back.                                       *)
LEMMA UnmovedStayBehind ==
  ASSUME TypeOK, TypeOK', walk'.status = walk.status, NEW t \in Unmoved, t \in ended
  PROVE  /\ t \in ended' /\ Matches(code'[t], walk.status)
         /\ Position(t, walk.status)' \in Nat
         /\ Position(t, walk.status)' >= Position(t, walk.status)
<1>1. /\ t \in ended' /\ Matches(code'[t], walk.status)
      /\ \A u \in Before(t, walk.status) : u \in newer'[t] /\ Matches(code'[u], walk.status)
  BY DEF Unmoved
<1>2. Before(t, walk.status) \subseteq Before(t, walk.status)'
  BY <1>1 DEF Before
<1>3. IsFiniteSet(Before(t, walk.status)')
  <2>1. ASSUME NEW status PROVE IsFiniteSet(Before(t, status)')
    <3>1. Before(t, status)' \subseteq ended'
      BY <1>1 DEF TypeOK, IsOrdered, Before
    <3>2. IsFiniteSet(ended')
      <4>1. ended' \subseteq Tasks
        BY DEF TypeOK
      <4>2. QED  BY <4>1, PagesAssumption, FS_Subset
    <3>3. QED  BY <3>1, <3>2, FS_Subset
  <2>2. QED  BY <2>1
<1>4. /\ IsFiniteSet(Before(t, walk.status))
      /\ Cardinality(Before(t, walk.status)) <= Cardinality(Before(t, walk.status)')
  BY <1>2, <1>3, FS_Subset
<1>5. /\ Cardinality(Before(t, walk.status)) \in Nat
      /\ Cardinality(Before(t, walk.status)') \in Nat
  BY <1>3, <1>4, FS_CardinalityType
<1>6. QED  BY <1>1, <1>4, <1>5 DEF Position

(* A change of the table that adds no row keeps the walk on course. *)
LEMMA ChangeKeepsWalk ==
  ASSUME Consistent, TypeOK', walk' = [walk EXCEPT !.wanted = Unmoved],
         RowCount' \in Nat, RowCount' <= RowCount
  PROVE  Consistent'
<1>1. Unmoved \subseteq walk.wanted
  BY DEF Unmoved
<1>2. /\ walk'.wanted = Unmoved /\ walk'.pc = walk.pc /\ walk'.status = walk.status
      /\ walk'.seen = walk.seen /\ walk'.clean = walk.clean /\ walk'.offset = walk.offset
      /\ walk'.count = walk.count /\ walk.offset \in Nat /\ walk.count \in Nat
  BY DEF Consistent, TypeOK, Walks
<1>3. Ahead'
  <2> SUFFICES ASSUME walk.pc \in {"count", "list"}, walk.clean, NEW t \in Unmoved \ walk.seen
               PROVE  /\ t \in ended'
                      /\ Matches(code'[t], walk.status)
                      /\ Position(t, walk.status)' > walk.offset
    BY <1>2 DEF Ahead
  <2>1. t \in ended /\ Position(t, walk.status) > walk.offset
    BY <1>1 DEF Consistent, Ahead
  <2>2. /\ t \in ended' /\ Matches(code'[t], walk.status)
        /\ Position(t, walk.status)' \in Nat
        /\ Position(t, walk.status)' >= Position(t, walk.status)
    BY <1>2, <2>1, UnmovedStayBehind DEF Consistent
  <2>3. Position(t, walk.status) \in Nat
    BY <2>1, PositionBounds DEF Consistent
  <2>4. QED  BY <1>2, <2>1, <2>2, <2>3
<1>4. RowCount \in Nat
  BY TableIsFinite DEF Consistent
<1>5. CountHolds'
  BY <1>2, <1>4 DEF Consistent, CountHolds
<1>6. WalkIsComplete'
  BY <1>1, <1>2 DEF Consistent, WalkIsComplete
<1>7. QED  BY <1>3, <1>5, <1>6 DEF Consistent

(* A row that gets a time, or another one, is in its place among the others. *)
LEMMA CompletedInOrder ==
  ASSUME TypeOK, NEW t \in Tasks, NEW c \in Codes, NEW later \in SUBSET ended, Complete(t, c, later)
  PROVE  newer' \in [Tasks -> SUBSET Tasks] /\ IsOrdered'
<1>1. /\ ended \subseteq Tasks /\ newer \in [Tasks -> SUBSET Tasks]
      /\ \A u \in ended : newer[u] \subseteq ended \ {u}
      /\ \A u, v \in ended : u # v => (u \in newer[v] <=> v \notin newer[u])
      /\ \A u \in ended : \A v \in newer[u] : newer[v] \subseteq newer[u]
      /\ \A u \in Tasks \ ended : newer[u] = {}
  BY DEF TypeOK, IsOrdered
<1>2. /\ t \notin later /\ later \subseteq ended
      /\ \A u \in later : newer[u] \ {t} \subseteq later
      /\ ended' = ended \cup {t}
      /\ newer' = [u \in Tasks |-> IF u = t THEN later
                                   ELSE IF u \in ended \ later THEN newer[u] \cup {t}
                                   ELSE newer[u] \ {t}]
  BY DEF Complete
<1>3. newer' \in [Tasks -> SUBSET Tasks]
  BY <1>1, <1>2
<1>4. /\ newer'[t] = later
      /\ \A u \in (ended \ later) \ {t} : newer'[u] = newer[u] \cup {t}
      /\ \A u \in later : newer'[u] = newer[u] \ {t}
      /\ \A u \in Tasks \ ended' : newer'[u] = {}
  BY <1>1, <1>2
<1>5. \A u \in ended' : newer'[u] \subseteq ended' \ {u}
  BY <1>1, <1>2, <1>4
<1>6. \A u, v \in ended' : u # v => (u \in newer'[v] <=> v \notin newer'[u])
  <2> SUFFICES ASSUME NEW u \in ended', NEW v \in ended', u # v
               PROVE  u \in newer'[v] <=> v \notin newer'[u]
    OBVIOUS
  <2>1. CASE u = t
    BY <1>1, <1>2, <1>4, <2>1
  <2>2. CASE v = t
    BY <1>1, <1>2, <1>4, <2>2
  <2>3. CASE u # t /\ v # t
    BY <1>1, <1>2, <1>4, <2>3
  <2>4. QED  BY <2>1, <2>2, <2>3
<1>7. \A u \in ended' : \A v \in newer'[u] : newer'[v] \subseteq newer'[u]
  <2> SUFFICES ASSUME NEW u \in ended', NEW v \in newer'[u], NEW w \in newer'[v]
               PROVE  w \in newer'[u]
    OBVIOUS
  <2>1. v \in ended' /\ w \in ended' /\ v # u /\ w # v
    BY <1>5
  <2>2. CASE u = t
    BY <1>2, <1>4, <2>1, <2>2
  <2>3. CASE v = t
    <3>1. u \in ended \ later /\ w \in later /\ u # t /\ w # t /\ u # w
      BY <1>2, <1>4, <1>6, <2>1, <2>3
    <3>2. u \notin newer[w]
      BY <1>2, <3>1
    <3>3. QED  BY <1>1, <1>2, <1>4, <3>1, <3>2
  <2>4. CASE u # t /\ v # t /\ w = t
    <3>1. v \in ended \ later /\ u \in ended
      BY <1>2, <1>4, <2>1, <2>4
    <3>2. v \in newer[u]
      BY <1>2, <1>4, <2>4, <3>1
    <3>3. u \notin later
      BY <1>2, <2>4, <3>1, <3>2
    <3>4. QED  BY <1>4, <2>4, <3>1, <3>3
  <2>5. CASE u # t /\ v # t /\ w # t
    <3>1. u \in ended /\ v \in newer[u] /\ v \in ended /\ w \in newer[v]
      BY <1>2, <1>4, <2>1, <2>5
    <3>2. w \in newer[u]
      BY <1>1, <3>1
    <3>3. QED  BY <1>2, <1>4, <2>5, <3>1, <3>2
  <2>6. QED  BY <2>2, <2>3, <2>4, <2>5
<1>8. QED  BY <1>3, <1>4, <1>5, <1>6, <1>7 DEF IsOrdered

-----------------------------------------------------------------------------
LEMMA InitConsistent == Init => Consistent
<1> SUFFICES ASSUME Init PROVE Consistent
  OBVIOUS
<1>1. walk \in Walks
  BY PagesAssumption DEF Init, Walks, Kinds
<1>2. TypeOK
  BY PagesAssumption, <1>1 DEF Init, TypeOK, IsOrdered
<1>3. QED  BY <1>2 DEF Init, Consistent, Ahead, CountHolds, WalkIsComplete

(* Every action keeps the invariant. *)
LEMMA NextConsistent == Consistent /\ [Next]_vars => Consistent'
<1> SUFFICES ASSUME Consistent, [Next]_vars PROVE Consistent'
  OBVIOUS
<1> USE PagesAssumption
<1>0. /\ TypeOK /\ Ahead /\ CountHolds /\ WalkIsComplete
      /\ walk \in Walks
      /\ IsFiniteSet(ended) /\ IsFiniteSet(open)
      /\ Cardinality(ended) \in Nat /\ Cardinality(open) \in Nat
      /\ RowCount \in Nat /\ Cardinality(ended) <= RowCount
  BY TableIsFinite DEF Consistent, TypeOK
<1>a. ASSUME UNCHANGED table, walk' \in Walks
      PROVE  /\ TypeOK' /\ RowCount' = RowCount
             /\ \A t, status : Position(t, status)' = Position(t, status)
  BY <1>0, <1>a DEF table, TypeOK, IsOrdered, RowCount, Position, Before
<1>b. ASSUME walk' = [walk EXCEPT !.wanted = Unmoved]
      PROVE  walk' \in Walks
  <2>1. Unmoved \subseteq Tasks
    BY <1>0 DEF Unmoved, Walks
  <2>2. QED  BY <1>0, <1>b, <2>1 DEF Walks
<1>1. ASSUME NEW t \in Tasks, Create(t) PROVE Consistent'
  <2>1. /\ t \notin used
        /\ used' = used \cup {t} /\ open' = open \cup {t}
        /\ UNCHANGED <<ended, newer, code, removals>>
        /\ walk' = [walk EXCEPT !.clean = walk.clean /\ walk.pc # "list"]
    BY <1>1 DEF Create
  <2>2. /\ walk' \in Walks /\ walk'.pc = walk.pc /\ walk'.offset = walk.offset
        /\ walk'.wanted = walk.wanted /\ walk'.seen = walk.seen /\ walk'.status = walk.status
        /\ walk'.clean <=> walk.clean /\ walk.pc # "list"
    BY <1>0, <2>1 DEF Walks
  <2>3. TypeOK'
    BY <1>0, <2>1, <2>2 DEF TypeOK, IsOrdered
  <2>4. \A u, status : Position(u, status)' = Position(u, status)
    BY <2>1 DEF Position, Before
  <2>5. Ahead' /\ CountHolds' /\ WalkIsComplete'
    BY <1>0, <2>1, <2>2, <2>4 DEF Ahead, CountHolds, WalkIsComplete
  <2>6. QED  BY <2>3, <2>5 DEF Consistent
<1>2. ASSUME NEW t \in Tasks, NEW c \in Codes, Recode(t, c) PROVE Consistent'
  <2>1. code' = [code EXCEPT ![t] = c] /\ UNCHANGED <<ended, newer, open, used, removals>>
        /\ walk' = [walk EXCEPT !.wanted = Unmoved]
    BY <1>2 DEF Recode
  <2>2. TypeOK'
    BY <1>0, <1>b, <2>1 DEF TypeOK, IsOrdered
  <2>3. RowCount' = RowCount
    BY <2>1 DEF RowCount
  <2>4. QED  BY <1>0, <2>1, <2>2, <2>3, ChangeKeepsWalk
<1>3. ASSUME NEW t \in Tasks, NEW c \in Codes, NEW later \in SUBSET ended, Complete(t, c, later)
      PROVE  Consistent'
  <2>1. /\ t \in open \cup ended /\ open' = open \ {t} /\ ended' = ended \cup {t}
        /\ code' = [code EXCEPT ![t] = c] /\ UNCHANGED <<used, removals>>
        /\ walk' = [walk EXCEPT !.wanted = Unmoved]
    BY <1>3 DEF Complete
  <2>2. newer' \in [Tasks -> SUBSET Tasks] /\ IsOrdered'
    BY <1>0, <1>3, CompletedInOrder
  <2>3. TypeOK'
    BY <1>0, <1>b, <2>1, <2>2 DEF TypeOK
  <2>4. RowCount' = RowCount
    <3>1. CASE t \in open
      <4>1. t \notin ended
        BY <1>0, <3>1 DEF TypeOK
      <4>2. Cardinality(open') = Cardinality(open) - 1
        BY <1>0, <2>1, <3>1, FS_RemoveElement
      <4>3. Cardinality(ended') = Cardinality(ended) + 1
        BY <1>0, <2>1, <4>1, FS_AddElement
      <4>4. QED  BY <1>0, <4>2, <4>3 DEF RowCount
    <3>2. CASE t \in ended
      <4>1. ended' = ended /\ open' = open
        BY <1>0, <2>1, <3>2 DEF TypeOK
      <4>2. QED  BY <4>1 DEF RowCount
    <3>3. QED  BY <2>1, <3>1, <3>2
  <2>5. QED  BY <1>0, <2>1, <2>3, <2>4, ChangeKeepsWalk
<1>4. ASSUME NEW c \in Codes, RemoveRows(c) PROVE Consistent'
  <2>1. PICK gone :
             /\ ended' = ended \ gone /\ open' = open \ gone
             /\ newer' = [t \in Tasks |-> IF t \in gone THEN {} ELSE newer[t] \ gone]
             /\ removals < MaxRemovals /\ removals' = removals + 1 /\ UNCHANGED <<code, used>>
             /\ walk' = [walk EXCEPT !.wanted = Unmoved]
    BY <1>4 DEF RemoveRows
  <2>2. newer' \in [Tasks -> SUBSET Tasks] /\ IsOrdered'
    <3>1. ended \subseteq Tasks /\ newer \in [Tasks -> SUBSET Tasks] /\ IsOrdered
      BY <1>0 DEF TypeOK
    <3>2. newer' \in [Tasks -> SUBSET Tasks]
      BY <2>1, <3>1
    <3>3. \A t \in ended' : t \in ended /\ t \notin gone /\ newer'[t] = newer[t] \ gone
      BY <2>1, <3>1
    <3>4. \A t \in Tasks \ ended' : newer'[t] = {}
      BY <2>1, <3>1 DEF IsOrdered
    <3>5. \A t \in ended' : newer'[t] \subseteq ended' \ {t}
      BY <2>1, <3>1, <3>3 DEF IsOrdered
    <3>6. \A t, u \in ended' : t # u => (t \in newer'[u] <=> u \notin newer'[t])
      BY <3>1, <3>3 DEF IsOrdered
    <3>7. \A t \in ended' : \A u \in newer'[t] : newer'[u] \subseteq newer'[t]
      BY <3>1, <3>3, <3>5 DEF IsOrdered
    <3>8. QED  BY <3>2, <3>4, <3>5, <3>6, <3>7 DEF IsOrdered
  <2>3. removals' \in 0..MaxRemovals
    BY <1>0, <2>1 DEF TypeOK
  <2>4. TypeOK'
    BY <1>0, <1>b, <2>1, <2>2, <2>3 DEF TypeOK
  <2>5. RowCount' \in Nat /\ RowCount' <= RowCount
    <3>1. ended' \subseteq ended /\ open' \subseteq open
      BY <2>1
    <3>2. /\ IsFiniteSet(ended') /\ Cardinality(ended') <= Cardinality(ended)
          /\ IsFiniteSet(open') /\ Cardinality(open') <= Cardinality(open)
      BY <1>0, <3>1, FS_Subset
    <3>3. Cardinality(ended') \in Nat /\ Cardinality(open') \in Nat
      BY <3>2, FS_CardinalityType
    <3>4. QED  BY <1>0, <3>2, <3>3 DEF RowCount
  <2>6. QED  BY <1>0, <2>1, <2>4, <2>5, ChangeKeepsWalk
<1>5. ASSUME NEW kind \in Kinds, NEW requested \in Limits, NEW status \in Codes \cup {NoStatus},
             BeginWalk(kind, requested, status)
      PROVE  Consistent'
  <2> DEFINE listed == {t \in ended : Matches(code[t], status)}
  <2>1. Limit(kind, requested) \in Nat
    BY DEF Limit
  <2>2. /\ UNCHANGED table
        /\ walk' = [pc |-> "count", kind |-> kind, status |-> status,
                    offset |-> 0, limit |-> Limit(kind, requested), count |-> 0,
                    wanted |-> listed, seen |-> {}, clean |-> TRUE]
    BY <1>5 DEF BeginWalk
  <2>3. listed \subseteq Tasks
    BY <1>0 DEF TypeOK
  <2>4. walk' \in Walks
    BY <2>1, <2>2, <2>3 DEF Walks
  <2>5. Ahead'
    <3>1. \A t \in listed : Position(t, status) > 0
      BY <1>0, PositionBounds
    <3>2. \A t \in listed : Position(t, status)' > 0
      BY <1>a, <2>2, <2>4, <3>1
    <3>3. QED  BY <2>2, <3>2 DEF Ahead, table
  <2>6. QED  BY <1>a, <2>2, <2>4, <2>5 DEF Consistent, CountHolds, WalkIsComplete
<1>6. CASE CountRows
  <2>1. walk.pc = "count" /\ UNCHANGED table
    BY <1>6 DEF CountRows
  <2>2. CASE walk.kind = "page" /\ walk.offset > RowCount
    <3>1. walk' = [walk EXCEPT !.pc = "over"]
      BY <1>6, <2>2 DEF CountRows
    <3>2. /\ walk' \in Walks /\ walk'.pc = "over" /\ walk'.wanted = walk.wanted
          /\ walk'.seen = walk.seen /\ walk'.clean = walk.clean
      BY <1>0, <3>1 DEF Walks
    <3>3. walk.offset \in Nat
      BY <1>0 DEF Walks
    <3>4. \A t \in ended : ~(Position(t, walk.status) > walk.offset)
      BY <1>0, <2>2, <3>3, PositionBounds
    <3>5. walk.clean => walk.wanted \subseteq walk.seen
      BY <1>0, <2>1, <3>4 DEF Ahead
    <3>6. QED  BY <1>a, <2>1, <3>2, <3>5 DEF Consistent, Ahead, CountHolds, WalkIsComplete
  <2>3. CASE ~(walk.kind = "page" /\ walk.offset > RowCount)
    <3>1. walk' = [walk EXCEPT !.pc = "list", !.count = RowCount]
      BY <1>6, <2>3 DEF CountRows
    <3>2. /\ walk' \in Walks /\ walk'.pc = "list" /\ walk'.count = RowCount
          /\ walk'.wanted = walk.wanted /\ walk'.seen = walk.seen /\ walk'.clean = walk.clean
          /\ walk'.offset = walk.offset /\ walk'.status = walk.status
      BY <1>0, <3>1 DEF Walks
    <3>3. Ahead'
      BY <1>0, <1>a, <2>1, <3>2 DEF Ahead, table
    <3>4. QED  BY <1>0, <1>a, <2>1, <3>2, <3>3 DEF Consistent, CountHolds, WalkIsComplete
  <2>4. QED  BY <2>2, <2>3
<1>7. CASE ListPage
  <2> DEFINE page == Page(walk.offset, walk.limit, walk.status)
             seen == walk.seen \cup page
             next == walk.offset + walk.limit
  <2>1. /\ walk.pc = "list" /\ UNCHANGED table
        /\ walk' = IF HasNextPage(walk.offset, walk.limit, walk.count)
                   THEN [walk EXCEPT !.pc = "count", !.count = 0, !.seen = seen,
                                     !.offset = NextOffset(walk.offset, walk.limit)]
                   ELSE [walk EXCEPT !.pc = "over", !.seen = seen]
    BY <1>7 DEF ListPage
  <2>2. /\ walk.offset \in Nat /\ walk.limit \in Nat /\ walk.count \in Nat
        /\ walk.wanted \subseteq Tasks /\ walk.seen \subseteq Tasks
    BY <1>0 DEF Walks
  <2>3. seen \in SUBSET Tasks /\ walk.seen \subseteq seen
    BY <1>0, <2>2 DEF Page, TypeOK
  (* what the page did not return lies beyond it *)
  <2>4. ASSUME walk.clean, NEW t \in walk.wanted \ seen
        PROVE  t \in ended /\ Matches(code[t], walk.status) /\ Position(t, walk.status) > next
    <3>1. t \in ended /\ Matches(code[t], walk.status) /\ Position(t, walk.status) > walk.offset
      BY <1>0, <2>1, <2>3, <2>4 DEF Ahead
    <3>2. Position(t, walk.status) \in Nat
      BY <1>0, <3>1, PositionBounds
    <3>3. Position(t, walk.status) \notin walk.offset + 1 .. walk.offset + walk.limit
      BY <2>4, <3>1 DEF Page
    <3>4. QED  BY <2>2, <3>1, <3>2, <3>3
  <2>5. NextOffset(walk.offset, walk.limit) = next /\ next \in Nat
    BY <2>2 DEF NextOffset
  <2> HIDE DEF seen, next
  <2>6. CASE HasNextPage(walk.offset, walk.limit, walk.count)
    <3>1. walk' = [walk EXCEPT !.pc = "count", !.count = 0, !.seen = seen, !.offset = next]
      BY <2>1, <2>5, <2>6
    <3>2. /\ walk' \in Walks /\ walk'.pc = "count" /\ walk'.seen = seen /\ walk'.offset = next
          /\ walk'.wanted = walk.wanted /\ walk'.clean = walk.clean /\ walk'.status = walk.status
      BY <1>0, <2>3, <2>5, <3>1 DEF Walks
    <3>3. Ahead'
      BY <1>a, <2>1, <2>4, <3>2 DEF Ahead, table
    <3>4. QED  BY <1>a, <2>1, <3>2, <3>3 DEF Consistent, CountHolds, WalkIsComplete
  <2>7. CASE ~HasNextPage(walk.offset, walk.limit, walk.count)
    <3>1. walk' = [walk EXCEPT !.pc = "over", !.seen = seen]
      BY <2>1, <2>7
    <3>2. /\ walk' \in Walks /\ walk'.pc = "over" /\ walk'.seen = seen
          /\ walk'.wanted = walk.wanted /\ walk'.clean = walk.clean
      BY <1>0, <2>3, <3>1 DEF Walks
    <3>3. walk.clean => walk.wanted \subseteq seen
      <4>1. walk.clean => RowCount <= next
        BY <1>0, <2>1, <2>2, <2>7 DEF HasNextPage, CountHolds, next
      <4>2. walk.clean => \A t \in ended : ~(Position(t, walk.status) > next)
        BY <1>0, <2>5, <4>1, PositionBounds
      <4>3. QED  BY <2>4, <4>2
    <3>4. QED  BY <1>a, <2>1, <3>2, <3>3 DEF Consistent, Ahead, CountHolds, WalkIsComplete
  <2>8. QED  BY <2>6, <2>7
<1>8. CASE UNCHANGED vars
  <2>1. UNCHANGED table /\ walk' = walk
    BY <1>8 DEF vars, table
  <2>2. Ahead'
    BY <1>0, <1>a, <2>1 DEF Ahead, table
  <2>3. QED  BY <1>0, <1>a, <2>1, <2>2 DEF Consistent, CountHolds, WalkIsComplete
<1>9. QED  BY <1>1, <1>2, <1>3, <1>4, <1>5, <1>6, <1>7, <1>8 DEF Next

(* Every reachable state is consistent.                                     *)
THEOREM AlwaysConsistent == Spec => []Consistent
BY InitConsistent, NextConsistent, PTL DEF Spec

(* TypeOK holds in every reachable state: among other things, however the   *)
(* saves of the handlers come, the ended rows are in one order, in which    *)
(* the pages are cut.                                                       *)
THEOREM TypeCorrect == Spec => []TypeOK
<1>1. Consistent => TypeOK
  BY DEF Consistent
<1>2. QED  BY <1>1, AlwaysConsistent, PTL

(* A walk, with a status or without, returns every row it wanted that was    *)
(* not moved forward under it, whatever the limit and however many rows are  *)
(* created, completed, stamped again or removed, unless a row was created    *)
(* between the two reads of one query.                                       *)
THEOREM WalkIsAlwaysComplete == Spec => []WalkIsComplete
<1>1. Consistent => WalkIsComplete
  BY DEF Consistent
<1>2. QED  BY <1>1, AlwaysConsistent, PTL

=============================================================================
