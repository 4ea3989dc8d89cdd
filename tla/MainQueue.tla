------------------------------ MODULE MainQueue ------------------------------
(***************************************************************************)
(* MainQueue: the worker's connection to the message broker, on which the  *)
(* ends of tasks are announced.  The connection is made by whichever send  *)
(* finds no channel, several sends may be making one at the same time, and *)
(* all of them share the fields _connection, _channel and                  *)
(* _lastConnectAttempt.                                                    *)
(*                                                                         *)
(* A step of a call is the code between two of its awaits.  An event of    *)
(* the network settles the promises that depend on it; the code after      *)
(* their awaits runs later, and other events may come first.  (The waits   *)
(* of the worker's own functions for each other are too short for an event *)
(* of the network, but one in them changes nothing that it would not       *)
(* change just before.)                                                    *)
(*                                                                         *)
(* Nobody listens to errors of a channel, so amqplib makes them errors of  *)
(* its connection: a channel dies only with its connection, and goes by    *)
(* its name.  Two calls may open one each on the same connection; they     *)
(* live and die together.                                                  *)
(***************************************************************************)
EXTENDS Naturals, FiniteSets

CONSTANTS
  Callers,       (* calls of sendTaskExecutionComplete that may overlap      *)
  Conns,         (* connection objects                                       *)
  None,          (* null                                                     *)
  Disturbances,  (* what the broker and the network may do                   *)
  MaxTroubles    (* bound on how often they do                               *)

ASSUME ConstantsAssumption ==
  /\ IsFiniteSet(Callers) /\ IsFiniteSet(Conns)
  /\ None \notin Conns
  /\ Disturbances \subseteq {"down",    (* connecting fails                  *)
                             "close"}   (* a connection is lost, or the      *)
                                        (* broker refuses a queue            *)
  /\ MaxTroubles \in Nat

VARIABLES
  connection,  (* _connection                                                *)
  channel,     (* _channel                                                   *)
  recent,      (* _lastConnectAttempt is less than 5 seconds ago             *)
  conn,        (* the state of each connection object; "new" before its      *)
               (* listeners are attached, "closed" also when it was not made *)
  call,        (* calls in progress: the connection each one waits for, how  *)
               (* many queues it has yet to assert, and how its promise was  *)
               (* settled                                                    *)
  outcome,     (* what became of the last message of each caller             *)
  troubles

fields == <<connection, channel, recent>>
vars   == <<connection, channel, recent, conn, call, outcome, troubles>>

IdleCall == [pc |-> "idle", on |-> None, left |-> 0, got |-> "nothing"]

(* TaskExecutionCompleteQueue, TaskExecutionUpdateQueue, TaskCancelRequestQueue *)
Queues == 3

TypeOK ==
  /\ connection \in Conns \cup {None}
  /\ channel \in Conns \cup {None}
  /\ recent \in BOOLEAN
  /\ conn \in [Conns -> {"new", "open", "closing", "closed"}]
  /\ call \in [Callers -> [pc : {"idle", "connecting", "connected", "opening", "asserting",
                                 "closing", "returning"},
                           on : Conns \cup {None}, left : 0..Queues,
                           got : {"nothing", "ok", "error"}]]
  /\ outcome \in [Callers -> {"none", "sent", "failed"}]
  /\ troubles \in 0..MaxTroubles

Init ==
  /\ connection = None /\ channel = None /\ recent = FALSE
  /\ conn = [k \in Conns |-> "closed"]
  /\ call = [c \in Callers |-> IdleCall]
  /\ outcome = [c \in Callers |-> "none"]
  /\ troubles = 0

Trouble(kind) ==
  /\ kind \in Disturbances
  /\ troubles < MaxTroubles
  /\ troubles' = troubles + 1

-----------------------------------------------------------------------------
(* The calls: sendTaskExecutionComplete, and the connect it makes when there *)
(* is no channel                                                             *)

(* amqplib throws at any use of a channel whose connection is closing or     *)
(* closed                                                                    *)
Usable(k) == k # None /\ conn[k] = "open"

(* A promise of amqplib that is already settled when it is returned: only    *)
(* what is asked of an open connection is answered, and what queues up       *)
(* behind an unanswered request of one that is closing is rejected later.    *)
Asked(k) ==
  CASE conn[k] = "open"    -> {"nothing"}
    [] conn[k] = "closing" -> {"nothing", "error"}
    [] OTHER               -> {"error"}

Awaits(c, pc, got) == call[c].pc = pc /\ call[c].got = got

(* the call goes on to where it waits for nothing of amqplib *)
Enter(c, pc) == call' = [call EXCEPT ![c] = [IdleCall EXCEPT !.pc = pc]]

(* The end of a call: sendToQueue on the channel there is now, whether or    *)
(* not its queues are declared yet.  A failure is caught and logged.         *)
Publish(c) ==
  /\ outcome' = [outcome EXCEPT ![c] = IF Usable(channel) THEN "sent" ELSE "failed"]
  /\ call' = [call EXCEPT ![c] = IdleCall]

SendAtOnce(c) ==
  /\ call[c].pc = "idle"
  /\ channel # None
  /\ Publish(c)
  /\ UNCHANGED <<fields, conn, troubles>>

(* Mutant of SendConnects: _lastConnectAttempt is set when a connect begins. *)
SendConnectsStamped(c) ==
  /\ call[c].pc = "idle"
  /\ channel = None
  /\ Enter(c, IF recent THEN "returning" ELSE "connecting")
  /\ recent' = TRUE
  /\ UNCHANGED <<connection, channel, conn, outcome, troubles>>

(* Mutant of SendConnects: a connect is also made when the channel is dead. *)
SendConnectsIfDead(c) ==
  /\ call[c].pc = "idle"
  /\ ~Usable(channel)
  /\ Enter(c, IF recent THEN "returning" ELSE "connecting")
  /\ UNCHANGED <<fields, conn, outcome, troubles>>

(* Mutant of SendConnects: no connect is made when there is a connection. *)
SendConnectsOnce(c) ==
  /\ call[c].pc = "idle"
  /\ channel = None
  /\ Enter(c, IF recent \/ connection # None THEN "returning" ELSE "connecting")
  /\ UNCHANGED <<fields, conn, outcome, troubles>>

(* no connect is tried so soon after the last one that succeeded *)
SendConnects(c) ==
  /\ call[c].pc = "idle"
  /\ channel = None
  /\ Enter(c, IF recent THEN "returning" ELSE "connecting")
  /\ UNCHANGED <<fields, conn, outcome, troubles>>

(* the connection is stored, and its listeners are attached *)
Connected(c) ==
  /\ Awaits(c, "connecting", "ok")
  /\ connection' = call[c].on
  /\ conn' = [conn EXCEPT ![call[c].on] = IF @ = "new" THEN "open" ELSE @]
  /\ Enter(c, "connected")
  /\ UNCHANGED <<channel, recent, outcome, troubles>>

(* _connection is cleared, whoever set it *)
NotConnected(c) ==
  /\ Awaits(c, "connecting", "error")
  /\ connection' = None
  /\ Enter(c, "returning")
  /\ UNCHANGED <<channel, recent, conn, outcome, troubles>>

(* createChannel on the connection there is now.  With none, the catch block *)
(* has none to close either.                                                 *)
OpenChannel(c) ==
  /\ call[c].pc = "connected"
  /\ IF connection = None
     THEN Enter(c, "returning")
     ELSE \E got \in Asked(connection) :
            call' = [call EXCEPT ![c] = [pc |-> "opening", on |-> connection,
                                         left |-> Queues, got |-> got]]
  /\ UNCHANGED <<fields, conn, outcome, troubles>>

(* the channel is stored, whatever became of its connection since the reply, *)
(* and the first queue is asserted on it                                     *)
ChannelOpens(c) ==
  /\ Awaits(c, "opening", "ok")
  /\ channel' = call[c].on
  /\ \E got \in Asked(call[c].on) :
       call' = [call EXCEPT ![c] = [pc |-> "asserting", on |-> @.on, left |-> Queues,
                                    got |-> got]]
  /\ UNCHANGED <<connection, recent, conn, outcome, troubles>>

(* The catch block of createTaskCompleteChannel closes whatever connection   *)
(* there is now, and goes on to the send without one.  One that is closing   *)
(* or closed rejects.                                                        *)
GiveUp(c) ==
  IF connection = None
  THEN Enter(c, "returning") /\ UNCHANGED conn
  ELSE /\ conn' = [conn EXCEPT ![connection] = IF @ = "open" THEN "closing" ELSE @]
       /\ call' = [call EXCEPT ![c] = [pc |-> "closing", on |-> connection, left |-> 0,
                                       got |-> IF conn[connection] = "open" THEN "nothing"
                                                                            ELSE "error"]]

(* the next queue is asserted on the channel there is now, which may be      *)
(* another call's, dead or gone                                              *)
QueueAsserted(c) ==
  /\ Awaits(c, "asserting", "ok")
  /\ IF call[c].left = 1
     THEN recent' = TRUE /\ Enter(c, "returning") /\ UNCHANGED conn
     ELSE /\ UNCHANGED recent
          /\ IF channel = None
             THEN GiveUp(c)
             ELSE /\ \E got \in Asked(channel) :
                       call' = [call EXCEPT ![c] = [pc |-> "asserting", on |-> channel,
                                                    left |-> @.left - 1, got |-> got]]
                  /\ UNCHANGED conn
  /\ UNCHANGED <<connection, channel, outcome, troubles>>

ChannelFails(c) ==
  /\ Awaits(c, "opening", "error") \/ Awaits(c, "asserting", "error")
  /\ GiveUp(c)
  /\ UNCHANGED <<fields, outcome, troubles>>

(* Mutant of GivenUp: a close that was rejected is tried again. *)
GivenUpRetries(c) ==
  /\ \/ /\ Awaits(c, "closing", "ok")
        /\ Enter(c, "returning")
        /\ UNCHANGED conn
     \/ /\ Awaits(c, "closing", "error")
        /\ GiveUp(c)
  /\ UNCHANGED <<fields, outcome, troubles>>

(* the catch block ends; when close was rejected, that is thrown out of connect *)
GivenUp(c) ==
  /\ \/ /\ Awaits(c, "closing", "ok")
        /\ Enter(c, "returning")
        /\ UNCHANGED outcome
     \/ /\ Awaits(c, "closing", "error")
        /\ call' = [call EXCEPT ![c] = IdleCall]
        /\ outcome' = [outcome EXCEPT ![c] = "failed"]
  /\ UNCHANGED <<fields, conn, troubles>>

(* connect returns to the send *)
SendGoesOn(c) ==
  /\ call[c].pc = "returning"
  /\ Publish(c)
  /\ UNCHANGED <<fields, conn, troubles>>

-----------------------------------------------------------------------------
(* The network and the clock *)

(* Names for a new connection object: nothing refers to what had them before. *)
(* Connections that were left over stay open, and may be lost; when Conns has  *)
(* no other name left, one of them is forgotten.                               *)
Free ==
  LET unused == {k \in Conns : /\ conn[k] \in {"open", "closed"}
                               /\ k \notin {connection, channel}
                               /\ \A c \in Callers : call[c].on # k}
      closed == {k \in unused : conn[k] = "closed"}
  IN IF closed # {} THEN closed ELSE unused

Settle(c, got) == call' = [call EXCEPT ![c].got = got]

(* the broker accepts a connection *)
ConnectReply(c) ==
  LET k == CHOOSE k \in Free : TRUE IN
  /\ Awaits(c, "connecting", "nothing")
  /\ Free # {}
  /\ conn' = [conn EXCEPT ![k] = "new"]
  /\ call' = [call EXCEPT ![c].on = k, ![c].got = "ok"]
  /\ UNCHANGED <<fields, outcome, troubles>>

ConnectFails(c) ==
  /\ Trouble("down")
  /\ Awaits(c, "connecting", "nothing")
  /\ Settle(c, "error")
  /\ UNCHANGED <<fields, conn, outcome>>

(* the broker opens a channel, or declares a queue *)
ChannelReply(c) ==
  /\ Awaits(c, "opening", "nothing") \/ Awaits(c, "asserting", "nothing")
  /\ conn[call[c].on] = "open"
  /\ Settle(c, "ok")
  /\ UNCHANGED <<fields, conn, outcome, troubles>>

(* the requests on a connection, when it closes; its closes, when the broker *)
(* confirms                                                                  *)
Waiting(k) ==
  {c \in Callers : call[c].on = k /\ call[c].got = "nothing" /\ call[c].pc \in {"opening", "asserting"}}
Closers(k) == {c \in Callers : call[c].on = k /\ Awaits(c, "closing", "nothing")}
Settled(c, k, confirmed) ==
  IF c \in Waiting(k) THEN "error" ELSE IF c \in confirmed THEN "ok" ELSE call[c].got

(* Mutant of Closed: the fields are cleared only by the current connection. *)
ClosedCurrent(k, confirmed) ==
  /\ conn' = [conn EXCEPT ![k] = "closed"]
  /\ connection' = IF connection = k THEN None ELSE connection
  /\ channel' = IF connection = k THEN None ELSE channel
  /\ call' = [c \in Callers |-> [call[c] EXCEPT !.got = Settled(c, k, confirmed)]]
  /\ UNCHANGED <<recent, outcome>>

(* "close" of any connection, also of one that was replaced, clears both     *)
(* fields, and what was asked of it is rejected                              *)
Closed(k, confirmed) ==
  /\ conn' = [conn EXCEPT ![k] = "closed"]
  /\ connection' = None
  /\ channel' = None
  /\ call' = [c \in Callers |-> [call[c] EXCEPT !.got = Settled(c, k, confirmed)]]
  /\ UNCHANGED <<recent, outcome>>

(* the broker confirms a close, the only answer that settles its promise *)
CloseEnds(k) ==
  /\ conn[k] = "closing"
  /\ Closed(k, Closers(k))
  /\ UNCHANGED troubles

(* the socket ends, the broker closes the connection or refuses a queue      *)
ConnectionLost(k) ==
  /\ Trouble("close")
  /\ conn[k] \in {"open", "closing"}
  /\ Closed(k, {})

(* before its listeners are attached, a loss goes unnoticed ... *)
LostUnheard(k) ==
  /\ Trouble("close")
  /\ conn[k] = "new"
  /\ conn' = [conn EXCEPT ![k] = "closed"]
  /\ UNCHANGED <<fields, call, outcome>>

(* ... or is an "error" nobody listens to, which ends the process *)
Dies(k) ==
  /\ Trouble("close")
  /\ conn[k] = "new"
  /\ connection' = None /\ channel' = None /\ recent' = FALSE
  /\ conn' = [l \in Conns |-> "closed"]
  /\ call' = [c \in Callers |-> IdleCall]
  /\ outcome' = [c \in Callers |-> "none"]

FiveSecondsPass ==
  /\ recent
  /\ recent' = FALSE
  /\ UNCHANGED <<connection, channel, conn, call, outcome, troubles>>

-----------------------------------------------------------------------------
(* the code after an await, whose promise was settled *)
Resume(c) ==
  \/ Connected(c) \/ NotConnected(c)
  \/ OpenChannel(c) \/ ChannelOpens(c) \/ ChannelFails(c)
  \/ QueueAsserted(c)
  \/ GivenUp(c)
  \/ SendGoesOn(c)

Next ==
  \/ \E c \in Callers : SendAtOnce(c) \/ SendConnects(c)
  \/ \E c \in Callers : Resume(c)
  \/ \E c \in Callers : ConnectReply(c) \/ ConnectFails(c) \/ ChannelReply(c)
  \/ \E k \in Conns : CloseEnds(k) \/ ConnectionLost(k) \/ LostUnheard(k) \/ Dies(k)
  \/ FiveSecondsPass

(* the broker answers what it was asked, settled promises resume, the clock  *)
(* runs, and tasks keep ending                                               *)
Fairness ==
  /\ \A c \in Callers : WF_vars(Resume(c))
  /\ \A c \in Callers : WF_vars(ConnectReply(c) \/ ChannelReply(c))
  /\ \A c \in Callers : WF_vars(SendAtOnce(c) \/ SendConnects(c))
  /\ \A k \in Conns : WF_vars(CloseEnds(k))
  /\ WF_vars(FiveSecondsPass)

Spec == Init /\ [][Next]_vars
FairSpec == Spec /\ Fairness

-----------------------------------------------------------------------------
(* Properties *)

DeadField == channel # None /\ conn[channel] = "closed"

(* a channel is stored whose connection closed after the broker's reply, and *)
(* before the code that stores it                                            *)
StoresDead ==
  \E c \in Callers : /\ Awaits(c, "opening", "ok")
                     /\ conn[call[c].on] = "closed"
                     /\ channel' = call[c].on

(* The channel in use is dead only if it was dead when it was stored.  One   *)
(* that was stored alive is out of the field when its connection closes,     *)
(* although the connects and closes of several connections overlap and each  *)
(* of them writes the same fields.                                           *)
ChannelDiesUnstored ==
  [][DeadField' => (DeadField /\ channel' = channel) \/ StoresDead]_vars

(* No message fails before the first trouble: sends that overlap make their  *)
(* own connections, and none of them finds the channel of another half made. *)
FailsOnlyInTrouble == troubles = 0 => \A c \in Callers : outcome[c] # "failed"

(* it waits for the close of a connection that was lost instead              *)
Stuck(c) == Awaits(c, "closing", "nothing") /\ conn[call[c].on] = "closed"

(* Every send returns, so the update that waits for it goes on to its save,  *)
(* unless its catch block closes a connection that is lost before the broker *)
(* confirms.                                                                 *)
SendReturns == \A c \in Callers : call[c].pc # "idle" ~> call[c].pc = "idle" \/ Stuck(c)

(* After the last trouble there is an open channel again and it stays, or a  *)
(* dead one was stored and that stays, unless calls that overlap keep closing *)
(* each other's connections: each catch block closes what the other one has  *)
(* just made, and that close clears the field for the other's next queue.    *)
Recovers ==
  \/ <>[]Usable(channel)
  \/ <>[]DeadField
  \/ []<>(\E k \in Conns : conn[k] = "closing")

(* a dead channel is in use, and no connect or close is under way            *)
Dead ==
  /\ DeadField
  /\ \A c \in Callers : call[c].pc = "idle" \/ Stuck(c)
  /\ \A k \in Conns : conn[k] # "closing"

(* Nothing the worker does by itself gets it out of that state: every send   *)
(* finds a channel and fails on it, until another connection is lost.        *)
DeadStaysDead ==
  [][Dead => \/ Dead' /\ \A c \in Callers : outcome'[c] \in {outcome[c], "failed"}
             \/ troubles' > troubles]_vars

(* A channel whose connection has closed does not stay in use: the close     *)
(* handler clears the field, so an error needs no other cleanup.             *)
DeadChannelIsDropped == DeadField ~> ~DeadField

=============================================================================
