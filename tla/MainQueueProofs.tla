-------------------------- MODULE MainQueueProofs --------------------------
(***************************************************************************)
(* Theorems about MainQueue, for every set of callers, any number of       *)
(* connection objects and any number of troubles.                          *)
(***************************************************************************)
EXTENDS MainQueue, TLAPS

-----------------------------------------------------------------------------
CallStates == [pc : {"idle", "connecting", "connected", "opening", "asserting",
                     "closing", "returning"},
               on : Conns \cup {None}, left : 0..Queues,
               got : {"nothing", "ok", "error"}]
ConnStates == {"new", "open", "closing", "closed"}
Outcomes == {"none", "sent", "failed"}

(* A call that waits for an answer on a connection knows it, and has a queue *)
(* left as long as it opens a channel or asserts.                            *)
CallConsistent(call_c) ==
  /\ call_c.pc \in {"opening", "asserting", "closing"} => call_c.on \in Conns
  /\ call_c.pc = "connecting" /\ call_c.got = "ok" => call_c.on \in Conns
  /\ call_c.pc \in {"opening", "asserting"} => call_c.left \in 1..Queues

(* Nothing but the call that made it refers to a connection before its       *)
(* listeners are attached, so a loss nobody hears of touches nothing else.   *)
FieldHeard(field, conns) == field # None => conns[field] # "new"
CallHeard(call_c, conns) ==
  call_c.on # None /\ call_c.pc # "connecting" => conns[call_c.on] # "new"

(* Before the first trouble nothing closes and nothing is rejected.  A       *)
(* connect that has come as far as the queues has set the channel, and only  *)
(* such a connect sets the time, so there is a channel to return to.         *)
Alive(k, conns) == k # None => conns[k] \in {"new", "open"}
CalmCall(call_c, theConnection, theChannel, conns) ==
  /\ call_c.pc # "closing" /\ call_c.got # "error"
  /\ call_c.pc = "connected" => theConnection # None
  /\ call_c.pc \in {"asserting", "returning"} => theChannel # None
  /\ Alive(call_c.on, conns)
Calm ==
  /\ Alive(connection, conn) /\ Alive(channel, conn)
  /\ \A k \in Conns : conn[k] # "closing"
  /\ recent => channel # None
  /\ \A c \in Callers : CalmCall(call[c], connection, channel, conn) /\ outcome[c] # "failed"

Consistent ==
  /\ TypeOK
  /\ \A c \in Callers : CallConsistent(call[c]) /\ CallHeard(call[c], conn)
  /\ FieldHeard(connection, conn) /\ FieldHeard(channel, conn)
  /\ troubles = 0 => Calm

-----------------------------------------------------------------------------
LEMMA IdleFacts ==
  /\ IdleCall \in CallStates /\ IdleCall.on = None
  /\ IdleCall.pc = "idle" /\ IdleCall.got = "nothing" /\ IdleCall.left = 0
BY DEF IdleCall, CallStates, Queues

(* A call that holds nothing is consistent, and calm if it needs no field.   *)
LEMMA HoldsNothing ==
  ASSUME NEW pc \in {"idle", "connecting", "connected", "returning"},
         NEW new, new = [IdleCall EXCEPT !.pc = pc]
  PROVE  /\ new \in CallStates /\ new.pc = pc
         /\ CallConsistent(new)
         /\ \A conns : CallHeard(new, conns)
         /\ \A f, ch, conns :
              (pc = "connected" => f # None) /\ (pc = "returning" => ch # None)
                => CalmCall(new, f, ch, conns)
<1>1. /\ new \in CallStates
      /\ new.pc = pc /\ new.on = None /\ new.got = "nothing"
  BY IdleFacts DEF CallStates
<1>2. QED  BY <1>1 DEF CallConsistent, CallHeard, CalmCall, Alive

LEMMA InitConsistent == Init => Consistent
<1> SUFFICES ASSUME Init PROVE Consistent
  OBVIOUS
<1>1. \A c \in Callers : call[c] = IdleCall
  BY DEF Init
<1>2. TypeOK
  <2>1. call \in [Callers -> CallStates] /\ troubles \in 0..MaxTroubles
    BY IdleFacts, ConstantsAssumption DEF Init
  <2>2. QED  BY <2>1 DEF Init, TypeOK, CallStates
<1>3. \A c \in Callers : CallConsistent(call[c]) /\ CallHeard(call[c], conn)
  BY <1>1, IdleFacts DEF CallConsistent, CallHeard
<1>4. Calm
  BY <1>1, IdleFacts DEF Init, Calm, CalmCall, Alive
<1>5. QED  BY <1>2, <1>3, <1>4 DEF Init, Consistent, FieldHeard

(* A step of one call that leaves connections as new as they were keeps the  *)
(* invariant, when the call and the fields it sets satisfy it.               *)
LEMMA OneCallMoves ==
  ASSUME Consistent, NEW c \in Callers, NEW new \in CallStates,
         call' = [call EXCEPT ![c] = new],
         CallConsistent(new), CallHeard(new, conn'),
         connection' \in Conns \cup {None}, channel' \in Conns \cup {None}, recent' \in BOOLEAN,
         conn' \in [Conns -> ConnStates],
         \A k \in Conns : conn'[k] = "new" => conn[k] = "new",
         FieldHeard(connection', conn'), FieldHeard(channel', conn'),
         outcome' \in [Callers -> Outcomes],
         troubles' \in 0..MaxTroubles,
         troubles' = 0 =>
           /\ troubles = 0
           /\ \A k \in Conns : conn'[k] # "closing" /\ (conn[k] = "open" => conn'[k] = "open")
                               /\ (conn[k] = "new" => conn'[k] \in {"new", "open"})
           /\ Alive(connection', conn') /\ Alive(channel', conn')
           /\ connection # None => connection' # None
           /\ channel # None => channel' # None
           /\ recent' => channel' # None
           /\ CalmCall(new, connection', channel', conn')
           /\ \A d \in Callers : outcome'[d] # "failed"
  PROVE  Consistent'
<1>1. call' \in [Callers -> CallStates] /\ \A d \in Callers : call'[d] = call[d] \/ call'[d] = new
  BY DEF Consistent, TypeOK, CallStates
<1>2. TypeOK'
  BY <1>1 DEF TypeOK, CallStates, ConnStates, Outcomes
<1>3. \A d \in Callers : call[d] \in CallStates /\ CallConsistent(call[d]) /\ CallHeard(call[d], conn)
  BY DEF Consistent, TypeOK, CallStates
<1>4. ASSUME NEW d \in Callers PROVE CallConsistent(call'[d]) /\ CallHeard(call'[d], conn')
  BY <1>1, <1>3 DEF CallHeard, CallStates
<1>5. ASSUME troubles' = 0 PROVE Calm'
  <2>1. ASSUME NEW d \in Callers PROVE CalmCall(call[d], connection', channel', conn')
    <3>1. CalmCall(call[d], connection, channel, conn)
      BY <1>5 DEF Consistent, Calm
    <3>2. Alive(call[d].on, conn')
      BY <1>3, <1>5, <3>1 DEF CalmCall, Alive, CallStates
    <3>3. QED  BY <1>5, <3>1, <3>2 DEF CalmCall
  <2>2. \A d \in Callers : CalmCall(call'[d], connection', channel', conn')
    BY <1>1, <1>5, <2>1
  <2>3. QED  BY <1>5, <2>2 DEF Calm
<1>6. QED  BY <1>2, <1>4, <1>5 DEF Consistent

(* The same for a step that changes nothing but its call and the outcomes.   *)
LEMMA OneCallWaits ==
  ASSUME Consistent, NEW c \in Callers, NEW new \in CallStates,
         call' = [call EXCEPT ![c] = new],
         CallConsistent(new), CallHeard(new, conn),
         UNCHANGED <<connection, channel, recent, conn>>,
         outcome' \in [Callers -> Outcomes],
         troubles' \in 0..MaxTroubles,
         troubles' = 0 => /\ troubles = 0
                          /\ CalmCall(new, connection, channel, conn)
                          /\ \A d \in Callers : outcome'[d] # "failed"
  PROVE  Consistent'
<1>1. /\ connection \in Conns \cup {None} /\ channel \in Conns \cup {None} /\ recent \in BOOLEAN
      /\ conn \in [Conns -> ConnStates]
      /\ FieldHeard(connection, conn) /\ FieldHeard(channel, conn)
  BY DEF Consistent, TypeOK, ConnStates
<1>2. troubles = 0 => /\ Alive(connection, conn) /\ Alive(channel, conn)
                      /\ \A k \in Conns : conn[k] # "closing"
                      /\ recent => channel # None
  BY DEF Consistent, Calm
<1>3. QED  BY <1>1, <1>2, OneCallMoves

-----------------------------------------------------------------------------
(* A channel that can be used before the first trouble.                      *)
LEMMA CalmChannel ==
  ASSUME Consistent, troubles = 0, channel # None
  PROVE  Usable(channel)
BY DEF Consistent, FieldHeard, Calm, Alive, Usable

(* A send ends its call, and before the first trouble it does not fail.      *)
LEMMA Sends ==
  ASSUME Consistent, NEW c \in Callers, Publish(c),
         UNCHANGED <<connection, channel, recent, conn, troubles>>,
         troubles = 0 => channel # None
  PROVE  Consistent'
<1>1. call' = [call EXCEPT ![c] = IdleCall] /\ IdleCall = [IdleCall EXCEPT !.pc = "idle"]
  BY IdleFacts DEF Publish, CallStates
<1>2. outcome' \in [Callers -> Outcomes] /\ troubles' \in 0..MaxTroubles
  BY DEF Publish, Consistent, TypeOK, Outcomes
<1>3. troubles' = 0 => \A d \in Callers : outcome'[d] # "failed"
  <2>1. SUFFICES ASSUME troubles = 0 PROVE \A d \in Callers : outcome'[d] # "failed"
    OBVIOUS
  <2>2. Usable(channel) /\ \A d \in Callers : outcome[d] # "failed"
    BY <2>1, CalmChannel DEF Consistent, Calm
  <2>3. QED  BY <2>2 DEF Publish, Consistent, TypeOK
<1>4. QED  BY <1>1, <1>2, <1>3, IdleFacts, HoldsNothing, OneCallWaits

(* A call that goes on without waiting for amqplib.                          *)
LEMMA Enters ==
  ASSUME Consistent, NEW c \in Callers,
         NEW pc \in {"idle", "connecting", "connected", "returning"}, Enter(c, pc),
         UNCHANGED <<connection, channel, recent, conn>>,
         outcome' \in [Callers -> Outcomes], troubles' \in 0..MaxTroubles,
         troubles' = 0 => /\ troubles = 0 /\ outcome' = outcome
                          /\ pc = "connected" => connection # None
                          /\ pc = "returning" => channel # None
  PROVE  Consistent'
<1> DEFINE new == [IdleCall EXCEPT !.pc = pc]
<1>1. call' = [call EXCEPT ![c] = new]
  BY DEF Enter
<1>2. /\ new \in CallStates /\ CallConsistent(new) /\ CallHeard(new, conn)
      /\ (pc = "connected" => connection # None) /\ (pc = "returning" => channel # None)
           => CalmCall(new, connection, channel, conn)
  BY HoldsNothing
<1> HIDE DEF new
<1>3. troubles = 0 => \A d \in Callers : outcome[d] # "failed"
  BY DEF Consistent, Calm
<1>4. QED  BY <1>1, <1>2, <1>3, OneCallWaits

(* A request on a connection the invariant knows.                            *)
LEMMA AskedFacts ==
  ASSUME Consistent, NEW k \in Conns, conn[k] # "new"
  PROVE  /\ Asked(k) \subseteq {"nothing", "error"}
         /\ troubles = 0 /\ Alive(k, conn) => Asked(k) = {"nothing"}
<1>1. conn[k] = "open" => Asked(k) = {"nothing"}
  BY DEF Asked
<1>2. conn[k] = "closing" => Asked(k) = {"nothing", "error"}
  BY DEF Asked
<1>3. conn[k] = "closed" => Asked(k) = {"error"}
  BY DEF Asked
<1>4. conn[k] \in {"open", "closing", "closed"} /\ k # None
  BY ConstantsAssumption DEF Consistent, TypeOK
<1>5. QED  BY <1>1, <1>2, <1>3, <1>4 DEF Alive

(* A trouble is counted. *)
LEMMA TroubleCounts ==
  ASSUME Consistent, NEW kind, Trouble(kind)
  PROVE  troubles' \in 0..MaxTroubles /\ troubles' # 0 /\ troubles' > troubles
BY ConstantsAssumption DEF Trouble, Consistent, TypeOK

(* The catch block: the call returns, or waits for a close; a connection at  *)
(* most begins to close.                                                     *)
LEMMA GivesUp ==
  ASSUME Consistent, NEW c \in Callers, GiveUp(c),
         UNCHANGED <<connection, channel, recent, outcome, troubles>>, troubles # 0
  PROVE  Consistent'
<1>1. outcome \in [Callers -> Outcomes] /\ troubles \in 0..MaxTroubles
  BY DEF Consistent, TypeOK, Outcomes
<1>2. CASE connection = None
  BY <1>1, <1>2, Enters DEF GiveUp
<1>3. CASE connection # None
  <2> DEFINE got == IF conn[connection] = "open" THEN "nothing" ELSE "error"
             new == [pc |-> "closing", on |-> connection, left |-> 0, got |-> got]
  <2>1. /\ conn' = [conn EXCEPT ![connection] = IF @ = "open" THEN "closing" ELSE @]
        /\ call' = [call EXCEPT ![c] = new]
    BY <1>3 DEF GiveUp
  <2>2. /\ connection \in Conns /\ conn \in [Conns -> ConnStates]
        /\ channel \in Conns \cup {None} /\ recent \in BOOLEAN
        /\ conn[connection] # "new" /\ FieldHeard(channel, conn)
    BY <1>3 DEF Consistent, TypeOK, ConnStates, FieldHeard
  <2>3. /\ conn' \in [Conns -> ConnStates]
        /\ \A k \in Conns : conn'[k] = "new" => conn[k] = "new"
    BY <2>1, <2>2 DEF ConnStates
  <2>4. FieldHeard(connection, conn') /\ FieldHeard(channel, conn')
    BY <2>2, <2>3 DEF FieldHeard
  <2>5. new \in CallStates /\ new.pc = "closing" /\ new.on = connection
    BY <2>2 DEF CallStates, Queues
  <2> HIDE DEF new
  <2>6. CallConsistent(new) /\ CallHeard(new, conn')
    BY <2>2, <2>3, <2>5 DEF CallConsistent, CallHeard
  <2>7. QED  BY <1>1, <2>1, <2>2, <2>3, <2>4, <2>5, <2>6, OneCallMoves
<1>4. QED  BY <1>2, <1>3

(* A request: the call waits on the connection it asks.                      *)
LEMMA Asks ==
  ASSUME Consistent, NEW c \in Callers, NEW k \in Conns, conn[k] # "new",
         NEW pc \in {"opening", "asserting"}, NEW left \in 1..Queues, NEW got \in Asked(k),
         call' = [call EXCEPT ![c] = [pc |-> pc, on |-> k, left |-> left, got |-> got]],
         channel' \in {channel, k},
         UNCHANGED <<connection, recent, conn, outcome, troubles>>,
         troubles = 0 => Alive(k, conn) /\ (pc = "asserting" => channel' # None)
  PROVE  Consistent'
<1> DEFINE new == [pc |-> pc, on |-> k, left |-> left, got |-> got]
<1>1. got \in {"nothing", "error"} /\ (troubles = 0 => got = "nothing")
  BY AskedFacts
<1>2. /\ new \in CallStates
      /\ new.pc = pc /\ new.on = k /\ new.left = left /\ new.got = got
  BY <1>1 DEF CallStates, Queues
<1>3. call' = [call EXCEPT ![c] = new]
  OBVIOUS
<1> HIDE DEF new
<1>4. CallConsistent(new) /\ CallHeard(new, conn')
  BY <1>1, <1>2 DEF CallConsistent, CallHeard
<1>5. /\ connection \in Conns \cup {None} /\ channel \in Conns \cup {None} /\ recent \in BOOLEAN
      /\ conn \in [Conns -> ConnStates] /\ outcome \in [Callers -> Outcomes]
      /\ troubles \in 0..MaxTroubles
      /\ FieldHeard(connection, conn) /\ FieldHeard(channel, conn)
  BY DEF Consistent, TypeOK, ConnStates, Outcomes
<1>6. FieldHeard(channel', conn) /\ k # None /\ channel' \in Conns \cup {None}
  BY <1>5, ConstantsAssumption DEF FieldHeard
<1>7. troubles = 0 => /\ CalmCall(new, connection', channel', conn')
                      /\ Alive(connection, conn) /\ Alive(channel', conn)
                      /\ channel # None => channel' # None
                      /\ \A l \in Conns : conn[l] # "closing"
                      /\ recent => channel' # None
                      /\ \A d \in Callers : outcome[d] # "failed"
  BY <1>1, <1>2, <1>6 DEF CalmCall, Consistent, Calm
<1>8. QED  BY <1>2, <1>3, <1>4, <1>5, <1>6, <1>7, OneCallMoves

(* The close of a connection clears the fields and settles promises.         *)
LEMMA Closes ==
  ASSUME Consistent, NEW k \in Conns, NEW confirmed \in SUBSET Callers, Closed(k, confirmed),
         \A c \in confirmed : call[c].pc = "closing",
         troubles' \in 0..MaxTroubles, troubles' # 0
  PROVE  Consistent'
<1>1. /\ connection' = None /\ channel' = None /\ recent' = recent /\ outcome' = outcome
      /\ conn' = [conn EXCEPT ![k] = "closed"]
      /\ conn \in [Conns -> ConnStates] /\ call \in [Callers -> CallStates]
  BY DEF Closed, Consistent, TypeOK, ConnStates, CallStates
<1>2. ASSUME NEW c \in Callers
      PROVE  /\ call'[c] \in CallStates
             /\ CallConsistent(call'[c]) /\ CallHeard(call'[c], conn')
  <2>1. /\ call[c] \in CallStates /\ CallConsistent(call[c]) /\ CallHeard(call[c], conn)
        /\ call[c].pc = "connecting" => c \notin Waiting(k) /\ c \notin confirmed
    BY <1>1 DEF Consistent, Waiting
  <2>2. /\ Settled(c, k, confirmed) \in {"nothing", "ok", "error"}
        /\ call[c].pc = "connecting" => Settled(c, k, confirmed) = call[c].got
    BY <2>1 DEF Settled, CallStates
  <2>3. /\ call'[c] \in CallStates
        /\ call'[c].pc = call[c].pc /\ call'[c].on = call[c].on /\ call'[c].left = call[c].left
        /\ call[c].pc = "connecting" => call'[c].got = call[c].got
    BY <2>1, <2>2 DEF Closed, CallStates
  <2>4. CallConsistent(call'[c])
    BY <2>1, <2>3 DEF CallConsistent
  <2>5. CallHeard(call'[c], conn')
    BY <1>1, <2>1, <2>3 DEF CallHeard, CallStates
  <2>6. QED  BY <2>3, <2>4, <2>5
<1>3. call' \in [Callers -> CallStates] /\ conn' \in [Conns -> ConnStates]
  BY <1>1, <1>2 DEF Closed, ConnStates
<1>4. TypeOK'
  BY <1>1, <1>3 DEF Consistent, TypeOK, ConnStates, CallStates
<1>5. QED  BY <1>1, <1>2, <1>4 DEF Consistent, FieldHeard

(* A name for a new connection object is one that nothing refers to.         *)
LEMMA FreeFacts ==
  ASSUME NEW k \in Free
  PROVE  k \in Conns /\ k \notin {connection, channel} /\ \A c \in Callers : call[c].on # k
BY DEF Free

-----------------------------------------------------------------------------
LEMMA NextConsistent == Consistent /\ [Next]_vars => Consistent'
<1> SUFFICES ASSUME Consistent, [Next]_vars PROVE Consistent'
  OBVIOUS
<1>0. /\ connection \in Conns \cup {None} /\ channel \in Conns \cup {None} /\ recent \in BOOLEAN
      /\ conn \in [Conns -> ConnStates] /\ call \in [Callers -> CallStates]
      /\ outcome \in [Callers -> Outcomes] /\ troubles \in 0..MaxTroubles
      /\ FieldHeard(connection, conn) /\ FieldHeard(channel, conn)
      /\ \A c \in Callers : CallConsistent(call[c]) /\ CallHeard(call[c], conn)
  BY DEF Consistent, TypeOK, ConnStates, CallStates, Outcomes
<1>a. ASSUME troubles = 0
      PROVE  /\ Alive(connection, conn) /\ Alive(channel, conn)
             /\ \A k \in Conns : conn[k] # "closing"
             /\ recent => channel # None
             /\ \A c \in Callers : /\ CalmCall(call[c], connection, channel, conn)
                                   /\ outcome[c] # "failed"
  BY <1>a DEF Consistent, Calm
<1>1. ASSUME NEW c \in Callers, SendAtOnce(c) PROVE Consistent'
  BY <1>1, Sends DEF SendAtOnce, fields
<1>2. ASSUME NEW c \in Callers, SendConnects(c) PROVE Consistent'
  <2> DEFINE pc == IF recent THEN "returning" ELSE "connecting"
  <2>1. /\ pc \in {"idle", "connecting", "connected", "returning"}
        /\ pc # "connected" /\ (pc = "returning" => recent)
    OBVIOUS
  <2>2. Enter(c, pc) /\ channel = None /\ UNCHANGED <<fields, conn, outcome, troubles>>
    BY <1>2 DEF SendConnects
  <2> HIDE DEF pc
  <2>3. QED  BY <1>0, <1>a, <2>1, <2>2, Enters DEF fields
<1>3. ASSUME NEW c \in Callers, Connected(c) PROVE Consistent'
  <2> DEFINE new == [IdleCall EXCEPT !.pc = "connected"]
  <2>1. /\ connection' = call[c].on /\ UNCHANGED <<channel, recent, outcome, troubles>>
        /\ conn' = [conn EXCEPT ![call[c].on] = IF @ = "new" THEN "open" ELSE @]
        /\ call' = [call EXCEPT ![c] = new]
    BY <1>3 DEF Connected, Enter
  <2>2. call[c].on \in Conns /\ call[c].on # None
    BY <1>0, <1>3, ConstantsAssumption DEF Connected, Awaits, CallConsistent
  <2>3. /\ conn' \in [Conns -> ConnStates]
        /\ \A k \in Conns : /\ conn'[k] = "new" => conn[k] = "new"
                            /\ conn'[k] # conn[k] => conn[k] = "new" /\ conn'[k] = "open"
        /\ conn'[call[c].on] # "new"
    BY <1>0, <2>1, <2>2 DEF ConnStates
  <2>4. FieldHeard(connection', conn') /\ FieldHeard(channel', conn')
    BY <1>0, <2>1, <2>2, <2>3 DEF FieldHeard
  <2>5. /\ new \in CallStates /\ CallConsistent(new) /\ CallHeard(new, conn')
        /\ CalmCall(new, connection', channel', conn')
    BY <2>1, <2>2, HoldsNothing
  <2> HIDE DEF new
  <2>6. troubles = 0 =>
          /\ \A k \in Conns : conn'[k] # "closing" /\ (conn[k] = "open" => conn'[k] = "open")
                              /\ (conn[k] = "new" => conn'[k] \in {"new", "open"})
          /\ Alive(connection', conn') /\ Alive(channel', conn')
    BY <1>0, <1>a, <2>1, <2>2, <2>3 DEF CalmCall, Alive
  <2>7. QED  BY <1>0, <1>a, <2>1, <2>2, <2>3, <2>4, <2>5, <2>6, OneCallMoves
<1>4. ASSUME NEW c \in Callers, NotConnected(c) PROVE Consistent'
  <2> DEFINE new == [IdleCall EXCEPT !.pc = "returning"]
  <2>1. /\ connection' = None /\ UNCHANGED <<channel, recent, conn, outcome, troubles>>
        /\ call' = [call EXCEPT ![c] = new]
    BY <1>4 DEF NotConnected, Enter
  <2>2. troubles # 0
    BY <1>4, <1>a DEF NotConnected, Awaits, CalmCall
  <2>3. new \in CallStates /\ CallConsistent(new) /\ CallHeard(new, conn')
    BY HoldsNothing
  <2> HIDE DEF new
  <2>4. QED  BY <1>0, <2>1, <2>2, <2>3, OneCallMoves DEF FieldHeard
<1>5. ASSUME NEW c \in Callers, OpenChannel(c) PROVE Consistent'
  <2>1. CASE connection = None
    <3>1. troubles # 0
      BY <1>5, <1>a, <2>1 DEF OpenChannel, CalmCall
    <3>2. QED  BY <1>0, <1>5, <2>1, <3>1, Enters DEF OpenChannel, fields
  <2>2. CASE connection # None
    <3>1. PICK got \in Asked(connection) :
            call' = [call EXCEPT ![c] = [pc |-> "opening", on |-> connection,
                                         left |-> Queues, got |-> got]]
      BY <1>5, <2>2 DEF OpenChannel
    <3>2. connection \in Conns /\ conn[connection] # "new" /\ Queues \in 1..Queues
      BY <1>0, <2>2 DEF FieldHeard, Queues
    <3>3. QED  BY <1>5, <1>a, <3>1, <3>2, Asks DEF OpenChannel, fields
  <2>3. QED  BY <2>1, <2>2
<1>6. ASSUME NEW c \in Callers, ChannelOpens(c) PROVE Consistent'
  <2> DEFINE k == call[c].on
  <2>1. /\ call[c].pc = "opening" /\ channel' = k
        /\ UNCHANGED <<connection, recent, conn, outcome, troubles>>
    BY <1>6 DEF ChannelOpens, Awaits
  <2>2. k \in Conns /\ k # None /\ conn[k] # "new"
    BY <1>0, <2>1, ConstantsAssumption DEF CallConsistent, CallHeard
  <2>3. PICK got \in Asked(k) :
          call' = [call EXCEPT ![c] = [pc |-> "asserting", on |-> k, left |-> Queues,
                                       got |-> got]]
    BY <1>0, <1>6 DEF ChannelOpens
  <2>4. Queues \in 1..Queues
    BY DEF Queues
  <2>5. troubles = 0 => Alive(k, conn)
    BY <1>a DEF CalmCall
  <2> HIDE DEF k
  <2>6. QED  BY <2>1, <2>2, <2>3, <2>4, <2>5, Asks
<1>7. ASSUME NEW c \in Callers, ChannelFails(c) PROVE Consistent'
  <2>1. troubles # 0
    BY <1>7, <1>a DEF ChannelFails, Awaits, CalmCall
  <2>2. QED  BY <1>7, <2>1, GivesUp DEF ChannelFails, fields
<1>8. ASSUME NEW c \in Callers, QueueAsserted(c) PROVE Consistent'
  <2>1. /\ call[c].pc = "asserting" /\ call[c].left \in 1..Queues
        /\ UNCHANGED <<connection, channel, outcome, troubles>>
    BY <1>0, <1>8 DEF QueueAsserted, Awaits, CallConsistent
  <2>2. troubles = 0 => channel # None
    BY <1>a, <2>1 DEF CalmCall
  <2>3. CASE call[c].left = 1
    <3> DEFINE new == [IdleCall EXCEPT !.pc = "returning"]
    <3>1. recent' = TRUE /\ conn' = conn /\ call' = [call EXCEPT ![c] = new]
      BY <1>8, <2>3 DEF QueueAsserted, Enter
    <3>2. /\ new \in CallStates /\ CallConsistent(new) /\ CallHeard(new, conn')
          /\ channel # None => CalmCall(new, connection, channel, conn)
      BY HoldsNothing
    <3> HIDE DEF new
    <3>3. QED  BY <1>0, <1>a, <2>1, <2>2, <3>1, <3>2, OneCallMoves
  <2>4. CASE call[c].left # 1 /\ channel = None
    BY <1>8, <2>1, <2>2, <2>4, GivesUp DEF QueueAsserted
  <2>5. CASE call[c].left # 1 /\ channel # None
    <3>1. PICK got \in Asked(channel) :
            call' = [call EXCEPT ![c] = [pc |-> "asserting", on |-> channel,
                                         left |-> @.left - 1, got |-> got]]
      BY <1>8, <2>5 DEF QueueAsserted
    <3>2. /\ channel \in Conns /\ conn[channel] # "new"
          /\ call[c].left - 1 \in 1..Queues
      BY <1>0, <2>1, <2>5 DEF FieldHeard, Queues
    <3>3. call' = [call EXCEPT ![c] = [pc |-> "asserting", on |-> channel,
                                       left |-> call[c].left - 1, got |-> got]]
      BY <3>1
    <3>4. UNCHANGED <<recent, conn>>
      BY <1>8, <2>5 DEF QueueAsserted
    <3>5. QED  BY <1>a, <2>1, <2>5, <3>2, <3>3, <3>4, Asks
  <2>6. QED  BY <2>3, <2>4, <2>5
<1>9. ASSUME NEW c \in Callers, GivenUp(c) PROVE Consistent'
  <2>1. troubles # 0 /\ UNCHANGED <<fields, conn, troubles>>
    BY <1>9, <1>a DEF GivenUp, Awaits, CalmCall
  <2>2. CASE Enter(c, "returning") /\ outcome' = outcome
    BY <1>0, <2>1, <2>2, Enters DEF fields
  <2>3. CASE call' = [call EXCEPT ![c] = IdleCall] /\ outcome' = [outcome EXCEPT ![c] = "failed"]
    <3>1. Enter(c, "idle")
      BY <2>3, IdleFacts DEF Enter, CallStates
    <3>2. outcome' \in [Callers -> Outcomes]
      BY <1>0, <2>3 DEF Outcomes
    <3>3. QED  BY <1>0, <2>1, <3>1, <3>2, Enters DEF fields
  <2>4. QED  BY <1>9, <2>2, <2>3 DEF GivenUp
<1>10. ASSUME NEW c \in Callers, SendGoesOn(c) PROVE Consistent'
  BY <1>10, <1>a, Sends DEF SendGoesOn, CalmCall, fields
<1>11. ASSUME NEW c \in Callers, ConnectReply(c) PROVE Consistent'
  <2>1. PICK k \in Free :
          /\ conn' = [conn EXCEPT ![k] = "new"]
          /\ call' = [call EXCEPT ![c].on = k, ![c].got = "ok"]
    <3>1. (CHOOSE k \in Free : TRUE) \in Free
      BY <1>11 DEF ConnectReply
    <3>2. QED  BY <1>11, <3>1 DEF ConnectReply
  <2>2. call[c].pc = "connecting" /\ UNCHANGED <<connection, channel, recent, outcome, troubles>>
    BY <1>11 DEF ConnectReply, Awaits, fields
  <2>3. k \in Conns /\ k \notin {connection, channel} /\ \A d \in Callers : call[d].on # k
    BY FreeFacts
  <2>4. /\ call' \in [Callers -> CallStates]
        /\ call'[c].pc = "connecting" /\ call'[c].on = k /\ call'[c].got = "ok"
        /\ \A d \in Callers : d # c => call'[d] = call[d]
    BY <1>0, <2>1, <2>2, <2>3 DEF CallStates
  <2>5. conn' \in [Conns -> ConnStates] /\ conn'[k] = "new"
        /\ \A l \in Conns : l # k => conn'[l] = conn[l]
    BY <1>0, <2>1, <2>3 DEF ConnStates
  <2>6. FieldHeard(connection', conn') /\ FieldHeard(channel', conn')
    BY <1>0, <2>2, <2>3, <2>5 DEF FieldHeard
  <2>7. ASSUME NEW d \in Callers PROVE CallConsistent(call'[d]) /\ CallHeard(call'[d], conn')
    <3>1. CASE d = c
      BY <2>3, <2>4, <3>1 DEF CallConsistent, CallHeard
    <3>2. CASE d # c
      BY <1>0, <2>3, <2>4, <2>5, <3>2 DEF CallHeard, CallStates
    <3>3. QED  BY <3>1, <3>2
  <2>8. ASSUME troubles = 0 PROVE Calm'
    <3>1. ASSUME NEW d \in Callers
          PROVE  CalmCall(call'[d], connection', channel', conn')
      <4>1. CASE d = c
        BY <2>4, <2>5, <4>1 DEF CalmCall, Alive
      <4>2. CASE d # c
        BY <1>0, <1>a, <2>2, <2>3, <2>4, <2>5, <2>8, <4>2 DEF CalmCall, Alive, CallStates
      <4>3. QED  BY <4>1, <4>2
    <3>2. Alive(connection', conn') /\ Alive(channel', conn')
      BY <1>0, <1>a, <2>2, <2>3, <2>5, <2>8 DEF Alive
    <3>3. QED  BY <1>a, <2>2, <2>5, <2>8, <3>1, <3>2 DEF Calm
  <2>9. TypeOK'
    BY <1>0, <2>2, <2>4, <2>5 DEF TypeOK, ConnStates, CallStates, Outcomes
  <2>10. QED  BY <2>2, <2>6, <2>7, <2>8, <2>9 DEF Consistent
<1>12. ASSUME NEW c \in Callers, ConnectFails(c) \/ ChannelReply(c) PROVE Consistent'
  <2>1. PICK got \in {"ok", "error"} :
          /\ call' = [call EXCEPT ![c].got = got]
          /\ UNCHANGED <<connection, channel, recent, conn, outcome>>
          /\ got = "ok" => troubles' = troubles /\ call[c].pc \in {"opening", "asserting"}
          /\ got = "error" => troubles' \in 0..MaxTroubles /\ troubles' # 0
    <3>1. CASE ConnectFails(c)
      BY <3>1, TroubleCounts DEF ConnectFails, Settle, fields
    <3>2. CASE ChannelReply(c)
      BY <3>2 DEF ChannelReply, Settle, Awaits, fields
    <3>3. QED  BY <1>12, <3>1, <3>2
  <2> DEFINE new == [call[c] EXCEPT !.got = got]
  <2>2. /\ new \in CallStates /\ call' = [call EXCEPT ![c] = new]
        /\ new.pc = call[c].pc /\ new.on = call[c].on /\ new.left = call[c].left /\ new.got = got
    BY <1>0, <2>1 DEF CallStates
  <2> HIDE DEF new
  <2>3. CallConsistent(new) /\ CallHeard(new, conn)
    BY <1>0, <2>1, <2>2 DEF CallConsistent, CallHeard
  <2>4. troubles' = 0 => troubles = 0 /\ CalmCall(new, connection, channel, conn)
    BY <1>a, <2>1, <2>2 DEF CalmCall
  <2>5. QED  BY <1>0, <1>a, <2>1, <2>2, <2>3, <2>4, OneCallWaits
<1>13. ASSUME NEW k \in Conns, CloseEnds(k) PROVE Consistent'
  <2>1. troubles' = troubles /\ troubles # 0 /\ Closed(k, Closers(k))
    BY <1>13, <1>a DEF CloseEnds
  <2>2. Closers(k) \in SUBSET Callers /\ \A c \in Closers(k) : call[c].pc = "closing"
    BY DEF Closers, Awaits
  <2>3. QED  BY <1>0, <2>1, <2>2, Closes
<1>14. ASSUME NEW k \in Conns, ConnectionLost(k) PROVE Consistent'
  <2>1. Closed(k, {}) /\ troubles' \in 0..MaxTroubles /\ troubles' # 0
    BY <1>14, TroubleCounts DEF ConnectionLost
  <2>2. {} \in SUBSET Callers
    OBVIOUS
  <2>3. QED  BY <2>1, <2>2, Closes
<1>15. ASSUME NEW k \in Conns, LostUnheard(k) PROVE Consistent'
  <2>1. /\ conn' = [conn EXCEPT ![k] = "closed"]
        /\ UNCHANGED <<connection, channel, recent, call, outcome>>
        /\ troubles' \in 0..MaxTroubles /\ troubles' # 0
    BY <1>15, TroubleCounts DEF LostUnheard, fields
  <2>2. /\ conn' \in [Conns -> ConnStates]
        /\ \A l \in Conns : conn'[l] = "new" => conn[l] = "new"
    BY <1>0, <2>1 DEF ConnStates
  <2>3. \A c \in Callers : CallConsistent(call'[c]) /\ CallHeard(call'[c], conn')
    BY <1>0, <2>1, <2>2 DEF CallHeard, CallStates
  <2>4. FieldHeard(connection', conn') /\ FieldHeard(channel', conn')
    BY <1>0, <2>1, <2>2 DEF FieldHeard
  <2>5. TypeOK'
    BY <1>0, <2>1, <2>2 DEF TypeOK, ConnStates, CallStates, Outcomes
  <2>6. QED  BY <2>1, <2>3, <2>4, <2>5 DEF Consistent
<1>16. ASSUME NEW k \in Conns, Dies(k) PROVE Consistent'
  <2>1. /\ connection' = None /\ channel' = None /\ recent' = FALSE
        /\ conn' = [l \in Conns |-> "closed"]
        /\ call' = [c \in Callers |-> IdleCall]
        /\ outcome' = [c \in Callers |-> "none"]
        /\ troubles' \in 0..MaxTroubles /\ troubles' # 0
    BY <1>16, TroubleCounts DEF Dies
  <2>2. TypeOK'
    BY <2>1, IdleFacts DEF TypeOK, CallStates
  <2>3. \A c \in Callers : CallConsistent(call'[c]) /\ CallHeard(call'[c], conn')
    BY <2>1, IdleFacts DEF CallConsistent, CallHeard
  <2>4. QED  BY <2>1, <2>2, <2>3 DEF Consistent, FieldHeard
<1>17. CASE FiveSecondsPass
  <2>1. /\ recent' = FALSE
        /\ UNCHANGED <<connection, channel, conn, call, outcome, troubles>>
    BY <1>17 DEF FiveSecondsPass
  <2>2. TypeOK'
    BY <1>0, <2>1 DEF TypeOK, ConnStates, CallStates, Outcomes
  <2>3. troubles = 0 => Calm'
    BY <1>a, <2>1 DEF Calm
  <2>4. QED  BY <1>0, <2>1, <2>2, <2>3 DEF Consistent
<1>18. CASE UNCHANGED vars
  BY <1>18 DEF vars, Consistent, TypeOK, Calm
<1>19. QED
  BY <1>1, <1>2, <1>3, <1>4, <1>5, <1>6, <1>7, <1>8, <1>9, <1>10, <1>11, <1>12, <1>13, <1>14,
     <1>15, <1>16, <1>17, <1>18 DEF Next, Resume

-----------------------------------------------------------------------------
(* The inductive invariant of the shared fields holds always.                *)
THEOREM AlwaysConsistent == Spec => []Consistent
<1>1. QED  BY InitConsistent, NextConsistent, PTL DEF Spec

(* TypeOK holds always.                                                      *)
THEOREM TypeCorrect == Spec => []TypeOK
<1>1. Consistent => TypeOK
  BY DEF Consistent
<1>2. QED  BY <1>1, AlwaysConsistent, PTL

(* No message fails before the first trouble, however many sends overlap.    *)
THEOREM FailsOnlyAfterTrouble == Spec => []FailsOnlyInTrouble
<1>1. Consistent => FailsOnlyInTrouble
  BY DEF Consistent, Calm, FailsOnlyInTrouble
<1>2. QED  BY <1>1, AlwaysConsistent, PTL

-----------------------------------------------------------------------------
(* A step that keeps the channel and closes no connection that was open      *)
(* leaves a dead channel only where there was one.                           *)
LEMMA KeepsChannel ==
  ASSUME Consistent, channel' = channel,
         channel # None /\ conn'[channel] = "closed" => conn[channel] = "closed"
  PROVE  DeadField' => DeadField /\ channel' = channel
BY DEF DeadField

LEMMA NextUnstored ==
  ASSUME Consistent, [Next]_vars
  PROVE  DeadField' => (DeadField /\ channel' = channel) \/ StoresDead
<1>0. /\ conn \in [Conns -> ConnStates] /\ FieldHeard(channel, conn) /\ FieldHeard(connection, conn)
      /\ connection \in Conns \cup {None} /\ channel \in Conns \cup {None}
      /\ \A c \in Callers : CallConsistent(call[c])
  BY DEF Consistent, TypeOK, ConnStates
<1>1. ASSUME NEW c \in Callers,
             \/ SendAtOnce(c) \/ SendConnects(c) \/ NotConnected(c) \/ OpenChannel(c)
             \/ GivenUp(c) \/ SendGoesOn(c) \/ ConnectFails(c) \/ ChannelReply(c)
      PROVE  DeadField' => DeadField /\ channel' = channel
  <2>1. UNCHANGED <<channel, conn>>
    BY <1>1 DEF SendAtOnce, SendConnects, NotConnected, OpenChannel, GivenUp, SendGoesOn,
                ConnectFails, ChannelReply, fields
  <2>2. QED  BY <2>1, KeepsChannel
<1>2. ASSUME NEW c \in Callers, Connected(c) PROVE DeadField' => DeadField /\ channel' = channel
  <2>1. /\ channel' = channel /\ call[c].on \in Conns
        /\ conn' = [conn EXCEPT ![call[c].on] = IF @ = "new" THEN "open" ELSE @]
    BY <1>0, <1>2 DEF Connected, Awaits, CallConsistent
  <2>2. \A k \in Conns : conn'[k] = "closed" => conn[k] = "closed"
    BY <1>0, <2>1 DEF ConnStates
  <2>3. QED  BY <1>0, <2>1, <2>2, KeepsChannel
<1>3. ASSUME NEW c \in Callers, ChannelOpens(c) PROVE DeadField' => StoresDead
  BY <1>3 DEF ChannelOpens, DeadField, StoresDead
<1>4. ASSUME NEW c \in Callers, QueueAsserted(c) \/ ChannelFails(c)
      PROVE  DeadField' => DeadField /\ channel' = channel
  <2>1. channel' = channel /\ (conn' = conn \/ GiveUp(c))
    BY <1>4 DEF QueueAsserted, ChannelFails, fields
  <2>2. \A k \in Conns : conn'[k] = "closed" => conn[k] = "closed"
    BY <1>0, <2>1 DEF GiveUp, ConnStates
  <2>3. QED  BY <1>0, <2>1, <2>2, KeepsChannel
<1>5. ASSUME NEW c \in Callers, ConnectReply(c) PROVE DeadField' => DeadField /\ channel' = channel
  <2>1. PICK k \in Free : conn' = [conn EXCEPT ![k] = "new"]
    <3>1. (CHOOSE k \in Free : TRUE) \in Free
      BY <1>5 DEF ConnectReply
    <3>2. QED  BY <1>5, <3>1 DEF ConnectReply
  <2>2. channel' = channel
    BY <1>5 DEF ConnectReply, fields
  <2>3. channel \in Conns => conn'[channel] = conn[channel]
    BY <1>0, <2>1, FreeFacts
  <2>4. QED  BY <1>0, <2>2, <2>3, KeepsChannel
<1>6. ASSUME NEW k \in Conns, CloseEnds(k) \/ ConnectionLost(k) \/ Dies(k) PROVE ~DeadField'
  BY <1>6 DEF CloseEnds, ConnectionLost, Dies, Closed, DeadField
<1>7. ASSUME NEW k \in Conns, LostUnheard(k) PROVE DeadField' => DeadField /\ channel' = channel
  <2>1. channel' = channel /\ conn[k] = "new" /\ conn' = [conn EXCEPT ![k] = "closed"]
    BY <1>7 DEF LostUnheard, fields
  <2>2. channel \in Conns => conn'[channel] = conn[channel]
    BY <1>0, <2>1, ConstantsAssumption DEF FieldHeard
  <2>3. QED  BY <1>0, <2>1, <2>2, KeepsChannel
<1>8. CASE FiveSecondsPass \/ UNCHANGED vars
  BY <1>8, KeepsChannel DEF FiveSecondsPass, vars
<1>9. QED
  BY <1>1, <1>2, <1>3, <1>4, <1>5, <1>6, <1>7, <1>8 DEF Next, Resume

(* A channel in use is dead only if it was dead when it was stored, for any  *)
(* number of connects, closes and losses that overlap.                       *)
THEOREM ChannelAlwaysDiesUnstored == Spec => ChannelDiesUnstored
<1>1. Consistent /\ [Next]_vars
        => [DeadField' => (DeadField /\ channel' = channel) \/ StoresDead]_vars
  BY NextUnstored
<1>2. QED  BY <1>1, AlwaysConsistent, PTL DEF Spec, ChannelDiesUnstored

-----------------------------------------------------------------------------
(* While the channel is dead a step only takes a failing send, moves the     *)
(* clock, or is more trouble.                                                *)
LEMMA NextDead ==
  ASSUME Consistent, [Next]_vars, Dead
  PROVE  \/ Dead' /\ \A c \in Callers : outcome'[c] \in {outcome[c], "failed"}
         \/ troubles' > troubles
<1> DEFINE Still == Dead' /\ \A c \in Callers : outcome'[c] \in {outcome[c], "failed"}
<1> HIDE DEF Still
<1>1. /\ channel # None /\ conn[channel] = "closed" /\ ~Usable(channel)
      /\ \A c \in Callers : call[c].pc = "idle" \/ Stuck(c)
      /\ \A k \in Conns : conn[k] # "closing"
  BY DEF Dead, DeadField, Usable
<1>2. \A c \in Callers : \/ call[c].pc = "idle"
                         \/ call[c].pc = "closing" /\ call[c].got = "nothing"
  BY <1>1 DEF Stuck, Awaits
<1>3. ASSUME NEW c \in Callers, SendAtOnce(c) PROVE Still
  <2>1. Publish(c) /\ UNCHANGED <<channel, conn>>
    BY <1>3 DEF SendAtOnce, fields
  <2>2. \A d \in Callers : call'[d].pc = "idle" \/ Stuck(d)'
    BY <1>1, <2>1, IdleFacts DEF Publish, Consistent, TypeOK, Stuck, Awaits
  <2>3. \A d \in Callers : outcome'[d] \in {outcome[d], "failed"}
    BY <1>1, <2>1 DEF Publish, Consistent, TypeOK
  <2>4. QED  BY <1>1, <2>1, <2>2, <2>3 DEF Still, Dead, DeadField
<1>4. ASSUME NEW k \in Conns, ConnectionLost(k) \/ LostUnheard(k) \/ Dies(k)
      PROVE  troubles' > troubles
  BY <1>4, TroubleCounts DEF ConnectionLost, LostUnheard, Dies
<1>5. CASE FiveSecondsPass \/ UNCHANGED vars
  BY <1>5 DEF FiveSecondsPass, vars, Still, Dead, DeadField, Stuck, Awaits
<1>6. ASSUME NEW c \in Callers,
             SendConnects(c) \/ Resume(c) \/ ConnectReply(c) \/ ConnectFails(c) \/ ChannelReply(c)
      PROVE  FALSE
  BY <1>1, <1>2, <1>6
     DEF SendConnects, Resume, Connected, NotConnected, OpenChannel, ChannelOpens, ChannelFails,
         QueueAsserted, GivenUp, SendGoesOn, ConnectReply, ConnectFails, ChannelReply, Awaits
<1>7. ASSUME NEW k \in Conns, CloseEnds(k) PROVE FALSE
  BY <1>1, <1>7 DEF CloseEnds
<1>8. QED  BY <1>3, <1>4, <1>5, <1>6, <1>7 DEF Next, Still

(* A channel that was stored dead, while nothing else was under way, stays   *)
(* in use, and every send on it fails, until another connection is lost.     *)
THEOREM DeadAlwaysStaysDead == Spec => DeadStaysDead
<1>1. Consistent /\ [Next]_vars
        => [Dead => \/ Dead' /\ \A c \in Callers : outcome'[c] \in {outcome[c], "failed"}
                    \/ troubles' > troubles]_vars
  BY NextDead
<1>2. QED  BY <1>1, AlwaysConsistent, PTL DEF Spec, DeadStaysDead

=============================================================================
