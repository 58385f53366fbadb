------------------------- MODULE SoxExchange_proofs -------------------------
(***************************************************************************)
(* Proofs about SoxExchange, for any number of threads, batches, sessions  *)
(* and messages, whether or not receivers of closed sessions linger.       *)
(***************************************************************************)
EXTENDS SoxExchange, TLAPS

(* All threads call through the same SoxClient, as its comments assume.    *)
SharedClient == \A t, u \in Threads : ClientOf[t] = ClientOf[u]

\* The shapes of the variables of the threads.
ThreadTypes ==
  /\ user \in [Clients -> Threads \cup {Null}]
  /\ pc \in [Threads -> {"idle", "enters", "sends", "waits"}]
  /\ batch \in [Threads -> Nat]
  /\ batches \in Nat

\* A thread inside request is the one in the synchronized methods of its SoxClient.
ActiveIsUser == \A t \in Threads : pc[t] # "idle" => user[ClientOf[t]] = t

\* The batch of a thread stays in the exchange from "synchronized" to the return,
\* also while wait gives up the monitor.
BatchHeld == \A t \in Threads : pc[t] \in {"sends", "waits"} => requests = batch[t]

OneInv == ThreadTypes /\ ActiveIsUser /\ BatchHeld

\* Two threads that share a client are never inside request at once: what the
\* monitor of the exchange does not give, the one of SoxClient does.
LEMMA OneActive ==
  ASSUME SharedClient, ActiveIsUser,
         NEW t \in Threads, NEW u \in Threads, pc[t] # "idle", pc[u] # "idle"
  PROVE  t = u
BY DEF SharedClient, ActiveIsUser

\* Nobody is inside request, and no batch is in the exchange, when it is created.
LEMMA InitOne == Init => OneInv
BY DEF Init, OneInv, ThreadTypes, ActiveIsUser, BatchHeld

\* A step that leaves the threads and the exchange's batch alone keeps OneInv: the
\* network, the sessions and the receivers.
LEMMA OthersKeepOne ==
  ASSUME OneInv, UNCHANGED <<user, pc, batch, requests, batches>>
  PROVE  OneInv'
BY DEF OneInv, ThreadTypes, ActiveIsUser, BatchHeld

\* A thread that calls finds the client free, hence no other thread inside.
LEMMA CallKeepsOne ==
  ASSUME OneInv, SharedClient, NEW t \in Threads, Call(t)
  PROVE  OneInv'
<1>1. ClientOf[t] \in Clients /\ Null \notin Threads
  BY SoxExchangeAssumption
<1>2. \A u \in Threads : pc[u] = "idle"
  BY <1>1 DEF Call, ClientFree, OneInv, ActiveIsUser, SharedClient
<1>3. ThreadTypes'
  BY <1>1 DEF Call, Go, OneInv, ThreadTypes
<1>4. ActiveIsUser'
  BY <1>1, <1>2 DEF Call, Go, OneInv, ThreadTypes, ActiveIsUser
<1>5. BatchHeld'
  BY <1>2 DEF Call, Go, OneInv, ThreadTypes, BatchHeld
<1> QED
  BY <1>3, <1>4, <1>5 DEF OneInv

\* A new batch replaces what is left of an earlier one, never a batch that a thread
\* still waits for.
LEMMA EnterKeepsOne ==
  ASSUME OneInv, SharedClient, NEW t \in Threads, Enter(t)
  PROVE  OneInv'
<1>1. \A u \in Threads : u # t => pc[u] = "idle"
  BY OneActive DEF Enter, OneInv
<1>2. ThreadTypes' /\ ActiveIsUser'
  BY DEF Enter, Go, OneInv, ThreadTypes, ActiveIsUser, bounds
<1>3. BatchHeld'
  BY <1>1 DEF Enter, Go, OneInv, ThreadTypes, BatchHeld
<1> QED
  BY <1>2, <1>3 DEF OneInv

LEMMA WaitKeepsOne ==
  ASSUME OneInv, NEW t \in Threads, Wait(t)
  PROVE  OneInv'
BY DEF Wait, Go, OneInv, ThreadTypes, ActiveIsUser, BatchHeld, bounds

\* A thread that leaves, with its responses or with an exception, takes away no batch
\* but its own.
LEMMA LeaveKeepsOne ==
  ASSUME OneInv, SharedClient, NEW t \in Threads, pc[t] # "idle", Leave(t),
         UNCHANGED <<batch, batches>>
  PROVE  OneInv'
<1>1. ClientOf[t] \in Clients
  BY SoxExchangeAssumption
<1>2. \A u \in Threads : u # t => pc[u] = "idle"
  BY OneActive DEF OneInv
<1>3. \A u \in Threads : pc'[u] = "idle"
  BY <1>2 DEF Leave, Go, OneInv, ThreadTypes
<1>4. ThreadTypes'
  BY <1>1 DEF Leave, Go, OneInv, ThreadTypes
<1> QED
  BY <1>3, <1>4 DEF OneInv, ActiveIsUser, BatchHeld

\* Each step keeps OneInv.
LEMMA NextKeepsOne == SharedClient /\ OneInv /\ [Next]_vars => OneInv'
<1> SUFFICES ASSUME SharedClient, OneInv, [Next]_vars
             PROVE  OneInv'
  OBVIOUS
<1>1. ASSUME NEW t \in Threads, Call(t) PROVE OneInv'
  BY <1>1, CallKeepsOne
<1>2. ASSUME NEW t \in Threads, Enter(t) PROVE OneInv'
  BY <1>2, EnterKeepsOne
<1>3. ASSUME NEW t \in Threads, Send(t) PROVE OneInv'
  BY <1>3, OthersKeepOne DEF Send, bounds
<1>4. ASSUME NEW t \in Threads, Wait(t) PROVE OneInv'
  BY <1>4, WaitKeepsOne
<1>5. ASSUME NEW t \in Threads, Return(t) \/ Throw(t) PROVE OneInv'
  <2>1. pc[t] # "idle" /\ Leave(t) /\ UNCHANGED <<batch, batches>>
    BY <1>5 DEF Return, Throw, bounds
  <2> QED
    BY <2>1, LeaveKeepsOne
<1>6. CASE Serve \/ SendEvent \/ Arrive \/ Closed \/ Connect
  <2>1. UNCHANGED <<threads, batches>>
    BY <1>6 DEF Serve, SendEvent, Arrive, Closed, Connect, bounds
  <2> QED
    BY <2>1, OthersKeepOne DEF threads
<1>7. ASSUME NEW s \in Sessions, Poll(s) \/ Receive(s) PROVE OneInv'
  BY <1>7, OthersKeepOne DEF Poll, Receive, threads, bounds
<1>8. CASE UNCHANGED vars
  BY <1>8, OthersKeepOne DEF vars
<1> QED
  BY <1>1, <1>2, <1>3, <1>4, <1>5, <1>6, <1>7, <1>8 DEF Next

\* "This entire method will block all but one caller" holds of a client whose threads
\* share one SoxClient: the batch in the exchange is the one its thread waits for.
THEOREM OneCallerAtATime == SharedClient /\ Spec => []OneBatchOutstanding
<1>1. OneInv => OneBatchOutstanding
  BY DEF OneInv, BatchHeld, OneBatchOutstanding
<1>2. SharedClient => (Spec => []OneInv)
  <2> SUFFICES ASSUME SharedClient
               PROVE  Spec => []OneInv
    OBVIOUS
  <2>1. OneInv /\ [Next]_vars => OneInv'
    BY NextKeepsOne
  <2> QED
    BY <2>1, InitOne, PTL DEF Spec
<1> QED
  BY <1>1, <1>2, PTL
-----------------------------------------------------------------------------
\* What each variable of the exchange and of the session holds.
NetTypes ==
  /\ sent \in [Threads -> 0..BatchSize]
  /\ \A t \in Threads : pc[t] # "idle" => batch[t] \in Batches
  /\ requests \in Batches \cup {Null}
  /\ responses \in [Indexes -> Msgs \cup {Null}]
  /\ session \in 0..MaxSessions /\ opened \in Sessions
  /\ unacked \subseteq Msgs
  /\ replies \subseteq Msgs \cup {Event}
  /\ queue \in Seq(Msgs \cup {Event})
  /\ receiver \in [Sessions -> {"none", "polls", "holds", "dead"}]
  /\ held \in [Sessions -> Msgs \cup {Null}]
  /\ \A s \in Sessions : held[s] # Null <=> receiver[s] = "holds"

Queued == {queue[i] : i \in 1..Len(queue)}
Held == {held[s] : s \in Sessions}

\* The requests sent and not yet answered, wherever their message is.
OnTheWay == Msgs \cap (unacked \cup replies \cup Queued \cup Held)

\* A message is in one place: Dasp delivers each once, the queue and the receiver
\* hand it on.
OnePlace ==
  /\ unacked \cap replies = {} /\ unacked \cap Queued = {}
  /\ replies \cap Queued \subseteq {Event}
  /\ Held \cap (unacked \cup replies \cup Queued) = {}
  /\ \A i, j \in 1..Len(queue) : queue[i] = queue[j] => i = j \/ queue[i] = Event
  /\ \A r, s \in Sessions : held[r] = held[s] => r = s \/ held[r] = Null

\* close leaves nothing of the session.
NothingLeft == session = 0 => unacked = {} /\ replies = {} /\ queue = << >>

\* What is on its way belongs to the batch in the exchange, which lacks its response.
StillLacking ==
  \A m \in OnTheWay : requests = m.batch /\ responses[m.index] = Null

\* What a thread has not sent has no response, and none is on its way.
AfterTheRequest ==
  \A t \in Threads : pc[t] \in {"sends", "waits"} =>
    /\ \A m \in OnTheWay : m.index <= sent[t]
    /\ \A i \in Indexes : i > sent[t] => responses[i] = Null

\* Before a batch replaces the last one, all of that one came back or went with its
\* session.
Sending == \E t \in Threads : pc[t] \in {"sends", "waits"}
Quiet ==
  /\ session # 0 /\ ~Sending => OnTheWay = {}
  /\ (\E t \in Threads : pc[t] = "enters") => OnTheWay = {}

MatchInv ==
  /\ OneInv /\ NetTypes
  /\ OnePlace /\ NothingLeft
  /\ StillLacking /\ AfterTheRequest /\ Quiet
  /\ ResponsesMatch

USE DEF NoResponses

\* An event is no response, and Null no message.
LEMMA EventApart == Event \notin Msgs /\ Null \notin Msgs \cup {Event} /\ Null \notin Batches
<1>1. MaxBatches \in Nat /\ BatchSize \in Nat \ {0} /\ Null \notin Nat
      /\ Null \notin [batch : Nat, index : Nat]
  BY SoxExchangeAssumption
<1>2. Event \in [batch : Nat, index : Nat] /\ Msgs \subseteq [batch : Nat, index : Nat]
  BY <1>1 DEF Event, Msgs, Batches, Indexes
<1>3. \A m \in Msgs : m.batch # 0
  BY <1>1 DEF Msgs, Batches
<1>4. Event \notin Msgs
  BY <1>3 DEF Event
<1> QED
  BY <1>1, <1>2, <1>4 DEF Batches

\* The exchange starts with no message anywhere.
LEMMA InitMatch == Init => MatchInv
<1> SUFFICES ASSUME Init PROVE MatchInv
  OBVIOUS
<1>1. OneInv
  BY InitOne
<1>2. Held \subseteq {Null} /\ Queued = {} /\ unacked = {} /\ replies = {}
  BY DEF Init, Held, Queued
<1>3. NetTypes
  <2>1. MaxSessions \in Nat \ {0} /\ BatchSize \in Nat
    BY SoxExchangeAssumption
  <2>2. \A s \in Sessions : held[s] # Null <=> receiver[s] = "holds"
    BY DEF Init
  <2> QED
    BY <2>1, <2>2 DEF Init, NetTypes, Sessions
<1>4. OnTheWay = {}
  BY <1>2, EventApart DEF OnTheWay
<1>5. OnePlace
  BY <1>2 DEF OnePlace, Init
<1>6. NothingLeft /\ StillLacking /\ AfterTheRequest /\ Quiet /\ ResponsesMatch
  BY <1>4, SoxExchangeAssumption
     DEF Init, NothingLeft, StillLacking, AfterTheRequest, Quiet, ResponsesMatch, Sessions
<1> QED
  BY <1>1, <1>3, <1>5, <1>6 DEF MatchInv

\* A step that only moves or drops messages keeps the rest: nothing new is on its way,
\* and no session opens while something is.
LEMMA MovesKeepMatch ==
  ASSUME MatchInv, UNCHANGED <<pc, batch, sent, requests, responses>>,
         OneInv', NetTypes', OnePlace', NothingLeft',
         OnTheWay' \subseteq OnTheWay,
         session = 0 /\ session' # 0 => OnTheWay' = {}
  PROVE  MatchInv'
<1>1. StillLacking' /\ AfterTheRequest'
  BY DEF MatchInv, StillLacking, AfterTheRequest
<1>2. Quiet'
  <2>1. Sending' = Sending
    BY DEF Sending
  <2> QED
    BY <2>1 DEF MatchInv, Quiet
<1>3. ResponsesMatch'
  BY DEF MatchInv, ResponsesMatch
<1> QED
  BY <1>1, <1>2, <1>3 DEF MatchInv

\* The server answers a request: its message leaves the window and is a reply.
LEMMA ServeKeepsMatch == ASSUME MatchInv, Serve, OneInv' PROVE MatchInv'
<1>1. PICK m \in unacked : unacked' = unacked \ {m} /\ replies' = replies \cup {m}
  BY DEF Serve
<1>2. UNCHANGED <<queue, held, session, opened, receiver, pc, batch, sent, requests, responses>>
      /\ session # 0
  BY DEF Serve, threads
<1>3. Queued' = Queued /\ Held' = Held
  BY <1>2 DEF Queued, Held
<1>4. m \in Msgs
  BY <1>1 DEF MatchInv, NetTypes
<1>5. NetTypes'
  BY <1>1, <1>2, <1>4 DEF MatchInv, NetTypes
<1>6. OnePlace'
  BY <1>1, <1>2, <1>3 DEF MatchInv, OnePlace
<1>7. NothingLeft' /\ OnTheWay' \subseteq OnTheWay
  BY <1>1, <1>2, <1>3 DEF NothingLeft, OnTheWay
<1> QED
  BY <1>2, <1>5, <1>6, <1>7, MovesKeepMatch

\* An event is on its way beside the responses.
LEMMA SendEventKeepsMatch == ASSUME MatchInv, SendEvent, OneInv' PROVE MatchInv'
<1>1. replies' = replies \cup {Event}
  BY DEF SendEvent
<1>2. UNCHANGED <<unacked, queue, held, session, opened, receiver, pc, batch, sent, requests, responses>>
      /\ session # 0
  BY DEF SendEvent, threads
<1>3. Queued' = Queued /\ Held' = Held
  BY <1>2 DEF Queued, Held
<1>4. Event \notin Msgs /\ Event \notin unacked /\ Event \notin Held
  BY EventApart DEF MatchInv, NetTypes, Held
<1>5. NetTypes'
  BY <1>1, <1>2 DEF MatchInv, NetTypes
<1>6. OnePlace'
  BY <1>1, <1>2, <1>3, <1>4 DEF MatchInv, OnePlace
<1>7. NothingLeft' /\ OnTheWay' \subseteq OnTheWay
  BY <1>1, <1>2, <1>3, <1>4 DEF NothingLeft, OnTheWay
<1> QED
  BY <1>2, <1>5, <1>6, <1>7, MovesKeepMatch

\* close drops what the session has on its way; only what a receiver holds stays.
LEMMA CloseKeepsMatch ==
  ASSUME MatchInv, Close, OneInv',
         UNCHANGED <<held, receiver, pc, batch, sent, requests, responses>>
  PROVE  MatchInv'
<1>1. session' = 0 /\ opened' = opened /\ unacked' = {} /\ replies' = {} /\ queue' = << >>
  BY DEF Close
<1>2. Queued' = {} /\ Held' = Held
  BY <1>1 DEF Queued, Held
<1>3. NetTypes'
  <2>1. 0 \in 0..MaxSessions
    BY SoxExchangeAssumption
  <2> QED
    BY <1>1, <2>1 DEF MatchInv, NetTypes
<1>4. OnePlace'
  BY <1>1, <1>2 DEF MatchInv, OnePlace
<1>5. NothingLeft' /\ OnTheWay' \subseteq OnTheWay
  BY <1>1, <1>2 DEF NothingLeft, OnTheWay
<1> QED
  BY <1>1, <1>3, <1>4, <1>5, MovesKeepMatch

\* A message that arrives leaves the network for the end of the queue.
LEMMA ArriveKeepsMatch == ASSUME MatchInv, Arrive, OneInv' PROVE MatchInv'
<1>1. UNCHANGED <<held, opened, receiver, pc, batch, sent, requests, responses>> /\ session # 0
  BY DEF Arrive, Close, threads
<1>2. CASE Close
  BY <1>1, <1>2, CloseKeepsMatch
<1>3. CASE ~Close
  <2>1. PICK m \in replies : /\ queue' = Append(queue, m) /\ replies' = replies \ {m}
                             /\ UNCHANGED <<session, unacked>>
    BY <1>3 DEF Arrive
  <2>2. m \in Msgs \cup {Event} /\ queue \in Seq(Msgs \cup {Event})
    BY DEF MatchInv, NetTypes
  <2>3. /\ queue' \in Seq(Msgs \cup {Event}) /\ Len(queue') = Len(queue) + 1
        /\ Len(queue) \in Nat
        /\ \A i \in 1..Len(queue) : queue'[i] = queue[i]
        /\ queue'[Len(queue) + 1] = m
    BY <2>1, <2>2
  <2>4. Queued' = Queued \cup {m}
    BY <2>3 DEF Queued
  <2>5. Held' = Held
    BY <1>1 DEF Held
  <2>6. NetTypes'
    BY <1>1, <2>1, <2>3 DEF MatchInv, NetTypes
  <2>7. OnePlace'
    <3>1. /\ m # Event => m \notin Queued
          /\ m \notin unacked /\ m \notin Held
      BY <2>1 DEF MatchInv, OnePlace
    <3>2. \A i, j \in 1..Len(queue') :
            queue'[i] = queue'[j] => i = j \/ queue'[i] = Event
      BY <2>3, <3>1 DEF MatchInv, OnePlace, Queued
    <3>3. (\A r, s \in Sessions : held[r] = held[s] => r = s \/ held[r] = Null)'
      BY <1>1 DEF MatchInv, OnePlace
    <3>4. /\ unacked' \cap replies' = {} /\ unacked' \cap Queued' = {}
          /\ replies' \cap Queued' \subseteq {Event}
          /\ Held' \cap (unacked' \cup replies' \cup Queued') = {}
      BY <2>1, <2>4, <2>5, <3>1 DEF MatchInv, OnePlace
    <3> QED
      BY <3>2, <3>3, <3>4 DEF OnePlace
  <2>8. NothingLeft' /\ OnTheWay' \subseteq OnTheWay
    BY <1>1, <2>1, <2>4, <2>5 DEF NothingLeft, OnTheWay
  <2> QED
    BY <1>1, <2>1, <2>6, <2>7, <2>8, MovesKeepMatch
<1> QED
  BY <1>2, <1>3

\* connect waits for the receivers of the sessions before, so nothing that one of
\* them holds reaches a batch of the new session.
LEMMA ConnectKeepsMatch ==
  ASSUME MatchInv, ~LateReceivers, Connect, OneInv'
  PROVE  MatchInv'
<1>1. /\ session = 0 /\ session' = opened + 1 /\ opened' = opened + 1 /\ opened < MaxSessions
      /\ \A s \in Sessions : receiver[s] \in {"none", "dead"}
      /\ receiver' = [receiver EXCEPT ![opened + 1] = "polls"]
      /\ UNCHANGED <<unacked, replies, queue, held, pc, batch, sent, requests, responses>>
  BY DEF Connect, Ended, threads
<1>2. \A s \in Sessions : held[s] = Null
  BY <1>1 DEF MatchInv, NetTypes
<1>3. unacked = {} /\ replies = {} /\ queue = << >>
  BY <1>1 DEF MatchInv, NothingLeft
<1>4. Queued' = {} /\ Held' \subseteq {Null}
  BY <1>1, <1>2, <1>3 DEF Queued, Held
<1>5. NetTypes'
  <2>1. session' \in 0..MaxSessions /\ opened' \in Sessions
    BY <1>1, SoxExchangeAssumption DEF MatchInv, NetTypes, Sessions
  <2>2. receiver' \in [Sessions -> {"none", "polls", "holds", "dead"}]
        /\ \A s \in Sessions : receiver'[s] # "holds"
    BY <1>1 DEF MatchInv, NetTypes
  <2> QED
    BY <1>1, <1>2, <2>1, <2>2 DEF MatchInv, NetTypes
<1>6. OnTheWay' = {}
  BY <1>1, <1>3, <1>4, EventApart DEF OnTheWay
<1>7. OnePlace' /\ NothingLeft'
  BY <1>1, <1>3, <1>4 DEF MatchInv, OnePlace, NothingLeft
<1> QED
  BY <1>1, <1>5, <1>6, <1>7, MovesKeepMatch

\* A receiver takes a message from the queue, or ends with the session.
LEMMA PollKeepsMatch ==
  ASSUME MatchInv, OneInv', NEW s \in Sessions, Poll(s)
  PROVE  MatchInv'
<1>1. /\ UNCHANGED <<session, opened, unacked, replies, pc, batch, sent, requests, responses>>
      /\ receiver[s] = "polls" /\ held[s] = Null
  BY DEF Poll, threads, MatchInv, NetTypes
<1>2. CASE session = 0
  <2>1. receiver' = [receiver EXCEPT ![s] = "dead"] /\ UNCHANGED <<queue, held>>
    BY <1>2 DEF Poll
  <2>2. Queued' = Queued /\ Held' = Held
    BY <2>1 DEF Queued, Held
  <2>3. NetTypes'
    BY <1>1, <2>1 DEF MatchInv, NetTypes
  <2>4. OnePlace' /\ NothingLeft' /\ OnTheWay' \subseteq OnTheWay
    BY <1>1, <2>1, <2>2 DEF MatchInv, OnePlace, NothingLeft, OnTheWay
  <2> QED
    BY <1>1, <2>3, <2>4, MovesKeepMatch
<1>3. CASE session # 0
  <2>1. queue # << >> /\ queue' = Tail(queue)
    BY <1>3 DEF Poll
  <2>2. queue \in Seq(Msgs \cup {Event})
    BY DEF MatchInv, NetTypes
  <2>3. /\ queue' \in Seq(Msgs \cup {Event})
        /\ Len(queue) \in Nat \ {0} /\ Len(queue') = Len(queue) - 1
        /\ \A i \in 1..Len(queue') : queue'[i] = queue[i + 1]
        /\ Head(queue) = queue[1] /\ Head(queue) \in Msgs \cup {Event}
    BY <2>1, <2>2
  <2>4. Queued' \subseteq Queued /\ Head(queue) \in Queued
    BY <2>3 DEF Queued
  <2>5. \A i, j \in 1..Len(queue') : queue'[i] = queue'[j] => i = j \/ queue'[i] = Event
    BY <2>3 DEF MatchInv, OnePlace
  <2>6. NothingLeft'
    BY <1>1, <1>3 DEF NothingLeft
  <2>7. CASE Head(queue) = Event
    <3>1. UNCHANGED <<receiver, held>>
      BY <1>3, <2>7 DEF Poll
    <3>2. Held' = Held
      BY <3>1 DEF Held
    <3>3. NetTypes'
      BY <1>1, <2>3, <3>1 DEF MatchInv, NetTypes
    <3>4. OnePlace' /\ OnTheWay' \subseteq OnTheWay
      BY <1>1, <2>4, <2>5, <3>1, <3>2 DEF MatchInv, OnePlace, OnTheWay
    <3> QED
      BY <1>1, <2>6, <3>3, <3>4, MovesKeepMatch
  <2>8. CASE Head(queue) # Event
    <3>1. /\ receiver' = [receiver EXCEPT ![s] = "holds"]
          /\ held' = [held EXCEPT ![s] = Head(queue)]
      BY <1>3, <2>8 DEF Poll
    <3>2. Head(queue) \in Msgs /\ Head(queue) # Null
      BY <2>3, <2>8, EventApart
    <3>3. Held' \subseteq Held \cup {Head(queue)}
      BY <3>1 DEF Held, MatchInv, NetTypes
    <3>4. Head(queue) \notin Queued'
      <4>1. \A i \in 1..Len(queue') : queue[i + 1] # queue[1]
        BY <2>3, <2>8 DEF MatchInv, OnePlace
      <4> QED
        BY <2>3, <4>1 DEF Queued
    <3>5. NetTypes'
      BY <1>1, <2>3, <3>1, <3>2 DEF MatchInv, NetTypes
    <3>6. /\ Head(queue) \notin unacked \cup replies \cup Held
      BY <2>4, <2>8 DEF MatchInv, OnePlace
    <3>7. \A r, q \in Sessions : held'[r] = held'[q] => r = q \/ held'[r] = Null
      <4>1. \A r \in Sessions : r # s => held'[r] = held[r] /\ held[r] # Head(queue)
        BY <3>1, <3>6 DEF Held, MatchInv, NetTypes
      <4>2. held'[s] = Head(queue)
        BY <3>1 DEF MatchInv, NetTypes
      <4> QED
        BY <4>1, <4>2 DEF MatchInv, OnePlace
    <3>8. OnePlace'
      <4>1. /\ unacked' \cap replies' = {} /\ unacked' \cap Queued' = {}
            /\ replies' \cap Queued' \subseteq {Event}
            /\ Held' \cap (unacked' \cup replies' \cup Queued') = {}
        BY <1>1, <2>4, <3>3, <3>4, <3>6 DEF MatchInv, OnePlace
      <4> QED
        BY <2>5, <3>7, <4>1 DEF OnePlace
    <3>9. OnTheWay' \subseteq OnTheWay
      BY <1>1, <2>4, <3>3 DEF OnTheWay
    <3> QED
      BY <1>1, <2>6, <3>5, <3>8, <3>9, MovesKeepMatch
  <2> QED
    BY <2>7, <2>8
<1> QED
  BY <1>2, <1>3

\* A response is stored where its index says, which is where it was lacking.
LEMMA ReceiveKeepsMatch ==
  ASSUME MatchInv, OneInv', NEW s \in Sessions, Receive(s)
  PROVE  MatchInv'
<1> DEFINE m == held[s]
<1>1. /\ UNCHANGED <<net, pc, batch, sent, requests>>
      /\ receiver[s] = "holds" /\ receiver' = [receiver EXCEPT ![s] = "polls"]
      /\ held' = [held EXCEPT ![s] = Null]
  BY DEF Receive
<1>2. m \in Msgs /\ m # Null
  BY <1>1 DEF MatchInv, NetTypes
<1>3. m \in OnTheWay
  BY <1>2 DEF OnTheWay, Held
<1>4. requests = m.batch /\ responses[m.index] = Null /\ requests # Null
  BY <1>2, <1>3, EventApart DEF MatchInv, StillLacking, Msgs
<1>5. responses' = [responses EXCEPT ![m.index] = m] /\ m.index \in Indexes
  BY <1>2, <1>4 DEF Receive, Store, Msgs
<1>6. Held' \subseteq Held \cup {Null} /\ Queued' = Queued
  BY <1>1 DEF Held, Queued, net, MatchInv, NetTypes
<1>7. m \notin Held'
  <2>1. \A r \in Sessions : r # s => held'[r] # m
    BY <1>1, <1>2 DEF MatchInv, OnePlace, NetTypes
  <2>2. held'[s] # m
    BY <1>1, <1>2 DEF MatchInv, NetTypes
  <2> QED
    BY <2>1, <2>2 DEF Held
<1>8. m \notin unacked \cup replies \cup Queued
  BY DEF Held, MatchInv, OnePlace
<1>9. OnTheWay' \subseteq OnTheWay \ {m}
  BY <1>1, <1>6, <1>7, <1>8, EventApart DEF OnTheWay, net
<1>10. \A n \in OnTheWay' : n.index # m.index
  <2>1. \A n \in OnTheWay' : n \in Msgs /\ n.batch = m.batch /\ n # m
    BY <1>4, <1>9 DEF MatchInv, StillLacking, OnTheWay
  <2> QED
    BY <1>2, <2>1 DEF Msgs
<1>11. \A i \in Indexes : responses'[i] = IF i = m.index THEN m ELSE responses[i]
  BY <1>5 DEF MatchInv, NetTypes
<1>12. NetTypes'
  <2>1. responses' \in [Indexes -> Msgs \cup {Null}]
    BY <1>2, <1>5 DEF MatchInv, NetTypes
  <2> QED
    BY <1>1, <2>1 DEF MatchInv, NetTypes, net
<1>13. OnePlace'
  <2>1. (\A r, q \in Sessions : held[r] = held[q] => r = q \/ held[r] = Null)'
    BY <1>1 DEF MatchInv, OnePlace, NetTypes
  <2>2. Held' \cap (unacked' \cup replies' \cup Queued') = {}
    <3>1. Null \notin unacked \cup replies \cup Queued
      BY EventApart DEF MatchInv, NetTypes, Queued
    <3> QED
      BY <1>1, <1>6, <3>1 DEF MatchInv, OnePlace, net
  <2> QED
    BY <1>1, <1>6, <2>1, <2>2 DEF MatchInv, OnePlace, net
<1>14. StillLacking'
  <2>1. \A n \in OnTheWay' : n.index \in Indexes
    BY DEF OnTheWay, Msgs
  <2> QED
    BY <1>1, <1>9, <1>10, <1>11, <2>1 DEF MatchInv, StillLacking
<1>15. AfterTheRequest'
  <2> SUFFICES ASSUME NEW t \in Threads, pc[t] \in {"sends", "waits"}
               PROVE  /\ \A n \in OnTheWay' : n.index <= sent[t]
                      /\ \A i \in Indexes : i > sent[t] => responses'[i] = Null
    BY <1>1 DEF AfterTheRequest
  <2>1. /\ \A n \in OnTheWay : n.index <= sent[t]
        /\ \A i \in Indexes : i > sent[t] => responses[i] = Null
    BY DEF MatchInv, AfterTheRequest
  <2>2. sent[t] \in Nat /\ m.index \in Nat /\ ~(m.index > sent[t])
    BY <1>3, <1>5, <2>1, SoxExchangeAssumption DEF MatchInv, NetTypes, Indexes
  <2> QED
    BY <1>9, <1>11, <2>1, <2>2
<1>16. Quiet'
  <2>1. Sending' = Sending
    BY <1>1 DEF Sending
  <2> QED
    BY <1>1, <1>9, <2>1 DEF MatchInv, Quiet, net
<1>17. ResponsesMatch'
  <2>1. m = [batch |-> requests, index |-> m.index]
    BY <1>2, <1>4 DEF Msgs
  <2> QED
    BY <1>1, <1>11, <2>1 DEF MatchInv, ResponsesMatch
<1>18. NothingLeft'
  BY <1>1 DEF MatchInv, NothingLeft, net
<1> QED
  BY <1>12, <1>13, <1>14, <1>15, <1>16, <1>17, <1>18 DEF MatchInv

\* A step of a thread that leaves the messages where they are.
LEMMA StaysPut ==
  ASSUME MatchInv, UNCHANGED <<net, receiver, held>>
  PROVE  OnePlace' /\ NothingLeft' /\ OnTheWay' = OnTheWay
<1>1. Queued' = Queued /\ Held' = Held
  BY DEF Queued, Held, net
<1> QED
  BY <1>1 DEF net, MatchInv, OnePlace, NothingLeft, OnTheWay

\* A thread calls with the session open and nobody inside: nothing is on its way.
LEMMA CallKeepsMatch ==
  ASSUME MatchInv, SharedClient, OneInv', NEW t \in Threads, Call(t)
  PROVE  MatchInv'
<1>1. /\ UNCHANGED <<net, receiver, held, requests, responses>>
      /\ pc' = [pc EXCEPT ![t] = "enters"] /\ batch' = [batch EXCEPT ![t] = batches + 1]
      /\ sent' = [sent EXCEPT ![t] = 0] /\ session # 0 /\ batches < MaxBatches
  BY DEF Call, Go
<1>2. OnePlace' /\ NothingLeft' /\ OnTheWay' = OnTheWay
  BY <1>1, StaysPut
<1>3. \A u \in Threads : pc[u] = "idle"
  <2>1. ClientOf[t] \in Clients /\ Null \notin Threads
    BY SoxExchangeAssumption
  <2> QED
    BY <2>1 DEF Call, ClientFree, MatchInv, OneInv, ActiveIsUser, SharedClient
<1>4. OnTheWay = {}
  BY <1>1, <1>3 DEF MatchInv, Quiet, Sending
<1>5. pc \in [Threads -> {"idle", "enters", "sends", "waits"}]
      /\ batch \in [Threads -> Nat] /\ batches \in Nat
  BY DEF MatchInv, OneInv, ThreadTypes
<1>6. \A u \in Threads : pc'[u] \in {"idle", "enters"} /\ (pc'[u] # "idle" => u = t)
  BY <1>1, <1>3, <1>5
<1>7. NetTypes'
  <2>1. sent' \in [Threads -> 0..BatchSize]
    BY <1>1, SoxExchangeAssumption DEF MatchInv, NetTypes
  <2>2. \A u \in Threads : pc'[u] # "idle" => batch'[u] \in Batches
    BY <1>1, <1>5, <1>6, SoxExchangeAssumption DEF Batches
  <2> QED
    BY <1>1, <2>1, <2>2 DEF MatchInv, NetTypes, net
<1>8. StillLacking' /\ AfterTheRequest' /\ Quiet'
  BY <1>2, <1>4, <1>6 DEF StillLacking, AfterTheRequest, Quiet
<1>9. ResponsesMatch'
  BY <1>1 DEF MatchInv, ResponsesMatch
<1> QED
  BY <1>2, <1>7, <1>8, <1>9 DEF MatchInv

\* The new batch starts with no response stored and none on its way.
LEMMA EnterKeepsMatch ==
  ASSUME MatchInv, OneInv', NEW t \in Threads, Enter(t)
  PROVE  MatchInv'
<1>1. /\ UNCHANGED <<net, receiver, held, batch, sent>> /\ pc[t] = "enters"
      /\ pc' = [pc EXCEPT ![t] = "sends"]
      /\ requests' = batch[t] /\ responses' = [i \in Indexes |-> Null]
  BY DEF Enter, Go, FreshResponses
<1>2. OnePlace' /\ NothingLeft' /\ OnTheWay' = OnTheWay
  BY <1>1, StaysPut
<1>3. OnTheWay = {}
  BY <1>1 DEF MatchInv, Quiet
<1>4. NetTypes'
  <2>1. batch[t] \in Batches
    BY <1>1 DEF MatchInv, NetTypes
  <2>2. \A u \in Threads : pc'[u] # "idle" => batch'[u] \in Batches
    BY <1>1 DEF MatchInv, NetTypes, OneInv, ThreadTypes
  <2>3. responses' \in [Indexes -> Msgs \cup {Null}]
    BY <1>1
  <2> QED
    BY <1>1, <2>1, <2>2, <2>3 DEF MatchInv, NetTypes, net
<1>5. StillLacking' /\ AfterTheRequest' /\ Quiet' /\ ResponsesMatch'
  BY <1>1, <1>2, <1>3 DEF StillLacking, AfterTheRequest, Quiet, ResponsesMatch
<1> QED
  BY <1>2, <1>4, <1>5 DEF MatchInv

\* The next request of the batch is new: its index is past those sent.
LEMMA SendKeepsMatch ==
  ASSUME MatchInv, SharedClient, OneInv', NEW t \in Threads, Send(t)
  PROVE  MatchInv'
<1> DEFINE m == [batch |-> batch[t], index |-> sent[t] + 1]
<1>1. /\ pc[t] = "sends" /\ session # 0 /\ sent[t] < BatchSize
      /\ unacked' = unacked \cup {m} /\ sent' = [sent EXCEPT ![t] = sent[t] + 1]
      /\ UNCHANGED <<pc, batch, requests, responses, session, opened, replies, queue,
                     receiver, held>>
  BY DEF Send
<1>2. requests = batch[t] /\ batch[t] \in Batches /\ sent[t] \in 0..BatchSize
      /\ BatchSize \in Nat
  BY <1>1, SoxExchangeAssumption DEF MatchInv, OneInv, BatchHeld, NetTypes
<1>3. sent[t] \in Nat /\ sent[t] + 1 \in Indexes /\ m \in Msgs
  BY <1>1, <1>2 DEF Indexes, Msgs
<1>4. m \notin OnTheWay /\ responses[m.index] = Null
  BY <1>1, <1>3 DEF MatchInv, AfterTheRequest
<1>5. m \notin replies \cup Queued \cup Held
  BY <1>3, <1>4 DEF OnTheWay
<1>6. Queued' = Queued /\ Held' = Held
  BY <1>1 DEF Queued, Held
<1>7. OnTheWay' = OnTheWay \cup {m}
  BY <1>1, <1>3, <1>6 DEF OnTheWay
<1>8. NetTypes'
  <2>1. sent' \in [Threads -> 0..BatchSize]
    BY <1>1, <1>2 DEF MatchInv, NetTypes
  <2> QED
    BY <1>1, <1>3, <2>1 DEF MatchInv, NetTypes
<1>9. OnePlace' /\ NothingLeft'
  BY <1>1, <1>5, <1>6 DEF MatchInv, OnePlace, NothingLeft
<1>10. StillLacking'
  BY <1>1, <1>2, <1>4, <1>7 DEF MatchInv, StillLacking
<1>11. \A u \in Threads : u # t => pc[u] = "idle"
  BY <1>1, OneActive DEF MatchInv, OneInv
<1>12. AfterTheRequest'
  <2>1. sent'[t] = sent[t] + 1
    BY <1>1 DEF MatchInv, NetTypes
  <2>2. \A n \in OnTheWay' : n.index \in Nat /\ n.index <= sent'[t]
    BY <1>1, <1>3, <1>7, <2>1 DEF MatchInv, AfterTheRequest, OnTheWay, Msgs, Indexes
  <2>3. \A i \in Indexes : i > sent'[t] => responses[i] = Null
    BY <1>1, <1>3, <2>1 DEF MatchInv, AfterTheRequest, Indexes
  <2> QED
    BY <1>1, <1>11, <2>2, <2>3 DEF AfterTheRequest
<1>13. Quiet'
  <2>1. Sending' /\ \A u \in Threads : pc'[u] # "enters"
    BY <1>1, <1>11 DEF Sending
  <2> QED
    BY <2>1 DEF Quiet
<1>14. ResponsesMatch'
  BY <1>1 DEF MatchInv, ResponsesMatch
<1> QED
  BY <1>8, <1>9, <1>10, <1>12, <1>13, <1>14 DEF MatchInv

LEMMA WaitKeepsMatch ==
  ASSUME MatchInv, OneInv', NEW t \in Threads, Wait(t)
  PROVE  MatchInv'
<1>1. /\ UNCHANGED <<net, receiver, held, batch, sent, requests, responses>>
      /\ pc[t] = "sends" /\ pc' = [pc EXCEPT ![t] = "waits"]
  BY DEF Wait, Go
<1>2. OnePlace' /\ NothingLeft' /\ OnTheWay' = OnTheWay
  BY <1>1, StaysPut
<1>3. pc \in [Threads -> {"idle", "enters", "sends", "waits"}]
  BY DEF MatchInv, OneInv, ThreadTypes
<1>4. \A u \in Threads :
        /\ pc'[u] \in {"sends", "waits"} <=> pc[u] \in {"sends", "waits"}
        /\ pc'[u] = "enters" <=> pc[u] = "enters"
        /\ pc'[u] = "idle" <=> pc[u] = "idle"
  BY <1>1, <1>3
<1>5. NetTypes'
  BY <1>1, <1>4 DEF MatchInv, NetTypes, net
<1>6. Sending' = Sending
  BY <1>4 DEF Sending
<1>7. StillLacking' /\ AfterTheRequest' /\ ResponsesMatch'
  BY <1>1, <1>2, <1>4 DEF MatchInv, StillLacking, AfterTheRequest, ResponsesMatch
<1>8. Quiet'
  BY <1>1, <1>2, <1>4, <1>6 DEF MatchInv, Quiet, net
<1> QED
  BY <1>2, <1>5, <1>7, <1>8 DEF MatchInv

\* A thread leaves with nothing on its way, or after the session has closed.
LEMMA LeaveKeepsMatch ==
  ASSUME MatchInv, SharedClient, OneInv', NEW t \in Threads, pc[t] # "idle",
         pc' = [pc EXCEPT ![t] = "idle"],
         UNCHANGED <<net, receiver, held, batch, sent>>,
         session = 0 \/ OnTheWay = {},
         \/ UNCHANGED <<requests, responses>>
         \/ OnTheWay = {} /\ requests' = Null /\ responses' = NoResponses
  PROVE  MatchInv'
<1>1. OnePlace' /\ NothingLeft' /\ OnTheWay' = OnTheWay
  BY StaysPut
<1>2. \A u \in Threads : pc'[u] = "idle"
  <2>1. \A u \in Threads : u # t => pc[u] = "idle"
    BY OneActive DEF MatchInv, OneInv
  <2> QED
    BY <2>1 DEF MatchInv, OneInv, ThreadTypes
<1>3. NetTypes'
  <2>1. requests' \in Batches \cup {Null} /\ responses' \in [Indexes -> Msgs \cup {Null}]
    BY DEF MatchInv, NetTypes
  <2> QED
    BY <1>2, <2>1 DEF MatchInv, NetTypes, net
<1>4. AfterTheRequest' /\ Quiet'
  BY <1>1, <1>2 DEF AfterTheRequest, Quiet, net
<1>5. StillLacking' /\ ResponsesMatch'
  BY <1>1 DEF MatchInv, StillLacking, ResponsesMatch
<1> QED
  BY <1>1, <1>3, <1>4, <1>5 DEF MatchInv

\* With every response stored, nothing of the batch is on its way any more; with one
\* lacking, only the end of the session lets the thread go.
LEMMA ReturnThrowKeepMatch ==
  ASSUME MatchInv, SharedClient, OneInv', NEW t \in Threads, Return(t) \/ Throw(t)
  PROVE  MatchInv'
<1>1. /\ pc[t] \in {"sends", "waits"} /\ pc' = [pc EXCEPT ![t] = "idle"]
      /\ UNCHANGED <<net, receiver, held, batch, sent>>
  BY DEF Return, Throw, Leave, Go
<1>2. CASE Return(t)
  <2>1. \A m \in OnTheWay : m.index \in Indexes
    BY DEF OnTheWay, Msgs
  <2>2. OnTheWay = {} /\ requests' = Null /\ responses' = NoResponses
    BY <1>2, <2>1 DEF Return, GotAllResponses, MatchInv, StillLacking
  <2> QED
    BY <1>1, <2>2, LeaveKeepsMatch
<1>3. CASE Throw(t)
  <2>1. requests # Null
    BY <1>1, EventApart DEF MatchInv, OneInv, BatchHeld, NetTypes
  <2>2. session = 0 /\ UNCHANGED <<requests, responses>>
    BY <1>3, <2>1 DEF Throw, CannotGoOn
  <2> QED
    BY <1>1, <2>2, LeaveKeepsMatch
<1> QED
  BY <1>2, <1>3

\* Each step keeps MatchInv when connect waits for the receivers.
LEMMA NextKeepsMatch ==
  ASSUME SharedClient, ~LateReceivers, MatchInv, [Next]_vars
  PROVE  MatchInv'
<1>1. OneInv'
  BY NextKeepsOne DEF MatchInv
<1>2. ASSUME NEW t \in Threads, Call(t) PROVE MatchInv'
  BY <1>1, <1>2, CallKeepsMatch
<1>3. ASSUME NEW t \in Threads, Enter(t) PROVE MatchInv'
  BY <1>1, <1>3, EnterKeepsMatch
<1>4. ASSUME NEW t \in Threads, Send(t) PROVE MatchInv'
  BY <1>1, <1>4, SendKeepsMatch
<1>5. ASSUME NEW t \in Threads, Wait(t) PROVE MatchInv'
  BY <1>1, <1>5, WaitKeepsMatch
<1>6. ASSUME NEW t \in Threads, Return(t) \/ Throw(t) PROVE MatchInv'
  BY <1>1, <1>6, ReturnThrowKeepMatch
<1>7. CASE Serve
  BY <1>1, <1>7, ServeKeepsMatch
<1>8. CASE SendEvent
  BY <1>1, <1>8, SendEventKeepsMatch
<1>9. CASE Arrive
  BY <1>1, <1>9, ArriveKeepsMatch
<1>10. CASE Closed
  <2>1. Close /\ UNCHANGED <<held, receiver, pc, batch, sent, requests, responses>>
    BY <1>10 DEF Closed, threads
  <2> QED
    BY <1>1, <2>1, CloseKeepsMatch
<1>11. CASE Connect
  BY <1>1, <1>11, ConnectKeepsMatch
<1>12. ASSUME NEW s \in Sessions, Poll(s) PROVE MatchInv'
  BY <1>1, <1>12, PollKeepsMatch
<1>13. ASSUME NEW s \in Sessions, Receive(s) PROVE MatchInv'
  BY <1>1, <1>13, ReceiveKeepsMatch
<1>14. CASE UNCHANGED vars
  <2>1. UNCHANGED <<net, receiver, held, pc, batch, sent, requests, responses>>
    BY <1>14 DEF vars, net
  <2>2. OnePlace' /\ NothingLeft' /\ OnTheWay' = OnTheWay
    BY <2>1, StaysPut
  <2>3. NetTypes'
    BY <2>1 DEF MatchInv, NetTypes, net
  <2> QED
    BY <1>1, <2>1, <2>2, <2>3, MovesKeepMatch DEF net
<1> QED
  BY <1>2, <1>3, <1>4, <1>5, <1>6, <1>7, <1>8, <1>9, <1>10, <1>11, <1>12, <1>13, <1>14
     DEF Next

\* Every response that is stored answers a request of the batch in the exchange, at
\* its own index, although index and command are all a response is recognised by:
\* for threads of one SoxClient, when no receiver of a closed session lingers.
THEOREM ResponsesAreOfTheBatch ==
  SharedClient /\ ~LateReceivers /\ Spec => []ResponsesMatch
<1>1. MatchInv => ResponsesMatch
  BY DEF MatchInv
<1>2. SharedClient /\ ~LateReceivers => (Spec => []MatchInv)
  <2> SUFFICES ASSUME SharedClient, ~LateReceivers
               PROVE  Spec => []MatchInv
    OBVIOUS
  <2>1. MatchInv /\ [Next]_vars => MatchInv'
    BY NextKeepsMatch
  <2> QED
    BY <2>1, InitMatch, PTL DEF Spec
<1> QED
  BY <1>1, <1>2, PTL
=============================================================================
