---------------------------- MODULE SoxExchange ----------------------------
(***************************************************************************)
(* The request and response exchange of the Java Sox client                *)
(* (src/sedona/src/sedona/sox/SoxExchange.java): threads that send batches *)
(* of requests and wait under the monitor of the exchange, the SoxReceiver *)
(* thread that stores the responses under the same monitor, and sessions   *)
(* that close at any time and are opened again.                            *)
(*                                                                         *)
(* A response carries the index of its request in the batch and a command  *)
(* that belongs to the command of the request; all batches here use one    *)
(* command, the case in which responses are hardest to tell apart.  Dasp   *)
(* delivers each message of a session once, in any order (DaspUplink and   *)
(* DaspDownlink).                                                          *)
(***************************************************************************)
EXTENDS Naturals, Sequences, FiniteSets, SequencesExt

CONSTANTS
  Threads,      \* threads that send requests
  Clients,      \* the SoxClients they call through; one for all serialises them
  ClientOf,     \* the client each thread uses
  BatchSize,    \* requests in a batch
  SendMax,      \* unacknowledged requests the send window takes
  QueueMax,     \* messages the receive queue takes
  MaxBatches,   \* bound: batches sent
  MaxEvents,    \* bound: events the server sends
  MaxSessions,  \* bound: sessions opened
  LateReceivers,\* whether connect may come before the last receiver has ended
  Null

ASSUME SoxExchangeAssumption ==
  /\ ClientOf \in [Threads -> Clients]
  /\ {BatchSize, SendMax, QueueMax, MaxSessions} \subseteq Nat \ {0}
  /\ MaxBatches \in Nat /\ MaxEvents \in Nat
  /\ LateReceivers \in BOOLEAN
  /\ Null \notin Threads /\ Null \notin Nat /\ Null \notin [batch : Nat, index : Nat]

Indexes == 1..BatchSize
Sessions == 1..MaxSessions
Batches == 1..MaxBatches
Msgs == [batch : Batches, index : Indexes]
Event == [batch |-> 0, index |-> 1]

VARIABLES
  user,       \* the thread in a synchronized method of each SoxClient
  owner,      \* the thread that holds the monitor of the SoxExchange
  pc,         \* where each thread is
  batch,      \* the batch each thread sends
  sent,       \* how many requests of it were sent
  requests,   \* SoxExchange.requests: the batch it holds, or Null
  responses,  \* SoxExchange.responses
  session,    \* the open session, or 0
  opened,     \* sessions opened so far
  unacked,    \* requests in the send window
  replies,    \* responses and events on their way
  queue,      \* the receive queue of the session
  receiver,   \* what each SoxReceiver does: "none", "polls", "holds" or "dead"
  held,       \* the message it has taken from the queue
  batches, events

vars == <<user, owner, pc, batch, sent, requests, responses, session, opened,
          unacked, replies, queue, receiver, held, batches, events>>
threads == <<user, owner, pc, batch, sent, requests, responses>>
net == <<session, opened, unacked, replies, queue>>
bounds == <<batches, events>>

NoResponses == [i \in Indexes |-> Null]

Init ==
  /\ user = [c \in Clients |-> Null] /\ owner = Null
  /\ pc = [t \in Threads |-> "idle"]
  /\ batch = [t \in Threads |-> 0] /\ sent = [t \in Threads |-> 0]
  /\ requests = Null /\ responses = NoResponses
  /\ session = 1 /\ opened = 1
  /\ unacked = {} /\ replies = {} /\ queue = << >>
  /\ receiver = [s \in Sessions |-> IF s = 1 THEN "polls" ELSE "none"]
  /\ held = [s \in Sessions |-> Null]
  /\ batches = 0 /\ events = 0

-----------------------------------------------------------------------------
(* The threads that send requests.                                         *)
Go(t, where) == pc' = [pc EXCEPT ![t] = where]

(* A synchronized method of SoxClient calls request, which checks that the *)
(* session is open.                                                        *)
AnyClient(t) == TRUE
ClientFree(t) == user[ClientOf[t]] = Null
Call(t) ==
  /\ pc[t] = "idle" /\ ClientFree(t)
  /\ session # 0 /\ batches < MaxBatches
  /\ user' = [user EXCEPT ![ClientOf[t]] = t]
  /\ batches' = batches + 1
  /\ batch' = [batch EXCEPT ![t] = batches + 1]
  /\ sent' = [sent EXCEPT ![t] = 0]
  /\ Go(t, "enters")
  /\ UNCHANGED <<owner, requests, responses, net, receiver, held, events>>

(* "synchronized (this)": the new batch replaces the one that was there.   *)
KeepResponses == responses
FreshResponses == NoResponses
Enter(t) ==
  /\ pc[t] = "enters" /\ owner = Null
  /\ owner' = t
  /\ requests' = batch[t] /\ responses' = FreshResponses
  /\ Go(t, "sends")
  /\ UNCHANGED <<user, batch, sent, net, receiver, held, bounds>>

(* send: blocks while the send window is full, with the monitor held.      *)
Send(t) ==
  /\ pc[t] = "sends" /\ session # 0
  /\ sent[t] < BatchSize /\ Cardinality(unacked) < SendMax
  /\ unacked' = unacked \cup {[batch |-> batch[t], index |-> sent[t] + 1]}
  /\ sent' = [sent EXCEPT ![t] = @ + 1]
  /\ UNCHANGED <<user, owner, pc, batch, requests, responses, session, opened,
                 replies, queue, receiver, held, bounds>>

(* wait gives up the monitor, so another thread may enter.                 *)
Wait(t) ==
  /\ pc[t] = "sends" /\ sent[t] = BatchSize
  /\ owner' = Null
  /\ Go(t, "waits")
  /\ UNCHANGED <<user, batch, sent, requests, responses, net, receiver, held, bounds>>

Leave(t) ==
  /\ Go(t, "idle")
  /\ user' = [user EXCEPT ![ClientOf[t]] = Null]

(* A notify or half a second wakes the thread, which takes the responses   *)
(* when all are there; responses is null when another thread took them.    *)
GotAllResponses == \A i \in Indexes : responses[i] # Null
Return(t) ==
  /\ pc[t] = "waits" /\ owner = Null
  /\ requests # Null /\ session # 0
  /\ GotAllResponses
  /\ requests' = Null /\ responses' = NoResponses
  /\ Leave(t)
  /\ UNCHANGED <<owner, batch, sent, net, receiver, held, bounds>>

(* checkOpen throws out of request; requests and responses stay as they    *)
(* are.  So does a wait whose responses another thread took.               *)
ResponsesGone == requests = Null
CannotGoOn == session = 0 \/ requests = Null
Throw(t) ==
  /\ \/ pc[t] = "waits" /\ owner = Null /\ CannotGoOn
     \/ pc[t] = "sends" /\ session = 0
  /\ owner' = IF owner = t THEN Null ELSE owner
  /\ Leave(t)
  /\ UNCHANGED <<batch, sent, requests, responses, net, receiver, held, bounds>>

-----------------------------------------------------------------------------
(* The server answers a request of the session that its windows take       *)
(* (dispatch), and sends events (enqueueEvent); its windows repeat what is  *)
(* lost, so what is under way is a set and in any order.                   *)
Serve ==
  /\ session # 0
  /\ \E m \in unacked :
       /\ unacked' = unacked \ {m}
       /\ replies' = replies \cup {m}
  /\ UNCHANGED <<threads, session, opened, queue, receiver, held, bounds>>
SendEvent ==
  /\ session # 0 /\ events < MaxEvents /\ Event \notin replies
  /\ events' = events + 1
  /\ replies' = replies \cup {Event}
  /\ UNCHANGED <<threads, session, opened, unacked, queue, receiver, held, batches>>

(* close: the session goes with its windows and its queue.  The receiver   *)
(* is interrupted, and ends when it next looks at the session.             *)
Close ==
  /\ session' = 0
  /\ unacked' = {} /\ replies' = {} /\ queue' = << >>
  /\ UNCHANGED opened

(* A message arrives; a full queue closes the session.                     *)
QueueHasRoom == Len(queue) < QueueMax
Arrive ==
  /\ session # 0
  /\ \E m \in replies :
       IF QueueHasRoom
       THEN /\ queue' = Append(queue, m) /\ replies' = replies \ {m}
            /\ UNCHANGED <<session, opened, unacked>>
       ELSE Close
  /\ UNCHANGED <<threads, receiver, held, bounds>>

(* The session ends: a timeout, a close from the server or by the user.    *)
Closed ==
  /\ session # 0
  /\ Close
  /\ UNCHANGED <<threads, receiver, held, bounds>>

(* SoxClient.connect and SoxExchange.connect, both synchronized.           *)
Ended(s) == receiver[s] \in {"none", "dead"}
Connect ==
  /\ session = 0 /\ opened < MaxSessions
  /\ owner = Null /\ \A c \in Clients : user[c] = Null
  /\ LateReceivers \/ \A s \in Sessions : Ended(s)
  /\ session' = opened + 1 /\ opened' = opened + 1
  /\ receiver' = [receiver EXCEPT ![opened + 1] = "polls"]
  /\ UNCHANGED <<threads, unacked, replies, queue, held, bounds>>

-----------------------------------------------------------------------------
(* SoxReceiver.run: a receiver that finds the exchange closed ends; one    *)
(* that does not takes the next message of whichever session is open.      *)
Poll(s) ==
  /\ receiver[s] = "polls"
  /\ \/ /\ session = 0
        /\ receiver' = [receiver EXCEPT ![s] = "dead"]
        /\ UNCHANGED <<queue, held>>
     \/ /\ session # 0 /\ queue # << >>
        /\ queue' = Tail(queue)
        /\ IF Head(queue) = Event THEN UNCHANGED <<receiver, held>>
           ELSE /\ receiver' = [receiver EXCEPT ![s] = "holds"]
                /\ held' = [held EXCEPT ![s] = Head(queue)]
  /\ UNCHANGED <<threads, session, opened, unacked, replies, bounds>>

(* receive: the response goes where its index says.                        *)
Store(m) == [responses EXCEPT ![m.index] = m]
Receive(s) ==
  /\ receiver[s] = "holds" /\ owner = Null
  /\ responses' = IF requests = Null THEN responses ELSE Store(held[s])
  /\ receiver' = [receiver EXCEPT ![s] = "polls"]
  /\ held' = [held EXCEPT ![s] = Null]
  /\ UNCHANGED <<user, owner, pc, batch, sent, requests, net, bounds>>

Next ==
  \/ \E t \in Threads :
       Call(t) \/ Enter(t) \/ Send(t) \/ Wait(t) \/ Return(t) \/ Throw(t)
  \/ Serve \/ SendEvent \/ Arrive \/ Closed \/ Connect
  \/ \E s \in Sessions : Poll(s) \/ Receive(s)

Spec == Init /\ [][Next]_vars

(* Threads that can run do, also when they compete for the monitor; the    *)
(* server answers and Dasp delivers as long as the session lasts.          *)
Fairness ==
  /\ \A t \in Threads :
       SF_vars(Enter(t)) /\ WF_vars(Send(t)) /\ WF_vars(Wait(t))
         /\ SF_vars(Return(t)) /\ SF_vars(Throw(t))
  /\ WF_vars(Serve) /\ WF_vars(Arrive)
  /\ \A s \in Sessions : WF_vars(Poll(s)) /\ SF_vars(Receive(s))
FairSpec == Spec /\ Fairness

-----------------------------------------------------------------------------
(* Each variable holds a value of its type, and queue and window keep to   *)
(* their size.                                                             *)
TypeOK ==
  /\ \A c \in Clients : user[c] \in Threads \cup {Null}
  /\ owner \in Threads \cup {Null}
  /\ pc \in [Threads -> {"idle", "enters", "sends", "waits"}]
  /\ batch \in [Threads -> 0..MaxBatches] /\ sent \in [Threads -> 0..BatchSize]
  /\ requests \in Batches \cup {Null}
  /\ \A i \in Indexes : responses[i] \in Msgs \cup {Null}
  /\ session \in 0..MaxSessions /\ opened \in Sessions
  /\ unacked \subseteq Msgs /\ Cardinality(unacked) <= SendMax
  /\ replies \subseteq Msgs \cup {Event}
  /\ Len(queue) <= QueueMax /\ Range(queue) \subseteq Msgs \cup {Event}
  /\ \A s \in Sessions : /\ receiver[s] \in {"none", "polls", "holds", "dead"}
                          /\ held[s] \in Msgs \cup {Null}
  /\ batches \in 0..MaxBatches /\ events \in 0..MaxEvents

(* What request returns is the answer to what it sent: every response that *)
(* is stored is one of the batch the exchange holds, at its own index,     *)
(* although index and command are all a response is recognised by.         *)
ResponsesMatch ==
  requests # Null =>
    \A i \in Indexes : responses[i] # Null =>
      responses[i] = [batch |-> requests, index |-> i]

(* "this entire method will block all but one caller": a thread that waits *)
(* finds its own batch in the exchange, never one that replaced it.        *)
OneBatchOutstanding ==
  \A t \in Threads : pc[t] = "waits" => requests = batch[t]

(* A request comes back, with its responses or because the session closed. *)
RequestSettles == \A t \in Threads : pc[t] = "enters" ~> pc[t] = "idle"
=============================================================================
