----------------------------- MODULE SoxEvents -----------------------------
(***************************************************************************)
(* Subscriptions and change events of one SoxSession: the flags of the     *)
(* components (Component.changed, Watch), the scan of the SoxService       *)
(* (checkForEvents, enqueueEvent), the subscribe and unsubscribe requests  *)
(* and the cache of the Java client (sox/SoxClient.java).                  *)
(*                                                                         *)
(* DASP itself is taken as DaspDownlink and DaspUplink establish it: the   *)
(* client processes a numbered packet once, the server forgets it after    *)
(* that, and a request reaches the server once. A packet that is sent      *)
(* again is encoded again, from the state of that moment.                  *)
(***************************************************************************)
EXTENDS Integers, Sequences, FiniteSets, SequencesExt, Functions

CONSTANTS
  NumComps,    \* App.compsLen
  KindOrder,   \* the categories, in the order checkForEvents tries them
  NumSlots,    \* SendWindow.max (8)
  Reorders,    \* whether the network reorders packets
  MaxChanges,  \* bound of the model: changes of each category
  MaxRequests, \* bound of the model: requests of the client
  MaxSessions, \* bound of the model: clients that use the slot in turn
  MaxNet       \* bound of the model: packets in flight; what exceeds it is lost

ASSUME EventSizes ==
  /\ NumComps \in Nat \ {0} /\ NumSlots \in Nat \ {0}
  /\ KindOrder \in Seq({"tree", "config", "runtime", "links"})
  /\ Reorders \in BOOLEAN
  /\ MaxChanges \in Nat /\ MaxRequests \in Nat /\ MaxNet \in Nat
  /\ MaxSessions \in Nat \ {0}

Comps == 0..(NumComps - 1)
Kinds == {KindOrder[j] : j \in DOMAIN KindOrder}
Flags == Comps \X Kinds

VARIABLES
  value,     \* the state of each category of each component, as a version
  exists,    \* components in App.comps
  sub,       \* subscription bits of watchFlags for this session
  event,     \* event bits of watchFlags for this session
  allTree,   \* SoxSession.allTreeEvents
  lastComp,  \* SoxService.lastCompId
  seqNum,    \* packets allocated in this session
  packets,   \* packets of the send window: [n, comp, kind]
  net,       \* packets in flight: [n, comp, kind, v]
  view,      \* the client's copy of value
  cached,    \* SoxComponent.subscription bits of the client
  treeMode,  \* SoxClient.allTreeEvents
  seen,      \* packets the client has processed
  req,       \* the request under way, at most one: SoxClient is synchronized
  requests,  \* how many there were
  session    \* which client has the slot

app == <<value, exists>>
flags == <<sub, event, allTree>>
window == <<lastComp, seqNum, packets>>
cache == <<view, cached, treeMode, seen>>
eventVars == <<app, flags, window, net, cache, req, requests, session>>

Idle == [op |-> "none", comp |-> 0, kind |-> "tree", at |-> "sent"]

EventsInit ==
  /\ value = [f \in Flags |-> 0]
  /\ exists = Comps
  /\ sub = {} /\ event = {} /\ allTree = FALSE
  /\ lastComp = 0 /\ seqNum = 0 /\ packets = {}
  /\ net = <<>>
  /\ view = [f \in Flags |-> -1]
  /\ cached = {} /\ treeMode = FALSE /\ seen = {}
  /\ req = Idle /\ requests = 0 /\ session = 1

-----------------------------------------------------------------------------
(* The application *)

\* Mutant of Change: no event bit while a packet for the category is unacknowledged.
ChangeCoalesced(f) ==
  /\ f[1] \in exists /\ value[f] < MaxChanges
  /\ value' = [value EXCEPT ![f] = @ + 1]
  /\ event' = IF \E p \in packets : <<p.comp, p.kind>> = f THEN event ELSE event \cup {f}
  /\ UNCHANGED <<exists, sub, allTree, window, net, cache, req, requests, session>>

\* Component.changed and fireTreeChanged, fireLinksChanged: the event bit is
\* set in every watch, subscribed or not.
Change(f) ==
  /\ f[1] \in exists /\ value[f] < MaxChanges
  /\ value' = [value EXCEPT ![f] = @ + 1]
  /\ event' = event \cup {f}
  /\ UNCHANGED <<exists, sub, allTree, window, net, cache, req, requests, session>>

\* App.remove: the component and its watchFlags are gone.
RemoveComp(c) ==
  /\ c \in exists
  /\ exists' = exists \ {c}
  /\ sub' = {f \in sub : f[1] # c}
  /\ event' = {f \in event : f[1] # c}
  /\ UNCHANGED <<value, allTree, window, net, cache, req, requests, session>>

-----------------------------------------------------------------------------
(* The service *)

\* eventRes: the state of the component now, or "removed".
Encode(p) == [n |-> p.n, comp |-> p.comp, kind |-> p.kind,
              v |-> IF p.kind = "response" \/ p.comp \notin exists THEN -1
                    ELSE value[<<p.comp, p.kind>>]]

Fit(s) == SubSeq(s, 1, IF Len(s) <= MaxNet THEN Len(s) ELSE MaxNet)

\* The events pending for a component: subscription bits meet event bits.
Pending(c) ==
  {k \in Kinds : /\ c \in exists /\ <<c, k>> \in event
                 /\ <<c, k>> \in sub \/ (allTree /\ k = "tree")}

\* The order in which the scan looks at the components. (Mutant: the last
\* component is left out.)
ScanButLast(i) == (lastComp + 1 + i) % (NumComps - 1)
Scan(i) == (lastComp + 1 + i) % NumComps

\* enqueueEvent takes the categories in their order, what fits in the window, and
\* leaves the other bits set: there is one such sequence.
Fired(c) ==
  LET free     == NumSlots - Cardinality(packets)
      place(k) == CHOOSE j \in DOMAIN KindOrder : KindOrder[j] = k
  IN {s \in SeqOf(Pending(c), Len(KindOrder)) :
        /\ Len(s) <= free
        /\ \A j, k \in DOMAIN s : j < k => place(s[j]) < place(s[k])
        /\ \A k \in Pending(c) \ Range(s) :
             Len(s) = free /\ \A j \in DOMAIN s : place(s[j]) < place(k)}

\* checkForEvents: the first component with an event for which there is room.
CheckForEvents ==
  \E i \in 0..(NumComps - 1) : \E fired \in Fired(Scan(i)) :
    LET c   == Scan(i)
        new == [j \in DOMAIN fired |-> [n |-> seqNum + j, comp |-> c, kind |-> fired[j]]]
    IN /\ fired # <<>>
       /\ \A j \in 0..(i - 1) : Pending(Scan(j)) = {}
       /\ packets' = packets \cup {new[j] : j \in DOMAIN new}
       /\ seqNum' = seqNum + Len(new)
       /\ event' = event \ {<<c, fired[j]>> : j \in DOMAIN fired}
       /\ net' = Fit(net \o [j \in DOMAIN new |-> Encode(new[j])])
       /\ lastComp' = c
       /\ UNCHANGED <<app, sub, allTree, cache, req, requests, session>>

\* dispatch of a request: nothing is done when the window has no room for the
\* response (the client sends the request again).
Serve ==
  /\ req.op # "none" /\ req.at = "sent"
  /\ Cardinality(packets) < NumSlots
  /\ LET f == <<req.comp, req.kind>>
         res == [n |-> seqNum + 1, comp |-> req.comp, kind |-> "response"]
     IN /\ sub' = CASE req.op = "subscribe" /\ req.comp \in exists -> sub \cup {f}
                    [] req.op = "unsubscribe" -> sub \ {f}
                    [] OTHER -> sub
        /\ event' = IF req.op = "subscribe" /\ req.comp \in exists
                    THEN event \cup {f} ELSE event
        /\ packets' = packets \cup {res}
        /\ net' = Fit(Append(net, Encode(res)))
  /\ allTree' = CASE req.op = "allTree" -> TRUE
                  [] req.op = "noTree"  -> FALSE
                  [] OTHER -> allTree
  /\ seqNum' = seqNum + 1
  /\ req' = [req EXCEPT !.at = "served"]
  /\ UNCHANGED <<app, lastComp, cache, requests, session>>

\* sendRetries, for one packet.
Resend(p) ==
  /\ p \in packets /\ Len(net) < MaxNet
  /\ net' = Append(net, Encode(p))
  /\ UNCHANGED <<app, flags, window, cache, req, requests, session>>

\* Mutant of Acknowledge: the slots of responses are not freed.
AcknowledgeEvent(p) ==
  /\ p \in packets /\ p.n \in seen /\ p.kind # "response"
  /\ packets' = packets \ {p}
  /\ UNCHANGED <<app, flags, lastComp, seqNum, net, cache, req, requests, session>>

\* checkAckHeaders: a packet the client has processed frees its slot.
Acknowledge(p) ==
  /\ p \in packets /\ p.n \in seen
  /\ packets' = packets \ {p}
  /\ UNCHANGED <<app, flags, lastComp, seqNum, net, cache, req, requests, session>>

\* The session is closed and a client opens one in the same slot: openWatch
\* clears the watch flags, SoxSession.reset the windows.
Reopen ==
  /\ session < MaxSessions
  /\ session' = session + 1
  /\ sub' = {} /\ event' = {} /\ packets' = {} /\ seqNum' = 0 /\ net' = <<>>
  /\ view' = [f \in Flags |-> -1]
  /\ cached' = {} /\ treeMode' = FALSE /\ seen' = {} /\ req' = Idle
  /\ UNCHANGED <<app, allTree, lastComp, requests>>

-----------------------------------------------------------------------------
(* The client *)

Request(op, f) ==
  /\ req.op = "none" /\ requests < MaxRequests
  /\ req' = [op |-> op, comp |-> f[1], kind |-> f[2], at |-> "sent"]
  /\ requests' = requests + 1
  /\ UNCHANGED <<app, flags, window, net, cache, session>>

\* "If any component is already subscribed to a specific category then short
\* circuit the network call."
Subscribe(f) == f \notin cached /\ Request("subscribe", f)

\* unsubscribe leaves the tree category to subscribeToAllTreeEvents.
Unsubscribe(f) == f \in cached /\ ~(treeMode /\ f[2] = "tree") /\ Request("unsubscribe", f)

SubscribeAllTree == ~treeMode /\ Request("allTree", <<0, "tree">>)
UnsubscribeAllTree == treeMode /\ Request("noTree", <<0, "tree">>)

TreeFlags == {f \in Flags : f[2] = "tree"}

\* The thread of the request goes on with its response; subscribe has already
\* been applied event by event.
Finish ==
  /\ req.at = "answered"
  /\ cached' = CASE req.op = "subscribe"   -> cached
                 [] req.op = "unsubscribe" -> cached \ {<<req.comp, req.kind>>}
                 [] req.op = "allTree"     -> cached \cup TreeFlags
                 [] req.op = "noTree"      -> cached \ TreeFlags
  /\ treeMode' = CASE req.op = "allTree" -> TRUE
                   [] req.op = "noTree"  -> FALSE
                   [] OTHER -> treeMode
  /\ req' = Idle
  /\ UNCHANGED <<app, flags, window, net, view, seen, requests, session>>

\* The receiver thread takes a packet: the next one, or any that was sent. The
\* network may repeat it.
Receive(i) ==
  /\ i \in (IF Reorders THEN DOMAIN net ELSE DOMAIN net \cap {1})
  /\ net' \in {net, SubSeq(net, 1, i - 1) \o SubSeq(net, i + 1, Len(net))}
  /\ LET m   == net[i]
         f   == <<m.comp, m.kind>>
         new == m.n \notin seen
     IN /\ seen' = seen \cup {m.n}
        /\ req' = IF new /\ m.kind = "response" THEN [req EXCEPT !.at = "answered"]
                  ELSE req
        \* applyToCache and applyEvent; a removed component has no state.
        /\ IF new /\ m.kind # "response" /\ m.v # -1
           THEN /\ view' = [view EXCEPT ![f] = m.v]
                /\ cached' = cached \cup {f}
           ELSE UNCHANGED <<view, cached>>
  /\ UNCHANGED <<app, flags, window, treeMode, requests, session>>

Lose ==
  /\ net # <<>>
  /\ net' = Tail(net)
  /\ UNCHANGED <<app, flags, window, cache, req, requests, session>>

EventsNext ==
  \/ \E f \in Flags : Change(f) \/ Subscribe(f) \/ Unsubscribe(f)
  \/ \E c \in Comps : RemoveComp(c)
  \/ CheckForEvents \/ Serve \/ Reopen
  \/ \E p \in packets : Resend(p) \/ Acknowledge(p)
  \/ SubscribeAllTree \/ UnsubscribeAllTree \/ Finish
  \/ \E i \in DOMAIN net : Receive(i)
  \/ Lose

EventsSpec == EventsInit /\ [][EventsNext]_eventVars

\* The service loop, its house keeping and the client's threads keep running,
\* and a packet that is sent again and again gets through.
EventsFairness ==
  /\ WF_eventVars(CheckForEvents) /\ SF_eventVars(Serve) /\ WF_eventVars(Finish)
  /\ SF_eventVars(\E p \in packets : Resend(p))
  /\ WF_eventVars(\E p \in packets : Acknowledge(p))
  /\ SF_eventVars(\E i \in DOMAIN net : Receive(i) /\ Len(net') < Len(net))

EventsFairSpec == EventsSpec /\ EventsFairness

-----------------------------------------------------------------------------
(* Properties *)

\* A change of a subscribed category is never forgotten: as long as the client's
\* copy is out of date an event bit is set or a packet for it is still to be
\* processed, although the bit is cleared when the packet is first sent and
\* before the client has it (SoxService.enqueueEvent).
StaleIsPending ==
  \A f \in sub : \/ f[1] \notin exists
                 \/ view[f] = value[f]
                 \/ f \in event
                 \/ \E p \in packets : /\ <<p.comp, p.kind>> = f /\ p.n \notin seen

\* Events wait for nobody's acknowledgement but their own, and the scan takes
\* up where it left off: every change reaches a client that stays subscribed.
ViewSettles ==
  \A f \in Flags :
    (f \in sub /\ f[1] \in exists /\ view[f] # value[f])
      ~> (f \notin sub \/ f[1] \notin exists \/ view[f] = value[f])

\* Events never starve a request of the window slot its response needs.
RequestAnswered == (req.op # "none") ~> (req.op = "none")
=============================================================================
