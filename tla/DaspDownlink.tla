---------------------------- MODULE DaspDownlink ----------------------------
(***************************************************************************)
(* Server to client: the server's SendWindow (sox/SendWindow.sedona), an   *)
(* unreliable network, and the client's ReceiveWindow                      *)
(* (sedona/dasp/ReceiveWindow.java).                                       *)
(*                                                                         *)
(* Datagram i is the i-th the server sends; on the wire it is Wire(i).     *)
(* The server's short seqNum is Wire(next), and the network is the set of  *)
(* packets in flight: reception may leave the packet there, so packets are *)
(* duplicated and reordered, and Lose drops them.                          *)
(***************************************************************************)
EXTENDS DaspWindows, FiniteSets

CONSTANTS
  NumSlots,    \* SendWindow.max (8)
  RetryTicks,  \* PKT_RETRY_INTERVAL / HOUSE_KEEPING_INTERVAL (10)
  AgeMod,      \* a Sedona byte holds SendPacket.age (256)
  MaxTicks     \* most house keeping ticks between two runs of sendRetries

ASSUME DownlinkSizes ==
  /\ NumSlots \in Nat \ {0}
  /\ RetryTicks \in Nat \ {0} /\ AgeMod \in Nat /\ RetryTicks < AgeMod
  /\ MaxTicks \in Nat \ {0}

Slots == 1..NumSlots

VARIABLES
  next,        \* how many datagrams were allocated
  packets,     \* SendWindow.packets: [age, id] of each slot
  numUnacked,  \* SendWindow.numUnacked
  dataNet,     \* datagrams in flight to the client
  ackNet,      \* acknowledgements in flight to the server
  win,         \* the client's ReceiveWindow
  received     \* how often the client has processed each datagram

sendVars == <<next, packets, numUnacked>>
recvVars == <<win, received>>
vars == <<sendVars, dataNet, ackNet, recvVars>>

Pending == {packets[s].id : s \in {t \in Slots : packets[t].age # 0}}
Delivered == {i \in Msgs : received[i] > 0}

\* Datagrams 0..(InOrder - 1) have all been processed by the client.
InOrder == First(received)

\* SendWindow.reset on the server; the client's tune() calls init with the
\* sequence number of the WELCOME, the server's next one.
Init ==
  /\ next = 0
  /\ packets = [s \in Slots |-> [age |-> 0, id |-> -1]]
  /\ numUnacked = 0
  /\ dataNet = {}
  /\ ackNet = {}
  /\ win = [InitWindow(FirstSeq) EXCEPT !.seqNum = Mask(@)]
  /\ received = [i \in Msgs |-> 0]

-----------------------------------------------------------------------------
(* The server *)

FreeSlots == {s \in Slots : packets[s].age = 0}

\* nextPacket: the first slot whose age is zero, and the packet sent in it.
\* A response or an event takes it; enqueueEvent gives up when it is null.
NextPacket ==
  /\ next < MaxMsgs
  /\ \E s \in FreeSlots :
       /\ \A t \in FreeSlots : s <= t
       /\ packets' = [packets EXCEPT ![s] = [age |-> 1, id |-> next]]
  /\ next' = next + 1
  /\ numUnacked' = numUnacked + 1
  /\ dataNet' = dataNet \cup {next}
  /\ UNCHANGED <<ackNet, recvVars>>

\* Mutant of CheckAckHeaders: slots that are not in use are acknowledged too.
CheckAckHeadersAll(a) ==
  LET acked == {s \in Slots : IsAcked(a.ack, a.more, Wire(packets[s].id))}
  IN /\ a \in ackNet
     /\ next - a.upTo <= Lifetime
     /\ packets' = [s \in Slots |-> IF s \in acked
                                    THEN [packets[s] EXCEPT !.age = 0]
                                    ELSE packets[s]]
     /\ numUnacked' = numUnacked - Cardinality(acked)
     /\ ackNet' \in {ackNet, ackNet \ {a}}
     /\ UNCHANGED <<next, dataNet, recvVars>>

\* checkAckHeaders on a message that carries an ack header.
CheckAckHeaders(a) ==
  LET acked == {s \in Slots : /\ packets[s].age # 0
                              /\ IsAcked(a.ack, a.more, Wire(packets[s].id))}
  IN /\ a \in ackNet
     /\ next - a.upTo <= Lifetime
     /\ packets' = [s \in Slots |-> IF s \in acked
                                    THEN [packets[s] EXCEPT !.age = 0]
                                    ELSE packets[s]]
     /\ numUnacked' = numUnacked - Cardinality(acked)
     /\ ackNet' \in {ackNet, ackNet \ {a}}
     /\ UNCHANGED <<next, dataNet, recvVars>>

\* age += ticks in a byte, then the retry test; a packet sent again is young.
Aged(age, ticks) == (age + ticks) % AgeMod
IsRetried(s, ticks) == packets[s].age # 0 /\ Aged(packets[s].age, ticks) > RetryTicks

\* sendRetries, after some number of house keeping ticks.
SendRetries(ticks) ==
  /\ numUnacked # 0
  /\ packets' = [s \in Slots |->
       IF packets[s].age = 0 THEN packets[s]
       ELSE [packets[s] EXCEPT !.age =
               IF IsRetried(s, ticks) THEN 1 ELSE Aged(@, ticks)]]
  /\ dataNet' = dataNet \cup {packets[s].id : s \in {t \in Slots : IsRetried(t, ticks)}}
  /\ UNCHANGED <<next, numUnacked, ackNet, recvVars>>

-----------------------------------------------------------------------------
(* The client *)

\* DaspSession.dispatch of a DATAGRAM, which goes on to the receive queue
\* when the window lets it through.
ReceiveData(i) ==
  /\ i \in dataNet
  /\ next - i <= Lifetime
  /\ dataNet' \in {dataNet, dataNet \ {i}}
  /\ win' = Receive(win, Wire(i))
  /\ received' = IF Processed(win, Wire(i))
                 THEN [received EXCEPT ![i] = IF @ = 0 THEN 1 ELSE 2]
                 ELSE received
  /\ UNCHANGED <<sendVars, ackNet>>

\* setAckHeaders on any outgoing message: a request, a retry or a keep alive.
SendAck ==
  /\ ackNet' = ackNet \cup {[ack |-> AckOf(win), more |-> AckMoreOf(win),
                             upTo |-> InOrder]}
  /\ win' = [win EXCEPT !.acked = TRUE]
  /\ UNCHANGED <<sendVars, dataNet, received>>

-----------------------------------------------------------------------------
(* The network *)

Lose ==
  /\ \/ \E i \in dataNet : dataNet' = dataNet \ {i} /\ UNCHANGED ackNet
     \/ \E a \in ackNet : ackNet' = ackNet \ {a} /\ UNCHANGED dataNet
  /\ UNCHANGED <<sendVars, recvVars>>

Next ==
  \/ NextPacket
  \/ \E a \in ackNet : CheckAckHeaders(a)
  \/ \E ticks \in 1..MaxTicks : SendRetries(ticks)
  \/ \E i \in dataNet : ReceiveData(i)
  \/ SendAck
  \/ Lose

Spec == Init /\ [][Next]_vars

\* House keeping keeps running on both sides (the service loop, the socket's
\* house keeping thread), and the network lets through a packet that is sent
\* again and again. Of the acknowledgements that is the current one.
CurrentAck == [ack |-> AckOf(win), more |-> AckMoreOf(win), upTo |-> InOrder]

Fairness ==
  /\ WF_vars(\E ticks \in 1..MaxTicks : SendRetries(ticks))
  /\ WF_vars(~win.acked /\ SendAck)
  /\ \A i \in Msgs : SF_vars(ReceiveData(i))
  /\ SF_vars(CurrentAck \in ackNet /\ CheckAckHeaders(CurrentAck))

FairSpec == Spec /\ Fairness

-----------------------------------------------------------------------------
(* Properties *)

\* The wire-level window means what its fields say: seqNum is the last number
\* received in order and bit k of seqMore is set for exactly the datagrams
\* received beyond it. An aliased shift or a lost bit breaks it.
WindowMatches ==
  /\ win.seqNum = Wire(SeqMod + InOrder - 1)
  /\ win.more = {0} \cup {i - InOrder + 1 : i \in {j \in Delivered : j >= InOrder}}

\* numUnacked counts the slots in use: dispatch relies on it to know that
\* nextPacket will not be null for the response (SoxService.dispatch).
UnackedCountsSlots == numUnacked = Cardinality({s \in Slots : packets[s].age # 0})

\* The server never runs further ahead of the client than the acknowledgement
\* bits and its slots allow, although slots are freed out of order: what makes the
\* 10000-wide test of isAcked and one byte of wire number enough.
SpanBounded == next - InOrder <= AckBits - 2 + NumSlots

\* Whatever the network loses, repeats or reorders and wherever the 16-bit numbers
\* wrap, no datagram is processed twice, and the sender forgets it only after the
\* client has processed it.
Promise == INSTANCE ExactlyOnce WITH
             pending <- Pending, delivered <- received, Capacity <- NumSlots
ImplementsExactlyOnce == Promise!Spec

\* Every datagram the server sends is acknowledged and its slot freed; it has then
\* reached the client, as ImplementsExactlyOnce says.
EventuallyForgotten == \A i \in Msgs : (i \in Pending) ~> (i \notin Pending)
=============================================================================
