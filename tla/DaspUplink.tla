----------------------------- MODULE DaspUplink -----------------------------
(***************************************************************************)
(* Client to server: the client's SendWindow (sedona/dasp/SendWindow.java) *)
(* used by several application threads, an unreliable network, and the     *)
(* server's ReceiveWindow (sox/ReceiveWindow.sedona).                      *)
(*                                                                         *)
(* SendWindow.send is three steps of the calling thread with the monitor   *)
(* released in between: take a sequence number, append to the linked list  *)
(* (waiting while it is full), put the datagram on the wire. Datagram i is *)
(* the i-th to take a number; on the wire it is Wire(i). A datagram that   *)
(* finds the server's own send window full is tossed before the receive    *)
(* window sees it (SoxService.dispatch): that is the UplinkLose step here. *)
(*                                                                         *)
(* No name is one of DaspDownlink's: Dasp_proofs extends both directions.  *)
(***************************************************************************)
EXTENDS DaspWindows, Sequences, FiniteSets

CONSTANTS
  Threads,     \* application threads that send on the session
  SendSize     \* SendWindow.sendSize, the receiveMax of the WELCOME (8)

ASSUME UplinkSizes == IsFiniteSet(Threads) /\ SendSize \in Nat \ {0}

VARIABLES
  taken,     \* how many sequence numbers were taken
  sender,    \* [at, id] of each thread inside SendWindow.send
  queue,     \* the linked list head..tail: [id, acked]
  toServer,  \* datagrams in flight to the server
  toClient,  \* acknowledgements in flight to the client
  window,    \* the server's ReceiveWindow
  handled    \* how often the server has processed each datagram

clientVars == <<taken, sender, queue>>
serverVars == <<window, handled>>
uplinkVars == <<clientVars, toServer, toClient, serverVars>>

Idle == [at |-> "idle", id |-> -1]

Queued == {queue[k].id : k \in DOMAIN queue}
Unacked == {queue[k].id : k \in {j \in DOMAIN queue : ~queue[j].acked}}
Handled == {i \in Msgs : handled[i] > 0}

\* Datagrams 0..(ServerNext - 1) have all been processed by the server.
ServerNext == First(handled)

\* The server calls init with the sequence number of the HELLO, the client's
\* next one.
UplinkInit ==
  /\ taken = 0
  /\ sender = [t \in Threads |-> Idle]
  /\ queue = <<>>
  /\ toServer = {}
  /\ toClient = {}
  /\ window = InitWindow(FirstSeq)
  /\ handled = [i \in Msgs |-> 0]

-----------------------------------------------------------------------------
(* The client *)

\* send: p.seqNum = nextSeqNum().
NextSeqNum(t) ==
  /\ sender[t].at = "idle" /\ taken < MaxMsgs
  /\ sender' = [sender EXCEPT ![t] = [at |-> "numbered", id |-> taken]]
  /\ taken' = taken + 1
  /\ UNCHANGED <<queue, toServer, toClient, serverVars>>

Full == Len(queue) >= SendSize

\* enqueue: wait while the window is full, then append.
Enqueue(t) ==
  /\ sender[t].at = "numbered" /\ ~Full
  /\ queue' = Append(queue, [id |-> sender[t].id, acked |-> FALSE])
  /\ sender' = [sender EXCEPT ![t].at = "queued"]
  /\ UNCHANGED <<taken, toServer, toClient, serverVars>>

\* wait() throws InterruptedException out of send.
Interrupted(t) ==
  /\ sender[t].at = "numbered" /\ Full
  /\ sender' = [sender EXCEPT ![t] = Idle]
  /\ UNCHANGED <<taken, queue, toServer, toClient, serverVars>>

\* session.send(toMsg(p)).
Transmit(t) ==
  /\ sender[t].at = "queued"
  /\ toServer' = toServer \cup {sender[t].id}
  /\ sender' = [sender EXCEPT ![t] = Idle]
  /\ UNCHANGED <<taken, queue, toClient, serverVars>>

\* sendRetries of the house keeping thread: resend what has been unacked for
\* sendRetry milliseconds, a timer of each packet.
ClientSendRetries(due) ==
  /\ due # {} /\ due \subseteq Unacked
  /\ toServer' = toServer \cup due
  /\ UNCHANGED <<clientVars, toClient, serverVars>>

\* Mutant of ClientCheckAckHeaders: what follows the acked head goes with it.
ClientCheckAckHeadersGreedy(a) ==
  LET popped == IF queue # <<>> /\ IsAcked(a.ack, a.more, Wire(queue[1].id))
                THEN Len(queue) ELSE 0
  IN /\ a \in toClient
     /\ taken - a.upTo <= Lifetime
     /\ queue' = SubSeq(queue, popped + 1, Len(queue))
     /\ toClient' \in {toClient, toClient \ {a}}
     /\ UNCHANGED <<taken, sender, toServer, serverVars>>

\* checkAckHeaders: mark what is acked, then drop the acked head of the list.
ClientCheckAckHeaders(a) ==
  LET marked == [k \in DOMAIN queue |->
        [queue[k] EXCEPT !.acked = @ \/ IsAcked(a.ack, a.more, Wire(queue[k].id))]]
      popped == CHOOSE n \in 0..Len(queue) :
        /\ \A k \in 1..n : marked[k].acked
        /\ n < Len(queue) => ~marked[n + 1].acked
  IN /\ a \in toClient
     /\ taken - a.upTo <= Lifetime
     /\ queue' = SubSeq(marked, popped + 1, Len(queue))
     /\ toClient' \in {toClient, toClient \ {a}}
     /\ UNCHANGED <<taken, sender, toServer, serverVars>>

-----------------------------------------------------------------------------
(* The server *)

\* dispatch of a DATAGRAM while the server's send window has room.
ServerReceive(i) ==
  /\ i \in toServer
  /\ taken - i <= Lifetime
  /\ toServer' \in {toServer, toServer \ {i}}
  /\ window' = Receive(window, Wire(i))
  /\ handled' = IF Processed(window, Wire(i))
                THEN [handled EXCEPT ![i] = IF @ = 0 THEN 1 ELSE 2]
                ELSE handled
  /\ UNCHANGED <<clientVars, toClient>>

ServerAck == [ack |-> AckOf(window), more |-> AckMoreOf(window), upTo |-> ServerNext]

\* setAckHeaders on a response, event or chunk: nothing when already acked.
Piggyback ==
  /\ ~window.acked
  /\ toClient' = toClient \cup {ServerAck}
  /\ window' = [window EXCEPT !.acked = TRUE]
  /\ UNCHANGED <<clientVars, toServer, handled>>

\* keepAlive forces the ack: house keeping sends one when there is something
\* to acknowledge, or when the server has sent nothing for a while.
KeepAlive ==
  /\ toClient' = toClient \cup {ServerAck}
  /\ window' = [window EXCEPT !.acked = TRUE]
  /\ UNCHANGED <<clientVars, toServer, handled>>

-----------------------------------------------------------------------------
(* The network *)

UplinkLose ==
  /\ \/ \E i \in toServer : toServer' = toServer \ {i} /\ UNCHANGED toClient
     \/ \E a \in toClient : toClient' = toClient \ {a} /\ UNCHANGED toServer
  /\ UNCHANGED <<clientVars, serverVars>>

UplinkNext ==
  \/ \E t \in Threads : NextSeqNum(t) \/ Enqueue(t) \/ Interrupted(t) \/ Transmit(t)
  \/ \E due \in SUBSET Unacked : ClientSendRetries(due)
  \/ \E a \in toClient : ClientCheckAckHeaders(a)
  \/ \E i \in toServer : ServerReceive(i)
  \/ Piggyback \/ KeepAlive
  \/ UplinkLose

UplinkSpec == UplinkInit /\ [][UplinkNext]_uplinkVars

-----------------------------------------------------------------------------
(* Properties *)

\* The wire-level window means what its fields say (see DaspDownlink); init
\* leaves seqNum at -1 unmasked until the first slide.
ServerWindowMatches ==
  /\ Mask(window.seqNum) = Wire(SeqMod + ServerNext - 1)
  /\ window.more = {0} \cup {i - ServerNext + 1 : i \in {j \in Handled : j >= ServerNext}}

\* Whatever the network loses, repeats or reorders and wherever the 16-bit numbers
\* wrap, no datagram is processed twice, and the sender forgets it only after the
\* server has, although the threads append numbers out of order.
UplinkPromise == INSTANCE ExactlyOnce WITH
                   pending <- Queued, delivered <- handled, Capacity <- SendSize
UplinkExactlyOnce == UplinkPromise!Spec
=============================================================================
