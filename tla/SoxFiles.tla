------------------------------ MODULE SoxFiles ------------------------------
(***************************************************************************)
(* The file transfers of one SoxSession (sox/FileTransfer.sedona and the   *)
(* file commands of SoxCommands) with those of the Java client             *)
(* (sox/FileTransfer.java).                                                *)
(*                                                                         *)
(* DASP delivers every message once and in any order. A file is a number   *)
(* of chunks; chunk k of transfer i is <<i, k>>.                           *)
(***************************************************************************)
EXTENDS Integers, FiniteSets, FiniteSetsExt

CONSTANTS
  GetSizes,     \* sizes of the files that are read, in chunks
  PutSizes,     \* sizes of the files that are written
  NumSlots,     \* SendWindow.max (8)
  ChunkMod,     \* numChunks, nextChunk and chunk numbers are shorts (0x10000)
  Aborts,       \* the methods of transfers the client gives up on
  MaxTransfers, \* bound of the model: transfers of the session
  MaxEvents     \* bound of the model: events that take window slots

ASSUME FileSizes ==
  /\ GetSizes \subseteq Nat /\ PutSizes \subseteq Nat
  /\ NumSlots \in Nat \ {0} /\ ChunkMod \in Nat \ {0, 1}
  /\ Aborts \subseteq {"get", "put"}
  /\ MaxTransfers \in Nat /\ MaxEvents \in Nat

Transfers == 0..MaxTransfers
Contents(i, size) == {<<i, k>> : k \in 0..(size - 1)}

VARIABLES
  tx,      \* FileTransfer: [mode, num, next, of], of: whose transfer it is
  packets, \* the send window: [n, cmd, arg, of, seen]
  sent,    \* packets allocated
  disk,    \* what is in the file each put has written
  up,      \* messages to the server: [cmd, tr, method, arg, size]
  c,       \* the client's transfer: [at, tr, method, size, num, next, got,
           \* count, queue, closed]
  gaveUp,  \* the transfers that timed out
  events   \* events sent

server == <<tx, packets, sent, disk>>
vars == <<server, up, c, gaveUp, events>>

Ended == {"idle", "done", "refused", "timedOut"}
Running == {"opening", "receiving", "sending", "waiting", "closing"}

\* The fields of a new FileTransfer object.
NewTransfer(i, method, size) ==
  [at |-> "opening", tr |-> i, method |-> method, size |-> size, num |-> 0,
   next |-> 0, got |-> {}, count |-> 0, queue |-> {}, closed |-> FALSE]

\* SoxSession.reset; the client has opened its session.
Init ==
  /\ tx = [mode |-> "unused", num |-> 0, next |-> 0, of |-> 0]
  /\ packets = {} /\ sent = 0
  /\ disk = [i \in Transfers |-> {}]
  /\ up = {}
  /\ c = [NewTransfer(0, "get", 0) EXCEPT !.at = "idle"]
  /\ gaveUp = {} /\ events = 0

-----------------------------------------------------------------------------
(* The server: each call of SoxService.work handles at most one message and *)
(* then gives the transfer a turn. Both are functions of its state.         *)

State == [tx |-> tx, packets |-> packets, sent |-> sent, disk |-> disk]

\* nextPacket and the first transmission.
Send(s, cmd, arg) ==
  [s EXCEPT !.packets = @ \cup {[n |-> s.sent + 1, cmd |-> cmd, arg |-> arg,
                                 of |-> s.tx.of, seen |-> FALSE]},
            !.sent = @ + 1]
HasRoom(s) == Cardinality(s.packets) < NumSlots

\* A get reads at most what it asks for, and the whole file if it asks for 0.
Asked(arg, size) == IF arg = 0 THEN size ELSE Min({arg, size})

\* fileOpenReq; numChunks is a short.
FileOpen(s, m) ==
  LET asked == Asked(m.arg, m.size)
  IN IF s.tx.mode # "unused" \/ m.arg >= ChunkMod - 1
     THEN Send(s, "!", 0)
     ELSE Send([s EXCEPT !.tx = [mode |-> m.method, num |-> asked % ChunkMod,
                                 next |-> 0, of |-> m.tr]], "F", asked)

FileCloseKeepsMode(s) == Send(s, "Z", 0) \* mutant: the transfer is not freed
FileClose(s) == Send([s EXCEPT !.tx.mode = "unused"], "Z", 0)

\* fileReceiveChunk: no response; a chunk that comes too late is dropped.
ReceiveChunk(s, m) ==
  IF s.tx.mode # "put" THEN s
  ELSE [s EXCEPT !.disk[s.tx.of] = @ \cup ({<<m.tr, m.arg>>} \cap Contents(m.tr, m.size)),
                 !.tx.num = (@ - 1 + ChunkMod) % ChunkMod]

Dispatch(s, m) == CASE m.cmd = "f" -> FileOpen(s, m)
                    [] m.cmd = "z" -> FileClose(s)
                    [] m.cmd = "k" -> ReceiveChunk(s, m)

AllReceivedButLast(s) == s.tx.mode = "put" /\ s.tx.num <= 1 \* mutant: off by one
AllReceived(s) == s.tx.mode = "put" /\ s.tx.num = 0

\* checkGet: the next chunk. checkPut: the close, once all chunks are here.
CheckTransfer(s) ==
  IF ~HasRoom(s) THEN s
  ELSE IF s.tx.mode = "get" /\ s.tx.next < s.tx.num
  THEN [Send(s, "k", s.tx.next) EXCEPT !.tx.next = @ + 1]
  ELSE IF AllReceived(s)
  THEN Send([s EXCEPT !.tx.mode = "unused"], "z", 0)
  ELSE s

Become(s) ==
  tx' = s.tx /\ packets' = s.packets /\ sent' = s.sent /\ disk' = s.disk

\* dispatch gives up when the window has no room, also for a chunk.
WorkMessage(m) ==
  /\ m \in up /\ HasRoom(State)
  /\ Become(CheckTransfer(Dispatch(State, m)))
  /\ up' = up \ {m}
  /\ UNCHANGED <<c, gaveUp, events>>

\* An ack header of some message: the slots of what the client has seen.
CheckAckHeaders ==
  \E acked \in SUBSET {p \in packets : p.seen} \ {{}} :
    /\ \/ Become(CheckTransfer([State EXCEPT !.packets = @ \ acked])) /\ UNCHANGED up
       \/ \E m \in up :
            /\ Become(CheckTransfer(Dispatch([State EXCEPT !.packets = @ \ acked], m)))
            /\ up' = up \ {m}
    /\ UNCHANGED <<c, gaveUp, events>>

\* A turn of work() without a message.
Work ==
  /\ Become(CheckTransfer(State)) /\ State # CheckTransfer(State)
  /\ UNCHANGED <<up, c, gaveUp, events>>

\* checkForEvents, which shares the window.
Event ==
  /\ events < MaxEvents /\ HasRoom(State)
  /\ Become(Send(State, "e", 0)) /\ events' = events + 1
  /\ UNCHANGED <<up, c, gaveUp>>

-----------------------------------------------------------------------------
(* The client: one transfer at a time, its messages in any order.           *)

Message(cmd, arg, size) ==
  [cmd |-> cmd, tr |-> c'.tr, method |-> c'.method, arg |-> arg, size |-> size]

\* getFile, putFile and start: a get may ask for the whole file with 0.
Start ==
  /\ c.at \in Ended /\ c.tr < MaxTransfers
  /\ \/ \E size \in GetSizes, arg \in GetSizes \cup {0} :
          /\ c' = NewTransfer(c.tr + 1, "get", Asked(arg, size))
          /\ up' = up \cup {Message("f", arg, size)}
     \/ \E size \in PutSizes :
          /\ c' = NewTransfer(c.tr + 1, "put", size)
          /\ up' = up \cup {Message("f", size, size)}
  /\ UNCHANGED <<server, gaveUp, events>>

\* receiveChunk: chunks out of range are dropped.
TakeChunks(t, chunks) ==
  LET good == {p \in chunks : p.arg < t.num}
  IN [t EXCEPT !.got = @ \cup {<<p.of, p.arg>> : p \in good},
               !.count = @ + Cardinality(good), !.queue = {}]

\* mutant: the chunks that came before the response are not flushed
OpenedNoFlush(t, size) ==
  IF t.method = "put"
  THEN [t EXCEPT !.at = "sending", !.num = Max({size, 1})]
  ELSE TakeChunks([t EXCEPT !.at = "receiving", !.num = size], {})

\* The rest of start and the flush of the chunks that came before it: a put
\* sends at least one chunk.
Opened(t, size) ==
  IF t.method = "put"
  THEN [t EXCEPT !.at = "sending", !.num = Max({size, 1})]
  ELSE TakeChunks([t EXCEPT !.at = "receiving", !.num = size], t.queue)

\* What SoxReceiver.dispatch does to the transfer; none is left once it ends.
Received(t, p) ==
  CASE p.cmd = "F" /\ t.at = "opening" -> Opened(t, p.arg)
    [] p.cmd = "!" /\ t.at = "opening" -> [t EXCEPT !.at = "refused"]
    [] p.cmd = "Z" /\ t.at = "closing" -> [t EXCEPT !.at = "done"]
    [] p.cmd = "k" /\ t.at = "opening" -> [t EXCEPT !.queue = @ \cup {p}]
    [] p.cmd = "k" /\ t.at = "receiving" -> TakeChunks(t, {p})
    [] p.cmd = "z" /\ t.at \in Running -> [t EXCEPT !.closed = TRUE]
    [] OTHER -> t

Receive(p) ==
  /\ p \in packets /\ ~p.seen
  /\ packets' = (packets \ {p}) \cup {[p EXCEPT !.seen = TRUE]}
  /\ c' = Received(c, p)
  /\ UNCHANGED <<tx, sent, disk, up, gaveUp, events>>

\* sendChunk, in the loop of doPutFile.
SendChunk ==
  /\ c.at = "sending"
  /\ c' = [c EXCEPT !.next = @ + 1, !.at = IF c.next + 1 < c.num THEN @ ELSE "waiting"]
  /\ up' = up \cup {Message("k", c.next, c.size)}
  /\ UNCHANGED <<server, gaveUp, events>>

\* doPutFile: the server has closed the file.
PutDone ==
  /\ c.at = "waiting" /\ c.closed
  /\ c' = [c EXCEPT !.at = "done"]
  /\ UNCHANGED <<server, up, gaveUp, events>>

\* doGetFile: every chunk is here, the close is requested.
GetDone ==
  /\ c.at = "receiving" /\ c.count >= c.num
  /\ c' = [c EXCEPT !.at = "closing"]
  /\ up' = up \cup {Message("z", 0, c.size)}
  /\ UNCHANGED <<server, gaveUp, events>>

\* "file transfer timed out": the server is not told.
StillWaits ==
  \/ c.at = "receiving" /\ c.count < c.num
  \/ c.at = "waiting" /\ ~c.closed
Abort ==
  /\ c.method \in Aborts /\ StillWaits
  /\ c' = [c EXCEPT !.at = "timedOut"]
  /\ gaveUp' = gaveUp \cup {c.tr}
  /\ UNCHANGED <<server, up, events>>

Transferring ==
  \/ \E m \in up : WorkMessage(m)
  \/ CheckAckHeaders
  \/ Work
  \/ \E p \in packets : Receive(p)
  \/ SendChunk
  \/ PutDone
  \/ GetDone

Next == Transferring \/ Event \/ Start \/ Abort

Spec == Init /\ [][Next]_vars

\* DASP retries what is lost, the server's loop and the client's threads run.
Fairness == WF_vars(Transferring)
LiveSpec == Spec /\ Fairness

-----------------------------------------------------------------------------
(* A transfer the client reports as done is complete: the file has exactly  *)
(* the chunks of this transfer (doGetFile counts them, doPutFile relies on   *)
(* the server's close).                                                      *)
DoneIsComplete ==
  c.at = "done" =>
    Contents(c.tr, c.size) = IF c.method = "put" THEN disk[c.tr] ELSE c.got

(* A client that runs its transfers one after the other is never refused as *)
(* busy: when it takes one as done the server has freed it. Only a get it    *)
(* gave up on stays in the way, until the session ends.                      *)
NextIsAccepted == c.at = "refused" => tx.of \in gaveUp

(* Every transfer comes to an end.                                          *)
TransferEnds == (c.at \in Running) ~> (c.at \in Ended)
=============================================================================
