---------------------------- MODULE DaspWindows ----------------------------
(***************************************************************************)
(* The sequence-number arithmetic of the DASP sliding windows, shared by   *)
(* the Sedona server (sox/ReceiveWindow.sedona, sox/SendWindow.sedona) and *)
(* the Java client (dasp/ReceiveWindow.java, dasp/SendWindow.java), which  *)
(* carry the same algorithm with different widths.                         *)
(*                                                                         *)
(* A receive window is a record                                            *)
(*   seqNum : last sequence number received in order, exclusive start of   *)
(*            the window (-1 after init(0): the code masks it when sent)   *)
(*   more   : seqMore as the set of its one bits; bit k stands for         *)
(*            seqNum + k, and bit 0 is always set                          *)
(*   acked  : nothing has been received since the last ack header          *)
(*                                                                         *)
(* A datagram of one direction of a session is its position i: the first   *)
(* is 0, and Wire(i) is the number it bears on the wire.                   *)
(***************************************************************************)
EXTENDS Integers

CONSTANTS
  SeqMod,     \* size of the sequence space (0x10000 in the code)
  RecvMax,    \* ReceiveWindow.max (32 on the server, 31 in the client)
  MaskBits,   \* width of seqMore (32)
  AckBits,    \* bits of seqMore an ackMore header carries (8 from the server)
  Horizon,    \* unackEnd - unackStart (10000)
  WideShift,  \* what 1 << d yields for d >= MaskBits: "wraps" or "drops"
  FirstSeq,   \* the random number a direction starts at
  Lifetime,   \* a packet this many datagrams old has left the network
  MaxMsgs     \* bound of the model: datagrams of a direction

ASSUME WindowSizes ==
  /\ SeqMod \in Nat /\ RecvMax \in Nat \ {0} /\ MaskBits \in Nat \ {0}
  /\ AckBits \in 1..MaskBits /\ Horizon \in Nat
  /\ RecvMax + 1 < SeqMod /\ Horizon + 1 < SeqMod /\ MaskBits < SeqMod
  /\ WideShift \in {"wraps", "drops"}
  /\ FirstSeq \in 0..(SeqMod - 1) /\ Lifetime \in Nat /\ MaxMsgs \in Nat

Msgs == 0..(MaxMsgs - 1)
Wire(i) == (FirstSeq + i) % SeqMod

\* With rec[i] how often datagram i was processed: 0..(First(rec) - 1) all have been.
First(rec) == CHOOSE n \in 0..MaxMsgs :
                /\ \A i \in 0..(n - 1) : rec[i] > 0
                /\ n < MaxMsgs => rec[n] = 0

\* x & 0xffff, for the one lap below or above the space the code ever reaches.
Mask(x) == IF x < 0 THEN x + SeqMod
           ELSE IF x >= SeqMod THEN x - SeqMod ELSE x

-----------------------------------------------------------------------------
(* Receiving *)

\* ReceiveWindow.init: the server keeps num - 1 unmasked, so it may be -1.
InitWindow(num) == [seqNum |-> num - 1, more |-> {0}, acked |-> FALSE]

\* Mutant of InWindow: the lower bound forgotten.
InWindowFromZero(start, num) ==
  IF start + RecvMax < SeqMod THEN num <= start + RecvMax
  ELSE start < num \/ num <= start + RecvMax - (SeqMod - 1)

\* The range check of receive: end wraps by 0xffff, one less than the space,
\* so a window that straddles the wrap is one number wider.
InWindow(start, num) ==
  LET end == start + RecvMax
  IN IF end < SeqMod
     THEN start < num /\ num <= end
     ELSE start < num \/ num <= end - (SeqMod - 1)

IsNext(start, num) == num = start + 1 \/ (num = 0 /\ start = SeqMod - 1)

\* The bits of 1 << d. The VM shifts a C int: a count at or above its width
\* is undefined there and gives either of two results on the VM's targets.
ShiftedBit(d) == IF d < MaskBits THEN {d}
                 ELSE IF WideShift = "wraps" THEN {d % MaskBits} ELSE {}

\* do { seqNum++; seqMore >>= 1 } while (seqMore & 2): the number of turns.
SlideBy(more) == CHOOSE n \in 1..MaskBits :
                   /\ n + 1 \notin more
                   /\ \A k \in 2..n : k \in more

\* Mutant of Slide: the mask one shift short.
SlideMaskOnce(win) ==
  [seqNum |-> Mask(win.seqNum + SlideBy(win.more)),
   more   |-> {b - 1 : b \in {c \in win.more : c >= 1}} \cup {0},
   acked  |-> FALSE]

Slide(win) ==
  LET n == SlideBy(win.more)
  IN [seqNum |-> Mask(win.seqNum + n),
      more   |-> {b - n : b \in {c \in win.more : c >= n}} \cup {0},
      acked  |-> FALSE]

\* The three ways receive(num) ends: processed, out of range (which forces an
\* ack on the next outgoing message) or already recorded (which does not).
Processed(win, num) ==
  /\ InWindow(win.seqNum, num)
  /\ \/ IsNext(win.seqNum, num)
     \/ ShiftedBit(Mask(num - win.seqNum)) \cap win.more = {}

\* Mutant of Receive: a datagram out of range does not force an ack.
ReceiveSilently(win, num) ==
  IF IsNext(win.seqNum, num) /\ InWindow(win.seqNum, num) THEN Slide(win)
  ELSE IF ~Processed(win, num) THEN win
  ELSE [seqNum |-> win.seqNum,
        more   |-> win.more \cup ShiftedBit(Mask(num - win.seqNum)),
        acked  |-> FALSE]

Receive(win, num) ==
  IF ~InWindow(win.seqNum, num) THEN [win EXCEPT !.acked = FALSE]
  ELSE IF IsNext(win.seqNum, num) THEN Slide(win)
  ELSE IF ~Processed(win, num) THEN win
  ELSE [seqNum |-> win.seqNum,
        more   |-> win.more \cup ShiftedBit(Mask(num - win.seqNum)),
        acked  |-> FALSE]

-----------------------------------------------------------------------------
(* Acknowledging *)

\* The ack header, and the ackMore header sent when seqMore > 1: the compare
\* is signed, so a seqMore with its top bit set sends none.
AckOf(win) == Mask(win.seqNum)
AckMoreOf(win) ==
  IF win.more = {0} \/ MaskBits - 1 \in win.more THEN {}
  ELSE {b \in win.more : b < AckBits}

\* Mutant of IsAcked: the wrapped range is tested like a straight one.
IsAckedNoWrap(ack, ackMore, num) ==
  LET start == Mask(ack + 1)
      end   == Mask(start + Horizon)
  IN num < start \/ num > end \/ Mask(num - ack) \in ackMore

\* SendWindow.isAcked: everything outside [ack + 1, ack + 1 + Horizon] counts
\* as acknowledged, and so does what ackMore names.
IsAcked(ack, ackMore, num) ==
  LET start == Mask(ack + 1)
      end   == Mask(start + Horizon)
  IN \/ IF start <= end THEN num < start \/ num > end
                        ELSE num < start /\ num > end
     \/ Mask(num - ack) \in ackMore
=============================================================================
