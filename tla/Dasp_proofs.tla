---------------------------- MODULE Dasp_proofs ----------------------------
(***************************************************************************)
(* Proofs about DaspDownlink and DaspUplink, for any number of slots,      *)
(* threads and datagrams and whatever the network loses, repeats and       *)
(* reorders: that the send window of the device counts its slots, that a   *)
(* receive window means what its fields say, and that each datagram is     *)
(* processed once.                                                         *)
(***************************************************************************)
EXTENDS DaspDownlink, DaspUplink, FiniteSetTheorems, SequenceTheorems,
        WellFoundedInduction, TLAPS

-----------------------------------------------------------------------------
(* What the arithmetic of the windows yields, for any size of the sequence *)
(* space, of the window and of the mask.                                   *)

Wires == 0..(SeqMod - 1)

\* Sets of numbers have a least one.
LEMMA Least ==
  ASSUME NEW S \in SUBSET Nat, S # {}
  PROVE  \E n \in S : \A m \in S : n <= m
<1>1. PICK n \in S : \A m \in S : <<m, n>> \notin OpToRel(<, Nat)
  BY WFMin, NatLessThanWellFounded, Zenon
<1>2. ASSUME NEW m \in S PROVE n <= m
  <2>1. m \in Nat /\ n \in Nat
    OBVIOUS
  <2>2. ~(m < n)
    BY <1>1, <2>1, Zenon DEF OpToRel
  <2> QED BY <2>1, <2>2
<1> QED BY <1>2

\* Division with remainder, and that there is one remainder.
LEMMA DivMod ==
  ASSUME NEW a \in Nat, NEW n \in Nat \ {0}
  PROVE  a % n \in 0..(n - 1) /\ a \div n \in Int /\ a = n * (a \div n) + (a % n)
OBVIOUS

LEMMA ModUnique ==
  ASSUME NEW n \in Nat \ {0}, NEW q \in Int, NEW r \in 0..(n - 1)
  PROVE  (n * q + r) % n = r
OBVIOUS

\* One lap at most: what Mask does is what % does.
LEMMA ModAdd ==
  ASSUME NEW a \in Nat, NEW n \in Nat \ {0}, NEW d \in 0..n
  PROVE  (a + d) % n = IF (a % n) + d < n THEN (a % n) + d ELSE (a % n) + d - n
<1> DEFINE q == a \div n
           r == a % n
<1>1. r \in 0..(n - 1) /\ q \in Int /\ a = n * q + r
  BY DivMod
<1> HIDE DEF q, r
<1>2. CASE r + d < n
  <2>1. a + d = n * q + (r + d) /\ r + d \in 0..(n - 1)
    BY <1>1, <1>2
  <2> QED BY <1>1, <1>2, <2>1, ModUnique DEF r
<1>3. CASE r + d >= n
  <2>1. n * (q + 1) = n * q + n
    BY <1>1
  <2>2. r + d - n \in 0..(n - 1) /\ q + 1 \in Int
    BY <1>1, <1>3
  <2>3. a + d = n * (q + 1) + (r + d - n)
    BY <1>1, <2>1
  <2>4. (n * (q + 1) + (r + d - n)) % n = r + d - n
    BY <2>2, ModUnique
  <2> QED BY <1>1, <1>3, <2>3, <2>4 DEF r
<1> QED BY <1>1, <1>2, <1>3

LEMMA MaskType ==
  ASSUME NEW x \in Wires, NEW d \in 0..SeqMod
  PROVE  Mask(x + d) \in Wires /\ Mask(x - d) \in Wires
BY WindowSizes DEF Mask, Wires

\* A number lies as far behind another as is added to get there.
LEMMA MaskBack ==
  ASSUME NEW x \in Wires, NEW d \in Wires
  PROVE  Mask(Mask(x + d) - x) = d
BY WindowSizes DEF Mask, Wires

\* receive lets through what is at most one number beyond the window.
LEMMA InWindowOffset ==
  ASSUME NEW start \in Wires, NEW num \in Wires, InWindow(start, num)
  PROVE  Mask(num - start) \in 1..(RecvMax + 1)
BY WindowSizes DEF InWindow, Mask, Wires

LEMMA IsNextOffset ==
  ASSUME NEW start \in Wires, NEW num \in Wires
  PROVE  IsNext(start, num) <=> Mask(num - start) = 1
BY WindowSizes DEF IsNext, Mask, Wires

LEMMA NextInWindow ==
  ASSUME NEW start \in Wires, NEW num \in Wires, IsNext(start, num)
  PROVE  InWindow(start, num)
BY WindowSizes DEF IsNext, InWindow, Wires

\* What is at most Horizon beyond the start of the range of isAcked is not outside.
LEMMA InHorizon ==
  ASSUME NEW start \in Wires, NEW h \in 0..Horizon
  PROVE  LET num == Mask(start + h)
             end == Mask(start + Horizon)
         IN  ~ IF start <= end THEN num < start \/ num > end
                               ELSE num < start /\ num > end
BY WindowSizes DEF Mask, Wires

\* The loop of receive stops at the first gap of the mask.
LEMMA SlideByIs ==
  ASSUME NEW more \in SUBSET (0..(MaskBits - 1))
  PROVE  /\ SlideBy(more) \in 1..MaskBits
         /\ SlideBy(more) + 1 \notin more
         /\ \A k \in 2..SlideBy(more) : k \in more
<1> DEFINE gaps == {n \in 1..MaskBits : n + 1 \notin more}
<1>1. MaskBits \in gaps /\ gaps \subseteq Nat
  BY WindowSizes
<1>2. PICK n \in gaps : \A m \in gaps : n <= m
  BY <1>1, Least
<1>3. ASSUME NEW k \in 2..n PROVE k \in more
  <2>1. k - 1 \in 1..MaskBits /\ k - 1 < n /\ (k - 1) + 1 = k
    BY <1>2, WindowSizes
  <2> QED BY <1>2, <2>1
<1>4. \E m \in 1..MaskBits : m + 1 \notin more /\ \A k \in 2..m : k \in more
  BY <1>2, <1>3
<1> QED BY <1>4 DEF SlideBy

-----------------------------------------------------------------------------
(* The window of slots                                                     *)

(* The loop of the device never stalls so long that the byte of an age     *)
(* wraps before sendRetries sees it.                                       *)
ShortStalls == RetryTicks + MaxTicks < AgeMod

InUse == {s \in Slots : packets[s].age # 0}

\* sendRetries leaves no packet older than the retry interval.
SlotTypes ==
  /\ next \in Nat
  /\ packets \in [Slots -> [age : 0..RetryTicks, id : Int]]

WindowInv == SlotTypes /\ UnackedCountsSlots

\* An age that does not reach the modulus is not changed by it.
LEMMA ModSmall ==
  ASSUME NEW m \in Nat, NEW x \in 0..(m - 1)
  PROVE  x % m = x
BY SMT

\* The slots in use are finitely many, whichever they are.
LEMMA SlotsFinite ==
  ASSUME NEW S \in SUBSET Slots
  PROVE  IsFiniteSet(S) /\ Cardinality(S) \in Nat
<1>1. IsFiniteSet(Slots)
  BY DownlinkSizes, FS_Interval DEF Slots
<1>2. IsFiniteSet(S)
  BY <1>1, FS_Subset
<1> QED
  BY <1>2, FS_CardinalityType

\* Taking away some of the slots in use takes away as many from their number.
LEMMA TakeAway ==
  ASSUME NEW S \in SUBSET Slots, NEW T \in SUBSET S
  PROVE  Cardinality(S \ T) = Cardinality(S) - Cardinality(T)
<1>1. IsFiniteSet(T) /\ IsFiniteSet(S \ T)
  BY SlotsFinite
<1>2. /\ Cardinality(T) \in Nat /\ Cardinality(S \ T) \in Nat
  BY <1>1, FS_CardinalityType
<1>3. T \cup (S \ T) = S /\ T \cap (S \ T) = {}
  OBVIOUS
<1>4. Cardinality(T \cup (S \ T)) =
        Cardinality(T) + Cardinality(S \ T) - Cardinality(T \cap (S \ T))
  BY <1>1, FS_Union
<1>5. Cardinality({}) = 0
  BY FS_EmptySet
<1>6. Cardinality(S) = Cardinality(T) + Cardinality(S \ T) - 0
  BY <1>3, <1>4, <1>5
<1>7. IsFiniteSet(S) /\ Cardinality(S) \in Nat
  BY SlotsFinite
<1> QED
  BY <1>2, <1>6, <1>7

\* reset: all slots are free and nothing is unacknowledged.
LEMMA InitWindowInv == Init => WindowInv
<1> SUFFICES ASSUME Init
             PROVE  WindowInv
  OBVIOUS
<1>1. SlotTypes
  BY DownlinkSizes DEF Init, SlotTypes
<1>2. {s \in Slots : packets[s].age # 0} = {}
  BY DEF Init
<1>3. UnackedCountsSlots
  BY <1>2, FS_EmptySet DEF Init, UnackedCountsSlots
<1> QED
  BY <1>1, <1>3 DEF WindowInv

\* nextPacket takes a slot that was free.
LEMMA NextPacketKeeps ==
  ASSUME WindowInv, NextPacket
  PROVE  WindowInv'
<1>1. PICK s \in FreeSlots : packets' = [packets EXCEPT ![s] = [age |-> 1, id |-> next]]
  BY DEF NextPacket
<1>2. s \in Slots /\ s \notin InUse
  BY DEF FreeSlots, InUse
<1>3. SlotTypes'
  <2>1. [age |-> 1, id |-> next] \in [age : 0..RetryTicks, id : Int]
    BY DownlinkSizes DEF WindowInv, SlotTypes
  <2>2. packets' \in [Slots -> [age : 0..RetryTicks, id : Int]]
    BY <1>1, <1>2, <2>1 DEF WindowInv, SlotTypes
  <2>3. next' \in Nat
    BY DEF NextPacket, WindowInv, SlotTypes
  <2> QED
    BY <2>2, <2>3 DEF SlotTypes
<1>4. InUse' = InUse \cup {s}
  BY <1>1, <1>2 DEF InUse, WindowInv, SlotTypes
<1>5. InUse \in SUBSET Slots
  BY DEF InUse
<1>6. Cardinality(InUse \cup {s}) = Cardinality(InUse) + 1
  BY <1>2, <1>5, SlotsFinite, FS_AddElement
<1>7. UnackedCountsSlots'
  BY <1>4, <1>6 DEF NextPacket, WindowInv, UnackedCountsSlots, InUse
<1> QED
  BY <1>3, <1>7 DEF WindowInv

\* checkAckHeaders frees slots that are in use only, each once, however often and in
\* whichever order the acknowledgements come.
LEMMA CheckAckHeadersKeeps ==
  ASSUME WindowInv, NEW a \in ackNet, CheckAckHeaders(a)
  PROVE  WindowInv'
<1> DEFINE acked == {s \in Slots : /\ packets[s].age # 0
                                   /\ IsAcked(a.ack, a.more, Wire(packets[s].id))}
<1>1. /\ packets' = [s \in Slots |-> IF s \in acked THEN [packets[s] EXCEPT !.age = 0]
                                                    ELSE packets[s]]
      /\ numUnacked' = numUnacked - Cardinality(acked)
      /\ next' = next
  BY DEF CheckAckHeaders
<1>2. acked \in SUBSET InUse /\ InUse \in SUBSET Slots
  BY DEF InUse
<1> HIDE DEF acked
<1>3. SlotTypes'
  BY <1>1, DownlinkSizes DEF WindowInv, SlotTypes
<1>4. InUse' = InUse \ acked
  <2>1. \A s \in Slots : packets'[s].age = IF s \in acked THEN 0 ELSE packets[s].age
    BY <1>1 DEF WindowInv, SlotTypes
  <2> QED
    BY <2>1 DEF InUse
<1>5. Cardinality(InUse \ acked) = Cardinality(InUse) - Cardinality(acked)
  BY <1>2, TakeAway
<1>6. UnackedCountsSlots'
  BY <1>1, <1>4, <1>5 DEF WindowInv, UnackedCountsSlots, InUse
<1> QED
  BY <1>3, <1>6 DEF WindowInv

\* sendRetries leaves every slot in use in use: with short stalls the age of a packet
\* never wraps to 0, which would free its slot and keep it counted.
LEMMA RetriedSlot ==
  ASSUME ShortStalls, WindowInv, NEW ticks \in 1..MaxTicks, SendRetries(ticks), NEW s \in Slots
  PROVE  /\ packets'[s] \in [age : 0..RetryTicks, id : Int]
         /\ packets'[s].age # 0 <=> packets[s].age # 0
         /\ packets'[s].id = packets[s].id
<1>1. ASSUME packets[s].age # 0
      PROVE  /\ Aged(packets[s].age, ticks) = packets[s].age + ticks
             /\ packets[s].age \in 1..RetryTicks
  <2>1. packets[s].age \in 1..RetryTicks
    BY <1>1 DEF WindowInv, SlotTypes
  <2>2. packets[s].age + ticks \in 0..(AgeMod - 1) /\ AgeMod \in Nat
    BY <2>1, DownlinkSizes DEF ShortStalls
  <2>3. (packets[s].age + ticks) % AgeMod = packets[s].age + ticks
    BY <2>2, ModSmall
  <2> QED
    BY <2>1, <2>3 DEF Aged
<1>2. CASE packets[s].age = 0
  BY <1>2 DEF SendRetries, WindowInv, SlotTypes
<1>3. CASE packets[s].age # 0
  <2> DEFINE new == IF IsRetried(s, ticks) THEN 1 ELSE Aged(packets[s].age, ticks)
  <2>1. packets'[s] = [packets[s] EXCEPT !.age = new]
    BY <1>3 DEF SendRetries, WindowInv, SlotTypes
  <2>2. new \in 1..RetryTicks
    <3>1. packets[s].age + ticks \in Nat /\ packets[s].age + ticks > 0
      BY <1>1, <1>3, DownlinkSizes
    <3>2. IsRetried(s, ticks) <=> packets[s].age + ticks > RetryTicks
      BY <1>1, <1>3 DEF IsRetried
    <3> QED
      BY <1>1, <1>3, <3>1, <3>2, DownlinkSizes
  <2> HIDE DEF new
  <2> QED
    BY <1>3, <2>1, <2>2, DownlinkSizes DEF WindowInv, SlotTypes
<1> QED
  BY <1>2, <1>3

LEMMA SendRetriesKeeps ==
  ASSUME ShortStalls, WindowInv, NEW ticks \in 1..MaxTicks, SendRetries(ticks)
  PROVE  WindowInv'
<1>1. \A s \in Slots : /\ packets'[s] \in [age : 0..RetryTicks, id : Int]
                       /\ packets'[s].age # 0 <=> packets[s].age # 0
  BY RetriedSlot
<1>2. packets' = [s \in Slots |-> packets'[s]]
  BY DEF SendRetries
<1>3. SlotTypes'
  BY <1>1, <1>2 DEF SendRetries, WindowInv, SlotTypes
<1>4. InUse' = InUse
  BY <1>1 DEF InUse
<1>5. UnackedCountsSlots'
  BY <1>4 DEF SendRetries, WindowInv, UnackedCountsSlots, InUse
<1> QED
  BY <1>3, <1>5 DEF WindowInv

\* Each step keeps the window's count; the network and the client do not touch it.
LEMMA NextKeepsWindow == ShortStalls /\ WindowInv /\ [Next]_vars => WindowInv'
<1> SUFFICES ASSUME ShortStalls, WindowInv, [Next]_vars
             PROVE  WindowInv'
  OBVIOUS
<1>1. CASE NextPacket
  BY <1>1, NextPacketKeeps
<1>2. ASSUME NEW a \in ackNet, CheckAckHeaders(a) PROVE WindowInv'
  BY <1>2, CheckAckHeadersKeeps
<1>3. ASSUME NEW ticks \in 1..MaxTicks, SendRetries(ticks) PROVE WindowInv'
  BY <1>3, SendRetriesKeeps
<1>4. CASE UNCHANGED sendVars
  BY <1>4 DEF sendVars, WindowInv, SlotTypes, UnackedCountsSlots
<1>5. (\E i \in dataNet : ReceiveData(i)) \/ SendAck \/ Lose \/ UNCHANGED vars
        => UNCHANGED sendVars
  BY DEF ReceiveData, SendAck, Lose, vars
<1> QED
  BY <1>1, <1>2, <1>3, <1>4, <1>5 DEF Next

\* numUnacked is the number of slots in use, so that a request which is dispatched
\* finds a slot for its response, as long as the loop does not stall for the 25 seconds
\* in which the byte of an age wraps.
THEOREM WindowCounts == ShortStalls /\ Spec => []UnackedCountsSlots
<1>1. ShortStalls => (Spec => []WindowInv)
  <2> SUFFICES ASSUME ShortStalls
               PROVE  Spec => []WindowInv
    OBVIOUS
  <2>1. WindowInv /\ [Next]_vars => WindowInv'
    BY NextKeepsWindow
  <2> QED
    BY <2>1, InitWindowInv, PTL DEF Spec
<1>2. WindowInv => UnackedCountsSlots
  BY DEF WindowInv
<1> QED
  BY <1>1, <1>2, PTL

-----------------------------------------------------------------------------
(* Numbers on the wire *)

\* What the widths have to be to each other: the numbers of the packets that
\* can arrive fit into the sequence space together with the window, and into the
\* range isAcked takes for unacknowledged.
LinkFits ==
  /\ AckBits >= 2
  /\ Lifetime <= Horizon + 1 /\ Lifetime + RecvMax < SeqMod

\* Downlink: what the device can have unacknowledged fits into the sequence space,
\* and the window of the client into its mask.
WideEnough ==
  /\ LinkFits
  /\ AckBits - 2 + NumSlots < SeqMod
  /\ RecvMax < MaskBits /\ (RecvMax + 1 = MaskBits => WideShift = "wraps")

LEMMA WireType == \A x \in Nat : Wire(x) \in Wires
<1> TAKE x \in Nat
<1>1. FirstSeq + x \in Nat /\ SeqMod \in Nat \ {0}
  BY WindowSizes
<1> QED BY <1>1, DivMod DEF Wire, Wires

LEMMA WireAdd ==
  ASSUME NEW x \in Nat, NEW d \in 0..SeqMod
  PROVE  Wire(x + d) = Mask(Wire(x) + d)
<1>1. FirstSeq + x \in Nat /\ SeqMod \in Nat \ {0}
  BY WindowSizes
<1>2. FirstSeq + (x + d) = (FirstSeq + x) + d
  BY WindowSizes
<1>3. Wire(x + d) = IF Wire(x) + d < SeqMod THEN Wire(x) + d ELSE Wire(x) + d - SeqMod
  BY <1>1, <1>2, ModAdd DEF Wire
<1>4. Wire(x) \in Wires
  BY WireType
<1> QED BY <1>3, <1>4, WindowSizes DEF Mask, Wires

LEMMA WireLap == \A x \in Nat : Wire(SeqMod + x) = Wire(x)
<1> TAKE x \in Nat
<1>1. Wire(x + SeqMod) = Mask(Wire(x) + SeqMod)
  BY WireAdd, WindowSizes
<1>2. Wire(x) \in Wires
  BY WireType
<1>3. Mask(Wire(x) + SeqMod) = Wire(x)
  BY <1>2, WindowSizes DEF Mask, Wires
<1>4. x + SeqMod = SeqMod + x
  BY WindowSizes
<1> QED BY <1>1, <1>3, <1>4

\* How far datagram i is beyond the one before datagram f, on the wire.
LEMMA WireBeyond ==
  ASSUME NEW f \in Nat, NEW i \in Nat, f <= i, i - f + 1 < SeqMod
  PROVE  Mask(Wire(i) - Wire(SeqMod + f - 1)) = i - f + 1
<1>1. /\ SeqMod + f - 1 \in Nat /\ i - f + 1 \in Wires
      /\ (SeqMod + f - 1) + (i - f + 1) = SeqMod + i
  BY WindowSizes DEF Wires
<1>2. Wire(i) = Mask(Wire(SeqMod + f - 1) + (i - f + 1))
  <2>1. i - f + 1 \in 0..SeqMod
    BY <1>1, WindowSizes DEF Wires
  <2>2. Wire((SeqMod + f - 1) + (i - f + 1)) = Mask(Wire(SeqMod + f - 1) + (i - f + 1))
    BY <1>1, <2>1, WireAdd
  <2> QED BY <1>1, <2>2, WireLap
<1>3. Wire(SeqMod + f - 1) \in Wires
  BY <1>1, WireType
<1> QED BY <1>1, <1>2, <1>3, MaskBack

\* One that is before f seems to be far beyond.
LEMMA WireBefore ==
  ASSUME NEW f \in Nat, NEW i \in Nat, i < f, f - i < SeqMod
  PROVE  LET d == Mask(Wire(i) - Wire(SeqMod + f - 1))
         IN  d = 0 \/ d > SeqMod - (f - i)
<1> DEFINE d == SeqMod - (f - i) + 1
<1>0. SeqMod \in Nat /\ SeqMod + f - 1 \in Nat
  BY WindowSizes
<1>1. CASE i = f - 1
  <2>1. Wire(SeqMod + f - 1) = Wire(i)
    <3>1. SeqMod + i = SeqMod + f - 1
      BY <1>0, <1>1
    <3> QED BY <3>1, WireLap
  <2>2. Mask(Wire(i) - Wire(i)) = 0
    <3>1. Wire(i) \in Wires
      BY WireType
    <3> QED BY <3>1, WindowSizes DEF Mask, Wires
  <2> QED BY <2>1, <2>2
<1>2. CASE i < f - 1
  <2>1. /\ d \in Wires /\ d \in 0..SeqMod
        /\ (SeqMod + f - 1) + d = SeqMod + (SeqMod + i) /\ SeqMod + i \in Nat
    BY <1>0, <1>2 DEF Wires
  <2>2. Wire((SeqMod + f - 1) + d) = Mask(Wire(SeqMod + f - 1) + d)
    BY <1>0, <2>1, WireAdd
  <2>3. Wire(SeqMod + (SeqMod + i)) = Wire(i)
    BY <2>1, WireLap
  <2>4. Wire(SeqMod + f - 1) \in Wires
    BY <1>0, WireType
  <2>5. Mask(Wire(i) - Wire(SeqMod + f - 1)) = d
    BY <2>1, <2>2, <2>3, <2>4, MaskBack
  <2> QED BY <1>0, <2>5
<1> QED BY <1>1, <1>2

-----------------------------------------------------------------------------
(* What one side has received in order, its window and its acknowledgements *)

LEMMA FirstIs ==
  ASSUME NEW rec \in [Msgs -> 0..1]
  PROVE  /\ First(rec) \in 0..MaxMsgs
         /\ \A i \in 0..(First(rec) - 1) : rec[i] > 0
         /\ First(rec) < MaxMsgs => rec[First(rec)] = 0
<1> DEFINE gaps == {n \in 0..MaxMsgs : n < MaxMsgs => rec[n] = 0}
<1>0. MaxMsgs \in Nat /\ Msgs = 0..(MaxMsgs - 1)
  BY WindowSizes DEF Msgs
<1>1. MaxMsgs \in gaps /\ gaps \subseteq Nat
  BY <1>0
<1>2. PICK n \in gaps : \A m \in gaps : n <= m
  BY <1>1, Least
<1>3. ASSUME NEW i \in 0..(n - 1) PROVE rec[i] > 0
  <2>1. i \in 0..MaxMsgs /\ i < n /\ i \in Msgs
    BY <1>0, <1>2
  <2>2. i \notin gaps
    BY <1>2, <2>1
  <2> QED BY <2>1, <2>2
<1>4. \E m \in 0..MaxMsgs : (\A i \in 0..(m - 1) : rec[i] > 0) /\ (m < MaxMsgs => rec[m] = 0)
  BY <1>2, <1>3
<1> HIDE DEF gaps
<1> QED BY <1>4 DEF First

LEMMA FirstUnique ==
  ASSUME NEW rec \in [Msgs -> 0..1], NEW n \in 0..MaxMsgs,
         \A i \in 0..(n - 1) : rec[i] > 0, n < MaxMsgs => rec[n] = 0
  PROVE  First(rec) = n
<1> DEFINE f == First(rec)
<1>1. /\ f \in 0..MaxMsgs
      /\ \A i \in 0..(f - 1) : rec[i] > 0
      /\ f < MaxMsgs => rec[f] = 0
  BY FirstIs
<1>2. MaxMsgs \in Nat
  BY WindowSizes
<1> HIDE DEF f
<1>3. ~(f < n)
  BY <1>1, <1>2
<1>4. ~(n < f)
  BY <1>1, <1>2
<1> QED BY <1>1, <1>2, <1>3, <1>4 DEF f

Windows == [seqNum : Wires, more : SUBSET (0..(MaskBits - 1)), acked : BOOLEAN]
Beyond(rec) == {i - First(rec) + 1 : i \in {j \in Msgs : rec[j] > 0 /\ j >= First(rec)}}
WindowOf(w, rec) ==
  /\ w \in Windows
  /\ w.seqNum = Wire(SeqMod + First(rec) - 1)
  /\ w.more = {0} \cup Beyond(rec)

\* The mask has a bit of its own for d, or the shift yields the bit that is always set.
Recordable(d) == d < MaskBits \/ (d = MaskBits /\ WideShift = "wraps")

\* A number comes from one datagram that can still arrive: the window tells
\* how far beyond the last one in order that is, and the mask can record it.
Reaches(rec, i) ==
  /\ i >= First(rec) => /\ i - First(rec) + 1 < SeqMod
                        /\ i - First(rec) <= RecvMax => Recordable(i - First(rec) + 1)
  /\ i < First(rec) => First(rec) - i <= Lifetime

LEMMA OffsetOf ==
  ASSUME LinkFits, NEW rec \in [Msgs -> 0..1], NEW w, WindowOf(w, rec),
         NEW i \in Msgs, Reaches(rec, i)
  PROVE  LET d == Mask(Wire(i) - w.seqNum)
         IN  /\ w.seqNum \in Wires /\ Wire(i) \in Wires
             /\ IF i >= First(rec) THEN d = i - First(rec) + 1 ELSE d \notin 1..(RecvMax + 1)
<1>1. First(rec) \in Nat /\ i \in Nat /\ Lifetime \in Nat /\ SeqMod \in Nat /\ RecvMax \in Nat
  BY FirstIs, WindowSizes DEF Msgs
<1>2. w.seqNum \in Wires /\ Wire(i) \in Wires /\ w.seqNum = Wire(SeqMod + First(rec) - 1)
  BY <1>1, WireType DEF WindowOf, Windows
<1>3. CASE i >= First(rec)
  <2>1. i - First(rec) + 1 < SeqMod
    BY <1>3 DEF Reaches
  <2> QED BY <1>1, <1>2, <1>3, <2>1, WireBeyond
<1>4. CASE i < First(rec)
  <2>1. First(rec) - i <= Lifetime /\ Lifetime + RecvMax < SeqMod
    BY <1>4 DEF Reaches, LinkFits
  <2>2. LET d == Mask(Wire(i) - Wire(SeqMod + First(rec) - 1))
        IN  d = 0 \/ d > SeqMod - (First(rec) - i)
    BY <1>1, <1>4, <2>1, WireBefore
  <2>3. Mask(Wire(i) - w.seqNum) \in Int
    BY <1>2, WindowSizes DEF Mask, Wires
  <2> HIDE DEF Mask
  <2> QED BY <1>1, <1>2, <1>4, <2>1, <2>2, <2>3
<1> QED BY <1>1, <1>3, <1>4

\* What is processed had not been: it is the next one, or its bit was clear.
LEMMA ProcessedIsNew ==
  ASSUME LinkFits, NEW rec \in [Msgs -> 0..1], NEW w, WindowOf(w, rec),
         NEW i \in Msgs, Reaches(rec, i), Processed(w, Wire(i))
  PROVE  LET f == First(rec)
         IN  /\ i >= f /\ rec[i] = 0
             /\ IF i = f THEN IsNext(w.seqNum, Wire(i))
                ELSE /\ ~IsNext(w.seqNum, Wire(i)) /\ i - f + 1 \in 0..(MaskBits - 1)
                     /\ ShiftedBit(Mask(Wire(i) - w.seqNum)) = {i - f + 1}
<1> DEFINE f == First(rec)
           d == Mask(Wire(i) - w.seqNum)
<1>0. /\ f \in Nat /\ i \in Nat /\ SeqMod \in Nat /\ RecvMax \in Nat \ {0} /\ MaskBits \in Nat \ {0}
      /\ f \in 0..MaxMsgs /\ (f < MaxMsgs => rec[f] = 0)
  BY FirstIs, WindowSizes DEF Msgs
<1>1. /\ w.seqNum \in Wires /\ Wire(i) \in Wires
      /\ IF i >= f THEN d = i - f + 1 ELSE d \notin 1..(RecvMax + 1)
  BY OffsetOf
<1>2. d \in 1..(RecvMax + 1)
  BY <1>1, InWindowOffset DEF Processed
<1>3. i >= f /\ d = i - f + 1
  BY <1>0, <1>1, <1>2
<1>4. IsNext(w.seqNum, Wire(i)) <=> i = f
  <2>1. IsNext(w.seqNum, Wire(i)) <=> d = 1
    BY <1>1, IsNextOffset
  <2> QED BY <2>1, <1>0, <1>3
<1>5. CASE i = f
  <2>1. f < MaxMsgs
    BY <1>5, WindowSizes DEF Msgs
  <2> QED BY <1>0, <1>3, <1>4, <1>5, <2>1
<1>6. CASE i # f
  <2>1. ShiftedBit(d) \cap w.more = {}
    BY <1>4, <1>6 DEF Processed
  <2>2. 0 \in w.more
    BY DEF WindowOf
  <2>3. d < MaskBits
    <3> SUFFICES ASSUME d >= MaskBits PROVE FALSE
      BY <1>0, <1>2
    <3>1. d = MaskBits /\ WideShift = "wraps"
      <4>1. i - f <= RecvMax /\ i - f + 1 >= MaskBits
        BY <1>0, <1>2, <1>3
      <4>2. Recordable(i - f + 1)
        BY <1>3, <4>1 DEF Reaches
      <4> QED BY <1>0, <1>3, <4>1, <4>2 DEF Recordable
    <3>2. MaskBits % MaskBits = 0
      <4>1. (MaskBits * 1 + 0) % MaskBits = 0
        BY <1>0, ModUnique
      <4> QED BY <4>1, <1>0
    <3>3. ShiftedBit(d) = {0}
      BY <3>1, <3>2, <1>0 DEF ShiftedBit
    <3> QED BY <2>1, <2>2, <3>3
  <2>4. ShiftedBit(d) = {d}
    BY <2>3 DEF ShiftedBit
  <2>5. d \notin w.more
    BY <2>1, <2>4
  <2>6. rec[i] = 0
    <3> SUFFICES ASSUME rec[i] > 0 PROVE FALSE
      OBVIOUS
    <3>1. d \in Beyond(rec)
      BY <1>3 DEF Beyond
    <3> QED BY <2>5, <3>1 DEF WindowOf
  <2> QED BY <1>0, <1>2, <1>3, <1>4, <1>6, <2>3, <2>4, <2>6
<1> QED BY <1>5, <1>6

\* The next datagram in order: the window slides over those it waited for.
LEMMA SlideKeeps ==
  ASSUME NEW rec \in [Msgs -> 0..1], NEW w, WindowOf(w, rec),
         NEW i \in Msgs, i = First(rec)
  PROVE  WindowOf(Slide(w), [rec EXCEPT ![i] = 1]) /\ First([rec EXCEPT ![i] = 1]) >= First(rec)
<1> DEFINE f == First(rec)
           new == [rec EXCEPT ![i] = 1]
           n == SlideBy(w.more)
           g == f + n
<1>0. /\ f \in 0..MaxMsgs /\ (\A j \in 0..(f - 1) : rec[j] > 0) /\ MaxMsgs \in Nat
      /\ Msgs = 0..(MaxMsgs - 1) /\ f \in Msgs
      /\ SeqMod \in Nat /\ MaskBits \in Nat \ {0} /\ MaskBits < SeqMod
  BY FirstIs, WindowSizes DEF Msgs
<1>1. /\ w.more \subseteq 0..(MaskBits - 1) /\ w.more = {0} \cup Beyond(rec)
      /\ w.seqNum = Wire(SeqMod + f - 1)
  BY DEF WindowOf, Windows
<1>2. n \in 1..MaskBits /\ n + 1 \notin w.more /\ \A k \in 2..n : k \in w.more
  BY <1>1, SlideByIs
<1>3. \A k \in Nat \ {0} : k \in w.more <=> (f + k - 1 \in Msgs /\ rec[f + k - 1] > 0)
  <2>1. ASSUME NEW k \in Nat \ {0}, k \in w.more
        PROVE  f + k - 1 \in Msgs /\ rec[f + k - 1] > 0
    <3>1. PICK j \in Msgs : rec[j] > 0 /\ j >= f /\ k = j - f + 1
      BY <1>1, <2>1 DEF Beyond
    <3> HIDE DEF f
    <3>2. f + k - 1 = j
      BY <3>1, <1>0
    <3> QED BY <3>1, <3>2
  <2>2. ASSUME NEW k \in Nat \ {0}, f + k - 1 \in Msgs, rec[f + k - 1] > 0
        PROVE  k \in w.more
    <3>1. f + k - 1 >= f /\ k = (f + k - 1) - f + 1
      BY <1>0
    <3> QED BY <3>1, <2>2, <1>1 DEF Beyond
  <2> QED BY <2>1, <2>2
<1> HIDE DEF f, n
<1>4. /\ new \in [Msgs -> 0..1] /\ new[f] = 1 /\ \A j \in Msgs : j # f => new[j] = rec[j]
  BY <1>0 DEF f
<1> HIDE DEF new
<1>5. ASSUME NEW j \in 0..(g - 1) PROVE j \in Msgs /\ new[j] > 0
  <2>1. CASE j < f
    BY <2>1, <1>0, <1>4
  <2>2. CASE j = f
    BY <2>2, <1>0, <1>4
  <2>3. CASE j > f
    <3>1. j - f + 1 \in 2..n /\ j - f + 1 \in Nat \ {0} /\ f + (j - f + 1) - 1 = j
      BY <2>3, <1>0, <1>2
    <3>2. j - f + 1 \in w.more
      BY <1>2, <3>1
    <3>3. f + (j - f + 1) - 1 \in Msgs /\ rec[f + (j - f + 1) - 1] > 0
      BY <1>3, <3>1, <3>2
    <3> QED BY <2>3, <3>1, <3>3, <1>0, <1>4
  <2> QED BY <2>1, <2>2, <2>3, <1>0
<1>6. g \in 0..MaxMsgs
  <2>1. g - 1 \in 0..(g - 1)
    BY <1>0, <1>2
  <2>2. g - 1 \in Msgs
    BY <2>1, <1>5
  <2> QED BY <2>2, <1>0, <1>2
<1>7. g < MaxMsgs => new[g] = 0
  <2> SUFFICES ASSUME g < MaxMsgs PROVE new[g] = 0
    OBVIOUS
  <2>1. g \in Msgs /\ g # f /\ n + 1 \in Nat \ {0} /\ f + (n + 1) - 1 = g
    BY <1>0, <1>2, <1>6
  <2>2. ~(rec[g] > 0)
    BY <1>2, <1>3, <2>1
  <2> QED BY <2>1, <2>2, <1>4
<1>8. First(new) = g
  BY <1>4, <1>5, <1>6, <1>7, FirstUnique
<1>9. Wire(SeqMod + g - 1) = Mask(w.seqNum + n)
  <2>1. SeqMod + f - 1 \in Nat /\ n \in 0..SeqMod /\ (SeqMod + f - 1) + n = SeqMod + g - 1
    BY <1>0, <1>2
  <2>2. Wire((SeqMod + f - 1) + n) = Mask(Wire(SeqMod + f - 1) + n)
    BY <2>1, WireAdd
  <2> QED BY <1>1, <2>1, <2>2 DEF f
<1>10. /\ Slide(w).seqNum = Mask(w.seqNum + n) /\ Slide(w).acked = FALSE
       /\ Slide(w).more = {b - n : b \in {c \in w.more : c >= n}} \cup {0}
       /\ Slide(w) = [seqNum |-> Slide(w).seqNum, more |-> Slide(w).more, acked |-> Slide(w).acked]
  BY DEF Slide, n
<1>11. ASSUME NEW b \in w.more, b >= n
       PROVE  b - n \in 0..(MaskBits - 1) /\ (b - n \in {0} \cup Beyond(new))
  <2>1. b \in 0..(MaskBits - 1) /\ b - n \in 0..(MaskBits - 1) /\ b \in Nat \ {0}
    BY <1>0, <1>1, <1>2, <1>11
  <2>2. f + b - 1 \in Msgs /\ rec[f + b - 1] > 0
    BY <2>1, <1>3
  <2>3. CASE b > n
    <3>1. f + b - 1 >= g /\ f + b - 1 # f /\ b - n = (f + b - 1) - g + 1
      BY <2>1, <2>3, <1>0, <1>2
    <3> QED BY <2>1, <2>2, <3>1, <1>4, <1>8 DEF Beyond
  <2>4. CASE b = n
    BY <2>1, <2>4
  <2> QED BY <2>1, <2>3, <2>4, <1>2, <1>11
<1>12. ASSUME NEW j \in Msgs, new[j] > 0, j >= g
       PROVE  j - g + 1 \in Slide(w).more
  <2>1. j # f /\ rec[j] > 0 /\ j - f + 1 \in Nat \ {0} /\ f + (j - f + 1) - 1 = j
    BY <1>0, <1>2, <1>4, <1>12
  <2>2. j - f + 1 \in w.more
    BY <2>1, <1>3
  <2>3. j - f + 1 >= n /\ (j - f + 1) - n = j - g + 1
    BY <1>0, <1>2, <1>12
  <2> QED BY <2>2, <2>3, <1>10
<1>13. Slide(w).more = {0} \cup Beyond(new)
  <2>1. Slide(w).more \subseteq {0} \cup Beyond(new)
    BY <1>10, <1>11
  <2>2. Beyond(new) \subseteq Slide(w).more
    BY <1>8, <1>12 DEF Beyond
  <2> QED BY <2>1, <2>2, <1>10
<1>14. Slide(w).more \subseteq 0..(MaskBits - 1)
  BY <1>0, <1>10, <1>11
<1>15. Slide(w).seqNum \in Wires
  <2>1. SeqMod + g - 1 \in Nat
    BY <1>0, <1>2
  <2> QED BY <2>1, <1>9, <1>10, WireType
<1>16. Slide(w) \in Windows
  BY <1>10, <1>14, <1>15 DEF Windows
<1>17. WindowOf(Slide(w), new)
  BY <1>8, <1>9, <1>10, <1>13, <1>16 DEF WindowOf
<1> QED BY <1>0, <1>2, <1>8, <1>17 DEF new, f

\* A datagram further on: its bit is set and the window stays where it is.
LEMMA RecordKeeps ==
  ASSUME NEW rec \in [Msgs -> 0..1], NEW w, WindowOf(w, rec),
         NEW i \in Msgs, i > First(rec), i - First(rec) + 1 \in 0..(MaskBits - 1)
  PROVE  /\ WindowOf([seqNum |-> w.seqNum, more |-> w.more \cup {i - First(rec) + 1},
                      acked |-> FALSE], [rec EXCEPT ![i] = 1])
         /\ First([rec EXCEPT ![i] = 1]) = First(rec)
<1> DEFINE f == First(rec)
           new == [rec EXCEPT ![i] = 1]
<1>0. /\ f \in 0..MaxMsgs /\ (\A j \in 0..(f - 1) : rec[j] > 0) /\ (f < MaxMsgs => rec[f] = 0)
      /\ MaxMsgs \in Nat /\ Msgs = 0..(MaxMsgs - 1)
  BY FirstIs, WindowSizes DEF Msgs
<1>1. /\ new \in [Msgs -> 0..1] /\ new[i] = 1 /\ \A j \in Msgs : j # i => new[j] = rec[j]
  OBVIOUS
<1> HIDE DEF new
<1>2. First(new) = f
  <2>1. \A j \in 0..(f - 1) : new[j] > 0
    BY <1>0, <1>1
  <2>2. f < MaxMsgs => new[f] = 0
    BY <1>0, <1>1
  <2> HIDE DEF f
  <2> QED BY <1>0, <1>1, <2>1, <2>2, FirstUnique
<1>3. Beyond(new) = Beyond(rec) \cup {i - f + 1}
  <2>1. {j \in Msgs : new[j] > 0 /\ j >= f} = {j \in Msgs : rec[j] > 0 /\ j >= f} \cup {i}
    BY <1>0, <1>1
  <2> QED BY <1>2, <2>1 DEF Beyond
<1>4. [seqNum |-> w.seqNum, more |-> w.more \cup {i - f + 1}, acked |-> FALSE] \in Windows
  BY DEF WindowOf, Windows
<1> QED BY <1>2, <1>3, <1>4 DEF WindowOf, new

LEMMA ReceiveKeepsWindow ==
  ASSUME LinkFits, NEW rec \in [Msgs -> 0..1], NEW w, WindowOf(w, rec),
         NEW i \in Msgs, Reaches(rec, i),
         NEW new, new = IF Processed(w, Wire(i)) THEN [rec EXCEPT ![i] = 1] ELSE rec
  PROVE  WindowOf(Receive(w, Wire(i)), new) /\ First(new) >= First(rec)
<1>0. First(rec) \in Nat /\ i \in Nat
  BY FirstIs, WindowSizes DEF Msgs
<1>1. CASE ~Processed(w, Wire(i))
  <2>1. Receive(w, Wire(i)) \in {w, [w EXCEPT !.acked = FALSE]}
    BY <1>1 DEF Receive, Processed
  <2>2. WindowOf([w EXCEPT !.acked = FALSE], rec)
    BY DEF WindowOf, Windows
  <2>3. new = rec
    BY <1>1
  <2>4. First(new) >= First(rec)
    <3>1. First(rec) >= First(rec)
      BY <1>0
    <3> QED BY <2>3, <3>1, Zenon
  <2> QED BY <2>1, <2>2, <2>3, <2>4
<1>2. CASE Processed(w, Wire(i))
  <2>1. new = [rec EXCEPT ![i] = 1] /\ InWindow(w.seqNum, Wire(i))
    BY <1>2 DEF Processed
  <2>2. CASE i = First(rec)
    <3>1. Receive(w, Wire(i)) = Slide(w)
      BY <1>2, <2>1, <2>2, ProcessedIsNew DEF Receive
    <3>2. /\ WindowOf(Slide(w), [rec EXCEPT ![i] = 1])
          /\ First([rec EXCEPT ![i] = 1]) >= First(rec)
      BY <2>2, SlideKeeps
    <3> QED BY <2>1, <3>1, <3>2
  <2>3. CASE i # First(rec)
    <3>1. /\ i > First(rec) /\ i - First(rec) + 1 \in 0..(MaskBits - 1)
          /\ ~IsNext(w.seqNum, Wire(i))
          /\ ShiftedBit(Mask(Wire(i) - w.seqNum)) = {i - First(rec) + 1}
      BY <1>0, <1>2, <2>3, ProcessedIsNew
    <3>2. Receive(w, Wire(i)) = [seqNum |-> w.seqNum, acked |-> FALSE,
                                 more |-> w.more \cup {i - First(rec) + 1}]
      BY <1>2, <2>1, <3>1 DEF Receive
    <3>3. /\ WindowOf([seqNum |-> w.seqNum, more |-> w.more \cup {i - First(rec) + 1},
                       acked |-> FALSE], [rec EXCEPT ![i] = 1])
          /\ First([rec EXCEPT ![i] = 1]) = First(rec)
      BY <3>1, RecordKeeps
    <3>4. First([rec EXCEPT ![i] = 1]) >= First(rec)
      BY <1>0, <3>3
    <3> QED BY <2>1, <3>2, <3>3, <3>4
  <2> QED BY <2>2, <2>3
<1> QED BY <1>1, <1>2

\* An acknowledgement in flight names what the other side had received when it was sent,
\* and it has still received it.
AckHolds(a, rec) ==
  /\ a.upTo \in 0..First(rec) /\ a.ack = Wire(SeqMod + a.upTo - 1)
  /\ a.more \subseteq 0..(AckBits - 1)
  /\ \A k \in a.more \ {0} : a.upTo + k - 1 \in Msgs /\ rec[a.upTo + k - 1] > 0

\* isAcked is true of a datagram only if the other side has received it.
LEMMA AckedWas ==
  ASSUME LinkFits, NEW rec \in [Msgs -> 0..1], NEW sent \in Nat, First(rec) <= sent,
         NEW a, AckHolds(a, rec), sent - a.upTo <= Lifetime,
         NEW i \in 0..(sent - 1), IsAcked(a.ack, a.more, Wire(i))
  PROVE  rec[i] > 0 /\ i <= First(rec) + AckBits - 2
<1> DEFINE n == a.upTo
           d == i - n + 1
<1>0. /\ First(rec) \in 0..sent /\ (\A j \in 0..(First(rec) - 1) : rec[j] > 0)
      /\ sent \in Nat /\ i \in 0..(sent - 1)
  BY FirstIs, WindowSizes
<1>1. /\ n \in 0..First(rec) /\ a.ack = Wire(SeqMod + n - 1) /\ a.more \subseteq 0..(AckBits - 1)
      /\ \A k \in a.more \ {0} : n + k - 1 \in Msgs /\ rec[n + k - 1] > 0
  BY DEF AckHolds
<1>2. /\ AckBits \in Nat /\ AckBits >= 2 /\ Lifetime \in Nat /\ Horizon \in Nat /\ SeqMod \in Nat
      /\ Lifetime <= Horizon + 1 /\ Horizon + 1 < SeqMod
  BY WindowSizes DEF LinkFits
<1>3. CASE i < n
  BY <1>0, <1>1, <1>2, <1>3
<1>4. CASE i >= n
  <2>1. n \in Nat /\ i \in Nat /\ d \in 1..(Horizon + 1) /\ d < SeqMod
    BY <1>0, <1>1, <1>2, <1>4
  <2>2. Mask(Wire(i) - a.ack) = d
    BY <1>1, <1>4, <2>1, WireBeyond
  <2>3. Mask(a.ack + 1) = Wire(n)
    <3>1. SeqMod + n - 1 \in Nat /\ 1 \in 0..SeqMod /\ (SeqMod + n - 1) + 1 = SeqMod + n
      BY <1>2, <2>1
    <3>2. Wire((SeqMod + n - 1) + 1) = Mask(Wire(SeqMod + n - 1) + 1)
      BY <3>1, WireAdd
    <3> QED BY <1>1, <2>1, <3>1, <3>2, WireLap
  <2>4. Wire(n) \in Wires /\ i - n \in 0..Horizon /\ Wire(i) = Mask(Wire(n) + (i - n))
    <3>1. i - n \in 0..Horizon /\ i - n \in 0..SeqMod /\ n + (i - n) = i
      BY <1>2, <2>1
    <3>2. Wire(n + (i - n)) = Mask(Wire(n) + (i - n))
      BY <2>1, <3>1, WireAdd
    <3> QED BY <2>1, <3>1, <3>2, WireType
  <2>5. d \in a.more
    BY <2>2, <2>3, <2>4, InHorizon DEF IsAcked
  <2>6. rec[n + d - 1] > 0 /\ n + d - 1 = i /\ d <= AckBits - 1
    BY <1>1, <1>2, <2>1, <2>5
  <2> QED BY <1>0, <1>1, <1>2, <2>1, <2>6
<1> QED BY <1>0, <1>1, <1>3, <1>4

\* setAckHeaders tells what the window says.
LEMMA AckTold ==
  ASSUME NEW rec \in [Msgs -> 0..1], NEW w, WindowOf(w, rec)
  PROVE  AckHolds([ack |-> AckOf(w), more |-> AckMoreOf(w), upTo |-> First(rec)], rec)
<1> DEFINE a == [ack |-> AckOf(w), more |-> AckMoreOf(w), upTo |-> First(rec)]
<1>1. /\ w \in Windows /\ w.seqNum = Wire(SeqMod + First(rec) - 1) /\ w.seqNum \in Wires
      /\ w.more = {0} \cup Beyond(rec) /\ First(rec) \in Nat
  BY FirstIs, WindowSizes DEF WindowOf, Windows
<1>2. AckOf(w) = w.seqNum
  BY <1>1, WindowSizes DEF AckOf, Mask, Wires
<1>3. AckMoreOf(w) \subseteq w.more /\ AckMoreOf(w) \subseteq 0..(AckBits - 1)
  BY <1>1, WindowSizes DEF AckMoreOf, Windows
<1>4. ASSUME NEW k \in AckMoreOf(w) \ {0}
      PROVE  First(rec) + k - 1 \in Msgs /\ rec[First(rec) + k - 1] > 0
  <2>1. PICK j \in Msgs : rec[j] > 0 /\ k = j - First(rec) + 1
    BY <1>1, <1>3 DEF Beyond
  <2>2. First(rec) + k - 1 = j
    BY <1>1, <2>1, WindowSizes DEF Msgs
  <2> QED BY <2>1, <2>2
<1>5. a.ack = AckOf(w) /\ a.more = AckMoreOf(w) /\ a.upTo = First(rec)
  OBVIOUS
<1> HIDE DEF a
<1>6. AckHolds(a, rec)
  BY <1>1, <1>2, <1>3, <1>4, <1>5 DEF AckHolds
<1> QED BY <1>6 DEF a

\* An acknowledgement stays true while more is received.
LEMMA AckGrows ==
  ASSUME NEW a, NEW old \in [Msgs -> 0..1], NEW rec \in [Msgs -> 0..1],
         \A j \in Msgs : old[j] > 0 => rec[j] > 0,
         First(rec) >= First(old), AckHolds(a, old)
  PROVE  AckHolds(a, rec)
<1>1. First(old) \in Nat /\ First(rec) \in Nat
  BY FirstIs, WindowSizes
<1>2. a.upTo \in 0..First(rec)
  BY <1>1 DEF AckHolds
<1>3. \A k \in a.more \ {0} : a.upTo + k - 1 \in Msgs /\ rec[a.upTo + k - 1] > 0
  BY DEF AckHolds
<1> QED BY <1>2, <1>3 DEF AckHolds

\* Nothing is received yet, and the window stands before the first number.
LEMMA NothingReceived ==
  ASSUME NEW rec, rec = [i \in Msgs |-> 0]
  PROVE  /\ rec \in [Msgs -> 0..1] /\ First(rec) = 0
         /\ WindowOf([seqNum |-> Mask(FirstSeq - 1), more |-> {0}, acked |-> FALSE], rec)
<1>1. rec \in [Msgs -> 0..1] /\ MaxMsgs \in Nat
  BY WindowSizes
<1>2. First(rec) = 0
  <2>1. 0 \in 0..MaxMsgs /\ (0 < MaxMsgs => rec[0] = 0) /\ \A i \in 0..(0 - 1) : rec[i] > 0
    BY <1>1 DEF Msgs
  <2> QED BY <1>1, <2>1, FirstUnique
<1>3. Beyond(rec) = {}
  BY DEF Beyond
<1>4. Wire(SeqMod - 1) = Mask(FirstSeq - 1)
  <2>1. FirstSeq \in Wires /\ SeqMod \in Nat \ {0}
    BY WindowSizes DEF Wires
  <2>2. Wire(0) = FirstSeq
    BY <2>1, ModSmall DEF Wire, Wires
  <2>3. Wire(0 + (SeqMod - 1)) = Mask(Wire(0) + (SeqMod - 1))
    BY <2>1, WireAdd
  <2>4. Mask(FirstSeq + (SeqMod - 1)) = Mask(FirstSeq - 1)
    BY <2>1 DEF Mask, Wires
  <2> QED BY <2>1, <2>2, <2>3, <2>4
<1>5. /\ Mask(FirstSeq - 1) \in Wires
      /\ SeqMod + 0 - 1 = SeqMod - 1 /\ 0 \in 0..(MaskBits - 1)
  BY WindowSizes DEF Mask, Wires
<1> QED BY <1>1, <1>2, <1>3, <1>4, <1>5 DEF WindowOf, Windows

-----------------------------------------------------------------------------
(* What holds of the sender, the network and the client together           *)

\* The packets of the slots and of the network are datagrams that were allocated, and
\* so are those received.
Allocated ==
  /\ next \in 0..MaxMsgs /\ Pending \subseteq 0..(next - 1) /\ dataNet \subseteq 0..(next - 1)
  /\ received \in [Msgs -> 0..1] /\ \A i \in Msgs : received[i] > 0 => i < next

\* A slot is freed only for what the client has received, and what that is reaches
\* no further than the bits of an acknowledgement.
ForgottenIsReceived ==
  \A i \in 0..(next - 1) : i \in Pending \/ (received[i] > 0 /\ i <= InOrder + AckBits - 2)

AcksHold == \A a \in ackNet : AckHolds(a, received)

ExactInv ==
  /\ WindowInv
  /\ Allocated
  /\ WindowOf(win, received)
  /\ ForgottenIsReceived
  /\ AcksHold

\* The client has received nothing in order that was not allocated.
LEMMA FirstAllocated ==
  ASSUME Allocated
  PROVE  /\ InOrder \in 0..next /\ \A i \in 0..(InOrder - 1) : i \in Msgs /\ received[i] > 0
         /\ InOrder < MaxMsgs => received[InOrder] = 0
<1>1. /\ InOrder \in 0..MaxMsgs /\ \A i \in 0..(InOrder - 1) : received[i] > 0
      /\ InOrder < MaxMsgs => received[InOrder] = 0
  BY FirstIs DEF Allocated, InOrder
<1>2. MaxMsgs \in Nat /\ Msgs = 0..(MaxMsgs - 1) /\ next \in 0..MaxMsgs
      /\ \A i \in Msgs : received[i] > 0 => i < next
  BY WindowSizes DEF Msgs, Allocated
<1>3. ~(next < InOrder)
  BY <1>1, <1>2
<1> QED BY <1>1, <1>2, <1>3

\* The sender holds as many datagrams as slots in use at most, one fewer when a
\* slot is free.
LEMMA PendingSize ==
  ASSUME SlotTypes
  PROVE  /\ IsFiniteSet(Pending) /\ Cardinality(Pending) \in 0..NumSlots
         /\ FreeSlots # {} => Cardinality(Pending) < NumSlots
<1> DEFINE f == [s \in InUse |-> packets[s].id]
<1>1. f \in Surjection(InUse, Pending)
  BY DEF Surjection, Pending, InUse
<1>2. InUse \in SUBSET Slots
  BY DEF InUse
<1>3. IsFiniteSet(InUse) /\ Cardinality(InUse) \in Nat
  BY <1>2, SlotsFinite
<1>4. IsFiniteSet(Pending) /\ Cardinality(Pending) <= Cardinality(InUse)
  BY <1>1, <1>3, FS_Surjection
<1>5. Cardinality(Pending) \in Nat
  BY <1>4, FS_CardinalityType
<1>6. IsFiniteSet(Slots) /\ Cardinality(Slots) = NumSlots /\ NumSlots \in Nat
  BY FS_Interval, DownlinkSizes DEF Slots
<1>7. /\ Cardinality(InUse) <= NumSlots
      /\ Cardinality(InUse) = NumSlots => InUse = Slots
  BY <1>2, <1>6, FS_Subset
<1>8. FreeSlots # {} => InUse # Slots
  BY DEF FreeSlots, InUse
<1> QED BY <1>3, <1>4, <1>5, <1>6, <1>7, <1>8

\* The span of the numbers in use: what lies beyond the acknowledgement bits is
\* pending, and so is the first datagram the client waits for.
LEMMA SpanIs ==
  ASSUME WideEnough, SlotTypes, Allocated, ForgottenIsReceived
  PROVE  next - InOrder <= AckBits - 2 + NumSlots
<1> DEFINE far == (InOrder + AckBits - 1)..(next - 1)
<1>1. /\ InOrder \in 0..next /\ next \in 0..MaxMsgs /\ (InOrder < MaxMsgs => received[InOrder] = 0)
      /\ MaxMsgs \in Nat /\ AckBits \in Nat /\ AckBits >= 2 /\ NumSlots \in Nat \ {0}
  BY FirstAllocated, DownlinkSizes, WindowSizes DEF WideEnough, LinkFits, Allocated
<1> SUFFICES ASSUME next - InOrder > AckBits - 2 + NumSlots PROVE FALSE
  BY <1>1
<1>2. far \subseteq Pending /\ InOrder \in Pending
  BY <1>1 DEF ForgottenIsReceived
<1>3. IsFiniteSet(far) /\ Cardinality(far) = next - InOrder - AckBits + 1
  <2>1. InOrder + AckBits - 1 \in Int /\ next - 1 \in Int /\ ~(InOrder + AckBits - 1 > next - 1)
    BY <1>1
  <2>2. (next - 1) - (InOrder + AckBits - 1) + 1 = next - InOrder - AckBits + 1
    BY <1>1
  <2> QED BY <2>1, <2>2, FS_Interval
<1>4. InOrder \notin far
  BY <1>1
<1>5. Cardinality(far \cup {InOrder}) = Cardinality(far) + 1 /\ IsFiniteSet(far \cup {InOrder})
  BY <1>3, <1>4, FS_AddElement
<1>6. far \cup {InOrder} \in SUBSET Pending
  BY <1>2
<1> HIDE DEF far
<1>7. Cardinality(far \cup {InOrder}) <= Cardinality(Pending)
  BY <1>6, PendingSize, FS_Subset
<1>8. Cardinality(Pending) \in 0..NumSlots
  BY PendingSize
<1> QED BY <1>1, <1>3, <1>5, <1>7, <1>8

\* reset on both sides.
LEMMA InitExact == WideEnough /\ Init => ExactInv
<1> SUFFICES ASSUME WideEnough, Init PROVE ExactInv
  OBVIOUS
<1>1. WindowInv
  BY InitWindowInv
<1>2. /\ Pending = {} /\ MaxMsgs \in Nat /\ received = [i \in Msgs |-> 0]
      /\ win = [seqNum |-> Mask(FirstSeq - 1), more |-> {0}, acked |-> FALSE]
  BY WindowSizes DEF Init, Pending, InitWindow
<1>3. received \in [Msgs -> 0..1] /\ WindowOf(win, received)
  BY <1>2, NothingReceived
<1>4. Allocated
  BY <1>2, <1>3 DEF Init, Allocated
<1>5. ForgottenIsReceived /\ AcksHold
  BY DEF Init, ForgottenIsReceived, AcksHold
<1> QED BY <1>1, <1>3, <1>4, <1>5 DEF ExactInv

\* nextPacket takes a number that was not used before, and there is room for it.
LEMMA NextPacketExact ==
  ASSUME ExactInv, NextPacket
  PROVE  ExactInv' /\ Promise!Accept(next)
<1>1. PICK s \in FreeSlots : packets' = [packets EXCEPT ![s] = [age |-> 1, id |-> next]]
  BY DEF NextPacket
<1>2. /\ next \in 0..MaxMsgs /\ Pending \subseteq 0..(next - 1) /\ dataNet \subseteq 0..(next - 1)
      /\ received \in [Msgs -> 0..1] /\ (\A i \in Msgs : received[i] > 0 => i < next)
      /\ MaxMsgs \in Nat /\ Msgs = 0..(MaxMsgs - 1)
  BY WindowSizes DEF ExactInv, Allocated, Msgs
<1>3. /\ next < MaxMsgs /\ next' = next + 1 /\ dataNet' = dataNet \cup {next}
      /\ ackNet' = ackNet /\ win' = win /\ received' = received
  BY DEF NextPacket, recvVars
<1>4. Pending' = Pending \cup {next}
  <2>1. \A t \in Slots : packets'[t] = IF t = s THEN [age |-> 1, id |-> next] ELSE packets[t]
    BY <1>1 DEF ExactInv, WindowInv, SlotTypes
  <2>2. s \in Slots /\ packets[s].age = 0
    BY DEF FreeSlots
  <2> QED BY <2>1, <2>2 DEF Pending
<1>5. WindowInv'
  BY NextPacketKeeps DEF ExactInv
<1>6. Allocated'
  BY <1>2, <1>3, <1>4 DEF Allocated
<1>7. WindowOf(win, received)' /\ AcksHold' /\ InOrder' = InOrder
  BY <1>3 DEF ExactInv, AcksHold, InOrder
<1>8. ForgottenIsReceived'
  BY <1>2, <1>3, <1>4, <1>7 DEF ExactInv, ForgottenIsReceived
<1>9. Promise!Accept(next)
  <2>1. next \notin Pending /\ received[next] = 0
    BY <1>2, <1>3
  <2>2. Cardinality(Pending) < NumSlots
    BY <1>1, PendingSize DEF ExactInv, WindowInv
  <2>3. Promise!Cardinality(Pending) = Cardinality(Pending)
    BY DEF Promise!Cardinality, Cardinality
  <2> QED BY <1>3, <1>4, <2>1, <2>2, <2>3 DEF Promise!Accept
<1> QED BY <1>5, <1>6, <1>7, <1>8, <1>9 DEF ExactInv

\* isAcked is true of a datagram the server keeps only if the client has received it.
LEMMA AckedIsReceived ==
  ASSUME WideEnough, ExactInv, NEW a \in ackNet, next - a.upTo <= Lifetime,
         NEW i \in Pending, IsAcked(a.ack, a.more, Wire(i))
  PROVE  received[i] > 0 /\ i <= InOrder + AckBits - 2
<1>1. /\ next \in Nat /\ received \in [Msgs -> 0..1] /\ First(received) <= next
      /\ i \in 0..(next - 1) /\ AckHolds(a, received) /\ LinkFits
  BY FirstAllocated, WindowSizes DEF ExactInv, Allocated, AcksHold, InOrder, WideEnough
<1> QED BY <1>1, AckedWas DEF InOrder

\* checkAckHeaders forgets only what the client has received.
LEMMA CheckAckHeadersExact ==
  ASSUME WideEnough, ExactInv, NEW a \in ackNet, CheckAckHeaders(a)
  PROVE  ExactInv' /\ [Promise!Next]_(Promise!vars)
<1> DEFINE acked == {s \in Slots : /\ packets[s].age # 0
                                   /\ IsAcked(a.ack, a.more, Wire(packets[s].id))}
           gone == Pending \ Pending'
<1>1. /\ packets' = [s \in Slots |-> IF s \in acked THEN [packets[s] EXCEPT !.age = 0]
                                                    ELSE packets[s]]
      /\ next - a.upTo <= Lifetime
      /\ next' = next /\ dataNet' = dataNet /\ ackNet' \subseteq ackNet
      /\ win' = win /\ received' = received
  BY DEF CheckAckHeaders, recvVars
<1>2. \A s \in Slots : /\ packets'[s].age = IF s \in acked THEN 0 ELSE packets[s].age
                       /\ packets'[s].id = packets[s].id
  BY <1>1 DEF ExactInv, WindowInv, SlotTypes
<1>3. Pending' \subseteq Pending
  <2> HIDE DEF acked
  <2> QED BY <1>2 DEF Pending
<1>4. ASSUME NEW i \in gone
      PROVE  received[i] > 0 /\ i <= InOrder + AckBits - 2
  <2>1. PICK s \in Slots : packets[s].age # 0 /\ i = packets[s].id
    BY DEF Pending
  <2>2. s \in acked
    <3> SUFFICES ASSUME s \notin acked PROVE FALSE
      OBVIOUS
    <3>1. packets'[s].age # 0 /\ packets'[s].id = i
      BY <1>2, <2>1
    <3>2. i \in Pending'
      BY <3>1 DEF Pending
    <3> QED BY <3>2
  <2> QED BY <1>1, <2>1, <2>2, AckedIsReceived
<1> HIDE DEF acked
<1>5. WindowInv'
  BY CheckAckHeadersKeeps DEF ExactInv
<1>6. Allocated'
  BY <1>1, <1>3 DEF ExactInv, Allocated
<1>7. WindowOf(win, received)' /\ AcksHold' /\ InOrder' = InOrder
  BY <1>1 DEF ExactInv, AcksHold, InOrder
<1>8. ForgottenIsReceived'
  BY <1>1, <1>4, <1>7 DEF ExactInv, ForgottenIsReceived
<1>9. CASE gone = {}
  <2>1. Pending' = Pending
    BY <1>3, <1>9
  <2> QED BY <1>1, <1>5, <1>6, <1>7, <1>8, <2>1 DEF ExactInv, Promise!vars
<1>10. CASE gone # {}
  <2>1. gone \in SUBSET Msgs
    <3>1. Pending \subseteq 0..(next - 1) /\ next \in 0..MaxMsgs
      BY DEF ExactInv, Allocated
    <3>2. 0..(next - 1) \subseteq Msgs
      BY <3>1, WindowSizes DEF Msgs
    <3> QED BY <3>1, <3>2
  <2>2. \A i \in gone : i \in Pending /\ received[i] = 1
    BY <1>4, <2>1 DEF ExactInv, Allocated
  <2>3. Pending' = Pending \ gone
    BY <1>3
  <2> HIDE DEF gone
  <2>4. Promise!Forget(gone)
    BY <1>1, <1>10, <2>2, <2>3 DEF Promise!Forget
  <2> QED BY <1>5, <1>6, <1>7, <1>8, <2>1, <2>4 DEF ExactInv, Promise!Next
<1> QED BY <1>9, <1>10

\* sendRetries sends what it keeps and forgets nothing.
LEMMA SendRetriesExact ==
  ASSUME ShortStalls, ExactInv, NEW ticks \in 1..MaxTicks, SendRetries(ticks)
  PROVE  ExactInv' /\ UNCHANGED Promise!vars
<1>1. \A s \in Slots : /\ packets'[s].age # 0 <=> packets[s].age # 0
                       /\ packets'[s].id = packets[s].id
  BY RetriedSlot DEF ExactInv
<1>2. Pending' = Pending
  BY <1>1 DEF Pending
<1>3. /\ next' = next /\ ackNet' = ackNet /\ win' = win /\ received' = received
      /\ dataNet' \subseteq dataNet \cup Pending
  BY DEF SendRetries, recvVars, IsRetried, Pending
<1>4. WindowInv'
  BY SendRetriesKeeps DEF ExactInv
<1>5. Allocated'
  BY <1>2, <1>3 DEF ExactInv, Allocated
<1>6. WindowOf(win, received)' /\ AcksHold' /\ InOrder' = InOrder
  BY <1>3 DEF ExactInv, AcksHold, InOrder
<1>7. ForgottenIsReceived'
  BY <1>2, <1>3, <1>6 DEF ExactInv, ForgottenIsReceived
<1> QED BY <1>2, <1>3, <1>4, <1>5, <1>6, <1>7 DEF ExactInv, Promise!vars

\* The client processes a datagram that it had not received, and the server still has it.
LEMMA ReceiveDataExact ==
  ASSUME WideEnough, ExactInv, NEW i \in dataNet, ReceiveData(i)
  PROVE  ExactInv' /\ [Promise!Next]_(Promise!vars)
<1>0. /\ InOrder = First(received) /\ InOrder' = First(received')
  BY DEF InOrder
<1>1. /\ next \in 0..MaxMsgs /\ i \in 0..(next - 1) /\ i \in Msgs /\ MaxMsgs \in Nat
      /\ received \in [Msgs -> 0..1] /\ (\A j \in Msgs : received[j] > 0 => j < next)
      /\ InOrder \in 0..next
  BY FirstAllocated, WindowSizes DEF ExactInv, Allocated, Msgs
<1>2. /\ next - i <= Lifetime /\ dataNet' \subseteq dataNet /\ win' = Receive(win, Wire(i))
      /\ next' = next /\ packets' = packets /\ numUnacked' = numUnacked /\ ackNet' = ackNet
      /\ received' = IF Processed(win, Wire(i))
                     THEN [received EXCEPT ![i] = IF @ = 0 THEN 1 ELSE 2] ELSE received
  BY DEF ReceiveData, sendVars
<1>3. Reaches(received, i)
  <2>1. next - InOrder <= AckBits - 2 + NumSlots
    BY SpanIs DEF ExactInv, WindowInv
  <2>2. \A d \in 1..(RecvMax + 1) : Recordable(d)
    BY WindowSizes DEF Recordable, WideEnough
  <2> QED BY <1>0, <1>1, <1>2, <2>1, <2>2, DownlinkSizes, WindowSizes
          DEF Reaches, WideEnough, LinkFits
<1>4. Processed(win, Wire(i)) => received[i] = 0
  BY <1>1, <1>3, ProcessedIsNew DEF ExactInv, WideEnough
<1>5. received' = IF Processed(win, Wire(i)) THEN [received EXCEPT ![i] = 1] ELSE received
  BY <1>2, <1>4
<1>6. received' \in [Msgs -> 0..1] /\ \A j \in Msgs : /\ received[j] > 0 => received'[j] > 0
                                                      /\ received'[j] > 0 => received[j] > 0 \/ j = i
  BY <1>1, <1>5
<1>7. WindowOf(win', received') /\ First(received') >= First(received)
  BY <1>1, <1>2, <1>3, <1>5, ReceiveKeepsWindow DEF ExactInv, WideEnough
<1>8. Pending' = Pending
  BY <1>2 DEF Pending
<1>9. WindowInv'
  BY <1>2 DEF ExactInv, WindowInv, SlotTypes, UnackedCountsSlots
<1>10. Allocated'
  BY <1>1, <1>2, <1>6, <1>8 DEF ExactInv, Allocated
<1>11. First(received) \in Nat /\ First(received') \in Nat
  BY <1>1, <1>6, FirstIs, WindowSizes
<1>12. ForgottenIsReceived'
  <2> SUFFICES ASSUME NEW j \in 0..(next - 1)
               PROVE  j \in Pending \/ (received'[j] > 0 /\ j <= InOrder' + AckBits - 2)
    BY <1>2, <1>8 DEF ForgottenIsReceived
  <2>1. j \in Pending \/ (received[j] > 0 /\ j <= InOrder + AckBits - 2)
    BY DEF ExactInv, ForgottenIsReceived
  <2>2. j \in Msgs
    BY <1>1 DEF Msgs
  <2> QED BY <1>0, <1>6, <1>7, <1>11, <2>1, <2>2, WindowSizes
<1>13. AcksHold'
  <2> SUFFICES ASSUME NEW a \in ackNet PROVE AckHolds(a, received')
    BY <1>2 DEF AcksHold
  <2>1. AckHolds(a, received)
    BY DEF ExactInv, AcksHold
  <2> QED BY <1>1, <1>6, <1>7, <2>1, AckGrows
<1>14. ExactInv'
  BY <1>7, <1>9, <1>10, <1>12, <1>13 DEF ExactInv
<1>15. CASE Processed(win, Wire(i))
  <2>1. i \in Pending /\ received[i] = 0
    BY <1>1, <1>4, <1>15 DEF ExactInv, ForgottenIsReceived
  <2>2. Promise!Deliver(i)
    BY <1>5, <1>8, <1>15, <2>1 DEF Promise!Deliver
  <2> QED BY <1>1, <1>14, <2>2 DEF Promise!Next
<1>16. CASE ~Processed(win, Wire(i))
  BY <1>5, <1>8, <1>14, <1>16 DEF Promise!vars
<1> QED BY <1>15, <1>16

\* setAckHeaders tells what the window says.
LEMMA SendAckExact ==
  ASSUME ExactInv, SendAck
  PROVE  ExactInv' /\ UNCHANGED Promise!vars
<1> DEFINE a == [ack |-> AckOf(win), more |-> AckMoreOf(win), upTo |-> InOrder]
<1>0. /\ InOrder = First(received) /\ InOrder' = First(received') /\ InOrder \in Nat
  BY FirstAllocated, WindowSizes DEF InOrder, ExactInv, Allocated
<1>1. /\ ackNet' = ackNet \cup {a} /\ win' = [win EXCEPT !.acked = TRUE]
      /\ next' = next /\ packets' = packets /\ numUnacked' = numUnacked
      /\ dataNet' = dataNet /\ received' = received
  BY DEF SendAck, sendVars
<1>2. /\ win \in Windows /\ win.seqNum = Wire(SeqMod + InOrder - 1) /\ win.seqNum \in Wires
      /\ win.more = {0} \cup Beyond(received)
  BY <1>0 DEF ExactInv, WindowOf, Windows
<1>3. AckHolds(a, received)
  BY <1>0, AckTold DEF ExactInv, Allocated
<1>4. AcksHold'
  BY <1>1, <1>3 DEF ExactInv, AcksHold
<1>5. WindowOf(win', received')
  BY <1>1, <1>2, <1>0 DEF WindowOf, Windows
<1>6. Pending' = Pending
  BY <1>1 DEF Pending
<1>7. WindowInv' /\ Allocated' /\ ForgottenIsReceived'
  BY <1>0, <1>1, <1>6 DEF ExactInv, WindowInv, SlotTypes, UnackedCountsSlots, Allocated, ForgottenIsReceived
<1> QED BY <1>1, <1>4, <1>5, <1>6, <1>7 DEF ExactInv, Promise!vars

LEMMA LoseExact ==
  ASSUME ExactInv, Lose \/ UNCHANGED vars
  PROVE  ExactInv' /\ UNCHANGED Promise!vars
<1>1. /\ next' = next /\ packets' = packets /\ numUnacked' = numUnacked
      /\ win' = win /\ received' = received
      /\ dataNet' \subseteq dataNet /\ ackNet' \subseteq ackNet
  BY DEF Lose, vars, sendVars, recvVars
<1>2. Pending' = Pending /\ InOrder' = InOrder
  BY <1>1 DEF Pending, InOrder
<1>3. WindowOf(win', received')
  BY <1>1 DEF ExactInv
<1>4. WindowInv' /\ Allocated' /\ ForgottenIsReceived' /\ AcksHold'
  BY <1>1, <1>2 DEF ExactInv, WindowInv, SlotTypes, UnackedCountsSlots, Allocated,
                    ForgottenIsReceived, AcksHold
<1> QED BY <1>1, <1>2, <1>3, <1>4 DEF ExactInv, Promise!vars

\* Each step keeps the invariant and is a step of ExactlyOnce, or changes nothing it sees.
LEMMA NextExact ==
  ShortStalls /\ WideEnough /\ ExactInv /\ [Next]_vars => ExactInv' /\ [Promise!Next]_(Promise!vars)
<1> SUFFICES ASSUME ShortStalls, WideEnough, ExactInv, [Next]_vars
             PROVE  ExactInv' /\ [Promise!Next]_(Promise!vars)
  OBVIOUS
<1>1. CASE NextPacket
  <2>1. next \in Msgs
    BY <1>1, WindowSizes DEF NextPacket, ExactInv, Allocated, Msgs
  <2> QED BY <1>1, <2>1, NextPacketExact DEF Promise!Next
<1>2. ASSUME NEW a \in ackNet, CheckAckHeaders(a)
      PROVE  ExactInv' /\ [Promise!Next]_(Promise!vars)
  BY <1>2, CheckAckHeadersExact
<1>3. ASSUME NEW ticks \in 1..MaxTicks, SendRetries(ticks)
      PROVE  ExactInv' /\ [Promise!Next]_(Promise!vars)
  BY <1>3, SendRetriesExact
<1>4. ASSUME NEW i \in dataNet, ReceiveData(i)
      PROVE  ExactInv' /\ [Promise!Next]_(Promise!vars)
  BY <1>4, ReceiveDataExact
<1>5. CASE SendAck
  BY <1>5, SendAckExact
<1>6. CASE Lose \/ UNCHANGED vars
  BY <1>6, LoseExact
<1> QED BY <1>1, <1>2, <1>3, <1>4, <1>5, <1>6 DEF Next

LEMMA Exact == ShortStalls /\ WideEnough => (Spec => []ExactInv)
<1> SUFFICES ASSUME ShortStalls, WideEnough
             PROVE  Spec => []ExactInv
  OBVIOUS
<1>1. Init => ExactInv
  BY InitExact
<1>2. ExactInv /\ [Next]_vars => ExactInv'
  BY NextExact
<1> QED BY <1>1, <1>2, PTL DEF Spec

\* Whatever the network loses, repeats or reorders and wherever the numbers on the wire
\* wrap, the client processes each datagram of SendWindow.nextPacket once, and
\* checkAckHeaders forgets it only after that.
THEOREM DownlinkIsExactlyOnce ==
  ShortStalls /\ WideEnough => (Spec => ImplementsExactlyOnce)
<1> SUFFICES ASSUME ShortStalls, WideEnough
             PROVE  Spec => ImplementsExactlyOnce
  OBVIOUS
<1>1. Init => Promise!Init
  BY DEF Init, Promise!Init, Pending
<1>2. ExactInv /\ [Next]_vars => [Promise!Next]_(Promise!vars)
  BY NextExact
<1>3. Spec => []ExactInv
  BY Exact
<1> QED BY <1>1, <1>2, <1>3, PTL DEF Spec, ImplementsExactlyOnce, Promise!Spec

\* ReceiveWindow.receive keeps seqNum and seqMore equal to what the client has
\* received, through every wrap, gap and slide.
THEOREM WindowStaysTrue == ShortStalls /\ WideEnough => (Spec => []WindowMatches)
<1> SUFFICES ASSUME ShortStalls, WideEnough
             PROVE  Spec => []WindowMatches
  OBVIOUS
<1>1. ExactInv => WindowMatches
  BY DEF ExactInv, WindowOf, WindowMatches, Beyond, Delivered, InOrder
<1> QED BY <1>1, Exact, PTL

\* SendWindow frees slots out of order and still stays close enough to the client for
\* isAcked to tell old numbers from new ones.
THEOREM SpanStaysBounded == ShortStalls /\ WideEnough => (Spec => []SpanBounded)
<1> SUFFICES ASSUME ShortStalls, WideEnough
             PROVE  Spec => []SpanBounded
  OBVIOUS
<1>1. ExactInv => SpanBounded
  BY SpanIs DEF ExactInv, WindowInv, SpanBounded
<1> QED BY <1>1, Exact, PTL

-----------------------------------------------------------------------------
(* The uplink: numbers, the list of the client and the window of the server *)

\* The mask of the server's window is as wide as the window: it can record what the
\* client has sent as long as the client is not further ahead than that.
WithinMask == taken - ServerNext < MaskBits

\* The threads that took a number and have not entered the list yet.
Waiting == {t \in Threads : sender[t].at = "numbered"}
Numbered == {sender[t].id : t \in Waiting}

\* A datagram that entered the list is in it, or was processed.
Entered(i) == i \in Queued \/ handled[i] > 0

\* What an acknowledgement can name.
Known(i) == handled[i] > 0 /\ i <= ServerNext + AckBits - 2

UplinkTypes ==
  /\ taken \in 0..MaxMsgs
  /\ sender \in [Threads -> [at : {"idle", "numbered", "queued"}, id : Int]]
  /\ queue \in Seq([id : Int, acked : BOOLEAN]) /\ Len(queue) <= SendSize
  /\ handled \in [Msgs -> 0..1]

\* Every number was taken once, and a number that still waits for room was neither
\* listed nor sent.
NumbersInv ==
  /\ Numbered \subseteq 0..(taken - 1) /\ Queued \subseteq 0..(taken - 1)
  /\ toServer \subseteq 0..(taken - 1)
  /\ \A i \in Msgs : handled[i] > 0 => i < taken
  /\ \A t, u \in Waiting : t # u => sender[t].id # sender[u].id
  /\ \A i \in Numbered : i \notin Queued /\ handled[i] = 0

\* The list holds a datagram once, and what is on its way was listed.
ListInv ==
  /\ \A j, k \in DOMAIN queue : j # k => queue[j].id # queue[k].id
  /\ \A k \in DOMAIN queue : queue[k].acked => Known(queue[k].id)
  /\ \A i \in toServer : Entered(i)
  /\ \A t \in Threads : sender[t].at = "queued" =>
       sender[t].id \in 0..(taken - 1) /\ Entered(sender[t].id)

\* The window of the server, with the -1 that init leaves masked.
Masked(w) == [seqNum |-> Mask(w.seqNum), more |-> w.more, acked |-> w.acked]
ServerInv ==
  /\ window \in [seqNum : -1..(SeqMod - 1), more : SUBSET (0..(MaskBits - 1)), acked : BOOLEAN]
  /\ WindowOf(Masked(window), handled)
  /\ \A a \in toClient : AckHolds(a, handled)

UplinkInv == UplinkTypes /\ NumbersInv /\ ListInv /\ ServerInv

\* While no wait is interrupted, a number that was taken is waiting, listed or known.
Accounted == \A i \in 0..(taken - 1) : i \in Numbered \/ i \in Queued \/ Known(i)

\* A receive window that stands at -1 goes on like one that stands at the last number,
\* but for a datagram out of range that the other would take.
LEMMA ReceiveMasked ==
  ASSUME NEW w, w \in [seqNum : -1..(SeqMod - 1), more : SUBSET (0..(MaskBits - 1)), acked : BOOLEAN],
         NEW num \in Wires
  PROVE  \/ /\ ~Processed(w, num)
            /\ Receive(w, num) \in {w, [w EXCEPT !.acked = FALSE]}
         \/ /\ Processed(w, num) /\ Processed(Masked(w), num)
            /\ Receive(w, num).seqNum \in -1..(SeqMod - 1)
            /\ Receive(w, num).acked = FALSE
            /\ Receive(w, num) = [seqNum |-> Receive(w, num).seqNum,
                                  more |-> Receive(w, num).more,
                                  acked |-> Receive(w, num).acked]
            /\ Masked(Receive(w, num)) = Receive(Masked(w), num)
<1> DEFINE q == w.seqNum
           r == Masked(w).seqNum
<1>1. /\ q \in -1..(SeqMod - 1) /\ r = Mask(q) /\ r \in Wires /\ SeqMod \in Nat
      /\ Masked(w).more = w.more
  BY WindowSizes DEF Masked, Mask, Wires
<1>2. IsNext(r, num) <=> IsNext(q, num)
  BY <1>1, WindowSizes DEF IsNext, Mask, Wires
<1>3. InWindow(q, num) => InWindow(r, num)
  BY <1>1, WindowSizes DEF InWindow, Mask, Wires
<1>4. Mask(num - r) = Mask(num - q)
  BY <1>1, WindowSizes DEF Mask, Wires
<1>5. CASE ~Processed(w, num)
  BY <1>5 DEF Receive, Processed
<1>6. CASE Processed(w, num)
  <2>1. InWindow(q, num) /\ (IsNext(q, num) \/ ShiftedBit(Mask(num - q)) \cap w.more = {})
    BY <1>6 DEF Processed
  <2>2. Processed(Masked(w), num)
    BY <2>1, <1>1, <1>2, <1>3, <1>4 DEF Processed
  <2>3. CASE IsNext(q, num)
    <3>1. Receive(w, num) = Slide(w) /\ Receive(Masked(w), num) = Slide(Masked(w))
      BY <2>1, <2>3, <1>2, <1>3 DEF Receive
    <3>2. SlideBy(w.more) \in 1..MaskBits
      BY SlideByIs
    <3>3. /\ Mask(q + SlideBy(w.more)) \in 0..(SeqMod - 1)
          /\ Mask(Mask(q + SlideBy(w.more))) = Mask(r + SlideBy(w.more))
      BY <3>2, <1>1, WindowSizes DEF Mask, Wires
    <3>4. /\ Slide(w).seqNum = Mask(q + SlideBy(w.more)) /\ Slide(w).acked = FALSE
          /\ Slide(w) = [seqNum |-> Slide(w).seqNum, more |-> Slide(w).more, acked |-> Slide(w).acked]
      BY DEF Slide
    <3>5. /\ Slide(Masked(w)).more = Slide(w).more
          /\ Slide(Masked(w)).seqNum = Mask(r + SlideBy(w.more))
          /\ Slide(Masked(w)).acked = FALSE
          /\ Slide(Masked(w)) = [seqNum |-> Slide(Masked(w)).seqNum, more |-> Slide(Masked(w)).more,
                                 acked |-> Slide(Masked(w)).acked]
      BY <1>1 DEF Slide
    <3>6. Masked(Slide(w)) = Slide(Masked(w))
      BY <3>3, <3>4, <3>5 DEF Masked
    <3> QED BY <1>6, <2>2, <3>1, <3>3, <3>4, <3>6
  <2>4. CASE ~IsNext(q, num)
    <3>1. Receive(w, num) = [seqNum |-> q, more |-> w.more \cup ShiftedBit(Mask(num - q)), acked |-> FALSE]
      BY <1>6, <2>1, <2>4 DEF Receive
    <3>2. Receive(Masked(w), num) =
            [seqNum |-> r, more |-> w.more \cup ShiftedBit(Mask(num - q)), acked |-> FALSE]
      BY <1>1, <1>2, <1>3, <1>4, <2>1, <2>2, <2>4 DEF Receive
    <3>3. Masked(Receive(w, num)) = Receive(Masked(w), num)
      BY <1>1, <3>1, <3>2 DEF Masked
    <3> QED BY <1>1, <1>6, <2>2, <3>1, <3>3
  <2> QED BY <2>3, <2>4
<1> QED BY <1>5, <1>6

\* What the server does next, and nothing that was known is forgotten.
LEMMA UplinkFirst ==
  ASSUME UplinkTypes, NumbersInv
  PROVE  /\ ServerNext \in 0..taken /\ taken \in Nat /\ taken \in 0..MaxMsgs
         /\ (ServerNext < MaxMsgs => handled[ServerNext] = 0)
<1>1. /\ ServerNext \in 0..MaxMsgs /\ \A i \in 0..(ServerNext - 1) : handled[i] > 0
      /\ ServerNext < MaxMsgs => handled[ServerNext] = 0
  BY FirstIs DEF UplinkTypes, ServerNext
<1>2. MaxMsgs \in Nat /\ Msgs = 0..(MaxMsgs - 1) /\ taken \in 0..MaxMsgs
      /\ \A i \in Msgs : handled[i] > 0 => i < taken
  BY WindowSizes DEF Msgs, UplinkTypes, NumbersInv
<1>3. ~(taken < ServerNext)
  BY <1>1, <1>2
<1> QED BY <1>1, <1>2, <1>3

\* What the list holds, and how many: a number that is listed has a place there.
LEMMA QueuedSize ==
  ASSUME UplinkTypes
  PROVE  /\ IsFiniteSet(Queued) /\ Cardinality(Queued) \in Nat
         /\ Cardinality(Queued) <= Len(queue) /\ Len(queue) \in Nat /\ DOMAIN queue = 1..Len(queue)
<1>1. queue \in Seq([id : Int, acked : BOOLEAN]) /\ Len(queue) \in Nat /\ DOMAIN queue = 1..Len(queue)
  BY LenProperties DEF UplinkTypes
<1> DEFINE f == [k \in 1..Len(queue) |-> queue[k].id]
<1>2. f \in Surjection(1..Len(queue), Queued)
  BY <1>1 DEF Surjection, Queued
<1>3. IsFiniteSet(1..Len(queue)) /\ Cardinality(1..Len(queue)) = Len(queue)
  <2>1. 1 \in Int /\ Len(queue) \in Int
    BY <1>1
  <2>2. /\ IsFiniteSet(1..Len(queue))
        /\ Cardinality(1..Len(queue)) = IF 1 > Len(queue) THEN 0 ELSE Len(queue) - 1 + 1
    BY <2>1, FS_Interval
  <2> QED BY <1>1, <2>2
<1>4. IsFiniteSet(Queued) /\ Cardinality(Queued) <= Len(queue)
  BY <1>2, <1>3, FS_Surjection
<1>5. Cardinality(Queued) \in Nat
  BY <1>4, FS_CardinalityType
<1> QED BY <1>1, <1>4, <1>5

\* The lists of ids and marks are the fields of the entries.
LEMMA Entries ==
  ASSUME UplinkTypes
  PROVE  /\ \A k \in DOMAIN queue : queue[k] \in [id : Int, acked : BOOLEAN]
         /\ \A t \in Threads : /\ sender[t] \in [at : {"idle", "numbered", "queued"}, id : Int]
<1>1. \A k \in DOMAIN queue : queue[k] \in [id : Int, acked : BOOLEAN]
  BY LenProperties, ElementOfSeq DEF UplinkTypes
<1> QED BY <1>1 DEF UplinkTypes

\* A step of the client leaves the server's side as it is.
LEMMA ServerStays ==
  ASSUME ServerInv, UNCHANGED serverVars, toClient' \subseteq toClient
  PROVE  ServerInv'
BY DEF ServerInv, serverVars, WindowOf, AckHolds

\* The first number is the client's next one.
LEMMA InitUplink == LinkFits /\ UplinkInit => UplinkInv /\ Accounted
<1> SUFFICES ASSUME LinkFits, UplinkInit PROVE UplinkInv /\ Accounted
  OBVIOUS
<1>1. /\ taken = 0 /\ sender = [t \in Threads |-> Idle] /\ queue = <<>> /\ toServer = {}
      /\ toClient = {} /\ window = [seqNum |-> FirstSeq - 1, more |-> {0}, acked |-> FALSE]
      /\ handled = [i \in Msgs |-> 0]
  BY DEF UplinkInit, InitWindow
<1>2. Waiting = {} /\ Numbered = {} /\ \A t \in Threads : sender[t].at = "idle"
  BY <1>1 DEF Idle, Waiting, Numbered
<1>3. DOMAIN queue = {} /\ Len(queue) = 0 /\ queue \in Seq([id : Int, acked : BOOLEAN])
  BY <1>1, EmptySeq
<1>4. Queued = {}
  BY <1>3 DEF Queued
<1>5. handled \in [Msgs -> 0..1] /\ WindowOf(Masked(window), handled)
  <2>1. Masked(window) = [seqNum |-> Mask(FirstSeq - 1), more |-> {0}, acked |-> FALSE]
    BY <1>1 DEF Masked
  <2> QED BY <1>1, <2>1, NothingReceived
<1>6. UplinkTypes
  <2>1. sender \in [Threads -> [at : {"idle", "numbered", "queued"}, id : Int]]
    BY <1>1 DEF Idle
  <2> QED BY <1>1, <1>3, <1>5, <2>1, WindowSizes, UplinkSizes DEF UplinkTypes
<1>7. NumbersInv
  BY <1>1, <1>2, <1>4, <1>5 DEF NumbersInv
<1>8. ListInv
  BY <1>1, <1>2, <1>3 DEF ListInv
<1>9. ServerInv
  <2>1. FirstSeq - 1 \in -1..(SeqMod - 1) /\ 0 \in 0..(MaskBits - 1)
    BY WindowSizes
  <2> QED BY <1>1, <1>5, <2>1 DEF ServerInv
<1> QED BY <1>1, <1>6, <1>7, <1>8, <1>9 DEF UplinkInv, Accounted

\* A thread takes the next number: it is new, and the others are as before.
LEMMA NextSeqNumKeeps ==
  ASSUME UplinkInv, NEW t \in Threads, NextSeqNum(t)
  PROVE  UplinkInv' /\ UNCHANGED UplinkPromise!vars /\ (Accounted => Accounted')
<1>1. /\ sender[t].at = "idle" /\ taken < MaxMsgs /\ taken' = taken + 1
      /\ sender' = [sender EXCEPT ![t] = [at |-> "numbered", id |-> taken]]
      /\ UNCHANGED <<queue, toServer, toClient, serverVars>> /\ window' = window /\ handled' = handled
  BY DEF NextSeqNum, serverVars
<1>2. /\ taken \in 0..MaxMsgs /\ MaxMsgs \in Nat /\ taken' \in 0..MaxMsgs /\ taken \in Msgs
      /\ sender \in [Threads -> [at : {"idle", "numbered", "queued"}, id : Int]]
  BY <1>1, WindowSizes DEF UplinkInv, UplinkTypes, Msgs
<1>3. /\ sender' \in [Threads -> [at : {"idle", "numbered", "queued"}, id : Int]]
      /\ sender'[t] = [at |-> "numbered", id |-> taken]
      /\ \A u \in Threads : u # t => sender'[u] = sender[u]
  BY <1>1, <1>2
<1>4. Waiting' = Waiting \cup {t} /\ t \notin Waiting
  BY <1>1, <1>3 DEF Waiting
<1>5. Numbered' = Numbered \cup {taken}
  BY <1>3, <1>4 DEF Numbered, Waiting
<1>6. Queued' = Queued /\ ServerNext' = ServerNext /\ \A i : Entered(i)' = Entered(i) /\ Known(i)' = Known(i)
  BY <1>1 DEF Queued, ServerNext, Entered, Known
<1>7. UplinkTypes'
  BY <1>1, <1>2, <1>3 DEF UplinkInv, UplinkTypes
<1>8. NumbersInv'
  <2>1. /\ taken \notin Queued /\ taken \notin Numbered /\ handled[taken] = 0
        /\ \A u \in Waiting : sender[u].id # taken
    <3>1. taken \notin 0..(taken - 1)
      BY <1>2
    <3>2. taken \notin Queued /\ taken \notin Numbered
      BY <3>1 DEF UplinkInv, NumbersInv
    <3>3. handled[taken] \in 0..1 /\ ~(handled[taken] > 0)
      BY <1>2, <3>1 DEF UplinkInv, UplinkTypes, NumbersInv
    <3>4. \A u \in Waiting : sender[u].id \in Numbered
      BY DEF Numbered
    <3> QED BY <3>2, <3>3, <3>4
  <2>2. \A u, v \in Waiting' : u # v => sender'[u].id # sender'[v].id
    <3> SUFFICES ASSUME NEW u \in Waiting', NEW v \in Waiting', u # v
                 PROVE  sender'[u].id # sender'[v].id
      OBVIOUS
    <3>1. \A x \in Waiting : sender'[x] = sender[x]
      BY <1>3, <1>4 DEF Waiting
    <3>2. CASE u = t
      BY <1>3, <1>4, <2>1, <3>1, <3>2
    <3>3. CASE v = t
      BY <1>3, <1>4, <2>1, <3>1, <3>3
    <3>4. CASE u # t /\ v # t
      BY <1>4, <3>1, <3>4 DEF UplinkInv, NumbersInv
    <3> QED BY <3>2, <3>3, <3>4
  <2>3. \A i \in Numbered' : i \notin Queued' /\ handled'[i] = 0
    BY <1>1, <1>5, <1>6, <2>1 DEF UplinkInv, NumbersInv
  <2>4. /\ Numbered' \subseteq 0..(taken' - 1) /\ Queued' \subseteq 0..(taken' - 1)
        /\ toServer' \subseteq 0..(taken' - 1)
        /\ \A i \in Msgs : handled'[i] > 0 => i < taken'
    BY <1>1, <1>2, <1>5, <1>6, WindowSizes DEF UplinkInv, NumbersInv, Msgs
  <2> QED BY <2>2, <2>3, <2>4 DEF NumbersInv
<1>9. ListInv'
  <2>1. \A u \in Threads : sender'[u].at = "queued" => sender'[u] = sender[u]
    BY <1>3
  <2> QED BY <1>1, <1>2, <1>6, <2>1 DEF UplinkInv, ListInv
<1>10. ServerInv'
  BY <1>1, ServerStays DEF UplinkInv
<1>11. ASSUME Accounted PROVE Accounted'
  BY <1>1, <1>2, <1>5, <1>6, <1>11 DEF Accounted
<1> QED BY <1>1, <1>6, <1>7, <1>8, <1>9, <1>10, <1>11 DEF UplinkInv, UplinkPromise!vars

\* A thread enters the list with its number, which was not there and is not processed.
LEMMA EnqueueKeeps ==
  ASSUME UplinkInv, NEW t \in Threads, Enqueue(t)
  PROVE  /\ UplinkInv' /\ (Accounted => Accounted')
         /\ sender[t].id \in Msgs /\ UplinkPromise!Accept(sender[t].id)
<1> DEFINE d == sender[t].id
           e == [id |-> d, acked |-> FALSE]
<1>1. /\ sender[t].at = "numbered" /\ ~Full /\ queue' = Append(queue, e)
      /\ sender' = [sender EXCEPT ![t].at = "queued"]
      /\ UNCHANGED <<taken, toServer, toClient, serverVars>> /\ window' = window /\ handled' = handled
  BY DEF Enqueue, serverVars
<1>2. /\ taken \in 0..MaxMsgs /\ MaxMsgs \in Nat
      /\ sender \in [Threads -> [at : {"idle", "numbered", "queued"}, id : Int]]
      /\ queue \in Seq([id : Int, acked : BOOLEAN]) /\ Len(queue) \in Nat
      /\ DOMAIN queue = 1..Len(queue)
  BY WindowSizes, QueuedSize DEF UplinkInv, UplinkTypes
<1>3. /\ t \in Waiting /\ d \in Numbered /\ d \in 0..(taken - 1) /\ d \in Msgs /\ d \in Int
      /\ d \notin Queued /\ handled[d] = 0
  <2>1. t \in Waiting /\ d \in Numbered
    BY <1>1 DEF Waiting, Numbered
  <2>2. d \in 0..(taken - 1) /\ d \notin Queued /\ handled[d] = 0
    BY <2>1 DEF UplinkInv, NumbersInv
  <2> QED BY <1>2, <2>1, <2>2 DEF Msgs
<1>4. /\ sender' \in [Threads -> [at : {"idle", "numbered", "queued"}, id : Int]]
      /\ sender'[t].at = "queued" /\ sender'[t].id = d
      /\ \A u \in Threads : u # t => sender'[u] = sender[u]
  BY <1>1, <1>2
<1>5. e \in [id : Int, acked : BOOLEAN] /\ e.id = d /\ e.acked = FALSE
  BY <1>3
<1>6. /\ queue' \in Seq([id : Int, acked : BOOLEAN]) /\ Len(queue') = Len(queue) + 1
      /\ \A k \in 1..Len(queue) : queue'[k] = queue[k]
      /\ queue'[Len(queue) + 1] = e /\ DOMAIN queue' = 1..(Len(queue) + 1)
  <2> HIDE DEF e
  <2>1. /\ Append(queue, e) \in Seq([id : Int, acked : BOOLEAN])
        /\ Len(Append(queue, e)) = Len(queue) + 1
        /\ \A k \in 1..Len(queue) : Append(queue, e)[k] = queue[k]
        /\ Append(queue, e)[Len(queue) + 1] = e
    BY <1>2, <1>5, AppendProperties
  <2>2. DOMAIN queue' = 1..Len(queue')
    BY <1>1, <2>1, LenProperties
  <2> QED BY <1>1, <2>1, <2>2
<1> HIDE DEF d, e
<1>7. Queued' = Queued \cup {d}
  <2>1. Queued = {queue[k].id : k \in 1..Len(queue)}
    BY <1>2 DEF Queued
  <2>2. Queued' = {queue'[k].id : k \in 1..(Len(queue) + 1)}
    BY <1>6 DEF Queued
  <2>3. 1..(Len(queue) + 1) = 1..Len(queue) \cup {Len(queue) + 1}
    BY <1>2
  <2> QED BY <1>5, <1>6, <2>1, <2>2, <2>3
<1>8. Waiting' = Waiting \ {t} /\ \A u \in Waiting' : sender'[u] = sender[u]
  BY <1>4 DEF Waiting
<1>9. Numbered' = Numbered \ {d}
  <2>1. \A u \in Waiting : u # t => sender[u].id # d
    BY <1>3 DEF UplinkInv, NumbersInv, d
  <2> QED BY <1>8, <2>1 DEF Numbered, d
<1>10. /\ ServerNext' = ServerNext /\ \A i : Known(i)' = Known(i)
       /\ \A i : Entered(i) => Entered(i)'
  BY <1>1, <1>7 DEF ServerNext, Entered, Known
<1>11. UplinkTypes'
  BY <1>1, <1>2, <1>4, <1>6, UplinkSizes DEF UplinkInv, UplinkTypes, Full
<1>12. NumbersInv'
  <2>1. \A u, v \in Waiting' : u # v => sender'[u].id # sender'[v].id
    BY <1>8 DEF UplinkInv, NumbersInv
  <2> QED BY <1>1, <1>3, <1>7, <1>9, <2>1 DEF UplinkInv, NumbersInv
<1>13. ListInv'
  <2>1. \A k \in 1..Len(queue) : queue[k].id # d
    BY <1>2, <1>3 DEF Queued
  <2>2. /\ \A j, k \in 1..Len(queue) : j # k => queue[j].id # queue[k].id
        /\ \A k \in 1..Len(queue) : queue[k].acked => Known(queue[k].id)
    BY <1>2 DEF UplinkInv, ListInv
  <2>3. \A k \in DOMAIN queue' :
          \/ k \in 1..Len(queue) /\ queue'[k] = queue[k]
          \/ k = Len(queue) + 1 /\ queue'[k] = e
    BY <1>2, <1>6
  <2>4. \A j, k \in DOMAIN queue' : j # k => queue'[j].id # queue'[k].id
    BY <1>5, <2>1, <2>2, <2>3
  <2>5. (\A k \in DOMAIN queue : queue[k].acked => Known(queue[k].id))'
    BY <1>5, <1>10, <2>2, <2>3
  <2>6. \A i \in toServer' : Entered(i)'
    BY <1>1, <1>10 DEF UplinkInv, ListInv
  <2>7. (\A u \in Threads : sender[u].at = "queued" =>
           sender[u].id \in 0..(taken - 1) /\ Entered(sender[u].id))'
    <3>1. d \in Queued'
      BY <1>7
    <3>2. \A u \in Threads : sender[u].at = "queued" =>
             sender[u].id \in 0..(taken - 1) /\ Entered(sender[u].id)
      BY DEF UplinkInv, ListInv
    <3> QED BY <1>1, <1>3, <1>4, <1>7, <3>1, <3>2 DEF Entered
  <2> QED BY <2>4, <2>5, <2>6, <2>7 DEF ListInv
<1>14. ServerInv'
  BY <1>1, ServerStays DEF UplinkInv
<1>15. ASSUME Accounted PROVE Accounted'
  BY <1>1, <1>7, <1>9, <1>10, <1>15 DEF Accounted
<1>16. UplinkPromise!Accept(d)
  <2>1. Cardinality(Queued) < SendSize
    BY <1>1, <1>2, QueuedSize, UplinkSizes DEF UplinkInv, Full
  <2>2. UplinkPromise!Cardinality(Queued) = Cardinality(Queued)
    BY DEF UplinkPromise!Cardinality, Cardinality
  <2> QED BY <1>1, <1>3, <1>7, <2>1, <2>2 DEF UplinkPromise!Accept
<1> QED BY <1>3, <1>11, <1>12, <1>13, <1>14, <1>15, <1>16 DEF UplinkInv, d

\* A thread leaves send, having put its datagram on the wire or without: the others,
\* the list and the server do not see it.
LEMMA LeavesKeeps ==
  ASSUME UplinkInv, NEW t \in Threads, Interrupted(t) \/ Transmit(t)
  PROVE  /\ UplinkInv' /\ UNCHANGED UplinkPromise!vars
         /\ Transmit(t) /\ Accounted => Accounted'
<1>1. /\ sender' = [sender EXCEPT ![t] = Idle]
      /\ UNCHANGED <<taken, queue, toClient, serverVars>> /\ window' = window /\ handled' = handled
      /\ toServer' = toServer \/ (sender[t].at = "queued" /\ toServer' = toServer \cup {sender[t].id})
  BY DEF Interrupted, Transmit, serverVars
<1>2. sender \in [Threads -> [at : {"idle", "numbered", "queued"}, id : Int]]
  BY DEF UplinkInv, UplinkTypes
<1>3. /\ sender' \in [Threads -> [at : {"idle", "numbered", "queued"}, id : Int]]
      /\ sender'[t].at = "idle"
      /\ \A u \in Threads : u # t => sender'[u] = sender[u]
  BY <1>1, <1>2 DEF Idle
<1>4. /\ Waiting' = Waiting \ {t} /\ \A u \in Waiting' : sender'[u] = sender[u]
      /\ Numbered' \subseteq Numbered
  BY <1>3 DEF Waiting, Numbered
<1>5. Queued' = Queued /\ ServerNext' = ServerNext /\ \A i : Entered(i)' = Entered(i) /\ Known(i)' = Known(i)
  BY <1>1 DEF Queued, ServerNext, Entered, Known
<1>6. UplinkTypes'
  BY <1>1, <1>3 DEF UplinkInv, UplinkTypes
<1>7. \A i \in toServer' : i \in 0..(taken - 1) /\ Entered(i)
  BY <1>1 DEF UplinkInv, NumbersInv, ListInv
<1>8. NumbersInv'
  BY <1>1, <1>4, <1>5, <1>7 DEF UplinkInv, NumbersInv
<1>9. ListInv'
  BY <1>1, <1>3, <1>5, <1>7 DEF UplinkInv, ListInv
<1>10. ServerInv'
  BY <1>1, ServerStays DEF UplinkInv
<1>11. ASSUME Transmit(t), Accounted PROVE Accounted'
  <2>1. t \notin Waiting
    BY <1>11 DEF Transmit, Waiting
  <2>2. Numbered' = Numbered
    BY <1>4, <2>1 DEF Numbered
  <2> QED BY <1>1, <1>5, <1>11, <2>2 DEF Accounted
<1> QED BY <1>1, <1>5, <1>6, <1>8, <1>9, <1>10, <1>11 DEF UplinkInv, UplinkPromise!vars

\* What is sent again is in the list.
LEMMA ResendKeeps ==
  ASSUME UplinkInv, NEW due \in SUBSET Unacked, ClientSendRetries(due)
  PROVE  UplinkInv' /\ UNCHANGED UplinkPromise!vars /\ (Accounted => Accounted')
<1>1. /\ UNCHANGED <<taken, sender, queue, toClient, serverVars>>
      /\ window' = window /\ handled' = handled /\ toServer' = toServer \cup due
  BY DEF ClientSendRetries, clientVars, serverVars
<1>2. due \subseteq Queued
  BY DEF Unacked, Queued
<1>3. /\ Queued' = Queued /\ ServerNext' = ServerNext /\ Numbered' = Numbered /\ Waiting' = Waiting
      /\ \A i : Entered(i)' = Entered(i) /\ Known(i)' = Known(i)
  BY <1>1 DEF Queued, ServerNext, Entered, Known, Numbered, Waiting
<1>4. \A i \in toServer' : i \in 0..(taken - 1) /\ Entered(i)
  BY <1>1, <1>2 DEF UplinkInv, NumbersInv, ListInv, Entered
<1>5. UplinkTypes' /\ NumbersInv' /\ ListInv'
  BY <1>1, <1>3, <1>4 DEF UplinkInv, UplinkTypes, NumbersInv, ListInv
<1>6. ServerInv'
  BY <1>1, ServerStays DEF UplinkInv
<1> QED BY <1>1, <1>3, <1>5, <1>6 DEF UplinkInv, UplinkPromise!vars, Accounted

\* Of n things some are marked: the marked ones at the head have a last one.
LEMMA HeadOfMarked ==
  ASSUME NEW n \in Nat, NEW M \in SUBSET (1..n)
  PROVE  \E m \in 0..n : (\A k \in 1..m : k \in M) /\ (m < n => m + 1 \notin M)
<1> DEFINE stops == {m \in 0..n : m < n => m + 1 \notin M}
<1>1. n \in stops /\ stops \subseteq Nat
  OBVIOUS
<1>2. PICK m \in stops : \A j \in stops : m <= j
  BY <1>1, Least
<1>3. ASSUME NEW k \in 1..m PROVE k \in M
  <2>1. k - 1 \in 0..n /\ k - 1 < n /\ (k - 1) + 1 = k /\ ~(m <= k - 1)
    BY <1>2
  <2>2. k - 1 \notin stops
    BY <1>2, <2>1
  <2> QED BY <2>1, <2>2
<1> QED BY <1>2, <1>3

\* checkAckHeaders marks what the server has processed, and drops from the head of the
\* list what is marked: nothing else leaves it.
LEMMA AcksPopped ==
  ASSUME LinkFits, UplinkInv, NEW a \in toClient, ClientCheckAckHeaders(a)
  PROVE  \E p \in 0..Len(queue) :
           /\ queue' \in Seq([id : Int, acked : BOOLEAN]) /\ Len(queue') = Len(queue) - p
           /\ \A k \in 1..(Len(queue) - p) : /\ queue'[k].id = queue[p + k].id
                                             /\ queue'[k].acked => Known(queue[p + k].id)
           /\ \A k \in 1..p : Known(queue[k].id)
<1> DEFINE N == Len(queue)
           Mark(k) == queue[k].acked \/ IsAcked(a.ack, a.more, Wire(queue[k].id))
           marked == [k \in DOMAIN queue |->
                       [queue[k] EXCEPT !.acked = @ \/ IsAcked(a.ack, a.more, Wire(queue[k].id))]]
           popped == CHOOSE n \in 0..N : /\ \A k \in 1..n : marked[k].acked
                                         /\ n < N => ~marked[n + 1].acked
<1>1. /\ N \in Nat /\ DOMAIN queue = 1..N
      /\ \A k \in 1..N : queue[k] \in [id : Int, acked : BOOLEAN]
  BY QueuedSize, Entries DEF UplinkInv
<1>2. queue' = SubSeq(marked, popped + 1, N) /\ taken - a.upTo <= Lifetime
  BY DEF ClientCheckAckHeaders
<1>3. \A k \in 1..N : /\ marked[k] \in [id : Int, acked : BOOLEAN]
                      /\ marked[k].id = queue[k].id /\ (marked[k].acked <=> Mark(k))
  BY <1>1
<1>4. ASSUME NEW k \in 1..N, Mark(k) PROVE Known(queue[k].id)
  <2>1. CASE queue[k].acked
    BY <1>1, <2>1 DEF UplinkInv, ListInv
  <2>2. CASE IsAcked(a.ack, a.more, Wire(queue[k].id))
    <3>1. queue[k].id \in 0..(taken - 1)
      BY <1>1 DEF UplinkInv, NumbersInv, Queued
    <3>2. /\ taken \in Nat /\ handled \in [Msgs -> 0..1] /\ First(handled) <= taken
          /\ AckHolds(a, handled)
      BY UplinkFirst DEF UplinkInv, UplinkTypes, ServerInv, ServerNext
    <3> QED BY <1>2, <2>2, <3>1, <3>2, AckedWas DEF Known, ServerNext
  <2> QED BY <1>4, <2>1, <2>2
<1> HIDE DEF marked, N, Mark
<1>5. /\ popped \in 0..N /\ \A k \in 1..popped : marked[k].acked
  <2> DEFINE M == {k \in 1..N : marked[k].acked}
  <2>1. PICK m \in 0..N : (\A k \in 1..m : k \in M) /\ (m < N => m + 1 \notin M)
    <3> HIDE DEF M
    <3>1. M \in SUBSET (1..N)
      BY DEF M
    <3> QED BY <1>1, <3>1, HeadOfMarked
  <2>2. (\A k \in 1..m : marked[k].acked) /\ (m < N => ~marked[m + 1].acked)
    BY <1>1, <2>1
  <2>3. \E n \in 0..N : (\A k \in 1..n : marked[k].acked) /\ (n < N => ~marked[n + 1].acked)
    BY <2>1, <2>2
  <2> QED BY <2>3
<1> HIDE DEF popped
<1>6. /\ queue' \in Seq([id : Int, acked : BOOLEAN]) /\ Len(queue') = N - popped
      /\ \A k \in 1..(N - popped) : queue'[k] = marked[popped + k]
  <2>1. \A k \in (popped + 1)..N : marked[k] \in [id : Int, acked : BOOLEAN]
    BY <1>1, <1>3, <1>5
  <2>2. /\ SubSeq(marked, popped + 1, N) \in Seq([id : Int, acked : BOOLEAN])
        /\ Len(SubSeq(marked, popped + 1, N)) =
             IF popped + 1 <= N THEN N - (popped + 1) + 1 ELSE 0
        /\ \A k \in 1..(N - (popped + 1) + 1) :
             SubSeq(marked, popped + 1, N)[k] = marked[(popped + 1) + k - 1]
    BY <1>1, <1>5, <2>1, SubSeqProperties
  <2>3. /\ N - (popped + 1) + 1 = N - popped
        /\ (IF popped + 1 <= N THEN N - (popped + 1) + 1 ELSE 0) = N - popped
        /\ \A k \in 1..(N - popped) : (popped + 1) + k - 1 = popped + k
    BY <1>1, <1>5
  <2> QED BY <1>2, <2>2, <2>3
<1>7. \A k \in 1..(N - popped) : popped + k \in 1..N
  BY <1>1, <1>5
<1>8. \A k \in 1..(N - popped) : /\ queue'[k].id = queue[popped + k].id
                                 /\ queue'[k].acked => Known(queue[popped + k].id)
  BY <1>3, <1>4, <1>6, <1>7
<1>9. \A k \in 1..popped : Known(queue[k].id)
  BY <1>1, <1>3, <1>4, <1>5
<1> QED BY <1>5, <1>6, <1>8, <1>9 DEF N

\* What leaves the list has been processed, and ExactlyOnce may forget it.
LEMMA ClientCheckAckHeadersKeeps ==
  ASSUME LinkFits, UplinkInv, NEW a \in toClient, ClientCheckAckHeaders(a)
  PROVE  /\ UplinkInv' /\ [UplinkPromise!Next]_(UplinkPromise!vars)
         /\ Accounted => Accounted'
<1> DEFINE N == Len(queue)
<1>1. PICK p \in 0..N :
        /\ queue' \in Seq([id : Int, acked : BOOLEAN]) /\ Len(queue') = N - p
        /\ \A k \in 1..(N - p) : /\ queue'[k].id = queue[p + k].id
                                 /\ queue'[k].acked => Known(queue[p + k].id)
        /\ \A k \in 1..p : Known(queue[k].id)
  BY AcksPopped
<1>2. /\ UNCHANGED <<taken, sender, toServer, serverVars>> /\ toClient' \subseteq toClient
      /\ window' = window /\ handled' = handled
  BY DEF ClientCheckAckHeaders, serverVars
<1>3. N \in Nat /\ DOMAIN queue = 1..N /\ DOMAIN queue' = 1..(N - p) /\ N <= SendSize
  BY <1>1, QueuedSize, LenProperties DEF UplinkInv, UplinkTypes
<1> DEFINE gone == {queue[k].id : k \in 1..p}
<1>4. Queued' = Queued \ gone
  <2>1. Queued = {queue[k].id : k \in 1..N} /\ Queued' = {queue'[k].id : k \in 1..(N - p)}
    BY <1>3 DEF Queued
  <2>2. ASSUME NEW i \in Queued' PROVE i \in Queued \ gone
    <3>1. PICK k \in 1..(N - p) : i = queue'[k].id
      BY <2>1, <2>2
    <3>2. i = queue[p + k].id /\ p + k \in 1..N /\ \A j \in 1..p : j # p + k /\ j \in 1..N
      BY <1>1, <1>3, <3>1
    <3>3. \A j \in 1..p : queue[j].id # queue[p + k].id
      BY <1>3, <3>2 DEF UplinkInv, ListInv
    <3> QED BY <2>1, <3>2, <3>3
  <2>3. ASSUME NEW i \in Queued \ gone PROVE i \in Queued'
    <3>1. PICK k \in 1..N : i = queue[k].id
      BY <2>1, <2>3
    <3>2. k \notin 1..p
      BY <2>3, <3>1
    <3>3. k - p \in 1..(N - p) /\ p + (k - p) = k
      BY <1>1, <1>3, <3>2
    <3>4. queue'[k - p].id = i
      BY <1>1, <3>1, <3>3
    <3> QED BY <2>1, <3>3, <3>4
  <2> QED BY <2>2, <2>3
<1>5. gone \subseteq Queued /\ \A i \in gone : Known(i)
  BY <1>1, <1>3 DEF Queued
<1> HIDE DEF gone, N
<1>6. /\ Waiting' = Waiting /\ Numbered' = Numbered /\ ServerNext' = ServerNext
      /\ \A i : Known(i)' = Known(i) /\ (Entered(i) => Entered(i)')
  BY <1>2, <1>4, <1>5 DEF Waiting, Numbered, ServerNext, Known, Entered
<1>7. UplinkTypes'
  BY <1>1, <1>2, <1>3, UplinkSizes DEF UplinkInv, UplinkTypes
<1>8. NumbersInv'
  BY <1>2, <1>4, <1>6 DEF UplinkInv, NumbersInv
<1>9. ListInv'
  <2>1. \A k \in 1..(N - p) : p + k \in 1..N
    BY <1>1, <1>3
  <2>2. \A j, k \in DOMAIN queue' : j # k => queue'[j].id # queue'[k].id
    <3> SUFFICES ASSUME NEW j \in 1..(N - p), NEW k \in 1..(N - p), j # k
                 PROVE  queue'[j].id # queue'[k].id
      BY <1>3
    <3>1. p + j # p + k
      BY <1>1, <1>3
    <3>2. queue[p + j].id # queue[p + k].id
      BY <1>3, <2>1, <3>1 DEF UplinkInv, ListInv
    <3> QED BY <1>1, <3>2
  <2>3. (\A k \in DOMAIN queue : queue[k].acked => Known(queue[k].id))'
    BY <1>1, <1>3, <1>6
  <2>4. (\A i \in toServer : Entered(i))'
    BY <1>2, <1>6 DEF UplinkInv, ListInv
  <2>5. (\A t \in Threads : sender[t].at = "queued" =>
           sender[t].id \in 0..(taken - 1) /\ Entered(sender[t].id))'
    BY <1>2, <1>6 DEF UplinkInv, ListInv
  <2> QED BY <2>2, <2>3, <2>4, <2>5 DEF ListInv
<1>10. ServerInv'
  BY <1>2, ServerStays DEF UplinkInv
<1>11. ASSUME Accounted PROVE Accounted'
  BY <1>2, <1>4, <1>5, <1>6, <1>11 DEF Accounted
<1>12. CASE gone = {}
  <2>1. Queued' = Queued
    BY <1>4, <1>12
  <2> QED BY <1>2, <1>7, <1>8, <1>9, <1>10, <1>11, <2>1 DEF UplinkInv, UplinkPromise!vars
<1>13. CASE gone # {}
  <2>1. gone \in SUBSET Msgs
    <3>1. gone \subseteq 0..(taken - 1) /\ taken \in 0..MaxMsgs
      BY <1>5 DEF UplinkInv, UplinkTypes, NumbersInv
    <3> QED BY <3>1, WindowSizes DEF Msgs
  <2>2. \A i \in gone : i \in Queued /\ handled[i] = 1
    BY <1>5, <2>1 DEF UplinkInv, UplinkTypes, Known
  <2>3. UplinkPromise!Forget(gone)
    BY <1>2, <1>4, <1>13, <2>2 DEF UplinkPromise!Forget
  <2> QED BY <1>7, <1>8, <1>9, <1>10, <1>11, <2>1, <2>3 DEF UplinkInv, UplinkPromise!Next
<1> QED BY <1>12, <1>13

\* The server processes a datagram it had not processed, and the client still has it.
LEMMA ServerReceiveKeeps ==
  ASSUME LinkFits, WithinMask, UplinkInv, NEW i \in toServer, ServerReceive(i)
  PROVE  /\ UplinkInv' /\ [UplinkPromise!Next]_(UplinkPromise!vars)
         /\ Accounted => Accounted'
<1> DEFINE w == Masked(window)
<1>1. /\ taken - i <= Lifetime /\ toServer' \subseteq toServer /\ window' = Receive(window, Wire(i))
      /\ taken' = taken /\ sender' = sender /\ queue' = queue /\ toClient' = toClient
      /\ handled' = IF Processed(window, Wire(i))
                    THEN [handled EXCEPT ![i] = IF @ = 0 THEN 1 ELSE 2] ELSE handled
  BY DEF ServerReceive, clientVars
<1>2. /\ taken \in 0..MaxMsgs /\ i \in 0..(taken - 1) /\ i \in Msgs /\ i \in Nat /\ MaxMsgs \in Nat
      /\ handled \in [Msgs -> 0..1] /\ ServerNext \in 0..taken /\ ServerNext = First(handled)
      /\ Wire(i) \in Wires
  BY UplinkFirst, WindowSizes, WireType DEF UplinkInv, UplinkTypes, NumbersInv, Msgs, ServerNext
<1>3. Reaches(handled, i)
  <2>1. taken - First(handled) < MaskBits
    BY <1>2 DEF WithinMask
  <2> QED BY <1>1, <1>2, <2>1, WindowSizes DEF Reaches, Recordable
<1>4. /\ window \in [seqNum : -1..(SeqMod - 1), more : SUBSET (0..(MaskBits - 1)), acked : BOOLEAN]
      /\ WindowOf(w, handled)
  BY DEF UplinkInv, ServerInv
<1>5. Processed(window, Wire(i)) => Processed(w, Wire(i))
  BY <1>2, <1>4, ReceiveMasked
<1>6. Processed(w, Wire(i)) => handled[i] = 0
  <2> HIDE DEF w
  <2> QED BY <1>2, <1>3, <1>4, ProcessedIsNew
<1>7. handled' = IF Processed(window, Wire(i)) THEN [handled EXCEPT ![i] = 1] ELSE handled
  BY <1>1, <1>5, <1>6
<1>8. /\ window' \in [seqNum : -1..(SeqMod - 1), more : SUBSET (0..(MaskBits - 1)), acked : BOOLEAN]
      /\ WindowOf(Masked(window'), handled') /\ First(handled') >= First(handled)
  <2>1. CASE Processed(window, Wire(i))
    <3>1. /\ Receive(window, Wire(i)).seqNum \in -1..(SeqMod - 1)
          /\ Receive(window, Wire(i)).acked = FALSE
          /\ Receive(window, Wire(i)) = [seqNum |-> Receive(window, Wire(i)).seqNum,
                                         more |-> Receive(window, Wire(i)).more,
                                         acked |-> Receive(window, Wire(i)).acked]
          /\ Masked(Receive(window, Wire(i))) = Receive(w, Wire(i))
      BY <1>2, <1>4, <2>1, ReceiveMasked
    <3>2. WindowOf(Receive(w, Wire(i)), handled') /\ First(handled') >= First(handled)
      <4>1. handled' = IF Processed(w, Wire(i)) THEN [handled EXCEPT ![i] = 1] ELSE handled
        BY <1>5, <1>7, <2>1
      <4> HIDE DEF w
      <4> QED BY <1>2, <1>3, <1>4, <4>1, ReceiveKeepsWindow
    <3>3. WindowOf(Masked(window'), handled')
      BY <1>1, <3>1, <3>2
    <3>4. window'.more \subseteq 0..(MaskBits - 1)
      BY <3>3 DEF WindowOf, Windows, Masked
    <3> QED BY <1>1, <3>1, <3>2, <3>3, <3>4
  <2>2. CASE ~Processed(window, Wire(i))
    <3>1. window' \in {window, [window EXCEPT !.acked = FALSE]} /\ handled' = handled
      BY <1>1, <1>2, <1>4, <1>7, <2>2, ReceiveMasked
    <3>2. /\ window' \in [seqNum : -1..(SeqMod - 1), more : SUBSET (0..(MaskBits - 1)), acked : BOOLEAN]
          /\ window'.seqNum = window.seqNum /\ window'.more = window.more
      BY <1>4, <3>1
    <3>3. WindowOf(Masked(window'), handled)
      BY <1>4, <3>2 DEF WindowOf, Windows, Masked
    <3>4. First(handled) >= First(handled)
      BY <1>2
    <3> QED BY <3>1, <3>2, <3>3, <3>4
  <2> QED BY <2>1, <2>2
<1> HIDE DEF w
<1>9. handled' \in [Msgs -> 0..1] /\ \A j \in Msgs : /\ handled[j] > 0 => handled'[j] > 0
                                                     /\ handled'[j] > 0 => handled[j] > 0 \/ j = i
  BY <1>2, <1>7
<1>10. First(handled) \in Nat /\ First(handled') \in Nat
  BY <1>2, <1>9, FirstIs, WindowSizes
<1>11. /\ Waiting' = Waiting /\ Numbered' = Numbered /\ Queued' = Queued
       /\ Numbered \subseteq Msgs /\ Queued \subseteq Msgs /\ toServer \subseteq Msgs /\ taken - 1 \in Int
       /\ 0..(taken - 1) \subseteq Msgs
  <2>1. 0..(taken - 1) \subseteq Msgs /\ taken - 1 \in Int
    BY <1>2 DEF Msgs
  <2>2. /\ Numbered \subseteq 0..(taken - 1) /\ Queued \subseteq 0..(taken - 1)
        /\ toServer \subseteq 0..(taken - 1)
    BY DEF UplinkInv, NumbersInv
  <2>3. Waiting' = Waiting /\ Numbered' = Numbered /\ Queued' = Queued
    BY <1>1 DEF Waiting, Numbered, Queued
  <2> QED BY <2>1, <2>2, <2>3
<1>12. \A j \in Msgs : (Known(j) => Known(j)') /\ (Entered(j) => Entered(j)')
  <2> SUFFICES ASSUME NEW j \in Msgs
               PROVE  (Known(j) => Known(j)') /\ (Entered(j) => Entered(j)')
    OBVIOUS
  <2>1. handled[j] > 0 => handled'[j] > 0
    BY <1>9
  <2>2. \A a, b, c \in Nat : \A x \in Nat : (a >= b /\ x <= b + c - 2) => x <= a + c - 2
    OBVIOUS
  <2>3. j \in Nat /\ AckBits \in Nat
    BY WindowSizes DEF Msgs
  <2>4. Known(j) => Known(j)'
    <3>1. j <= First(handled) + AckBits - 2 => j <= First(handled') + AckBits - 2
      BY <1>8, <1>10, <2>2, <2>3, Zenon
    <3> QED BY <2>1, <3>1, Zenon DEF Known, ServerNext
  <2>5. Entered(j) => Entered(j)'
    BY <1>11, <2>1 DEF Entered
  <2> QED BY <2>4, <2>5
<1>13. UplinkTypes'
  BY <1>1, <1>2, <1>9 DEF UplinkInv, UplinkTypes
<1>14. NumbersInv'
  <2>1. Entered(i)
    BY DEF UplinkInv, ListInv
  <2>2. i \notin Numbered
    BY <2>1, <1>2 DEF UplinkInv, NumbersInv, Entered
  <2>3. \A j \in Numbered : handled'[j] = 0
    <3> SUFFICES ASSUME NEW j \in Numbered PROVE handled'[j] = 0
      OBVIOUS
    <3>1. j \in Msgs /\ j # i /\ handled[j] = 0
      BY <1>11, <2>2 DEF UplinkInv, NumbersInv
    <3> QED BY <1>2, <1>7, <3>1
  <2> QED BY <1>1, <1>2, <1>9, <1>11, <2>3 DEF UplinkInv, NumbersInv
<1>15. ListInv'
  <2>1. \A k \in DOMAIN queue : queue[k].id \in Msgs
    BY <1>11 DEF Queued
  <2>2. (\A k \in DOMAIN queue : queue[k].acked => Known(queue[k].id))'
    BY <1>1, <1>12, <2>1 DEF UplinkInv, ListInv
  <2>3. (\A j \in toServer : Entered(j))'
    BY <1>1, <1>11, <1>12 DEF UplinkInv, ListInv
  <2>4. (\A t \in Threads : sender[t].at = "queued" =>
           sender[t].id \in 0..(taken - 1) /\ Entered(sender[t].id))'
    BY <1>1, <1>11, <1>12 DEF UplinkInv, ListInv
  <2> QED BY <1>1, <2>2, <2>3, <2>4 DEF UplinkInv, ListInv
<1>16. ServerInv'
  <2> SUFFICES ASSUME NEW a \in toClient PROVE AckHolds(a, handled')
    BY <1>1, <1>8 DEF ServerInv
  <2>1. AckHolds(a, handled)
    BY DEF UplinkInv, ServerInv
  <2>2. handled \in [Msgs -> 0..1] /\ handled' \in [Msgs -> 0..1] /\ First(handled') >= First(handled)
    BY <1>2, <1>8, <1>9
  <2>3. \A j \in Msgs : handled[j] > 0 => handled'[j] > 0
    BY <1>2, <1>9
  <2> QED BY <2>1, <2>2, <2>3, AckGrows
<1>17. ASSUME Accounted PROVE Accounted'
  BY <1>1, <1>11, <1>12, <1>17 DEF Accounted
<1>18. CASE Processed(window, Wire(i))
  <2>1. i \in Queued /\ handled[i] = 0
    BY <1>5, <1>6, <1>18 DEF UplinkInv, ListInv, Entered
  <2>2. UplinkPromise!Deliver(i)
    BY <1>7, <1>11, <1>18, <2>1 DEF UplinkPromise!Deliver
  <2> QED BY <1>2, <1>13, <1>14, <1>15, <1>16, <1>17, <2>2 DEF UplinkInv, UplinkPromise!Next
<1>19. CASE ~Processed(window, Wire(i))
  BY <1>7, <1>11, <1>13, <1>14, <1>15, <1>16, <1>17, <1>19 DEF UplinkInv, UplinkPromise!vars
<1> QED BY <1>18, <1>19

\* setAckHeaders and the network: what is acknowledged has been processed.
LEMMA AcknowledgeKeeps ==
  ASSUME UplinkInv, Piggyback \/ KeepAlive
  PROVE  UplinkInv' /\ UNCHANGED UplinkPromise!vars /\ (Accounted => Accounted')
<1>1. /\ toClient' = toClient \cup {ServerAck} /\ window' = [window EXCEPT !.acked = TRUE]
      /\ UNCHANGED <<taken, sender, queue, toServer, handled>>
  BY DEF Piggyback, KeepAlive, clientVars
<1>2. /\ window \in [seqNum : -1..(SeqMod - 1), more : SUBSET (0..(MaskBits - 1)), acked : BOOLEAN]
      /\ WindowOf(Masked(window), handled) /\ handled \in [Msgs -> 0..1]
  BY DEF UplinkInv, UplinkTypes, ServerInv
<1>3. AckHolds(ServerAck, handled)
  <2>1. /\ Masked(window).seqNum = Mask(window.seqNum) /\ Masked(window).more = window.more
        /\ Mask(window.seqNum) \in Wires
    BY <1>2, WindowSizes DEF Masked, Mask, Wires
  <2>2. AckOf(Masked(window)) = AckOf(window) /\ AckMoreOf(Masked(window)) = AckMoreOf(window)
    BY <2>1, WindowSizes DEF AckOf, AckMoreOf, Mask, Wires
  <2>3. AckHolds([ack |-> AckOf(Masked(window)), more |-> AckMoreOf(Masked(window)),
                  upTo |-> First(handled)], handled)
    BY <1>2, AckTold
  <2> QED BY <2>2, <2>3 DEF ServerAck, ServerNext
<1>4. ServerInv'
  <2>1. /\ window' \in [seqNum : -1..(SeqMod - 1), more : SUBSET (0..(MaskBits - 1)), acked : BOOLEAN]
        /\ window'.seqNum = window.seqNum /\ window'.more = window.more
    BY <1>1, <1>2
  <2>2. WindowOf(Masked(window'), handled)
    BY <1>2, <2>1 DEF WindowOf, Windows, Masked
  <2>3. \A a \in toClient' : AckHolds(a, handled)
    BY <1>1, <1>3 DEF UplinkInv, ServerInv
  <2> QED BY <1>1, <2>1, <2>2, <2>3 DEF ServerInv
<1>5. /\ Queued' = Queued /\ ServerNext' = ServerNext /\ Numbered' = Numbered /\ Waiting' = Waiting
      /\ \A i : Entered(i)' = Entered(i) /\ Known(i)' = Known(i)
  BY <1>1 DEF Queued, ServerNext, Entered, Known, Numbered, Waiting
<1> QED BY <1>1, <1>4, <1>5 DEF UplinkInv, UplinkTypes, NumbersInv, ListInv, UplinkPromise!vars, Accounted

LEMMA UplinkLoseKeeps ==
  ASSUME UplinkInv, UplinkLose \/ UNCHANGED uplinkVars
  PROVE  UplinkInv' /\ UNCHANGED UplinkPromise!vars /\ (Accounted => Accounted')
<1>1. /\ UNCHANGED <<taken, sender, queue, window, handled>> /\ UNCHANGED serverVars
      /\ toServer' \subseteq toServer /\ toClient' \subseteq toClient
  BY DEF UplinkLose, uplinkVars, clientVars, serverVars
<1>2. /\ Queued' = Queued /\ ServerNext' = ServerNext /\ Numbered' = Numbered /\ Waiting' = Waiting
      /\ \A i : Entered(i)' = Entered(i) /\ Known(i)' = Known(i)
  BY <1>1 DEF Queued, ServerNext, Entered, Known, Numbered, Waiting
<1>3. ServerInv'
  BY <1>1, ServerStays DEF UplinkInv
<1> QED BY <1>1, <1>2, <1>3 DEF UplinkInv, UplinkTypes, NumbersInv, ListInv, UplinkPromise!vars, Accounted

\* Every step of the uplink that is taken while the mask is wide enough keeps what it
\* rests on, and is a step of the promise.
LEMMA UplinkStep ==
  ASSUME LinkFits, WithinMask, UplinkInv, [UplinkNext]_uplinkVars
  PROVE  /\ UplinkInv' /\ [UplinkPromise!Next]_(UplinkPromise!vars)
         /\ (\A t \in Threads : ~Interrupted(t)) /\ Accounted => Accounted'
<1>1. ASSUME NEW t \in Threads, NextSeqNum(t) \/ Enqueue(t) \/ Interrupted(t) \/ Transmit(t)
      PROVE  /\ UplinkInv' /\ [UplinkPromise!Next]_(UplinkPromise!vars)
             /\ (\A u \in Threads : ~Interrupted(u)) /\ Accounted => Accounted'
  <2>1. CASE NextSeqNum(t)
    BY <2>1, NextSeqNumKeeps
  <2>2. CASE Enqueue(t)
    <3>1. /\ UplinkInv' /\ (Accounted => Accounted')
          /\ sender[t].id \in Msgs /\ UplinkPromise!Accept(sender[t].id)
      BY <2>2, EnqueueKeeps
    <3>2. UplinkPromise!Next
      BY <3>1 DEF UplinkPromise!Next
    <3> QED BY <3>1, <3>2
  <2>3. CASE Interrupted(t) \/ Transmit(t)
    <3>1. /\ UplinkInv' /\ UNCHANGED UplinkPromise!vars
          /\ Transmit(t) /\ Accounted => Accounted'
      BY <2>3, LeavesKeeps
    <3> QED BY <2>3, <3>1
  <2> QED BY <1>1, <2>1, <2>2, <2>3
<1>2. ASSUME NEW due \in SUBSET Unacked, ClientSendRetries(due)
      PROVE  UplinkInv' /\ UNCHANGED UplinkPromise!vars /\ (Accounted => Accounted')
  BY <1>2, ResendKeeps
<1>3. ASSUME NEW a \in toClient, ClientCheckAckHeaders(a)
      PROVE  /\ UplinkInv' /\ [UplinkPromise!Next]_(UplinkPromise!vars)
             /\ Accounted => Accounted'
  BY <1>3, ClientCheckAckHeadersKeeps
<1>4. ASSUME NEW i \in toServer, ServerReceive(i)
      PROVE  /\ UplinkInv' /\ [UplinkPromise!Next]_(UplinkPromise!vars)
             /\ Accounted => Accounted'
  BY <1>4, ServerReceiveKeeps
<1>5. CASE Piggyback \/ KeepAlive
  BY <1>5, AcknowledgeKeeps
<1>6. CASE UplinkLose \/ UNCHANGED uplinkVars
  BY <1>6, UplinkLoseKeeps
<1> QED BY <1>1, <1>2, <1>3, <1>4, <1>5, <1>6 DEF UplinkNext

\* A waiting thread holds one number.
LEMMA NumberedSize ==
  IsFiniteSet(Numbered) /\ Cardinality(Numbered) \in Nat
  /\ Cardinality(Numbered) <= Cardinality(Threads) /\ Cardinality(Threads) \in Nat
<1> DEFINE f == [t \in Waiting |-> sender[t].id]
<1>1. f \in Surjection(Waiting, Numbered)
  BY DEF Surjection, Numbered
<1>2. Waiting \in SUBSET Threads /\ IsFiniteSet(Threads)
  BY UplinkSizes DEF Waiting
<1>3. IsFiniteSet(Waiting) /\ Cardinality(Waiting) <= Cardinality(Threads)
  BY <1>2, FS_Subset
<1>4. IsFiniteSet(Numbered) /\ Cardinality(Numbered) <= Cardinality(Waiting)
  BY <1>1, <1>3, FS_Surjection
<1>5. Cardinality(Numbered) \in Nat /\ Cardinality(Waiting) \in Nat /\ Cardinality(Threads) \in Nat
  BY <1>2, <1>3, <1>4, FS_CardinalityType
<1> QED BY <1>3, <1>4, <1>5

\* How far the client can be ahead of the server: what lies beyond the acknowledgement
\* bits is in the list or in the hands of a thread, and so is the first number missing.
LEMMA UplinkSpan ==
  ASSUME LinkFits, UplinkInv, Accounted
  PROVE  taken - ServerNext <= AckBits - 2 + SendSize + Cardinality(Threads)
<1> DEFINE far == (ServerNext + AckBits - 1)..(taken - 1)
           held == Queued \cup Numbered
<1>1. /\ ServerNext \in 0..taken /\ taken \in 0..MaxMsgs
      /\ (ServerNext < MaxMsgs => handled[ServerNext] = 0)
      /\ MaxMsgs \in Nat /\ AckBits \in Nat /\ AckBits >= 2 /\ SendSize \in Nat \ {0}
  BY UplinkFirst, UplinkSizes, WindowSizes DEF LinkFits, UplinkInv
<1>2. /\ IsFiniteSet(held) /\ Cardinality(held) \in Nat
      /\ Cardinality(held) <= SendSize + Cardinality(Threads) /\ Cardinality(Threads) \in Nat
  <2>1. /\ IsFiniteSet(Queued) /\ Cardinality(Queued) \in Nat
        /\ Cardinality(Queued) <= Len(queue) /\ Len(queue) \in Nat /\ Len(queue) <= SendSize
    BY QueuedSize DEF UplinkInv, UplinkTypes
  <2>2. /\ IsFiniteSet(Numbered) /\ Cardinality(Numbered) \in Nat
        /\ Cardinality(Numbered) <= Cardinality(Threads) /\ Cardinality(Threads) \in Nat
    BY NumberedSize
  <2>3. /\ IsFiniteSet(held)
        /\ Cardinality(held) = Cardinality(Queued) + Cardinality(Numbered)
                               - Cardinality(Queued \cap Numbered)
    BY <2>1, <2>2, FS_Union
  <2>4. IsFiniteSet(Queued \cap Numbered)
    BY <2>1, FS_Intersection
  <2>5. Cardinality(held) \in Nat /\ Cardinality(Queued \cap Numbered) \in Nat
    BY <2>3, <2>4, FS_CardinalityType
  <2> HIDE DEF held
  <2> QED BY <1>1, <2>1, <2>2, <2>3, <2>5
<1> SUFFICES ASSUME taken - ServerNext > AckBits - 2 + SendSize + Cardinality(Threads) PROVE FALSE
  BY <1>1, <1>2
<1>3. ServerNext \in 0..(taken - 1) /\ ServerNext < MaxMsgs /\ ServerNext \notin far
  BY <1>1, <1>2
<1>4. far \cup {ServerNext} \in SUBSET held
  <2>1. ASSUME NEW i \in far PROVE i \in held
    <3>1. i \in 0..(taken - 1) /\ ~(i <= ServerNext + AckBits - 2)
      BY <1>1
    <3> QED BY <3>1 DEF Accounted, Known
  <2>2. ServerNext \in held
    BY <1>1, <1>3 DEF Accounted, Known
  <2> QED BY <2>1, <2>2
<1>5. IsFiniteSet(far) /\ Cardinality(far) = taken - ServerNext - AckBits + 1
  <2>1. ServerNext + AckBits - 1 \in Int /\ taken - 1 \in Int
        /\ ~(ServerNext + AckBits - 1 > taken - 1)
    BY <1>1, <1>2
  <2>2. (taken - 1) - (ServerNext + AckBits - 1) + 1 = taken - ServerNext - AckBits + 1
    BY <1>1
  <2> QED BY <2>1, <2>2, FS_Interval
<1> HIDE DEF far, held
<1>6. Cardinality(far \cup {ServerNext}) = Cardinality(far) + 1 /\ IsFiniteSet(far \cup {ServerNext})
  BY <1>3, <1>5, FS_AddElement
<1>7. Cardinality(far \cup {ServerNext}) <= Cardinality(held)
  BY <1>2, <1>4, FS_Subset
<1> QED BY <1>1, <1>2, <1>5, <1>6, <1>7

\* Threads enough to be of use, and few enough for the mask: with the code's widths
\* (8 bits of ackMore, a list of 8, a mask of 32) up to 17 threads.
FewThreads == LinkFits /\ AckBits - 2 + SendSize + Cardinality(Threads) < MaskBits

\* No thread is interrupted while it waits for room in the list.
NobodyInterrupts == [][\A t \in Threads : ~Interrupted(t)]_uplinkVars

\* The list of DaspUplink promises what its comment says as long as the client is no
\* further ahead than the mask of the server is wide, whoever is interrupted: whatever
\* the network does and in whichever order send of several threads enters the list,
\* receive processes each datagram once and checkAckHeaders pops it only after that.
THEOREM UplinkIsExactlyOnce ==
  LinkFits => (UplinkSpec /\ []WithinMask => UplinkExactlyOnce)
<1> SUFFICES ASSUME LinkFits
             PROVE  UplinkSpec /\ []WithinMask => UplinkExactlyOnce
  OBVIOUS
<1>1. UplinkInit => UplinkInv /\ UplinkPromise!Init
  <2>1. UplinkInit => UplinkPromise!Init
    BY DEF UplinkInit, UplinkPromise!Init, Queued
  <2> QED BY <2>1, InitUplink
<1>2. UplinkInv /\ WithinMask /\ [UplinkNext]_uplinkVars
      => UplinkInv' /\ [UplinkPromise!Next]_(UplinkPromise!vars)
  BY UplinkStep
<1> QED BY <1>1, <1>2, PTL DEF UplinkSpec, UplinkExactlyOnce, UplinkPromise!Spec

\* The fields of the server's ReceiveWindow mean what they say under the same premiss.
THEOREM ServerWindowStaysTrue ==
  LinkFits => (UplinkSpec /\ []WithinMask => []ServerWindowMatches)
<1> SUFFICES ASSUME LinkFits
             PROVE  UplinkSpec /\ []WithinMask => []ServerWindowMatches
  OBVIOUS
<1>1. UplinkInit => UplinkInv
  BY InitUplink
<1>2. UplinkInv /\ WithinMask /\ [UplinkNext]_uplinkVars => UplinkInv'
  BY UplinkStep
<1>3. UplinkInv => ServerWindowMatches
  BY DEF UplinkInv, ServerInv, Masked, WindowOf, ServerWindowMatches, Beyond, Handled, ServerNext
<1> QED BY <1>1, <1>2, <1>3, PTL DEF UplinkSpec

\* With few threads that are never interrupted the premiss holds: numbers are taken by
\* threads that wait for room, so the client does not run ahead of the server.
THEOREM FewThreadsStayWithinMask ==
  FewThreads => (UplinkSpec /\ NobodyInterrupts
                 => []WithinMask /\ []ServerWindowMatches /\ UplinkExactlyOnce)
<1> SUFFICES ASSUME FewThreads
             PROVE  UplinkSpec /\ NobodyInterrupts
                    => []WithinMask /\ []ServerWindowMatches /\ UplinkExactlyOnce
  OBVIOUS
<1> DEFINE I == UplinkInv /\ Accounted
<1>1. UplinkInit => I
  BY InitUplink DEF FewThreads
<1>2. I => WithinMask
  <2> SUFFICES ASSUME UplinkInv, Accounted PROVE WithinMask
    OBVIOUS
  <2>1. taken - ServerNext <= AckBits - 2 + SendSize + Cardinality(Threads)
    BY UplinkSpan DEF FewThreads
  <2>2. taken \in Nat /\ ServerNext \in Nat /\ Cardinality(Threads) \in Nat
    BY UplinkFirst, NumberedSize DEF UplinkInv
  <2> QED BY <2>1, <2>2, UplinkSizes, WindowSizes DEF FewThreads, WithinMask
<1>3. I /\ [UplinkNext]_uplinkVars /\ [\A t \in Threads : ~Interrupted(t)]_uplinkVars => I'
  <2> SUFFICES ASSUME I, [UplinkNext]_uplinkVars, [\A t \in Threads : ~Interrupted(t)]_uplinkVars
               PROVE  I'
    OBVIOUS
  <2>1. LinkFits /\ WithinMask
    BY <1>2 DEF FewThreads
  <2>2. CASE \A t \in Threads : ~Interrupted(t)
    BY <2>1, <2>2, UplinkStep
  <2>3. CASE UNCHANGED uplinkVars
    BY <2>3, UplinkLoseKeeps
  <2> QED BY <2>2, <2>3
<1>4. UplinkSpec /\ NobodyInterrupts => []WithinMask
  <2> HIDE DEF I
  <2> QED BY <1>1, <1>2, <1>3, PTL DEF UplinkSpec, NobodyInterrupts
<1>5. UplinkSpec /\ []WithinMask => []ServerWindowMatches
  BY ServerWindowStaysTrue DEF FewThreads
<1>6. UplinkSpec /\ []WithinMask => UplinkExactlyOnce
  BY UplinkIsExactlyOnce DEF FewThreads
<1> QED BY <1>4, <1>5, <1>6, PTL

=============================================================================
