------------------------ MODULE BvlcBroadcast_proofs ------------------------
(***************************************************************************)
(* That broadcasts neither circulate nor arrive twice, and that a          *)
(* registration is renewed before it runs out, for any number of BBMDs,    *)
(* devices and broadcasts, any tables and any times.                       *)
(***************************************************************************)
EXTENDS BvlcBroadcast, TLAPS

\* How a copy came as far as it did. The third hop of a broadcast ends with a
\* BBMD that hears its own broadcast, whose foreign devices are the fourth.
Hop(p) ==
  /\ p.hop \in 1..4 /\ (p.kind = "forwarded" => p.from \in Bbmds)
  /\ (p.hop = 1 <=> p.kind # "forwarded")
  /\ (p.hop = 3 => p.to \in Local(p.from) \cup Foreign)
  /\ (p.hop = 4 => p.to \in Foreign)
Hops == \A p \in sent : Hop(p)

\* An entry that is heard of lives Grace longer than the timer of its device
\* runs, and while a registration is on its way, longer than that can take.
Leases ==
  \A f \in Foreign :
    /\ reg[f] # None => timer[f] = Ttl - MaxDelay + reg[f]
    /\ heard[f] => fdt[Home[f]][f] >= IF reg[f] = None THEN timer[f] + Grace
                                                       ELSE Grace - MaxDelay + reg[f]

----------------------------------------------------------------------------
\* A device that is no BBMD has empty tables, and forwards nothing.
LEMMA DestsOf ==
  ASSUME TypeOK, NEW p \in Packets, NEW d \in Dests(p)
  PROVE  /\ p.to \in Bbmds /\ d \in Devices
         /\ \/ d \in Foreign
            \/ p.kind = "original" /\ d \in BdtDests(p.to)
            \/ p.kind = "distribute" /\ d \in Local(p.to) \cup BdtDests(p.to)
            \/ p.kind = "forwarded" /\ d \in Local(p.to) /\ MemberIsUnicast(p.to, p.from)
<1> USE DEF Packets
<1>1. \A e \in FdtDests(p.to, p.src) : e \in Foreign /\ p.to \in Bbmds
  BY BvlcNodes DEF FdtDests, Entries, TypeOK
<1>2. \A e \in BdtDests(p.to) : e \in Devices /\ p.to \in Bbmds
  BY BvlcNodes DEF BdtDests, Local, TypeOK
<1>3. \A e \in Local(p.to) : e \in Devices /\ p.to \in Bbmds
  BY BvlcNodes DEF Local
<1>4. Foreign \subseteq Devices
  BY BvlcNodes
<1>5. CASE p.kind = "original"
  BY <1>1, <1>2, <1>4, <1>5 DEF Dests
<1>6. CASE p.kind = "distribute"
  BY <1>1, <1>2, <1>3, <1>4, <1>6 DEF Dests
<1>7. CASE p.kind = "forwarded"
  BY <1>1, <1>3, <1>4, <1>7 DEF Dests
<1> QED BY <1>5, <1>6, <1>7

LEMMA ForwardFields ==
  ASSUME TypeOK, NEW p \in Packets, NEW q \in Forwards(p)
  PROVE  /\ q \in Packets /\ q.kind = "forwarded" /\ q.id = p.id /\ q.src = p.src
         /\ q.from = p.to /\ q.to \in Dests(p) /\ q.hop = p.hop + 1
<1>1. PICK d \in Dests(p) :
        q = [p EXCEPT !.kind = "forwarded", !.from = p.to, !.to = d, !.hop = p.hop + 1]
  BY DEF Forwards
<1>2. d \in Devices
  BY DestsOf
<1>3. q = [kind |-> "forwarded", id |-> p.id, src |-> p.src,
           from |-> p.to, to |-> d, hop |-> p.hop + 1]
  BY <1>1 DEF Packets
<1> QED BY <1>2, <1>3 DEF Packets

LEMMA BroadcastFields ==
  ASSUME TypeOK, NEW d \in Devices, NEW id \in Ids, Broadcast(d, id)
  PROVE  \A q \in sent' \ sent :
           /\ q \in Packets /\ q.id = id /\ q.src = d /\ q.from = d /\ q.hop = 1
           /\ q.kind = IF d \in Foreign THEN "distribute" ELSE "original"
           /\ q.to \in IF d \in Foreign THEN {Home[d]} ELSE Local(Home[d])
<1> DEFINE to == IF d \in Foreign THEN {Home[d]} ELSE Local(Home[d])
           kind == IF d \in Foreign THEN "distribute" ELSE "original"
           new == {[kind |-> kind, id |-> id, src |-> d, from |-> d, to |-> e, hop |-> 1] : e \in to}
<1>1. sent' = sent \cup new
  BY DEF Broadcast
<1>2. to \subseteq Devices
  BY BvlcNodes DEF Local
<1>3. kind \in {"original", "distribute"}
  OBVIOUS
<1>4. \A q \in new : /\ q \in Packets /\ q.id = id /\ q.src = d /\ q.from = d /\ q.hop = 1
                     /\ q.kind = kind /\ q.to \in to
  <2> HIDE DEF to, kind
  <2> QED BY <1>2, <1>3 DEF Packets
<1> QED BY <1>1, <1>4

----------------------------------------------------------------------------
\* A second, and a registration, at one foreign device
LEMMA SecondAt ==
  ASSUME TypeOK, Second, NEW f \in Foreign
  PROVE  /\ reg[f] # 0
         /\ timer'[f] = (IF timer[f] = 1 THEN Ttl ELSE timer[f] - 1)
         /\ reg'[f] = (IF timer[f] = 1 THEN MaxDelay ELSE IF reg[f] = None THEN None ELSE reg[f] - 1)
         /\ fdt'[Home[f]][f] = (IF fdt[Home[f]][f] > 0 THEN fdt[Home[f]][f] - 1 ELSE 0)
         /\ heard'[f] = heard[f]
  BY BvlcNodes DEF Second, TimerAfter

\* Type correctness of the model
THEOREM BvlcTypeCorrect == Spec => []TypeOK
<1> USE DEF TypeOK
<1>1. ASSUME Init PROVE TypeOK
  BY <1>1, BvlcNodes, BvlcTimes DEF Init
<1>2. ASSUME TypeOK, [Next]_vars PROVE TypeOK'
  <2>1. CASE \E d \in Devices, id \in Ids : Broadcast(d, id)
    <3>1. PICK d \in Devices, id \in Ids : Broadcast(d, id)
      BY <2>1
    <3>2. sent' \subseteq Packets
      <4>1. \A q \in sent' \ sent : q \in Packets
        BY <3>1, <1>2, BroadcastFields
      <4> QED BY <4>1, <1>2
    <3>3. net' \subseteq sent'
      BY <3>1, <1>2 DEF Broadcast
    <3>4. due' \in [Ids -> SUBSET Devices]
      BY <3>1, <1>2 DEF Broadcast
    <3> QED BY <3>1, <3>2, <3>3, <3>4, <1>2 DEF Broadcast, leaseVars
  <2>2. ASSUME NEW p \in net, Receive(p) PROVE TypeOK'
    <3>1. Forwards(p) \subseteq Packets
      BY <1>2, ForwardFields
    <3> HIDE DEF TypeOK
    <3>2. net' \subseteq sent' /\ sent' \subseteq Packets
      BY <2>2, <3>1, <1>2 DEF Receive, TypeOK
    <3> QED BY <2>2, <3>2, <1>2 DEF Receive, leaseVars, TypeOK
  <2>3. ASSUME NEW p \in net, Lose(p) PROVE TypeOK'
    BY <2>3, <1>2 DEF Lose, leaseVars
  <2>4. ASSUME NEW b \in Bbmds, Restart(b) PROVE TypeOK'
    BY <2>4, <1>2, BvlcNodes, BvlcTimes DEF Restart, Undue
  <2>5. ASSUME NEW b \in Bbmds, NEW table \in Tables, WriteBdt(b, table) PROVE TypeOK'
    BY <2>5, <1>2, BvlcNodes DEF WriteBdt, Undue, leaseVars
  <2>6. ASSUME NEW f \in Foreign, Register(f) PROVE TypeOK'
    <3>1. fdt' \in [Devices -> [Foreign -> 0..(Ttl + Grace)]]
      BY <2>6, <1>2, BvlcNodes, BvlcTimes DEF Register, Fdt
    <3>2. \A d \in Devices, g \in Foreign : fdt'[d][g] > 0 => d = Home[g]
      BY <2>6, <1>2, BvlcNodes, BvlcTimes DEF Register, Fdt
    <3>3. heard' \in [Foreign -> BOOLEAN]
      BY <2>6, <1>2 DEF Register, Room
    <3> QED BY <2>6, <3>1, <3>2, <3>3, <1>2 DEF Register, packetVars
  <2>7. ASSUME NEW f \in Foreign, LoseRegistration(f) PROVE TypeOK'
    BY <2>7, <1>2 DEF LoseRegistration, packetVars
  <2>8. ASSUME NEW f \in Foreign, DeleteEntry(f) PROVE TypeOK'
    BY <2>8, <1>2, BvlcNodes, BvlcTimes DEF DeleteEntry, Undue
  <2>9. CASE Second
    <3>1. timer' \in [Foreign -> 1..Ttl]
      BY <2>9, <1>2, BvlcTimes DEF Second, TimerAfter
    <3>2. reg' \in [Foreign -> 0..MaxDelay \cup {None}]
      <4>1. ASSUME NEW f \in Foreign PROVE reg'[f] \in 0..MaxDelay \cup {None}
        <5>1. reg[f] # None => reg[f] \in 1..MaxDelay
          BY <2>9, <1>2, BvlcTimes DEF Second
        <5> QED BY <2>9, <5>1, <1>2, BvlcTimes, SecondAt
      <4> QED BY <2>9, <4>1 DEF Second
    <3>3. fdt' \in [Devices -> [Foreign -> 0..(Ttl + Grace)]]
      BY <2>9, <1>2, BvlcTimes DEF Second
    <3>4. \A d \in Devices, g \in Foreign : fdt'[d][g] > 0 => d = Home[g]
      BY <2>9, <1>2 DEF Second
    <3>5. due' \in [Ids -> SUBSET Devices]
      BY <2>9, <1>2 DEF Second, Undue
    <3> QED BY <2>9, <3>1, <3>2, <3>3, <3>4, <3>5, <1>2 DEF Second
  <2>10. CASE UNCHANGED vars
    BY <2>10, <1>2 DEF vars
  <2> QED BY <1>2, <2>1, <2>2, <2>3, <2>4, <2>5, <2>6, <2>7, <2>8, <2>9, <2>10 DEF Next
<1> QED BY <1>1, <1>2, PTL DEF Spec

----------------------------------------------------------------------------
LEMMA HopsInvariant == Spec => []Hops
<1>1. Init => Hops
  BY DEF Init, Hops
<1>2. ASSUME TypeOK, Hops, [Next]_vars PROVE Hops'
  <2>1. ASSUME NEW d \in Devices, NEW id \in Ids, Broadcast(d, id) PROVE Hops'
    <3>1. ASSUME NEW q \in sent' \ sent PROVE Hop(q)
      <4>1. q.hop = 1 /\ q.kind # "forwarded"
        BY <2>1, <1>2, BroadcastFields
      <4> QED BY <4>1 DEF Hop
    <3> QED BY <3>1, <1>2 DEF Hops
  <2>2. ASSUME NEW p \in net, Receive(p) PROVE Hops'
    <3>1. p \in sent /\ p \in Packets /\ Hop(p)
      BY <1>2 DEF TypeOK, Hops
    <3>2. ASSUME NEW q \in Forwards(p)
          PROVE  Hop(q)
      <4>1. /\ q.kind = "forwarded" /\ q.from = p.to /\ q.to \in Dests(p)
            /\ q.hop = p.hop + 1
        BY <3>1, <1>2, ForwardFields
      <4>2. /\ p.to \in Bbmds
            /\ p.kind = "forwarded" =>
                 \/ q.to \in Foreign
                 \/ q.to \in Local(p.to) /\ MemberIsUnicast(p.to, p.from)
        BY <3>1, <4>1, <1>2, DestsOf
      <4>3. p.hop # 4
        BY <3>1, <4>2, BvlcNodes DEF Hop
      <4>4. p.hop = 3 => q.to \in Foreign
        BY <3>1, <4>2, BvlcNodes DEF Hop, Local, MemberIsUnicast
      <4> QED BY <3>1, <4>1, <4>2, <4>3, <4>4, BvlcNodes DEF Hop
    <3>3. sent' = sent \cup Forwards(p)
      BY <2>2 DEF Receive
    <3> QED BY <3>2, <3>3, <1>2 DEF Hops
  <2>3. CASE UNCHANGED sent
    BY <2>3, <1>2 DEF Hops
  <2>4. (\E d \in Devices, id \in Ids : Broadcast(d, id)) \/ (\E p \in net : Receive(p))
          \/ UNCHANGED sent
    BY <1>2 DEF Next, vars, packetVars, Lose, Restart, WriteBdt, Register, LoseRegistration,
                DeleteEntry, Second
  <2> QED BY <2>1, <2>2, <2>3, <2>4
<1> QED BY <1>1, <1>2, BvlcTypeCorrect, PTL DEF Spec

\* Broadcasts do not circulate: no copy of one goes through more than four
\* devices, though every device would forward what it hears.
THEOREM BroadcastsDoNotCirculate == Spec => []CrossesFourLinks
<1>1. Hops => CrossesFourLinks
  BY DEF Hops, Hop, CrossesFourLinks
<1> QED BY <1>1, HopsInvariant, PTL

----------------------------------------------------------------------------
\* A foreign device whose last registration arrived is in the table until the
\* next one is there, whatever the time to live, as long as no registration
\* takes more than the grace period.
THEOREM RegistrationsOverlap == Spec => []StaysRegistered
<1>1. Init => Leases
  BY DEF Init, Leases
<1>2. ASSUME TypeOK, Leases, [Next]_vars PROVE Leases'
  <2>1. SUFFICES ASSUME NEW g \in Foreign
                 PROVE  /\ reg'[g] # None => timer'[g] = Ttl - MaxDelay + reg'[g]
                        /\ heard'[g] => fdt'[Home[g]][g] >= IF reg'[g] = None THEN timer'[g] + Grace
                                                             ELSE Grace - MaxDelay + reg'[g]
    BY DEF Leases
  <2>2. /\ timer[g] \in 1..Ttl /\ (reg[g] # None => reg[g] \in 0..MaxDelay)
        /\ fdt[Home[g]][g] \in 0..(Ttl + Grace) /\ Home[g] \in Devices
    BY <1>2, BvlcNodes DEF TypeOK
  <2>3. CASE UNCHANGED leaseVars
    BY <2>3, <1>2 DEF Leases, leaseVars
  <2>4. CASE \E b \in Bbmds : Restart(b)
    <3>1. PICK b \in Bbmds : Restart(b)
      BY <2>4
    <3>2. reg' = reg /\ timer' = timer /\ heard'[g] = (heard[g] /\ Home[g] # b)
      BY <3>1 DEF Restart
    <3>3. Home[g] # b => fdt'[Home[g]] = fdt[Home[g]]
      BY <3>1, <2>2, <1>2 DEF Restart, TypeOK
    <3> QED BY <3>2, <3>3, <1>2 DEF Leases
  <2>5. CASE \E f \in Foreign : Register(f)
    <3>1. PICK f \in Foreign : Register(f)
      BY <2>5
    <3>2. CASE f # g
      <4>1. reg'[g] = reg[g] /\ heard'[g] = heard[g] /\ timer' = timer
        BY <3>1, <3>2, <1>2 DEF Register, TypeOK
      <4>2. fdt'[Home[g]][g] = fdt[Home[g]][g]
        BY <3>1, <3>2, <2>2, <1>2, BvlcNodes DEF Register, Fdt, TypeOK
      <4> QED BY <4>1, <4>2, <1>2 DEF Leases
    <3>3. CASE f = g
      <4>1. reg'[g] = None /\ heard'[g] = Room(g) /\ timer' = timer
        BY <3>1, <3>3, <1>2 DEF Register, TypeOK
      <4>2. Room(g) => fdt'[Home[g]][g] = Ttl + Grace
        BY <3>1, <3>3, <2>2, <1>2 DEF Register, Fdt, TypeOK
      <4> QED BY <4>1, <4>2, <2>2, BvlcTimes
    <3> QED BY <3>2, <3>3
  <2>6. CASE \E f \in Foreign : LoseRegistration(f)
    <3>1. PICK f \in Foreign : LoseRegistration(f)
      BY <2>6
    <3>2. f # g => reg'[g] = reg[g] /\ heard'[g] = heard[g]
      BY <3>1, <1>2 DEF LoseRegistration, TypeOK
    <3>3. f = g => reg'[g] = None /\ ~heard'[g]
      BY <3>1, <1>2 DEF LoseRegistration, TypeOK
    <3>4. fdt' = fdt /\ timer' = timer
      BY <3>1 DEF LoseRegistration
    <3> QED BY <3>2, <3>3, <3>4, <1>2 DEF Leases
  <2>7. CASE \E f \in Foreign : DeleteEntry(f)
    <3>1. PICK f \in Foreign : DeleteEntry(f)
      BY <2>7
    <3>2. ASSUME f # g PROVE fdt'[Home[g]][g] = fdt[Home[g]][g] /\ heard'[g] = heard[g]
      <4>1. heard'[g] = heard[g]
        BY <3>1, <3>2, <1>2 DEF DeleteEntry, TypeOK
      <4>2. fdt' = [fdt EXCEPT ![Home[f]] = [fdt[Home[f]] EXCEPT ![f] = 0]]
        BY <3>1 DEF DeleteEntry
      <4> QED BY <4>1, <4>2, <3>2, <2>2, <1>2, BvlcNodes DEF TypeOK
    <3>3. f = g => ~heard'[g]
      BY <3>1, <1>2 DEF DeleteEntry, TypeOK
    <3>4. reg' = reg /\ timer' = timer
      BY <3>1 DEF DeleteEntry
    <3> QED BY <3>2, <3>3, <3>4, <1>2 DEF Leases
  <2>8. CASE Second
    <3>1. CASE reg[g] # None
      <4>1. timer[g] = Ttl - MaxDelay + reg[g] /\ reg[g] \in 1..MaxDelay
        BY <2>8, <3>1, <2>2, <1>2, SecondAt DEF Leases
      <4>2. timer[g] # 1
        BY <4>1, BvlcTimes
      <4>3. reg'[g] = reg[g] - 1 /\ timer'[g] = timer[g] - 1
        BY <2>8, <3>1, <4>2, <1>2, SecondAt
      <4>4. reg'[g] # None
        BY <4>1, <4>3, BvlcTimes
      <4>5. heard[g] => fdt[Home[g]][g] >= Grace - MaxDelay + reg[g]
        BY <3>1, <1>2 DEF Leases
      <4>6. heard[g] => fdt'[Home[g]][g] = fdt[Home[g]][g] - 1
        BY <2>8, <4>1, <4>5, <2>2, <1>2, BvlcTimes, SecondAt
      <4>7. heard'[g] = heard[g]
        BY <2>8, <1>2, SecondAt
      <4> QED BY <4>1, <4>3, <4>4, <4>5, <4>6, <4>7, <2>2, BvlcTimes
    <3>2. CASE reg[g] = None
      <4>1. heard[g] => fdt[Home[g]][g] >= timer[g] + Grace
        BY <3>2, <1>2 DEF Leases
      <4>2. heard[g] => fdt'[Home[g]][g] = fdt[Home[g]][g] - 1
        BY <2>8, <4>1, <2>2, <1>2, BvlcTimes, SecondAt
      <4>3. heard'[g] = heard[g]
        BY <2>8, <1>2, SecondAt
      <4>4. CASE timer[g] = 1
        <5>1. reg'[g] = MaxDelay /\ timer'[g] = Ttl /\ MaxDelay # None
          BY <2>8, <4>4, <1>2, BvlcTimes, SecondAt
        <5> QED BY <4>1, <4>2, <4>3, <4>4, <5>1, <2>2, BvlcTimes
      <4>5. CASE timer[g] # 1
        <5>1. reg'[g] = None /\ timer'[g] = timer[g] - 1
          BY <2>8, <3>2, <4>5, <1>2, SecondAt
        <5> QED BY <4>1, <4>2, <4>3, <5>1, <2>2, BvlcTimes
      <4> QED BY <4>4, <4>5
    <3> QED BY <3>1, <3>2
  <2>9. UNCHANGED leaseVars \/ (\E b \in Bbmds : Restart(b)) \/ Second
          \/ \E f \in Foreign : Register(f) \/ LoseRegistration(f) \/ DeleteEntry(f)
    BY <1>2 DEF Next, vars, leaseVars, Broadcast, Receive, Lose, WriteBdt
  <2> QED BY <2>3, <2>4, <2>5, <2>6, <2>7, <2>8, <2>9
<1>3. TypeOK /\ Leases => StaysRegistered
  <2>1. SUFFICES ASSUME TypeOK, Leases, NEW f \in Foreign, heard[f] PROVE Registered(f)
    BY DEF StaysRegistered
  <2>2. timer[f] \in 1..Ttl /\ (reg[f] # None => reg[f] \in 0..MaxDelay)
        /\ fdt[Home[f]][f] \in 0..(Ttl + Grace)
    BY <2>1, BvlcNodes DEF TypeOK
  <2> QED BY <2>1, <2>2, BvlcTimes DEF Leases, Registered
<1> QED BY <1>1, <1>2, <1>3, BvlcTypeCorrect, PTL DEF Spec

----------------------------------------------------------------------------
(* Once *)

\* Who sent a copy after how many hops, and to whom, when all masks are
\* unicast (direct) or none is
Path(p, direct) ==
  LET h == Home[p.src] IN
  /\ p.hop = 1 => /\ p.from = p.src
                  /\ p.kind = IF p.src \in Foreign THEN "distribute" ELSE "original"
                  /\ p.to \in IF p.src \in Foreign THEN {h} ELSE Local(h)
  /\ p.hop = 2 => /\ p.from = h
                  /\ \/ p.to \in Foreign
                     \/ p.src \in Foreign /\ p.to \in Local(h)
                     \/ Home[p.to] # h /\ (direct => p.to \in Bbmds)
  /\ p.hop = 3 => p.to \in Foreign \/ (direct /\ p.from # h /\ p.to \in Local(p.from))

Sources == \A p, q \in sent : p.id = q.id => p.src = q.src
Paths == \A p \in sent : Path(p, unicast = Bbmds)
\* Whoever forwarded a broadcast had received it one hop before.
Parents ==
  \A q \in sent : q.hop # 1 => \E r \in sent : r.id = q.id /\ r.to = q.from /\ q.hop = r.hop + 1
\* What a device has yet to receive it has not forwarded.
NotYet == \A p \in net, q \in sent : ~(q.id = p.id /\ q.from = p.to /\ q.hop = p.hop + 1)

\* A device that forwards receives one copy after each number of hops.
LEMMA Determined ==
  ASSUME NEW direct, NEW p \in Packets, NEW q \in Packets,
         Hop(p), Hop(q), Path(p, direct), Path(q, direct),
         p.id = q.id, p.src = q.src, p.to = q.to, p.hop = q.hop, p.to \notin Foreign
  PROVE  p = q
<1>1. p.from = q.from
  BY DEF Path, Hop, Local
<1>2. p.kind = q.kind
  <2>1. p.hop # 1 => p.kind = "forwarded" /\ q.kind = "forwarded"
    BY DEF Hop
  <2> QED BY <2>1 DEF Path
<1>3. \A r \in Packets : r = [kind |-> r.kind, id |-> r.id, src |-> r.src,
                              from |-> r.from, to |-> r.to, hop |-> r.hop]
  BY DEF Packets
<1> QED BY <1>1, <1>2, <1>3

\* An ordinary device receives one copy.
LEMMA OrdinaryHop ==
  ASSUME Hops, Sources, Paths, TypeOK, UniformMasks, NEW p \in sent, NEW q \in sent,
         p.id = q.id, p.to = q.to, p.to \in Ordinary
  PROVE  p.hop = q.hop
<1>1. p.src = q.src /\ Hop(p) /\ Hop(q) /\ Path(p, unicast = Bbmds) /\ Path(q, unicast = Bbmds)
  BY DEF Sources, Hops, Paths
<1>2. p.src \in Devices /\ Home[p.src] \in Bbmds /\ Home[Home[p.src]] = Home[p.src]
  BY BvlcNodes DEF TypeOK, Packets
<1>3. p.to \notin Bbmds \cup Foreign
  BY DEF Ordinary
<1>4. ASSUME NEW r \in {p, q}
      PROVE  r.hop = IF Home[p.to] = Home[p.src] THEN IF p.src \in Foreign THEN 2 ELSE 1
                     ELSE IF unicast = Bbmds THEN 3 ELSE 2
  <2>1. r.src = p.src /\ r.to = p.to /\ Hop(r) /\ Path(r, unicast = Bbmds)
    BY <1>1
  <2>2. r.hop \in {1, 2, 3}
    BY <2>1, <1>3 DEF Hop
  <2>3. CASE r.hop = 1
    BY <2>1, <2>3, <1>2, <1>3 DEF Path, Local
  <2>4. CASE r.hop = 2
    BY <2>1, <2>4, <1>2, <1>3 DEF Path, Local
  <2>5. CASE r.hop = 3
    BY <2>1, <2>5, <1>2, <1>3 DEF Path, Local
  <2> QED BY <2>2, <2>3, <2>4, <2>5
<1> QED BY <1>4

\* The path of what a device forwards
LEMMA ForwardPath ==
  ASSUME Hops, Paths, TypeOK, UniformMasks, NEW p \in net, NEW q \in Forwards(p)
  PROVE  Path(q, unicast = Bbmds)
<1>1. p \in sent /\ p \in Packets /\ Hop(p) /\ Path(p, unicast = Bbmds)
  BY DEF TypeOK, Hops, Paths
<1>2. q.src = p.src /\ q.from = p.to /\ q.to \in Dests(p) /\ q.hop = p.hop + 1 /\ q.to \in Devices
  BY <1>1, ForwardFields, DestsOf
<1>3. /\ p.to \in Bbmds
      /\ \/ q.to \in Foreign
         \/ p.kind = "original" /\ q.to \in BdtDests(p.to)
         \/ p.kind = "distribute" /\ q.to \in Local(p.to) \cup BdtDests(p.to)
         \/ p.kind = "forwarded" /\ q.to \in Local(p.to) /\ MemberIsUnicast(p.to, p.from)
  BY <1>1, <1>2, DestsOf
<1>4. Home[p.to] = p.to /\ p.to \notin Foreign
  BY <1>3, BvlcNodes
<1>5. p.hop \in {1, 2, 3}
  BY <1>1, <1>4 DEF Hop
<1>6. q.to \in BdtDests(p.to) => Home[q.to] # p.to /\ (unicast = Bbmds => q.to \in Bbmds)
  <2>1. SUFFICES ASSUME q.to \in BdtDests(p.to)
                 PROVE  Home[q.to] # p.to /\ (unicast = Bbmds => q.to \in Bbmds)
    OBVIOUS
  <2>2. PICK b \in bdt[p.to] \ {p.to} : q.to \in IF b \in unicast THEN {b} ELSE Local(b)
    BY <2>1 DEF BdtDests
  <2>3. b \in Bbmds /\ Home[b] = b
    BY <2>2, <1>3, BvlcNodes DEF TypeOK
  <2> QED BY <2>2, <2>3 DEF Local
<1>7. CASE p.hop = 1
  <2>1. p.to = Home[p.src] /\ p.kind # "forwarded"
    BY <1>1, <1>4, <1>7 DEF Path, Hop, Local
  <2>2. p.kind = "distribute" => p.src \in Foreign
    BY <1>1, <1>7 DEF Path
  <2> QED BY <1>2, <1>3, <1>6, <1>7, <2>1, <2>2 DEF Path
<1>8. CASE p.hop = 2
  <2>1. p.kind = "forwarded" /\ p.from = Home[p.src]
    BY <1>1, <1>8 DEF Path, Hop
  <2>2. q.to \notin Foreign => unicast = Bbmds /\ p.to # Home[p.src] /\ q.to \in Local(p.to)
    BY <1>3, <2>1 DEF MemberIsUnicast, UniformMasks
  <2> QED BY <1>2, <1>8, <2>2 DEF Path
<1>9. CASE p.hop = 3
  BY <1>2, <1>9 DEF Path
<1> QED BY <1>5, <1>7, <1>8, <1>9

\* When all masks are unicast or none is, an ordinary device receives a
\* broadcast once, and nobody sends it a second time.
THEOREM BroadcastsArriveOnce == Spec => []DeliveredOnce
<1> DEFINE Once == UniformMasks => Paths /\ NotYet
           Inv == Sources /\ Parents /\ Once
<1>1. Init => Inv
  BY DEF Init, Sources, Parents, Paths, NotYet
<1>2. ASSUME TypeOK, Hops, Hops', Inv, [Next]_vars PROVE Inv'
  <2>1. unicast' = unicast /\ (UniformMasks' <=> UniformMasks)
    BY <1>2 DEF Next, vars, packetVars, Broadcast, Receive, Lose, Restart, WriteBdt, Register,
                LoseRegistration, DeleteEntry, Second, UniformMasks
  <2>2. ASSUME NEW d \in Devices, NEW id \in Ids, Broadcast(d, id) PROVE Inv'
    <3> DEFINE new == sent' \ sent
    <3>1. /\ \A p \in sent : p \in sent' /\ p.id # id
          /\ net' \subseteq net \cup new /\ net \subseteq sent
      <4> DEFINE to == IF d \in Foreign THEN {Home[d]} ELSE Local(Home[d])
                 kind == IF d \in Foreign THEN "distribute" ELSE "original"
                 S == {[kind |-> kind, id |-> id, src |-> d, from |-> d, to |-> e, hop |-> 1] : e \in to}
      <4>1. net' = net \cup S /\ sent' = sent \cup S /\ \A q \in S : q.id = id
        BY <2>2 DEF Broadcast
      <4>2. \A p \in sent : p.id # id
        BY <2>2 DEF Broadcast
      <4>3. net \subseteq sent
        BY <1>2 DEF TypeOK
      <4> HIDE DEF S
      <4> QED BY <4>1, <4>2, <4>3
    <3>2. \A q \in new : /\ q.id = id /\ q.src = d /\ q.from = d /\ q.hop = 1
                         /\ q.kind = IF d \in Foreign THEN "distribute" ELSE "original"
                         /\ q.to \in IF d \in Foreign THEN {Home[d]} ELSE Local(Home[d])
      BY <2>2, <1>2, BroadcastFields
    <3>3. Sources'
      BY <3>1, <3>2, <1>2 DEF Sources
    <3>4. Parents'
      BY <3>1, <3>2, <1>2 DEF Parents
    <3>5. ASSUME UniformMasks PROVE Paths' /\ NotYet'
      <4>1. Paths'
        <5>1. \A q \in new : Path(q, unicast = Bbmds)
          BY <3>2 DEF Path
        <5> QED BY <5>1, <2>1, <3>5, <1>2 DEF Paths
      <4>2. NotYet'
        <5>1. SUFFICES ASSUME NEW p \in net', NEW q \in sent',
                              q.id = p.id, q.from = p.to, q.hop = p.hop + 1
                       PROVE  FALSE
          BY DEF NotYet
        <5>2. CASE p \in new
          BY <3>1, <3>2, <5>1, <5>2
        <5>3. CASE p \in net /\ q \in new
          BY <3>1, <3>2, <5>1, <5>3
        <5>4. CASE p \in net /\ q \in sent
          BY <5>1, <5>4, <3>5, <1>2 DEF NotYet
        <5> QED BY <3>1, <5>1, <5>2, <5>3, <5>4
      <4> QED BY <4>1, <4>2
    <3> QED BY <2>1, <3>3, <3>4, <3>5
  <2>3. ASSUME NEW p \in net, Receive(p) PROVE Inv'
    <3>1. p \in sent /\ p \in Packets /\ net \subseteq sent
      BY <1>2 DEF TypeOK
    <3>2. net' = (net \ {p}) \cup Forwards(p) /\ sent' = sent \cup Forwards(p)
      BY <2>3 DEF Receive
    <3>3. \A q \in Forwards(p) : /\ q.id = p.id /\ q.src = p.src /\ q.from = p.to /\ q.hop = p.hop + 1
                         /\ p.to \notin Foreign
      BY <3>1, <1>2, ForwardFields, DestsOf, BvlcNodes
    <3>4. Sources'
      BY <3>1, <3>2, <3>3, <1>2 DEF Sources
    <3>5. Parents'
      BY <3>1, <3>2, <3>3, <1>2 DEF Parents
    <3>6. ASSUME UniformMasks PROVE Paths' /\ NotYet'
      <4>1. \A q \in Forwards(p) : Path(q, unicast = Bbmds)
        BY <3>6, <1>2, ForwardPath
      <4>2. Paths'
        BY <4>1, <3>2, <2>1, <3>6, <1>2 DEF Paths
      <4>3. NotYet'
        <5>1. SUFFICES ASSUME NEW r \in net', NEW q \in sent',
                              q.id = r.id, q.from = r.to, q.hop = r.hop + 1
                       PROVE  FALSE
          BY DEF NotYet
        <5>2. CASE r \in net \ {p} /\ q \in sent
          BY <5>1, <5>2, <3>6, <1>2 DEF NotYet
        <5>3. CASE r \in net \ {p} /\ q \in Forwards(p)
          <6>1. r \in sent /\ r.id = p.id /\ r.to = p.to /\ r.hop = p.hop /\ p.to \notin Foreign
            <7>1. r \in Packets /\ r \in sent
              BY <5>3, <3>1, <1>2 DEF TypeOK
            <7> QED BY <5>1, <5>3, <7>1, <3>1, <3>3 DEF Packets
          <6>2. r = p
            BY <6>1, <3>1, <3>6, <1>2, Determined DEF Hops, Paths, Sources, TypeOK
          <6> QED BY <6>2, <5>3
        <5>4. CASE r \in Forwards(p) /\ q \in sent
          <6>1. r.hop = p.hop + 1 /\ p.hop \in Nat \ {0}
            BY <5>4, <3>1, <3>3, <1>2 DEF Hops, Hop
          <6>2. PICK s \in sent : s.id = q.id /\ s.to = q.from /\ q.hop = s.hop + 1
            BY <5>1, <5>4, <6>1, <1>2 DEF Parents
          <6>3. s.id = r.id /\ s.to = r.to /\ s.hop = r.hop
            <7>1. s.hop \in Nat
              BY <6>2, <1>2 DEF TypeOK, Packets
            <7> QED BY <5>1, <6>1, <6>2, <7>1
          <6>4. r \in Packets /\ s \in Packets /\ r.src = s.src
            BY <5>4, <6>2, <6>3, <3>1, <3>3, <1>2, ForwardFields DEF TypeOK, Sources
          <6>5. Hop(r) /\ Hop(s) /\ Path(r, unicast = Bbmds) /\ Path(s, unicast = Bbmds)
            BY <5>4, <3>2, <4>1, <3>6, <1>2 DEF Hops, Paths
          <6>6. r.to \notin Foreign
            <7>1. q.kind = "forwarded" /\ q.from \in Bbmds
              BY <5>4, <5>1, <6>1, <1>2 DEF Hops, Hop
            <7> QED BY <7>1, <5>1, BvlcNodes
          <6>7. r = s
            BY <6>3, <6>4, <6>5, <6>6, Determined
          <6> QED BY <6>7, <3>3, <5>4, <3>6, <1>2 DEF NotYet
        <5>5. CASE r \in Forwards(p) /\ q \in Forwards(p)
          BY <5>1, <5>5, <3>1, <3>3 DEF Packets
        <5> QED BY <3>2, <5>1, <5>2, <5>3, <5>4, <5>5
      <4> QED BY <4>2, <4>3
    <3> QED BY <2>1, <3>4, <3>5, <3>6
  <2>4. CASE UNCHANGED sent /\ net' \subseteq net
    BY <2>1, <2>4, <1>2 DEF Sources, Parents, Paths, NotYet
  <2>5. \/ \E d \in Devices, id \in Ids : Broadcast(d, id)
        \/ \E p \in net : Receive(p)
        \/ UNCHANGED sent /\ net' \subseteq net
    BY <1>2 DEF Next, vars, packetVars, Lose, Restart, WriteBdt, Register, LoseRegistration,
                DeleteEntry, Second
  <2> QED BY <2>2, <2>3, <2>4, <2>5
<1>3. ASSUME TypeOK, Hops, Inv PROVE DeliveredOnce
  <2>1. SUFFICES ASSUME UniformMasks
                 PROVE  /\ SentOnce
                        /\ \A p, q \in sent : p.to \in Ordinary /\ p.to = q.to /\ p.id = q.id => p = q
    BY DEF DeliveredOnce
  <2>2. SentOnce
    <3>1. net \subseteq Packets
      BY <1>3 DEF TypeOK
    <3>2. \A p \in net : \A q \in Forwards(p) : q.id = p.id /\ q.from = p.to /\ q.hop = p.hop + 1
      BY <3>1, <1>3, ForwardFields
    <3> QED BY <3>2, <2>1, <1>3 DEF SentOnce, NotYet
  <2>3. ASSUME NEW p \in sent, NEW q \in sent, p.to \in Ordinary, p.to = q.to, p.id = q.id
        PROVE  p = q
    <3>1. p.hop = q.hop
      BY <2>1, <2>3, <1>3, OrdinaryHop
    <3> QED BY <3>1, <2>1, <2>3, <1>3, Determined DEF Ordinary, Hops, Paths, Sources, TypeOK
  <2> QED BY <2>2, <2>3
<1> HIDE DEF Inv
<1> QED BY <1>1, <1>2, <1>3, BvlcTypeCorrect, HopsInvariant, PTL DEF Spec
----------------------------------------------------------------------------
(* To everybody *)

Copied(p, e) ==
  \E q \in sent : /\ q.kind = "forwarded" /\ q.id = p.id /\ q.src = p.src
                  /\ q.from = p.to /\ q.to = e

\* Whoever received a copy has sent it on, to all it would send it to now: those that it
\* would not have sent it to then are not due any more.
SentOn ==
  \A p \in sent \ net : \A e \in Dests(p) :
    due[p.id] # {} /\ (e \in Foreign => e \in due[p.id]) => Copied(p, e)

\* As long as anybody is due the tables are those of the broadcast.
TablesStand ==
  \A id \in Ids : due[id] # {} =>
    /\ UniformMasks /\ \A b \in Bbmds : bdt[b] = Bbmds
    /\ \A f \in due[id] \cap Foreign : Registered(f)

\* Whom the device s sends a broadcast of its own
First(s) == IF s \in Foreign THEN {Home[s]} ELSE Local(Home[s])
Source(id, s) ==
  /\ s \notin due[id]
  /\ \A e \in First(s) :
       \E p \in sent : /\ p.id = id /\ p.src = s /\ p.to = e
                       /\ p.kind = IF s \in Foreign THEN "distribute" ELSE "original"
Started == \A id \in Ids : due[id] # {} => \E s \in Devices : Source(id, s)

ReachInv == SentOn /\ TablesStand /\ Started

\* Whom a device sends a copy to does not grow by more than foreign devices that come.
LEMMA DestsBefore ==
  ASSUME TypeOK, TypeOK', NEW p \in Packets, NEW e \in Dests(p)',
         UNCHANGED <<unicast, bdt>>, e \in Foreign => Registered(e)
  PROVE  e \in Dests(p)
<1>1. p.to \in Devices
  BY DEF Packets
<1>2. e \in FdtDests(p.to, p.src)' => e \in FdtDests(p.to, p.src)
  BY <1>1 DEF FdtDests, Entries, Registered, TypeOK
<1>3. BdtDests(p.to)' = BdtDests(p.to) /\ MemberIsUnicast(p.to, p.from)' = MemberIsUnicast(p.to, p.from)
  BY DEF BdtDests, MemberIsUnicast
<1>4. p.kind \in {"original", "distribute", "forwarded"}
  BY DEF Packets
<1>5. CASE p.kind = "original"
  BY <1>2, <1>3, <1>5 DEF Dests
<1>6. CASE p.kind = "distribute"
  BY <1>2, <1>3, <1>6 DEF Dests
<1>7. CASE p.kind = "forwarded"
  BY <1>2, <1>3, <1>7 DEF Dests
<1> QED BY <1>4, <1>5, <1>6, <1>7

\* A step that neither writes a table nor takes a copy away without sending it on, and
\* makes nobody due.
LEMMA StepKeepsReach ==
  ASSUME TypeOK, TypeOK', ReachInv, UNCHANGED <<unicast, bdt>>, sent \subseteq sent',
         \A p \in sent' \ net' : \/ p \in sent \ net
                                 \/ due'[p.id] = {}
                                 \/ \A e \in Dests(p)' : Copied(p, e)',
         \A id \in Ids : due'[id] \subseteq due[id],
         \A id \in Ids : \A f \in due'[id] \cap Foreign : Registered(f)'
  PROVE  ReachInv'
<1>1. SentOn'
  <2> SUFFICES ASSUME NEW p \in sent' \ net', NEW e \in Dests(p)',
                      due'[p.id] # {}, e \in Foreign => e \in due'[p.id]
               PROVE  Copied(p, e)'
    BY DEF SentOn
  <2>1. p \in Packets /\ p.id \in Ids
    BY DEF TypeOK, Packets
  <2>2. due'[p.id] \subseteq due[p.id]
    BY <2>1
  <2>3. CASE p \in sent \ net
    <3>1. e \in Foreign => Registered(e) /\ e \in due[p.id]
      BY <2>1, <2>2 DEF ReachInv, TablesStand
    <3>2. e \in Dests(p)
      BY <2>1, <3>1, DestsBefore
    <3>3. Copied(p, e)
      BY <2>2, <2>3, <3>1, <3>2 DEF ReachInv, SentOn
    <3> QED BY <3>3 DEF Copied
  <2>4. CASE \A x \in Dests(p)' : Copied(p, x)'
    BY <2>4
  <2> QED BY <2>3, <2>4
<1>2. TablesStand'
  BY DEF ReachInv, TablesStand, UniformMasks
<1>3. Started'
  BY DEF ReachInv, Started, Source, First, Local
<1> QED BY <1>1, <1>2, <1>3 DEF ReachInv

\* The copies of a broadcast that begins
LEMMA BroadcastKeepsReach ==
  ASSUME TypeOK, TypeOK', ReachInv, NEW d \in Devices, NEW id \in Ids, Broadcast(d, id)
  PROVE  ReachInv'
<1> DEFINE kind == IF d \in Foreign THEN "distribute" ELSE "original"
           new == {[kind |-> kind, id |-> id, src |-> d, from |-> d, to |-> e, hop |-> 1] : e \in First(d)}
<1>1. /\ net' = net \cup new /\ sent' = sent \cup new
      /\ \A p \in sent : p.id # id
      /\ UNCHANGED <<unicast, bdt, leaseVars>>
  BY DEF Broadcast, First
<1>2. \A x \in Ids : x # id => due'[x] = due[x]
  BY DEF Broadcast, TypeOK
<1>3. due'[id] # {} => /\ UniformMasks /\ \A b \in Bbmds : bdt[b] = Bbmds
                       /\ due'[id] = {e \in Devices \ {d} : e \in Foreign => Registered(e)}
  BY DEF Broadcast, TypeOK
<1>4. SentOn'
  <2> SUFFICES ASSUME NEW p \in sent' \ net', NEW e \in Dests(p)',
                      due'[p.id] # {}, e \in Foreign => e \in due'[p.id]
               PROVE  Copied(p, e)'
    BY DEF SentOn
  <2>1. p \in sent \ net /\ p \in Packets /\ p.id \in Ids /\ p.id # id
    BY <1>1 DEF TypeOK, Packets
  <2>2. due'[p.id] = due[p.id]
    BY <1>2, <2>1
  <2>3. e \in Foreign => Registered(e)
    BY <2>1, <2>2 DEF ReachInv, TablesStand
  <2>4. e \in Dests(p)
    BY <1>1, <2>1, <2>3, DestsBefore
  <2>5. Copied(p, e)
    BY <2>1, <2>2, <2>4 DEF ReachInv, SentOn
  <2> QED BY <1>1, <2>5 DEF Copied
<1>5. TablesStand'
  <2>1. Registered(d)' = Registered(d) /\ \A f \in Foreign : Registered(f)' <=> Registered(f)
    BY <1>1 DEF Registered, leaseVars
  <2>2. UniformMasks' <=> UniformMasks
    BY <1>1 DEF UniformMasks
  <2> SUFFICES ASSUME NEW x \in Ids, due'[x] # {}
               PROVE  /\ UniformMasks /\ \A b \in Bbmds : bdt[b] = Bbmds
                      /\ \A f \in due'[x] \cap Foreign : Registered(f)
    BY <1>1, <2>1, <2>2 DEF TablesStand
  <2> QED BY <1>2, <1>3 DEF ReachInv, TablesStand
<1>6. Started'
  <2> SUFFICES ASSUME NEW x \in Ids, due'[x] # {}
               PROVE  \E s \in Devices : Source(x, s)'
    BY DEF Started
  <2>1. CASE x # id
    <3>1. PICK s \in Devices : Source(x, s)
      BY <1>2, <2>1 DEF ReachInv, Started
    <3>2. Source(x, s)'
      BY <1>1, <1>2, <2>1, <3>1 DEF Source, First, Local
    <3> QED BY <3>2
  <2>2. CASE x = id
    <3>1. d \notin due'[id]
      BY <1>3, <2>2
    <3>2. \A e \in First(d) : \E p \in new : /\ p.id = id /\ p.src = d /\ p.to = e /\ p.kind = kind
      <4> SUFFICES ASSUME NEW e \in First(d)
                   PROVE  \E p \in new : /\ p.id = id /\ p.src = d /\ p.to = e /\ p.kind = kind
        OBVIOUS
      <4> DEFINE p == [kind |-> kind, id |-> id, src |-> d, from |-> d, to |-> e, hop |-> 1]
      <4>1. p \in new
        OBVIOUS
      <4>2. p.id = id /\ p.src = d /\ p.to = e /\ p.kind = kind
        OBVIOUS
      <4> HIDE DEF p, new
      <4> QED BY <4>1, <4>2
    <3>3. First(d)' = First(d)
      BY DEF First, Local
    <3> HIDE DEF new
    <3>4. Source(id, d)'
      BY <1>1, <3>1, <3>2, <3>3 DEF Source
    <3> QED BY <2>2, <3>4
  <2> QED BY <2>1, <2>2
<1> QED BY <1>4, <1>5, <1>6 DEF ReachInv

\* What a device has sent on
LEMMA ForwardsAreCopies ==
  ASSUME TypeOK, NEW p \in Packets, Forwards(p) \subseteq sent', NEW e \in Dests(p)
  PROVE  Copied(p, e)'
<1>1. PICK q \in Forwards(p) :
        q = [p EXCEPT !.kind = "forwarded", !.from = p.to, !.to = e, !.hop = p.hop + 1]
  BY DEF Forwards
<1>2. q = [kind |-> "forwarded", id |-> p.id, src |-> p.src,
           from |-> p.to, to |-> e, hop |-> p.hop + 1]
  BY <1>1 DEF Packets
<1>3. q \in sent' /\ q.kind = "forwarded" /\ q.id = p.id /\ q.src = p.src
      /\ q.from = p.to /\ q.to = e
  BY <1>1, <1>2
<1> QED BY <1>3 DEF Copied

\* While nobody is due there is nothing to keep.
LEMMA NobodyDue ==
  ASSUME TypeOK', \A id \in Ids : due'[id] = {}
  PROVE  ReachInv'
<1>1. \A p \in sent' : p.id \in Ids
  BY DEF TypeOK, Packets
<1> QED BY <1>1 DEF ReachInv, SentOn, TablesStand, Started

LEMMA NextKeepsReach == TypeOK /\ TypeOK' /\ ReachInv /\ [Next]_vars => ReachInv'
<1> SUFFICES ASSUME TypeOK, TypeOK', ReachInv, [Next]_vars
             PROVE  ReachInv'
  OBVIOUS
<1>1. \A id \in Ids : due[id] \subseteq Devices
  BY DEF TypeOK
<1>2. \A id \in Ids : \A f \in due[id] \cap Foreign : Registered(f)
  BY DEF ReachInv, TablesStand
<1>3. ASSUME NEW d \in Devices, NEW id \in Ids, Broadcast(d, id) PROVE ReachInv'
  BY <1>3, BroadcastKeepsReach
<1>4. ASSUME NEW p \in net, Receive(p) PROVE ReachInv'
  <2>1. /\ p \in Packets /\ sent' = sent \cup Forwards(p) /\ net' = (net \ {p}) \cup Forwards(p)
        /\ UNCHANGED <<unicast, bdt, due, leaseVars>>
    BY <1>4 DEF Receive, TypeOK
  <2>2. Dests(p)' = Dests(p)
    BY <2>1 DEF Dests, BdtDests, FdtDests, MemberIsUnicast, Entries, Local, leaseVars
  <2>3. \A e \in Dests(p)' : Copied(p, e)'
    BY <2>1, <2>2, ForwardsAreCopies
  <2>4. \A q \in sent' \ net' : q \in sent \ net \/ q = p
    BY <2>1
  <2>5. \A f \in Foreign : Registered(f)' <=> Registered(f)
    BY <2>1 DEF Registered, leaseVars
  <2> QED BY <1>2, <2>1, <2>3, <2>4, <2>5, StepKeepsReach
<1>5. ASSUME NEW p \in net, Lose(p) PROVE ReachInv'
  <2>1. /\ p.id \in Ids /\ sent' = sent /\ net' = net \ {p}
        /\ UNCHANGED <<unicast, bdt, leaseVars>>
        /\ due' = [due EXCEPT ![p.id] = {}]
    BY <1>5 DEF Lose, TypeOK, Packets
  <2>2. due'[p.id] = {} /\ \A id \in Ids : due'[id] \subseteq due[id]
    BY <2>1 DEF TypeOK
  <2>3. \A f \in Foreign : Registered(f)' <=> Registered(f)
    BY <2>1 DEF Registered, leaseVars
  <2>4. \A q \in sent' \ net' : q \in sent \ net \/ due'[q.id] = {}
    BY <2>1, <2>2
  <2> QED BY <1>2, <2>1, <2>2, <2>3, <2>4, StepKeepsReach
<1>6. CASE \E b \in Bbmds : Restart(b) \/ \E table \in Tables : WriteBdt(b, table)
  <2>1. \A id \in Ids : due'[id] = {}
    BY <1>1, <1>6 DEF Restart, WriteBdt, Undue
  <2> QED BY <2>1, NobodyDue
<1>7. ASSUME UNCHANGED <<unicast, bdt, net, sent>>,
             \A id \in Ids : due'[id] \subseteq due[id],
             \A id \in Ids : \A f \in due'[id] \cap Foreign : Registered(f) => Registered(f)'
      PROVE  ReachInv'
  BY <1>2, <1>7, StepKeepsReach
<1>8. ASSUME NEW f \in Foreign, Register(f) PROVE ReachInv'
  <2>1. UNCHANGED <<unicast, bdt, net, sent, due>>
    BY <1>8 DEF Register, packetVars
  <2>2. \A g \in Foreign : Registered(g) => Registered(g)'
    <3> SUFFICES ASSUME NEW g \in Foreign, Registered(g) PROVE Registered(g)'
      OBVIOUS
    <3>1. fdt \in [Devices -> [Foreign -> 0..(Ttl + Grace)]] /\ Home[f] \in Devices /\ Home[g] \in Devices
          /\ Ttl + Grace > 0
      BY BvlcNodes, BvlcTimes DEF TypeOK
    <3>2. CASE Room(f)
      <4>1. fdt' = Fdt(f)
        BY <1>8, <3>2 DEF Register
      <4> QED BY <3>1, <4>1 DEF Fdt, Registered
    <3>3. CASE ~Room(f)
      BY <1>8, <3>3 DEF Register, Registered
    <3> QED BY <3>2, <3>3
  <2> QED BY <1>7, <2>1, <2>2
<1>9. ASSUME NEW f \in Foreign, LoseRegistration(f) PROVE ReachInv'
  <2>1. UNCHANGED <<unicast, bdt, net, sent, due, fdt>>
    BY <1>9 DEF LoseRegistration, packetVars
  <2> QED BY <1>7, <2>1 DEF Registered
<1>10. ASSUME NEW f \in Foreign, DeleteEntry(f) PROVE ReachInv'
  <2>1. UNCHANGED <<unicast, bdt, net, sent>> /\ due' = Undue({f})
    BY <1>10 DEF DeleteEntry
  <2>2. \A g \in Foreign : g # f => (Registered(g)' <=> Registered(g))
    <3>1. fdt \in [Devices -> [Foreign -> 0..(Ttl + Grace)]] /\ fdt' = [fdt EXCEPT ![Home[f]][f] = 0]
      BY <1>10 DEF DeleteEntry, TypeOK
    <3> QED BY <3>1, BvlcNodes DEF Registered
  <2> QED BY <1>7, <2>1, <2>2 DEF Undue
<1>11. CASE Second
  <2>1. UNCHANGED <<unicast, bdt, net, sent>> /\ due' = Undue({f \in Foreign : fdt[Home[f]][f] = 1})
    BY <1>11 DEF Second
  <2>2. \A g \in Foreign : fdt[Home[g]][g] # 1 /\ Registered(g) => Registered(g)'
    <3> SUFFICES ASSUME NEW g \in Foreign, fdt[Home[g]][g] # 1, Registered(g) PROVE Registered(g)'
      OBVIOUS
    <3>1. fdt[Home[g]][g] \in Nat
      BY BvlcNodes, BvlcTimes DEF TypeOK
    <3> QED BY <1>11, <3>1, SecondAt DEF Registered
  <2> QED BY <1>7, <2>1, <2>2 DEF Undue
<1>12. CASE UNCHANGED vars
  BY <1>7, <1>12 DEF vars, Registered
<1> QED BY <1>3, <1>4, <1>5, <1>6, <1>8, <1>9, <1>10, <1>11, <1>12 DEF Next

\* From the first copies to everybody who is due, when nothing is on its way any more
LEMMA AllHaveIt == TypeOK /\ ReachInv => ReachesAllDue
<1> SUFFICES ASSUME TypeOK, ReachInv, NEW id \in Ids, \A p \in net : p.id # id,
                    NEW d \in due[id]
             PROVE  \E p \in sent : p.id = id /\ p.to = d
  BY DEF ReachesAllDue
<1>1. PICK s \in Devices : Source(id, s)
  BY DEF ReachInv, Started
<1> DEFINE h == Home[s]
           b == Home[d]
<1>2. /\ h \in Bbmds /\ b \in Bbmds /\ Home[h] = h /\ Home[b] = b /\ Bbmds \cap Foreign = {}
      /\ d \in Devices /\ h \in Devices /\ b \in Devices /\ d # s
  BY <1>1, BvlcNodes DEF TypeOK, Source
<1>3. /\ \A c \in Bbmds : bdt[c] = Bbmds
      /\ unicast = {} \/ unicast = Bbmds
      /\ d \in Foreign => fdt[b][d] > 0
  BY DEF ReachInv, TablesStand, UniformMasks, Registered
<1>4. \A p \in sent : p.id = id => p \in sent \ net
  OBVIOUS
<1>5. ASSUME NEW p \in sent, p.id = id, NEW e \in Dests(p), e \in Foreign => e = d
      PROVE  Copied(p, e)
  BY <1>4, <1>5 DEF ReachInv, SentOn
<1>6. PICK p \in sent : /\ p.id = id /\ p.src = s /\ p.to = h
                        /\ p.kind = IF s \in Foreign THEN "distribute" ELSE "original"
  <2>1. h \in First(s)
    BY <1>2 DEF First, Local
  <2> QED BY <1>1, <2>1 DEF Source
<1>7. BdtDests(h) \cup FdtDests(h, s) \subseteq Dests(p)
  BY <1>6 DEF Dests
<1>8. ASSUME NEW e \in Devices \ Foreign, Home[e] # h, unicast = Bbmds => e = Home[e]
      PROVE  e \in BdtDests(h)
  <2>1. Home[e] \in bdt[h] \ {h}
    BY <1>2, <1>3, <1>8, BvlcNodes
  <2> DEFINE c == Home[e]
  <2>2. e \in IF c \in unicast THEN {c} ELSE Local(c)
    BY <1>3, <1>8, <2>1 DEF Local
  <2> QED BY <2>1, <2>2 DEF BdtDests
<1>9. CASE d \notin Foreign /\ b = h
  <2>1. d \in Local(h)
    BY <1>2, <1>9 DEF Local
  <2>2. CASE s \in Foreign
    <3>1. d \in Dests(p)
      BY <1>6, <2>1, <2>2 DEF Dests
    <3> QED BY <1>5, <1>6, <3>1 DEF Copied
  <2>3. CASE s \notin Foreign
    BY <1>1, <2>1, <2>3 DEF Source, First
  <2> QED BY <2>2, <2>3
<1>10. b # h => Copied(p, b)
  BY <1>2, <1>5, <1>6, <1>7, <1>8
<1>11. CASE d \notin Foreign /\ b # h
  <2>1. CASE unicast = Bbmds => d = b
    BY <1>2, <1>5, <1>6, <1>7, <1>8, <1>11, <2>1 DEF Copied
  <2>2. CASE unicast = Bbmds
    <3>1. PICK q \in sent : /\ q.kind = "forwarded" /\ q.id = id /\ q.src = s
                            /\ q.from = h /\ q.to = b
      BY <1>6, <1>10, <1>11 DEF Copied
    <3>2. MemberIsUnicast(b, h)
      BY <1>2, <1>3, <1>11, <2>2 DEF MemberIsUnicast
    <3>3. d \in Dests(q)
      BY <1>2, <1>11, <3>1, <3>2 DEF Dests, Local
    <3> QED BY <1>5, <1>11, <3>1, <3>3 DEF Copied
  <2> QED BY <2>1, <2>2
<1>12. CASE d \in Foreign
  <2>1. d \in FdtDests(b, s)
    BY <1>2, <1>3, <1>12 DEF FdtDests, Entries
  <2>2. CASE b = h
    BY <1>5, <1>6, <1>7, <2>1, <2>2 DEF Copied
  <2>3. CASE b # h
    <3>1. PICK q \in sent : /\ q.kind = "forwarded" /\ q.id = id /\ q.src = s
                            /\ q.from = h /\ q.to = b
      BY <1>6, <1>10, <2>3 DEF Copied
    <3>2. d \in Dests(q)
      BY <2>1, <3>1 DEF Dests
    <3> QED BY <1>5, <3>1, <3>2 DEF Copied
  <2> QED BY <2>2, <2>3
<1> QED BY <1>9, <1>11, <1>12

\* When the copies of a broadcast have arrived, all devices of all the subnets have one, and
\* the foreign devices that stayed registered, if the tables are complete: no path is missing.
THEOREM BroadcastsReachAll == Spec => []ReachesAllDue
<1>1. Init => ReachInv
  BY DEF Init, ReachInv, SentOn, TablesStand, Started
<1> QED BY <1>1, NextKeepsReach, AllHaveIt, BvlcTypeCorrect, PTL DEF Spec
=============================================================================
