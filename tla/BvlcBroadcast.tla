--------------------------- MODULE BvlcBroadcast ---------------------------
(***************************************************************************)
(* Broadcasts across BACnet/IP subnets (BACnet/native/bvlc.c, dlenv.c).    *)
(*                                                                         *)
(* Every device runs this code. One on each subnet is told the others by   *)
(* a broadcast distribution table (BDT) and forwards the broadcasts of its *)
(* subnet to theirs: it is the BBMD of the subnet. A foreign device, on a  *)
(* subnet without one, registers with a BBMD, which keeps it in its        *)
(* foreign device table (FDT) until a time to live has run out.            *)
(*                                                                         *)
(* A packet is one datagram on its way to one device: a datagram sent to a *)
(* broadcast address is a packet for every device of the subnet, the       *)
(* sender included, whose socket is bound to any address. Packets are      *)
(* lost and overtake each other.                                           *)
(*                                                                         *)
(* hop, sent, due and heard are history: how many devices a broadcast went *)
(* through, every packet there ever was, who has to receive a broadcast,   *)
(* and whose last registration arrived.                                    *)
(***************************************************************************)
EXTENDS Integers, FiniteSets

CONSTANTS
  Devices, Bbmds, Foreign,
  Home,        \* the BBMD of a device's subnet; of a foreign device, of its registration
  UnicastSets, \* which BBMDs can have a BDT entry with the mask 255.255.255.255
  Tables,      \* the BDTs that management writes
  Ids,         \* broadcasts
  MaxFds,      \* MAX_FD_ENTRIES, 128
  Ttl,         \* bbmd_timetolive_seconds, 60000
  Grace,       \* 30 seconds
  MaxDelay,    \* a registration arrives within so many seconds, or never
  None         \* no registration is on its way

ASSUME BvlcNodes ==
  /\ Bbmds \subseteq Devices /\ Foreign \subseteq Devices \ Bbmds
  /\ Home \in [Devices -> Bbmds] /\ \A b \in Bbmds : Home[b] = b
  /\ UnicastSets \subseteq SUBSET Bbmds /\ Tables \subseteq SUBSET Bbmds
ASSUME BvlcTimes ==
  /\ MaxFds \in Nat /\ Ttl \in Nat /\ Grace \in Nat /\ MaxDelay \in Nat
  /\ MaxDelay < Ttl /\ MaxDelay < Grace /\ None \notin 0..MaxDelay

VARIABLES
  unicast,  \* the BBMDs whose BDT entry, the same in all tables, has a unicast mask
  bdt,      \* BBMD_Table of each device
  fdt,      \* FD_Table of each device: seconds_remaining, 0 for no entry
  timer,    \* BBMD_Timer_Seconds of each foreign device
  reg,      \* seconds left for its Register-Foreign-Device packet, or None
  net,      \* packets on their way
  sent, due, heard   \* history

vars == <<unicast, bdt, fdt, timer, reg, net, sent, due, heard>>
packetVars == <<net, sent, due>>
leaseVars == <<fdt, timer, reg, heard>>

Packets == [kind: {"original", "distribute", "forwarded"}, id: Ids, src: Devices,
            from: Devices, to: Devices, hop: Nat]

\* The devices a broadcast on the subnet of b reaches
Local(b) == {d \in Devices \ Foreign : Home[d] = b}
Ordinary == Devices \ (Bbmds \cup Foreign)
Registered(f) == fdt[Home[f]][f] > 0
Entries(b) == {f \in Foreign : fdt[b][f] > 0}
UniformMasks == unicast \in {{}, Bbmds}

----------------------------------------------------------------------------
(* Broadcasts *)

\* Mutant of BdtDests: this device and its subnet are not left out.
BdtDestsAll(d) ==
  UNION {IF b \in unicast THEN {b} ELSE Local(b) : b \in bdt[d]}

\* bvlc_bdt_forward_npdu: to the BBMD itself or to all of its subnet, as the
\* mask says, but neither to this device nor to its own subnet
BdtDests(d) ==
  UNION {IF b \in unicast THEN {b} ELSE Local(b) : b \in bdt[d] \ {d}}

\* Mutant of FdtDests: the table of a BBMD that is forwarded to is not served.
FdtDestsOfOrigin(d, src) ==
  IF Home[src] = Home[d] THEN Entries(d) \ {d, src} ELSE {}

\* bvlc_fdt_forward_npdu
FdtDests(d, src) == Entries(d) \ {d, src}

\* Mutant of MemberIsUnicast: "Skip ourself" is missing.
MemberOrSelfIsUnicast(d, from) == from \in bdt[d] /\ from \in unicast

\* bvlc_bdt_member_mask_is_unicast
MemberIsUnicast(d, from) == from \in bdt[d] \ {d} /\ from \in unicast

\* bvlc_receive: whom the device sends what it has received. The three sets
\* never share a device.
Dests(p) ==
  CASE p.kind = "original"   -> BdtDests(p.to) \cup FdtDests(p.to, p.src)
    [] p.kind = "distribute" -> Local(p.to) \cup BdtDests(p.to) \cup FdtDests(p.to, p.src)
    [] p.kind = "forwarded"  -> (IF MemberIsUnicast(p.to, p.from) THEN Local(p.to) ELSE {})
                                  \cup FdtDests(p.to, p.src)

Forwards(p) ==
  {[p EXCEPT !.kind = "forwarded", !.from = p.to, !.to = d, !.hop = @ + 1] : d \in Dests(p)}

\* bvlc_send_pdu of a broadcast, to all of the subnet or to the BBMD. Everybody
\* has to receive it who is on a subnet of a BBMD or registered, if the tables
\* hold all the BBMDs and their masks are of one kind.
Broadcast(d, id) ==
  /\ \A p \in sent : p.id # id
  /\ LET to == IF d \in Foreign THEN {Home[d]} ELSE Local(Home[d])
         kind == IF d \in Foreign THEN "distribute" ELSE "original"
         new == {[kind |-> kind, id |-> id, src |-> d, from |-> d, to |-> e, hop |-> 1] : e \in to}
     IN  net' = net \cup new /\ sent' = sent \cup new
  /\ due' = [due EXCEPT ![id] = IF UniformMasks /\ \A b \in Bbmds : bdt[b] = Bbmds
                                THEN {e \in Devices \ {d} : e \in Foreign => Registered(e)}
                                ELSE {}]
  /\ UNCHANGED <<unicast, bdt, leaseVars>>

\* bvlc_receive of a broadcast, original or forwarded
Receive(p) ==
  /\ p \in net
  /\ net' = (net \ {p}) \cup Forwards(p) /\ sent' = sent \cup Forwards(p)
  /\ UNCHANGED <<unicast, bdt, due, leaseVars>>

Lose(p) ==
  /\ p \in net /\ net' = net \ {p}
  /\ due' = [due EXCEPT ![p.id] = {}]
  /\ UNCHANGED <<unicast, bdt, sent, leaseVars>>

----------------------------------------------------------------------------
(* Tables *)

Undue(fs) == [id \in Ids |-> due[id] \ fs]

\* Write-Broadcast-Distribution-Table (bvlc_create_bdt)
WriteBdt(b, table) ==
  /\ bdt' = [bdt EXCEPT ![b] = table]
  /\ due' = Undue(Devices)
  /\ UNCHANGED <<unicast, net, sent, leaseVars>>

\* The BBMD loses its power, and with it both tables.
Restart(b) ==
  /\ bdt' = [bdt EXCEPT ![b] = {}]
  /\ fdt' = [fdt EXCEPT ![b] = [f \in Foreign |-> 0]]
  /\ heard' = [f \in Foreign |-> heard[f] /\ Home[f] # b]
  /\ due' = Undue(Devices)
  /\ UNCHANGED <<unicast, net, sent, timer, reg>>

\* Delete-Foreign-Device-Table-Entry (bvlc_delete_foreign_device)
DeleteEntry(f) ==
  /\ fdt' = [fdt EXCEPT ![Home[f]][f] = 0]
  /\ heard' = [heard EXCEPT ![f] = FALSE]
  /\ due' = Undue({f})
  /\ UNCHANGED <<unicast, bdt, net, sent, timer, reg>>

\* Mutant of Fdt: a registration of a device that is there leaves its time.
FdtKept(f) == IF Registered(f) THEN fdt ELSE [fdt EXCEPT ![Home[f]][f] = Ttl + Grace]

\* The table with an entry of f that is new or lives anew
Fdt(f) == [fdt EXCEPT ![Home[f]][f] = Ttl + Grace]

Room(f) == Registered(f) \/ Cardinality(Entries(Home[f])) < MaxFds

\* bvlc_register_foreign_device. A table that is full has no room for f.
Register(f) ==
  /\ reg[f] # None /\ reg' = [reg EXCEPT ![f] = None]
  /\ fdt' = IF Room(f) THEN Fdt(f) ELSE fdt
  /\ heard' = [heard EXCEPT ![f] = Room(f)]
  /\ UNCHANGED <<unicast, bdt, timer, packetVars>>

LoseRegistration(f) ==
  /\ reg[f] # None /\ reg' = [reg EXCEPT ![f] = None]
  /\ heard' = [heard EXCEPT ![f] = FALSE]
  /\ UNCHANGED <<unicast, bdt, fdt, timer, packetVars>>

----------------------------------------------------------------------------
(* Time *)

\* Mutant of TimerAfter: the registration is not renewed.
TimerOnce(f) == IF timer[f] > 0 THEN timer[f] - 1 ELSE 0

\* dlenv_maintenance_timer: registers again when the time to live is over
TimerAfter(f) == IF timer[f] = 1 THEN Ttl ELSE timer[f] - 1

\* A second passes: dlenv_maintenance_timer of the foreign devices and
\* bvlc_maintenance_timer of the BBMDs
Second ==
  /\ \A f \in Foreign : reg[f] # 0
  /\ timer' = [f \in Foreign |-> TimerAfter(f)]
  /\ reg' = [f \in Foreign |-> IF timer[f] = 1 THEN MaxDelay
                               ELSE IF reg[f] = None THEN None ELSE reg[f] - 1]
  /\ fdt' = [d \in Devices |-> [f \in Foreign |-> IF fdt[d][f] > 0 THEN fdt[d][f] - 1 ELSE 0]]
  /\ due' = Undue({f \in Foreign : fdt[Home[f]][f] = 1})
  /\ UNCHANGED <<unicast, bdt, net, sent, heard>>

----------------------------------------------------------------------------
\* The tables are empty when the power comes. The foreign devices have been
\* started (dlenv_init) some time ago, in vain until now.
Init ==
  /\ unicast \in UnicastSets
  /\ bdt = [d \in Devices |-> {}]
  /\ fdt = [d \in Devices |-> [f \in Foreign |-> 0]]
  /\ timer \in [Foreign -> 1..Ttl] /\ reg = [f \in Foreign |-> None]
  /\ net = {} /\ sent = {} /\ due = [id \in Ids |-> {}]
  /\ heard = [f \in Foreign |-> FALSE]

Next ==
  \/ \E d \in Devices, id \in Ids : Broadcast(d, id)
  \/ \E p \in net : Receive(p) \/ Lose(p)
  \/ \E b \in Bbmds : Restart(b) \/ \E table \in Tables : WriteBdt(b, table)
  \/ \E f \in Foreign : Register(f) \/ LoseRegistration(f) \/ DeleteEntry(f)
  \/ Second

Spec == Init /\ [][Next]_vars

\* Clocks do not stop, and a registration that is sent for ever is received
\* at last.
FairSpec == Spec /\ WF_vars(Second) /\ \A f \in Foreign : SF_vars(Register(f))

----------------------------------------------------------------------------
(* Properties *)

TypeOK ==
  /\ unicast \subseteq Bbmds
  /\ bdt \in [Devices -> SUBSET Bbmds] /\ \A d \in Devices \ Bbmds : bdt[d] = {}
  /\ fdt \in [Devices -> [Foreign -> 0..(Ttl + Grace)]]
  /\ \A d \in Devices, f \in Foreign : fdt[d][f] > 0 => d = Home[f]
  /\ timer \in [Foreign -> 1..Ttl] /\ reg \in [Foreign -> 0..MaxDelay \cup {None}]
  /\ net \subseteq sent /\ sent \subseteq Packets
  /\ due \in [Ids -> SUBSET Devices] /\ heard \in [Foreign -> BOOLEAN]

\* What a device is about to send was not sent before: every copy is there once.
SentOnce == \A p \in net : Forwards(p) \cap sent = {}

\* When all the masks are unicast or all are not, no device that is neither a
\* BBMD nor foreign receives a broadcast twice, though BBMDs hear their own
\* broadcasts and all run the same code, whatever tables they have at the
\* moment. (bvlc_bdt_member_mask_is_unicast looks at the mask of the sender.)
DeliveredOnce == UniformMasks =>
  /\ SentOnce
  /\ \A p, q \in sent : p.to \in Ordinary /\ p.to = q.to /\ p.id = q.id => p = q

\* Broadcasts do not circulate: no copy of one goes through more than four
\* devices, whatever the tables and masks.
CrossesFourLinks == \A p \in sent : p.hop <= 4

\* When the copies of a broadcast have all arrived, everybody has received one
\* who should: all devices of the subnets, and the foreign ones that stayed
\* registered. Nothing is said of one that had a copy lost or a table changed
\* under way.
ReachesAllDue ==
  \A id \in Ids : (\A p \in net : p.id # id) =>
    \A d \in due[id] : \E p \in sent : p.id = id /\ p.to = d

\* A foreign device whose last registration arrived is in the table, until the
\* next one is there: it renews in time, though it counts its time to live
\* from when it sends and the BBMD from when it receives.
StaysRegistered == \A f \in Foreign : heard[f] => Registered(f)

\* However often registrations are lost and BBMDs restart or are told to delete
\* entries, a foreign device is in the table again and again, unless that is
\* full of others.
RegisteredAgain ==
  \A f \in Foreign :
    []<>(Registered(f) \/ Cardinality(Entries(Home[f])) >= MaxFds)
=============================================================================
