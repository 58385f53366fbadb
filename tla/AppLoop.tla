------------------------------ MODULE AppLoop ------------------------------
(***************************************************************************)
(* The main loop of the application (resumeApp of src/sys/App.sedona) and  *)
(* the native code that runs it (src/vm/main.c): a scan of the components, *)
(* passes over the services for as long as the scan period leaves time,    *)
(* then hibernation, yield or sleep.  A call to a service or to the        *)
(* components may ask the application to hibernate, quit or restart, and   *)
(* may add or delete services while the loop walks their linked list.      *)
(*                                                                         *)
(* Time is the number of ticks that are left until the deadline of the     *)
(* current scan period; it is negative when the scan is late.              *)
(***************************************************************************)
EXTENDS Integers, Sequences, FiniteSets, SequencesExt, Functions

CONSTANTS
  Services,    \* the services there may be
  ScanPeriod,  \* App.scanPeriod in ticks
  GuardTime,   \* App.guardTime in ticks
  MaxScan,     \* bound: ticks one execution of the components takes
  MaxWork,     \* bound: ticks one call of work takes
  MaxLag,      \* bound: a scan that is later than this counts as this late
  Platforms,   \* what platform.yieldRequired may answer
  Requests,    \* the actions of App that are invoked
  Null         \* the end of the list of services

ASSUME AppLoopAssumption ==
  /\ ScanPeriod \in Nat /\ GuardTime \in Nat
  /\ MaxScan \in Nat /\ MaxWork \in Nat \ {0} /\ MaxLag \in Nat
  /\ Requests \subseteq {"hibernate", "quit", "restart"}
  /\ Platforms \subseteq BOOLEAN /\ Platforms # {}
  /\ Null \notin Services /\ IsFiniteSet(Services)

VARIABLES
  pc,           \* where the thread of the virtual machine is
  running,      \* App.running
  runStatus,    \* App.runStatus: "ok", "hibernate", "restart" or "yield"
  left,         \* deadline - Sys.ticks()
  services,     \* App.services
  next,         \* the service whose work is called next, or Null
  more,         \* the locals more and canHibernate of resumeApp
  canHibernate,
  busy,         \* the services whose canHibernate is false
  asleep,       \* those told onHibernate and not yet onUnhibernate
  owed,         \* those whose work was not called since the last scan
  asked,        \* the requests that were made and not yet served
  yields        \* platform.yieldRequired of this device

vars == <<pc, running, runStatus, left, services, next, more, canHibernate,
          busy, asleep, owed, asked, yields>>
locals == <<more, canHibernate>>

\* The services of an application that is loaded, the last one at the head.
Loaded == {s \in SeqOf(Services, Cardinality(Services)) : s # << >> /\ IsInjective(s)}
Place(list, s) == CHOOSE i \in DOMAIN list : list[i] = s

Init ==
  /\ pc = "resume"
  /\ running = FALSE /\ runStatus = "ok"
  /\ left = 0
  /\ services \in Loaded
  /\ next = Null
  /\ more = FALSE /\ canHibernate = FALSE
  /\ busy = {} /\ asleep = {} /\ owed = {} /\ asked = {}
  /\ yields \in Platforms

Spend(d) == IF left - d < -MaxLag THEN -MaxLag ELSE left - d

(* What a call into the components or a service does to the loop: it may   *)
(* invoke one of the actions of App, add a service at the head of the list *)
(* or delete one other than itself.                                        *)
Ask(r) ==
  /\ asked' = asked \cup {r}
  /\ running' = IF r \in {"quit", "restart"} THEN FALSE ELSE running
  /\ runStatus' = IF r = "quit" THEN runStatus ELSE r
Calls(caller) ==
  \/ UNCHANGED <<services, running, runStatus, asked>>
  \/ /\ \E r \in Requests \ asked : Ask(r)
     /\ UNCHANGED services
  \/ /\ \E s \in Services \ Range(services) : services' = <<s>> \o services
     /\ UNCHANGED <<running, runStatus, asked>>
  \/ /\ \E s \in Range(services) \ {caller} : services' = RemoveAt(services, Place(services, s))
     /\ UNCHANGED <<running, runStatus, asked>>

(* The entry of resumeApp, from the start or from vmResume.                *)
StillAsleep == asleep
Woken == IF runStatus = "hibernate" THEN asleep \ Range(services) ELSE asleep
Resume ==
  /\ pc = "resume"
  /\ asleep' = Woken
  /\ asked' = asked \ {"hibernate"}
  /\ running' = TRUE /\ runStatus' = "ok"
  /\ left' = 0
  /\ pc' = "cycle"
  /\ UNCHANGED <<services, next, locals, busy, owed, yields>>

(* executeTree, after the deadline has moved by one scan period.           *)
Execute ==
  /\ pc = "cycle" /\ running
  /\ Calls(Null)
  /\ \E d \in 0..MaxScan : left' = Spend(d) + ScanPeriod
  /\ owed' = Range(services')
  /\ more' = TRUE /\ canHibernate' = TRUE
  /\ pc' = "work"
  /\ UNCHANGED <<next, busy, asleep, yields>>

(* The loop over the services: "while (more && running)".                  *)
HeadService == IF services = << >> THEN Null ELSE Head(services)
StartPass ==
  /\ pc = "work"
  /\ IF more /\ running
     THEN pc' = "pass" /\ more' = FALSE /\ next' = HeadService
     ELSE pc' = "end" /\ UNCHANGED <<more, next>>
  /\ UNCHANGED <<running, runStatus, left, services, canHibernate, busy, asleep, owed, asked, yields>>

(* s.nextService, read after s.work() has run.                             *)
After(list, s) ==
  LET i == Place(list, s) IN IF i = Len(list) THEN Null ELSE list[i + 1]
NextInTime(s) == IF left' < GuardTime THEN Null ELSE After(services', s)
NextService(s) == After(services', s)

(* s.work() and s.canHibernate() of the service the walk is at; a service  *)
(* with more work to do has used some time.                                *)
Work ==
  /\ pc = "pass" /\ next # Null
  /\ Calls(next)
  /\ \E m \in BOOLEAN, d \in 0..MaxWork :
       /\ m => d > 0
       /\ more' = (more \/ m)
       /\ left' = Spend(d)
  /\ \E b \in SUBSET {next} : busy' = ((busy \ {next}) \cap Range(services')) \cup b
  /\ canHibernate' = (canHibernate /\ next \notin busy')
  /\ owed' = (owed \cap Range(services')) \ {next}
  /\ next' = NextService(next)
  /\ UNCHANGED <<pc, asleep, yields>>

(* The end of a pass.  workDuringFreeTime of the platform may ask for      *)
(* another one, and waits some time before it.                             *)
MustStopWhenDone == left < GuardTime /\ ~more
MustStopLate == left < 0
MustStop == left < GuardTime
EndPass ==
  /\ pc = "pass" /\ next = Null
  /\ runStatus' = IF canHibernate THEN "hibernate" ELSE runStatus
  /\ \/ /\ MustStop
        /\ pc' = "end"
        /\ UNCHANGED <<left, more>>
     \/ /\ ~MustStop
        /\ pc' = "work"
        /\ UNCHANGED <<left, more>>
     \/ /\ ~MustStop /\ left - 1 >= GuardTime
        /\ pc' = "work"
        /\ left' = left - 1 /\ more' = TRUE
  /\ UNCHANGED <<running, services, next, canHibernate, busy, asleep, owed, asked, yields>>

(* The end of the cycle: hibernation comes before yield, yield before      *)
(* sleep, which returns at once when the scan is late.                     *)
EndCycle ==
  /\ pc = "end"
  /\ \/ /\ runStatus = "hibernate"
        /\ asleep' = asleep \cup Range(services)
        /\ pc' = "returned"
        /\ UNCHANGED <<runStatus, left>>
     \/ /\ runStatus # "hibernate" /\ yields
        /\ runStatus' = "yield"
        /\ pc' = "returned"
        /\ UNCHANGED <<left, asleep>>
     \/ /\ runStatus # "hibernate" /\ ~yields
        /\ left' = IF left > 0 THEN 0 ELSE left
        /\ pc' = "cycle"
        /\ UNCHANGED <<runStatus, asleep>>
  /\ UNCHANGED <<running, services, next, locals, busy, owed, asked, yields>>

(* "while (running)" ends and resumeApp returns runStatus.                 *)
Return ==
  /\ pc = "cycle" /\ ~running
  /\ pc' = "returned"
  /\ UNCHANGED <<running, runStatus, left, services, next, locals, busy, asleep, owed, asked, yields>>

(* Sys.shutdown and main.c: the heap stays for a hibernate or a yield and  *)
(* the machine is resumed; every other result stops the application.       *)
Native ==
  /\ pc = "returned"
  /\ pc' = IF runStatus \in {"hibernate", "yield"} THEN "resume" ELSE "stopped"
  /\ UNCHANGED <<running, runStatus, left, services, next, locals, busy, asleep, owed, asked, yields>>

(* A machine that stopped is started again, by main.c or by hand.          *)
Restart ==
  /\ pc = "stopped"
  /\ pc' = "resume"
  /\ running' = FALSE /\ runStatus' = "ok" /\ left' = 0
  /\ services' \in Loaded
  /\ next' = Null /\ more' = FALSE /\ canHibernate' = FALSE
  /\ busy' = {} /\ asleep' = {} /\ owed' = {} /\ asked' = {}
  /\ UNCHANGED yields

Next ==
  \/ Resume \/ Execute \/ StartPass \/ Work \/ EndPass
  \/ EndCycle \/ Return \/ Native \/ Restart

(* The thread of the machine never stops in between.                       *)
Spec == Init /\ [][Next]_vars /\ WF_vars(Next)

-----------------------------------------------------------------------------
(* Each variable of the loop holds a value of its type.                    *)
TypeOK ==
  /\ pc \in {"resume", "cycle", "work", "pass", "end", "returned", "stopped"}
  /\ running \in BOOLEAN
  /\ runStatus \in {"ok", "hibernate", "restart", "yield"}
  /\ left \in (-MaxLag)..ScanPeriod
  /\ IsInjective(services) /\ Range(services) \subseteq Services
  /\ next \in Range(services) \cup {Null}
  /\ more \in BOOLEAN /\ canHibernate \in BOOLEAN
  /\ busy \subseteq Services /\ asleep \subseteq Services /\ owed \subseteq Services
  /\ asked \subseteq Requests /\ yields \in Platforms

(* Every service that lasts from a scan to the end of its cycle was given  *)
(* a chance to work, however late the scan is and whatever the services    *)
(* before it added to or deleted from the list ("give each service a       *)
(* chance to do background work"); only a quit cuts a cycle short.         *)
EveryServiceWorks ==
  pc = "end" => owed \cap Range(services) = {} \/ ~running

(* No service works and no component executes between onHibernate and      *)
(* onUnhibernate of a service.                                             *)
AwakeWhileRunning ==
  pc \in {"cycle", "work", "pass", "end"} => asleep = {}

(* When a pass over the services fits into the guard time, and a scan and  *)
(* a pass into the scan period, every cycle ends on time: the guard time   *)
(* keeps the passes in between from starting too late.                     *)
Pass == Cardinality(Services) * MaxWork
ScanOnTime ==
  Pass <= GuardTime /\ MaxScan + Pass <= ScanPeriod => (pc = "end" => left >= 0)

(* The components are scanned again and again until the machine stops,     *)
(* although services may always have more work.                            *)
ScansRecur == []<>(pc \in {"cycle", "stopped"})
=============================================================================
