------------------------ MODULE ServiceLoop_proofs ------------------------
(***************************************************************************)
(* Proofs about the main loop of the device and about the events that one  *)
(* of the services it runs, the Sox service, sends: AppLoop for any        *)
(* services, periods and bounds on the time they take, and whatever the    *)
(* components and the services ask for; SoxEvents for any components,      *)
(* categories and window, over a network that loses and repeats packets.   *)
(***************************************************************************)
EXTENDS AppLoop, SoxEvents, FiniteSetTheorems, SequenceTheorems, TLAPS

\* A service is asleep only from the onHibernate loop to the onUnhibernate loop of
\* the next resumeApp; until then runStatus still says hibernate, which is all that
\* resumeApp has to go by, and the service is still in the list that it walks.
HibernateHolds ==
  asleep # {} => /\ pc \in {"returned", "resume"}
                 /\ runStatus = "hibernate"
                 /\ asleep \subseteq Range(services)

\* Nothing is asleep when the machine starts (runApp).
LEMMA InitAwake == Init => HibernateHolds
BY DEF Init, HibernateHolds

\* Each step of the loop and of main.c keeps runStatus and the list of services as
\* the onUnhibernate loop needs them.
LEMMA NextKeepsHibernate == HibernateHolds /\ [Next]_vars => HibernateHolds'
<1> SUFFICES ASSUME HibernateHolds, [Next]_vars
             PROVE  HibernateHolds'
  OBVIOUS
<1>1. CASE Resume
  <2>1. asleep' = {}
    BY <1>1 DEF Resume, Woken, HibernateHolds
  <2> QED
    BY <2>1 DEF HibernateHolds
<1>2. CASE Execute
  BY <1>2 DEF Execute, HibernateHolds
<1>3. CASE StartPass
  BY <1>3 DEF StartPass, HibernateHolds
<1>4. CASE Work
  BY <1>4 DEF Work, HibernateHolds
<1>5. CASE EndPass
  BY <1>5 DEF EndPass, HibernateHolds
<1>6. CASE EndCycle
  <2>1. asleep = {}
    BY <1>6 DEF EndCycle, HibernateHolds
  <2>2. CASE runStatus = "hibernate"
    BY <1>6, <2>1, <2>2 DEF EndCycle, HibernateHolds
  <2>3. CASE runStatus # "hibernate"
    BY <1>6, <2>1, <2>3 DEF EndCycle, HibernateHolds
  <2> QED
    BY <2>2, <2>3
<1>7. CASE Return
  BY <1>7 DEF Return, HibernateHolds
<1>8. CASE Native
  BY <1>8 DEF Native, HibernateHolds
<1>9. CASE Restart
  BY <1>9 DEF Restart, HibernateHolds
<1>10. CASE UNCHANGED vars
  BY <1>10 DEF vars, HibernateHolds
<1> QED
  BY <1>1, <1>2, <1>3, <1>4, <1>5, <1>6, <1>7, <1>8, <1>9, <1>10 DEF Next

\* No service works and no component executes while a service has been told that the
\* application hibernates: each onHibernate is undone before resumeApp scans again,
\* whatever was asked for, added or deleted in the cycle that led to it.
THEOREM NeverScansAsleep == Spec => []AwakeWhileRunning
<1>1. HibernateHolds => AwakeWhileRunning
  BY DEF HibernateHolds, AwakeWhileRunning
<1> QED
  BY <1>1, InitAwake, NextKeepsHibernate, PTL DEF Spec
-----------------------------------------------------------------------------
(* The list of services while the loop walks it                             *)

\* The list has each service once, and the walk is at one of them or at its end.
ListTypes ==
  /\ services \in Seq(Services) /\ IsInjective(services)
  /\ next \in Range(services) \cup {Null} /\ (pc # "pass" => next = Null)
  /\ left \in Int

\* A pass leaves behind it no service that is owed a chance to work: those that are
\* are where the walk is, or after it, whatever was added or deleted on the way.
OwedAhead ==
  /\ owed \subseteq Range(services)
  /\ pc = "pass" =>
       /\ next = Null => owed = {}
       /\ \A i, j \in 1..Len(services) :
            services[i] = next /\ services[j] \in owed => i <= j
  /\ pc = "work" /\ ~more => owed = {}
  /\ pc = "end" => owed = {} \/ ~running

\* There is time for what is left of a pass, and for a whole one before each starts.
Fits == Pass <= GuardTime /\ MaxScan + Pass <= ScanPeriod
TimeForRest ==
  Fits => /\ pc \in {"cycle", "end"} => left >= 0
          /\ pc = "work" => left >= Pass
          /\ pc = "pass" =>
               /\ next = Null => left >= 0
               /\ \A i \in 1..Len(services) :
                    services[i] = next => left >= (Len(services) - i + 1) * MaxWork

LoopInv == ListTypes /\ OwedAhead /\ TimeForRest

-----------------------------------------------------------------------------
(* Lemmas about the list                                                    *)

\* What Place finds.
LEMMA PlaceIs ==
  ASSUME NEW q \in Seq(Services), IsInjective(q), NEW i \in 1..Len(q)
  PROVE  Place(q, q[i]) = i
<1>1. DOMAIN q = 1..Len(q)
  OBVIOUS
<1>2. \A j \in 1..Len(q) : q[j] = q[i] => j = i
  BY <1>1 DEF IsInjective
<1> QED
  BY <1>1, <1>2 DEF Place

\* What taking one service out leaves (App.remove).
LEMMA RemoveAtIs ==
  ASSUME NEW q \in Seq(Services), IsInjective(q), NEW p \in 1..Len(q)
  PROVE  LET r == RemoveAt(q, p)
         IN  /\ r \in Seq(Services) /\ IsInjective(r) /\ Len(r) = Len(q) - 1
             /\ \A j \in 1..Len(r) : r[j] = IF j < p THEN q[j] ELSE q[j + 1]
<1> DEFINE r == RemoveAt(q, p)
<1>1. /\ r \in Seq(Services) /\ Len(r) = Len(q) - 1
      /\ \A j \in 1..Len(r) : r[j] = IF j < p THEN q[j] ELSE q[j + 1]
  <2> DEFINE a == SubSeq(q, 1, p - 1)
             b == SubSeq(q, p + 1, Len(q))
  <2>1. Len(q) \in Nat /\ p \in Int /\ 1 <= p /\ p <= Len(q)
    OBVIOUS
  <2>2. /\ a \in Seq(Services) /\ Len(a) = p - 1
        /\ \A j \in 1..(p - 1) : a[j] = q[j]
    BY <2>1
  <2>3. /\ b \in Seq(Services) /\ Len(b) = Len(q) - p
        /\ \A j \in 1..(Len(q) - p) : b[j] = q[j + p]
    BY <2>1
  <2>4. r = a \o b
    BY DEF RemoveAt
  <2> HIDE DEF a, b, r
  <2>5. r \in Seq(Services) /\ Len(r) = Len(q) - 1
    BY <2>1, <2>2, <2>3, <2>4
  <2>6. ASSUME NEW j \in 1..Len(r)
        PROVE  r[j] = IF j < p THEN q[j] ELSE q[j + 1]
    <3>1. CASE j < p
      BY <2>1, <2>2, <2>3, <2>4, <2>5, <3>1
    <3>2. CASE ~(j < p)
      <4>1. j - (p - 1) \in 1..(Len(q) - p) /\ j - (p - 1) + p = j + 1
        BY <2>1, <2>5, <3>2
      <4>2. r[j] = b[j - (p - 1)]
        BY <2>1, <2>2, <2>3, <2>4, <2>5, <3>2
      <4> QED
        BY <2>3, <3>2, <4>1, <4>2
    <3> QED
      BY <3>1, <3>2
  <2> QED
    BY <2>5, <2>6
<1>2. /\ DOMAIN q = 1..Len(q) /\ Len(q) \in Nat
      /\ DOMAIN r = 1..Len(r)
  BY <1>1
<1>3. IsInjective(r)
  <2> SUFFICES ASSUME NEW a \in 1..Len(r), NEW b \in 1..Len(r), r[a] = r[b]
               PROVE  a = b
    BY <1>2 DEF IsInjective
  <2> DEFINE at(j) == IF j < p THEN j ELSE j + 1
  <2> HIDE DEF r
  <2>1. /\ at(a) \in 1..Len(q) /\ at(b) \in 1..Len(q)
        /\ r[a] = q[at(a)] /\ r[b] = q[at(b)]
    BY <1>1, <1>2
  <2>2. at(a) = at(b)
    BY <1>2, <2>1 DEF IsInjective
  <2> QED
    BY <2>2
<1> QED
  BY <1>1, <1>3

\* What adding one at the head leaves (App.insert).
LEMMA PushIs ==
  ASSUME NEW q \in Seq(Services), IsInjective(q), NEW s \in Services \ Range(q)
  PROVE  LET r == <<s>> \o q
         IN  /\ r \in Seq(Services) /\ IsInjective(r) /\ Len(r) = Len(q) + 1
             /\ r[1] = s /\ \A j \in 1..Len(q) : r[j + 1] = q[j]
<1> DEFINE r == <<s>> \o q
<1>1. /\ r \in Seq(Services) /\ Len(r) = Len(q) + 1 /\ r[1] = s
      /\ \A j \in 1..Len(q) : r[j + 1] = q[j]
  OBVIOUS
<1>2. /\ DOMAIN q = 1..Len(q) /\ Len(q) \in Nat
      /\ DOMAIN r = 1..Len(r)
  BY <1>1
<1>3. IsInjective(r)
  <2> SUFFICES ASSUME NEW a \in 1..Len(r), NEW b \in 1..Len(r), r[a] = r[b], a < b
               PROVE  FALSE
    BY <1>1, <1>2 DEF IsInjective
  <2> HIDE DEF r
  <2>1. b - 1 \in 1..Len(q) /\ r[b] = q[b - 1]
    BY <1>1, <1>2
  <2>2. CASE a = 1
    BY <1>1, <1>2, <2>1, <2>2 DEF Range
  <2>3. CASE a # 1
    <3>1. a - 1 \in 1..Len(q) /\ r[a] = q[a - 1]
      BY <1>1, <1>2, <2>3
    <3> QED
      BY <1>2, <2>1, <3>1 DEF IsInjective
  <2> QED
    BY <2>2, <2>3
<1> QED
  BY <1>1, <1>3

\* No list is longer than there are services.
LEMMA ListIsShort ==
  ASSUME NEW q \in Seq(Services), IsInjective(q)
  PROVE  Len(q) <= Cardinality(Services) /\ Cardinality(Services) \in Nat
<1>1. q \in [1..Len(q) -> Services] /\ Len(q) \in Nat
  OBVIOUS
<1>2. q \in Injection(1..Len(q), Services)
  BY <1>1 DEF Injection
<1>3. IsFiniteSet(Services)
  BY AppLoopAssumption
<1>4. Cardinality(1..Len(q)) <= Cardinality(Services)
  BY <1>2, <1>3, FS_Injection
<1>5. Cardinality(1..Len(q)) = Len(q)
  <2> DEFINE n == Len(q)
  <2>1. n \in Int /\ 1 \in Int /\ n >= 0
    BY <1>1
  <2> HIDE DEF n
  <2>2. Cardinality(1..n) = IF 1 > n THEN 0 ELSE n - 1 + 1
    BY ONLY <2>1, FS_Interval
  <2>3. Cardinality(1..n) = n
    BY <2>1, <2>2
  <2> QED
    BY <2>3 DEF n
<1> QED
  BY <1>3, <1>4, <1>5, FS_CardinalityType

\* A call of the service the walk is at moves it in the list, but what was after it
\* and is still there stays after it, and nothing else comes to be after it.
LEMMA CallsKeepOrder ==
  ASSUME ListTypes, NEW i \in 1..Len(services), Calls(services[i])
  PROVE  /\ services' \in Seq(Services) /\ IsInjective(services')
         /\ \E k \in 1..Len(services') :
              /\ services'[k] = services[i]
              /\ Len(services') - k <= Len(services) - i
              /\ \A j \in 1..Len(services), n \in 1..Len(services') :
                   services[j] = services'[n] /\ i < j => k < n
<1>1. services \in Seq(Services) /\ IsInjective(services) /\ Len(services) \in Nat
  BY DEF ListTypes
<1>2. DOMAIN services = 1..Len(services)
  BY <1>1
<1>3. CASE services' = services
  BY <1>1, <1>2, <1>3 DEF IsInjective
<1>4. CASE \E s \in Services \ Range(services) : services' = <<s>> \o services
  <2>1. PICK s \in Services \ Range(services) : services' = <<s>> \o services
    BY <1>4
  <2>2. /\ services' \in Seq(Services) /\ IsInjective(services')
        /\ Len(services') = Len(services) + 1 /\ services'[1] = s
        /\ \A j \in 1..Len(services) : services'[j + 1] = services[j]
    BY <1>1, <2>1, PushIs
  <2>3. i + 1 \in 1..Len(services') /\ DOMAIN services' = 1..Len(services')
    BY <1>1, <2>2
  <2>4. \A j \in 1..Len(services), n \in 1..Len(services') :
           services[j] = services'[n] /\ i < j => i + 1 < n
    <3> SUFFICES ASSUME NEW j \in 1..Len(services), NEW n \in 1..Len(services'),
                        services[j] = services'[n], i < j
                 PROVE  i + 1 < n
      OBVIOUS
    <3>1. j + 1 \in 1..Len(services') /\ services'[j + 1] = services'[n]
      BY <1>1, <2>2
    <3>2. n = j + 1
      BY <2>2, <2>3, <3>1 DEF IsInjective
    <3> QED
      BY <3>2
  <2>5. Len(services') - (i + 1) <= Len(services) - i /\ services'[i + 1] = services[i]
    BY <1>1, <2>2
  <2> QED
    BY <2>2, <2>3, <2>4, <2>5
<1>5. CASE \E s \in Range(services) \ {services[i]} :
             services' = RemoveAt(services, Place(services, s))
  <2>1. PICK p \in 1..Len(services) : p # i /\ services' = RemoveAt(services, p)
    <3>1. PICK s \in Range(services) \ {services[i]} :
                 services' = RemoveAt(services, Place(services, s))
      BY <1>5
    <3>2. PICK p \in 1..Len(services) : services[p] = s
      BY <1>2 DEF Range
    <3> QED
      BY <1>1, <3>1, <3>2, PlaceIs
  <2>2. /\ services' \in Seq(Services) /\ IsInjective(services')
        /\ Len(services') = Len(services) - 1
        /\ \A j \in 1..Len(services') :
             services'[j] = IF j < p THEN services[j] ELSE services[j + 1]
    BY <1>1, <2>1, RemoveAtIs
  <2> DEFINE k == IF i < p THEN i ELSE i - 1
  <2>3. k \in 1..Len(services') /\ services'[k] = services[i]
    BY <1>1, <2>1, <2>2
  <2>4. Len(services') - k <= Len(services) - i
    BY <1>1, <2>1, <2>2
  <2>5. \A j \in 1..Len(services), n \in 1..Len(services') :
           services[j] = services'[n] /\ i < j => k < n
    <3> SUFFICES ASSUME NEW j \in 1..Len(services), NEW n \in 1..Len(services'),
                        services[j] = services'[n], i < j
                 PROVE  k < n
      OBVIOUS
    <3> DEFINE at == IF n < p THEN n ELSE n + 1
    <3>1. at \in 1..Len(services) /\ services[at] = services[j]
      BY <1>1, <2>1, <2>2
    <3>2. at = j
      BY <1>1, <1>2, <3>1 DEF IsInjective
    <3> QED
      BY <1>1, <2>1, <2>2, <3>2
  <2> HIDE DEF k
  <2> QED
    BY <2>2, <2>3, <2>4, <2>5
<1> QED
  BY <1>3, <1>4, <1>5 DEF Calls

-----------------------------------------------------------------------------
(* The invariant                                                            *)

\* More time than services is no less than the time for fewer of them.
LEMMA MoreServicesTakeLonger ==
  ASSUME NEW a \in Nat, NEW b \in Nat, a <= b
  PROVE  a * MaxWork <= b * MaxWork /\ a * MaxWork \in Nat /\ b * MaxWork \in Nat
<1>1. MaxWork \in Nat
  BY AppLoopAssumption
<1>2. b - a \in Nat /\ b = a + (b - a)
  OBVIOUS
<1>3. (b - a) * MaxWork >= 0
  BY <1>1, <1>2
<1>4. b * MaxWork = a * MaxWork + (b - a) * MaxWork
  BY <1>1, <1>2
<1>5. a * MaxWork \in Nat /\ b * MaxWork \in Nat /\ (b - a) * MaxWork \in Nat
  BY <1>1, <1>2
<1> QED
  BY <1>3, <1>4, <1>5

\* Time spent is what was left less what was used, or a scan too late to count.
LEMMA SpendIs ==
  ASSUME left \in Int, NEW d \in Nat
  PROVE  Spend(d) \in Int /\ Spend(d) >= left - d
<1>1. MaxLag \in Nat
  BY AppLoopAssumption
<1> QED
  BY <1>1 DEF Spend

\* The application that is loaded has each of its services once.
LEMMA LoadedIs == ASSUME NEW q \in Loaded PROVE q \in Seq(Services) /\ IsInjective(q)
<1>1. IsFiniteSet(Services)
  BY AppLoopAssumption
<1>2. Cardinality(Services) \in Nat
  BY <1>1, FS_CardinalityType
<1> QED
  BY <1>2 DEF Loaded, SeqOf

LEMMA InitLoop == Init => LoopInv
<1> SUFFICES ASSUME Init PROVE LoopInv
  OBVIOUS
<1>1. ListTypes
  BY LoadedIs DEF Init, ListTypes
<1> QED
  BY <1>1 DEF Init, LoopInv, OwedAhead, TimeForRest

\* What a scan asks of the services, and how long it takes.
LEMMA ExecuteKeepsLoop == ASSUME LoopInv, Execute PROVE LoopInv'
<1>1. ListTypes /\ left \in Int
  BY DEF LoopInv, ListTypes
<1>2. services' \in Seq(Services) /\ IsInjective(services')
  <2>1. services \in Seq(Services) /\ IsInjective(services)
    BY <1>1 DEF ListTypes
  <2>2. CASE services' = services
    BY <2>1, <2>2
  <2>3. CASE \E s \in Services \ Range(services) : services' = <<s>> \o services
    BY <2>1, <2>3, PushIs
  <2>4. CASE \E s \in Range(services) \ {Null} :
               services' = RemoveAt(services, Place(services, s))
    <3>1. PICK s \in Range(services) : services' = RemoveAt(services, Place(services, s))
      BY <2>4
    <3>2. PICK p \in 1..Len(services) : services[p] = s
      BY <2>1 DEF Range
    <3> QED
      BY <2>1, <3>1, <3>2, PlaceIs, RemoveAtIs
  <2> QED
    BY <2>2, <2>3, <2>4 DEF Execute, Calls
<1>3. left' \in Int /\ left' >= left - MaxScan + ScanPeriod
  <2>1. PICK d \in 0..MaxScan : left' = Spend(d) + ScanPeriod
    BY DEF Execute
  <2>2. d \in Nat /\ d <= MaxScan /\ MaxScan \in Nat /\ ScanPeriod \in Nat
    BY AppLoopAssumption
  <2>3. Spend(d) \in Int /\ Spend(d) >= left - d
    BY <1>1, <2>2, SpendIs
  <2> QED
    BY <1>1, <2>1, <2>2, <2>3
<1>4. ListTypes'
  BY <1>1, <1>2, <1>3 DEF Execute, ListTypes
<1>5. OwedAhead'
  BY DEF Execute, OwedAhead
<1>6. TimeForRest'
  <2>1. Fits' = Fits /\ Pass' = Pass
    BY DEF Fits, Pass
  <2>2. ASSUME Fits PROVE left' >= Pass
    <3>1. left >= 0
      BY <2>2 DEF LoopInv, TimeForRest, Execute
    <3>2. Pass \in Int /\ MaxScan \in Int /\ ScanPeriod \in Int
      <4>1. Cardinality(Services) \in Nat /\ MaxWork \in Nat
        BY AppLoopAssumption, FS_CardinalityType
      <4> QED
        BY <4>1, AppLoopAssumption DEF Pass
    <3> QED
      BY <1>1, <1>3, <2>2, <3>1, <3>2 DEF Fits
  <2> QED
    BY <2>1, <2>2 DEF TimeForRest, Execute
<1> QED
  BY <1>4, <1>5, <1>6 DEF LoopInv

\* A pass begins at the head, with all services owed a chance to work and time for them.
LEMMA StartPassKeepsLoop == ASSUME LoopInv, StartPass PROVE LoopInv'
<1>1. /\ services \in Seq(Services) /\ IsInjective(services) /\ left \in Int
      /\ pc = "work" /\ next = Null
  BY DEF LoopInv, ListTypes, StartPass
<1>2. UNCHANGED <<services, left, owed, running>>
  BY DEF StartPass
<1>3. CASE more /\ running
  <2>1. pc' = "pass" /\ next' = HeadService
    BY <1>3 DEF StartPass
  <2>2. \/ services = << >> /\ HeadService = Null /\ Range(services) = {}
        \/ /\ 1 \in 1..Len(services) /\ HeadService = services[1]
           /\ services[1] \in Services /\ services[1] \in Range(services)
    BY <1>1 DEF HeadService, Range
  <2>3. ListTypes'
    BY <1>1, <1>2, <2>1, <2>2 DEF ListTypes
  <2>4. Null \notin Services /\ Len(services) \in Nat /\ DOMAIN services = 1..Len(services)
    BY <1>1, AppLoopAssumption
  <2>5. \A i \in 1..Len(services) : services[i] = HeadService => i = 1
    BY <1>1, <2>2, <2>4 DEF IsInjective
  <2>6. OwedAhead'
    <3>1. owed \subseteq Range(services)
      BY DEF LoopInv, OwedAhead
    <3> QED
      BY <1>2, <2>1, <2>2, <2>4, <2>5, <3>1 DEF OwedAhead
  <2>7. TimeForRest'
    <3>1. Fits' = Fits /\ Pass' = Pass
      BY DEF Fits, Pass
    <3>2. ASSUME Fits
          PROVE  /\ left >= 0 /\ left >= Len(services) * MaxWork
      <4>1. left >= Pass
        BY <1>1, <3>2 DEF LoopInv, TimeForRest
      <4>2. Len(services) <= Cardinality(Services) /\ Cardinality(Services) \in Nat
        BY <1>1, ListIsShort
      <4>3. Len(services) * MaxWork <= Pass /\ Len(services) * MaxWork \in Nat /\ Pass \in Nat
        BY <2>4, <4>2, MoreServicesTakeLonger DEF Pass
      <4> QED
        BY <1>1, <4>1, <4>3
    <3>3. ASSUME Fits, NEW i \in 1..Len(services), services[i] = HeadService
          PROVE  left >= (Len(services) - i + 1) * MaxWork
      <4>1. i = 1 /\ Len(services) - i + 1 = Len(services)
        BY <2>4, <2>5, <3>3
      <4> QED
        BY <3>2, <3>3, <4>1
    <3> QED
      BY <1>2, <2>1, <3>1, <3>2, <3>3 DEF TimeForRest
  <2> QED
    BY <2>3, <2>6, <2>7 DEF LoopInv
<1>4. CASE ~(more /\ running)
  <2>1. pc' = "end" /\ next' = next
    BY <1>4 DEF StartPass
  <2>2. ListTypes'
    BY <1>1, <1>2, <2>1 DEF ListTypes
  <2>3. OwedAhead'
    BY <1>1, <1>2, <1>4, <2>1 DEF LoopInv, OwedAhead
  <2>4. TimeForRest'
    <3>1. Fits' = Fits /\ Pass' = Pass
      BY DEF Fits, Pass
    <3>2. Pass \in Nat
      <4>1. IsFiniteSet(Services) /\ MaxWork \in Nat
        BY AppLoopAssumption
      <4>2. Cardinality(Services) \in Nat
        BY <4>1, FS_CardinalityType
      <4> QED
        BY <4>1, <4>2 DEF Pass
    <3> QED
      BY <1>1, <1>2, <2>1, <3>1, <3>2 DEF LoopInv, TimeForRest
  <2> QED
    BY <2>2, <2>3, <2>4 DEF LoopInv
<1> QED
  BY <1>3, <1>4

\* The walk goes on with the service after the one that worked, from the list as that
\* one left it.
LEMMA WorkKeepsLoop == ASSUME LoopInv, Work PROVE LoopInv'
<1>1. /\ services \in Seq(Services) /\ IsInjective(services) /\ left \in Int
      /\ pc = "pass" /\ pc' = "pass" /\ next # Null /\ next \in Range(services)
  BY DEF LoopInv, ListTypes, Work
<1>2. PICK i \in 1..Len(services) : services[i] = next
  BY <1>1 DEF Range
<1>3. Calls(services[i]) /\ ListTypes
  BY <1>2 DEF Work, LoopInv
<1>4. services' \in Seq(Services) /\ IsInjective(services')
  BY <1>3, CallsKeepOrder
<1>5. PICK k \in 1..Len(services') :
        /\ services'[k] = services[i]
        /\ Len(services') - k <= Len(services) - i
        /\ \A j \in 1..Len(services), n \in 1..Len(services') :
             services[j] = services'[n] /\ i < j => k < n
  BY <1>3, CallsKeepOrder
<1>6. /\ Len(services) \in Nat /\ Len(services') \in Nat
      /\ DOMAIN services = 1..Len(services) /\ DOMAIN services' = 1..Len(services')
      /\ \A n \in 1..Len(services') : services'[n] \in Services
      /\ Null \notin Services
  BY <1>1, <1>4, AppLoopAssumption
<1>7. next' = IF k = Len(services') THEN Null ELSE services'[k + 1]
  <2>1. Place(services', services'[k]) = k
    BY <1>4, PlaceIs
  <2> QED
    BY <1>2, <1>5, <2>1 DEF Work, NextService, After
<1>8. \/ k = Len(services') /\ next' = Null
      \/ k + 1 \in 1..Len(services') /\ next' = services'[k + 1] /\ next' # Null
  <2>1. CASE k # Len(services')
    <3>1. k + 1 \in 1..Len(services')
      <4> DEFINE n == Len(services')
      <4>1. n \in Nat /\ k \in 1..n /\ k # n
        BY <1>6, <2>1
      <4> HIDE DEF n
      <4>2. k + 1 \in 1..n
        BY ONLY <4>1
      <4> QED
        BY <4>2 DEF n
    <3>2. services'[k + 1] \in Services
      BY <1>6, <3>1
    <3> QED
      BY <1>6, <1>7, <2>1, <3>1, <3>2
  <2> QED
    BY <1>7, <2>1
<1>9. PICK d \in 0..MaxWork : left' = Spend(d)
  BY DEF Work
<1>10. left' \in Int /\ left' >= left - MaxWork /\ MaxWork \in Nat
  <2>1. d \in Nat /\ d <= MaxWork /\ MaxWork \in Nat
    BY AppLoopAssumption
  <2>2. Spend(d) \in Int /\ Spend(d) >= left - d
    BY <1>1, <2>1, SpendIs
  <2> QED
    BY <1>1, <1>9, <2>1, <2>2
<1>11. ListTypes'
  BY <1>1, <1>4, <1>6, <1>8, <1>10 DEF ListTypes, Range
<1>12. OwedAhead'
  <2>1. owed' = (owed \cap Range(services')) \ {next}
    BY DEF Work
  <2>2. ASSUME NEW n \in 1..Len(services'), services'[n] \in owed'
        PROVE  k < n
    <3>1. services'[n] \in owed /\ services'[n] # next
      BY <2>1, <2>2
    <3>2. PICK j \in 1..Len(services) : services[j] = services'[n]
      BY <1>6, <3>1 DEF LoopInv, OwedAhead, Range
    <3>3. i <= j
      BY <1>1, <1>2, <3>1, <3>2 DEF LoopInv, OwedAhead
    <3>4. i < j
      BY <1>2, <1>6, <3>1, <3>2, <3>3
    <3> QED
      BY <1>5, <3>2, <3>4
  <2>3. next' = Null => owed' = {}
    <3>1. ASSUME next' = Null, NEW s \in owed' PROVE FALSE
      <4>1. PICK n \in 1..Len(services') : services'[n] = s
        BY <1>6, <2>1, <3>1 DEF Range
      <4> QED
        BY <1>6, <1>8, <2>2, <3>1, <4>1
    <3> QED
      BY <3>1
  <2>4. ASSUME NEW m \in 1..Len(services'), NEW n \in 1..Len(services'),
               services'[m] = next', services'[n] \in owed'
        PROVE  m <= n
    <3>1. k + 1 \in 1..Len(services') /\ next' = services'[k + 1]
      BY <1>6, <1>8, <2>4
    <3>2. m = k + 1
      BY <1>4, <1>6, <2>4, <3>1 DEF IsInjective
    <3> QED
      BY <1>6, <2>2, <2>4, <3>2
  <2> QED
    BY <1>1, <2>1, <2>3, <2>4 DEF OwedAhead
<1>13. TimeForRest'
  <2>1. Fits' = Fits /\ Pass' = Pass
    BY DEF Fits, Pass
  <2> DEFINE rest == Len(services') - k
             old == Len(services) - i
  <2>2. ASSUME Fits PROVE left' >= rest * MaxWork /\ rest * MaxWork \in Nat
    <3>1. left >= (old + 1) * MaxWork
      BY <1>1, <1>2, <2>2 DEF LoopInv, TimeForRest
    <3>2. rest \in Nat /\ old \in Nat /\ rest <= old
      BY <1>5, <1>6
    <3> HIDE DEF rest, old
    <3>3. (old + 1) * MaxWork = old * MaxWork + MaxWork
      BY <1>10, <3>2
    <3>4. rest * MaxWork <= old * MaxWork /\ rest * MaxWork \in Nat /\ old * MaxWork \in Nat
      BY <3>2, MoreServicesTakeLonger
    <3> QED
      BY <1>1, <1>10, <3>1, <3>3, <3>4
  <2>3. ASSUME Fits, next' = Null PROVE left' >= 0
    BY <1>10, <2>2, <2>3
  <2>4. ASSUME Fits, NEW m \in 1..Len(services'), services'[m] = next'
        PROVE  left' >= (Len(services') - m + 1) * MaxWork
    <3>1. k + 1 \in 1..Len(services') /\ next' = services'[k + 1]
      BY <1>6, <1>8, <2>4
    <3>2. m = k + 1
      BY <1>4, <1>6, <2>4, <3>1 DEF IsInjective
    <3>3. Len(services') - m + 1 = rest
      BY <1>6, <3>2
    <3> QED
      BY <2>2, <2>4, <3>3
  <2> QED
    BY <1>1, <2>1, <2>3, <2>4 DEF TimeForRest
<1> QED
  BY <1>11, <1>12, <1>13 DEF LoopInv

\* Another pass begins only with the guard time left.
LEMMA EndPassKeepsLoop == ASSUME LoopInv, EndPass PROVE LoopInv'
<1>1. /\ services \in Seq(Services) /\ IsInjective(services) /\ left \in Int
      /\ pc = "pass" /\ next = Null /\ owed = {}
  BY DEF LoopInv, ListTypes, OwedAhead, EndPass
<1>2. UNCHANGED <<services, next, owed, running>>
  BY DEF EndPass
<1>3. \/ pc' = "end" /\ left' = left
      \/ pc' = "work" /\ left' = left /\ left >= GuardTime
      \/ pc' = "work" /\ left' = left - 1 /\ left - 1 >= GuardTime
  <2>1. GuardTime \in Nat
    BY AppLoopAssumption
  <2> QED
    BY <1>1, <2>1 DEF EndPass, MustStop
<1>4. ListTypes'
  BY <1>1, <1>2, <1>3 DEF ListTypes
<1>5. OwedAhead'
  BY <1>1, <1>2, <1>3 DEF OwedAhead
<1>6. TimeForRest'
  <2>1. Fits' = Fits /\ Pass' = Pass
    BY DEF Fits, Pass
  <2>2. Pass \in Nat /\ GuardTime \in Nat
    <3>1. IsFiniteSet(Services) /\ MaxWork \in Nat /\ GuardTime \in Nat
      BY AppLoopAssumption
    <3>2. Cardinality(Services) \in Nat
      BY <3>1, FS_CardinalityType
    <3> QED
      BY <3>1, <3>2 DEF Pass
  <2>3. Fits => left >= 0 /\ Pass <= GuardTime
    BY <1>1 DEF LoopInv, TimeForRest, Fits
  <2> QED
    BY <1>1, <1>3, <2>1, <2>2, <2>3 DEF TimeForRest
<1> QED
  BY <1>4, <1>5, <1>6 DEF LoopInv

LEMMA OtherStepsKeepLoop ==
  ASSUME LoopInv, Resume \/ EndCycle \/ Return \/ Native \/ Restart \/ UNCHANGED vars
  PROVE  LoopInv'
<1>1. Fits' = Fits /\ Pass' = Pass
  BY DEF Fits, Pass
<1>2. CASE Resume
  BY <1>1, <1>2 DEF Resume, LoopInv, ListTypes, OwedAhead, TimeForRest, locals
<1>3. CASE EndCycle
  BY <1>1, <1>3 DEF EndCycle, LoopInv, ListTypes, OwedAhead, TimeForRest, locals
<1>4. CASE Return \/ Native
  BY <1>1, <1>4 DEF Return, Native, LoopInv, ListTypes, OwedAhead, TimeForRest, locals
<1>5. CASE Restart
  <2>1. services' \in Seq(Services) /\ IsInjective(services')
    BY <1>5, LoadedIs DEF Restart
  <2> QED
    BY <1>1, <1>5, <2>1 DEF Restart, LoopInv, ListTypes, OwedAhead, TimeForRest
<1>6. CASE UNCHANGED vars
  BY <1>1, <1>6 DEF vars, LoopInv, ListTypes, OwedAhead, TimeForRest
<1> QED
  BY <1>2, <1>3, <1>4, <1>5, <1>6

\* The walk over the services and its deadline, whatever the services do.
THEOREM LoopIsInvariant == Spec => []LoopInv
<1>1. LoopInv /\ [Next]_vars => LoopInv'
  BY ExecuteKeepsLoop, StartPassKeepsLoop, WorkKeepsLoop, EndPassKeepsLoop,
     OtherStepsKeepLoop DEF Next
<1> QED
  BY <1>1, InitLoop, PTL DEF Spec

\* "Give each service a chance to do background work": each service that lasts from the
\* scan to the end of the cycle worked in it, however late the scan is, and whatever the
\* others added to the list or deleted from it, unless the loop was told to stop.
THEOREM NoServiceIsSkipped == Spec => []EveryServiceWorks
<1>1. LoopInv => EveryServiceWorks
  BY DEF LoopInv, OwedAhead, EveryServiceWorks
<1> QED
  BY <1>1, LoopIsInvariant, PTL

\* When the guard time covers a pass, and the scan period a scan and a pass, no cycle
\* ends late, however many passes there are in it and however the list grows.
THEOREM GuardTimeSuffices == Spec => []ScanOnTime
<1>1. LoopInv => ScanOnTime
  BY DEF LoopInv, TimeForRest, Fits, ScanOnTime
<1> QED
  BY <1>1, LoopIsInvariant, PTL

-----------------------------------------------------------------------------
(* The events of the Sox service *)

\* A packet in a slot of the send window, and a copy of one on its way.
Slot == [n : Nat, comp : Comps, kind : Kinds \cup {"response"}]
Copy == [n : Nat, comp : Comps, kind : Kinds \cup {"response"}, v : Int]
Of(p) == <<p.comp, p.kind>>

EventTypes ==
  /\ value \in [Flags -> Nat] /\ view \in [Flags -> Int]
  /\ sub \subseteq Flags /\ lastComp \in Comps
  /\ packets \subseteq Slot /\ net \in Seq(Copy)
  /\ req \in [op : {"none", "subscribe", "unsubscribe", "allTree", "noTree"}, comp : Comps,
              kind : Kinds \cup {"tree"}, at : {"sent", "served", "answered"}]
  /\ req.op = "subscribe" => <<req.comp, req.kind>> \in Flags

\* Numbers are taken in order.
EventNumbers ==
  /\ seqNum \in Nat
  /\ \A p \in packets : p.n <= seqNum
  /\ \A i \in DOMAIN net : net[i].n <= seqNum
  /\ seen \subseteq 0..seqNum

\* The client has processed packet n, or does so before it sees place i of the network.
Behind(i, n) == n \in seen \/ \E h \in 1..i : net[h].n = n

\* Packet n tells the client what f is now: it was sent after the last change, no copy
\* behind it is older, and when the client has processed it the client is up to date.
Told(f, n) ==
  /\ n \in seen => view[f] = value[f]
  /\ n \notin seen => \E p \in packets : p.n = n
  /\ \A p \in packets : p.n = n => Of(p) = f
  /\ \A i \in DOMAIN net : net[i].n = n => Of(net[i]) = f
  /\ \A i \in DOMAIN net : Of(net[i]) = f /\ Behind(i, n) => net[i].v = value[f]

Settled == \A f \in sub : f[1] \in exists /\ f \notin event => \E n \in 1..seqNum : Told(f, n)
EventsInv == EventTypes /\ EventNumbers /\ Settled

LEMMA EventKinds ==
  /\ KindOrder \in Seq({"tree", "config", "runtime", "links"}) /\ "response" \notin Kinds
  /\ NumComps \in Nat \ {0} /\ MaxNet \in Nat /\ Comps = 0..(NumComps - 1) /\ 0 \in Comps
  /\ \A f \in Flags : f[1] \in Comps /\ f[2] \in Kinds /\ f = <<f[1], f[2]>>
<1>1. KindOrder \in Seq({"tree", "config", "runtime", "links"})
  BY EventSizes
<1>2. \A j \in DOMAIN KindOrder : KindOrder[j] \in {"tree", "config", "runtime", "links"}
  BY <1>1
<1>3. "response" \notin Kinds
  BY <1>2 DEF Kinds
<1>4. /\ NumComps \in Nat \ {0} /\ MaxNet \in Nat /\ Comps = 0..(NumComps - 1) /\ 0 \in Comps
  BY EventSizes DEF Comps
<1>5. \A f \in Flags : f[1] \in Comps /\ f[2] \in Kinds /\ f = <<f[1], f[2]>>
  BY DEF Flags
<1> QED BY <1>1, <1>3, <1>4, <1>5

\* What exceeds the bound on packets in flight is lost from the end.
LEMMA FitIs ==
  ASSUME NEW S, NEW s \in Seq(S)
  PROVE  /\ Fit(s) \in Seq(S) /\ Len(Fit(s)) \in Nat /\ Len(Fit(s)) <= Len(s) /\ Len(s) \in Nat
         /\ DOMAIN Fit(s) = 1..Len(Fit(s))
         /\ \A i \in 1..Len(Fit(s)) : i \in 1..Len(s) /\ Fit(s)[i] = s[i]
<1> DEFINE k == IF Len(s) <= MaxNet THEN Len(s) ELSE MaxNet
<1>1. Len(s) \in Nat /\ k \in 0..Len(s)
  BY LenProperties, EventKinds
<1>2. Fit(s) = SubSeq(s, 1, k)
  BY DEF Fit
<1> HIDE DEF k
<1>3. /\ SubSeq(s, 1, k) \in Seq(S) /\ Len(SubSeq(s, 1, k)) = k
      /\ \A i \in 1..k : SubSeq(s, 1, k)[i] = s[i]
  BY <1>1
<1>4. DOMAIN SubSeq(s, 1, k) = 1..k
  BY <1>3, LenProperties
<1> QED BY <1>1, <1>2, <1>3, <1>4

\* What is sent is put behind what is on its way.
LEMMA SentBehind ==
  ASSUME net \in Seq(Copy), NEW new \in Seq(Copy), net' = Fit(net \o new)
  PROVE  /\ net' \in Seq(Copy) /\ Len(net) \in Nat /\ DOMAIN net = 1..Len(net)
         /\ Len(net') \in Nat /\ DOMAIN net' = 1..Len(net')
         /\ \A i \in DOMAIN net' :
              \/ i \in DOMAIN net /\ net'[i] = net[i]
              \/ i > Len(net) /\ i - Len(net) \in DOMAIN new /\ net'[i] = new[i - Len(net)]
<1> DEFINE s == net \o new
<1>1. /\ s \in Seq(Copy) /\ Len(s) = Len(net) + Len(new)
      /\ \A i \in 1..(Len(net) + Len(new)) :
           s[i] = IF i <= Len(net) THEN net[i] ELSE new[i - Len(net)]
  BY ConcatProperties
<1>2. /\ Len(net) \in Nat /\ Len(new) \in Nat /\ DOMAIN net = 1..Len(net) /\ DOMAIN new = 1..Len(new)
  BY LenProperties
<1> HIDE DEF s
<1>3. /\ net' \in Seq(Copy) /\ Len(net') \in Nat /\ DOMAIN net' = 1..Len(net')
      /\ \A i \in 1..Len(net') : i \in 1..Len(s) /\ net'[i] = s[i]
  BY <1>1, FitIs DEF s
<1>4. ASSUME NEW i \in DOMAIN net'
      PROVE  \/ i \in DOMAIN net /\ net'[i] = net[i]
             \/ i > Len(net) /\ i - Len(net) \in DOMAIN new /\ net'[i] = new[i - Len(net)]
  <2>1. i \in 1..(Len(net) + Len(new)) /\ net'[i] = s[i]
    BY <1>1, <1>3
  <2> QED BY <1>1, <1>2, <2>1
<1> QED BY <1>2, <1>3, <1>4

\* A packet that tells goes on telling when others are sent behind it.
LEMMA TellsAfterSending ==
  ASSUME net \in Seq(Copy), NEW new \in Seq(Copy), net' = Fit(net \o new),
         NEW f, NEW n, Told(f, n),
         UNCHANGED seen, value'[f] = value[f], view'[f] = view[f],
         n \notin seen => \E p \in packets' : p.n = n,
         \A p \in packets' : p.n = n => Of(p) = f,
         \A i \in DOMAIN new : /\ new[i].n = n => Of(new[i]) = f
                               /\ Of(new[i]) = f => new[i].v = value[f]
  PROVE  Told(f, n)'
<1>1. /\ Len(net) \in Nat /\ DOMAIN net = 1..Len(net) /\ Len(net') \in Nat /\ DOMAIN net' = 1..Len(net')
      /\ \A i \in DOMAIN net' :
           \/ i \in DOMAIN net /\ net'[i] = net[i]
           \/ i > Len(net) /\ i - Len(net) \in DOMAIN new /\ net'[i] = new[i - Len(net)]
  BY SentBehind
<1>2. ASSUME NEW i \in DOMAIN net' PROVE net'[i].n = n => Of(net'[i]) = f
  BY <1>1 DEF Told
<1>3. ASSUME NEW i \in DOMAIN net', Of(net'[i]) = f, Behind(i, n)'
      PROVE  net'[i].v = value[f]
  <2>1. CASE i \in DOMAIN net /\ net'[i] = net[i]
    <3>1. \A h \in 1..i : h \in DOMAIN net /\ h \in DOMAIN net' /\ ~(h > Len(net))
      BY <1>1, <2>1
    <3>2. \A h \in 1..i : net'[h] = net[h]
      BY <1>1, <3>1
    <3>3. Behind(i, n)
      BY <1>3, <3>2 DEF Behind
    <3> QED BY <1>3, <2>1, <3>3 DEF Told
  <2>2. CASE i - Len(net) \in DOMAIN new /\ net'[i] = new[i - Len(net)]
    BY <1>3, <2>2
  <2> QED BY <1>1, <2>1, <2>2
<1>4. (\A i \in DOMAIN net : Of(net[i]) = f /\ Behind(i, n) => net[i].v = value[f])'
  BY <1>3
<1> QED BY <1>2, <1>4 DEF Told

\* Nothing is sent, received or forgotten.
LEMMA TellsStill ==
  ASSUME NEW f, NEW n, Told(f, n), UNCHANGED <<seen, packets, net>>,
         value'[f] = value[f], view'[f] = view[f]
  PROVE  Told(f, n)'
BY DEF Told, Behind

\* openWatch and reset leave nothing subscribed.
LEMMA InitEvents == EventsInit => EventsInv
<1> SUFFICES ASSUME EventsInit PROVE EventsInv
  OBVIOUS
<1>1. net = <<>> /\ net \in Seq(Copy) /\ DOMAIN net = {}
  BY DEF EventsInit
<1>2. EventTypes
  BY <1>1, EventKinds DEF EventsInit, EventTypes, Idle
<1>3. EventNumbers
  BY <1>1 DEF EventsInit, EventNumbers
<1> QED BY <1>2, <1>3 DEF EventsInv, Settled, EventsInit

\* Component.changed sets the event bit of what changed.
LEMMA ChangeKeeps ==
  ASSUME EventsInv, NEW g \in Flags, Change(g)
  PROVE  EventsInv'
<1>1. /\ value' = [value EXCEPT ![g] = @ + 1] /\ event' = event \cup {g}
      /\ UNCHANGED <<exists, sub, view, lastComp, seqNum, packets, net, seen, req>>
  BY DEF Change, window, cache
<1>2. value' \in [Flags -> Nat] /\ \A f \in Flags : f # g => value'[f] = value[f]
  BY <1>1 DEF EventsInv, EventTypes
<1>3. EventTypes' /\ EventNumbers'
  BY <1>1, <1>2 DEF EventsInv, EventTypes, EventNumbers
<1>4. Settled'
  <2> SUFFICES ASSUME NEW f \in sub, f[1] \in exists, f \notin event, f # g
               PROVE  \E n \in 1..seqNum : Told(f, n)'
    BY <1>1 DEF Settled
  <2>1. PICK n \in 1..seqNum : Told(f, n)
    BY DEF EventsInv, Settled
  <2>2. value'[f] = value[f] /\ view'[f] = view[f]
    BY <1>1, <1>2 DEF EventsInv, EventTypes
  <2>3. Told(f, n)'
    BY <1>1, <2>1, <2>2, TellsStill
  <2> QED BY <2>3
<1> QED BY <1>3, <1>4 DEF EventsInv

\* App.remove, and what the client does between packets, leave the rest as it is.
LEMMA OthersKeep ==
  ASSUME EventsInv, UNCHANGED <<value, view, lastComp, seqNum, packets, net, seen>>,
         sub' \subseteq sub, exists' \subseteq exists,
         \A f \in sub' : f[1] \in exists' /\ f \in event => f \in event',
         req' \in [op : {"none", "subscribe", "unsubscribe", "allTree", "noTree"}, comp : Comps,
                   kind : Kinds \cup {"tree"}, at : {"sent", "served", "answered"}],
         req'.op = "subscribe" => <<req'.comp, req'.kind>> \in Flags
  PROVE  EventsInv'
<1>1. EventTypes' /\ EventNumbers'
  BY DEF EventsInv, EventTypes, EventNumbers
<1>2. Settled'
  <2> SUFFICES ASSUME NEW f \in sub', f[1] \in exists', f \notin event'
               PROVE  \E n \in 1..seqNum' : Told(f, n)'
    BY DEF Settled
  <2>1. f \in sub /\ f[1] \in exists /\ f \notin event
    OBVIOUS
  <2>2. PICK n \in 1..seqNum : Told(f, n)
    BY <2>1 DEF EventsInv, Settled
  <2>3. Told(f, n)'
    BY <2>2, TellsStill
  <2> QED BY <2>3
<1> QED BY <1>1, <1>2 DEF EventsInv

LEMMA ClientKeeps ==
  ASSUME EventsInv,
         \/ \E f \in Flags : Subscribe(f) \/ Unsubscribe(f)
         \/ \E c \in Comps : RemoveComp(c)
         \/ SubscribeAllTree \/ UnsubscribeAllTree \/ Finish
         \/ UNCHANGED eventVars
  PROVE  EventsInv'
<1> DEFINE Reqs == [op : {"none", "subscribe", "unsubscribe", "allTree", "noTree"}, comp : Comps,
                    kind : Kinds \cup {"tree"}, at : {"sent", "served", "answered"}]
<1>1. req \in Reqs /\ (req.op = "subscribe" => <<req.comp, req.kind>> \in Flags)
  BY DEF EventsInv, EventTypes
<1>2. ASSUME NEW f \in Flags, Subscribe(f) \/ Unsubscribe(f) PROVE EventsInv'
  <2>1. PICK op \in {"subscribe", "unsubscribe"} :
             req' = [op |-> op, comp |-> f[1], kind |-> f[2], at |-> "sent"]
    BY <1>2 DEF Subscribe, Unsubscribe, Request
  <2>2. f[1] \in Comps /\ f[2] \in Kinds /\ <<f[1], f[2]>> \in Flags
    BY EventKinds
  <2>3. req' \in Reqs /\ <<req'.comp, req'.kind>> \in Flags
    BY <2>1, <2>2
  <2>4. UNCHANGED <<value, view, lastComp, seqNum, packets, net, seen, sub, exists, event>>
    BY <1>2 DEF Subscribe, Unsubscribe, Request, app, flags, window, cache
  <2> QED BY <2>3, <2>4, OthersKeep
<1>3. ASSUME SubscribeAllTree \/ UnsubscribeAllTree PROVE EventsInv'
  <2>1. PICK op \in {"allTree", "noTree"} :
             req' = [op |-> op, comp |-> <<0, "tree">>[1], kind |-> <<0, "tree">>[2], at |-> "sent"]
    BY <1>3 DEF SubscribeAllTree, UnsubscribeAllTree, Request
  <2>2. req' \in Reqs /\ req'.op # "subscribe"
    BY <2>1, EventKinds
  <2>3. UNCHANGED <<value, view, lastComp, seqNum, packets, net, seen, sub, exists, event>>
    BY <1>3 DEF SubscribeAllTree, UnsubscribeAllTree, Request, app, flags, window, cache
  <2> QED BY <2>2, <2>3, OthersKeep
<1>4. ASSUME NEW c \in Comps, RemoveComp(c) PROVE EventsInv'
  <2>1. /\ UNCHANGED <<value, view, lastComp, seqNum, packets, net, seen, req>>
        /\ sub' \subseteq sub /\ exists' \subseteq exists /\ c \notin exists'
        /\ event' = {f \in event : f[1] # c}
    BY <1>4 DEF RemoveComp, window, cache
  <2> QED BY <1>1, <2>1, OthersKeep
<1>5. ASSUME Finish PROVE EventsInv'
  <2>1. UNCHANGED <<value, view, lastComp, seqNum, packets, net, seen, sub, exists, event>>
    BY <1>5 DEF Finish, app, flags, window
  <2>2. req' \in Reqs /\ req'.op # "subscribe"
    BY <1>5, EventKinds DEF Finish, Idle
  <2> QED BY <2>1, <2>2, OthersKeep
<1>6. ASSUME UNCHANGED eventVars PROVE EventsInv'
  <2>1. UNCHANGED <<value, view, lastComp, seqNum, packets, net, seen, sub, exists, event, req>>
    BY <1>6 DEF eventVars, app, flags, window, cache
  <2> QED BY <1>1, <2>1, OthersKeep
<1> QED BY <1>2, <1>3, <1>4, <1>5, <1>6

\* close and a new client: the slot starts again with nothing subscribed.
LEMMA ReopenKeeps == ASSUME EventsInv, Reopen PROVE EventsInv'
<1>1. /\ UNCHANGED <<value, lastComp>> /\ sub' = {} /\ packets' = {} /\ seqNum' = 0 /\ net' = <<>>
      /\ view' = [f \in Flags |-> -1] /\ seen' = {} /\ req' = Idle
  BY DEF Reopen, app
<1>2. net' \in Seq(Copy) /\ DOMAIN net' = {}
  BY <1>1
<1>3. EventTypes'
  BY <1>1, <1>2, EventKinds DEF EventsInv, EventTypes, Idle
<1>4. EventNumbers' /\ Settled'
  BY <1>1, <1>2 DEF EventNumbers, Settled
<1> QED BY <1>3, <1>4 DEF EventsInv

\* eventRes writes the state of the moment.
LEMMA EncodeIs ==
  ASSUME EventTypes, NEW p \in Slot
  PROVE  /\ Encode(p) \in Copy /\ Encode(p).n = p.n /\ Of(Encode(p)) = Of(p)
         /\ \A f \in Flags : Of(p) = f /\ f[1] \in exists => Encode(p).v = value[f]
<1>1. p.n \in Nat /\ p.comp \in Comps /\ p.kind \in Kinds \cup {"response"}
  BY DEF Slot
<1>2. p.kind # "response" => <<p.comp, p.kind>> \in Flags
  BY <1>1 DEF Flags
<1>3. value \in [Flags -> Nat]
  BY DEF EventTypes
<1>4. /\ Encode(p).n = p.n /\ Encode(p).comp = p.comp /\ Encode(p).kind = p.kind
      /\ Encode(p) = [n |-> p.n, comp |-> p.comp, kind |-> p.kind, v |-> Encode(p).v]
      /\ Encode(p).v = IF p.kind = "response" \/ p.comp \notin exists THEN -1
                       ELSE value[<<p.comp, p.kind>>]
  BY DEF Encode
<1>5. Encode(p).v \in Int
  BY <1>2, <1>3, <1>4
<1>6. Encode(p) \in Copy
  BY <1>1, <1>4, <1>5 DEF Copy
<1>7. Of(Encode(p)) = Of(p)
  BY <1>4 DEF Of
<1>8. ASSUME NEW f \in Flags, Of(p) = f, f[1] \in exists PROVE Encode(p).v = value[f]
  <2>1. p.kind # "response" /\ p.comp \in exists /\ <<p.comp, p.kind>> = f
    BY <1>8, EventKinds DEF Of
  <2> QED BY <1>4, <2>1
<1> QED BY <1>4, <1>6, <1>7, <1>8

\* checkForEvents clears the bits of what it sends, and what it sends is the state of
\* the moment under numbers of its own.
LEMMA CheckForEventsKeeps == ASSUME EventsInv, CheckForEvents PROVE EventsInv'
<1>0. PICK i \in 0..(NumComps - 1) :
        \E fired \in Fired(Scan(i)) :
        LET c   == Scan(i)
            new == [j \in DOMAIN fired |-> [n |-> seqNum + j, comp |-> c, kind |-> fired[j]]]
        IN /\ packets' = packets \cup {new[j] : j \in DOMAIN new}
           /\ seqNum' = seqNum + Len(new)
           /\ event' = event \ {<<c, fired[j]>> : j \in DOMAIN fired}
           /\ net' = Fit(net \o [j \in DOMAIN new |-> Encode(new[j])])
           /\ lastComp' = c
           /\ UNCHANGED <<app, sub, allTree, cache, req, requests, session>>
  BY DEF CheckForEvents
<1>1. PICK fired \in Fired(Scan(i)) :
        LET c   == Scan(i)
            new == [j \in DOMAIN fired |-> [n |-> seqNum + j, comp |-> c, kind |-> fired[j]]]
        IN /\ packets' = packets \cup {new[j] : j \in DOMAIN new}
           /\ seqNum' = seqNum + Len(new)
           /\ event' = event \ {<<c, fired[j]>> : j \in DOMAIN fired}
           /\ net' = Fit(net \o [j \in DOMAIN new |-> Encode(new[j])])
           /\ lastComp' = c
           /\ UNCHANGED <<app, sub, allTree, cache, req, requests, session>>
  BY <1>0
<1> DEFINE c == Scan(i)
           m == Len(fired)
           new == [j \in 1..m |-> [n |-> seqNum + j, comp |-> c, kind |-> fired[j]]]
           added == [j \in 1..m |-> Encode(new[j])]
<1>2. m \in Nat /\ DOMAIN fired = 1..m /\ \A j \in 1..m : fired[j] \in Kinds
  <2>1. Len(KindOrder) \in Nat
    BY EventKinds, LenProperties
  <2>2. PICK k \in 0..Len(KindOrder) : fired \in [1..k -> Pending(c)]
    BY DEF Fired, SeqOf
  <2>3. k \in Nat /\ Pending(c) \subseteq Kinds
    BY <2>1 DEF Pending
  <2>4. fired \in [1..k -> Kinds]
    BY <2>2, <2>3
  <2>5. fired \in Seq(Kinds)
    BY <2>3, <2>4, IsASeq
  <2>6. Len(fired) \in Nat /\ DOMAIN fired = 1..Len(fired)
    BY <2>5, LenProperties
  <2> QED BY <2>4, <2>6
<1>3. /\ packets' = packets \cup {new[j] : j \in 1..m} /\ seqNum' = seqNum + Len(new)
      /\ event' = event \ {<<c, fired[j]>> : j \in 1..m} /\ net' = Fit(net \o added) /\ lastComp' = c
      /\ UNCHANGED <<value, exists, sub, view, seen, req>>
  BY <1>1, <1>2 DEF app, cache
<1>4. c \in Comps
  <2>1. lastComp + 1 + i \in Nat /\ NumComps \in Nat \ {0}
    BY EventKinds DEF EventsInv, EventTypes
  <2>2. (lastComp + 1 + i) % NumComps \in 0..(NumComps - 1)
    BY <2>1
  <2> QED BY <2>2, EventKinds DEF Scan
<1> HIDE DEF c
<1>5. seqNum \in Nat /\ seen \subseteq 0..seqNum /\ \A p \in packets : p.n <= seqNum
  BY DEF EventsInv, EventNumbers
<1>6. /\ \A j \in 1..m : new[j] = [n |-> seqNum + j, comp |-> c, kind |-> fired[j]]
      /\ \A j \in 1..m : new[j] \in Slot /\ new[j].n = seqNum + j /\ Of(new[j]) = <<c, fired[j]>>
  BY <1>2, <1>4, <1>5 DEF Slot, Of
<1>7. Len(new) = m
  BY <1>2, <1>6, IsASeq
<1> HIDE DEF new
<1>8. /\ \A j \in 1..m : added[j] = Encode(new[j])
      /\ \A j \in 1..m : added[j] \in Copy /\ added[j].n = seqNum + j /\ Of(added[j]) = <<c, fired[j]>>
      /\ \A j \in 1..m : \A f \in Flags : Of(added[j]) = f /\ f[1] \in exists => added[j].v = value[f]
  <2>1. \A j \in 1..m : added[j] = Encode(new[j])
    OBVIOUS
  <2> HIDE DEF added
  <2> QED BY <1>6, <2>1, EncodeIs DEF EventsInv
<1>9. added \in Seq(Copy) /\ DOMAIN added = 1..m
  BY <1>2, <1>8, IsASeq
<1> HIDE DEF added, m
<1>10. /\ net' \in Seq(Copy) /\ Len(net) \in Nat /\ DOMAIN net = 1..Len(net)
       /\ Len(net') \in Nat /\ DOMAIN net' = 1..Len(net')
       /\ \A k \in DOMAIN net' :
            \/ k \in DOMAIN net /\ net'[k] = net[k]
            \/ k > Len(net) /\ k - Len(net) \in DOMAIN added /\ net'[k] = added[k - Len(net)]
  BY <1>3, <1>9, SentBehind DEF EventsInv, EventTypes
<1>11. EventTypes'
  BY <1>3, <1>4, <1>6, <1>10 DEF EventsInv, EventTypes
<1>12. EventNumbers'
  <2>1. seqNum' \in Nat /\ seqNum <= seqNum' /\ \A j \in 1..m : seqNum + j <= seqNum'
    BY <1>2, <1>3, <1>5, <1>7
  <2>2. \A p \in packets' : p.n <= seqNum'
    <3> SUFFICES ASSUME NEW p \in packets' PROVE p.n <= seqNum'
      OBVIOUS
    <3>1. CASE p \in packets
      <4>1. p.n \in Nat
        BY <3>1 DEF EventsInv, EventTypes, Slot
      <4> QED BY <1>5, <2>1, <3>1, <4>1
    <3>2. CASE \E j \in 1..m : p = new[j]
      BY <1>6, <2>1, <3>2
    <3> QED BY <1>3, <3>1, <3>2
  <2>3. \A k \in DOMAIN net' : net'[k].n <= seqNum'
    <3> SUFFICES ASSUME NEW k \in DOMAIN net' PROVE net'[k].n <= seqNum'
      OBVIOUS
    <3>1. CASE k \in DOMAIN net /\ net'[k] = net[k]
      <4>1. net[k] \in Copy
        BY <3>1, <1>10, ElementOfSeq DEF EventsInv, EventTypes
      <4>2. net[k].n \in Nat
        BY <4>1 DEF Copy
      <4>3. net[k].n <= seqNum
        BY <3>1 DEF EventsInv, EventNumbers
      <4> QED BY <1>5, <2>1, <3>1, <4>2, <4>3
    <3>2. CASE k - Len(net) \in DOMAIN added /\ net'[k] = added[k - Len(net)]
      BY <1>8, <1>9, <2>1, <3>2
    <3> QED BY <1>10, <3>1, <3>2
  <2>4. seen' \subseteq 0..seqNum'
    BY <1>3, <1>5, <2>1
  <2> QED BY <2>1, <2>2, <2>3, <2>4 DEF EventNumbers
<1>13. Settled'
  <2> SUFFICES ASSUME NEW f \in sub, f[1] \in exists, f \notin event'
               PROVE  \E n \in 1..seqNum' : Told(f, n)'
    BY <1>3 DEF Settled
  <2>1. f \in Flags
    BY DEF EventsInv, EventTypes
  <2>2. seqNum' \in Nat /\ seqNum' = seqNum + m /\ m \in Nat
    BY <1>2, <1>3, <1>5, <1>7
  <2>3. CASE f \notin event
    <3>1. PICK n \in 1..seqNum : Told(f, n)
      BY <2>3 DEF EventsInv, Settled
    <3>2. \A p \in packets' : p.n = n => Of(p) = f
      <4>1. \A j \in 1..m : new[j].n # n
        BY <1>5, <1>6, <1>2
      <4> QED BY <1>3, <3>1, <4>1 DEF Told
    <3>3. n \notin seen => \E p \in packets' : p.n = n
      BY <1>3, <3>1 DEF Told
    <3>4. \A k \in DOMAIN added : /\ added[k].n = n => Of(added[k]) = f
                                  /\ Of(added[k]) = f => added[k].v = value[f]
      <4>1. \A k \in 1..m : added[k].n # n
        BY <1>2, <1>5, <1>8
      <4> QED BY <1>8, <1>9, <2>1, <4>1
    <3>5. Told(f, n)'
      <4>1. /\ net \in Seq(Copy) /\ added \in Seq(Copy) /\ net' = Fit(net \o added)
            /\ UNCHANGED seen /\ value'[f] = value[f] /\ view'[f] = view[f]
        BY <1>3, <1>9 DEF EventsInv, EventTypes
      <4> QED BY <3>1, <3>2, <3>3, <3>4, <4>1, TellsAfterSending
    <3>6. n \in 1..seqNum'
      BY <1>5, <2>2
    <3> QED BY <3>5, <3>6
  <2>4. CASE f \in event
    <3>1. PICK j \in 1..m : f = <<c, fired[j]>>
      BY <1>3, <2>4
    <3> PICK n \in Nat : n = seqNum + j
      BY <1>2, <1>5
    <3>2. n \in 1..seqNum' /\ n > seqNum /\ n \in Nat
      BY <1>2, <1>5, <2>2
    <3>3. n \notin seen' /\ n \notin seen
      BY <1>3, <1>5, <3>2
    <3>4. \A k \in 1..m : seqNum + k = n => k = j
      BY <1>2, <1>5
    <3>5. new[j] \in packets' /\ new[j].n = n
      BY <1>3, <1>6
    <3>6. \A p \in packets' : p.n = n => Of(p) = f
      <4> SUFFICES ASSUME NEW p \in packets', p.n = n PROVE Of(p) = f
        OBVIOUS
      <4>1. p \notin packets
        BY <1>5, <3>2
      <4>2. PICK k \in 1..m : p = new[k]
        BY <1>3, <4>1
      <4> QED BY <1>6, <3>1, <3>4, <4>2
    <3>7. \A k \in DOMAIN net : net[k].n # n
      BY <1>5, <3>2 DEF EventsInv, EventNumbers
    <3>8. ASSUME NEW k \in DOMAIN net', net'[k].n = n PROVE Of(net'[k]) = f
      <4>1. k - Len(net) \in 1..m /\ net'[k] = added[k - Len(net)]
        BY <1>9, <1>10, <3>7, <3>8
      <4> QED BY <1>8, <3>1, <3>4, <3>8, <4>1
    <3>9. ASSUME NEW k \in DOMAIN net', Of(net'[k]) = f, Behind(k, n)' PROVE net'[k].v = value[f]
      <4>1. PICK h \in 1..k : net'[h].n = n
        BY <3>3, <3>9 DEF Behind
      <4>2. k \in 1..Len(net') /\ h \in 1..Len(net') /\ h <= k
        BY <1>10, <4>1
      <4>3. h > Len(net)
        BY <1>10, <3>7, <4>1, <4>2
      <4>4. k > Len(net)
        BY <1>10, <4>2, <4>3
      <4>5. k \notin DOMAIN net
        BY <1>10, <4>4
      <4>6. k - Len(net) \in 1..m /\ net'[k] = added[k - Len(net)]
        BY <1>9, <1>10, <4>5
      <4> QED BY <1>8, <2>1, <3>9, <4>6
    <3>10. (\A k \in DOMAIN net : Of(net[k]) = f /\ Behind(k, n) => net[k].v = value[f])'
      BY <1>3, <3>9
    <3>11. Told(f, n)'
      BY <3>3, <3>5, <3>6, <3>8, <3>10 DEF Told
    <3> QED BY <3>2, <3>11
  <2> QED BY <2>3, <2>4
<1> QED BY <1>11, <1>12, <1>13 DEF EventsInv

\* A packet that is sent behind the others, under a number of its own or again.
LEMMA OneMoreSent ==
  ASSUME EventTypes, EventNumbers, NEW p \in Slot, p.n <= seqNum', seqNum' \in Nat, seqNum <= seqNum',
         net' = Fit(Append(net, Encode(p)))
  PROVE  /\ net' \in Seq(Copy) /\ \A k \in DOMAIN net' : net'[k].n <= seqNum'
         /\ [k \in 1..1 |-> Encode(p)] \in Seq(Copy) /\ net' = Fit(net \o [k \in 1..1 |-> Encode(p)])
<1> DEFINE e == [k \in 1..1 |-> Encode(p)]
<1>1. Encode(p) \in Copy /\ Encode(p).n = p.n
  BY EncodeIs
<1>2. e \in Seq(Copy) /\ Len(e) = 1 /\ DOMAIN e = 1..1 /\ e[1] = Encode(p)
  BY <1>1, IsASeq
<1>3. e = <<Encode(p)>>
  BY <1>1, <1>2, SeqEqual
<1> HIDE DEF e
<1>4. Append(net, Encode(p)) = net \o e
  BY <1>1, <1>3, AppendIsConcat DEF EventTypes
<1>5. net' = Fit(net \o e)
  BY <1>4
<1>6. /\ net' \in Seq(Copy) /\ Len(net) \in Nat /\ DOMAIN net = 1..Len(net)
      /\ \A k \in DOMAIN net' :
           \/ k \in DOMAIN net /\ net'[k] = net[k]
           \/ k > Len(net) /\ k - Len(net) \in DOMAIN e /\ net'[k] = e[k - Len(net)]
  BY <1>2, <1>5, SentBehind DEF EventTypes
<1>7. ASSUME NEW k \in DOMAIN net' PROVE net'[k].n <= seqNum'
  <2>1. CASE k \in DOMAIN net /\ net'[k] = net[k]
    <3>1. net[k] \in Copy
      BY <1>6, <2>1, ElementOfSeq DEF EventTypes
    <3>2. net[k].n \in Nat
      BY <3>1 DEF Copy
    <3>3. net[k].n <= seqNum /\ seqNum \in Nat
      BY <2>1 DEF EventNumbers
    <3> QED BY <2>1, <3>2, <3>3
  <2>2. CASE k - Len(net) \in DOMAIN e /\ net'[k] = e[k - Len(net)]
    <3>1. net'[k] = Encode(p)
      BY <1>2, <2>2 DEF e
    <3> QED BY <1>1, <3>1
  <2> QED BY <1>6, <2>1, <2>2
<1> QED BY <1>2, <1>5, <1>6, <1>7 DEF e

\* A request is answered, and a subscription sets the event bit.
LEMMA ServeKeeps == ASSUME EventsInv, Serve PROVE EventsInv'
<1> DEFINE res == [n |-> seqNum + 1, comp |-> req.comp, kind |-> "response"]
           e == [k \in 1..1 |-> Encode(res)]
<1>1. /\ packets' = packets \cup {res} /\ net' = Fit(Append(net, Encode(res))) /\ seqNum' = seqNum + 1
      /\ req' = [req EXCEPT !.at = "served"] /\ UNCHANGED <<value, exists, lastComp, view, seen>>
  BY DEF Serve, app, cache
<1>2. /\ seqNum \in Nat /\ seqNum' \in Nat /\ seqNum <= seqNum' /\ seen \subseteq 0..seqNum
      /\ \A p \in packets : p.n \in Nat /\ p.n <= seqNum
  BY <1>1 DEF EventsInv, EventNumbers, EventTypes, Slot
<1>3. res \in Slot /\ res.n = seqNum + 1 /\ res.kind = "response" /\ res.n <= seqNum'
  BY <1>1, <1>2 DEF EventsInv, EventTypes, Slot
<1>4. /\ sub' \subseteq Flags /\ event \subseteq event'
      /\ \A f \in sub' : f \in sub \/ f \in event'
  <2>1. CASE req.op = "subscribe" /\ req.comp \in exists
    <3>1. sub' = sub \cup {<<req.comp, req.kind>>} /\ event' = event \cup {<<req.comp, req.kind>>}
      BY <2>1 DEF Serve
    <3> QED BY <2>1, <3>1 DEF EventsInv, EventTypes
  <2>2. CASE ~(req.op = "subscribe" /\ req.comp \in exists)
    <3>1. event' = event
      BY <2>2 DEF Serve
    <3>2. sub' \subseteq sub
      BY <2>2 DEF Serve
    <3> QED BY <3>1, <3>2 DEF EventsInv, EventTypes
  <2> QED BY <2>1, <2>2
<1>5. /\ net' \in Seq(Copy) /\ (\A k \in DOMAIN net' : net'[k].n <= seqNum')
      /\ e \in Seq(Copy) /\ net' = Fit(net \o e)
  <2> HIDE DEF res
  <2> QED BY <1>1, <1>2, <1>3, OneMoreSent DEF EventsInv
<1>6. Encode(res).n = seqNum + 1 /\ Of(Encode(res)) = Of(res) /\ Of(res)[2] \notin Kinds
  <2>1. Of(res)[2] = "response"
    BY DEF Of
  <2> HIDE DEF res
  <2> QED BY <1>3, <2>1, EncodeIs, EventKinds DEF EventsInv
<1> HIDE DEF res
<1>7. EventTypes'
  <2>1. req' \in [op : {"none", "subscribe", "unsubscribe", "allTree", "noTree"}, comp : Comps,
                  kind : Kinds \cup {"tree"}, at : {"sent", "served", "answered"}]
    BY <1>1 DEF EventsInv, EventTypes
  <2>2. req'.op = req.op /\ req'.comp = req.comp /\ req'.kind = req.kind
    BY <1>1 DEF EventsInv, EventTypes
  <2>3. packets' \subseteq Slot
    BY <1>1, <1>3 DEF EventsInv, EventTypes
  <2> QED BY <1>1, <1>4, <1>5, <2>1, <2>2, <2>3 DEF EventsInv, EventTypes
<1>8. EventNumbers'
  <2>1. \A p \in packets' : p.n <= seqNum'
    BY <1>1, <1>2, <1>3
  <2>2. seen' \subseteq 0..seqNum'
    BY <1>1, <1>2
  <2> QED BY <1>2, <1>5, <2>1, <2>2 DEF EventNumbers
<1>9. Settled'
  <2> SUFFICES ASSUME NEW f \in sub', f[1] \in exists, f \notin event'
               PROVE  \E n \in 1..seqNum' : Told(f, n)'
    BY <1>1 DEF Settled
  <2>1. f \in sub /\ f \notin event /\ f \in Flags
    BY <1>4
  <2>2. PICK n \in 1..seqNum : Told(f, n)
    BY <2>1 DEF EventsInv, Settled
  <2>3. n \in 1..seqNum' /\ n # seqNum + 1
    BY <1>2
  <2>4. \A p \in packets' : p.n = n => Of(p) = f
    BY <1>1, <1>3, <2>2, <2>3 DEF Told
  <2>5. n \notin seen => \E p \in packets' : p.n = n
    BY <1>1, <2>2 DEF Told
  <2>6. Of(Encode(res)) # f
    BY <1>6, <2>1, EventKinds
  <2>7. \A k \in DOMAIN e : e[k].n # n /\ Of(e[k]) # f
    BY <1>6, <2>3, <2>6
  <2>8. /\ net \in Seq(Copy) /\ UNCHANGED seen /\ value'[f] = value[f] /\ view'[f] = view[f]
    BY <1>1 DEF EventsInv, EventTypes
  <2> HIDE DEF e
  <2>9. Told(f, n)'
    BY <1>5, <2>2, <2>4, <2>5, <2>7, <2>8, TellsAfterSending
  <2> QED BY <2>3, <2>9
<1> QED BY <1>7, <1>8, <1>9 DEF EventsInv

\* sendRetries writes the state of the moment once more.
LEMMA EventResendKeeps == ASSUME EventsInv, NEW p \in packets, Resend(p) PROVE EventsInv'
<1> DEFINE e == [k \in 1..1 |-> Encode(p)]
<1>1. /\ Len(net) < MaxNet /\ net' = Append(net, Encode(p))
      /\ UNCHANGED <<value, exists, sub, event, lastComp, seqNum, packets, view, seen, req>>
  BY DEF Resend, app, flags, window, cache
<1>2. seqNum \in Nat /\ p \in Slot /\ p.n <= seqNum /\ seqNum' = seqNum /\ net \in Seq(Copy)
  BY <1>1 DEF EventsInv, EventNumbers, EventTypes
<1>3. /\ Encode(p) \in Copy /\ Encode(p).n = p.n /\ Of(Encode(p)) = Of(p)
      /\ \A f \in Flags : Of(p) = f /\ f[1] \in exists => Encode(p).v = value[f]
  BY <1>2, EncodeIs DEF EventsInv
<1>4. net' = Fit(Append(net, Encode(p)))
  <2>1. /\ Append(net, Encode(p)) \in Seq(Copy) /\ Len(Append(net, Encode(p))) = Len(net) + 1
        /\ Len(net) \in Nat /\ MaxNet \in Nat
    BY <1>2, <1>3, AppendProperties, LenProperties, EventKinds
  <2>2. Len(net) + 1 <= MaxNet
    BY <1>1, <2>1
  <2>3. SubSeq(Append(net, Encode(p)), 1, Len(Append(net, Encode(p)))) = Append(net, Encode(p))
    BY <2>1, SubSeqFull
  <2> QED BY <1>1, <2>1, <2>2, <2>3 DEF Fit
<1>5. /\ net' \in Seq(Copy) /\ (\A k \in DOMAIN net' : net'[k].n <= seqNum')
      /\ e \in Seq(Copy) /\ net' = Fit(net \o e)
  <2>1. p.n <= seqNum' /\ seqNum' \in Nat /\ seqNum <= seqNum'
    BY <1>2
  <2> QED BY <1>2, <1>4, <2>1, OneMoreSent DEF EventsInv
<1>6. EventTypes' /\ EventNumbers'
  BY <1>1, <1>5 DEF EventsInv, EventTypes, EventNumbers
<1>7. Settled'
  <2> SUFFICES ASSUME NEW f \in sub, f[1] \in exists, f \notin event
               PROVE  \E n \in 1..seqNum : Told(f, n)'
    BY <1>1 DEF Settled
  <2>1. f \in Flags
    BY DEF EventsInv, EventTypes
  <2>2. PICK n \in 1..seqNum : Told(f, n)
    BY DEF EventsInv, Settled
  <2>3. /\ \A q \in packets' : q.n = n => Of(q) = f
        /\ n \notin seen => \E q \in packets' : q.n = n
    BY <1>1, <2>2 DEF Told
  <2>4. \A k \in DOMAIN e : /\ e[k].n = n => Of(e[k]) = f
                            /\ Of(e[k]) = f => e[k].v = value[f]
    BY <1>1, <1>3, <2>1, <2>3
  <2>5. UNCHANGED seen /\ value'[f] = value[f] /\ view'[f] = view[f]
    BY <1>1
  <2> HIDE DEF e
  <2>6. Told(f, n)'
    BY <1>2, <1>5, <2>2, <2>3, <2>4, <2>5, TellsAfterSending
  <2> QED BY <2>6
<1> QED BY <1>6, <1>7 DEF EventsInv

\* A slot is freed of a packet that was processed.
LEMMA AcknowledgedKeeps == ASSUME EventsInv, NEW p \in packets, Acknowledge(p) PROVE EventsInv'
<1>1. /\ p.n \in seen /\ packets' = packets \ {p}
      /\ UNCHANGED <<value, exists, sub, event, lastComp, seqNum, net, view, seen, req>>
  BY DEF Acknowledge, app, flags, cache
<1>2. EventTypes' /\ EventNumbers'
  BY <1>1 DEF EventsInv, EventTypes, EventNumbers
<1>3. Settled'
  <2> SUFFICES ASSUME NEW f \in sub, f[1] \in exists, f \notin event
               PROVE  \E n \in 1..seqNum : Told(f, n)'
    BY <1>1 DEF Settled
  <2>1. PICK n \in 1..seqNum : Told(f, n)
    BY DEF EventsInv, Settled
  <2>2. \A i : Behind(i, n)' = Behind(i, n)
    BY <1>1 DEF Behind
  <2>3. Told(f, n)'
    BY <1>1, <2>1, <2>2 DEF Told
  <2> QED BY <2>3
<1> QED BY <1>2, <1>3 DEF EventsInv

\* The network has what it had, or that without the first.
LEMMA FirstGone ==
  ASSUME net \in Seq(Copy), net # <<>>, net' \in {net, Tail(net)}
  PROVE  /\ Len(net) \in Nat \ {0} /\ DOMAIN net = 1..Len(net) /\ net[1] \in Copy
         /\ net' \in Seq(Copy) /\ Len(net') \in Nat /\ DOMAIN net' = 1..Len(net')
         /\ \E d \in 0..1 : \A k \in DOMAIN net' : k + d \in DOMAIN net /\ net'[k] = net[k + d]
<1>1. Len(net) \in Nat \ {0} /\ DOMAIN net = 1..Len(net) /\ net[1] \in Copy
  BY EmptySeq, LenProperties, ElementOfSeq
<1>2. CASE net' = net
  <2>1. \A k \in DOMAIN net' : k + 0 \in DOMAIN net /\ net'[k] = net[k + 0]
    BY <1>1, <1>2
  <2> QED BY <1>1, <1>2, <2>1
<1>3. CASE net' = Tail(net)
  <2>1. /\ Tail(net) \in Seq(Copy) /\ Len(Tail(net)) = Len(net) - 1
        /\ \A k \in 1..(Len(net) - 1) : Tail(net)[k] = net[k + 1]
    BY HeadTailProperties
  <2>2. DOMAIN net' = 1..(Len(net) - 1) /\ Len(net') \in Nat /\ Len(net') = Len(net) - 1
    BY <1>1, <1>3, <2>1, LenProperties
  <2>3. \A k \in DOMAIN net' : k + 1 \in DOMAIN net /\ net'[k] = net[k + 1]
    BY <1>1, <1>3, <2>1, <2>2
  <2> QED BY <1>1, <1>3, <2>1, <2>2, <2>3
<1> QED BY <1>2, <1>3

\* A packet that tells goes on telling when the first in the network is taken or lost.
LEMMA TellsAfterTaking ==
  ASSUME net \in Seq(Copy), net # <<>>, net' \in {net, Tail(net)},
         NEW f, NEW n, Told(f, n), UNCHANGED packets, value'[f] = value[f],
         seen' \in {seen, seen \cup {net[1].n}},
         n \in seen' => view'[f] = value[f]
  PROVE  Told(f, n)'
<1>1. /\ Len(net) \in Nat \ {0} /\ DOMAIN net = 1..Len(net)
      /\ Len(net') \in Nat /\ DOMAIN net' = 1..Len(net')
  BY FirstGone
<1>2. PICK d \in 0..1 : \A k \in DOMAIN net' : k + d \in DOMAIN net /\ net'[k] = net[k + d]
  BY FirstGone
<1>3. ASSUME NEW k \in DOMAIN net' PROVE net'[k].n = n => Of(net'[k]) = f
  BY <1>2 DEF Told
<1>4. ASSUME NEW k \in DOMAIN net', Of(net'[k]) = f, Behind(k, n)'
      PROVE  net'[k].v = value[f]
  <2> DEFINE N == Len(net')
  <2>1. N \in Nat /\ DOMAIN net' = 1..N /\ k \in 1..N
    BY <1>1, Zenon
  <2> HIDE DEF N
  <2>3. CASE n \notin seen /\ n \in seen'
    <3>1. net[1].n = n /\ 1 \in 1..(k + d)
      BY <2>1, <2>3
    <3>2. Behind(k + d, n)
      BY <3>1 DEF Behind
    <3> QED BY <1>2, <1>4, <3>2 DEF Told
  <2>4. CASE n \notin seen'
    <3>1. PICK h \in 1..k : net'[h].n = n
      BY <1>4, <2>4 DEF Behind
    <3>2. h \in DOMAIN net' /\ h + d \in 1..(k + d)
      <4>1. h \in 1..N
        BY <2>1
      <4>2. h + d \in 1..(k + d)
        BY <2>1, <4>1
      <4> QED BY <4>1, <4>2
    <3>3. net[h + d].n = n
      BY <1>2, <3>1, <3>2
    <3>4. Behind(k + d, n)
      BY <3>2, <3>3 DEF Behind
    <3> QED BY <1>2, <1>4, <3>4 DEF Told
  <2>5. n \in seen => Behind(k + d, n)
    BY DEF Behind
  <2> QED BY <1>2, <1>4, <2>3, <2>4, <2>5 DEF Told
<1>5. (\A k \in DOMAIN net : Of(net[k]) = f /\ Behind(k, n) => net[k].v = value[f])'
  BY <1>4
<1>6. n \notin seen' => n \notin seen
  OBVIOUS
<1> QED BY <1>3, <1>5, <1>6 DEF Told

\* The numbers and records of what is left.
LEMMA FirstGoneTypes ==
  ASSUME EventTypes, EventNumbers, net # <<>>, net' \in {net, Tail(net)}, UNCHANGED <<seqNum, packets>>,
         seen' \in {seen, seen \cup {net[1].n}}
  PROVE  net' \in Seq(Copy) /\ EventNumbers'
<1>1. /\ Len(net) \in Nat \ {0} /\ DOMAIN net = 1..Len(net) /\ net[1] \in Copy /\ net' \in Seq(Copy)
      /\ \E d \in 0..1 : \A k \in DOMAIN net' : k + d \in DOMAIN net /\ net'[k] = net[k + d]
  BY FirstGone DEF EventTypes
<1>2. \A k \in DOMAIN net' : net'[k].n <= seqNum
  BY <1>1 DEF EventNumbers
<1>3. seen' \subseteq 0..seqNum
  <2>1. net[1].n \in Nat
    BY <1>1 DEF Copy
  <2>2. 1 \in DOMAIN net
    BY <1>1
  <2>3. net[1].n <= seqNum /\ seqNum \in Nat /\ seen \subseteq 0..seqNum
    BY <2>2, Zenon DEF EventNumbers
  <2>4. net[1].n \in 0..seqNum
    BY <2>1, <2>3
  <2>5. seen' = seen \/ seen' = seen \cup {net[1].n}
    OBVIOUS
  <2> QED BY <2>3, <2>4, <2>5, Zenon
<1> QED BY <1>1, <1>2, <1>3 DEF EventNumbers

LEMMA EventLoseKeeps == ASSUME EventsInv, Lose PROVE EventsInv'
<1>1. /\ net # <<>> /\ net' \in {net, Tail(net)}
      /\ UNCHANGED <<value, exists, sub, event, lastComp, seqNum, packets, view, seen, req>>
  BY DEF Lose, app, flags, window, cache
<1>2. net' \in Seq(Copy) /\ EventNumbers'
  BY <1>1, FirstGoneTypes DEF EventsInv
<1>3. EventTypes'
  BY <1>1, <1>2 DEF EventsInv, EventTypes
<1>4. Settled'
  <2> SUFFICES ASSUME NEW f \in sub, f[1] \in exists, f \notin event
               PROVE  \E n \in 1..seqNum : Told(f, n)'
    BY <1>1 DEF Settled
  <2>1. PICK n \in 1..seqNum : Told(f, n)
    BY DEF EventsInv, Settled
  <2>2. n \in seen' => view'[f] = value[f]
    BY <1>1, <2>1 DEF Told
  <2>3. Told(f, n)'
    BY <1>1, <2>1, <2>2, TellsAfterTaking DEF EventsInv, EventTypes
  <2> QED BY <2>3
<1> QED BY <1>2, <1>3, <1>4 DEF EventsInv

\* applyToCache: what a packet that tells brings is the state of now, and what comes
\* behind it is no older.
LEMMA EventReceiveKeeps ==
  ASSUME ~Reorders, EventsInv, NEW i \in DOMAIN net, Receive(i)
  PROVE  EventsInv'
<1> DEFINE m == net[1]
           g == <<m.comp, m.kind>>
           new == m.n \notin seen
<1>1. i = 1 /\ 1 \in DOMAIN net
  BY DEF Receive
<1>2. /\ net \in Seq(Copy) /\ Len(net) \in Nat /\ DOMAIN net = 1..Len(net) /\ net # <<>>
      /\ Len(net) >= 1
  BY <1>1, LenProperties DEF EventsInv, EventTypes
<1>3. net' \in {net, Tail(net)}
  <2>1. net' \in {net, SubSeq(net, 1, 1 - 1) \o SubSeq(net, 1 + 1, Len(net))}
    BY <1>1 DEF Receive
  <2>2. SubSeq(net, 1, 1 - 1) = <<>>
    BY <1>2, SubSeqEmpty
  <2>3. SubSeq(net, 1 + 1, Len(net)) = Tail(net)
    BY <1>2, TailIsSubSeq
  <2>4. Tail(net) \in Seq(Copy)
    BY <1>2, HeadTailProperties
  <2>5. <<>> \o Tail(net) = Tail(net)
    BY <2>4, ConcatEmptySeq
  <2> QED BY <2>1, <2>2, <2>3, <2>5
<1>4. /\ seen' = seen \cup {m.n} /\ UNCHANGED <<value, exists, sub, event, lastComp, seqNum, packets>>
      /\ req' = IF new /\ m.kind = "response" THEN [req EXCEPT !.at = "answered"] ELSE req
      /\ view' = IF new /\ m.kind # "response" /\ m.v # -1 THEN [view EXCEPT ![g] = m.v] ELSE view
  BY <1>1 DEF Receive, app, flags, window
<1>5. m \in Copy /\ m.v \in Int /\ m.n \in Nat /\ (m.kind # "response" => g \in Flags) /\ g = Of(m)
  <2>1. m \in Copy
    BY <1>1, <1>2, ElementOfSeq
  <2> HIDE DEF m
  <2> QED BY <2>1 DEF Copy, Flags, Of
<1> HIDE DEF m
<1>6. net' \in Seq(Copy) /\ EventNumbers'
  BY <1>2, <1>3, <1>4, FirstGoneTypes DEF EventsInv, m
<1>7. EventTypes'
  <2>1. view' \in [Flags -> Int]
    BY <1>4, <1>5 DEF EventsInv, EventTypes
  <2>2. /\ req' \in [op : {"none", "subscribe", "unsubscribe", "allTree", "noTree"}, comp : Comps,
                     kind : Kinds \cup {"tree"}, at : {"sent", "served", "answered"}]
        /\ req'.op = req.op /\ req'.comp = req.comp /\ req'.kind = req.kind
    BY <1>4 DEF EventsInv, EventTypes
  <2> QED BY <1>4, <1>6, <2>1, <2>2 DEF EventsInv, EventTypes
<1>8. Settled'
  <2> SUFFICES ASSUME NEW f \in sub, f[1] \in exists, f \notin event
               PROVE  \E n \in 1..seqNum : Told(f, n)'
    BY <1>4 DEF Settled
  <2>1. f \in Flags /\ f[2] # "response" /\ value[f] \in Nat /\ view \in [Flags -> Int]
    BY EventKinds DEF EventsInv, EventTypes
  <2>2. PICK n \in 1..seqNum : Told(f, n)
    BY DEF EventsInv, Settled
  <2>3. ASSUME Of(m) = f, Behind(1, n) PROVE m.v = value[f]
    BY <1>1, <2>2, <2>3 DEF Told, m
  <2>4. n \in seen' => view'[f] = value[f]
    <3>1. CASE n \in seen
      <4>1. Behind(1, n) /\ view[f] = value[f]
        BY <2>2, <3>1 DEF Told, Behind
      <4>2. CASE Of(m) = f
        BY <1>4, <1>5, <2>1, <2>3, <4>1, <4>2
      <4>3. CASE Of(m) # f
        BY <1>4, <1>5, <2>1, <4>1, <4>3
      <4> QED BY <4>2, <4>3
    <3>2. CASE n \notin seen /\ n = m.n
      <4>1. Of(m) = f
        BY <1>1, <2>2, <3>2 DEF Told, m
      <4>2. Behind(1, n)
        <5>1. 1 \in 1..1 /\ net[1].n = n
          BY <3>2 DEF m
        <5> QED BY <5>1 DEF Behind
      <4>3. m.v = value[f]
        BY <2>3, <4>1, <4>2
      <4>4. m.kind # "response" /\ g = f /\ m.v # -1
        BY <1>5, <2>1, <4>1, <4>3 DEF Of
      <4> QED BY <1>4, <2>1, <3>2, <4>3, <4>4
    <3> QED BY <1>4, <3>1, <3>2
  <2>5. seen' = seen \cup {net[1].n} /\ UNCHANGED packets /\ value'[f] = value[f]
    BY <1>4 DEF m
  <2>6. Told(f, n)'
    BY <1>2, <1>3, <2>2, <2>4, <2>5, TellsAfterTaking
  <2> QED BY <2>6
<1> QED BY <1>6, <1>7, <1>8 DEF EventsInv

\* The service forgets no change of a category the client has subscribed to: until the
\* client has processed the newest state an event bit is set or a packet is in its slot,
\* although enqueueEvent clears the bit before the client has the packet and every retry
\* is encoded anew. It holds of any number of components, categories, slots, clients and
\* packets that are lost and repeated, on a network that keeps the order.
THEOREM NoEventIsForgotten == ~Reorders => (EventsSpec => []StaleIsPending)
<1> SUFFICES ASSUME ~Reorders
             PROVE  EventsSpec => []StaleIsPending
  OBVIOUS
<1>1. EventsInv /\ [EventsNext]_eventVars => EventsInv'
  BY ChangeKeeps, ClientKeeps, CheckForEventsKeeps, ServeKeeps, EventResendKeeps, AcknowledgedKeeps,
     ReopenKeeps, EventReceiveKeeps, EventLoseKeeps DEF EventsNext
<1>2. EventsInv => StaleIsPending
  <2> SUFFICES ASSUME EventsInv, NEW f \in sub, f[1] \in exists, f \notin event, view[f] # value[f]
               PROVE  \E p \in packets : <<p.comp, p.kind>> = f /\ p.n \notin seen
    BY DEF StaleIsPending
  <2>1. PICK n \in 1..seqNum : Told(f, n)
    BY DEF EventsInv, Settled
  <2> QED BY <2>1 DEF Told, Of
<1> QED BY <1>1, <1>2, InitEvents, PTL DEF EventsSpec
===========================================================================
