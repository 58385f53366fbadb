-------------------------- MODULE BacnetCov_proofs --------------------------
(***************************************************************************)
(* Proofs about BacnetCov, for any objects, clients, sizes of the tables   *)
(* and timeouts, whatever is lost and however packets, timers and the      *)
(* steps of the task interleave.                                           *)
(***************************************************************************)
EXTENDS BacnetCov, TLAPS

\* A valid subscription was asked for by a client, not by nobody: an address
\* slot that is taken for a new client is in nobody's use.
SubscriberKnown == \A s \in Slots : subs[s].valid => subscriber[s] \in Clients

\* Whoever watches an object together with others is known to be Shared.
SharedIsTold ==
  \A s, t \in Slots : s # t /\ subs[s].valid /\ subs[t].valid /\ subs[s].object = subs[t].object
                        => told[s] = Shared

AddressInv == TypeOK /\ SubscriberKnown /\ NotifiesSubscriber
PendingInv == TypeOK /\ SharedIsTold /\ ChangeIsPending

\* The blank entry, and the entries that are left when some end, are entries.
LEMMA BlankType == Blank \in SubType
BY CovSizes DEF Blank, SubType

LEMMA EndAllType ==
  ASSUME NEW ss, NEW others \in [Slots -> SubType]
  PROVE  EndAll(ss, others) \in [Slots -> SubType]
BY BlankType DEF EndAll

LEMMA FreeIdsType ==
  ASSUME TypeOK, NEW ids
  PROVE  FreeIds(ids) \in [Ids -> TsmType]
<1>1. Free \in TsmType
  BY CovSizes DEF Free, TsmType
<1> QED
  BY <1>1 DEF FreeIds, TypeOK

LEMMA RemoveUnusedType ==
  ASSUME TypeOK, NEW newSubs
  PROVE  RemoveUnused(newSubs) \in [AddrSlots -> Clients \cup {None}]
BY DEF RemoveUnused, TypeOK

LEMMA MinusType ==
  ASSUME NEW n \in Nat, NEW e \in Nat
  PROVE  Minus(n, e) \in Nat /\ Minus(n, e) <= n
BY DEF Minus

\* The timer of a transaction keeps its range.
LEMMA TsmAfterType ==
  ASSUME NEW t \in TsmType, NEW e \in Nat
  PROVE  TsmAfter(t, e) \in TsmType
<1>1. t.timer \in 0..ApduTimeout /\ t.timer \in Nat /\ t.retry \in 0..ApduRetries
  BY CovSizes DEF TsmType
<1>2. Minus(t.timer, e) \in 0..ApduTimeout
  BY <1>1, CovSizes DEF Minus
<1>3. [t EXCEPT !.timer = Minus(t.timer, e)] \in TsmType
  BY <1>2 DEF TsmType
<1>4. ASSUME t.retry < ApduRetries
      PROVE  [t EXCEPT !.timer = ApduTimeout, !.retry = @ + 1] \in TsmType
  <2>1. t.retry + 1 \in 0..ApduRetries /\ ApduTimeout \in 0..ApduTimeout
    BY <1>1, <1>4, CovSizes
  <2> QED
    BY <2>1 DEF TsmType
<1>5. [t EXCEPT !.state = "failed", !.timer = 0] \in TsmType
  <2>1. 0 \in 0..ApduTimeout
    BY CovSizes
  <2> QED
    BY <2>1 DEF TsmType
<1> QED
  BY <1>3, <1>4, <1>5 DEF TsmAfter

LEMMA AdvanceType ==
  ASSUME TypeOK, NEW next \in Phases, Advance(next)
  PROVE  phase' \in Phases /\ index' \in Slots
<1>1. index \in Nat /\ 1 <= index /\ index <= NumSubs /\ NumSubs \in Nat \ {0}
  BY CovSizes DEF TypeOK, Slots
<1>2. CASE index = NumSubs
  BY <1>1, <1>2 DEF Advance, Slots
<1>3. CASE index # NumSubs
  BY <1>1, <1>3 DEF Advance, Slots, TypeOK
<1> QED
  BY <1>2, <1>3

LEMMA InitTypeOK == Init => TypeOK
<1> SUFFICES ASSUME Init PROVE TypeOK
  OBVIOUS
<1>1. subs \in [Slots -> SubType]
  BY BlankType DEF Init
<1>2. tsm \in [Ids -> TsmType]
  BY CovSizes DEF Init, Free, TsmType
<1>3. 1 \in Ids /\ 1 \in Slots
  BY CovSizes DEF Ids, Slots
<1>4. value \in [Objects -> BinaryInput]
  BY DEF Init, BinaryInput
<1> QED
  BY <1>1, <1>2, <1>3, <1>4 DEF Init, TypeOK, Phases

\* What an accepted subscription does keeps the types.
LEMMA AcceptType ==
  ASSUME TypeOK, NEW s \in Slots, NEW c \in Clients,
         NEW sub \in SubType, Accept(s, c, sub)
  PROVE  /\ subs' \in [Slots -> SubType] /\ addrs' \in [AddrSlots -> Clients \cup {None}]
         /\ tsm' \in [Ids -> TsmType] /\ subscriber' \in [Slots -> Clients \cup {None}]
         /\ told' \in [Slots -> BinaryInput \cup {None, Shared}]
<1>1. PICK a \in 0..NumAddrs :
        /\ subs' = [subs EXCEPT ![s] = [sub EXCEPT !.dest = a]]
        /\ addrs' = [b \in AddrSlots |-> IF b = a THEN c ELSE addrs[b]]
  BY DEF Accept
<1>2. [sub EXCEPT !.dest = a] \in SubType
  BY DEF SubType
<1>3. subs' \in [Slots -> SubType] /\ addrs' \in [AddrSlots -> Clients \cup {None}]
  BY <1>1, <1>2 DEF TypeOK
<1>4. tsm' \in [Ids -> TsmType]
  BY FreeIdsType DEF Accept
<1>5. subscriber' \in [Slots -> Clients \cup {None}] /\ told' \in [Slots -> BinaryInput \cup {None, Shared}]
  BY DEF Accept, TypeOK
<1> QED
  BY <1>3, <1>4, <1>5

LEMMA EndedType ==
  ASSUME TypeOK, NEW ss
  PROVE  /\ Ended(told, ss) \in [Slots -> BinaryInput \cup {None, Shared}]
         /\ Ended(subscriber, ss) \in [Slots -> Clients \cup {None}]
BY DEF Ended, TypeOK

\* The packets keep the types.
LEMMA PacketType ==
  ASSUME TypeOK,
         \/ \E c \in Clients, o \in Objects, p \in Processes : Cancel(c, o, p)
         \/ \E r \in Asked : Subscribe(r.client, r.object, r.process, r.confirmed, r.lifetime)
         \/ \E i \in Ids : Answer(i)
         \/ \E o \in Objects : Write(o)
         \/ \E status \in {"enable", "disable", "initiation"}, left \in Durations :
              Control(status, left)
  PROVE  TypeOK'
<1>1. ASSUME NEW c \in Clients, NEW o \in Objects, NEW p \in Processes, Cancel(c, o, p)
      PROVE  TypeOK'
  <2>1. PICK s \in Slots :
          /\ subs' = EndAll({s}, subs) /\ addrs' = RemoveUnused(EndAll({s}, subs))
          /\ tsm' = FreeIds(HeldIds({s}))
          /\ told' = Ended(told, {s}) /\ subscriber' = Ended(subscriber, {s})
    BY <1>1 DEF Cancel
  <2>2. subs' \in [Slots -> SubType]
    BY <2>1, EndAllType DEF TypeOK
  <2>3. addrs' \in [AddrSlots -> Clients \cup {None}] /\ tsm' \in [Ids -> TsmType]
    BY <2>1, RemoveUnusedType, FreeIdsType
  <2>4. told' \in [Slots -> BinaryInput \cup {None, Shared}] /\ subscriber' \in [Slots -> Clients \cup {None}]
    BY <2>1, EndedType
  <2> QED
    BY <1>1, <2>2, <2>3, <2>4 DEF Cancel, objVars, taskVars, TypeOK
<1>2. ASSUME NEW r \in Asked,
             Subscribe(r.client, r.object, r.process, r.confirmed, r.lifetime)
      PROVE  TypeOK'
  <2> DEFINE sub == [valid |-> TRUE, object |-> r.object, process |-> r.process, dest |-> 0,
                     confirmed |-> r.confirmed, invokeId |-> 0, lifetime |-> r.lifetime,
                     requested |-> TRUE]
  <2>0. /\ r.client \in Clients /\ r.object \in Objects /\ r.process \in Processes
        /\ r.confirmed \in BOOLEAN /\ r.lifetime \in Nat /\ 0 \in 0..NumAddrs /\ 0 \in 0..NumIds
    BY CovSizes DEF Requests
  <2>1. PICK s \in Slots : Accept(s, r.client, sub)
    BY <1>2 DEF Subscribe
  <2>2. sub \in SubType
    BY <2>0 DEF SubType
  <2>3. /\ subs' \in [Slots -> SubType] /\ addrs' \in [AddrSlots -> Clients \cup {None}]
        /\ tsm' \in [Ids -> TsmType] /\ subscriber' \in [Slots -> Clients \cup {None}]
        /\ told' \in [Slots -> BinaryInput \cup {None, Shared}]
    <3> HIDE DEF sub
    <3> QED
      BY <2>0, <2>1, <2>2, AcceptType
  <2> QED
    BY <1>2, <2>3 DEF Subscribe, objVars, taskVars, TypeOK
<1>3. ASSUME NEW i \in Ids, Answer(i)
      PROVE  TypeOK'
  <2>1. tsm' \in [Ids -> TsmType]
    BY <1>3, FreeIdsType DEF Answer
  <2> QED
    BY <1>3, <2>1 DEF Answer, objVars, taskVars, TypeOK
<1>4. ASSUME NEW o \in Objects, Write(o)
      PROVE  TypeOK'
  <2>1. PICK new \in BinaryInput :
          /\ value' = [value EXCEPT ![o] = new]
          /\ changed' = [changed EXCEPT ![o] = @ \/ Flagged(value[o], new)]
    BY <1>4 DEF Write
  <2>2. Flagged(value[o], new) \in BOOLEAN
    BY DEF Flagged
  <2> QED
    BY <1>4, <2>1, <2>2 DEF Write, taskVars, TypeOK
<1>5. ASSUME NEW status \in {"enable", "disable", "initiation"}, NEW left \in Durations,
             Control(status, left)
      PROVE  TypeOK'
  <2>1. dcc' \in [status: {"enable", "disable", "initiation"}, left: Nat]
    BY <1>5, CovSizes DEF Control
  <2> QED
    BY <1>5, <2>1 DEF Control, objVars, taskVars, TypeOK
<1> QED
  BY <1>1, <1>2, <1>3, <1>4, <1>5

\* A subscription that is e older is a subscription.
LEMMA OlderType ==
  ASSUME TypeOK, NEW e \in Nat
  PROVE  Older(e) \in [Slots -> SubType]
<1>1. ASSUME NEW s \in Slots
      PROVE  Minus(subs[s].lifetime, e) \in Nat
  BY MinusType DEF TypeOK, SubType
<1>2. ASSUME NEW s \in Slots
      PROVE  [subs[s] EXCEPT !.lifetime = Minus(@, e)] \in SubType
  BY <1>1 DEF TypeOK, SubType
<1> QED
  BY <1>2 DEF Older, TypeOK

\* The timers keep the types.
LEMMA SecondType ==
  ASSUME TypeOK, NEW e \in 1..MaxElapsed, Second(e)
  PROVE  TypeOK'
<1>1. e \in Nat
  BY CovSizes
<1>2. dcc' \in [status: {"enable", "disable", "initiation"}, left: Nat]
  <2>1. Minus(dcc.left, e) \in Nat
    BY <1>1, MinusType DEF TypeOK
  <2> QED
    BY <2>1 DEF Second, DccAfter, TypeOK
<1>3. Older(e) \in [Slots -> SubType]
  BY <1>1, OlderType
<1>4. subs' \in [Slots -> SubType]
  BY <1>3, EndAllType DEF Second
<1>5. addrs' \in [AddrSlots -> Clients \cup {None}]
  BY RemoveUnusedType DEF Second, TypeOK
<1>6. tsm' \in [Ids -> TsmType]
  <2>1. \A i \in Ids : FreeIds(HeldIds(Expired(e)))[i] \in TsmType
    BY FreeIdsType
  <2> QED
    BY <1>1, <2>1, TsmAfterType DEF Second
<1>7. told' \in [Slots -> BinaryInput \cup {None, Shared}] /\ subscriber' \in [Slots -> Clients \cup {None}]
  BY EndedType DEF Second
<1> QED
  BY <1>2, <1>4, <1>5, <1>6, <1>7 DEF Second, objVars, taskVars, TypeOK

\* The steps of the notification task keep the types.
LEMMA TaskType ==
  ASSUME TypeOK, CovTask
  PROVE  TypeOK'
<1> USE DEF objVars, taskVars
<1>0. index \in Slots /\ subs[index] \in SubType
  BY DEF TypeOK
<1>1. CASE Begin
  BY <1>1, CovSizes DEF Begin, TypeOK, Phases, Slots
<1>2. CASE Mark
  <2>1. phase' \in Phases /\ index' \in Slots
    BY <1>2, AdvanceType DEF Mark, Phases
  <2>2. (subs[index].requested \/ (subs[index].valid /\ changed[subs[index].object])) \in BOOLEAN
    BY <1>0 DEF TypeOK, SubType
  <2>3. subs' \in [Slots -> SubType]
    BY <1>0, <1>2, <2>2 DEF Mark, TypeOK, SubType
  <2> QED
    BY <1>2, <2>1, <2>3 DEF Mark, TypeOK
<1>3. CASE Clear
  <2>1. phase' \in Phases /\ index' \in Slots
    BY <1>3, AdvanceType DEF Clear, Phases
  <2>2. changed' \in [Objects -> BOOLEAN]
    BY <1>0, <1>3 DEF Clear, TypeOK, SubType
  <2> QED
    BY <1>3, <2>1, <2>2 DEF Clear, TypeOK
<1>4. CASE Release
  <2>1. phase' \in Phases /\ index' \in Slots
    BY <1>4, AdvanceType DEF Release, Phases
  <2>2. [subs[index] EXCEPT !.invokeId = 0] \in SubType
    BY <1>0, CovSizes DEF SubType
  <2>3. subs' \in [Slots -> SubType]
    BY <1>0, <1>4, <2>2 DEF Release, TypeOK
  <2>4. tsm' \in [Ids -> TsmType]
    BY <1>4, FreeIdsType DEF Release, TypeOK
  <2> QED
    BY <1>4, <2>1, <2>3, <2>4 DEF Release, TypeOK
<1>5. CASE Skip
  <2>1. phase' \in Phases /\ index' \in Slots
    BY <1>5, AdvanceType DEF Skip, Phases
  <2> QED
    BY <1>5, <2>1 DEF Skip, TypeOK
<1>6. ASSUME NEW s \in Slots, NEW sent \in BOOLEAN, Send(s, sent)
      PROVE  TypeOK'
  <2>1. phase' \in Phases /\ index' \in Slots
    BY <1>6, AdvanceType DEF Send, Phases
  <2>2. subs[s] \in SubType
    BY DEF TypeOK
  <2>3. told' \in [Slots -> BinaryInput \cup {None, Shared}]
    BY <1>6, <2>2 DEF Send, TypeOK, SubType
  <2>4. CASE subs[s].confirmed
    <3>1. PICK i \in Ids : /\ tsm' = [tsm EXCEPT ![i] = Awaiting]
                           /\ currentId' = NextId(i)
                           /\ subs' = [subs EXCEPT ![s].invokeId = i, ![s].requested = ~sent]
      BY <1>6, <2>4 DEF Send
    <3>2. Awaiting \in TsmType
      BY CovSizes DEF Awaiting, TsmType
    <3>3. NextId(i) \in Ids
      BY CovSizes DEF NextId, Ids
    <3>4. i \in 0..NumIds
      BY CovSizes DEF Ids
    <3>5. subs' \in [Slots -> SubType]
      <4>1. subs' = [subs EXCEPT ![s] = [subs[s] EXCEPT !.invokeId = i, !.requested = ~sent]]
        BY <3>1 DEF TypeOK
      <4>2. [subs[s] EXCEPT !.invokeId = i, !.requested = ~sent] \in SubType
        BY <2>2, <3>4 DEF SubType
      <4> QED
        BY <4>1, <4>2 DEF TypeOK
    <3> QED
      BY <1>6, <2>1, <2>3, <3>1, <3>2, <3>3, <3>5 DEF Send, TypeOK
  <2>5. CASE ~subs[s].confirmed
    <3>1. subs' \in [Slots -> SubType]
      <4>1. subs' = [subs EXCEPT ![s] = [subs[s] EXCEPT !.requested = ~sent]]
        BY <1>6, <2>5 DEF Send, TypeOK
      <4>2. [subs[s] EXCEPT !.requested = ~sent] \in SubType
        BY <2>2 DEF SubType
      <4> QED
        BY <4>1, <4>2 DEF TypeOK
    <3> QED
      BY <1>6, <2>1, <2>3, <2>5, <3>1 DEF Send, TypeOK
  <2> QED
    BY <2>4, <2>5
<1> QED
  BY <1>1, <1>2, <1>3, <1>4, <1>5, <1>6 DEF CovTask

\* Every variable keeps its type, the tables their sizes and the ids their
\* range, whatever packets come between the steps of handler_cov_task.
THEOREM CovTypeCorrect == Spec => []TypeOK
<1>1. TypeOK /\ [Next]_vars => TypeOK'
  <2> SUFFICES ASSUME TypeOK, [Next]_vars PROVE TypeOK'
    OBVIOUS
  <2>1. CASE Next
    <3>1. CASE \E e \in 1..MaxElapsed : Second(e)
      BY <3>1, SecondType
    <3>2. CASE CovTask
      BY <3>2, TaskType
    <3>3. CASE ~(\E e \in 1..MaxElapsed : Second(e)) /\ ~CovTask
      BY <2>1, <3>3, PacketType DEF Next
    <3> QED
      BY <3>1, <3>2, <3>3
  <2>2. CASE UNCHANGED vars
    BY <2>2 DEF vars, objVars, taskVars, TypeOK
  <2> QED
    BY <2>1, <2>2
<1> QED
  BY <1>1, InitTypeOK, PTL DEF Spec

----------------------------------------------------------------------------
(* No transaction is leaked *)

\* A transaction in use after a step was in use before, and whoever held it
\* still does: enough for every step that does not start one.
LEMMA StillHeld ==
  ASSUME TypeOK, TransactionsHeld,
         NEW ended,
         \A i \in Ids : tsm'[i].state # "free" => tsm[i].state # "free" /\ i \notin ended,
         \A s \in Slots : subs[s].invokeId \notin ended /\ subs[s].valid =>
            /\ subs'[s].valid = subs[s].valid /\ subs'[s].confirmed = subs[s].confirmed
            /\ subs'[s].invokeId = subs[s].invokeId
  PROVE  TransactionsHeld'
BY DEF TransactionsHeld

LEMMA FreedIsFree ==
  ASSUME NEW ids, NEW i \in Ids, FreeIds(ids)[i].state # "free"
  PROVE  tsm[i].state # "free" /\ i \notin ids
BY DEF FreeIds, Free

\* Accepting a subscription gives back the transaction of the entry it renews.
LEMMA AcceptHeld ==
  ASSUME TypeOK, TransactionsHeld, NEW s \in Slots, NEW c \in Clients,
         NEW sub \in SubType, Accept(s, c, sub)
  PROVE  TransactionsHeld'
<1> DEFINE ended == IF subs[s].valid THEN {subs[s].invokeId} ELSE {}
<1>1. \A i \in Ids : tsm'[i].state # "free" => tsm[i].state # "free" /\ i \notin ended
  BY FreedIsFree DEF Accept
<1>2. \A t \in Slots \ {s} : subs'[t] = subs[t]
  BY DEF Accept, TypeOK
<1>3. ASSUME NEW t \in Slots, subs[t].invokeId \notin ended, subs[t].valid
      PROVE  subs'[t] = subs[t]
  <2>1. t # s
    BY <1>3
  <2> QED
    BY <1>2, <2>1
<1> HIDE DEF ended
<1> QED
  BY <1>1, <1>3, StillHeld

\* So does every other step, and a notification that starts a transaction
\* leaves it with its subscription, which had none.
LEMMA NextHeld ==
  ASSUME TypeOK, TransactionsHeld, Next
  PROVE  TransactionsHeld'
<1>1. ASSUME NEW c \in Clients, NEW o \in Objects, NEW p \in Processes, Cancel(c, o, p)
      PROVE  TransactionsHeld'
  <2>1. PICK s \in Slots : subs' = EndAll({s}, subs) /\ tsm' = FreeIds(HeldIds({s}))
    BY <1>1 DEF Cancel
  <2>2. \A i \in Ids : tsm'[i].state # "free" => tsm[i].state # "free" /\ i \notin {subs[s].invokeId}
    BY <2>1, FreedIsFree DEF HeldIds
  <2>3. \A t \in Slots : t # s => subs'[t] = subs[t]
    BY <2>1 DEF EndAll
  <2> QED
    BY <2>2, <2>3, StillHeld
<1>2. ASSUME NEW r \in Asked,
             Subscribe(r.client, r.object, r.process, r.confirmed, r.lifetime)
      PROVE  TransactionsHeld'
  <2> DEFINE sub == [valid |-> TRUE, object |-> r.object, process |-> r.process, dest |-> 0,
                     confirmed |-> r.confirmed, invokeId |-> 0, lifetime |-> r.lifetime,
                     requested |-> TRUE]
  <2>0. /\ r.client \in Clients /\ r.object \in Objects /\ r.process \in Processes
        /\ r.confirmed \in BOOLEAN /\ r.lifetime \in Nat /\ 0 \in 0..NumAddrs /\ 0 \in 0..NumIds
    BY CovSizes DEF Requests
  <2>1. PICK s \in Slots : Accept(s, r.client, sub)
    BY <1>2 DEF Subscribe
  <2>2. sub \in SubType
    BY <2>0 DEF SubType
  <2> HIDE DEF sub
  <2> QED
    BY <2>0, <2>1, <2>2, AcceptHeld
<1>3. ASSUME NEW i \in Ids, Answer(i)
      PROVE  TransactionsHeld'
  BY <1>3, FreedIsFree, StillHeld DEF Answer
<1>4. ASSUME NEW e \in 1..MaxElapsed, Second(e)
      PROVE  TransactionsHeld'
  <2> DEFINE ended == HeldIds(Expired(e))
  <2>1. ASSUME NEW i \in Ids, tsm'[i].state # "free"
        PROVE  tsm[i].state # "free" /\ i \notin ended
    <3>1. tsm'[i] = TsmAfter(FreeIds(ended)[i], e)
      BY <1>4 DEF Second
    <3>2. FreeIds(ended)[i].state # "free"
      BY <2>1, <3>1 DEF TsmAfter
    <3> QED
      BY <3>2, FreedIsFree
  <2>2. ASSUME NEW s \in Slots, subs[s].invokeId \notin ended, subs[s].valid
        PROVE  /\ subs'[s].valid = subs[s].valid /\ subs'[s].confirmed = subs[s].confirmed
               /\ subs'[s].invokeId = subs[s].invokeId
    <3>1. s \notin Expired(e)
      BY <2>2 DEF HeldIds
    <3>2. subs'[s] = [subs[s] EXCEPT !.lifetime = Minus(@, e)]
      BY <1>4, <2>2, <3>1 DEF Second, EndAll, Older
    <3>3. subs[s] \in SubType
      BY DEF TypeOK
    <3> QED
      BY <3>2, <3>3 DEF SubType
  <2> QED
    BY <2>1, <2>2, StillHeld
<1>5. ASSUME NEW o \in Objects, Write(o)
      PROVE  TransactionsHeld'
  BY <1>5 DEF Write, TransactionsHeld
<1>6. ASSUME NEW status \in {"enable", "disable", "initiation"}, NEW left \in Durations,
             Control(status, left)
      PROVE  TransactionsHeld'
  BY <1>6 DEF Control, TransactionsHeld
<1>7. CASE Begin \/ Skip \/ Clear
  BY <1>7 DEF Begin, Skip, Clear, TransactionsHeld
<1>8. CASE Mark
  <2>1. ASSUME NEW s \in Slots
        PROVE  /\ subs'[s].valid = subs[s].valid /\ subs'[s].confirmed = subs[s].confirmed
               /\ subs'[s].invokeId = subs[s].invokeId
    BY <1>8 DEF Mark, TypeOK, SubType
  <2> QED
    BY <1>8, <2>1 DEF Mark, TransactionsHeld
<1>9. CASE Release
  <2>1. CASE HasEnded(index)
    <3>1. \A i \in Ids : tsm'[i].state # "free" => tsm[i].state # "free" /\ i \notin {subs[index].invokeId}
      BY <1>9, <2>1, FreedIsFree DEF Release
    <3>2. \A s \in Slots : s # index => subs'[s] = subs[s]
      BY <1>9, <2>1 DEF Release, TypeOK
    <3> QED
      BY <3>1, <3>2, StillHeld
  <2>2. CASE ~HasEnded(index)
    BY <1>9, <2>2 DEF Release, TransactionsHeld
  <2> QED
    BY <2>1, <2>2
<1>10. ASSUME NEW s \in Slots, NEW sent \in BOOLEAN, Send(s, sent)
       PROVE  TransactionsHeld'
  <2>1. CASE ~subs[s].confirmed
    <3>1. subs' = [subs EXCEPT ![s] = [subs[s] EXCEPT !.requested = ~sent]] /\ tsm' = tsm
      BY <1>10, <2>1 DEF Send, TypeOK
    <3>2. ASSUME NEW t \in Slots
          PROVE  /\ subs'[t].valid = subs[t].valid /\ subs'[t].confirmed = subs[t].confirmed
                 /\ subs'[t].invokeId = subs[t].invokeId
      BY <3>1 DEF TypeOK, SubType
    <3> QED
      BY <3>1, <3>2 DEF TransactionsHeld
  <2>2. CASE subs[s].confirmed
    <3>1. PICK i \in Ids : /\ tsm' = [tsm EXCEPT ![i] = Awaiting]
                           /\ subs' = [subs EXCEPT ![s].invokeId = i, ![s].requested = ~sent]
      BY <1>10, <2>2 DEF Send
    <3>2. subs[s].valid /\ subs[s].invokeId = 0 /\ subs[s] \in SubType
      BY <1>10, <2>2 DEF Send, MaySend, TypeOK
    <3>3. \A t \in Slots : t # s => subs'[t] = subs[t]
      BY <3>1 DEF TypeOK
    <3>4. subs'[s].valid /\ subs'[s].confirmed /\ subs'[s].invokeId = i
      <4>1. subs'[s] = [subs[s] EXCEPT !.invokeId = i, !.requested = ~sent]
        BY <3>1 DEF TypeOK
      <4> QED
        BY <2>2, <3>2, <4>1 DEF SubType
    <3>5. ASSUME NEW j \in Ids, tsm'[j].state # "free"
          PROVE  \E t \in Slots : subs'[t].valid /\ subs'[t].confirmed /\ subs'[t].invokeId = j
      <4>1. CASE j = i
        BY <3>4, <4>1
      <4>2. CASE j # i
        <5>1. tsm[j].state # "free" /\ j # 0
          BY <3>1, <3>5, <4>2, CovSizes DEF TypeOK, Ids
        <5>2. PICK t \in Slots : subs[t].valid /\ subs[t].confirmed /\ subs[t].invokeId = j
          BY <5>1 DEF TransactionsHeld
        <5> QED
          BY <3>2, <3>3, <5>1, <5>2
      <4> QED
        BY <4>1, <4>2
    <3> QED
      BY <3>5 DEF TransactionsHeld
  <2> QED
    BY <2>1, <2>2
<1> QED
  BY <1>1, <1>2, <1>3, <1>4, <1>5, <1>6, <1>7, <1>8, <1>9, <1>10 DEF Next, CovTask

\* A transaction in use always belongs to a confirmed subscription that is
\* valid, whichever way subscriptions end: the table cannot fill up with
\* transactions nobody frees.
THEOREM NoTransactionLeaks == Spec => []TransactionsHeld
<1>1. Init => TransactionsHeld
  BY DEF Init, TransactionsHeld, Free
<1>2. TypeOK /\ TransactionsHeld /\ [Next]_vars => TransactionsHeld'
  <2>1. ASSUME TransactionsHeld, UNCHANGED vars
        PROVE  TransactionsHeld'
    BY <2>1 DEF vars, TransactionsHeld
  <2> QED
    BY <2>1, NextHeld
<1> QED
  BY <1>1, <1>2, CovTypeCorrect, PTL DEF Spec

----------------------------------------------------------------------------
(* Notifications go to who asked for them *)

\* Steps that neither move subscriptions to other slots nor touch addresses.
LEMMA SameAddresses ==
  ASSUME AddressInv, addrs' = addrs, subscriber' = subscriber,
         \A s \in Slots : subs'[s].valid = subs[s].valid /\ subs'[s].dest = subs[s].dest
  PROVE  SubscriberKnown' /\ NotifiesSubscriber'
BY DEF AddressInv, SubscriberKnown, NotifiesSubscriber

\* Subscriptions end: the slots of those that remain are in use, and kept.
LEMMA EndedAddresses ==
  ASSUME AddressInv, NEW ss, NEW others \in [Slots -> SubType],
         \A s \in Slots : /\ others[s].valid = subs[s].valid
                          /\ others[s].dest = subs[s].dest,
         subs' = EndAll(ss, others), subscriber' = Ended(subscriber, ss),
         addrs' = addrs \/ addrs' = RemoveUnused(EndAll(ss, others))
  PROVE  SubscriberKnown' /\ NotifiesSubscriber'
<1>1. ASSUME NEW s \in Slots, subs'[s].valid
      PROVE  /\ subs[s].valid /\ subs'[s].dest = subs[s].dest
             /\ subscriber'[s] = subscriber[s]
  BY <1>1 DEF EndAll, Ended, Blank
<1>2. ASSUME NEW s \in Slots, subs'[s].valid, subs'[s].dest # 0
      PROVE  addrs'[subs'[s].dest] = addrs[subs'[s].dest]
  <2>1. subs'[s].dest \in AddrSlots
    BY <1>1, <1>2, CovSizes DEF AddressInv, TypeOK, SubType, AddrSlots
  <2> QED
    BY <1>2, <2>1 DEF RemoveUnused
<1> QED
  BY <1>1, <1>2 DEF AddressInv, SubscriberKnown, NotifiesSubscriber

\* A slot that is taken for a new client is in nobody's use.
LEMMA AcceptAddresses ==
  ASSUME AddressInv, NEW s \in Slots, NEW c \in Clients, NEW sub \in SubType, Accept(s, c, sub)
  PROVE  SubscriberKnown' /\ NotifiesSubscriber'
<1>1. PICK a \in 0..NumAddrs :
         /\ AddressSlot(c, a)
         /\ subs' = [subs EXCEPT ![s] = [sub EXCEPT !.dest = a]]
         /\ addrs' = [b \in AddrSlots |-> IF b = a THEN c ELSE addrs[b]]
  BY DEF Accept
<1>2. \A t \in Slots : t # s => subs'[t] = subs[t] /\ subscriber'[t] = subscriber[t]
  BY <1>1 DEF Accept, AddressInv, TypeOK
<1>3. subscriber'[s] = c /\ subs'[s].dest = a
  <2>1. subs'[s] = [sub EXCEPT !.dest = a]
    BY <1>1 DEF AddressInv, TypeOK
  <2> QED
    BY <2>1 DEF Accept, AddressInv, TypeOK, SubType
<1>4. SubscriberKnown'
  BY <1>2, <1>3 DEF AddressInv, SubscriberKnown
<1>5. ASSUME NEW t \in Slots, subs'[t].valid, subs'[t].dest # 0
      PROVE  addrs'[subs'[t].dest] = subscriber'[t]
  <2>1. CASE t = s
    <3>1. a \in AddrSlots
      BY <1>3, <1>5, <2>1, CovSizes DEF AddrSlots
    <3> QED
      BY <1>1, <1>3, <2>1, <3>1
  <2>2. CASE t # s
    <3>1. /\ subs[t].valid /\ subs[t].dest # 0 /\ subs[t].dest \in AddrSlots
          /\ addrs[subs[t].dest] = subscriber[t] /\ subscriber[t] \in Clients
      <4>1. subs'[t] = subs[t]
        BY <1>2, <2>2
      <4>2. subs[t].valid /\ subs[t].dest # 0
        BY <1>5, <4>1
      <4>3. subs[t].dest \in 0..NumAddrs
        BY DEF AddressInv, TypeOK, SubType
      <4>4. subs[t].dest \in AddrSlots
        BY <4>2, <4>3, CovSizes DEF AddrSlots
      <4> QED
        BY <4>2, <4>4 DEF AddressInv, SubscriberKnown, NotifiesSubscriber
    <3>2. subs[t].dest = a => addrs[a] = c
      BY <3>1, <1>1, CovSizes DEF AddressSlot, IsFirst
    <3> QED
      BY <1>1, <1>2, <2>2, <3>1, <3>2
  <2> QED
    BY <2>1, <2>2
<1> QED
  BY <1>4, <1>5 DEF NotifiesSubscriber

\* Sending changes the id and the request of one subscription, no more.
LEMMA SendKeeps ==
  ASSUME TypeOK, NEW s \in Slots, NEW sent \in BOOLEAN, Send(s, sent), NEW t \in Slots
  PROVE  /\ subs'[t].valid = subs[t].valid /\ subs'[t].dest = subs[t].dest
         /\ subs'[t].object = subs[t].object
         /\ subs'[t].requested = IF t = s THEN ~sent ELSE subs[t].requested
<1>1. CASE subs[s].confirmed
  <2>1. PICK i \in Ids : subs' = [subs EXCEPT ![s].invokeId = i, ![s].requested = ~sent]
    BY <1>1 DEF Send
  <2>2. subs'[s] = [subs[s] EXCEPT !.invokeId = i, !.requested = ~sent]
    BY <2>1 DEF TypeOK
  <2>3. t # s => subs'[t] = subs[t]
    BY <2>1 DEF TypeOK
  <2>4. subs[s] \in SubType
    BY DEF TypeOK
  <2>5. /\ subs'[s].valid = subs[s].valid /\ subs'[s].dest = subs[s].dest
        /\ subs'[s].object = subs[s].object /\ subs'[s].requested = ~sent
    BY <2>2, <2>4 DEF SubType
  <2> QED
    BY <2>3, <2>5
<1>2. CASE ~subs[s].confirmed
  <2>1. subs' = [subs EXCEPT ![s].requested = ~sent]
    BY <1>2 DEF Send
  <2>2. subs'[s] = [subs[s] EXCEPT !.requested = ~sent]
    BY <2>1 DEF TypeOK
  <2>3. t # s => subs'[t] = subs[t]
    BY <2>1 DEF TypeOK
  <2> QED
    BY <2>2, <2>3 DEF TypeOK, SubType
<1> QED
  BY <1>1, <1>2

LEMMA NextAddresses ==
  ASSUME AddressInv, Next
  PROVE  SubscriberKnown' /\ NotifiesSubscriber'
<1> USE DEF AddressInv
<1>1. ASSUME NEW c \in Clients, NEW o \in Objects, NEW p \in Processes, Cancel(c, o, p)
      PROVE  SubscriberKnown' /\ NotifiesSubscriber'
  <2>1. PICK s \in Slots : /\ subs' = EndAll({s}, subs) /\ subscriber' = Ended(subscriber, {s})
                           /\ addrs' = RemoveUnused(EndAll({s}, subs))
    BY <1>1 DEF Cancel
  <2>2. subs \in [Slots -> SubType]
    BY DEF TypeOK
  <2> QED
    BY <2>1, <2>2, EndedAddresses
<1>2. ASSUME NEW r \in Asked,
             Subscribe(r.client, r.object, r.process, r.confirmed, r.lifetime)
      PROVE  SubscriberKnown' /\ NotifiesSubscriber'
  <2> DEFINE sub == [valid |-> TRUE, object |-> r.object, process |-> r.process, dest |-> 0,
                     confirmed |-> r.confirmed, invokeId |-> 0, lifetime |-> r.lifetime,
                     requested |-> TRUE]
  <2>0. /\ r.client \in Clients /\ r.object \in Objects /\ r.process \in Processes
        /\ r.confirmed \in BOOLEAN /\ r.lifetime \in Nat /\ 0 \in 0..NumAddrs /\ 0 \in 0..NumIds
    BY CovSizes DEF Requests
  <2>1. PICK s \in Slots : Accept(s, r.client, sub)
    BY <1>2 DEF Subscribe
  <2>2. sub \in SubType
    BY <2>0 DEF SubType
  <2> HIDE DEF sub
  <2> QED
    BY <2>0, <2>1, <2>2, AcceptAddresses
<1>3. ASSUME NEW e \in 1..MaxElapsed, Second(e)
      PROVE  SubscriberKnown' /\ NotifiesSubscriber'
  <2>1. e \in Nat /\ Older(e) \in [Slots -> SubType]
    BY CovSizes, OlderType
  <2>2. ASSUME NEW s \in Slots
        PROVE  Older(e)[s].valid = subs[s].valid /\ Older(e)[s].dest = subs[s].dest
    BY DEF Older, TypeOK, SubType
  <2> QED
    BY <1>3, <2>1, <2>2, EndedAddresses DEF Second
<1>4. ASSUME NEW i \in Ids, Answer(i)
      PROVE  SubscriberKnown' /\ NotifiesSubscriber'
  BY <1>4, SameAddresses DEF Answer
<1>5. ASSUME NEW o \in Objects, Write(o)
      PROVE  SubscriberKnown' /\ NotifiesSubscriber'
  BY <1>5, SameAddresses DEF Write
<1>6. ASSUME NEW status \in {"enable", "disable", "initiation"}, NEW left \in Durations,
             Control(status, left)
      PROVE  SubscriberKnown' /\ NotifiesSubscriber'
  BY <1>6, SameAddresses DEF Control
<1>7. CASE Begin \/ Skip \/ Clear
  BY <1>7, SameAddresses DEF Begin, Skip, Clear
<1>8. CASE Mark \/ Release
  <2>1. ASSUME NEW s \in Slots
        PROVE  subs'[s].valid = subs[s].valid /\ subs'[s].dest = subs[s].dest
    BY <1>8 DEF Mark, Release, TypeOK, SubType
  <2> QED
    BY <1>8, <2>1, SameAddresses DEF Mark, Release
<1>9. ASSUME NEW s \in Slots, NEW sent \in BOOLEAN, Send(s, sent)
      PROVE  SubscriberKnown' /\ NotifiesSubscriber'
  <2> QED
    BY <1>9, SendKeeps, SameAddresses DEF Send
<1> QED
  BY <1>1, <1>2, <1>3, <1>4, <1>5, <1>6, <1>7, <1>8, <1>9 DEF Next, CovTask

\* The address a notification is sent to is that of the client that asked for
\* it, whatever subscriptions of others came, expired or were cancelled since.
THEOREM NotificationsReachSubscriber == Spec => []NotifiesSubscriber
<1>1. Init => SubscriberKnown /\ NotifiesSubscriber
  BY DEF Init, SubscriberKnown, NotifiesSubscriber, Blank
<1>2. TypeOK /\ SubscriberKnown /\ NotifiesSubscriber /\ [Next]_vars
        => SubscriberKnown' /\ NotifiesSubscriber'
  <2>1. ASSUME SubscriberKnown, NotifiesSubscriber, UNCHANGED vars
        PROVE  SubscriberKnown' /\ NotifiesSubscriber'
    BY <2>1 DEF vars, SubscriberKnown, NotifiesSubscriber
  <2> QED
    BY <2>1, NextAddresses DEF AddressInv
<1> QED
  BY <1>1, <1>2, CovTypeCorrect, PTL DEF Spec

----------------------------------------------------------------------------
(* A change is never forgotten *)

\* Enough for every step that sends nothing, writes nothing and takes no flag:
\* what is told and asked of the subscriptions that remain stays.
LEMMA SamePending ==
  ASSUME PendingInv, value' = value, changed' = changed,
         \A s \in Slots : subs'[s].valid =>
            /\ subs[s].valid /\ subs'[s].object = subs[s].object /\ told'[s] = told[s]
            /\ subs[s].requested => subs'[s].requested
  PROVE  SharedIsTold' /\ ChangeIsPending'
BY DEF PendingInv, SharedIsTold, ChangeIsPending, Behind

\* Subscriptions end.
LEMMA EndedPending ==
  ASSUME PendingInv, value' = value, changed' = changed,
         NEW ss, NEW others \in [Slots -> SubType],
         \A s \in Slots : /\ others[s].valid = subs[s].valid
                          /\ others[s].object = subs[s].object
                          /\ others[s].requested = subs[s].requested,
         subs' = EndAll(ss, others), told' = Ended(told, ss)
  PROVE  SharedIsTold' /\ ChangeIsPending'
<1>1. ASSUME NEW s \in Slots, subs'[s].valid
      PROVE  subs'[s] = others[s] /\ told'[s] = told[s]
  BY <1>1 DEF EndAll, Ended, Blank
<1> QED
  BY <1>1, SamePending

\* A new subscription has its first notification requested, and whoever
\* watched its object alone does so no more.
LEMMA AcceptPending ==
  ASSUME PendingInv, value' = value, changed' = changed, NEW s \in Slots,
         NEW c \in Clients, NEW sub \in SubType, sub.requested, Accept(s, c, sub)
  PROVE  SharedIsTold' /\ ChangeIsPending'
<1>1. PICK a \in 0..NumAddrs : subs' = [subs EXCEPT ![s] = [sub EXCEPT !.dest = a]]
  BY DEF Accept
<1>2. subs'[s].object = sub.object /\ subs'[s].requested
  <2>1. subs'[s] = [sub EXCEPT !.dest = a]
    BY <1>1 DEF PendingInv, TypeOK
  <2> QED
    BY <2>1 DEF SubType
<1>3. \A t \in Slots : t # s => subs'[t] = subs[t]
  BY <1>1 DEF PendingInv, TypeOK
<1>4. \A t \in Slots : told'[t] =
        IF t = s THEN (IF Others(s, sub.object) = {} THEN None ELSE Shared)
        ELSE IF t \in Others(s, sub.object) THEN Shared ELSE told[t]
  BY DEF Accept
<1>5. ASSUME NEW t \in Slots, NEW u \in Slots, t # u, subs'[t].valid, subs'[u].valid,
             subs'[t].object = subs'[u].object
      PROVE  told'[t] = Shared
  <2>1. CASE t = s
    BY <1>2, <1>3, <1>4, <1>5, <2>1 DEF Others
  <2>2. CASE u = s
    BY <1>2, <1>3, <1>4, <1>5, <2>2 DEF Others
  <2>3. CASE t # s /\ u # s
    BY <1>3, <1>4, <1>5, <2>3 DEF PendingInv, SharedIsTold
  <2> QED
    BY <2>1, <2>2, <2>3
<1>6. ASSUME NEW t \in Slots, Behind(t)'
      PROVE  subs'[t].requested \/ changed'[subs'[t].object]
  BY <1>2, <1>3, <1>4, <1>6 DEF PendingInv, ChangeIsPending, Behind
<1> QED
  BY <1>5, <1>6 DEF SharedIsTold, ChangeIsPending

\* The flag of an object is taken for a subscription that asks to be sent; any
\* other that watches the object is Shared.
LEMMA ClearPending ==
  ASSUME PendingInv, Clear
  PROVE  SharedIsTold' /\ ChangeIsPending'
<1>1. index \in Slots /\ subs' = subs /\ told' = told /\ value' = value
  BY DEF Clear, PendingInv, TypeOK
<1>2. ASSUME NEW t \in Slots, Behind(t)
      PROVE  subs[t].requested \/ changed'[subs[t].object]
  <2>1. subs[t].requested \/ changed[subs[t].object]
    BY <1>2 DEF PendingInv, ChangeIsPending
  <2>2. subs[t].valid /\ told[t] # Shared /\ subs[t].object \in Objects
    BY <1>2 DEF Behind, PendingInv, TypeOK, SubType
  <2>3. CASE subs[index].object = subs[t].object /\ subs[index].valid /\ subs[index].requested
    BY <1>1, <2>2, <2>3 DEF PendingInv, SharedIsTold
  <2>4. CASE ~(subs[index].object = subs[t].object /\ subs[index].valid /\ subs[index].requested)
    <3>1. changed'[subs[t].object] = changed[subs[t].object]
      BY <2>2, <2>4 DEF Clear, PendingInv, TypeOK
    <3> QED
      BY <2>1, <3>1
  <2> QED
    BY <2>3, <2>4
<1> QED
  BY <1>1, <1>2 DEF PendingInv, SharedIsTold, ChangeIsPending, Behind

\* What is sent is the value of now, or the subscription shares its object.
LEMMA SendPending ==
  ASSUME PendingInv, NEW s \in Slots, NEW sent \in BOOLEAN, Send(s, sent)
  PROVE  SharedIsTold' /\ ChangeIsPending'
<1>1. value' = value /\ changed' = changed
  BY DEF Send, objVars
<1>2. CASE sent
  <2>1. told' = [told EXCEPT ![s] = IF Others(s, subs[s].object) = {}
                                    THEN value[subs[s].object] ELSE Shared]
    BY <1>2 DEF Send
  <2>2. ASSUME NEW t \in Slots, NEW u \in Slots, t # u, subs'[t].valid, subs'[u].valid,
               subs'[t].object = subs'[u].object
        PROVE  told'[t] = Shared
    <3>1. /\ subs[t].valid /\ subs[u].valid /\ subs[t].object = subs[u].object
      BY <2>2, SendKeeps DEF PendingInv
    <3>2. t = s => u \in Others(s, subs[s].object)
      BY <2>2, <3>1 DEF Others
    <3> QED
      BY <2>1, <2>2, <3>1, <3>2 DEF PendingInv, SharedIsTold, TypeOK
  <2>3. ASSUME NEW t \in Slots, Behind(t)'
        PROVE  subs'[t].requested \/ changed'[subs'[t].object]
    <3>1. subs'[t].valid = subs[t].valid /\ subs'[t].object = subs[t].object
      BY SendKeeps DEF PendingInv
    <3>2. t # s
      <4>1. SUFFICES ASSUME t = s PROVE FALSE
        OBVIOUS
      <4> DEFINE now == value[subs[s].object]
      <4>2. now \in BinaryInput /\ told'[s] \in {now, Shared}
        BY <2>1 DEF PendingInv, TypeOK, SubType
      <4>3. told'[s] = now
        BY <2>3, <4>1, <4>2 DEF Behind
      <4>4. now # None
        BY <4>2, CovSizes
      <4>5. [now EXCEPT !.polarity = now.polarity] = now
        BY <4>2 DEF BinaryInput
      <4> HIDE DEF now
      <4>6. value'[subs'[t].object] = now
        BY <1>1, <3>1, <4>1 DEF now
      <4> QED
        BY <2>3, <4>1, <4>3, <4>4, <4>5, <4>6 DEF Behind
    <3>3. Behind(t) /\ subs'[t].requested = subs[t].requested
      BY <1>1, <2>1, <2>3, <3>1, <3>2, SendKeeps DEF Behind, PendingInv, TypeOK
    <3> QED
      BY <1>1, <3>1, <3>3 DEF PendingInv, ChangeIsPending
  <2> QED
    BY <2>2, <2>3 DEF SharedIsTold, ChangeIsPending
<1>3. CASE ~sent
  <2>1. told' = told
    BY <1>3 DEF Send
  <2>2. ASSUME NEW t \in Slots
        PROVE  /\ subs'[t].valid = subs[t].valid /\ subs'[t].object = subs[t].object
               /\ subs[t].requested => subs'[t].requested
    BY <1>3, SendKeeps DEF PendingInv
  <2> QED
    BY <1>1, <2>1, <2>2, SamePending
<1> QED
  BY <1>2, <1>3

\* What differs from a notification, but for the polarity, is what a write flags.
LEMMA DifferenceIsFlagged ==
  ASSUME NEW old \in BinaryInput, NEW now \in BinaryInput
  PROVE  (ValueList(old) # ValueList([now EXCEPT !.polarity = old.polarity])) <=> Flagged(old, now)
<1> DEFINE read == [now EXCEPT !.polarity = old.polarity]
<1>1. /\ read.present = now.present /\ read.outOfService = now.outOfService
      /\ read.polarity = old.polarity
      /\ old.present \in {"inactive", "active"} /\ now.present \in {"inactive", "active"}
      /\ old.polarity \in {"normal", "reverse"}
  BY DEF BinaryInput
<1>2. old.present = now.present <=> Oriented(old.present, old.polarity) = Oriented(now.present, old.polarity)
  BY <1>1 DEF Oriented
<1> HIDE DEF read
<1>3. ValueList(old) = ValueList(read) <=>
        /\ Oriented(old.present, old.polarity) = Oriented(read.present, read.polarity)
        /\ old.outOfService = read.outOfService
  BY DEF ValueList
<1>4. ValueList(old) = ValueList(read) <=> ~Flagged(old, now)
  BY <1>1, <1>2, <1>3 DEF Flagged
<1> QED
  BY <1>4 DEF read

\* A subscription that has not been told, or not what its object holds now.
LEMMA BehindIs ==
  ASSUME PendingInv, NEW s \in Slots
  PROVE  Behind(s) <=> /\ subs[s].valid /\ told[s] # Shared
                       /\ told[s] # None => Flagged(told[s], value[subs[s].object])
<1>1. value[subs[s].object] \in BinaryInput /\ told[s] \in BinaryInput \cup {None, Shared}
  BY DEF PendingInv, TypeOK, SubType
<1>2. CASE told[s] \in BinaryInput
  BY <1>1, <1>2, DifferenceIsFlagged DEF Behind
<1>3. CASE told[s] \in {None, Shared}
  BY <1>3 DEF Behind
<1> QED
  BY <1>1, <1>2, <1>3

\* A write flags what it changes, so whoever is behind after it was behind before or
\* finds the flag; a write of the polarity leaves it as it was.
LEMMA WritePending ==
  ASSUME PendingInv, NEW o \in Objects, Write(o)
  PROVE  SharedIsTold' /\ ChangeIsPending'
<1>1. subs' = subs /\ told' = told
  BY DEF Write
<1>2. PICK new \in BinaryInput :
        /\ value' = [value EXCEPT ![o] = new]
        /\ changed' = [changed EXCEPT ![o] = @ \/ Flagged(value[o], new)]
  BY DEF Write
<1>3. ASSUME NEW s \in Slots, Behind(s)'
      PROVE  subs'[s].requested \/ changed'[subs'[s].object]
  <2>1. subs[s].object \in Objects /\ changed \in [Objects -> BOOLEAN]
    BY DEF PendingInv, TypeOK, SubType
  <2>2. changed[subs[s].object] => changed'[subs[s].object]
    BY <1>2, <2>1
  <2>3. CASE Behind(s)
    BY <1>1, <2>2, <2>3 DEF PendingInv, ChangeIsPending
  <2>4. CASE ~Behind(s)
    <3>1. subs[s].valid /\ told[s] # Shared
      BY <1>1, <1>3 DEF Behind
    <3>2. told[s] # None /\ ~Flagged(told[s], value[subs[s].object])
      BY <2>4, <3>1, BehindIs
    <3>3. told[s] \in BinaryInput /\ value'[subs[s].object] \in BinaryInput
      BY <1>2, <2>1, <3>1, <3>2 DEF PendingInv, TypeOK
    <3>4. ValueList(told[s]) # ValueList([value'[subs[s].object] EXCEPT !.polarity = told[s].polarity])
      BY <1>1, <1>3, <3>2 DEF Behind
    <3>5. Flagged(told[s], value'[subs[s].object])
      BY <3>3, <3>4, DifferenceIsFlagged
    <3>6. o = subs[s].object /\ value'[o] = new
      BY <1>2, <2>1, <3>2, <3>5 DEF PendingInv, TypeOK
    <3>7. Flagged(value[o], new)
      BY <3>2, <3>5, <3>6 DEF Flagged
    <3> QED
      BY <1>1, <1>2, <2>1, <3>6, <3>7
  <2> QED
    BY <2>3, <2>4
<1> QED
  BY <1>1, <1>3 DEF PendingInv, SharedIsTold, ChangeIsPending

LEMMA NextPending ==
  ASSUME PendingInv, Next
  PROVE  SharedIsTold' /\ ChangeIsPending'
<1>1. ASSUME NEW c \in Clients, NEW o \in Objects, NEW p \in Processes, Cancel(c, o, p)
      PROVE  SharedIsTold' /\ ChangeIsPending'
  <2>1. PICK s \in Slots : subs' = EndAll({s}, subs) /\ told' = Ended(told, {s})
    BY <1>1 DEF Cancel
  <2>2. subs \in [Slots -> SubType] /\ value' = value /\ changed' = changed
    BY <1>1 DEF PendingInv, TypeOK, Cancel, objVars
  <2> QED
    BY <2>1, <2>2, EndedPending
<1>2. ASSUME NEW r \in Asked,
             Subscribe(r.client, r.object, r.process, r.confirmed, r.lifetime)
      PROVE  SharedIsTold' /\ ChangeIsPending'
  <2> DEFINE sub == [valid |-> TRUE, object |-> r.object, process |-> r.process, dest |-> 0,
                     confirmed |-> r.confirmed, invokeId |-> 0, lifetime |-> r.lifetime,
                     requested |-> TRUE]
  <2>0. /\ r.client \in Clients /\ r.object \in Objects /\ r.process \in Processes
        /\ r.confirmed \in BOOLEAN /\ r.lifetime \in Nat /\ 0 \in 0..NumAddrs /\ 0 \in 0..NumIds
    BY CovSizes DEF Requests
  <2>1. PICK s \in Slots : Accept(s, r.client, sub)
    BY <1>2 DEF Subscribe
  <2>2. sub \in SubType /\ sub.requested
    BY <2>0 DEF SubType
  <2>3. value' = value /\ changed' = changed
    BY <1>2 DEF Subscribe, objVars
  <2> HIDE DEF sub
  <2> QED
    BY <2>0, <2>1, <2>2, <2>3, AcceptPending
<1>3. ASSUME NEW e \in 1..MaxElapsed, Second(e)
      PROVE  SharedIsTold' /\ ChangeIsPending'
  <2>1. e \in Nat /\ Older(e) \in [Slots -> SubType]
    BY CovSizes, OlderType DEF PendingInv
  <2>2. ASSUME NEW s \in Slots
        PROVE  /\ Older(e)[s].valid = subs[s].valid /\ Older(e)[s].object = subs[s].object
               /\ Older(e)[s].requested = subs[s].requested
    BY DEF Older, PendingInv, TypeOK, SubType
  <2>3. value' = value /\ changed' = changed
    BY <1>3 DEF Second, objVars
  <2> QED
    BY <1>3, <2>1, <2>2, <2>3, EndedPending DEF Second
<1>4. ASSUME NEW i \in Ids, Answer(i)
      PROVE  SharedIsTold' /\ ChangeIsPending'
  BY <1>4, SamePending DEF Answer, objVars
<1>5. ASSUME NEW o \in Objects, Write(o)
      PROVE  SharedIsTold' /\ ChangeIsPending'
  BY <1>5, WritePending
<1>6. ASSUME NEW status \in {"enable", "disable", "initiation"}, NEW left \in Durations,
             Control(status, left)
      PROVE  SharedIsTold' /\ ChangeIsPending'
  BY <1>6, SamePending DEF Control, objVars
<1>7. CASE Begin \/ Skip
  BY <1>7, SamePending DEF Begin, Skip, objVars
<1>8. CASE Mark \/ Release
  <2>1. ASSUME NEW s \in Slots
        PROVE  /\ subs'[s].valid = subs[s].valid /\ subs'[s].object = subs[s].object
               /\ subs[s].requested => subs'[s].requested
    BY <1>8, SMTT(30) DEF Mark, Release, PendingInv, TypeOK, SubType
  <2> QED
    BY <1>8, <2>1, SamePending DEF Mark, Release, objVars
<1>9. CASE Clear
  BY <1>9, ClearPending
<1>10. ASSUME NEW s \in Slots, NEW sent \in BOOLEAN, Send(s, sent)
       PROVE  SharedIsTold' /\ ChangeIsPending'
  BY <1>10, SendPending
<1> QED
  BY <1>1, <1>2, <1>3, <1>4, <1>5, <1>6, <1>7, <1>8, <1>9, <1>10 DEF Next, CovTask

\* A change of an object that one subscription watches is flagged or requested
\* until it is sent, wherever a write falls between the steps of the task.
THEOREM NoChangeIsForgotten == Spec => []ChangeIsPending
<1>1. Init => SharedIsTold /\ ChangeIsPending
  BY DEF Init, SharedIsTold, ChangeIsPending, Behind, Blank
<1>2. TypeOK /\ SharedIsTold /\ ChangeIsPending /\ [Next]_vars
        => SharedIsTold' /\ ChangeIsPending'
  <2>1. ASSUME SharedIsTold, ChangeIsPending, UNCHANGED vars
        PROVE  SharedIsTold' /\ ChangeIsPending'
    BY <2>1 DEF vars, objVars, SharedIsTold, ChangeIsPending, Behind
  <2> QED
    BY <2>1, NextPending DEF PendingInv
<1> QED
  BY <1>1, <1>2, CovTypeCorrect, PTL DEF Spec
=============================================================================
