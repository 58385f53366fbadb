----------------------------- MODULE BacnetCov -----------------------------
(***************************************************************************)
(* Subscriptions to changes of value in the BACnet server                  *)
(* (BACnet/native/h_cov.c), with the transactions that carry confirmed     *)
(* notifications (tsm.c), the communication control that silences the      *)
(* device (dcc.c, h_dcc.c) and the binary inputs that are watched (bi.c).  *)
(*                                                                         *)
(* One thread runs a loop (BACnet_control_main.c): it handles at most one  *)
(* packet, runs the timers when a second has passed, and lets the          *)
(* notification task do one step, which looks at one subscription. The     *)
(* task marks the subscriptions of changed objects, clears the flags of    *)
(* the objects, frees transactions that ended, and sends; packets and      *)
(* timers come between any two of its steps.                               *)
(*                                                                         *)
(* told and subscriber are history: what a subscription was last sent, and *)
(* who asked for it.                                                       *)
(***************************************************************************)
EXTENDS Integers, FiniteSets

CONSTANTS
  Objects,          \* the binary inputs that can be watched
  Writable,         \* bound of the model: the properties of each object clients write
  Clients,          \* BACnet addresses that subscribe
  Processes,        \* subscriberProcessIdentifier
  NumSubs,          \* MAX_COV_SUBCRIPTIONS, 128
  NumAddrs,         \* MAX_COV_ADDRESSES, 16
  NumIds,           \* invoke ids are 1..NumIds, 255
  NumTransactions,  \* MAX_TSM_TRANSACTIONS, 255
  ApduTimeout,      \* 3000 ms, in ticks
  ApduRetries,      \* 3
  MaxElapsed,       \* ticks between two runs of the timers at most
  Asked,            \* bound of the model: who subscribes to what, confirmed or not,
                    \* and for how long, 0 for ever
  Durations,        \* the durations of communication control, 0 for ever
  None, Shared      \* no value or address; a subscription that is not alone

\* What a binary input stores of the properties clients may write. Present_Value is
\* stored without its polarity.
Properties == {"present", "outOfService", "polarity"}
BinaryInput == [present: {"inactive", "active"}, outOfService: BOOLEAN,
                polarity: {"normal", "reverse"}]

Requests == [client: Clients, object: Objects, process: Processes,
             confirmed: BOOLEAN, lifetime: Nat]

ASSUME CovSizes ==
  /\ Objects # {} /\ Processes # {} /\ Writable \in [Objects -> SUBSET Properties]
  /\ NumSubs \in Nat \ {0} /\ NumAddrs \in Nat /\ NumIds \in Nat \ {0}
  /\ NumTransactions \in 0..NumIds
  /\ ApduTimeout \in Nat \ {0} /\ ApduRetries \in Nat /\ MaxElapsed \in Nat \ {0}
  /\ Asked \subseteq Requests /\ Durations \subseteq Nat
  /\ None \notin BinaryInput \cup Clients /\ Shared \notin BinaryInput \cup {None}

VARIABLES
  value,      \* Present_Value, Out_Of_Service and Polarity of each object
  changed,    \* Change_Of_Value
  subs,       \* COV_Subscriptions
  addrs,      \* COV_Addresses: the address in each slot, or None
  tsm,        \* TSM_List, by invoke id
  currentId,  \* Current_Invoke_ID
  phase, index,  \* cov_task_state and index of handler_cov_task
  dcc,        \* DCC_Enable_Disable and DCC_Time_Duration_Seconds
  told,       \* history: the object as each subscription was last sent it
  subscriber  \* history: who asked for each subscription

vars == <<value, changed, subs, addrs, tsm, currentId, phase, index, dcc, told, subscriber>>
objVars == <<value, changed>>
taskVars == <<phase, index>>

Slots == 1..NumSubs
AddrSlots == 1..NumAddrs
Ids == 1..NumIds
Phases == {"idle", "mark", "clear", "free", "send"}

SubType == [valid: BOOLEAN, object: Objects, process: Processes, dest: 0..NumAddrs,
            confirmed: BOOLEAN, invokeId: 0..NumIds, lifetime: Nat, requested: BOOLEAN]
TsmType == [state: {"free", "await", "failed"}, timer: 0..ApduTimeout, retry: 0..ApduRetries]

Blank == [valid |-> FALSE, object |-> CHOOSE o \in Objects : TRUE,
          process |-> CHOOSE p \in Processes : TRUE, dest |-> 0, confirmed |-> FALSE,
          invokeId |-> 0, lifetime |-> 0, requested |-> FALSE]
Free == [state |-> "free", timer |-> 0, retry |-> 0]
Awaiting == [state |-> "await", timer |-> ApduTimeout, retry |-> 0]

IsFirst(i, S) == i \in S /\ \A j \in S : i <= j

----------------------------------------------------------------------------
(* Addresses and transactions *)

HasAddress(s) == subs[s].dest # 0 /\ addrs[subs[s].dest] # None

\* cov_address_add: a is the slot that holds c, or a free one, or none (-1).
AddressSlot(c, a) ==
  LET held == {b \in AddrSlots : addrs[b] = c}
      open == {b \in AddrSlots : addrs[b] = None}
  IN  \/ IsFirst(a, held)
      \/ held = {} /\ IsFirst(a, open)
      \/ held = {} /\ open = {} /\ a = 0

\* Mutant of RemoveUnused: an address stays only if every subscription uses it.
RemoveUnusedByAny(newSubs) ==
  [a \in AddrSlots |-> IF \A s \in Slots : newSubs[s].valid /\ newSubs[s].dest = a
                       THEN addrs[a] ELSE None]

\* cov_address_remove_unused, once the subscriptions are newSubs
RemoveUnused(newSubs) ==
  [a \in AddrSlots |-> IF \E s \in Slots : newSubs[s].valid /\ newSubs[s].dest = a
                       THEN addrs[a] ELSE None]

\* tsm_free_invoke_id for each of the ids
FreeIds(ids) == [i \in Ids |-> IF i \in ids THEN Free ELSE tsm[i]]

InUse == {i \in Ids : tsm[i].state # "free"}
TransactionAvailable == Cardinality(InUse) < NumTransactions

\* The ids from Current_Invoke_ID on, around the wrap that skips 0
Distance(i) == (i - currentId) % NumIds
NextId(i) == IF i = NumIds THEN 1 ELSE i + 1

\* tsm_next_free_invokeID: the first id no transaction uses
NextFreeId(i) == i \notin InUse /\ \A j \in Ids \ InUse : Distance(i) <= Distance(j)

----------------------------------------------------------------------------
(* Packets *)

Processed == dcc.status # "disable"   \* apdu_confirmed_dcc_disabled

\* Subscriptions that the request of c for o and p is about. One that has no
\* address matches any address.
Matching(c, o, p) ==
  {s \in Slots : /\ subs[s].valid /\ subs[s].object = o /\ subs[s].process = p
                 /\ HasAddress(s) => addrs[subs[s].dest] = c}
Invalid == {s \in Slots : ~subs[s].valid}
Others(s, o) == {t \in Slots \ {s} : subs[t].valid /\ subs[t].object = o}

\* The subscription s is made or renewed for c. Nobody is alone any more who
\* watches the same object.
Accept(s, c, sub) ==
  /\ \E a \in 0..NumAddrs :
       /\ AddressSlot(c, a)
       /\ subs' = [subs EXCEPT ![s] = [sub EXCEPT !.dest = a]]
       /\ addrs' = [b \in AddrSlots |-> IF b = a THEN c ELSE addrs[b]]
  /\ tsm' = FreeIds(IF subs[s].valid THEN {subs[s].invokeId} ELSE {})
  /\ subscriber' = [subscriber EXCEPT ![s] = c]
  /\ told' = [t \in Slots |->
       IF t = s THEN (IF Others(s, sub.object) = {} THEN None ELSE Shared)
       ELSE IF t \in Others(s, sub.object) THEN Shared ELSE told[t]]

\* cov_list_subscribe, without a cancellation: the entry of this client is
\* renewed, or the first free one is taken, or the request is refused.
Subscribe(c, o, p, confirmed, lifetime) ==
  /\ Processed
  /\ \E s \in Slots :
       /\ \/ IsFirst(s, Matching(c, o, p))
          \/ Matching(c, o, p) = {} /\ IsFirst(s, Invalid)
       /\ Accept(s, c, [valid |-> TRUE, object |-> o, process |-> p, dest |-> 0,
                        confirmed |-> confirmed, invokeId |-> 0, lifetime |-> lifetime,
                        requested |-> TRUE])
  /\ UNCHANGED <<objVars, currentId, taskVars, dcc>>

\* The subscriptions of ss end: their addresses are given up and their
\* transactions freed. What else an invalid entry holds is dead: all of it is
\* written again when the entry is taken.
EndAll(ss, others) == [s \in Slots |-> IF s \in ss THEN Blank ELSE others[s]]
Ended(history, ss) == [s \in Slots |-> IF s \in ss THEN None ELSE history[s]]
\* Mutant of HeldIds: subscriptions end without giving their transactions back.
HeldIdsForgotten(ss) == {}

\* The transactions the subscriptions of ss have under way
HeldIds(ss) == {subs[s].invokeId : s \in ss}

\* cov_list_subscribe with a cancellation. One that matches nothing succeeds.
Cancel(c, o, p) ==
  /\ Processed
  /\ \E s \in Slots :
       /\ IsFirst(s, Matching(c, o, p))
       /\ subs' = EndAll({s}, subs)
       /\ addrs' = RemoveUnused(EndAll({s}, subs))
       /\ tsm' = FreeIds(HeldIds({s}))
       /\ told' = Ended(told, {s}) /\ subscriber' = Ended(subscriber, {s})
  /\ UNCHANGED <<objVars, currentId, taskVars, dcc>>

\* A SimpleAck, Error, Reject or Abort: the transaction is freed by its id
\* alone, whoever sent the answer, whether or not communication is disabled.
Answer(i) ==
  /\ tsm' = FreeIds({i})
  /\ UNCHANGED <<objVars, subs, addrs, currentId, taskVars, dcc, told, subscriber>>

\* Binary_Input_Present_Value_Set and Binary_Input_Out_Of_Service_Set flag what they
\* change. Binary_Input_Polarity_Set flags nothing, although what is read changes.
Flagged(old, new) ==
  old.present # new.present \/ old.outOfService # new.outOfService

\* WriteProperty of a binary input. It is one property that is written, and each
\* state of Present_Value is what some request stores, whatever the polarity.
Write(o) ==
  /\ Processed
  /\ \E property \in Writable[o], new \in BinaryInput :
       /\ \A other \in Properties \ {property} : new[other] = value[o][other]
       /\ value' = [value EXCEPT ![o] = new]
       /\ changed' = [changed EXCEPT ![o] = @ \/ Flagged(value[o], new)]
  /\ UNCHANGED <<subs, addrs, tsm, currentId, taskVars, dcc, told, subscriber>>

\* DeviceCommunicationControl, and ReinitializeDevice, which enables
Control(status, left) ==
  /\ dcc' = [status |-> status, left |-> IF status = "enable" THEN 0 ELSE left]
  /\ UNCHANGED <<objVars, subs, addrs, tsm, currentId, taskVars, told, subscriber>>

----------------------------------------------------------------------------
(* Timers *)

Minus(n, e) == IF n > e THEN n - e ELSE 0

\* dcc_timer_seconds
DccAfter(e) ==
  IF dcc.left = 0 THEN dcc
  ELSE IF Minus(dcc.left, e) = 0 THEN [status |-> "enable", left |-> 0]
  ELSE [dcc EXCEPT !.left = Minus(dcc.left, e)]

\* handler_cov_timer_seconds
Expired(e) == {s \in Slots : /\ subs[s].valid /\ subs[s].lifetime # 0
                             /\ Minus(subs[s].lifetime, e) = 0}
Older(e) == [s \in Slots |-> IF subs[s].valid
                             THEN [subs[s] EXCEPT !.lifetime = Minus(@, e)] ELSE subs[s]]

\* Mutant of TsmAfter: the last retry leaves the transaction waiting.
TsmAfterForEver(t, e) ==
  IF t.state # "await" THEN t
  ELSE IF Minus(t.timer, e) # 0 THEN [t EXCEPT !.timer = Minus(t.timer, e)]
  ELSE [t EXCEPT !.timer = ApduTimeout]

\* tsm_timer_milliseconds: a transaction is sent again, and at last has failed
TsmAfter(t, e) ==
  IF t.state # "await" THEN t
  ELSE IF Minus(t.timer, e) # 0 THEN [t EXCEPT !.timer = Minus(t.timer, e)]
  ELSE IF t.retry < ApduRetries THEN [t EXCEPT !.timer = ApduTimeout, !.retry = @ + 1]
  ELSE [t EXCEPT !.state = "failed", !.timer = 0]

Second(e) ==
  /\ dcc' = DccAfter(e)
  /\ subs' = EndAll(Expired(e), Older(e))
  /\ addrs' = IF Expired(e) = {} THEN addrs ELSE RemoveUnused(EndAll(Expired(e), Older(e)))
  /\ tsm' = [i \in Ids |-> TsmAfter(FreeIds(HeldIds(Expired(e)))[i], e)]
  /\ told' = Ended(told, Expired(e)) /\ subscriber' = Ended(subscriber, Expired(e))
  /\ UNCHANGED <<objVars, currentId, taskVars>>

----------------------------------------------------------------------------
(* handler_cov_task *)

\* The step is over: the next subscription, or the next state.
Advance(next) ==
  IF index = NumSubs THEN phase' = next /\ index' = 1
  ELSE index' = index + 1 /\ UNCHANGED phase

Begin ==
  /\ phase = "idle" /\ phase' = "mark" /\ index' = 1
  /\ UNCHANGED <<objVars, subs, addrs, tsm, currentId, dcc, told, subscriber>>

Mark ==
  /\ phase = "mark" /\ Advance("clear")
  /\ subs' = [subs EXCEPT ![index].requested = @ \/ (subs[index].valid /\ changed[subs[index].object])]
  /\ UNCHANGED <<objVars, addrs, tsm, currentId, dcc, told, subscriber>>

\* Mutant of Clear: the flag goes although nothing was requested.
ClearAnyway ==
  /\ phase = "clear" /\ Advance("free")
  /\ changed' = [changed EXCEPT ![subs[index].object] = @ /\ ~subs[index].valid]
  /\ UNCHANGED <<value, subs, addrs, tsm, currentId, dcc, told, subscriber>>

Clear ==
  /\ phase = "clear" /\ Advance("free")
  /\ changed' = [changed EXCEPT ![subs[index].object] = @ /\ ~(subs[index].valid /\ subs[index].requested)]
  /\ UNCHANGED <<value, subs, addrs, tsm, currentId, dcc, told, subscriber>>

\* A transaction that was answered or has failed no longer occupies the
\* subscription.
HasEnded(s) == /\ subs[s].valid /\ subs[s].confirmed /\ subs[s].invokeId # 0
               /\ tsm[subs[s].invokeId].state # "await"

Release ==
  /\ phase = "free" /\ Advance("send")
  /\ IF HasEnded(index)
     THEN /\ subs' = [subs EXCEPT ![index].invokeId = 0]
          /\ tsm' = FreeIds({subs[index].invokeId})
     ELSE UNCHANGED <<subs, tsm>>
  /\ UNCHANGED <<objVars, addrs, currentId, dcc, told, subscriber>>

\* The conditions of COV_STATE_SEND and those of cov_send_request
MaySend(s) ==
  /\ subs[s].valid /\ subs[s].requested
  /\ subs[s].confirmed => subs[s].invokeId = 0 /\ TransactionAvailable
  /\ dcc.status = "enable" /\ HasAddress(s)

\* cov_send_request, and whether datalink_send_pdu could send
Send(s, sent) ==
  /\ phase = "send" /\ index = s /\ MaySend(s) /\ Advance("idle")
  /\ IF subs[s].confirmed
     THEN \E i \in Ids :
            /\ NextFreeId(i)
            /\ tsm' = [tsm EXCEPT ![i] = Awaiting]
            /\ currentId' = NextId(i)
            /\ subs' = [subs EXCEPT ![s].invokeId = i, ![s].requested = ~sent]
     ELSE /\ subs' = [subs EXCEPT ![s].requested = ~sent]
          /\ UNCHANGED <<tsm, currentId>>
  /\ told' = IF sent
             THEN [told EXCEPT ![s] = IF Others(s, subs[s].object) = {} THEN value[subs[s].object]
                                      ELSE Shared]
             ELSE told
  /\ UNCHANGED <<objVars, addrs, dcc, subscriber>>

Skip ==
  /\ phase = "send" /\ ~MaySend(index) /\ Advance("idle")
  /\ UNCHANGED <<objVars, subs, addrs, tsm, currentId, dcc, told, subscriber>>

CovTask == \/ Begin \/ Mark \/ Clear \/ Release \/ Skip
           \/ \E s \in Slots, sent \in BOOLEAN : Send(s, sent)

----------------------------------------------------------------------------
\* The statics are all zero at the start; handler_cov_init is never called.
Init ==
  /\ value = [o \in Objects |-> [present |-> "inactive", outOfService |-> FALSE,
                                  polarity |-> "normal"]]
  /\ changed = [o \in Objects |-> FALSE]
  /\ subs = [s \in Slots |-> Blank]
  /\ addrs = [a \in AddrSlots |-> None]
  /\ tsm = [i \in Ids |-> Free] /\ currentId = 1
  /\ phase = "idle" /\ index = 1
  /\ dcc = [status |-> "enable", left |-> 0]
  /\ told = [s \in Slots |-> None] /\ subscriber = [s \in Slots |-> None]

Next ==
  \/ \E c \in Clients, o \in Objects, p \in Processes : Cancel(c, o, p)
  \/ \E r \in Asked : Subscribe(r.client, r.object, r.process, r.confirmed, r.lifetime)
  \/ \E i \in Ids : Answer(i)
  \/ \E o \in Objects : Write(o)
  \/ \E status \in {"enable", "disable", "initiation"}, left \in Durations : Control(status, left)
  \/ \E e \in 1..MaxElapsed : Second(e)
  \/ CovTask

Spec == Init /\ [][Next]_vars

\* The loop never stops, so its task makes steps and its timers run; a
\* notification that is offered to the network again and again is sent.
FairSpec == /\ Spec /\ WF_vars(CovTask) /\ WF_vars(\E e \in 1..MaxElapsed : Second(e))
            /\ \A s \in Slots : SF_vars(Send(s, TRUE))

----------------------------------------------------------------------------
(* Properties *)

TypeOK ==
  /\ value \in [Objects -> BinaryInput] /\ changed \in [Objects -> BOOLEAN]
  /\ subs \in [Slots -> SubType]
  /\ addrs \in [AddrSlots -> Clients \cup {None}]
  /\ tsm \in [Ids -> TsmType] /\ currentId \in Ids
  /\ phase \in Phases /\ index \in Slots
  /\ dcc \in [status: {"enable", "disable", "initiation"}, left: Nat]
  /\ told \in [Slots -> BinaryInput \cup {None, Shared}]
  /\ subscriber \in [Slots -> Clients \cup {None}]

\* No transaction is leaked: one that is in use is the outstanding one of a
\* confirmed subscription, which will look at it. A subscription that expires,
\* is cancelled or renewed while its notification is under way has to give the
\* transaction back (cov_lifetime_expiration_handler, cov_list_subscribe).
TransactionsHeld ==
  \A i \in Ids : tsm[i].state # "free" =>
    \E s \in Slots : subs[s].valid /\ subs[s].confirmed /\ subs[s].invokeId = i

\* Notifications go to who asked for them: a slot of the address list is given
\* up only when no subscription uses it, so that it never holds the address of
\* somebody else (cov_address_remove_unused).
NotifiesSubscriber ==
  \A s \in Slots : subs[s].valid /\ subs[s].dest # 0 => addrs[subs[s].dest] = subscriber[s]

\* Binary_Input_Present_Value: the stored value, or the other one
Oriented(v, polarity) ==
  IF polarity = "normal" THEN v ELSE IF v = "active" THEN "inactive" ELSE "active"

\* Binary_Input_Encode_Value_List: what a notification of the object says
ValueList(object) == [present |-> Oriented(object.present, object.polarity),
                      outOfService |-> object.outOfService]

\* The subscription has not been sent what its object holds now, read with the
\* polarity its last notification was read with: nobody flags a new polarity.
Behind(s) ==
  LET now == value[subs[s].object]
  IN  /\ subs[s].valid /\ told[s] # Shared
      /\ told[s] # None =>
           ValueList(told[s]) # ValueList([now EXCEPT !.polarity = told[s].polarity])

\* A change of Present_Value or Out_Of_Service is never forgotten: until it is sent
\* it is either flagged at the object or requested of the subscription, whatever
\* comes between the marking, the clearing and the sending, and however the
\* polarity is turned meanwhile. This holds for a subscription that watches its
\* object alone; of two that share one, the second can lose the flag.
ChangeIsPending ==
  \A s \in Slots : Behind(s) => subs[s].requested \/ changed[subs[s].object]

\* Every change is sent at last: no subscription that has an address stays
\* behind for ever while communication is enabled, whatever becomes of answers and
\* whoever else is behind (MAX_TSM_TRANSACTIONS is larger than
\* MAX_COV_SUBCRIPTIONS, so none waits for the transaction of another).
ChangesAreSent ==
  \A s \in Slots :
    (Behind(s) /\ HasAddress(s) /\ dcc.status = "enable")
      ~> ~(Behind(s) /\ HasAddress(s) /\ dcc.status = "enable")
=============================================================================
