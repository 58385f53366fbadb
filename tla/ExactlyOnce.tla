---------------------------- MODULE ExactlyOnce ----------------------------
(***************************************************************************)
(* What DASP promises of one direction of a session: a datagram accepted   *)
(* for sending is handed to the other side once, in any order, and its     *)
(* sender forgets it only after that.                                      *)
(***************************************************************************)
EXTENDS Naturals, FiniteSets

CONSTANTS
  Msgs,       \* the datagrams
  Capacity    \* how many a sender can hold unacknowledged

VARIABLES
  pending,    \* accepted and not forgotten by the sender
  delivered   \* how often each was handed to the application of the other side

vars == <<pending, delivered>>

Init == pending = {} /\ delivered = [m \in Msgs |-> 0]

Accept(m) ==
  /\ m \notin pending /\ delivered[m] = 0
  /\ Cardinality(pending) < Capacity
  /\ pending' = pending \cup {m}
  /\ UNCHANGED delivered

Deliver(m) ==
  /\ m \in pending /\ delivered[m] = 0
  /\ delivered' = [delivered EXCEPT ![m] = 1]
  /\ UNCHANGED pending

Forget(ms) ==
  /\ ms # {} /\ ms \subseteq {m \in pending : delivered[m] = 1}
  /\ pending' = pending \ ms
  /\ UNCHANGED delivered

Next == \/ \E m \in Msgs : Accept(m) \/ Deliver(m)
        \/ \E ms \in SUBSET Msgs : Forget(ms)

Spec == Init /\ [][Next]_vars
=============================================================================
