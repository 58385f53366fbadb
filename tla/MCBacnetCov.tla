---------------------------- MODULE MCBacnetCov ----------------------------
(* Three subscriptions for two entries and one address, for TLC: two of    *)
(* one client to an object each, and one of another client to the first    *)
(* object, whose present value and polarity are written.                   *)
EXTENDS BacnetCov

CONSTANTS o1, o2, c1, c2, p1

Asks(c, o, confirmed, lifetime) ==
  [client |-> c, object |-> o, process |-> p1, confirmed |-> confirmed, lifetime |-> lifetime]
ThreeSubscriptions == {Asks(c1, o1, TRUE, 0), Asks(c1, o2, FALSE, 0), Asks(c2, o1, TRUE, 1)}
FirstIsWritten == [o \in Objects |-> IF o = o1 THEN {"present", "polarity"} ELSE {}]
=============================================================================
