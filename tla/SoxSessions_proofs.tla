------------------------- MODULE SoxSessions_proofs -------------------------
(***************************************************************************)
(* Proofs about SoxSessions, for any number of clients, slots, random      *)
(* bytes and attempts, whatever the network does.                          *)
(***************************************************************************)
EXTENDS SoxSessions, SequenceTheorems, WellFoundedInduction, TLAPS

\* A session that is open has been given the remoteId of a client: the server
\* never sends to Nobody. TypeOK is not inductive without it.
OpenHasRemote == \A i \in Slots : ~sessions[i].closed => sessions[i].remoteId \in Clients

IInv == TypeOK /\ OpenHasRemote /\ TableMatches

\* Every non-empty set of naturals has a least element.
LEMMA LeastElement ==
  ASSUME NEW S \in SUBSET Nat, S # {}
  PROVE  \E x \in S : \A y \in S : x <= y
<1> DEFINE R == OpToRel(<, Nat)
<1>1. PICK x \in S : \A y \in S : ~(<<y, x>> \in R)
  <2> HIDE DEF R
  <2> QED
    BY NatLessThanWellFounded, WFMin DEF R
<1>2. ASSUME NEW y \in S
      PROVE  x <= y
  <2>1. <<y, x>> \in Nat \X Nat /\ y \in Nat /\ x \in Nat
    OBVIOUS
  <2>2. CASE y < x
    <3>1. <<y, x>> \in R
      BY <2>1, <2>2 DEF OpToRel
    <3> QED
      BY <1>1, <3>1
  <2> QED
    BY <2>1, <2>2
<1> QED
  BY <1>2

\* The slot openWatch takes is free, and is a slot of the table.
LEMMA FirstFreeIsFree ==
  ASSUME FreeSlots # {}
  PROVE  FirstFree \in FreeSlots /\ FirstFree \in Slots
<1>1. FreeSlots \in SUBSET Nat
  BY SessionSizes DEF FreeSlots, Slots
<1>2. \E i \in FreeSlots : \A j \in FreeSlots : i <= j
  BY <1>1, LeastElement
<1> QED
  BY <1>2 DEF FirstFree, FreeSlots

\* A byte that wraps is a byte.
LEMMA NextRandIsRand ==
  ASSUME TypeOK, NEW i \in Slots
  PROVE  NextRand(i) \subseteq Rands
<1>1. \A r \in Rands : (r + 1) % NumRands \in Rands
  BY SessionSizes DEF Rands
<1> QED
  BY <1>1 DEF NextRand

SessionRecords == [closed: BOOLEAN, rand: Rands, heard: BOOLEAN,
                   remoteId: Clients \cup {Nobody}, nonce: Nonces, user: BOOLEAN]
ClientRecords == [at: States, tries: 0..MaxTries, remoteId: SessionIds, nonce: Nonces,
                  inbox: Seq(ServerMsgs)]

\* The network holds well-formed packets only, whatever is sent, lost or repeated.
LEMMA NetworkTypes ==
  ASSUME TypeOK
  PROVE  /\ \A m \in ServerMsgs : Sent(m) \subseteq ServerMsgs
         /\ \A m : Consume(m) => toServer' \subseteq ClientMsgs
         /\ \A m \in ClientMsgs : SendToServer(m) => toServer' \subseteq ClientMsgs
<1>1. \A m \in ServerMsgs : Sent(m) \subseteq ServerMsgs
  BY DEF TypeOK, Sent
<1>2. ASSUME NEW m, Consume(m)
      PROVE  toServer' \subseteq ClientMsgs
  BY <1>2 DEF TypeOK, Consume
<1>3. \A m \in ClientMsgs : SendToServer(m) => toServer' \subseteq ClientMsgs
  BY DEF TypeOK, SendToServer
<1> QED
  BY <1>1, <1>2, <1>3

\* What openSession leaves in the slot it takes, and in the others.
LEMMA OpenedSession ==
  ASSUME TypeOK, NEW i \in Slots, NEW r \in Rands
  PROVE  /\ Opened(i, r) \in [Slots -> SessionRecords]
         /\ ~Opened(i, r)[i].closed /\ ~Opened(i, r)[i].user
         /\ \A j \in Slots \ {i} : Opened(i, r)[j] = sessions[j]
<1>1. sessions \in [Slots -> SessionRecords]
  BY DEF TypeOK, SessionRecords
<1>2. [sessions[i] EXCEPT !.closed = FALSE, !.rand = r, !.heard = TRUE, !.user = FALSE]
        \in SessionRecords
  BY <1>1 DEF SessionRecords
<1>3. /\ [sessions[i] EXCEPT !.closed = FALSE, !.rand = r, !.heard = TRUE, !.user = FALSE].closed
           = FALSE
      /\ [sessions[i] EXCEPT !.closed = FALSE, !.rand = r, !.heard = TRUE, !.user = FALSE].user
           = FALSE
  BY <1>1 DEF SessionRecords
<1> QED
  BY <1>1, <1>2, <1>3 DEF Opened

\* Initially every slot is free and every session object closed.
LEMMA InitInvariant == Init => IInv
<1> SUFFICES ASSUME Init PROVE IInv
  OBVIOUS
<1>1. 0 \in Rands /\ 0 \in Slots /\ 0 \in Nonces
  BY SessionSizes DEF Rands, Slots, Nonces
<1>2. watches \in [Slots -> BOOLEAN] /\ sessions \in [Slots -> SessionRecords]
  BY <1>1 DEF Init, SessionRecords
<1>3. client \in [Clients -> ClientRecords]
  <2>1. UnsetId \in SessionIds
    BY <1>1 DEF UnsetId, SessionIds
  <2>2. <<>> \in Seq(ServerMsgs) /\ 0 \in 0..MaxTries
    BY SessionSizes, EmptySeq
  <2> QED
    BY <1>1, <2>1, <2>2 DEF Init, ClientRecords, States
<1>4. TypeOK
  BY <1>1, <1>2, <1>3 DEF Init, TypeOK, SessionRecords, ClientRecords
<1>5. OpenHasRemote /\ TableMatches
  BY <1>2 DEF Init, OpenHasRemote, TableMatches
<1> QED
  BY <1>4, <1>5 DEF IInv

\* The packets the handlers build, and the senders of those they receive.
LEMMA MessageTypes ==
  /\ UnsetId \in SessionIds
  /\ \A c \in Clients, t \in {"welcome", "close"} :
       [type |-> t, to |-> c, id |-> UnsetId] \in ServerMsgs
  /\ \A c \in Clients, id \in SessionIds, n \in Nonces :
       [type |-> "challenge", to |-> c, id |-> id, nonce |-> n] \in ServerMsgs
  /\ \A c \in Clients, t \in {"hello", "discover"} :
       [type |-> t, from |-> c, id |-> UnsetId] \in ClientMsgs
  /\ \A c \in Clients, t \in {"keepAlive", "close"}, id \in SessionIds :
       [type |-> t, from |-> c, id |-> id] \in ClientMsgs
  /\ \A c \in Clients, id \in SessionIds, n \in Nonces :
       [type |-> "authenticate", from |-> c, id |-> id, nonce |-> n] \in ClientMsgs
  /\ \A m \in ClientMsgs : m.from \in Clients
  /\ \A m \in ServerMsgs : m.to \in Clients /\ m.id \in SessionIds
  /\ \A m \in ServerMsgs : m.type = "challenge" => m.nonce \in Nonces
<1>1. 0 \in Rands /\ 0 \in Slots
  BY SessionSizes DEF Rands, Slots
<1>2. UnsetId \in SessionIds
  BY <1>1 DEF UnsetId, SessionIds
<1> QED
  BY <1>2 DEF ServerMsgs, ClientMsgs

\* Closing session i with its watch, in whatever state it is otherwise left.
LEMMA CloseSession ==
  ASSUME IInv, NEW i \in Slots, NEW h \in BOOLEAN, NEW u \in BOOLEAN,
         sessions' = [sessions EXCEPT ![i].heard = h, ![i].user = u, ![i].closed = TRUE],
         watches' = [watches EXCEPT ![i] = FALSE]
  PROVE  /\ watches' \in [Slots -> BOOLEAN]
         /\ sessions' \in [Slots -> SessionRecords]
         /\ OpenHasRemote' /\ TableMatches'
<1>1. watches \in [Slots -> BOOLEAN] /\ sessions \in [Slots -> SessionRecords]
  BY DEF IInv, TypeOK, SessionRecords
<1>2. /\ sessions' \in [Slots -> SessionRecords]
      /\ sessions'[i].closed
      /\ \A j \in Slots \ {i} : sessions'[j] = sessions[j]
  BY <1>1, ZenonT(60) DEF SessionRecords
<1>3. /\ watches' \in [Slots -> BOOLEAN]
      /\ ~watches'[i]
      /\ \A j \in Slots \ {i} : watches'[j] = watches[j]
  BY <1>1
<1>4. OpenHasRemote'
  BY <1>2 DEF IInv, OpenHasRemote
<1>5. TableMatches'
  BY <1>2, <1>3 DEF IInv, TableMatches
<1> QED
  BY <1>2, <1>3, <1>4, <1>5

\* Hearing of session i, or ceasing to, or authenticating its user: open stays open.
LEMMA TouchSession ==
  ASSUME IInv, NEW i \in Slots, NEW h \in BOOLEAN, NEW u \in BOOLEAN,
         sessions' = [sessions EXCEPT ![i].heard = h, ![i].user = u],
         watches' = watches
  PROVE  /\ watches' \in [Slots -> BOOLEAN]
         /\ sessions' \in [Slots -> SessionRecords]
         /\ OpenHasRemote' /\ TableMatches'
<1>1. watches \in [Slots -> BOOLEAN] /\ sessions \in [Slots -> SessionRecords]
  BY DEF IInv, TypeOK, SessionRecords
<1>2. /\ sessions' \in [Slots -> SessionRecords]
      /\ \A j \in Slots : /\ sessions'[j].closed = sessions[j].closed
                          /\ sessions'[j].remoteId = sessions[j].remoteId
  BY <1>1, ZenonT(60) DEF SessionRecords
<1>3. OpenHasRemote' /\ TableMatches'
  BY <1>2 DEF IInv, OpenHasRemote, TableMatches
<1> QED
  BY <1>1, <1>2, <1>3

\* A step that leaves the server's tables alone preserves them.
LEMMA TablesUnchanged ==
  ASSUME IInv, UNCHANGED <<watches, sessions>>
  PROVE  /\ watches' \in [Slots -> BOOLEAN]
         /\ sessions' \in [Slots -> SessionRecords]
         /\ OpenHasRemote' /\ TableMatches'
BY DEF IInv, TypeOK, SessionRecords, OpenHasRemote, TableMatches

\* The invariant, put together from the parts a step may disturb.
LEMMA IInvParts ==
  ASSUME watches' \in [Slots -> BOOLEAN],
         nonces' \in Nonces,
         sessions' \in [Slots -> SessionRecords],
         client' \in [Clients -> ClientRecords],
         toServer' \subseteq ClientMsgs,
         toClient' \subseteq ServerMsgs,
         OpenHasRemote', TableMatches'
  PROVE  IInv'
BY DEF IInv, TypeOK, SessionRecords, ClientRecords

\* Every packet the server handles preserves the invariant (SoxService.dispatch).
LEMMA ServerStep ==
  ASSUME IInv, NEW m \in toServer,
         \/ IgnoreHello(m) \/ RefuseHello(m) \/ Challenge(m) \/ DiscoverResponse(m)
         \/ Welcome(m) \/ RejectAuthenticate(m) \/ RecvClose(m)
         \/ RecvKeepAlive(m) \/ IgnoreUnknown(m)
  PROVE  IInv'
<1> USE DEF IInv
<1>1. m \in ClientMsgs /\ m.from \in Clients
  BY MessageTypes DEF TypeOK
<1>2. Consume(m) => toServer' \subseteq ClientMsgs
  BY NetworkTypes
<1>3. watches \in [Slots -> BOOLEAN] /\ sessions \in [Slots -> SessionRecords]
  BY DEF TypeOK, SessionRecords
<1>4. /\ client \in [Clients -> ClientRecords] /\ toClient \subseteq ServerMsgs
      /\ nonces \in Nonces
  BY DEF TypeOK, ClientRecords
<1>5. ASSUME IgnoreHello(m)
      PROVE  IInv'
  BY <1>2, <1>4, <1>5, TablesUnchanged, IInvParts DEF IgnoreHello
<1>6. ASSUME RefuseHello(m)
      PROVE  IInv'
  <2>1. FirstFree \in Slots
    BY <1>6, FirstFreeIsFree DEF RefuseHello
  <2>2. PICK r \in NextRand(FirstFree) :
          sessions' = [Opened(FirstFree, r) EXCEPT ![FirstFree].remoteId = m.from,
                                                   ![FirstFree].closed = TRUE]
    BY <1>6 DEF RefuseHello
  <2>3. r \in Rands
    BY <2>1, NextRandIsRand
  <2>4. /\ Opened(FirstFree, r) \in [Slots -> SessionRecords]
        /\ \A j \in Slots \ {FirstFree} : Opened(FirstFree, r)[j] = sessions[j]
    BY <2>1, <2>3, OpenedSession
  <2>5. /\ sessions' \in [Slots -> SessionRecords]
        /\ sessions'[FirstFree].closed
        /\ \A j \in Slots \ {FirstFree} : sessions'[j] = sessions[j]
    BY <2>1, <2>2, <2>4, <1>1, ZenonT(60) DEF SessionRecords
  <2>6. ~watches[FirstFree] /\ watches' = watches
    BY <1>6, FirstFreeIsFree DEF RefuseHello, FreeSlots
  <2>7. OpenHasRemote' /\ TableMatches'
    BY <2>5, <2>6 DEF OpenHasRemote, TableMatches
  <2>8. toClient' \subseteq ServerMsgs
    BY <1>1, <1>6, MessageTypes, NetworkTypes DEF RefuseHello
  <2> QED
    BY <1>2, <1>3, <1>4, <1>6, <2>5, <2>7, <2>8, IInvParts DEF RefuseHello
<1>7. ASSUME Challenge(m)
      PROVE  IInv'
  <2> DEFINE i == FirstFree
             dup == Duplicate(i, m.from)
  <2>1. i \in Slots
    BY <1>7, FirstFreeIsFree DEF Challenge
  <2>2. PICK r \in NextRand(i) :
          /\ sessions' = [j \in Slots |->
               IF j = i THEN [Opened(i, r)[i] EXCEPT !.remoteId = m.from,
                                                     !.nonce = nonces + 1]
               ELSE IF j \in dup THEN [sessions[j] EXCEPT !.closed = TRUE]
               ELSE sessions[j]]
          /\ watches' = [j \in Slots |-> IF j = i THEN TRUE
                                         ELSE IF j \in dup THEN FALSE ELSE watches[j]]
          /\ toClient' =
               Sent([type |-> "challenge", to |-> m.from,
                     id |-> [rand |-> r, index |-> i], nonce |-> nonces + 1])
    BY <1>7 DEF Challenge, FreshNonce
  <2>9. nonces' = nonces + 1 /\ nonces + 1 \in Nonces
    <3>1. nonces' = nonces + 1 /\ nonces < MaxNonces
      BY <1>7 DEF Challenge, FreshNonce
    <3> QED
      BY <1>4, <3>1, SessionSizes DEF Nonces
  <2>3. r \in Rands
    BY <2>1, NextRandIsRand
  <2>4. Opened(i, r)[i] \in SessionRecords /\ ~Opened(i, r)[i].closed
    BY <2>1, <2>3, OpenedSession
  <2> HIDE DEF i, dup
  <2>5. /\ sessions' \in [Slots -> SessionRecords]
        /\ ~sessions'[i].closed /\ sessions'[i].remoteId = m.from
        /\ \A j \in dup \cap Slots : j # i => sessions'[j].closed
        /\ \A j \in Slots \ dup : j # i => sessions'[j] = sessions[j]
    BY <1>1, <1>3, <2>1, <2>2, <2>4, <2>9 DEF SessionRecords
  <2>6. /\ watches' \in [Slots -> BOOLEAN]
        /\ watches'[i]
        /\ \A j \in dup \cap Slots : j # i => ~watches'[j]
        /\ \A j \in Slots \ dup : j # i => watches'[j] = watches[j]
    BY <1>3, <2>1, <2>2
  <2>7. OpenHasRemote' /\ TableMatches'
    BY <1>1, <2>5, <2>6 DEF OpenHasRemote, TableMatches
  <2>8. toClient' \subseteq ServerMsgs
    <3>1. [rand |-> r, index |-> i] \in SessionIds
      BY <2>1, <2>3 DEF SessionIds
    <3> QED
      BY <1>1, <2>2, <2>9, <3>1, MessageTypes, NetworkTypes
  <2> QED
    BY <1>2, <1>4, <1>7, <2>9, <2>5, <2>6, <2>7, <2>8, IInvParts DEF Challenge
<1>8. ASSUME DiscoverResponse(m)
      PROVE  IInv'
  <2>1. FirstFree \in Slots
    BY <1>8, FirstFreeIsFree DEF DiscoverResponse
  <2>2. PICK r \in NextRand(FirstFree) :
          sessions' = [Opened(FirstFree, r) EXCEPT ![FirstFree].closed = TRUE]
    BY <1>8 DEF DiscoverResponse
  <2>3. r \in Rands
    BY <2>1, NextRandIsRand
  <2>4. /\ Opened(FirstFree, r) \in [Slots -> SessionRecords]
        /\ \A j \in Slots \ {FirstFree} : Opened(FirstFree, r)[j] = sessions[j]
    BY <2>1, <2>3, OpenedSession
  <2>5. /\ sessions' \in [Slots -> SessionRecords]
        /\ sessions'[FirstFree].closed
        /\ \A j \in Slots \ {FirstFree} : sessions'[j] = sessions[j]
    BY <2>1, <2>2, <2>4 DEF SessionRecords
  <2>6. ~watches[FirstFree] /\ watches' = watches
    BY <1>8, FirstFreeIsFree DEF DiscoverResponse, FreeSlots
  <2>7. OpenHasRemote' /\ TableMatches'
    BY <2>5, <2>6 DEF OpenHasRemote, TableMatches
  <2> QED
    BY <1>2, <1>3, <1>4, <1>8, <2>5, <2>7, IInvParts DEF DiscoverResponse
<1>9. ASSUME Welcome(m)
      PROVE  IInv'
  <2>1. PICK i \in Session(m.id) :
          /\ sessions' = [sessions EXCEPT ![i].heard = TRUE, ![i].user = TRUE]
          /\ toClient' = Sent([type |-> "welcome", to |-> sessions[i].remoteId,
                               id |-> UnsetId])
    BY <1>9 DEF Welcome
  <2>2. i \in Slots /\ sessions[i].remoteId \in Clients
    BY <2>1 DEF Session, OpenHasRemote
  <2>3. toClient' \subseteq ServerMsgs
    BY <2>1, <2>2, MessageTypes, NetworkTypes
  <2> QED
    BY <1>2, <1>4, <1>9, <2>1, <2>2, <2>3, TouchSession, IInvParts DEF Welcome
<1>10. ASSUME RejectAuthenticate(m)
       PROVE  IInv'
  <2>1. PICK i \in Session(m.id) :
          /\ \E u \in BOOLEAN :
               sessions' = [sessions EXCEPT ![i].heard = TRUE, ![i].user = u,
                                            ![i].closed = TRUE]
          /\ watches' = [watches EXCEPT ![i] = FALSE]
          /\ toClient' = Sent([type |-> "close", to |-> sessions[i].remoteId,
                               id |-> UnsetId])
    BY <1>10 DEF RejectAuthenticate
  <2>2. i \in Slots /\ sessions[i].remoteId \in Clients
    BY <2>1 DEF Session, OpenHasRemote
  <2>3. toClient' \subseteq ServerMsgs
    BY <2>1, <2>2, MessageTypes, NetworkTypes
  <2> QED
    BY <1>2, <1>4, <1>10, <2>1, <2>2, <2>3, CloseSession, IInvParts
       DEF RejectAuthenticate
<1>11. ASSUME RecvClose(m)
       PROVE  IInv'
  <2>1. PICK i \in Session(m.id) :
          /\ sessions' = [sessions EXCEPT ![i].heard = TRUE, ![i].closed = TRUE]
          /\ watches' = [watches EXCEPT ![i] = FALSE]
    BY <1>11 DEF RecvClose
  <2>2. i \in Slots /\ sessions[i].user \in BOOLEAN
    BY <1>3, <2>1 DEF Session, SessionRecords
  <2>3. sessions' = [sessions EXCEPT ![i].heard = TRUE, ![i].user = sessions[i].user,
                                     ![i].closed = TRUE]
    BY <1>3, <2>1, <2>2 DEF SessionRecords
  <2> QED
    BY <1>2, <1>4, <1>11, <2>1, <2>2, <2>3, CloseSession, IInvParts DEF RecvClose
<1>12. ASSUME RecvKeepAlive(m)
       PROVE  IInv'
  <2>1. PICK i \in Session(m.id) : sessions' = [sessions EXCEPT ![i].heard = TRUE]
    BY <1>12 DEF RecvKeepAlive
  <2>2. i \in Slots /\ sessions[i].user \in BOOLEAN
    BY <1>3, <2>1 DEF Session, SessionRecords
  <2>3. sessions' = [sessions EXCEPT ![i].heard = TRUE, ![i].user = sessions[i].user]
    BY <1>3, <2>1, <2>2 DEF SessionRecords
  <2> QED
    BY <1>2, <1>4, <1>12, <2>2, <2>3, TouchSession, IInvParts DEF RecvKeepAlive
<1>13. ASSUME IgnoreUnknown(m)
       PROVE  IInv'
  BY <1>2, <1>4, <1>13, TablesUnchanged, IInvParts DEF IgnoreUnknown
<1> QED
  BY <1>5, <1>6, <1>7, <1>8, <1>9, <1>10, <1>11, <1>12, <1>13

\* House keeping preserves the invariant: a session that times out frees its slot
\* (SoxSession.houseKeeping, close).
LEMMA HouseKeepingStep ==
  ASSUME IInv, NEW i \in Slots, Quiet(i) \/ Timeout(i)
  PROVE  IInv'
<1> USE DEF IInv
<1>1. /\ sessions \in [Slots -> SessionRecords]
      /\ sessions[i].user \in BOOLEAN /\ sessions[i].heard \in BOOLEAN
  BY DEF TypeOK, SessionRecords
<1>2. /\ client \in [Clients -> ClientRecords]
      /\ toServer \subseteq ClientMsgs /\ toClient \subseteq ServerMsgs
      /\ nonces \in Nonces
  BY DEF TypeOK, ClientRecords
<1>3. ASSUME Quiet(i)
      PROVE  IInv'
  <2>1. sessions' = [sessions EXCEPT ![i].heard = FALSE, ![i].user = sessions[i].user]
    BY <1>1, <1>3 DEF Quiet, SessionRecords
  <2> QED
    BY <1>1, <1>2, <1>3, <2>1, TouchSession, IInvParts DEF Quiet
<1>4. ASSUME Timeout(i)
      PROVE  IInv'
  <2>1. sessions' = [sessions EXCEPT ![i].heard = sessions[i].heard,
                                     ![i].user = sessions[i].user, ![i].closed = TRUE]
    BY <1>1, <1>4 DEF Timeout, SessionRecords
  <2>2. toClient' \subseteq ServerMsgs
    BY <1>4, MessageTypes, NetworkTypes DEF Timeout, OpenHasRemote
  <2> QED
    BY <1>1, <1>2, <1>4, <2>1, <2>2, CloseSession, IInvParts DEF Timeout
<1> QED
  BY <1>3, <1>4

\* A step of a client changes its own record only, to a record (DaspSession).
LEMMA ClientStep ==
  ASSUME IInv, NEW c \in Clients,
         \/ SendHello(c) \/ SendAuthenticate(c) \/ NoResponse(c)
         \/ DequeueHello(c) \/ DequeueAuthenticate(c) \/ DropChallenge(c)
         \/ KeepAlive(c) \/ Close(c) \/ Discover(c)
  PROVE  IInv'
<1> USE DEF IInv
<1>1. client \in [Clients -> ClientRecords] /\ client[c] \in ClientRecords
  BY DEF TypeOK, ClientRecords
<1>2. toServer \subseteq ClientMsgs /\ toClient \subseteq ServerMsgs /\ nonces \in Nonces
  BY DEF TypeOK
<1>3. /\ UNCHANGED <<watches, nonces, sessions, toClient>>
      /\ toServer' \subseteq ClientMsgs
  <2>1. client[c].remoteId \in SessionIds /\ client[c].nonce \in Nonces
    BY <1>1 DEF ClientRecords
  <2> QED
    BY <1>2, <2>1, MessageTypes, NetworkTypes
       DEF SendHello, SendAuthenticate, Authenticate, NoResponse, DequeueHello,
           DequeueAuthenticate, DropChallenge, KeepAlive, Close, Discover
<1>4. client' \in [Clients -> ClientRecords]
  <2>1. client[c].tries < MaxTries => client[c].tries + 1 \in 0..MaxTries
    BY <1>1, SessionSizes DEF ClientRecords
  <2>2. client[c].inbox # <<>> => /\ Tail(client[c].inbox) \in Seq(ServerMsgs)
                                  /\ Head(client[c].inbox).id \in SessionIds
                                  /\ Head(client[c].inbox).type = "challenge"
                                       => Head(client[c].inbox).nonce \in Nonces
    <3>1. client[c].inbox \in Seq(ServerMsgs)
      BY <1>1 DEF ClientRecords
    <3>2. client[c].inbox # <<>> => /\ Tail(client[c].inbox) \in Seq(ServerMsgs)
                                    /\ Head(client[c].inbox) \in ServerMsgs
      BY <3>1, HeadTailProperties
    <3> QED
      BY <3>2, MessageTypes
  <2>3. 0 \in 0..MaxTries /\ <<>> \in Seq(ServerMsgs)
    BY SessionSizes, EmptySeq
  <2>4. CASE SendHello(c)
    <3>1. client' = [client EXCEPT ![c].at = "hello", ![c].tries = client[c].tries + 1]
      BY <1>1, <2>4 DEF SendHello
    <3> QED
      BY <1>1, <2>1, <2>4, <3>1 DEF SendHello, ClientRecords, States
  <2>10. CASE SendAuthenticate(c)
    <3>1. client' = [client EXCEPT ![c].tries = client[c].tries + 1]
      BY <1>1, <2>10 DEF SendAuthenticate
    <3> QED
      BY <1>1, <2>1, <2>10, <3>1 DEF SendAuthenticate, ClientRecords, States
  <2>11. CASE NoResponse(c)
    BY <1>1, <2>11 DEF NoResponse, ClientRecords, States
  <2>5. CASE DequeueHello(c)
    BY <1>1, <2>2, <2>3, <2>5 DEF DequeueHello, ClientRecords, States
  <2>6. CASE DequeueAuthenticate(c)
    BY <1>1, <2>2, <2>6 DEF DequeueAuthenticate, ClientRecords, States
  <2>7. CASE DropChallenge(c)
    <3>1. /\ client[c].inbox # <<>>
          /\ \/ /\ client[c].tries < MaxTries
                /\ client' = [client EXCEPT ![c].inbox = Tail(client[c].inbox),
                                            ![c].tries = client[c].tries + 1]
             \/ client' = [client EXCEPT ![c].inbox = Tail(client[c].inbox),
                                         ![c].at = "failed"]
      BY <1>1, <2>7 DEF DropChallenge
    <3>2. CASE client' = [client EXCEPT ![c].inbox = Tail(client[c].inbox),
                                        ![c].at = "failed"]
      BY <1>1, <2>2, <3>1, <3>2 DEF ClientRecords, States
    <3>3. CASE /\ client[c].tries < MaxTries
               /\ client' = [client EXCEPT ![c].inbox = Tail(client[c].inbox),
                                           ![c].tries = client[c].tries + 1]
      BY <1>1, <2>1, <2>2, <3>1, <3>3 DEF ClientRecords, States
    <3> QED
      BY <3>1, <3>2, <3>3
  <2>8. CASE KeepAlive(c) \/ Discover(c)
    BY <1>1, <2>8 DEF KeepAlive, Discover
  <2>9. CASE Close(c)
    BY <1>1, <2>3, <2>9 DEF Close, ClientRecords, States
  <2> QED
    BY <2>4, <2>5, <2>6, <2>7, <2>8, <2>9, <2>10, <2>11
<1> QED
  BY <1>2, <1>3, <1>4, TablesUnchanged, IInvParts

\* So does a packet that reaches it (DaspSession.dispatch).
LEMMA DispatchStep ==
  ASSUME IInv, NEW m \in toClient, Dispatch(m)
  PROVE  IInv'
<1> USE DEF IInv
<1>1. client \in [Clients -> ClientRecords]
  BY DEF TypeOK, ClientRecords
<1>2. m \in ServerMsgs /\ m.to \in Clients
  BY MessageTypes DEF TypeOK
<1>3. Append(client[m.to].inbox, m) \in Seq(ServerMsgs)
  BY <1>1, <1>2, AppendProperties DEF ClientRecords
<1>4. client' \in [Clients -> ClientRecords]
  BY <1>1, <1>2, <1>3, ZenonT(60) DEF Dispatch, ClientRecords, States
<1>5. toServer' \subseteq ClientMsgs /\ toClient' \subseteq ServerMsgs /\ nonces' \in Nonces
  BY DEF Dispatch, TypeOK
<1> QED
  BY <1>4, <1>5, TablesUnchanged, IInvParts DEF Dispatch

\* Every step, of the server, a client or the network, preserves the invariant.
LEMMA StepInvariant == IInv /\ [Next]_vars => IInv'
<1> SUFFICES ASSUME IInv, [Next]_vars
             PROVE  IInv'
  OBVIOUS
<1>1. /\ client \in [Clients -> ClientRecords]
      /\ toServer \subseteq ClientMsgs /\ toClient \subseteq ServerMsgs
      /\ nonces \in Nonces
  BY DEF IInv, TypeOK, ClientRecords
<1>2. CASE Lose
  BY <1>1, <1>2, TablesUnchanged, IInvParts DEF Lose
<1>3. CASE UNCHANGED vars
  BY <1>1, <1>3, TablesUnchanged, IInvParts DEF vars
<1> QED
  BY <1>2, <1>3, ServerStep, HouseKeepingStep, ClientStep, DispatchStep DEF Next

\* The invariant of the server and the clients, whatever is lost or repeated.
THEOREM Invariance == Spec => []IInv
<1> QED
  BY InitInvariant, StepInvariant, PTL DEF Spec

\* Every variable has its type; the server never addresses a packet to nobody.
THEOREM TypeCorrect == Spec => []TypeOK
<1>1. IInv => TypeOK
  BY DEF IInv
<1> QED
  BY <1>1, Invariance, PTL

\* A watch slot of the App is taken exactly while its session is open, whichever
\* of the six ways closes it (SoxService.closeSession, App.openWatch, closeWatch).
THEOREM NoSlotLeaks == Spec => []TableMatches
<1>1. IInv => TableMatches
  BY DEF IInv
<1> QED
  BY <1>1, Invariance, PTL
-----------------------------------------------------------------------------
\* Who may be logged in.

\* The packets on their way to a client or in its queue.
ToThem(c) == {m \in toClient : m.to = c}
             \cup {client[c].inbox[k] : k \in 1..Len(client[c].inbox)}
Welcomed(c) == \E m \in ToThem(c) : m.type = "welcome"

\* A nonce that only a session opened for the client can have.
Owns(c, n) ==
  /\ n \in 0..nonces
  /\ \A i \in Slots : ~sessions[i].closed /\ sessions[i].nonce = n
                        => sessions[i].remoteId = c

\* Open sessions have nonces of their own that were drawn.
OwnNonces ==
  /\ \A i \in Slots : ~sessions[i].closed => sessions[i].nonce \in 1..nonces
  /\ \A i, j \in Slots : /\ ~sessions[i].closed /\ ~sessions[j].closed
                         /\ sessions[i].nonce = sessions[j].nonce
                         => i = j

\* Challenges reach the client the session was opened for.
ChallengesOwned ==
  \A c \in Clients :
    /\ Owns(c, client[c].nonce)
    /\ \A m \in ToThem(c) : m.type = "challenge" => m.nonce # 0 /\ Owns(c, m.nonce)

\* A client is welcomed and has a nonce only after it took a challenge.
Phases ==
  \A c \in Clients :
    /\ client[c].at \in {"idle", "hello"} => client[c].nonce = 0 /\ ~Welcomed(c)
    /\ client[c].at = "authenticate" => client[c].nonce # 0

\* Every authenticate, however late, digests the nonce its client still has.
Digests ==
  \A m \in toServer : m.type = "authenticate" =>
    /\ m.nonce = client[m.from].nonce
    /\ client[m.from].at \notin {"idle", "hello"}

\* The session that welcomed a client has a user as long as it is open.
WelcomedHasUser ==
  \A c \in Clients : client[c].at = "open" \/ Welcomed(c) =>
    \A i \in Slots : ~sessions[i].closed /\ sessions[i].nonce = client[c].nonce
                       => sessions[i].user

AuthInv ==
  /\ OwnNonces /\ ChallengesOwned /\ Phases /\ Digests
  /\ UserAnswered /\ WelcomedHasUser

\* Nobody is in before the first hello.
LEMMA InitAuth == Init => AuthInv
<1> SUFFICES ASSUME Init PROVE AuthInv
  OBVIOUS
<1>1. \A c \in Clients : ToThem(c) = {} /\ client[c].at = "idle" /\ client[c].nonce = 0
  <2>1. \A c \in Clients : client[c].inbox = <<>> /\ toClient = {}
    BY DEF Init
  <2>2. Len(<<>>) = 0
    BY EmptySeq
  <2> QED
    BY <2>1, <2>2 DEF Init, ToThem
<1>2. \A i \in Slots : sessions[i].closed
  BY DEF Init
<1>3. nonces = 0 /\ toServer = {}
  BY DEF Init
<1> QED
  BY <1>1, <1>2, <1>3
     DEF AuthInv, OwnNonces, ChallengesOwned, Owns, Phases, Welcomed, Digests, UserAnswered,
         WelcomedHasUser

\* What most steps leave of the sessions that are open, of what clients have come to,
\* and of the packets: sessions only close, clients go forward, and only
\* an authenticate for the client's own nonce is sent.
SameOpen ==
  \A i \in Slots : ~sessions'[i].closed =>
    /\ ~sessions[i].closed
    /\ sessions'[i].nonce = sessions[i].nonce
    /\ sessions'[i].remoteId = sessions[i].remoteId
    /\ sessions'[i].user = sessions[i].user
Forward(c) ==
  /\ client'[c].nonce = client[c].nonce
  /\ client'[c].at \in {"idle", "hello"} => client[c].at \in {"idle", "hello"}
  /\ client'[c].at = "authenticate" => client[c].at = "authenticate"
  /\ client'[c].at = "open" => client[c].at = "open" \/ Welcomed(c)
SentByRule ==
  \A m \in toServer' : m.type = "authenticate" =>
    \/ m \in toServer
    \/ /\ m = Authenticate(m.from) /\ client[m.from].at = "authenticate"
HeardByRule == \A c \in Clients : \A m \in ToThem(c)' : m.type = "close" \/ m \in ToThem(c)

LEMMA RulesKeepAuth ==
  ASSUME IInv, IInv', AuthInv, nonces' = nonces,
         SameOpen, \A c \in Clients : Forward(c), SentByRule, HeardByRule
  PROVE  AuthInv'
<1>1. OwnNonces'
  BY DEF SameOpen, AuthInv, OwnNonces
<1>2. \A c \in Clients : \A n : Owns(c, n) => Owns(c, n)'
  BY DEF SameOpen, Owns
<1>3. ChallengesOwned'
  BY <1>2 DEF HeardByRule, Forward, AuthInv, ChallengesOwned
<1>4. \A c \in Clients : Welcomed(c)' => Welcomed(c)
  BY DEF HeardByRule, Welcomed
<1>5. Phases'
  BY <1>4 DEF Forward, AuthInv, Phases
<1>6. Digests'
  <2> SUFFICES ASSUME NEW m \in toServer', m.type = "authenticate"
               PROVE  /\ m.nonce = client'[m.from].nonce
                      /\ client'[m.from].at \notin {"idle", "hello"}
    BY DEF Digests
  <2>1. m.from \in Clients
    BY MessageTypes DEF IInv, TypeOK
  <2>2. CASE m \in toServer
    BY <2>1, <2>2 DEF Forward, AuthInv, Digests
  <2>3. CASE m = Authenticate(m.from) /\ client[m.from].at = "authenticate"
    <3>1. m.nonce = client[m.from].nonce
      BY <2>3 DEF Authenticate
    <3> QED
      BY <2>1, <2>3, <3>1 DEF Forward
  <2> QED
    BY <2>2, <2>3 DEF SentByRule
<1>7. UserAnswered'
  BY DEF SameOpen, Forward, AuthInv, UserAnswered
<1>8. WelcomedHasUser'
  BY <1>4 DEF SameOpen, Forward, AuthInv, WelcomedHasUser
<1> QED
  BY <1>1, <1>3, <1>5, <1>6, <1>7, <1>8 DEF AuthInv

\* Packets the server sends and receives, for the rules.
LEMMA ServerPackets ==
  ASSUME IInv, client' = client
  PROVE  /\ \A c \in Clients : Forward(c)
         /\ \A m : Consume(m) => toServer' \subseteq toServer
         /\ toServer' \subseteq toServer => SentByRule
         /\ toClient' \subseteq toClient => HeardByRule
         /\ \A m : m.type = "close" /\ toClient' = Sent(m) => HeardByRule
<1>1. \A c \in Clients : Forward(c)
  BY DEF Forward
<1>2. \A m : Consume(m) => toServer' \subseteq toServer
  BY DEF Consume
<1>3. toServer' \subseteq toServer => SentByRule
  BY DEF SentByRule
<1>4. toClient' \subseteq toClient => HeardByRule
  BY DEF HeardByRule, ToThem
<1>5. ASSUME NEW m, m.type = "close", toClient' = Sent(m)
      PROVE  HeardByRule
  BY <1>5 DEF HeardByRule, ToThem, Sent
<1> QED
  BY <1>1, <1>2, <1>3, <1>4, <1>5

\* Packets that open no session for good and log nobody in, and house keeping.
LEMMA OtherServerStepsKeepAuth ==
  ASSUME IInv, IInv', AuthInv,
         \/ \E m \in toServer :
              \/ IgnoreHello(m) \/ RefuseHello(m) \/ DiscoverResponse(m)
              \/ RejectAuthenticate(m) \/ RecvClose(m) \/ RecvKeepAlive(m) \/ IgnoreUnknown(m)
         \/ \E i \in Slots : Quiet(i) \/ Timeout(i)
  PROVE  AuthInv'
<1>1. nonces' = nonces /\ client' = client
  BY DEF IgnoreHello, RefuseHello, DiscoverResponse, RejectAuthenticate, RecvClose,
         RecvKeepAlive, IgnoreUnknown, Quiet, Timeout
<1>2. sessions \in [Slots -> SessionRecords]
  BY DEF IInv, TypeOK, SessionRecords
<1>3. ASSUME NEW m \in toServer, IgnoreHello(m) \/ IgnoreUnknown(m)
      PROVE  SameOpen /\ SentByRule /\ HeardByRule
  BY <1>1, <1>3, ServerPackets DEF IgnoreHello, IgnoreUnknown, SameOpen
<1>4. ASSUME NEW m \in toServer, RefuseHello(m)
      PROVE  SameOpen /\ SentByRule /\ HeardByRule
  <2>1. FirstFree \in Slots
    BY <1>4, FirstFreeIsFree DEF RefuseHello
  <2>2. PICK r \in NextRand(FirstFree) :
          sessions' = [Opened(FirstFree, r) EXCEPT ![FirstFree].remoteId = m.from,
                                                   ![FirstFree].closed = TRUE]
    BY <1>4 DEF RefuseHello
  <2>3. r \in Rands
    BY <2>1, NextRandIsRand DEF IInv
  <2>4. /\ Opened(FirstFree, r) \in [Slots -> SessionRecords]
        /\ \A j \in Slots \ {FirstFree} : Opened(FirstFree, r)[j] = sessions[j]
    BY <2>1, <2>3, OpenedSession DEF IInv
  <2>5. /\ sessions'[FirstFree].closed
        /\ \A j \in Slots \ {FirstFree} : sessions'[j] = sessions[j]
    BY <2>1, <2>2, <2>4 DEF SessionRecords
  <2>6. SameOpen
    BY <2>5 DEF SameOpen
  <2> QED
    BY <1>1, <1>4, <2>6, ServerPackets DEF RefuseHello
<1>5. ASSUME NEW m \in toServer, DiscoverResponse(m)
      PROVE  SameOpen /\ SentByRule /\ HeardByRule
  <2>1. FirstFree \in Slots
    BY <1>5, FirstFreeIsFree DEF DiscoverResponse
  <2>2. PICK r \in NextRand(FirstFree) :
          sessions' = [Opened(FirstFree, r) EXCEPT ![FirstFree].closed = TRUE]
    BY <1>5 DEF DiscoverResponse
  <2>3. r \in Rands
    BY <2>1, NextRandIsRand DEF IInv
  <2>4. /\ Opened(FirstFree, r) \in [Slots -> SessionRecords]
        /\ \A j \in Slots \ {FirstFree} : Opened(FirstFree, r)[j] = sessions[j]
    BY <2>1, <2>3, OpenedSession DEF IInv
  <2>5. /\ sessions'[FirstFree].closed
        /\ \A j \in Slots \ {FirstFree} : sessions'[j] = sessions[j]
    BY <2>1, <2>2, <2>4 DEF SessionRecords
  <2>6. SameOpen
    BY <2>5 DEF SameOpen
  <2> QED
    BY <1>1, <1>5, <2>6, ServerPackets DEF DiscoverResponse
<1>6. ASSUME NEW m \in toServer, RejectAuthenticate(m)
      PROVE  SameOpen /\ SentByRule /\ HeardByRule
  <2>1. PICK i \in Session(m.id) : \E u \in BOOLEAN :
          sessions' = [sessions EXCEPT ![i].heard = TRUE, ![i].user = u, ![i].closed = TRUE]
    BY <1>6 DEF RejectAuthenticate
  <2>2. i \in Slots
    BY <2>1 DEF Session
  <2>3. SameOpen
    BY <1>2, <2>1, <2>2 DEF SameOpen, SessionRecords
  <2> QED
    BY <1>1, <1>6, <2>3, ServerPackets DEF RejectAuthenticate
<1>7. ASSUME NEW m \in toServer, RecvClose(m) \/ RecvKeepAlive(m)
      PROVE  SameOpen /\ SentByRule /\ HeardByRule
  <2>1. PICK i \in Session(m.id) :
          \/ sessions' = [sessions EXCEPT ![i].heard = TRUE, ![i].closed = TRUE]
          \/ sessions' = [sessions EXCEPT ![i].heard = TRUE]
    BY <1>7 DEF RecvClose, RecvKeepAlive
  <2>2. i \in Slots
    BY <2>1 DEF Session
  <2>3. SameOpen
    BY <1>2, <2>1, <2>2 DEF SameOpen, SessionRecords
  <2> QED
    BY <1>1, <1>7, <2>3, ServerPackets DEF RecvClose, RecvKeepAlive
<1>8. ASSUME NEW i \in Slots, Quiet(i) \/ Timeout(i)
      PROVE  SameOpen /\ SentByRule /\ HeardByRule
  <2>1. \/ sessions' = [sessions EXCEPT ![i].heard = FALSE]
        \/ sessions' = [sessions EXCEPT ![i].closed = TRUE]
    BY <1>8 DEF Quiet, Timeout
  <2>2. SameOpen
    BY <1>2, <2>1 DEF SameOpen, SessionRecords
  <2> QED
    BY <1>1, <1>8, <2>2, ServerPackets DEF Quiet, Timeout
<1>9. SameOpen /\ SentByRule /\ HeardByRule
  BY <1>3, <1>4, <1>5, <1>6, <1>7, <1>8
<1> QED
  BY <1>1, <1>9, ServerPackets, RulesKeepAuth

\* The digest is that of the session's nonce, so the client it came from is the one the
\* session was opened for; that client is welcomed, and the session has a user.
LEMMA WelcomeKeepsAuth ==
  ASSUME IInv, IInv', AuthInv, NEW m \in toServer, Welcome(m)
  PROVE  AuthInv'
<1>1. m \in ClientMsgs /\ m.from \in Clients /\ m.type = "authenticate"
  BY MessageTypes DEF Welcome, IInv, TypeOK
<1>2. PICK i \in Session(m.id) :
        /\ m.nonce = sessions[i].nonce
        /\ sessions' = [sessions EXCEPT ![i].heard = TRUE, ![i].user = TRUE]
        /\ toClient' = Sent([type |-> "welcome", to |-> sessions[i].remoteId, id |-> UnsetId])
  BY DEF Welcome
<1>3. /\ nonces' = nonces /\ client' = client /\ toServer' \subseteq toServer
  BY ServerPackets DEF Welcome
<1>4. i \in Slots /\ ~sessions[i].closed
  BY <1>2 DEF Session
<1>5. client[m.from].nonce = sessions[i].nonce /\ client[m.from].at \notin {"idle", "hello"}
  BY <1>1, <1>2 DEF AuthInv, Digests
<1>6. sessions[i].remoteId = m.from
  BY <1>1, <1>4, <1>5 DEF AuthInv, ChallengesOwned, Owns
<1>7. /\ sessions'[i].user = TRUE
      /\ \A j \in Slots : /\ sessions'[j].closed = sessions[j].closed
                          /\ sessions'[j].nonce = sessions[j].nonce
                          /\ sessions'[j].remoteId = sessions[j].remoteId
                          /\ j # i => sessions'[j].user = sessions[j].user
  BY <1>2, <1>4 DEF IInv, TypeOK
<1>8. \A c \in Clients : \A w \in ToThem(c)' :
        w \in ToThem(c) \/ (w.type = "welcome" /\ c = m.from)
  BY <1>2, <1>3, <1>6 DEF ToThem, Sent
<1>9. OwnNonces'
  BY <1>3, <1>7 DEF AuthInv, OwnNonces
<1>10. \A c \in Clients : \A n : Owns(c, n) => Owns(c, n)'
  BY <1>3, <1>7 DEF Owns
<1>11. ChallengesOwned'
  BY <1>3, <1>8, <1>10 DEF AuthInv, ChallengesOwned
<1>12. \A c \in Clients : Welcomed(c)' => Welcomed(c) \/ c = m.from
  BY <1>8 DEF Welcomed
<1>13. Phases'
  BY <1>3, <1>5, <1>12 DEF AuthInv, Phases
<1>14. Digests'
  BY <1>3 DEF AuthInv, Digests
<1>15. UserAnswered'
  BY <1>1, <1>3, <1>5, <1>6, <1>7 DEF AuthInv, UserAnswered
<1>16. WelcomedHasUser'
  <2>1. \A j \in Slots : ~sessions[j].closed /\ sessions[j].nonce = client[m.from].nonce => j = i
    BY <1>4, <1>5 DEF AuthInv, OwnNonces
  <2>2. \A j \in Slots : sessions[j].user => sessions'[j].user
    BY <1>7
  <2> QED
    BY <1>3, <1>7, <1>12, <2>1, <2>2 DEF AuthInv, WelcomedHasUser
<1> QED
  BY <1>9, <1>11, <1>13, <1>14, <1>15, <1>16 DEF AuthInv

\* A challenge draws a nonce that nobody has yet.
LEMMA ChallengeKeepsAuth ==
  ASSUME IInv, IInv', AuthInv, NEW m \in toServer, Challenge(m)
  PROVE  AuthInv'
<1> DEFINE i == FirstFree
           dup == Duplicate(i, m.from)
<1>1. m.from \in Clients
  BY MessageTypes DEF IInv, TypeOK
<1>2. i \in Slots
  BY FirstFreeIsFree DEF Challenge
<1>3. PICK r \in NextRand(i) :
        /\ sessions' = [j \in Slots |->
             IF j = i THEN [Opened(i, r)[i] EXCEPT !.remoteId = m.from,
                                                   !.nonce = nonces + 1]
             ELSE IF j \in dup THEN [sessions[j] EXCEPT !.closed = TRUE]
             ELSE sessions[j]]
        /\ toClient' =
             Sent([type |-> "challenge", to |-> m.from,
                   id |-> [rand |-> r, index |-> i], nonce |-> nonces + 1])
  BY DEF Challenge, FreshNonce
<1>4. r \in Rands
  BY <1>2, <1>3, NextRandIsRand DEF IInv
<1>5. Opened(i, r)[i] \in SessionRecords /\ ~Opened(i, r)[i].user
  BY <1>2, <1>4, OpenedSession DEF IInv
<1>6. /\ nonces' = nonces + 1 /\ client' = client /\ toServer' \subseteq toServer
      /\ nonces \in Nat
  <2>1. nonces' = nonces + 1 /\ client' = client /\ Consume(m)
    BY DEF Challenge, FreshNonce
  <2> QED
    BY <2>1, ServerPackets DEF IInv, TypeOK, Nonces
<1>7. sessions \in [Slots -> SessionRecords]
  BY DEF IInv, TypeOK, SessionRecords
<1> HIDE DEF i, dup
<1>8. /\ sessions'[i].remoteId = m.from /\ sessions'[i].nonce = nonces + 1
      /\ ~sessions'[i].user
  BY <1>1, <1>2, <1>3, <1>5 DEF SessionRecords
<1>9. \A j \in Slots : j # i =>
        /\ ~sessions'[j].closed => ~sessions[j].closed
        /\ sessions'[j].nonce = sessions[j].nonce
        /\ sessions'[j].remoteId = sessions[j].remoteId
        /\ sessions'[j].user = sessions[j].user
  BY <1>2, <1>3, <1>7 DEF SessionRecords
<1>10. \A c \in Clients : \A w \in ToThem(c)' :
         \/ w \in ToThem(c)
         \/ w.type = "challenge" /\ w.nonce = nonces + 1 /\ c = m.from
  BY <1>3, <1>6 DEF ToThem, Sent
<1>11. \A j \in Slots : ~sessions[j].closed => sessions[j].nonce \in 1..nonces
  BY DEF AuthInv, OwnNonces
<1>12. OwnNonces'
  <2>1. \A j \in Slots : j # i /\ ~sessions'[j].closed =>
          sessions'[j].nonce \in 1..nonces
    BY <1>9, <1>11
  <2>2. \A j \in Slots : ~sessions'[j].closed => sessions'[j].nonce \in 1..(nonces + 1)
    BY <1>6, <1>8, <2>1
  <2>3. nonces + 1 \notin 1..nonces
    BY <1>6
  <2>4. \A j, k \in Slots : /\ ~sessions'[j].closed /\ ~sessions'[k].closed
                            /\ sessions'[j].nonce = sessions'[k].nonce
                            => j = k
    BY <1>8, <1>9, <2>1, <2>3 DEF AuthInv, OwnNonces
  <2> QED
    BY <1>6, <2>2, <2>4 DEF OwnNonces
<1>13. \A c \in Clients : \A n : Owns(c, n) => Owns(c, n)'
  <2> SUFFICES ASSUME NEW c \in Clients, NEW n, Owns(c, n)
               PROVE  Owns(c, n)'
    OBVIOUS
  <2>1. n \in 0..nonces
    BY DEF Owns
  <2>2. n \in 0..(nonces + 1) /\ n # nonces + 1
    BY <1>6, <2>1
  <2> QED
    BY <1>6, <1>8, <1>9, <2>2 DEF Owns
<1>14. \A n : n = nonces + 1 => Owns(m.from, n)'
  <2> SUFFICES ASSUME NEW n, n = nonces + 1
               PROVE  Owns(m.from, n)'
    OBVIOUS
  <2>1. n \in 0..nonces'
    BY <1>6
  <2>2. \A j \in Slots : ~sessions[j].closed => sessions[j].nonce # n
    BY <1>6, <1>11
  <2>3. \A j \in Slots : ~sessions'[j].closed /\ sessions'[j].nonce = n
                           => sessions'[j].remoteId = m.from
    BY <1>8, <1>9, <2>2
  <2> QED
    BY <2>1, <2>3 DEF Owns
<1>15. nonces + 1 # 0
  BY <1>6
<1>16. ChallengesOwned'
  BY <1>6, <1>10, <1>13, <1>14, <1>15 DEF AuthInv, ChallengesOwned
<1>17. \A c \in Clients : Welcomed(c)' => Welcomed(c)
  BY <1>10 DEF Welcomed
<1>18. Phases' /\ Digests'
  BY <1>6, <1>17 DEF AuthInv, Phases, Digests
<1>19. UserAnswered'
  BY <1>6, <1>8, <1>9 DEF AuthInv, UserAnswered
<1>20. WelcomedHasUser'
  <2>1. \A c \in Clients : client[c].nonce # nonces + 1
    BY <1>6 DEF AuthInv, ChallengesOwned, Owns
  <2> QED
    BY <1>6, <1>8, <1>9, <1>17, <2>1 DEF AuthInv, WelcomedHasUser
<1> QED
  BY <1>12, <1>16, <1>18, <1>19, <1>20 DEF AuthInv

\* A client takes a challenge: it has the nonce from then on, and never says hello again.
LEMMA ChallengeTakenKeepsAuth ==
  ASSUME IInv, IInv', AuthInv, NEW c \in Clients, DequeueHello(c),
         Head(client[c].inbox).type = "challenge"
  PROVE  AuthInv'
<1> DEFINE m == Head(client[c].inbox)
<1>1. client \in [Clients -> ClientRecords] /\ client[c].inbox \in Seq(ServerMsgs)
  BY DEF IInv, TypeOK, ClientRecords
<1>2. UNCHANGED <<nonces, sessions, toServer, toClient>>
      /\ client[c].at = "hello" /\ client[c].inbox # <<>>
  BY DEF DequeueHello
<1>3. /\ client'[c].at = "authenticate" /\ client'[c].nonce = m.nonce
      /\ client'[c].inbox = Tail(client[c].inbox)
      /\ \A d \in Clients : d # c => client'[d] = client[d]
  BY <1>1 DEF DequeueHello, ClientRecords
<1>4. /\ m = client[c].inbox[1] /\ 1 \in 1..Len(client[c].inbox)
      /\ \A k \in 1..Len(Tail(client[c].inbox)) :
           /\ k + 1 \in 1..Len(client[c].inbox)
           /\ Tail(client[c].inbox)[k] = client[c].inbox[k + 1]
  <2>1. \A q \in Seq(ServerMsgs) : q # <<>> =>
          /\ Head(q) = q[1] /\ Len(q) \in Nat \ {0}
          /\ Len(Tail(q)) = Len(q) - 1
          /\ \A k \in 1..Len(Tail(q)) : Tail(q)[k] = q[k + 1]
    OBVIOUS
  <2> QED
    BY <1>1, <1>2, <2>1
<1>5. m \in ToThem(c)
  BY <1>4 DEF ToThem
<1>6. \A d \in Clients : \A w \in ToThem(d)' : w \in ToThem(d)
  <2> SUFFICES ASSUME NEW d \in Clients, NEW w \in ToThem(d)'
               PROVE  w \in ToThem(d)
    OBVIOUS
  <2>1. CASE d # c
    BY <1>2, <1>3, <2>1 DEF ToThem
  <2>2. CASE d = c
    <3>1. ToThem(c)' \subseteq ToThem(c)
      BY <1>2, <1>3, <1>4 DEF ToThem
    <3> QED
      BY <2>2, <3>1
  <2> QED
    BY <2>1, <2>2
<1>7. Owns(c, m.nonce) /\ m.nonce # 0
  BY <1>5 DEF AuthInv, ChallengesOwned
<1>8. OwnNonces' /\ \A d \in Clients : \A n : Owns(d, n)' <=> Owns(d, n)
  BY <1>2 DEF AuthInv, OwnNonces, Owns
<1>9. ChallengesOwned'
  BY <1>3, <1>6, <1>7, <1>8 DEF AuthInv, ChallengesOwned
<1>10. ~Welcomed(c) /\ client[c].nonce = 0
  BY <1>2 DEF AuthInv, Phases
<1>11. \A d \in Clients : Welcomed(d)' => Welcomed(d)
  BY <1>6 DEF Welcomed
<1>12. Phases'
  BY <1>3, <1>7, <1>11 DEF AuthInv, Phases
<1>13. Digests'
  <2>1. \A w \in toServer : w.type = "authenticate" => w.from # c /\ w.from \in Clients
    BY <1>2, MessageTypes DEF AuthInv, Digests, IInv, TypeOK
  <2> QED
    BY <1>2, <1>3, <2>1 DEF AuthInv, Digests
<1>14. UserAnswered'
  <2>1. \A i \in Slots : ~sessions[i].closed /\ sessions[i].user => sessions[i].remoteId # c
    BY <1>10 DEF AuthInv, UserAnswered, OwnNonces
  <2> QED
    BY <1>2, <1>3, <2>1 DEF AuthInv, UserAnswered
<1>15. WelcomedHasUser'
  BY <1>2, <1>3, <1>10, <1>11 DEF AuthInv, WelcomedHasUser
<1> QED
  BY <1>8, <1>9, <1>12, <1>13, <1>14, <1>15 DEF AuthInv

\* An answer to hello other than a challenge shuts the session and keeps the nonce.
LEMMA HelloRefused ==
  ASSUME client \in [Clients -> ClientRecords], NEW c \in Clients,
         DequeueHello(c), Head(client[c].inbox).type # "challenge"
  PROVE  /\ client[c].at = "hello" /\ client[c].inbox # <<>>
         /\ client'[c].at = "closed" /\ client'[c].nonce = client[c].nonce
         /\ client'[c].inbox = Tail(client[c].inbox)
         /\ \A d \in Clients : d # c => client'[d] = client[d]
<1> DEFINE q == client[c].inbox
<1> DEFINE m == Head(q)
<1>1. /\ client[c].at = "hello" /\ q # <<>>
      /\ client' = [client EXCEPT ![c].inbox = Tail(@),
            ![c].at = IF m.type = "challenge" THEN "authenticate" ELSE "closed",
            ![c].remoteId = IF m.type = "challenge" THEN m.id ELSE @,
            ![c].nonce = IF m.type = "challenge" THEN m.nonce ELSE @,
            ![c].tries = 0]
  BY DEF DequeueHello
<1>2. m.type # "challenge"
  OBVIOUS
<1>3. client[c] \in ClientRecords
  OBVIOUS
<1> HIDE DEF m, q
<1>4. \A d \in Clients : d # c => client'[d] = client[d]
  BY <1>1
<1>5. client'[c] = [client[c] EXCEPT !.inbox = Tail(@),
            !.at = IF m.type = "challenge" THEN "authenticate" ELSE "closed",
            !.remoteId = IF m.type = "challenge" THEN m.id ELSE @,
            !.nonce = IF m.type = "challenge" THEN m.nonce ELSE @,
            !.tries = 0]
  BY <1>1
<1>6. /\ client'[c].at = "closed" /\ client'[c].nonce = client[c].nonce
      /\ client'[c].inbox = Tail(client[c].inbox)
  BY <1>2, <1>3, <1>5 DEF ClientRecords
<1> QED
  BY <1>1, <1>4, <1>6 DEF q

\* The other steps of a client go forward by the rules.
LEMMA OtherClientStepsKeepAuth ==
  ASSUME IInv, IInv', AuthInv, NEW c \in Clients,
         \/ SendHello(c) \/ SendAuthenticate(c) \/ NoResponse(c)
         \/ DequeueHello(c) /\ Head(client[c].inbox).type # "challenge"
         \/ DequeueAuthenticate(c) \/ DropChallenge(c)
         \/ KeepAlive(c) \/ Close(c) \/ Discover(c)
  PROVE  AuthInv'
<1>1. client \in [Clients -> ClientRecords] /\ client[c].inbox \in Seq(ServerMsgs)
  BY DEF IInv, TypeOK, ClientRecords
<1>2. UNCHANGED <<nonces, sessions, toClient>>
  BY DEF SendHello, SendAuthenticate, NoResponse, DequeueHello, DequeueAuthenticate,
         DropChallenge, KeepAlive, Close, Discover
<1>3. SentByRule
  <2>1. \/ \E m : m.type # "authenticate" /\ SendToServer(m)
        \/ client[c].at = "authenticate" /\ SendToServer(Authenticate(c))
        \/ toServer' = toServer
    BY DEF SendHello, SendAuthenticate, NoResponse, DequeueHello, DequeueAuthenticate,
           DropChallenge, KeepAlive, Close, Discover
  <2>2. Authenticate(c).from = c
    BY DEF Authenticate
  <2> QED
    BY <2>1, <2>2 DEF SendToServer, SentByRule
<1>4. \A q \in Seq(ServerMsgs) :
        /\ Len(q) \in Nat
        /\ q # <<>> => /\ Head(q) = q[1] /\ 1 \in 1..Len(q)
                       /\ \A k \in 1..Len(Tail(q)) :
                            k + 1 \in 1..Len(q) /\ Tail(q)[k] = q[k + 1]
  OBVIOUS
<1>5. /\ \A d \in Clients : d # c => client'[d] = client[d]
      /\ client'[c].nonce = client[c].nonce
      /\ \/ client'[c].inbox = client[c].inbox
         \/ client'[c].inbox = <<>>
         \/ client[c].inbox # <<>> /\ client'[c].inbox = Tail(client[c].inbox)
  <2>1. CASE SendHello(c) \/ SendAuthenticate(c)
    BY <1>1, <2>1 DEF SendHello, SendAuthenticate, ClientRecords
  <2>2. CASE NoResponse(c)
    BY <1>1, <2>2 DEF NoResponse, ClientRecords
  <2>3. CASE DequeueHello(c) /\ Head(client[c].inbox).type # "challenge"
    BY <1>1, <2>3, HelloRefused
  <2>4. CASE DequeueAuthenticate(c)
    BY <1>1, <2>4 DEF DequeueAuthenticate, ClientRecords
  <2>5. CASE DropChallenge(c)
    BY <1>1, <2>5 DEF DropChallenge, ClientRecords
  <2>6. CASE KeepAlive(c) \/ Close(c) \/ Discover(c)
    BY <1>1, <2>6 DEF KeepAlive, Close, Discover, ClientRecords
  <2> QED
    BY <2>1, <2>2, <2>3, <2>4, <2>5, <2>6
<1>6. HeardByRule
  <2>1. \A d \in Clients : d # c => ToThem(d)' = ToThem(d)
    BY <1>2, <1>5 DEF ToThem
  <2>2. ToThem(c)' \subseteq ToThem(c)
    <3>1. CASE client'[c].inbox = client[c].inbox
      BY <1>2, <3>1 DEF ToThem
    <3>2. CASE client'[c].inbox = <<>>
      <4>1. Len(<<>>) = 0
        BY EmptySeq
      <4> QED
        BY <1>2, <3>2, <4>1 DEF ToThem
    <3>3. CASE client[c].inbox # <<>> /\ client'[c].inbox = Tail(client[c].inbox)
      BY <1>1, <1>2, <1>4, <3>3 DEF ToThem
    <3> QED
      BY <1>5, <3>1, <3>2, <3>3
  <2> QED
    BY <2>1, <2>2 DEF HeardByRule
<1>7. Forward(c)
  <2>1. client[c].inbox # <<>> => Head(client[c].inbox) \in ToThem(c)
    BY <1>1, <1>4 DEF ToThem
  <2>2. CASE SendHello(c) \/ SendAuthenticate(c) \/ NoResponse(c)
             \/ KeepAlive(c) \/ Close(c) \/ Discover(c)
    BY <1>1, <1>5, <2>2 DEF SendHello, SendAuthenticate, NoResponse, KeepAlive, Close,
         Discover, ClientRecords, Forward
  <2>3. CASE DequeueHello(c) /\ Head(client[c].inbox).type # "challenge"
    BY <1>1, <1>5, <2>3, HelloRefused DEF Forward
  <2>4. CASE DequeueAuthenticate(c)
    <3> DEFINE m == Head(client[c].inbox)
    <3>1. /\ client[c].at = "authenticate" /\ client[c].inbox # <<>>
          /\ client'[c].at = IF m.type = "welcome" /\ ~Shut(client[c].inbox)
                             THEN "open" ELSE "closed"
      BY <1>1, <2>4 DEF DequeueAuthenticate, ClientRecords
    <3>2. m \in ToThem(c)
      BY <2>1, <3>1
    <3>3. client'[c].at = "open" => Welcomed(c)
      BY <3>1, <3>2 DEF Welcomed
    <3> QED
      BY <1>5, <3>1, <3>3 DEF Forward
  <2>5. CASE DropChallenge(c)
    <3>1. client[c].at = "authenticate" /\ client'[c].at \in {"authenticate", "failed"}
      BY <1>1, <2>5 DEF DropChallenge, ClientRecords
    <3> QED
      BY <1>5, <3>1 DEF Forward
  <2> QED
    BY <2>2, <2>3, <2>4, <2>5
<1>8. \A d \in Clients : Forward(d)
  BY <1>5, <1>7 DEF Forward
<1>9. SameOpen
  BY <1>2 DEF SameOpen
<1> QED
  BY <1>2, <1>3, <1>6, <1>8, <1>9, RulesKeepAuth

\* A packet that reaches its client moves to the queue of the connecting thread.
LEMMA DispatchKeepsAuth ==
  ASSUME IInv, IInv', AuthInv, NEW m \in toClient, Dispatch(m)
  PROVE  AuthInv'
<1>1. client \in [Clients -> ClientRecords] /\ m.to \in Clients /\ m \in ServerMsgs
  BY MessageTypes DEF IInv, TypeOK, ClientRecords
<1>2. client[m.to].inbox \in Seq(ServerMsgs)
  BY <1>1 DEF ClientRecords
<1>3. UNCHANGED <<nonces, sessions, toServer>> /\ toClient' \subseteq toClient
  BY DEF Dispatch
<1>4. /\ \A d \in Clients : d # m.to => client'[d] = client[d]
      /\ client'[m.to].nonce = client[m.to].nonce
      /\ client'[m.to].at \in {client[m.to].at, "closed"}
      /\ client'[m.to].inbox \in {client[m.to].inbox, Append(client[m.to].inbox, m)}
  BY <1>1 DEF Dispatch, ClientRecords
<1>5. \A q \in Seq(ServerMsgs) :
        \A k \in 1..Len(Append(q, m)) :
          \/ k \in 1..Len(q) /\ Append(q, m)[k] = q[k]
          \/ Append(q, m)[k] = m
  BY <1>1
<1>6. HeardByRule
  <2>1. \A d \in Clients : d # m.to => ToThem(d)' \subseteq ToThem(d)
    BY <1>3, <1>4 DEF ToThem
  <2>2. m \in ToThem(m.to)
    BY DEF ToThem
  <2>3. ToThem(m.to)' \subseteq ToThem(m.to)
    <3>1. CASE client'[m.to].inbox = client[m.to].inbox
      BY <1>3, <3>1 DEF ToThem
    <3>2. CASE client'[m.to].inbox = Append(client[m.to].inbox, m)
      BY <1>2, <1>3, <1>5, <2>2, <3>2 DEF ToThem
    <3> QED
      BY <1>4, <3>1, <3>2
  <2> QED
    BY <2>1, <2>3 DEF HeardByRule
<1>7. \A d \in Clients : Forward(d)
  BY <1>4 DEF Forward
<1>8. SameOpen /\ SentByRule
  BY <1>3 DEF SameOpen, SentByRule
<1> QED
  BY <1>3, <1>6, <1>7, <1>8, RulesKeepAuth

LEMMA LoseKeepsAuth ==
  ASSUME IInv, IInv', AuthInv, Lose \/ UNCHANGED vars
  PROVE  AuthInv'
<1>1. /\ UNCHANGED <<nonces, sessions, client>>
      /\ toServer' \subseteq toServer /\ toClient' \subseteq toClient
  BY DEF Lose, vars
<1>2. SameOpen
  BY <1>1 DEF SameOpen
<1> QED
  BY <1>1, <1>2, ServerPackets, RulesKeepAuth

LEMMA NextKeepsAuth == IInv /\ AuthInv /\ [Next]_vars => AuthInv'
<1> SUFFICES ASSUME IInv, AuthInv, [Next]_vars
             PROVE  AuthInv'
  OBVIOUS
<1>1. IInv'
  BY StepInvariant
<1>2. ASSUME NEW m \in toServer, Challenge(m) PROVE AuthInv'
  BY <1>1, <1>2, ChallengeKeepsAuth
<1>3. ASSUME NEW m \in toServer, Welcome(m) PROVE AuthInv'
  BY <1>1, <1>3, WelcomeKeepsAuth
<1>4. CASE \/ \E m \in toServer :
                \/ IgnoreHello(m) \/ RefuseHello(m) \/ DiscoverResponse(m)
                \/ RejectAuthenticate(m) \/ RecvClose(m) \/ RecvKeepAlive(m)
                \/ IgnoreUnknown(m)
           \/ \E i \in Slots : Quiet(i) \/ Timeout(i)
  BY <1>1, <1>4, OtherServerStepsKeepAuth
<1>5. ASSUME NEW c \in Clients,
             \/ SendHello(c) \/ SendAuthenticate(c) \/ NoResponse(c) \/ DequeueHello(c)
             \/ DequeueAuthenticate(c) \/ DropChallenge(c)
             \/ KeepAlive(c) \/ Close(c) \/ Discover(c)
      PROVE  AuthInv'
  BY <1>1, <1>5, ChallengeTakenKeepsAuth, OtherClientStepsKeepAuth
<1>6. ASSUME NEW m \in toClient, Dispatch(m) PROVE AuthInv'
  BY <1>1, <1>6, DispatchKeepsAuth
<1>7. CASE Lose \/ UNCHANGED vars
  BY <1>1, <1>7, LoseKeepsAuth
<1> QED
  BY <1>2, <1>3, <1>4, <1>5, <1>6, <1>7 DEF Next

\* Who is logged in, for any number of clients, slots, random bytes and nonces, over a
\* network that loses, repeats and reorders packets.
THEOREM Authentication == Spec => []AuthInv
<1>1. AuthInv /\ IInv /\ [Next]_vars => AuthInv'
  BY NextKeepsAuth
<1> QED
  BY <1>1, InitAuth, Invariance, PTL DEF Spec

\* A session has a user only when the client it was opened for has answered its own
\* challenge, although ids come back and packets are late (SoxSession.authenticate).
THEOREM OnlyTheClientLogsIn == Spec => []UserAnswered
<1>1. AuthInv => UserAnswered
  BY DEF AuthInv
<1> QED
  BY <1>1, Authentication, PTL

\* The session an open client answered is its own and has a user, or is gone.
THEOREM WelcomeIsOfOwnSession == Spec => []OpenClientHasUser
<1>1. AuthInv => OpenClientHasUser
  BY DEF AuthInv, ChallengesOwned, Owns, WelcomedHasUser, OpenClientHasUser
<1> QED
  BY <1>1, Authentication, PTL
=============================================================================
