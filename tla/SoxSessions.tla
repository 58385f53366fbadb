---------------------------- MODULE SoxSessions ----------------------------
(***************************************************************************)
(* The session table of the SoxService (SoxService, SoxSession and the     *)
(* watch table of App) and the handshake of the Java clients               *)
(* (sedona/dasp/DaspSession.java), over a network that loses, delays,      *)
(* repeats and reorders packets.                                           *)
(*                                                                         *)
(* A client is one connect() of one DaspSession: its random session id and *)
(* its address are the model value of the client. A server session id is   *)
(* the pair <<rand, index>> packed by Watch.id().                          *)
(***************************************************************************)
EXTENDS Integers, Sequences, FiniteSets

CONSTANTS
  Clients,
  NumWatches,  \* Watch.max (4)
  NumRands,    \* values of a Watch's random byte (256)
  MaxTries,    \* attempts at hello and at authenticate (3)
  Incompatible,\* clients that ask for another protocol version
  Repeats,     \* whether the network repeats packets to the server
  Extras,      \* what else clients send: a subset of {"keepAlive", "discover"}
  MaxNonces,   \* bound of the model: challenges, each with a nonce of its own
  MaxInFlight, \* bound of the model: packets in flight each way
  MaxInbox,    \* bound of the model: packets waiting for a connecting thread
  Nobody       \* remoteId of a session object never used

ASSUME SessionSizes ==
  /\ NumWatches \in Nat \ {0} /\ MaxTries \in Nat \ {0}
  /\ NumRands \in Nat \ {0, 1}
  /\ Incompatible \subseteq Clients /\ Repeats \in BOOLEAN
  /\ MaxNonces \in Nat /\ MaxInFlight \in Nat
  /\ MaxInbox \in Nat \ {0} /\ Extras \subseteq {"keepAlive", "discover"}
  /\ Nobody \notin Clients

Slots == 0..(NumWatches - 1)
Rands == 0..(NumRands - 1)
SessionIds == [rand: Rands, index: Slots]
\* 64 random bits that no other challenge has; 0 before the first challenge.
Nonces == 0..MaxNonces
\* DaspSession.remoteId before the challenge: a Java int that was never set.
UnsetId == [rand |-> 0, index |-> 0]

VARIABLES
  watches,    \* App.watches: which slots are taken
  nonces,     \* how many nonces were drawn
  sessions,   \* SoxService.sessions: [closed, rand, remoteId, nonce, user, heard]
  client,     \* each DaspSession: [at, tries, remoteId, nonce, inbox]
  toServer,   \* packets in flight
  toClient

vars == <<watches, nonces, sessions, client, toServer, toClient>>

\* The digest of an authenticate is that of one nonce.
ServerMsgs == [type: {"challenge"}, to: Clients, id: SessionIds, nonce: Nonces]
              \cup [type: {"welcome", "close"}, to: Clients, id: {UnsetId}]
ClientMsgs == [type: {"authenticate"}, from: Clients, id: SessionIds, nonce: Nonces]
              \cup [type: {"keepAlive", "close"}, from: Clients, id: SessionIds]
              \cup [type: {"hello", "discover"}, from: Clients, id: {UnsetId}]

States == {"idle", "hello", "authenticate", "open", "failed", "closed"}

TypeOK ==
  /\ watches \in [Slots -> BOOLEAN] /\ nonces \in Nonces
  /\ sessions \in [Slots -> [closed: BOOLEAN, rand: Rands, heard: BOOLEAN,
                             remoteId: Clients \cup {Nobody}, nonce: Nonces,
                             user: BOOLEAN]]
  /\ client \in [Clients -> [at: States, tries: 0..MaxTries, remoteId: SessionIds,
                             nonce: Nonces, inbox: Seq(ServerMsgs)]]
  /\ toServer \subseteq ClientMsgs
  /\ toClient \subseteq ServerMsgs

\* initWatches, and the zeroed fields of the objects.
Init ==
  /\ watches = [i \in Slots |-> FALSE] /\ nonces = 0
  /\ sessions = [i \in Slots |-> [closed |-> TRUE, rand |-> 0, heard |-> FALSE,
                                  remoteId |-> Nobody, nonce |-> 0, user |-> FALSE]]
  /\ client = [c \in Clients |-> [at |-> "idle", tries |-> 0,
                                  remoteId |-> UnsetId, nonce |-> 0, inbox |-> <<>>]]
  /\ toServer = {}
  /\ toClient = {}

-----------------------------------------------------------------------------
(* The server: one step per packet, as SoxService.dispatch is *)

Id(i) == [rand |-> sessions[i].rand, index |-> i]

\* session(id): the open session the id names, if any.
Session(id) == {i \in Slots : Id(i) = id /\ ~sessions[i].closed}

\* openWatch takes the first free slot and a random byte other than its last,
\* kept in a byte. (Mutant of NextRand: in an int.)
FreeSlots == {i \in Slots : ~watches[i]}
FirstFree == CHOOSE i \in FreeSlots : \A j \in FreeSlots : i <= j
NextRandNoWrap(i) == {IF r # sessions[i].rand THEN r ELSE r + 1 : r \in Rands}
NextRand(i) == {IF r # sessions[i].rand THEN r ELSE (r + 1) % NumRands : r \in Rands}

\* openWatch, then SoxSession.reset, which leaves remoteId alone.
Opened(i, r) == [sessions EXCEPT ![i] = [@ EXCEPT !.closed = FALSE, !.rand = r,
                                                  !.heard = TRUE, !.user = FALSE]]

\* The first other session with the new session's remoteId and address, open
\* or not: challenge closes that one and looks no further.
Duplicate(i, c) ==
  LET same == {j \in Slots \ {i} : sessions[j].remoteId = c}
  IN {j \in same : \A k \in same : j <= k}

Consume(m) == toServer' \in (IF Repeats THEN {toServer, toServer \ {m}}
                             ELSE {toServer \ {m}})

\* What does not fit in the network any more is lost.
Sent(m) == IF Cardinality(toClient) < MaxInFlight THEN toClient \cup {m} ELSE toClient

\* HELLO with no free slot: no answer at all.
IgnoreHello(m) ==
  /\ m \in toServer /\ m.type \in {"hello", "discover"}
  /\ FreeSlots = {}
  /\ Consume(m)
  /\ UNCHANGED <<watches, nonces, sessions, client, toClient>>

\* HELLO of another version: a session is opened and closed again.
RefuseHello(m) ==
  /\ m \in toServer /\ m.type = "hello" /\ m.from \in Incompatible
  /\ FreeSlots # {}
  /\ \E r \in NextRand(FirstFree) :
       sessions' = [Opened(FirstFree, r) EXCEPT ![FirstFree].remoteId = m.from,
                                                ![FirstFree].closed = TRUE]
  /\ toClient' = Sent([type |-> "close", to |-> m.from, id |-> UnsetId])
  /\ Consume(m)
  /\ UNCHANGED <<watches, nonces, client>>

FreshNonce == nonces + 1

\* HELLO: open a session, close a duplicate, send the challenge.
Challenge(m) ==
  /\ m \in toServer /\ m.type = "hello" /\ m.from \notin Incompatible
  /\ FreeSlots # {} /\ nonces < MaxNonces
  /\ nonces' = FreshNonce
  /\ LET i == FirstFree
         dup == Duplicate(i, m.from)
     IN \E r \in NextRand(i) :
          /\ sessions' = [j \in Slots |->
               IF j = i THEN [Opened(i, r)[i] EXCEPT !.remoteId = m.from,
                                                       !.nonce = FreshNonce]
               ELSE IF j \in dup THEN [sessions[j] EXCEPT !.closed = TRUE]
               ELSE sessions[j]]
          /\ watches' = [j \in Slots |-> IF j = i THEN TRUE
                                         ELSE IF j \in dup THEN FALSE ELSE watches[j]]
          /\ toClient' = Sent([type |-> "challenge", to |-> m.from,
                               id |-> [rand |-> r, index |-> i], nonce |-> FreshNonce])
  /\ Consume(m)
  /\ UNCHANGED client

\* DISCOVER opens a session for the answer and closes it; the answer goes to
\* no session of the client.
DiscoverResponse(m) ==
  /\ m \in toServer /\ m.type = "discover"
  /\ FreeSlots # {}
  /\ \E r \in NextRand(FirstFree) :
       sessions' = [Opened(FirstFree, r) EXCEPT ![FirstFree].closed = TRUE]
  /\ Consume(m)
  /\ UNCHANGED <<watches, nonces, client, toClient>>

\* Mutant of Welcome: the nonce is left out of the digest.
WelcomeAnyNonce(m) ==
  /\ m \in toServer /\ m.type = "authenticate"
  /\ \E i \in Session(m.id) :
       /\ sessions' = [sessions EXCEPT ![i].heard = TRUE, ![i].user = TRUE]
       /\ toClient' = Sent([type |-> "welcome", to |-> sessions[i].remoteId, id |-> UnsetId])
  /\ Consume(m)
  /\ UNCHANGED <<watches, nonces, client>>

\* Mutant of Welcome: the user is not kept.
WelcomeNoUser(m) ==
  /\ m \in toServer /\ m.type = "authenticate"
  /\ \E i \in Session(m.id) :
       /\ m.nonce = sessions[i].nonce
       /\ sessions' = [sessions EXCEPT ![i].heard = TRUE]
       /\ toClient' = Sent([type |-> "welcome", to |-> sessions[i].remoteId, id |-> UnsetId])
  /\ Consume(m)
  /\ UNCHANGED <<watches, nonces, client>>

\* AUTHENTICATE with good credentials, digested with the nonce of the session.
Welcome(m) ==
  /\ m \in toServer /\ m.type = "authenticate"
  /\ \E i \in Session(m.id) :
       /\ m.nonce = sessions[i].nonce
       /\ sessions' = [sessions EXCEPT ![i].heard = TRUE, ![i].user = TRUE]
       /\ toClient' = Sent([type |-> "welcome", to |-> sessions[i].remoteId, id |-> UnsetId])
  /\ Consume(m)
  /\ UNCHANGED <<watches, nonces, client>>

\* AUTHENTICATE with bad credentials or another nonce: user may already be set; close.
RejectAuthenticate(m) ==
  /\ m \in toServer /\ m.type = "authenticate"
  /\ \E i \in Session(m.id) :
       /\ \E u \in BOOLEAN :
            sessions' = [sessions EXCEPT ![i].heard = TRUE, ![i].user = u, ![i].closed = TRUE]
       /\ watches' = [watches EXCEPT ![i] = FALSE]
       /\ toClient' = Sent([type |-> "close", to |-> sessions[i].remoteId, id |-> UnsetId])
  /\ Consume(m)
  /\ UNCHANGED <<nonces, client>>

\* Mutant of RecvClose: closed without closeWatch.
RecvCloseOnly(m) ==
  /\ m \in toServer /\ m.type = "close"
  /\ \E i \in Session(m.id) :
       sessions' = [sessions EXCEPT ![i].heard = TRUE, ![i].closed = TRUE]
  /\ Consume(m)
  /\ UNCHANGED <<watches, nonces, client, toClient>>

\* CLOSE: closed without an answer.
RecvClose(m) ==
  /\ m \in toServer /\ m.type = "close"
  /\ \E i \in Session(m.id) :
       /\ sessions' = [sessions EXCEPT ![i].heard = TRUE, ![i].closed = TRUE]
       /\ watches' = [watches EXCEPT ![i] = FALSE]
  /\ Consume(m)
  /\ UNCHANGED <<nonces, client, toClient>>

\* Anything else of an open session only refreshes lastReceiveTicks here.
RecvKeepAlive(m) ==
  /\ m \in toServer /\ m.type = "keepAlive"
  /\ \E i \in Session(m.id) : sessions' = [sessions EXCEPT ![i].heard = TRUE]
  /\ Consume(m)
  /\ UNCHANGED <<watches, nonces, client, toClient>>

\* A packet whose id names no open session.
IgnoreUnknown(m) ==
  /\ m \in toServer /\ m.type \notin {"hello", "discover"}
  /\ Session(m.id) = {}
  /\ Consume(m)
  /\ UNCHANGED <<watches, nonces, sessions, client, toClient>>

\* Half of receiveTimeout goes by without a packet...
Quiet(i) ==
  /\ ~sessions[i].closed /\ sessions[i].heard
  /\ sessions' = [sessions EXCEPT ![i].heard = FALSE]
  /\ UNCHANGED <<watches, nonces, client, toServer, toClient>>

\* Mutant of Timeout: the receive timeout is left to sessions with a user.
TimeoutOfUsers(i) ==
  /\ ~sessions[i].closed /\ ~sessions[i].heard /\ sessions[i].user
  /\ sessions' = [sessions EXCEPT ![i].closed = TRUE]
  /\ watches' = [watches EXCEPT ![i] = FALSE]
  /\ toClient' = Sent([type |-> "close", to |-> sessions[i].remoteId, id |-> UnsetId])
  /\ UNCHANGED <<nonces, client, toServer>>

\* ...and then the rest: houseKeeping closes the session.
Timeout(i) ==
  /\ ~sessions[i].closed /\ ~sessions[i].heard
  /\ sessions' = [sessions EXCEPT ![i].closed = TRUE]
  /\ watches' = [watches EXCEPT ![i] = FALSE]
  /\ toClient' = Sent([type |-> "close", to |-> sessions[i].remoteId, id |-> UnsetId])
  /\ UNCHANGED <<nonces, client, toServer>>

-----------------------------------------------------------------------------
(* The clients *)

SendToServer(m) ==
  toServer' = IF Cardinality(toServer) < MaxInFlight THEN toServer \cup {m} ELSE toServer

\* hello() and authenticate() send and then wait a third of connectTimeout;
\* sending again is what a timeout of the wait leads to.
SendHello(c) ==
  /\ \/ client[c].at = "idle"
     \/ client[c].at = "hello" /\ client[c].inbox = <<>>
  /\ client[c].tries < MaxTries
  /\ client' = [client EXCEPT ![c].at = "hello", ![c].tries = @ + 1]
  /\ SendToServer([type |-> "hello", from |-> c, id |-> UnsetId])
  /\ UNCHANGED <<watches, nonces, sessions, toClient>>

Authenticate(c) == [type |-> "authenticate", from |-> c, id |-> client[c].remoteId,
                    nonce |-> client[c].nonce]
SendAuthenticate(c) ==
  /\ client[c].at = "authenticate"
  /\ client[c].tries = 0 \/ client[c].inbox = <<>>
  /\ client[c].tries < MaxTries
  /\ client' = [client EXCEPT ![c].tries = @ + 1]
  /\ SendToServer(Authenticate(c))
  /\ UNCHANGED <<watches, nonces, sessions, toClient>>

\* Mutant of NoResponse: authenticate waits without a limit.
NoResponseToHello(c) ==
  /\ client[c].at = "hello" /\ client[c].inbox = <<>>
  /\ client[c].tries = MaxTries
  /\ client' = [client EXCEPT ![c].at = "failed"]
  /\ UNCHANGED <<watches, nonces, sessions, toServer, toClient>>

\* connect() throws; the session stays in the socket's table until it times out.
NoResponse(c) ==
  /\ client[c].at \in {"hello", "authenticate"} /\ client[c].inbox = <<>>
  /\ client[c].tries = MaxTries
  /\ client' = [client EXCEPT ![c].at = "failed"]
  /\ UNCHANGED <<watches, nonces, sessions, toServer, toClient>>

\* A close that waits in the inbox has already shut the session down.
Shut(inbox) == \E k \in DOMAIN inbox : inbox[k].type = "close"

\* The connecting thread takes the answer to hello. (This server never answers
\* a hello with a welcome.)
DequeueHello(c) ==
  /\ client[c].at = "hello" /\ client[c].inbox # <<>>
  /\ LET m == Head(client[c].inbox)
     IN client' = [client EXCEPT ![c].inbox = Tail(@),
          ![c].at = IF m.type = "challenge" THEN "authenticate" ELSE "closed",
          ![c].remoteId = IF m.type = "challenge" THEN m.id ELSE @,
          ![c].nonce = IF m.type = "challenge" THEN m.nonce ELSE @,
          ![c].tries = 0]
  /\ UNCHANGED <<watches, nonces, sessions, toServer, toClient>>

\* ...and the answer to authenticate.
DequeueAuthenticate(c) ==
  /\ client[c].at = "authenticate" /\ client[c].tries > 0
  /\ client[c].inbox # <<>> /\ Head(client[c].inbox).type # "challenge"
  /\ client' = [client EXCEPT ![c].inbox = Tail(@),
       ![c].at = IF Head(client[c].inbox).type = "welcome" /\ ~Shut(client[c].inbox)
                 THEN "open" ELSE "closed"]
  /\ UNCHANGED <<watches, nonces, sessions, toServer, toClient>>

\* A second challenge is dropped, and uses up an attempt.
DropChallenge(c) ==
  /\ client[c].at = "authenticate" /\ client[c].tries > 0
  /\ client[c].inbox # <<>> /\ Head(client[c].inbox).type = "challenge"
  /\ \/ /\ client[c].tries < MaxTries
        /\ client' = [client EXCEPT ![c].inbox = Tail(@), ![c].tries = @ + 1]
        /\ SendToServer(Authenticate(c))
     \/ /\ client[c].tries = MaxTries
        /\ client' = [client EXCEPT ![c].inbox = Tail(@), ![c].at = "failed"]
        /\ UNCHANGED toServer
  /\ UNCHANGED <<watches, nonces, sessions, toClient>>

\* DaspSession.dispatch on the receiver thread: while connecting, control
\* messages are queued for that thread, and a close shuts the session down.
Dispatch(m) ==
  /\ m \in toClient
  /\ Len(client[m.to].inbox) < MaxInbox
  /\ LET c == m.to
     IN client' =
          IF client[c].at \in {"hello", "authenticate"}
          THEN IF Shut(client[c].inbox) THEN client
               ELSE [client EXCEPT ![c].inbox = Append(@, m)]
          ELSE IF client[c].at \in {"open", "failed"} /\ m.type = "close"
          THEN [client EXCEPT ![c].at = "closed"]
          ELSE client
  /\ toClient' = toClient \ {m}
  /\ UNCHANGED <<watches, nonces, sessions, toServer>>

\* keepAlive: the house keeper of the socket sends it for every session in the
\* table, with whatever remoteId the session has.
KeepAlive(c) ==
  /\ "keepAlive" \in Extras
  /\ client[c].at \in {"hello", "authenticate", "open", "failed"}
  /\ SendToServer([type |-> "keepAlive", from |-> c, id |-> client[c].remoteId])
  /\ UNCHANGED <<watches, nonces, sessions, client, toClient>>

\* close(), by the application or by the receive timeout of houseKeeping.
Close(c) ==
  /\ client[c].at \in {"open", "failed"}
  /\ client' = [client EXCEPT ![c].at = "closed", ![c].inbox = <<>>]
  /\ SendToServer([type |-> "close", from |-> c, id |-> client[c].remoteId])
  /\ UNCHANGED <<watches, nonces, sessions, toClient>>

Discover(c) ==
  /\ "discover" \in Extras
  /\ client[c].at = "idle"
  /\ SendToServer([type |-> "discover", from |-> c, id |-> UnsetId])
  /\ UNCHANGED <<watches, nonces, sessions, client, toClient>>

-----------------------------------------------------------------------------
Lose ==
  /\ \/ \E m \in toServer : toServer' = toServer \ {m} /\ UNCHANGED toClient
     \/ \E m \in toClient : toClient' = toClient \ {m} /\ UNCHANGED toServer
  /\ UNCHANGED <<watches, nonces, sessions, client>>

Next ==
  \/ \E m \in toServer :
       \/ IgnoreHello(m) \/ RefuseHello(m) \/ Challenge(m) \/ DiscoverResponse(m)
       \/ Welcome(m) \/ RejectAuthenticate(m) \/ RecvClose(m)
       \/ RecvKeepAlive(m) \/ IgnoreUnknown(m)
  \/ \E i \in Slots : Quiet(i) \/ Timeout(i)
  \/ \E c \in Clients :
       \/ SendHello(c) \/ SendAuthenticate(c) \/ NoResponse(c)
       \/ DequeueHello(c) \/ DequeueAuthenticate(c) \/ DropChallenge(c)
       \/ KeepAlive(c) \/ Close(c) \/ Discover(c)
  \/ \E m \in toClient : Dispatch(m)
  \/ Lose

Spec == Init /\ [][Next]_vars

\* One step of the connecting thread: each wait is bounded by a timeout.
Connect(c) == \/ SendHello(c) /\ client[c].at # "idle"
              \/ SendAuthenticate(c) \/ NoResponse(c)
              \/ DequeueHello(c) \/ DequeueAuthenticate(c) \/ DropChallenge(c)

\* House keeping closes what has been silent, for half the time and the rest.
Fairness == /\ \A i \in Slots : WF_vars(Quiet(i)) /\ WF_vars(Timeout(i))
            /\ \A c \in Clients : WF_vars(Connect(c))

FairSpec == Spec /\ Fairness

-----------------------------------------------------------------------------
(* Properties *)

\* App's watch table and the sessions agree: a watch slot is taken exactly as
\* long as its session is open, whatever path closes it. A slot taken for good
\* is lost to every later client (SoxService.closeSession, App.closeWatch).
TableMatches == \A i \in Slots : watches[i] <=> ~sessions[i].closed

\* "make sure we don't have any other open sessions to the same client IP address with
\* same session id" (SoxSession.challenge): a client that says hello again never holds two
\* slots. It does when a closed session of its own comes first in the search.
OneSessionPerClient ==
  \A i, j \in Slots : /\ ~sessions[i].closed /\ ~sessions[j].closed
                      /\ sessions[i].remoteId = sessions[j].remoteId
                      => i = j

\* A session has a user only when the client it was opened for has answered its own
\* challenge: no authenticate that is late, repeated or sent to an id since given to
\* another client lets anybody in (SoxSession.authenticate).
UserAnswered ==
  \A i \in Slots : ~sessions[i].closed /\ sessions[i].user =>
    /\ sessions[i].remoteId \in Clients
    /\ client[sessions[i].remoteId].nonce = sessions[i].nonce

\* The session whose challenge an open client answered is its own and authenticated, or
\* gone already: no welcome of one session makes a client take another for open.
OpenClientHasUser ==
  \A c \in Clients : client[c].at = "open" =>
    \A i \in Slots : ~sessions[i].closed /\ sessions[i].nonce = client[c].nonce =>
      sessions[i].user /\ sessions[i].remoteId = c

\* Once every client and its packets are gone every slot becomes free, also one whose client gave
\* up in the middle of the handshake (SoxSession.houseKeeping).
AbandonedSlotFreed ==
  <>[](toServer = {} /\ \A c \in Clients : client[c].at \in {"closed", "failed"})
    => <>[](\A i \in Slots : ~watches[i])

\* connect() returns: three attempts at each message bound it, whatever
\* challenges keep arriving (DaspSession.hello and authenticate).
ConnectSettles ==
  \A c \in Clients : []<>(client[c].at \notin {"hello", "authenticate"})
=============================================================================
