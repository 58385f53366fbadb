# Sedona: a TLA+ development

Sedona is a component runtime for small controllers. A device runs one **App**: a tree of
components wired by links and executed scan after scan by a virtual machine. A Java client on a
workstation reads, edits and watches the App with **Sox**, a protocol of requests, responses and
events, over **DASP**, a session layer with sliding windows on top of UDP. This directory models
the parts of both sides in which order, loss, concurrency or time decide whether the code is right,
checks them with TLC and proves some of the results with TLAPS. A device may also serve **BACnet**, through
a native stack in a thread of its own; of that the notifications of changes and the distribution of
broadcasts between subnets are modelled.

All paths below are relative to `src/src/`.

## Inventory

### Components, state and operations

| Component | State it keeps | Operations | What makes it correct |
|---|---|---|---|
| DASP windows (`sox/SendWindow.sedona`, `sox/ReceiveWindow.sedona`; `sedona/.../dasp/SendWindow.java`, `ReceiveWindow.java`) | device: 8 slots with an age byte and `numUnacked`; client: a linked list of at most `sendSize` packets; both: `seqNum` (16 bits) and the mask `seqMore` | send, receive, write and read ack headers, retry, `init` | a datagram is processed at most once and forgotten only after it was processed, wherever numbers wrap; `numUnacked` is exact; with retries everything arrives |
| Session table (`sox/SoxService.sedona`, `SoxSession.sedona`, `sys/Watch.sedona`, watches of `sys/App.sedona`) | 4 watches and 4 sessions, ids of a random byte and an index | hello/challenge, authenticate/welcome, close, discover, keep alive, house keeping | a watch is taken exactly while its session is open; one session for each client; nobody is logged in by the answer to another challenge |
| Java session (`dasp/DaspSession.java`, `ReceiveQueue.java`) | handshake state, windows, a bounded receive queue | connect, send, receive, close, house keeping | connect returns; a full queue or a silent peer closes the session |
| Subscriptions and events (`sys/Component.sedona`, `SoxService.checkForEvents`, `SoxCommands`, `SoxClient.java`) | 4 subscription and 4 event bits for each component and watch; the client's cache | change, subscribe, unsubscribe, scan, resend, apply | a change of a subscribed category is never forgotten and reaches the client; events do not starve requests |
| Sox client (`sox/SoxExchange.java`, `SoxReceiver.java`, `SoxClient.java`) | the outstanding batch and its responses, the cache | request, receive, connect, close | a batch returns its own responses or throws; it never hangs |
| File transfer (`sox/FileTransfer.sedona`, `FileTransfer.java`) | mode, number of chunks, next chunk; chunks received, close received | open, chunk, close, time-out | a transfer reported as done is complete; it ends; the next one is accepted |
| Application database (`sys/App.sedona`, `Link.sedona`, `Component.sedona`, `SoxCommands`) | the component table, lists of children, links from and to, services; the saved file | add, delete, rename, reorder, link, unlink, save, load | table, tree, links and services agree; what was saved boots |
| Main loop (`sys/App.sedona` `resumeApp`, `Service.sedona`, `PlatformService.sedona`, `vm/main.c`) | `running`, `runStatus`, the deadline, the list of services | scan, pass over services, hibernate, yield, quit, restart, resume | scans on time, every service gets its turn, none runs asleep |
| BACnet change of value (`BACnet/native/h_cov.c`, `tsm.c`, `apdu.c`, `dcc.c`, `h_dcc.c`, `bi.c`) | a table of subscriptions with a shared list of addresses, a cyclic task with one subscription a call, a table of transactions, the communication state | subscribe, renew, cancel, expire; mark, clear, free, send; acknowledge, time out, retry; disable and enable | every change is notified in the end, to who asked for it; transactions are given back |
| BACnet/IP broadcast management (`BACnet/native/bvlc.c`, `dlenv.c`) | in each BBMD the table of BBMDs with masks and the table of foreign devices with their remaining time; in each foreign device a renewal timer | broadcast, distribute, forward; write a table, register, renew, delete, expire | a broadcast reaches everybody who is due, once, and does not circulate; registrations do not lapse |
| Kits with state and time (`pricomp`, `timing`, `hvac`, `driver`, `pstore`) | priority arrays, timers, stages, device status, reserved ranges | `execute` once a scan | each follows its reference timing; reserved ranges do not overlap |
| Function blocks (`control`, `func`, `logic`, `math`, `types`), schedules, `web`, `inet`, `serial`, boards | mostly none beyond a scan | `execute`, `work` | expressions, parsing and I/O |
| Virtual machine (`vm/vm.c`), compiler (`sedonac`), tools | an interpreter, a batch translator | | translation; out of reach at a useful size |

### How they interact

One thread of the device runs everything: `App.resumeApp` executes the component tree, then walks the
services; `SoxService.work` receives at most one packet in a call, dispatches it to its session and
the command it carries, does house keeping every 100 ms, gives file transfers a turn and scans for
events. So on the device nothing interleaves within a step, but the *steps* interleave with the
network and with all clients, and a slow scan delays all of them at once.

The Java client is multi-threaded: application threads call the synchronized methods of
`SoxClient`; `SoxExchange.request` sends a batch and waits; a `SoxReceiver` thread takes messages
from the queue of the session, applies events to the cache, and hands responses to the exchange; the
thread of the `DaspSocket` receives and acknowledges, and a house keeping thread retries.

The BACnet stack is a second thread of the device: it receives one packet, calls the timers once a second and
`handler_cov_task` once, and starts over (`BACnet_control_main.c:259-330`). A broadcast goes from device to device as
original, distributed and forwarded packets; each BBMD decides from its own tables to whom it goes next.

Device and client share no memory but the network, which loses, delays, repeats and reorders. A
session id of the device is the index of a watch with a random byte, so a slot that is used again is
told apart by one byte.

### What is hard here

- *Numbers that wrap or run out*: 16-bit sequence numbers with an accept range that wraps by 0xffff,
  a 32-bit mask exactly as wide as the window, the age byte, chunk counts in shorts.
- *Order*: acknowledgements, events, chunks and commands are delivered once but in any order.
- *Retry against answer*: hello, authenticate, datagrams and closes are repeated while answers to
  earlier attempts are under way.
- *Stale views*: an event bit that is cleared before the client has the event; a client that reorders
  children it knows of while another client adds one; ids and watches that are given out again.
- *Things that stop halfway*: a connect or transfer that is given up, a delete that fails in the
  middle, a thread that is interrupted after it took a number.
- *Tables that point into each other*: a subscription has the index of an address others share and the
  id of a transaction; each of them ends by itself, in six different ways.
- *Flags shared by readers*: one flag of an object tells all its subscriptions that it changed.
- *Forwarding that feeds on itself*: a BBMD hears what it broadcasts and runs the code that forwards it.
- *Limits*: 4 watches, 8 slots shared by responses, events and chunks, a bounded receive queue.
- *Time*: a guard time, hibernation and yield requested in the middle of a cycle.

`PROJECT.json` lists each of these at the line where it bites, with the properties that would catch
it, and says so where no property does.

## The modules

| Module | Models | Reads |
|---|---|---|
| `DaspWindows` | the arithmetic of the windows as pure operators: the accept range, the mask and its shifts, ack headers, `isAcked` | used by the next two |
| `ExactlyOnce` | the abstract promise of one direction: a bounded set of pending numbers, a count of deliveries that never exceeds one, forgotten only when delivered | |
| `DaspDownlink` | device to client: `SendWindow.sedona` (slots, ages, retries), network, `ReceiveWindow.java`; implements `ExactlyOnce` | `DaspWindows` |
| `DaspUplink` | client to device: `SendWindow.java` with its sending threads, network, `ReceiveWindow.sedona`; implements `ExactlyOnce` | `DaspWindows` |
| `SoxSessions` | the session table of the device, the handshake of several clients, a network that loses, delays, repeats and reorders, house keeping | |
| `SoxSessions_proofs` | theorems about `SoxSessions` | `SoxSessions`, `TLAPS` |
| `SoxEvents` | subscriptions, changes, the event scan, the window shared with responses, the client's cache | |
| `SoxFiles` | file transfers in both directions, with the window, events in between, and time-outs | |
| `SoxFiles_proofs` | theorems about `SoxFiles` | `SoxFiles`, `TLAPS` |
| `SoxExchange` | batches of requests of several threads, the monitor, receivers, sessions that close and reopen | |
| `AppTree` | the application database edited by several clients, saved and booted | |
| `AppLoop` | the main loop, its services and the native code that resumes it | |
| `ServiceLoop_proofs` | theorems about `AppLoop` and about the events the Sox service sends | `AppLoop`, `SoxEvents`, `TLAPS` |
| `SoxExchange_proofs` | theorems about `SoxExchange` | `SoxExchange`, `TLAPS` |
| `Dasp_proofs` | the arithmetic of the windows, and theorems about both directions: each of them implements `ExactlyOnce` | `DaspDownlink`, `DaspUplink`, `TLAPS` |
| `AppTree_proofs` | theorems about `AppTree` | `AppTree`, `TLAPS` |
| `BacnetCov` | subscriptions to changes of value, the task that notifies, transactions with retries, communication control | |
| `BacnetCov_proofs` | theorems about `BacnetCov` | `BacnetCov`, `TLAPS` |
| `BvlcBroadcast` | broadcasts over several subnets, the tables of the BBMDs, foreign devices that register and renew | |
| `BvlcBroadcast_proofs` | theorems about `BvlcBroadcast` | `BvlcBroadcast`, `TLAPS` |
| `MC...` | what a `.cfg` cannot write: symmetry sets, orders, the client of each thread | |

The DASP modules establish what the Sox modules take for granted: `ExactlyOnce` is the interface. The
Sox modules let packets arrive in any order, once, because that is what `ExactlyOnce` leaves open.
`SoxEvents` keeps numbers, slots and retries of its own, since an event is encoded anew each time it
is sent, and the order of the network as well, unless `Reorders`.

### How state and actions correspond to the code

An action is one call of a handler with everything it calls. Names are those of the code where TLA+
allows it (`CheckAckHeaders`, `SendRetries`, `Challenge`, `Welcome`, `CheckForEvents`, `Reorder`,
`StartPass`, ...); `PROJECT.json` maps every definition to its lines. A definition that carries the
comment "Mutant of" is a plausible bug of the definition it names and is used to see that the
property notices it; no specification uses it.

- **DaspDownlink, DaspUplink.** A datagram is its position `i` in the session; on the wire it is
  `Wire(i)`, its number modulo `SeqMod`. The receiver never sees `i`, only `Wire(i)`. The network is a
  set, and receiving may leave the packet there: loss, repetition and reordering. `Lifetime` says how
  old a packet may be and still arrive; without it 16-bit numbers cannot work, and the
  code relies on it too. The client's send is three steps, as it gives up the monitor between them.
  The refinement of each module: `pending` is what the sender still holds, `delivered` counts how often the
  receiver processed each datagram. That nothing is processed twice is part of what is implemented.
- **SoxSessions.** A client is one `connect()`. A server id is a pair of the random byte and the index;
  `NextRand` is the byte `openWatch` picks. A nonce is 64 random bits in the code and a number that was not used before in the
  model, and the digest of an authenticate is its nonce; `MaxNonces` bounds the challenges of a behaviour. The actions are the cases of `dispatch`, house
  keeping, and the steps of the client's handshake.
- **SoxEvents.** A flag is a component and a category. `value` counts changes, `view` is what the client
  holds. `CheckForEvents` is the whole scan, from where the last one stopped, with one event for each
  category that is pending and has a slot.
- **SoxFiles.** A file is a number of chunks, a chunk a pair of its transfer and its number. Every turn of
  `work()` is at most one message followed by `CheckTransfer`.
- **SoxExchange.** `user` is the monitor of each `SoxClient`, `owner` that of the `SoxExchange`, which
  `wait` gives up. All batches use one command, the case in which responses are hardest to tell apart.
- **AppTree.** Linked lists are sequences or sets. An operation that fails halfway in the code
  (`App.remove` of a component that is in no list) fails halfway in the model. `known` is what a client
  that reorders has seen; `file` is what was saved last.
- **AppLoop.** `left` is the time to the deadline in ticks. `Calls` is what a service or a component may do
  to the loop: request hibernation, quit or restart, add a service at the head, delete another one.
- **BacnetCov.** The entries of `COV_Subscriptions` are the slots, those of `COV_Addresses` the
  addresses; `dest` is the index the code keeps. `CovTask` is one call of `handler_cov_task`: it goes through the four phases,
  one subscription a call, so packets and writes come between any two. `value` is what an object stores of
  its present value, its service and its polarity, `changed` its flag, and `Write` stores one property, as `Binary_Input_Write_Property`
  does; `told` is the object as a subscription was last sent it, and `ValueList` what a notification says of it. `Answer` is any answer that frees a transaction; `Second` runs
  the three timers as the loop does. A datagram the stack sends is not kept: it is answered, or it is not.
- **BvlcBroadcast.** A node is a BBMD, an ordinary device of its subnet, or a foreign device; `net` is the set of packets
  under way with the number of links they crossed. `Dests` is what `bvlc_receive` sends on and `Local` the
  broadcast address of a subnet, which the sender hears as well. `due` holds who must receive a
  broadcast; a step that takes away what it depends on (a lost copy, a deleted entry, a table written anew) takes the
  devices concerned out of it.

## The runs

Deadlock is checked except where the system may really be done; the cfg says so there.

| Run | Bounds | Shows |
|---|---|---|
| `DaspDownlink_window` | 9 numbers, window of 2, mask of 3 bits, 2 slots, 4 datagrams, ages modulo 4, stalls of up to 2 ticks | exact mask, exact `numUnacked`, bounded run-ahead, refinement of `ExactlyOnce` (once, and forgotten only when delivered), every datagram acknowledged in the end |
| `DaspUplink_threads` | 14 numbers, window and mask of 6, 2 threads, list of 2, 4 datagrams | exact mask; at most once, and nothing the threads queue is forgotten before it is processed (refinement) |
| `SoxSessions_handshake` | 2 clients, one of another version, 2 slots, 2 attempts, 2 challenges, repeated packets, discoveries, keep alives | no slot leaks, a user is the answer to the session's own challenge, a welcomed client owns its session, abandoned slots are freed, `connect` returns |
| `SoxSessions_duplicate` | 3 slots, 3 attempts, 4 challenges | *violation*: see below |
| `SoxEvents_cache` | 2 components, 1 category, 1 slot, 1 change for each, 2 requests, 2 sessions, a network that loses and repeats | no change is forgotten, every change arrives, every request is answered |
| `SoxFiles_transfers` | 3 transfers, gets of 0 and 2 chunks, puts of 1 and 3, 2 slots, 1 event, gets given up | done is complete, the next transfer is accepted, transfers end |
| `SoxExchange_batches` | 2 threads of one client, batches of 2, window of 1, queue of 2, 3 batches, 2 sessions | responses match, one batch at a time, requests come back |
| `AppTree_edits` | 2 clients, 3 components, 2 names, 1 slot, 2 links, 1 edit after a save | the database stays consistent, what was saved boots |
| `AppTree_stale_reorder` | the same with a client that reorders from an old cache | *violation*: see below |
| `AppLoop_scan` | 3 services, period 5, guard time 3, scan 2, a call of work 1, both kinds of platform | every service works, none while asleep, scans on time and for ever |
| `BacnetCov_notify` | 2 objects, present value and polarity of one written, 2 clients that ask for 3 subscriptions (a confirmed and an unconfirmed one for ever, and a confirmed one that expires), 2 entries, 1 address, 2 invoke ids and as many transactions, 1 retry, communication disabled for a second | transactions are held by a subscription, notifications go to their subscriber, a change is flagged or requested until it is sent, and is sent in the end |
| `BvlcBroadcast_subnets` | 2 BBMDs, one of them alone on its subnet, 2 foreign devices for 1 table entry, masks directed, unicast or mixed, 1 broadcast, time to live and grace of 2 | broadcasts come once, do not circulate and reach all who are due; registrations are renewed in time and regained after losses and restarts |

**Why the bounds are enough.** The windows compare differences of numbers with the widths of the
window, the mask and the horizon; the small instances keep the relations of the real widths (the
space larger than horizon and window together, the mask as wide as the window, the horizon larger than
the run-ahead) and start two numbers before the wrap, so that every window position meets it.
`SpanBounded` shows the run-ahead that makes a horizon of 10000 more than enough. In the session
table two slots and two challenges give a session and one that takes its place, with a client that never gets in between
them; two random bytes give reuse of ids at once. What these bounds do not reach (a slot opened three times, three slots) the
proofs cover for the safety properties, and it was the proof that showed `OneSessionPerClient` to need three slots to fail. Events of a
category are independent of other categories but for the slots, so two categories and as many slots
as make them compete suffice. Transfers interact only with the one before: three give
two successions. In the tree three components are a parent, a child and a sibling, or a chain of two
below the App; one edit after a save is what separates the file from the device. In the loop three
services are a head, a middle and a tail of the walk. In `BacnetCov` two of the three subscriptions are
alone on their objects and are behind at once, confirmed and unconfirmed; the third shares an object with one of them, or its client finds no
address. A renewal lets the second invoke id be given out while the first is not yet looked at. With the lone subscriptions both confirmed TLC
visits 1,121,616 states and finds the same properties to hold, which is too long for a regular run. There are as many transactions as subscriptions, as in the
code, where 255 (`config.h:102`) are enough for 128 subscriptions (`h_cov.c:74`), which alone hold them (`NoTransactionLeaks`): with one for
two, TLC finds that one subscription can keep the other waiting for ever. `Out_Of_Service` is not written in the run, as `Flagged` treats it like `Present_Value`;
the proof covers it. In `BvlcBroadcast` the two BBMDs are a sender and a receiver of forwarded packets in both directions, and a device
is with one of them, so that a subnet with and without others is there; the proofs are for any number.

**Fairness.** The loop of the device never stops while the machine runs, so `WF` on what it does:
`SendRetries`, `CheckForEvents`, house keeping (`Quiet`, `Timeout`), the turn of a transfer,
`Next` of `AppLoop`. Threads of the client run, so `WF` on their steps, and `SF` where they compete for a
monitor, as a Java thread that blocks on a monitor or waits at most 500 ms for it (`SoxExchange.java:128`)
gets it in the end. That a packet that is sent again and again arrives is `SF` of its reception, and only
that. The thread of the BACnet stack loops for ever, so `WF` on `CovTask` and on the second that passes in it (`Second`), and
a send that is tried
again and again gets through to the socket (`SF` on `Send(s, TRUE)`); nothing is assumed of answers, so that a change is sent
rests on time-outs alone, not on peers. In `BvlcBroadcast` time passes (`WF` on `Second`), and a
registration that is repeated for ever finds its BBMD once (`SF` on `Register`). Nothing is assumed of users, of clients that may stop at any time, or of sessions staying open.

## What is proved

`SoxSessions_proofs` (for any clients, number of slots, random bytes and attempts):

- `TypeCorrect`: `Spec => []TypeOK`.
- `NoSlotLeaks`: `Spec => []TableMatches`: a watch slot of the App is taken exactly while the
  session in it is open, whichever of the six ways closes it.

`TypeOK` is not inductive: the type of a packet the device sends contains its receiver, the `remoteId` of the
session, and this is a client only once the session has been opened. The inductive invariant is
`IInv == TypeOK /\ OpenHasRemote /\ TableMatches`, where `OpenHasRemote` says that an open session has a
remote client; it needs `TableMatches`, since `openWatch` takes a slot whose watch is
free and the sessions are looked up by their own `closed` field. Initially all slots are free.
For a step there is one lemma for each part of the system (`ServerStep` with one step for each case of
`dispatch`, `HouseKeepingStep`, `ClientStep`, `DispatchStep`), which rest on a few lemmas about what
opening, closing and touching a session does to the table (`OpenedSession`, `CloseSession`,
`TouchSession`) and on the types of the packets the handlers build. The only assumption is
`SessionSizes`, which TLC evaluates in the runs.

- `OnlyTheClientLogsIn`: `UserAnswered`: a session has a user only when the client it was opened for has answered the challenge of
  that session.
- `WelcomeIsOfOwnSession`: `OpenClientHasUser`: the session whose challenge an open client answered is its own and has a user,
  or is closed.

Both hold although ids come back after two openings of a slot, so they cannot rest on ids. `AuthInv` follows the nonce: open
sessions have nonces of their own (`OwnNonces`); a challenge on its way to a client carries a nonce that only its sessions
can have (`ChallengesOwned`, which holds on when the session is gone, since nonces do not come back); a client has a nonce from
its first challenge on and hears a welcome only after that (`Phases`); an authenticate carries the nonce of its sender
(`Digests`); and who heard a welcome finds a user in the session of its nonce (`WelcomedHasUser`). Three steps change what the
invariant relates (`Challenge`, `Welcome`, and a client that takes a challenge), and have lemmas of their own; the others
follow from `RulesKeepAuth`, which says what a step may do to packets and clients without disturbing it.

`ServiceLoop_proofs` proves `NeverScansAsleep`: for any services, periods and bounds, nothing executes or works
between `onHibernate` and `onUnhibernate` of a service. The property alone is not inductive: `resumeApp`
wakes the services only if `runStatus` still says hibernate, and only those still in the list. The
invariant `HibernateHolds` states exactly that (while a service is asleep the loop has returned,
`runStatus` is hibernate and the service is in the list); its preservation has one step for each
action, of which `Resume` and `EndCycle` carry the argument. It needs no assumption on the constants.

`LoopIsInvariant` states `LoopInv`, which adds what a pass over the services owes: `OwedAhead` says that a service that has not
worked in this pass although it was there when the pass began stands in the list at or behind the place of the walk, which
survives that services come (at the head, behind the walk) and go (the walk moves with its place). `NoServiceIsSkipped`
(`EveryServiceWorks`) is its instance at the end of a pass. `TimeForRest` bounds the time the rest of the pass can take by the
number of services still ahead; with the guard time (`GuardTimeSuffices`, `ScanOnTime`) the next scan begins on time. Both need a
finite set of services, as a device has.

The same module proves `NoEventIsForgotten` (`StaleIsPending`) of `SoxEvents`, for any components, categories, slots, changes,
removals, requests and sessions, if the network keeps the order of packets (`~Reorders`; without it the property is false, as the
disagreements below say). It may lose and repeat any of them. `enqueueEvent` clears the event bit when it sends the packet, so from
then on the only trace of a change is a packet whose copies, old and new, are anywhere between the window and the cache. The
invariant `EventsInv` names that packet: `Settled` says that for each subscribed category without an event bit there is a number `n`
with `Told(f, n)`, that is, packet `n` is in its slot until the client has processed it; once it has, the client is up to date; and
no copy at or behind the first one of `n` in the network (none at all, once `n` is processed) is older than the last change, so that nothing undoes what `n` told. A retry is encoded anew
and goes to the end of the network, which keeps that; a change sets the event bit again, and a new session begins with no
subscription. `TellsAfterSending` and `TellsAfterTaking` say what a packet more at the end of the network, or one less at its head, does to `Told`. `Fired`, what the scan enqueues, is the
set of the sequences in which `KindOrder` lists the pending categories, and not a `SelectSeq`, of which the provers know nothing.

`SoxExchange_proofs` proves `OneCallerAtATime`: if all threads call through one `SoxClient` (`SharedClient`), a
thread that waits finds its own batch in the exchange, for any threads, batches and sessions and also with
`LateReceivers`. The invariant `OneInv` adds `ActiveIsUser` (a thread inside `request` is the one in the
synchronized methods of its client) to the property, extended to the threads that send. `ActiveIsUser` makes
any two active threads one (`OneActive`), so `Enter` and `Return`, which replace and clear the batch, have no
other thread to disturb. Without `SharedClient` the property is false, as the disagreements below say.

`ResponsesAreOfTheBatch` proves `ResponsesMatch` under the same condition and without late receivers (`~LateReceivers`): a response
that is stored answers the request of that index in the batch that is outstanding. `MatchInv` says that whatever is under way,
in flight, in the queue of the session or in the hand of a receiver, belongs to the batch in the exchange, which lacks its
response (`StillLacking`), is in one place (`OnePlace`), and goes when the session closes (`NothingLeft`); with one thread in
`request` at a time (`OneInv`) nothing is under way when the next batch begins (`Quiet`), because a batch is left only with all
its responses or with its session.

`Dasp_proofs` proves `WindowCounts`: `numUnacked` is the number of slots in use, for any number of slots
and datagrams, if `RetryTicks + MaxTicks < AgeMod` (`ShortStalls`; in the code, a loop that never stalls
for 24.6 s). The invariant adds that no age exceeds `RetryTicks` between two runs of `sendRetries`,
which is why the sum does not wrap. The lemma on `checkAckHeaders` is a counting argument (`TakeAway`) and does
not open `isAcked`: an acknowledgement may be wrong about anything and the count is still exact.

It proves `DownlinkIsExactlyOnce` (`ImplementsExactlyOnce`), `WindowStaysTrue` (`WindowMatches`) and `SpanStaysBounded`
(`SpanBounded`), for any widths that are `WideEnough` for each other. With the code's numbers (space 65536, `max` 31, masks of 32
bits, 8 slots, range 10000) that says that no packet older than 10001 datagrams arrives and, because the window is as wide as the
mask allows, that a shift by the width wraps, which Java defines. The configuration of the run satisfies it too.

Its first part has what is true of the arithmetic alone: `Mask` undoes itself, a number the window lets through is at most
`RecvMax + 1` beyond its start, the loop of `receive` stops at the first gap. From it follows where a number comes
from: `WireBeyond` and `WireBefore` tell a datagram ahead of the client from one behind it. `ExactInv` then has five parts:

1. the slots and their count (`WindowInv`);
2. pending, sent and received datagrams are allocated ones (`Allocated`);
3. `WindowOf`: the window says what the client has received. `SlideKeeps` and `RecordKeeps` are the two ways it changes;
4. `ForgottenIsReceived`: what is allocated and not pending has been received, and lies within the acknowledgement bits of the first
   gap;
5. `AcksHold`: each acknowledgement in flight, however old, names only what has been received.

The parts need each other. That the client tells a new number from an old one (`ProcessedIsNew`) needs the span, the span (`SpanIs`)
counts the pending datagrams and needs part 4, and part 4 needs that an acknowledged datagram was received (`AckedIsReceived`), from
part 5. Each step of `Next` has a lemma that gives both the invariant and the step of `ExactlyOnce` it implements.

Of the uplink the module proves, for any number of threads, interrupted or not, any list and any datagrams:

- `UplinkIsExactlyOnce` (`UplinkExactlyOnce`) and `ServerWindowStaysTrue` (`ServerWindowMatches`), as long as the client is never further
  ahead of the device than the mask of the device is wide (`[]WithinMask`);
- `FewThreadsStayWithinMask`: both, and the premiss itself, when the threads are few enough for the mask (`FewThreads`: with the
  code's 8 bits of acknowledgements, list of 8 and mask of 32 bits, up to 17 threads) and none is interrupted while it waits for room
  (`NobodyInterrupts`).

The premiss is what the code takes for granted: `send` takes the number before it waits for room in the list, so every
thread adds one to the run-ahead, the list does not bound it, and the window of the device is as wide as its mask. The widths need only satisfy `LinkFits`
(packets do not live longer than the numbers and the range of `isAcked` allow), which is also the first part of `WideEnough`. The
lemmas on numbers and masks are those of the downlink; `Masked` turns the -1 that `init` leaves into the number it stands for. The invariant
`UplinkInv` has four parts:

1. `UplinkTypes`, where `handled` counts at most one processing of each datagram;
2. `NumbersInv`: a number is taken once, and one that still waits for room was neither listed nor sent;
3. `ListInv`: the list has a datagram once, what is on its way or was queued is in it or was processed, and an acknowledged entry was processed;
4. `ServerInv`: the window says what the device has processed, and so does every acknowledgement in flight.

For the second theorem `Accounted` is added: a number that was taken is with a thread that waits, in the list, or processed
and within the acknowledgement bits. An interrupt is exactly the step that breaks it. The span is then a count (`UplinkSpan`): what lies beyond the
bits and is not processed injects into the waiting threads and the list. TLC checks the invariants under the bounds of the run, which satisfy `FewThreads`.

`BacnetCov_proofs`, for tables of any size, any objects, clients and times:

- `CovTypeCorrect`: `TypeOK`, which here carries weight: an invoke id is within the ids, an address index within the list.
- `NoTransactionLeaks`: a transaction in use is the outstanding one of a confirmed subscription. With the types the property is
  inductive: `StillHeld` states when a step that starts no transaction preserves it, and the cases that matter are those in which a
  subscription ends while its notification is under way.
- `NotificationsReachSubscriber`: a subscription with an address has its own. It needs that a valid subscription has a
  subscriber (`SubscriberKnown`); each action that frees an address does so only when no subscription points at it.
- `NoChangeIsForgotten`: `ChangeIsPending` is stated of objects with one subscription, so the strengthening (`SharedIsTold`) keeps track of
  which those are: while two valid subscriptions have one object, both are marked `Shared`. Any property of any object may be written: the lemma
  `DifferenceIsFlagged` says that values read with one polarity differ exactly when the setters flag the change, and `WritePending` that a write of
  the polarity therefore puts nobody behind; that a write of the polarity changes what is reported is the disagreement below.

`BvlcBroadcast_proofs`, for any number of subnets and devices and any tables and masks:

- `BvlcTypeCorrect`: `TypeOK`.
- `BroadcastsDoNotCirculate`: `CrossesFourLinks`. The invariant `Hops` says of each copy how it came as far as it did: only the
  first hop is not forwarded, the third ends on the sender's subnet, where a BBMD can hear its own broadcast, or at a foreign device,
  and the fourth at a foreign device, which has nobody to forward to.
- `RegistrationsOverlap`: `StaysRegistered`. The invariant `Leases` relates the three clocks of a registration: what is left in the
  table, what is left of the timer, and the packet under way; it needs `MaxDelay < Grace` and `MaxDelay < Ttl`.
- `BroadcastsArriveOnce`: `DeliveredOnce`, when all masks are of one kind. `Paths` says by its number of hops where a copy came from,
  `Parents` that its sender had received one, and `NotYet` that a device forwards what it receives once; `Determined` concludes that two copies
  to one ordinary device are the same.
- `BroadcastsReachAll`: `ReachesAllDue`. The invariant `ReachInv` reads the other way round, from a copy to what followed from it: a
  copy that was taken from the network was copied to everybody its receiver would send it to by the tables of now, among those who are
  still due (`SentOn`); as long as anybody is due the masks are uniform, every BBMD has all of them in its table and the foreign devices that are due are
  registered (`TablesStand`); and the first hop was sent (`Started`). A write to a table, a lost packet and a restart empty what is due or
  leave it alone, so `SentOn` speaks of tables that have not changed since.

`AppTree_proofs`, for any number of components, names, slots, links and clients, if clients reorder the children there are
(`CurrentReorders`, without which `AppTree_stale_reorder` refutes it):

- `TableIsTree`, `LinksStayPaired`, `UnlinkedSlotsReset`, `SavedAppBoots`, `ServicesStayListed`.

The invariant is `Tree(comps)`, with `LinksPaired`, `DrivenIsLinked` and the same of the file. `Tree` says of a table what
`ChildrenListed` says, in a form that survives a step: lists and parents agree, and every set that has the App and is closed under
the lists has all components. Each operation on the table has its lemma (`AddedTree`, `RemovedTree`, `ReshapedTree`), stated of a
table and not of a variable, so that it serves the device and the file alike. The crux is `RemovedTree`: what `remove`
recursively reaches is closed under children, and but for its top under parents too (`SubtreeIs`, by leaving one out), so the rest is a tree again and
no surviving list names what is gone. That `remove` finds the component in the list of its parent, so that it never stops halfway, follows.

`ServicesStayListed` (`ServicesListed`) has an invariant of its own, `ServicesInv`: the list has exactly the entries of the table that are
services, each once, and the App is none of them, in the table or in the file. What removing many components leaves of the list is
`Kept`, a choice; that there is something to choose is an induction over the list (`KeptOfPrefix`). The library's induction
theorems cannot be used here, so `Induction` is proved from the least element of a set of numbers (`LeastNumber`), which exists because
strict inclusion of finite sets is well-founded.

`SoxFiles_proofs`, for files of any sizes, a window of any size and any number of transfers, gets given up or not, with packets and
chunks in any order:

- `FilesAreTransferred`: the invariant `FilesInv`. It says for each state of the client (`Phase`) what the server may have, what may be on
  its way, and what is in the file. In a get each chunk sent is unseen, in the queue or in the file, and in one of them only
  (`GetGoes`), so that the count of `receiveChunk` is the size of a set and `count >= numChunks` means all of it. In a put the count of
  the server and the chunks it has add up to the size (`PutGoes`), so that a count of 0 leaves no chunk on its way. A server whose get
  was given up may go on sending (`Stuck`); its chunks reach the queue of a later transfer, which is then refused.
- `DoneFilesAreComplete`: `DoneIsComplete`; `NextFileIsAccepted`: `NextIsAccepted`.

All three assume that no put is empty and that the client gives up on none (`PutsComplete`), the third that files have fewer than
`ChunkMod - 1` chunks (`SmallFiles`; `fileOpen` refuses the others as too big). Without the first the code does not keep what the properties say,
as the disagreements below describe; gets may be empty, given up, or of part of a file.

Model-checked only: the ten liveness properties (`EventuallyForgotten`, `AbandonedSlotFreed`, `ConnectSettles`, `ViewSettles`,
`RequestAnswered`, `TransferEnds`, `ScansRecur`, `RequestSettles`, `ChangesAreSent`, `RegisteredAgain`), since liveness under fairness is
beyond the prover. Every other property of a passing run, invariant or refinement, is stated by a theorem.

`TypeOK` is a property of a run only in `SoxSessions`. In the other modules with proofs it is a theorem or part of an
invariant; elsewhere the properties that relate the variables fail when a type does.

## Disagreements between the code and what is said of it

Two have a run of their own.

`SoxSessions_duplicate`: `challenge` (`sox/SoxSession.sedona:81-90`) is to close any other open session of the client ("make sure
we don't have any other open sessions to the same client IP address with same session id - that can happen if we drop a challenge
packet"), but takes the first session with that `remoteId` and address and breaks, also when that one is closed already, as a session
keeps its `remoteId`. The client then holds two of the four watches until the receive time-out of the forgotten one.

`AppTree_stale_reorder`: `reorderReq` (`sox/SoxCommands.sedona:678`) checks that
every id it is sent is a child, but not that every child is sent. A client that does not yet know of
a child another client added drops it from the list of its parent. The child no longer executes;
deleting it stops halfway, its links stay in the list of the other component, and the saved application
is refused at the next boot.

The others were found with these modules under other constants, and are excluded from the passing
runs by a constant or a bound that is named here:

- *Age byte* (`sox/SendWindow.sedona:178`, `DaspDownlink`, `MaxTicks` large): a stall of the loop of
  about 25 s wraps `age` to 0; the slot looks unused while `numUnacked` counts it, and the packet is never
  retried. The comment at line 218 says "1-255 for every house keeping tick".
- *Window as wide as the mask* (`sox/ReceiveWindow.sedona:125`, `DaspUplink` with `SendSize` equal to
  `RecvMax`): `max` is 32 where `Dasp.sedona:21` says it "must be 31 or less to fit in 32-bit int"; the last
  number of the window is processed again on its retry. `WithinMask` is the premiss that excludes it.
- *Sending threads* (`SendWindow.java:76`, `:115`, `DaspUplink`): the holder of the missing number can
  wait for room for ever, and an interrupt there drops a number the device then waits for, although
  `doc/dasp.html:69` says datagrams are "guaranteed to be delivered exactly once". The theorems on the uplink say what is left of it: within
  the mask nothing is processed twice or forgotten unprocessed, but a number may never be sent.
- *Second hello* (`DaspSession.java:395-397`, `SoxSessions` with `Repeats`): the device has closed the session
  whose challenge the client goes on with, and the client drops the challenge of the new one.
- *Session id 0* (`DaspSession.java:612`): the close of a connect that failed in hello carries `remoteId` 0,
  an id another client may own; `doc/dasp.html:157` says 0xffff.
- *Reuse of ids* (`sys/App.sedona:758-760`): "new unique random byte" is unique against the last one only: from the third
  opening of a slot on, a late close or keep alive can hit the session of another client. It cannot log in to it, as is proved.
- *Reordered events* (`SoxEvents` with `Reorders`): events carry no version; the cache keeps the older state,
  although `doc/sox.html:85-86` says that Sox "cannot assume that messages are processed in order".
- *Inherited subscription* (`sox/SoxSession.sedona:21`): `reset` does not clear `allTreeEvents`, although the comment
  says "Reset into a clean state for new session."
- *Late event* (`SoxClient.java:1219`): an event that arrives after an unsubscribe marks the category as
  subscribed again, so that the next `subscribe` is short circuited (line 465) and no event comes.
- *Empty put, late close, stale chunk* (`sox/SoxCommands.sedona:1251`, `FileTransfer.java:255`, `SoxFiles` with
  `0 \in PutSizes` or `"put" \in Aborts`): the chunk of an empty put wraps the count or is counted in the next
  put; the close of a put that was given up ends the next one.
- *Whole file of many chunks* (`sox/SoxCommands.sedona:1094`, `:1149`): a get with size 0 passes the check for "file
  too big" and its number of chunks is cut to a short.
- *Two callers of request* (`SoxExchange.java:72-79`, `SoxExchange` with a client for each thread): "this entire
  method will block all but one caller", but `wait` gives up the monitor and a second batch replaces the
  first. The synchronized methods of `SoxClient` hide it. The comment at 101-104, that the receiver
  stores responses while `send` blocks, is not so either: it needs the monitor `request` holds.
- *Late receiver* (`SoxExchange` with `LateReceivers`): a receiver that holds a response of a closed session
  can store it in a batch of the next one.
- *Requests lost by yield and hibernation* (`sys/App.sedona:190`, `:256`, `:226`): `quit` ("Save the application and
  then exit the main loop") is forgotten on a platform that yields at the end of the cycle, and a
  permission to hibernate given by one pass is not taken back by a refusal in the next, though line
  218 says that services "override any requests for hibernation".
- *Mask of the sender* (`BACnet/native/bvlc.c:1245`, `BvlcBroadcast` without the premise of `DeliveredOnce`): whether a forwarded packet is
  broadcast on the subnet is decided by the mask in the entry of its *sender*, while the comment at 1223-1226 has a BBMD "inspecting the
  broadcast distribution mask field in its own BDT entry". With masks of both kinds a device gets a broadcast twice in one direction and never in
  the other. Broadcasts a BBMD hears of itself (its socket is bound to any address) also reach foreign devices and its own
  application twice when masks are unicast.
- *Flag of an object* (`BACnet/native/h_cov.c:656`, `BacnetCov` with two subscriptions on one object): a change between the marks of the first
  and of the second is cleared for both, so that the second is not notified, although the comment at 568-590 says that for "each subscribed object"
  the flag is cleared when the notice is sent.
- *Polarity* (`BACnet/native/bi.c:341`, `BacnetCov` with `Behind` comparing what is reported now with what was reported last): a write of
  `Polarity` (490-504) inverts the present value that a notification reports (158-177, 233), but does not set `Change_Of_Value`. A subscription
  that is alone on its object and was notified keeps the old value without a flag or a request, until something else changes, although
  `h_cov.c:568-590` sends a notice when a "subscribed object instance has changed". TLC finds it in a few steps: subscribe, notify, write. `ChangeIsPending` and
  `ChangesAreSent` are therefore about `Present_Value` and `Out_Of_Service`: they read both values with the polarity of the last notification.
- *Ids given out again* (`BACnet/native/h_cov.c:673`): an id whose answer came is free before its subscription looks; if 255 others
  are given out before that, the subscription waits for the transaction of another, and its cancellation frees it.
- *Addresses* (`BACnet/native/h_cov.c:369`, `:132`): a subscription that found no room for its address is accepted and never notified, matches
  a request of anybody, and can be renewed into a second entry of the same client.
- *Communication control* (`BACnet/native/dcc.c:40`): the comment "disable and time are not expected to survive over a power cycle or
  reinitialization" does not hold for a stack that is stopped and started: the statics stay.
- *Two stacks* (`BACnet/native/BACnet_control_main.c:259-330`): disabling and enabling within one loop of the thread leaves the old thread running
  next to the new one.
- *Smaller ones*: `rename` does not look for a sibling of that name (`Component.sedona:509` "unique
  within its parent"); linking from a component that is gone answers success
  (`SoxCommands.sedona:805`); a service that deletes itself in `work` is read after it was freed
  (`App.sedona:221`); `save` truncates the file before it writes it (`App.sedona:1022`); `idealMax` and
  the receive time-out are negotiated with `max` where `doc/dasp.html:509-514` says minimum.

## What is not modelled, and why

The virtual machine, the compiler and native code compute data, and their correctness is that of a
translation; the Sedona source is taken as what they execute. Byte layouts, digests, permissions, property
values, tuning options, statistics and text are abstracted. `web`, `inet`, `serial` and the board kits are I/O. Function blocks without state over
several scans are left to their unit tests.

Of the 188,661 lines of C only a few hundred are protocol logic. The rest is the vendored BACnet stack (encoders, decoders
and tables of texts of thousands of lines each), a vendored MQTT client, and `temp/generic-unix`, which repeats all of it as the input of a build.
Mapping a third of these lines would mean to model encoders of one call each. Of `BACnet/native` the parts with a state that several
steps share are modelled; not the data links the build does not select, NAT handling, the client side of foreign registration beyond its
timer, alarms (`INTRINSIC_REPORTING` is not defined), and objects other than a binary input. The `mqttNew` wrapper is left
out because what it does depends on races: two threads share tables of pointers into buffers of components without
synchronization, an index is used for a table it does not belong to, and a component that is gone keeps its entry. A model
would be a choice among all values at most reads, and no property would hold or say anything.

## Plan

Done, in this order: the windows, the session table and its proof, events, transfers, the
application database, the main loop and its proof, the exchange; then BACnet change of value and broadcast management with
their proofs, the proofs of the application database and of the transfers, and those of the uplink and of the events.

Next, model:

1. `PriArray` (`pricomp/Prioritized*.sedona`): the priority array with override time-outs and minimum on
   and off times; pure operators checked against a reference, and the timers as actions.
2. `Pstore` (`pstore/PstoreFile.sedona` 189-259, `PstoreService.sedona` 55-85): reservations do not overlap,
   whatever the order of start.
3. `Timing`, `Hvac` and `Driver`: each block against its reference definition; the ping cycle and the status of points.
4. The order of link propagation within a scan, on top of `AppTree`.
5. `SoxExchange` with `close` in the steps of its assignments, and `DaspSocket` with several sessions.
6. A composition of `SoxSessions` and `SoxExchange`: a client that reconnects while its old session times out.

Then, prove the safety properties of what is added. Of what is there no safety property is left to prove; what each
theorem assumes is said with it.
