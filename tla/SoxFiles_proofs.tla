--------------------------- MODULE SoxFiles_proofs ---------------------------
(***************************************************************************)
(* That a file transfer the client takes as done is complete, and that one *)
(* that follows another is not refused as busy, for files of any sizes,    *)
(* any window and any number of transfers, messages in any order.          *)
(***************************************************************************)
EXTENDS SoxFiles, FiniteSetTheorems, TLAPS

\* No put is empty and the client gives up on none: see the disagreements in the README.
PutsComplete == "put" \notin Aborts /\ 0 \notin PutSizes

----------------------------------------------------------------------------
(* The parts of the state the phases of a transfer relate                   *)

Cmds == {"F", "!", "Z", "z", "k", "e"}
Packets == [n : Nat, cmd : Cmds, arg : Nat, of : Transfers, seen : BOOLEAN]
Messages ==
  [cmd : {"f", "z", "k"}, tr : Transfers, method : {"get", "put"}, arg : Nat, size : Nat]
Servers ==
  [tx : [mode : {"unused", "get", "put"}, num : Nat, next : Nat, of : Transfers],
   packets : SUBSET Packets, sent : Nat, disk : [Transfers -> SUBSET (Transfers \X Nat)]]
FileTransfers ==
  [at : Ended \cup Running, tr : Transfers, method : {"get", "put"}, size : Nat, num : Nat,
   next : Nat, got : SUBSET (Transfers \X Nat), count : Nat, queue : SUBSET Packets,
   closed : BOOLEAN]

\* What the client has not seen yet, but for events; none of a command, exactly one of it.
Unseen(s) == {p \in s.packets : ~p.seen /\ p.cmd # "e"}
None(s, cmds) == \A p \in Unseen(s) : p.cmd \notin cmds
Only(s, cmd) == \E p \in Unseen(s) :
  p.cmd = cmd /\ \A q \in Unseen(s) : q.cmd = cmd => q = p

\* The server has no transfer, one the client gave up on, or that of the client.
Free(s) == s.tx.mode = "unused"
Stuck(s, g) == s.tx.mode = "get" /\ s.tx.of \in g
Clear(s, g) == Stuck(s, g) \/ (Free(s) /\ None(s, {"k"}))
Mine(s, t, g) == s.tx.mode = t.method /\ s.tx.of = t.tr /\ t.tr \notin g

SmallFiles == ChunkMod > 1 /\ \A n \in GetSizes \cup PutSizes : n < ChunkMod - 1

\* A get under way: each chunk sent is on its way, in the queue or in the file.
Chunks(s, t) == {p \in Unseen(s) : p.cmd = "k"} \cup t.queue
GetGoes(s, t) ==
  /\ s.tx.next <= s.tx.num /\ s.tx.num <= t.size
  /\ IsFiniteSet(t.queue) /\ t.queue \cap Unseen(s) = {}
  /\ \A p \in Chunks(s, t) : p.of = t.tr /\ p.arg < s.tx.next /\ <<t.tr, p.arg>> \notin t.got
  /\ \A p, q \in Chunks(s, t) : p.arg = q.arg => p = q
  /\ t.got \subseteq Contents(t.tr, s.tx.next) /\ t.count = Cardinality(t.got)

\* A put under way: the server counts down the chunks that it lacks.
PutGoes(s, u, t) ==
  /\ s.disk[t.tr] \subseteq Contents(t.tr, t.next)
  /\ t.next <= t.size /\ t.size \in 1..(ChunkMod - 1)
  /\ s.tx.num + Cardinality(s.disk[t.tr]) = t.size
  /\ None(s, {"k"})
  /\ \A m \in u : /\ m.cmd = "k" /\ m.tr = t.tr /\ m.method = "put" /\ m.size = t.size
                  /\ m.arg < t.next /\ <<t.tr, m.arg>> \notin s.disk[t.tr]

Complete(s, t) ==
  Contents(t.tr, t.size) = IF t.method = "put" THEN s.disk[t.tr] ELSE t.got

----------------------------------------------------------------------------
(* The phases of a transfer, by where the client is                         *)

AtRest(s, u, t, g) ==
  /\ u = {} /\ None(s, {"F", "!", "Z", "z"})
  /\ t.at \in {"idle", "done"} => Free(s) /\ None(s, {"k"})
  /\ t.at = "done" => Complete(s, t)
  /\ t.at \in {"refused", "timedOut"} => Clear(s, g)
  /\ t.at = "refused" => (SmallFiles => Stuck(s, g))

Requested(s, u, t, g) ==
  /\ None(s, {"F", "!"}) /\ Clear(s, g) /\ (Free(s) => t.queue = {})
  /\ \E m \in Messages :
       /\ u = {m} /\ m.cmd = "f" /\ m.tr = t.tr /\ m.method = t.method
       /\ t.size = Asked(m.arg, m.size)
       /\ SmallFiles => m.arg < ChunkMod - 1
       /\ t.method = "put" => m.arg = t.size /\ m.size = t.size /\ t.size > 0
Turned(s, u, t, g) ==
  /\ u = {} /\ None(s, {"F"}) /\ Only(s, "!") /\ Clear(s, g)
  /\ SmallFiles => Stuck(s, g)
Granted(s, u, t, g) ==
  /\ u = {} /\ None(s, {"!"}) /\ Only(s, "F") /\ Mine(s, t, g)
  /\ \A p \in Unseen(s) : p.cmd = "F" => p.arg = t.size
  /\ IF t.method = "get" THEN GetGoes(s, t) ELSE PutGoes(s, u, t)
Opens(s, u, t, g) ==
  /\ t.tr \notin g /\ s.disk[t.tr] = {} /\ None(s, {"Z", "z"})
  /\ t.got = {} /\ t.count = 0 /\ t.next = 0 /\ ~t.closed
  /\ Requested(s, u, t, g) \/ Turned(s, u, t, g) \/ Granted(s, u, t, g)

Gets(s, u, t, g) ==
  /\ t.method = "get" /\ t.num = t.size /\ t.queue = {} /\ u = {}
  /\ None(s, {"F", "!", "Z", "z"}) /\ Mine(s, t, g) /\ GetGoes(s, t)

Puts(s, u, t, g) ==
  /\ t.method = "put" /\ t.num = t.size /\ None(s, {"F", "!", "Z"})
  /\ IF t.at = "sending" THEN t.next < t.num ELSE t.next = t.num
  /\ \/ Mine(s, t, g) /\ PutGoes(s, u, t) /\ None(s, {"z"}) /\ ~t.closed
     \/ /\ Free(s) /\ u = {} /\ t.at = "waiting" /\ Complete(s, t) /\ None(s, {"k"})
        /\ IF t.closed THEN None(s, {"z"}) ELSE Only(s, "z")

Closes(s, u, t, g) ==
  /\ t.method = "get" /\ Complete(s, t) /\ None(s, {"F", "!", "z", "k"})
  /\ \/ /\ \E m \in Messages : u = {m} /\ m.cmd = "z" /\ m.tr = t.tr
        /\ Mine(s, t, g) /\ s.tx.next = s.tx.num /\ None(s, {"Z"})
     \/ u = {} /\ Free(s) /\ Only(s, "Z")

Phase(s, u, t, g) ==
  /\ t.at \in Ended => AtRest(s, u, t, g)
  /\ t.at = "opening" => Opens(s, u, t, g)
  /\ t.at = "receiving" => Gets(s, u, t, g)
  /\ t.at \in {"sending", "waiting"} => Puts(s, u, t, g)
  /\ t.at = "closing" => Closes(s, u, t, g)

Fresh(s, t, g) == \A i \in Transfers : i > t.tr => s.disk[i] = {} /\ i \notin g

FilesInv ==
  /\ State \in Servers /\ up \subseteq Messages /\ c \in FileTransfers /\ gaveUp \subseteq Transfers
  /\ Phase(State, up, c, gaveUp) /\ Fresh(State, c, gaveUp)

----------------------------------------------------------------------------
(* Sets of chunks                                                           *)

LEMMA ContentsIs ==
  ASSUME NEW i \in Transfers, NEW n \in Nat
  PROVE  /\ Contents(i, n) \subseteq Transfers \X Nat
         /\ IsFiniteSet(Contents(i, n)) /\ Cardinality(Contents(i, n)) = n
         /\ \A k : <<i, k>> \in Contents(i, n) <=> k \in 0..(n - 1)
<1>1. Contents(i, n) \subseteq Transfers \X Nat
  BY DEF Contents
<1>2. \A k : <<i, k>> \in Contents(i, n) <=> k \in 0..(n - 1)
  BY DEF Contents
<1> DEFINE f == [k \in 1..n |-> <<i, k - 1>>]
<1>3. f \in Injection(1..n, Contents(i, n))
  <2>1. f \in [1..n -> Contents(i, n)]
    BY <1>2
  <2>2. \A j, k \in 1..n : f[j] = f[k] => j = k
    OBVIOUS
  <2> QED BY <2>1, <2>2 DEF Injection, IsInjective
<1>4. f \in Surjection(1..n, Contents(i, n))
  <2>1. \A x \in Contents(i, n) : \E k \in 1..n : f[k] = x
    <3> TAKE x \in Contents(i, n)
    <3>1. PICK k \in 0..(n - 1) : x = <<i, k>>
      BY DEF Contents
    <3>2. k + 1 \in 1..n /\ f[k + 1] = x
      BY <3>1
    <3> QED BY <3>2
  <2> QED BY <1>3, <2>1 DEF Injection, Surjection
<1>5. ExistsBijection(1..n, Contents(i, n))
  BY <1>3, <1>4 DEF ExistsBijection, Bijection
<1>6. IsFiniteSet(1..n)
  BY FS_Interval
<1>7. IsFiniteSet(Contents(i, n)) /\ Cardinality(Contents(i, n)) = n
  BY <1>5, <1>6, FS_Bijection, FS_CountingElements
<1> QED BY <1>1, <1>2, <1>7

LEMMA SomeContents ==
  ASSUME NEW i \in Transfers, NEW n \in Nat, NEW D \in SUBSET Contents(i, n)
  PROVE  /\ IsFiniteSet(D) /\ Cardinality(D) \in 0..n
         /\ Cardinality(D) = n => D = Contents(i, n)
<1>1. IsFiniteSet(Contents(i, n)) /\ Cardinality(Contents(i, n)) = n
  BY ContentsIs
<1>2. IsFiniteSet(D) /\ Cardinality(D) <= n /\ (Cardinality(D) = n => D = Contents(i, n))
  BY <1>1, FS_Subset
<1> QED BY <1>2, FS_CardinalityType

LEMMA MoreContents ==
  ASSUME NEW i, NEW m \in Nat, NEW n \in Nat, m <= n
  PROVE  Contents(i, m) \subseteq Contents(i, n)
<1>1. 0..(m - 1) \subseteq 0..(n - 1)
  OBVIOUS
<1> QED BY <1>1 DEF Contents

LEMMA NoContents == \A i : Contents(i, 0) = {}
  BY DEF Contents

LEMMA AskedIs ==
  ASSUME NEW arg \in Nat, NEW size \in Nat
  PROVE  /\ Asked(arg, size) \in Nat /\ Asked(arg, size) <= size
         /\ arg = size => Asked(arg, size) = size
<1>1. CASE arg <= size
  <2>1. arg \in {arg, size} /\ \A y \in {arg, size} : arg <= y
    BY <1>1
  <2>2. Min({arg, size}) = arg
    BY <2>1, <1>1 DEF Min
  <2> QED BY <2>2, <1>1 DEF Asked
<1>2. CASE size < arg
  <2>1. size \in {arg, size} /\ \A y \in {arg, size} : size <= y
    BY <1>2
  <2>2. Min({arg, size}) = size
    BY <2>1, <1>2 DEF Min
  <2> QED BY <2>2, <1>2 DEF Asked
<1> QED BY <1>1, <1>2

LEMMA OneAtLeast == ASSUME NEW n \in Nat, n > 0 PROVE Max({n, 1}) = n
<1>1. n \in {n, 1} /\ \A y \in {n, 1} : n >= y
  OBVIOUS
<1> QED BY <1>1 DEF Max

----------------------------------------------------------------------------
(* What the server sends                                                    *)

LEMMA SendIs ==
  ASSUME NEW s \in Servers, NEW cmd \in Cmds, NEW arg \in Nat, NEW r, r = Send(s, cmd, arg)
  PROVE  \E p \in Packets :
           /\ p.cmd = cmd /\ p.arg = arg /\ p.of = s.tx.of /\ ~p.seen
           /\ r.packets = s.packets \cup {p}
           /\ r.tx = s.tx /\ r.disk = s.disk /\ r \in Servers
<1> DEFINE p == [n |-> s.sent + 1, cmd |-> cmd, arg |-> arg, of |-> s.tx.of, seen |-> FALSE]
<1>1. /\ s.sent + 1 \in Nat /\ s.tx.of \in Transfers /\ s.packets \in SUBSET Packets
  BY DEF Servers
<1>2. p \in Packets /\ p.cmd = cmd /\ p.arg = arg /\ p.of = s.tx.of /\ ~p.seen
  <2>1. p.cmd = cmd /\ p.arg = arg /\ p.of = s.tx.of /\ ~p.seen
    OBVIOUS
  <2>2. p \in Packets
    BY <1>1 DEF Packets
  <2> QED BY <2>1, <2>2
<1>3. r = [s EXCEPT !.packets = s.packets \cup {p}, !.sent = s.sent + 1]
  BY DEF Send
<1> HIDE DEF p
<1>4. /\ r.packets = s.packets \cup {p} /\ r.tx = s.tx /\ r.disk = s.disk
      /\ r.sent = s.sent + 1 /\ r \in Servers
  <2>1. s = [tx |-> s.tx, packets |-> s.packets, sent |-> s.sent, disk |-> s.disk]
    BY DEF Servers
  <2>2. r = [tx |-> s.tx, packets |-> s.packets \cup {p}, sent |-> s.sent + 1, disk |-> s.disk]
    BY <1>3, <2>1
  <2>3. r \in Servers
    BY <1>1, <1>2, <2>2 DEF Servers
  <2> QED BY <2>2, <2>3
<1> QED BY <1>2, <1>4

\* A phase depends on no more of the server than this.
LEMMA PhaseStays ==
  ASSUME NEW s, NEW r, NEW u, NEW t, NEW g,
         r.tx = s.tx, r.disk = s.disk, Unseen(r) = Unseen(s), Phase(s, u, t, g)
  PROVE  Phase(r, u, t, g)
<1>1. GetGoes(s, t) => GetGoes(r, t)
  BY DEF GetGoes, Chunks
<1>2. PutGoes(s, u, t) => PutGoes(r, u, t)
  BY DEF PutGoes, None
<1>3. /\ \A cmds : None(r, cmds) <=> None(s, cmds)
      /\ \A cmd : Only(r, cmd) <=> Only(s, cmd)
      /\ Free(r) <=> Free(s)
      /\ Stuck(r, g) <=> Stuck(s, g)
      /\ Mine(r, t, g) <=> Mine(s, t, g)
      /\ Complete(r, t) <=> Complete(s, t)
  BY DEF None, Only, Free, Stuck, Mine, Complete
<1>4. Clear(r, g) <=> Clear(s, g)
  BY <1>3 DEF Clear
<1>5. AtRest(s, u, t, g) => AtRest(r, u, t, g)
  BY <1>3, <1>4 DEF AtRest
<1>6. Opens(s, u, t, g) => Opens(r, u, t, g)
  BY <1>1, <1>2, <1>3, <1>4 DEF Opens, Requested, Turned, Granted
<1>7. Gets(s, u, t, g) => Gets(r, u, t, g)
  BY <1>1, <1>3 DEF Gets
<1>8. Puts(s, u, t, g) => Puts(r, u, t, g)
  BY <1>2, <1>3 DEF Puts
<1>9. Closes(s, u, t, g) => Closes(r, u, t, g)
  BY <1>3 DEF Closes
<1> QED BY <1>5, <1>6, <1>7, <1>8, <1>9 DEF Phase

----------------------------------------------------------------------------
(* The turn a transfer gets                                                 *)

\* A server that has sent a packet p in answer to none.
Sent(s, r, p) == p \in Packets /\ ~p.seen /\ Unseen(r) = Unseen(s) \cup {p}

LEMMA UnseenIs ==
  ASSUME NEW s, NEW r, NEW p \in Packets, ~p.seen, p.cmd # "e", r.packets = s.packets \cup {p}
  PROVE  Sent(s, r, p)
BY DEF Sent, Unseen

LEMMA CheckIs ==
  ASSUME NEW s \in Servers, NEW r, r = CheckTransfer(s)
  PROVE  /\ r \in Servers
         /\ \/ r = s
            \/ /\ s.tx.mode = "get" /\ s.tx.next < s.tx.num
               /\ r.tx = [s.tx EXCEPT !.next = s.tx.next + 1] /\ r.disk = s.disk
               /\ \E p : Sent(s, r, p) /\ p.cmd = "k" /\ p.arg = s.tx.next /\ p.of = s.tx.of
            \/ /\ s.tx.mode = "put" /\ s.tx.num = 0
               /\ r.tx = [s.tx EXCEPT !.mode = "unused"] /\ r.disk = s.disk
               /\ \E p : Sent(s, r, p) /\ p.cmd = "z"
<1> DEFINE Txs == [mode : {"unused", "get", "put"}, num : Nat, next : Nat, of : Transfers]
<1>0. s.tx \in Txs /\ s = [tx |-> s.tx, packets |-> s.packets, sent |-> s.sent, disk |-> s.disk]
  BY DEF Servers
<1>1. CASE r = s
  BY <1>1
<1>2. CASE s.tx.mode = "get" /\ s.tx.next < s.tx.num /\ r # s
  <2> DEFINE q == Send(s, "k", s.tx.next)
  <2>1. r = [q EXCEPT !.tx = [q.tx EXCEPT !.next = q.tx.next + 1]]
    BY <1>2 DEF CheckTransfer
  <2>2. "k" \in Cmds /\ s.tx.next \in Nat
    BY <1>0 DEF Cmds
  <2> HIDE DEF q
  <2>3. PICK p \in Packets :
          /\ p.cmd = "k" /\ p.arg = s.tx.next /\ p.of = s.tx.of /\ ~p.seen
          /\ q.packets = s.packets \cup {p}
          /\ q.tx = s.tx /\ q.disk = s.disk /\ q \in Servers
    BY <2>2, SendIs DEF q
  <2> DEFINE x == [s.tx EXCEPT !.next = s.tx.next + 1]
  <2>4. x \in Txs
    BY <1>0, <2>2
  <2>5. r = [q EXCEPT !.tx = x]
    BY <2>1, <2>3
  <2> HIDE DEF x
  <2>6. r.tx = x /\ r.packets = s.packets \cup {p} /\ r.disk = s.disk /\ r \in Servers
    BY <2>3, <2>4, <2>5 DEF Servers
  <2>7. Sent(s, r, p)
    BY <2>3, <2>6, UnseenIs
  <2> QED BY <1>2, <2>3, <2>6, <2>7 DEF x
<1>3. CASE s.tx.mode = "put" /\ s.tx.num = 0 /\ r # s
  <2> DEFINE x == [s.tx EXCEPT !.mode = "unused"]
             w == [s EXCEPT !.tx = x]
  <2>1. r = Send(w, "z", 0)
    BY <1>3 DEF CheckTransfer, AllReceived
  <2>2. x \in Txs
    BY <1>0
  <2> HIDE DEF x
  <2>3. w \in Servers /\ w.tx = x /\ w.packets = s.packets /\ w.disk = s.disk
    BY <2>2 DEF Servers
  <2>4. "z" \in Cmds /\ 0 \in Nat
    BY DEF Cmds
  <2> HIDE DEF w
  <2>5. PICK p \in Packets :
          /\ p.cmd = "z" /\ ~p.seen /\ r.packets = w.packets \cup {p}
          /\ r.tx = w.tx /\ r.disk = w.disk /\ r \in Servers
    BY <2>1, <2>3, <2>4, SendIs
  <2>6. Sent(s, r, p)
    BY <2>3, <2>5, UnseenIs
  <2> QED BY <1>3, <2>3, <2>5, <2>6 DEF x
<1>4. r = s \/ (s.tx.mode = "get" /\ s.tx.next < s.tx.num) \/ (s.tx.mode = "put" /\ s.tx.num = 0)
  BY DEF CheckTransfer, AllReceived
<1> QED BY <1>1, <1>2, <1>3, <1>4

\* One more chunk of a get is on its way.
LEMMA ChunkKeeps ==
  ASSUME NEW s \in Servers, NEW r \in Servers, NEW t \in FileTransfers, NEW p, Sent(s, r, p),
         GetGoes(s, t), s.tx.next < s.tx.num,
         r.tx = [s.tx EXCEPT !.next = s.tx.next + 1],
         p.cmd = "k", p.arg = s.tx.next, p.of = t.tr
  PROVE  GetGoes(r, t)
<1>1. /\ s.tx.next \in Nat /\ s.tx.num \in Nat /\ t.size \in Nat /\ t.tr \in Transfers
      /\ r.tx.next = s.tx.next + 1 /\ r.tx.num = s.tx.num
  BY DEF Servers, FileTransfers
<1>2. \A q \in Chunks(s, t) :
        q.of = t.tr /\ q.arg < s.tx.next /\ <<t.tr, q.arg>> \notin t.got /\ q.arg \in Nat
  <2>1. \A q \in Chunks(s, t) : q.arg \in Nat
    BY DEF Chunks, Unseen, Servers, FileTransfers, Packets
  <2> QED BY <2>1 DEF GetGoes
<1> DEFINE n == s.tx.next
<1>3. \A k, j \in Nat : k < j => k # j
  OBVIOUS
<1>4. \A q \in Chunks(s, t) : q.arg # p.arg
  <2> TAKE q \in Chunks(s, t)
  <2>1. q.arg \in Nat /\ n \in Nat /\ q.arg < n /\ p.arg = n
    BY <1>1, <1>2
  <2> HIDE DEF n
  <2>2. q.arg # n
    BY <2>1, <1>3
  <2> QED BY <2>1, <2>2
<1>5. p \notin Chunks(s, t)
  BY <1>4
<1>6. Chunks(r, t) = Chunks(s, t) \cup {p}
  BY DEF Chunks, Sent
<1>7. <<t.tr, s.tx.next>> \notin t.got
  <2>1. ~(s.tx.next \in 0..(s.tx.next - 1))
    BY <1>1
  <2> QED BY <1>1, <2>1, ContentsIs DEF GetGoes
<1>8. t.queue \cap Unseen(r) = {}
  BY <1>5 DEF GetGoes, Chunks, Sent
<1>9. \A q \in Chunks(r, t) : q.of = t.tr /\ q.arg < r.tx.next /\ <<t.tr, q.arg>> \notin t.got
  <2> TAKE q \in Chunks(r, t)
  <2>1. CASE q = p
    BY <2>1, <1>1, <1>7
  <2>2. CASE q \in Chunks(s, t)
    BY <2>2, <1>1, <1>2
  <2> QED BY <1>6, <2>1, <2>2
<1>10. \A q, o \in Chunks(r, t) : q.arg = o.arg => q = o
  <2>1. \A q, o \in Chunks(s, t) : q.arg = o.arg => q = o
    BY DEF GetGoes
  <2> QED BY <1>6, <1>4, <2>1
<1>11. t.got \subseteq Contents(t.tr, r.tx.next)
  <2>1. Contents(t.tr, s.tx.next) \subseteq Contents(t.tr, s.tx.next + 1)
    BY <1>1, MoreContents
  <2> QED BY <1>1, <2>1 DEF GetGoes
<1> QED BY <1>1, <1>8, <1>9, <1>10, <1>11 DEF GetGoes

\* What is on its way after a packet more.
LEMMA SentIs ==
  ASSUME NEW s, NEW r, NEW p, Sent(s, r, p)
  PROVE  /\ \A cmds : None(s, cmds) /\ p.cmd \notin cmds => None(r, cmds)
         /\ \A cmd : Only(s, cmd) /\ p.cmd # cmd => Only(r, cmd)
         /\ \A cmds : None(s, cmds) /\ p.cmd \in cmds => Only(r, p.cmd)
BY DEF Sent, None, Only

LEMMA NextChunkStays ==
  ASSUME NEW s \in Servers, NEW r \in Servers, NEW u, NEW t \in FileTransfers, NEW g,
         s.tx.mode = "get", s.tx.next < s.tx.num,
         r.tx = [s.tx EXCEPT !.next = s.tx.next + 1], r.disk = s.disk,
         NEW p, Sent(s, r, p), p.cmd = "k", p.arg = s.tx.next, p.of = s.tx.of,
         Phase(s, u, t, g)
  PROVE  Phase(r, u, t, g)
<1>1. /\ s.tx.next \in Nat /\ r.tx.mode = "get" /\ r.tx.of = s.tx.of
      /\ Free(r) = Free(s) /\ Stuck(r, g) = Stuck(s, g) /\ Mine(r, t, g) = Mine(s, t, g)
      /\ ~Free(s) /\ Complete(r, t) = Complete(s, t)
  BY DEF Servers, Free, Stuck, Mine, Complete
<1>2. \A cmds : None(s, cmds) /\ "k" \notin cmds => None(r, cmds)
  BY SentIs
<1>3. \A cmd : Only(s, cmd) /\ "k" # cmd => Only(r, cmd)
  BY SentIs
<1>4. Clear(s, g) => Clear(r, g)
  BY <1>1 DEF Clear
<1>5. Mine(s, t, g) /\ GetGoes(s, t) => GetGoes(r, t)
  BY ChunkKeeps DEF Mine
<1>6. ASSUME AtRest(s, u, t, g) PROVE AtRest(r, u, t, g)
  BY <1>1, <1>2, <1>4, <1>6 DEF AtRest
<1>7. ASSUME Opens(s, u, t, g) PROVE Opens(r, u, t, g)
  <2>1. Requested(s, u, t, g) => Requested(r, u, t, g)
    BY <1>1, <1>2, <1>4 DEF Requested
  <2>2. Turned(s, u, t, g) => Turned(r, u, t, g)
    BY <1>1, <1>2, <1>3, <1>4 DEF Turned
  <2>3. ASSUME Granted(s, u, t, g) PROVE Granted(r, u, t, g)
    <3>1. t.method = "get" /\ GetGoes(r, t)
      BY <1>1, <1>5, <2>3 DEF Granted, Mine
    <3>2. \A q \in Unseen(r) : q.cmd = "F" => q.arg = t.size
      BY <2>3 DEF Granted, Sent
    <3> QED BY <1>1, <1>2, <1>3, <2>3, <3>1, <3>2 DEF Granted
  <2> QED BY <1>2, <1>7, <2>1, <2>2, <2>3 DEF Opens
<1>8. ASSUME Gets(s, u, t, g) PROVE Gets(r, u, t, g)
  BY <1>1, <1>2, <1>5, <1>8 DEF Gets
<1>9. ~Puts(s, u, t, g)
  BY <1>1 DEF Puts, Mine
<1>10. ~Closes(s, u, t, g)
  BY <1>1 DEF Closes
<1> QED BY <1>6, <1>7, <1>8, <1>9, <1>10 DEF Phase

LEMMA PutCloseStays ==
  ASSUME NEW s \in Servers, NEW r \in Servers, NEW u \in SUBSET Messages,
         NEW t \in FileTransfers, NEW g,
         s.tx.mode = "put", s.tx.num = 0,
         r.tx = [s.tx EXCEPT !.mode = "unused"], r.disk = s.disk,
         NEW p, Sent(s, r, p), p.cmd = "z",
         Phase(s, u, t, g)
  PROVE  Phase(r, u, t, g)
<1> DEFINE D == s.disk[t.tr]
<1>1. /\ ~Free(s) /\ ~Clear(s, g) /\ Free(r)
      /\ t.tr \in Transfers /\ t.size \in Nat /\ t.next \in Nat
      /\ t.at \in Ended \cup Running
  BY DEF Servers, FileTransfers, Free, Stuck, Clear
<1>2. t.at \in Ended => ~AtRest(s, u, t, g)
  BY <1>1 DEF AtRest, Ended
<1>3. ~Gets(s, u, t, g) /\ ~Closes(s, u, t, g)
  BY <1>1 DEF Gets, Closes, Mine
<1>4. ASSUME PutGoes(s, u, t)
      PROVE  t.next = t.size /\ D = Contents(t.tr, t.size) /\ t.size > 0 /\ u = {}
  <2>1. D \in SUBSET Contents(t.tr, t.next) /\ t.next <= t.size /\ t.size > 0
    BY <1>1, <1>4 DEF PutGoes
  <2>2. Cardinality(D) \in 0..t.next /\ (Cardinality(D) = t.next => D = Contents(t.tr, t.next))
    BY <1>1, <2>1, SomeContents
  <2>3. Cardinality(D) = t.size
    BY <1>4, <2>2 DEF PutGoes
  <2>4. t.next = t.size
    BY <1>1, <2>1, <2>2, <2>3
  <2>5. D = Contents(t.tr, t.size)
    BY <2>2, <2>3, <2>4
  <2>6. \A m \in u : m.arg \in 0..(t.size - 1) /\ <<t.tr, m.arg>> \notin D
    BY <1>1, <1>4, <2>4 DEF PutGoes, Messages
  <2>7. \A k : <<t.tr, k>> \in D <=> k \in 0..(t.size - 1)
    BY <1>1, <2>5, ContentsIs
  <2>8. u = {}
    BY <2>6, <2>7
  <2> QED BY <2>1, <2>4, <2>5, <2>8
<1>5. ~Opens(s, u, t, g)
  <2> SUFFICES ASSUME Opens(s, u, t, g) PROVE FALSE
    OBVIOUS
  <2>1. Granted(s, u, t, g) /\ t.next = 0
    BY <1>1 DEF Opens, Requested, Turned
  <2>2. PutGoes(s, u, t)
    BY <2>1 DEF Granted, Mine
  <2> QED BY <1>1, <1>4, <2>1, <2>2
<1>6. ASSUME Puts(s, u, t, g), t.at \in {"sending", "waiting"} PROVE Puts(r, u, t, g)
  <2>1. /\ Mine(s, t, g) /\ PutGoes(s, u, t) /\ None(s, {"z"}) /\ ~t.closed
        /\ t.method = "put" /\ t.num = t.size /\ None(s, {"F", "!", "Z"})
    BY <1>1, <1>6 DEF Puts
  <2>2. t.at # "sending"
    BY <1>1, <1>4, <1>6, <2>1 DEF Puts
  <2>3. Complete(r, t) /\ u = {} /\ t.next = t.num
    BY <1>4, <2>1 DEF Complete
  <2>4. None(r, {"F", "!", "Z"}) /\ None(r, {"k"}) /\ Only(r, "z")
    <3>1. None(s, {"k"})
      BY <2>1 DEF PutGoes
    <3> QED BY <2>1, <3>1, SentIs
  <2> QED BY <1>1, <1>6, <2>1, <2>2, <2>3, <2>4 DEF Puts
<1> QED BY <1>2, <1>3, <1>5, <1>6 DEF Phase

LEMMA CheckStays ==
  ASSUME NEW s \in Servers, NEW u \in SUBSET Messages, NEW t \in FileTransfers, NEW g,
         Phase(s, u, t, g), Fresh(s, t, g), NEW r, r = CheckTransfer(s)
  PROVE  r \in Servers /\ Phase(r, u, t, g) /\ Fresh(r, t, g)
<1>1. r \in Servers /\ r.disk = s.disk
  BY CheckIs
<1>2. Fresh(r, t, g)
  BY <1>1 DEF Fresh
<1>3. CASE r = s
  BY <1>3
<1>4. ASSUME s.tx.mode = "get", s.tx.next < s.tx.num,
             r.tx = [s.tx EXCEPT !.next = s.tx.next + 1],
             NEW p, Sent(s, r, p), p.cmd = "k", p.arg = s.tx.next, p.of = s.tx.of
      PROVE  Phase(r, u, t, g)
  BY <1>1, <1>4, NextChunkStays
<1>5. ASSUME s.tx.mode = "put", s.tx.num = 0, r.tx = [s.tx EXCEPT !.mode = "unused"],
             NEW p, Sent(s, r, p), p.cmd = "z"
      PROVE  Phase(r, u, t, g)
  BY <1>1, <1>5, PutCloseStays
<1>6. Phase(r, u, t, g)
  BY <1>3, <1>4, <1>5, CheckIs
<1> QED BY <1>1, <1>2, <1>6

----------------------------------------------------------------------------
(* What the server does with a message                                      *)

LEMMA ModIs ==
  ASSUME NEW a \in Nat
  PROVE  /\ a % ChunkMod \in Nat /\ a % ChunkMod <= a
         /\ a < ChunkMod => a % ChunkMod = a
BY FileSizes

\* Is the transfer granted, or refused?
LEMMA FileOpenStays ==
  ASSUME NEW s \in Servers, NEW m \in Messages, NEW t \in FileTransfers, NEW g,
         Opens(s, {m}, t, g), Requested(s, {m}, t, g), NEW r, r = FileOpen(s, m)
  PROVE  r \in Servers /\ r.disk = s.disk /\ Opens(r, {}, t, g)
<1> DEFINE asked == Asked(m.arg, m.size)
<1>1. /\ m.cmd = "f" /\ m.tr = t.tr /\ m.method = t.method /\ t.size = asked
      /\ SmallFiles => m.arg < ChunkMod - 1
      /\ t.method = "put" => m.arg = t.size /\ m.size = t.size /\ t.size > 0
      /\ None(s, {"F", "!"}) /\ Clear(s, g) /\ (Free(s) => t.queue = {})
      /\ None(s, {"Z", "z"})
      /\ t.tr \notin g /\ s.disk[t.tr] = {} /\ t.got = {} /\ t.count = 0 /\ t.next = 0 /\ ~t.closed
  BY DEF Requested, Opens
<1>2. /\ m.arg \in Nat /\ m.size \in Nat /\ asked \in Nat /\ t.size \in Nat
      /\ t.tr \in Transfers /\ t.method \in {"get", "put"} /\ ChunkMod \in Nat
  BY AskedIs, FileSizes DEF Messages, FileTransfers
<1>3. CASE s.tx.mode # "unused" \/ m.arg >= ChunkMod - 1
  <2>1. r = Send(s, "!", 0)
    BY <1>3 DEF FileOpen
  <2>2. PICK p \in Packets :
          /\ p.cmd = "!" /\ ~p.seen /\ r.packets = s.packets \cup {p}
          /\ r.tx = s.tx /\ r.disk = s.disk /\ r \in Servers
    <3>1. "!" \in Cmds /\ 0 \in Nat
      BY DEF Cmds
    <3> QED BY <2>1, <3>1, SendIs
  <2>3. Sent(s, r, p)
    BY <2>2, UnseenIs
  <2>4. None(r, {"F"}) /\ None(r, {"Z", "z"}) /\ Only(r, "!")
    <3>1. None(s, {"F"}) /\ None(s, {"!"})
      BY <1>1 DEF None
    <3> QED BY <1>1, <2>2, <2>3, <3>1, SentIs
  <2>5. None(s, {"k"}) => None(r, {"k"})
    BY <2>2, <2>3, SentIs
  <2>6. Clear(r, g) /\ (Stuck(s, g) => Stuck(r, g))
    BY <1>1, <2>2, <2>5 DEF Clear, Stuck, Free
  <2>7. SmallFiles => Stuck(r, g)
    BY <1>1, <1>2, <1>3, <2>6 DEF Clear, Free
  <2>8. Turned(r, {}, t, g)
    BY <2>4, <2>6, <2>7 DEF Turned
  <2> QED BY <1>1, <2>2, <2>4, <2>8 DEF Opens
<1>4. CASE s.tx.mode = "unused" /\ m.arg < ChunkMod - 1
  <2> DEFINE x == [mode |-> m.method, num |-> asked % ChunkMod, next |-> 0, of |-> m.tr]
             w == [s EXCEPT !.tx = x]
  <2>1. r = Send(w, "F", asked)
    BY <1>2, <1>4 DEF FileOpen
  <2>2. /\ x \in [mode : {"unused", "get", "put"}, num : Nat, next : Nat, of : Transfers]
        /\ x.mode = t.method /\ x.of = t.tr /\ x.next = 0 /\ x.num = asked % ChunkMod
    BY <1>1, <1>2, ModIs DEF Messages
  <2> HIDE DEF x, asked
  <2>3. w \in Servers /\ w.tx = x /\ w.packets = s.packets /\ w.disk = s.disk
    BY <2>2 DEF Servers
  <2> HIDE DEF w
  <2>4. PICK p \in Packets :
          /\ p.cmd = "F" /\ p.arg = asked /\ ~p.seen /\ r.packets = w.packets \cup {p}
          /\ r.tx = w.tx /\ r.disk = w.disk /\ r \in Servers
    <3>1. "F" \in Cmds /\ asked \in Nat /\ w \in Servers /\ r = Send(w, "F", asked)
      BY <1>2, <2>1, <2>3 DEF Cmds
    <3> QED BY <3>1, SendIs
  <2>5. Sent(s, r, p)
    BY <2>3, <2>4, UnseenIs
  <2>6. Free(s) /\ None(s, {"k"}) /\ t.queue = {}
    BY <1>1, <1>4 DEF Clear, Stuck, Free
  <2>7. None(r, {"!"}) /\ None(r, {"Z", "z"}) /\ None(r, {"k"}) /\ Only(r, "F")
    <3>1. None(s, {"F"}) /\ None(s, {"!"})
      BY <1>1 DEF None
    <3> QED BY <1>1, <2>4, <2>5, <2>6, <3>1, SentIs
  <2>8. \A q \in Unseen(r) : q.cmd = "F" => q.arg = t.size
    BY <1>1, <2>4, <2>5 DEF None, Sent
  <2>9. Mine(r, t, g) /\ r.tx.next = 0 /\ r.tx.num = asked % ChunkMod
    BY <1>1, <2>2, <2>3, <2>4 DEF Mine
  <2>10. IsFiniteSet({}) /\ Cardinality({}) = 0
    BY FS_EmptySet
  <2>11. GetGoes(r, t)
    <3>1. Chunks(r, t) = {} /\ t.queue \cap Unseen(r) = {}
      BY <2>6, <2>7 DEF Chunks, None
    <3>2. r.tx.next <= r.tx.num /\ r.tx.num <= t.size
      BY <1>1, <1>2, <2>9, ModIs
    <3> QED BY <1>1, <2>6, <2>10, <3>1, <3>2 DEF GetGoes
  <2>12. t.method = "put" => PutGoes(r, {}, t)
    <3>1. t.method = "put" => r.tx.num = t.size /\ t.size \in 1..(ChunkMod - 1)
      BY <1>1, <1>2, <1>4, <2>9, ModIs
    <3>2. r.disk[t.tr] = {}
      BY <1>1, <2>3, <2>4
    <3> QED BY <1>1, <1>2, <2>7, <2>10, <3>1, <3>2 DEF PutGoes
  <2>13. Granted(r, {}, t, g)
    BY <1>2, <2>7, <2>8, <2>9, <2>11, <2>12 DEF Granted
  <2> QED BY <1>1, <2>3, <2>4, <2>7, <2>13 DEF Opens
<1> QED BY <1>2, <1>3, <1>4

LEMMA FileCloseStays ==
  ASSUME NEW s \in Servers, NEW m, NEW t \in FileTransfers, NEW g,
         Closes(s, {m}, t, g), NEW r, r = FileClose(s)
  PROVE  r \in Servers /\ r.disk = s.disk /\ Closes(r, {}, t, g)
<1> DEFINE x == [s.tx EXCEPT !.mode = "unused"]
           w == [s EXCEPT !.tx = x]
<1>1. r = Send(w, "Z", 0)
  BY DEF FileClose, Servers
<1>2. /\ x \in [mode : {"unused", "get", "put"}, num : Nat, next : Nat, of : Transfers]
      /\ x.mode = "unused"
  BY DEF Servers
<1> HIDE DEF x
<1>3. w \in Servers /\ w.tx = x /\ w.packets = s.packets /\ w.disk = s.disk
  BY <1>2 DEF Servers
<1> HIDE DEF w
<1>4. PICK p \in Packets :
        /\ p.cmd = "Z" /\ ~p.seen /\ r.packets = w.packets \cup {p}
        /\ r.tx = w.tx /\ r.disk = w.disk /\ r \in Servers
  <2>1. "Z" \in Cmds /\ 0 \in Nat
    BY DEF Cmds
  <2> QED BY <1>1, <1>3, <2>1, SendIs
<1>5. Sent(s, r, p)
  BY <1>3, <1>4, UnseenIs
<1>6. /\ t.method = "get" /\ Complete(s, t) /\ None(s, {"F", "!", "z", "k"}) /\ None(s, {"Z"})
  BY DEF Closes
<1>7. None(r, {"F", "!", "z", "k"}) /\ Only(r, "Z")
  BY <1>4, <1>5, <1>6, SentIs
<1>8. Complete(r, t) /\ Free(r)
  BY <1>2, <1>3, <1>4, <1>6 DEF Complete, Free
<1> QED BY <1>3, <1>4, <1>6, <1>7, <1>8 DEF Closes

\* One chunk of a put more is in the file.
LEMMA ReceiveChunkStays ==
  ASSUME NEW s \in Servers, NEW u \in SUBSET Messages, NEW m \in u,
         NEW t \in FileTransfers, NEW g,
         Mine(s, t, g), t.method = "put", PutGoes(s, u, t), NEW r, r = ReceiveChunk(s, m)
  PROVE  /\ r \in Servers /\ r.packets = s.packets
         /\ \A i \in Transfers : i # t.tr => r.disk[i] = s.disk[i]
         /\ Mine(r, t, g) /\ PutGoes(r, u \ {m}, t)
<1> DEFINE D == s.disk[t.tr]
           e == <<t.tr, m.arg>>
<1>1. /\ D \subseteq Contents(t.tr, t.next) /\ t.next <= t.size /\ t.size \in 1..(ChunkMod - 1)
      /\ s.tx.num + Cardinality(D) = t.size /\ None(s, {"k"})
      /\ m.cmd = "k" /\ m.tr = t.tr /\ m.size = t.size /\ m.arg < t.next /\ e \notin D
  BY DEF PutGoes
<1>2. /\ t.tr \in Transfers /\ t.next \in Nat /\ t.size \in Nat /\ m.arg \in Nat
      /\ s.tx.num \in Nat /\ s.tx.mode = "put" /\ s.tx.of = t.tr /\ t.tr \notin g
      /\ ChunkMod \in Nat
  BY FileSizes DEF Mine, FileTransfers, Messages, Servers
<1>3. e \in Contents(t.tr, t.next) /\ e \in Contents(t.tr, t.size)
  <2>1. m.arg \in 0..(t.next - 1) /\ m.arg \in 0..(t.size - 1)
    BY <1>1, <1>2
  <2> QED BY <1>2, <2>1, ContentsIs
<1>4. /\ IsFiniteSet(D) /\ Cardinality(D) \in Nat
      /\ Cardinality(D \cup {e}) = Cardinality(D) + 1
      /\ Cardinality(D \cup {e}) <= t.next
  <2>1. IsFiniteSet(D) /\ Cardinality(D) \in 0..t.next
    BY <1>1, <1>2, SomeContents
  <2>2. D \cup {e} \in SUBSET Contents(t.tr, t.next)
    BY <1>1, <1>3
  <2>3. Cardinality(D \cup {e}) \in 0..t.next
    BY <1>2, <2>2, SomeContents
  <2>4. Cardinality(D \cup {e}) = Cardinality(D) + 1
    BY <1>1, <2>1, FS_AddElement
  <2> QED BY <2>1, <2>3, <2>4
<1> HIDE DEF D
<1>5. (s.tx.num - 1 + ChunkMod) % ChunkMod = s.tx.num - 1 /\ s.tx.num - 1 \in Nat
  <2>1. s.tx.num - 1 \in Nat /\ s.tx.num - 1 < ChunkMod
    BY <1>1, <1>2, <1>4
  <2>2. \A k \in Nat : k < ChunkMod => (k + ChunkMod) % ChunkMod = k
    BY FileSizes
  <2> QED BY <2>1, <2>2
<1> DEFINE x == [s.tx EXCEPT !.num = s.tx.num - 1]
           d == [s.disk EXCEPT ![t.tr] = D \cup {e}]
<1>6. {<<m.tr, m.arg>>} \cap Contents(m.tr, m.size) = {e}
  BY <1>1, <1>3
<1>7. r = [tx |-> x, packets |-> s.packets, sent |-> s.sent, disk |-> d]
  <2>1. s = [tx |-> s.tx, packets |-> s.packets, sent |-> s.sent, disk |-> s.disk]
    BY DEF Servers
  <2>2. r = [s EXCEPT !.disk[t.tr] = D \cup {e},
                      !.tx.num = (s.tx.num - 1 + ChunkMod) % ChunkMod]
    BY <1>2, <1>6 DEF ReceiveChunk, D
  <2> QED BY <1>5, <2>1, <2>2
<1>8. /\ x \in [mode : {"unused", "get", "put"}, num : Nat, next : Nat, of : Transfers]
      /\ x.mode = "put" /\ x.of = t.tr /\ x.num = s.tx.num - 1
  BY <1>2, <1>5 DEF Servers
<1>9. /\ d \in [Transfers -> SUBSET (Transfers \X Nat)] /\ d[t.tr] = D \cup {e}
      /\ \A i \in Transfers : i # t.tr => d[i] = s.disk[i]
  BY <1>2 DEF Servers, D
<1> HIDE DEF x, d
<1>10. r \in Servers /\ r.tx = x /\ r.packets = s.packets /\ r.disk = d
  BY <1>7, <1>8, <1>9 DEF Servers
<1>11. Mine(r, t, g)
  BY <1>2, <1>8, <1>10 DEF Mine
<1>12. PutGoes(r, u \ {m}, t)
  <2>1. r.disk[t.tr] \subseteq Contents(t.tr, t.next)
    BY <1>1, <1>3, <1>9, <1>10
  <2>2. r.tx.num + Cardinality(r.disk[t.tr]) = t.size
    <3>1. r.tx.num = s.tx.num - 1
      BY <1>8, <1>10
    <3>2. Cardinality(r.disk[t.tr]) = Cardinality(D) + 1
      BY <1>4, <1>9, <1>10
    <3>3. \A k, l, n \in Nat : k + l = n => (k - 1) + (l + 1) = n
      OBVIOUS
    <3>4. s.tx.num + Cardinality(D) = t.size /\ t.size \in Nat
      BY <1>1, <1>2 DEF D
    <3>5. (s.tx.num - 1) + (Cardinality(D) + 1) = t.size
      BY <1>2, <1>4, <3>3, <3>4
    <3> QED BY <3>1, <3>2, <3>5
  <2>3. None(r, {"k"})
    BY <1>1, <1>10 DEF None, Unseen
  <2>4. \A o \in u \ {m} :
          /\ o.cmd = "k" /\ o.tr = t.tr /\ o.method = "put" /\ o.size = t.size
          /\ o.arg < t.next /\ <<t.tr, o.arg>> \notin r.disk[t.tr]
    <3> TAKE o \in u \ {m}
    <3>1. /\ o.cmd = "k" /\ o.tr = t.tr /\ o.method = "put" /\ o.size = t.size
          /\ o.arg < t.next /\ <<t.tr, o.arg>> \notin D /\ m.method = "put"
      BY DEF PutGoes, D
    <3>2. o \in Messages /\ m \in Messages
      OBVIOUS
    <3>3. o.arg # m.arg
      BY <1>1, <3>1, <3>2 DEF Messages
    <3> QED BY <1>9, <1>10, <3>1, <3>3
  <2> QED BY <1>1, <2>1, <2>2, <2>3, <2>4 DEF PutGoes
<1> QED BY <1>9, <1>10, <1>11, <1>12

LEMMA DispatchStays ==
  ASSUME NEW s \in Servers, NEW u \in SUBSET Messages, NEW m \in u,
         NEW t \in FileTransfers, NEW g, Phase(s, u, t, g), Fresh(s, t, g),
         NEW r, r = Dispatch(s, m)
  PROVE  r \in Servers /\ Phase(r, u \ {m}, t, g) /\ Fresh(r, t, g)
<1>1. m \in Messages /\ m.cmd \in {"f", "z", "k"} /\ u # {} /\ t.tr \in Transfers
      /\ t.at \in Ended \cup Running
  BY DEF Messages, FileTransfers
<1>2. ~AtRest(s, u, t, g) /\ ~Gets(s, u, t, g) /\ t.at \notin Ended /\ t.at # "receiving"
  BY <1>1 DEF AtRest, Gets, Phase
<1>3. CASE t.at = "opening"
  <2>1. Opens(s, u, t, g) /\ Requested(s, u, t, g)
    BY <1>1, <1>3 DEF Phase, Opens, Turned, Granted
  <2>2. u = {m} /\ m.cmd = "f"
    BY <2>1 DEF Requested
  <2>3. r = FileOpen(s, m)
    BY <2>2 DEF Dispatch
  <2>4. r \in Servers /\ r.disk = s.disk /\ Opens(r, {}, t, g)
    BY <1>1, <2>1, <2>2, <2>3, FileOpenStays
  <2>5. u \ {m} = {}
    BY <2>2
  <2> QED BY <1>3, <2>4, <2>5 DEF Phase, Fresh, Ended
<1>4. CASE t.at = "closing"
  <2>1. Closes(s, u, t, g)
    BY <1>4 DEF Phase
  <2>2. u = {m} /\ m.cmd = "z"
    BY <1>1, <2>1 DEF Closes
  <2>3. r = FileClose(s)
    BY <2>2 DEF Dispatch
  <2>4. r \in Servers /\ r.disk = s.disk /\ Closes(r, {}, t, g)
    BY <2>1, <2>2, <2>3, FileCloseStays
  <2>5. u \ {m} = {}
    BY <2>2
  <2> QED BY <1>4, <2>4, <2>5 DEF Phase, Fresh, Ended
<1>5. CASE t.at \in {"sending", "waiting"}
  <2>1. Puts(s, u, t, g)
    BY <1>5 DEF Phase
  <2>2. /\ Mine(s, t, g) /\ PutGoes(s, u, t) /\ None(s, {"z"}) /\ ~t.closed
        /\ t.method = "put" /\ t.num = t.size /\ None(s, {"F", "!", "Z"})
        /\ IF t.at = "sending" THEN t.next < t.num ELSE t.next = t.num
    BY <1>1, <2>1 DEF Puts
  <2>3. m.cmd = "k"
    BY <2>2 DEF PutGoes
  <2>4. r = ReceiveChunk(s, m)
    BY <2>3 DEF Dispatch
  <2>5. /\ r \in Servers /\ r.packets = s.packets
        /\ \A i \in Transfers : i # t.tr => r.disk[i] = s.disk[i]
        /\ Mine(r, t, g) /\ PutGoes(r, u \ {m}, t)
    BY <2>2, <2>4, ReceiveChunkStays
  <2>6. None(r, {"z"}) /\ None(r, {"F", "!", "Z"})
    BY <2>2, <2>5 DEF None, Unseen
  <2>7. Puts(r, u \ {m}, t, g)
    BY <2>2, <2>5, <2>6 DEF Puts
  <2>8. Fresh(r, t, g)
    <3>1. \A i \in Transfers : i > t.tr => i # t.tr
      BY <1>1 DEF Transfers
    <3> QED BY <2>5, <3>1 DEF Fresh
  <2> QED BY <1>5, <2>5, <2>7, <2>8 DEF Phase, Ended
<1> QED BY <1>1, <1>2, <1>3, <1>4, <1>5 DEF Running

----------------------------------------------------------------------------
(* The steps of the server                                                  *)

LEMMA BecomeIs ==
  ASSUME NEW s \in Servers, Become(s) PROVE State' = s
<1>1. s = [tx |-> s.tx, packets |-> s.packets, sent |-> s.sent, disk |-> s.disk]
  BY DEF Servers
<1> QED BY <1>1 DEF Become, State

LEMMA ServerStep ==
  ASSUME FilesInv, NEW s \in Servers, Become(s), up' \subseteq up, UNCHANGED <<c, gaveUp>>,
         Phase(s, up', c, gaveUp), Fresh(s, c, gaveUp)
  PROVE  FilesInv'
<1>1. State' = s
  BY BecomeIs
<1>2. Phase(State', up', c', gaveUp') /\ Fresh(State', c', gaveUp')
  BY <1>1
<1>3. State' \in Servers /\ up' \subseteq Messages /\ c' \in FileTransfers /\ gaveUp' \subseteq Transfers
  BY <1>1 DEF FilesInv
<1> QED BY <1>2, <1>3 DEF FilesInv

\* What has the same transfer, files and packets on their way.
LEMMA SameStays ==
  ASSUME FilesInv, NEW s \in Servers, s.tx = tx, s.disk = disk, Unseen(s) = Unseen(State)
  PROVE  Phase(s, up, c, gaveUp) /\ Fresh(s, c, gaveUp)
<1>1. State.tx = tx /\ State.disk = disk
  BY DEF State
<1>2. Phase(State, up, c, gaveUp) /\ Fresh(State, c, gaveUp)
  BY DEF FilesInv
<1>3. Phase(s, up, c, gaveUp)
  BY <1>1, <1>2, PhaseStays
<1> QED BY <1>1, <1>2, <1>3 DEF Fresh

\* dispatch, or no message, and then the turn of the transfer.
LEMMA HandledStays ==
  ASSUME FilesInv, NEW s \in Servers, Phase(s, up, c, gaveUp), Fresh(s, c, gaveUp),
         NEW m \in up, Become(CheckTransfer(Dispatch(s, m))), up' = up \ {m},
         UNCHANGED <<c, gaveUp>>
  PROVE  FilesInv'
<1> DEFINE q == Dispatch(s, m)
           r == CheckTransfer(q)
<1>1. up \in SUBSET Messages /\ up \ {m} \in SUBSET Messages /\ c \in FileTransfers
  BY DEF FilesInv
<1>2. q \in Servers /\ Phase(q, up \ {m}, c, gaveUp) /\ Fresh(q, c, gaveUp)
  BY <1>1, DispatchStays
<1> HIDE DEF q
<1>3. r \in Servers /\ Phase(r, up \ {m}, c, gaveUp) /\ Fresh(r, c, gaveUp)
  BY <1>1, <1>2, CheckStays
<1>4. Become(r)
  BY DEF q
<1> HIDE DEF r
<1>5. Phase(r, up', c, gaveUp) /\ up' \subseteq up
  BY <1>3
<1> QED BY <1>3, <1>4, <1>5, ServerStep

LEMMA TurnStays ==
  ASSUME FilesInv, NEW s \in Servers, Phase(s, up, c, gaveUp), Fresh(s, c, gaveUp),
         Become(CheckTransfer(s)), UNCHANGED <<up, c, gaveUp>>
  PROVE  FilesInv'
<1> DEFINE r == CheckTransfer(s)
<1>1. up \in SUBSET Messages /\ c \in FileTransfers
  BY DEF FilesInv
<1>2. r \in Servers /\ Phase(r, up, c, gaveUp) /\ Fresh(r, c, gaveUp)
  BY <1>1, CheckStays
<1> HIDE DEF r
<1>3. Phase(r, up', c, gaveUp) /\ up' \subseteq up
  BY <1>2
<1> QED BY <1>2, <1>3, ServerStep DEF r

LEMMA ServerStays ==
  ASSUME FilesInv, (\E m \in up : WorkMessage(m)) \/ CheckAckHeaders \/ Work \/ Event
  PROVE  FilesInv'
<1>1. State \in Servers /\ Phase(State, up, c, gaveUp) /\ Fresh(State, c, gaveUp)
  BY DEF FilesInv
<1>2. CASE \E m \in up : WorkMessage(m)
  BY <1>1, <1>2, HandledStays DEF WorkMessage
<1>3. CASE CheckAckHeaders
  <2>1. PICK acked \in SUBSET {p \in packets : p.seen} :
          /\ \/ Become(CheckTransfer([State EXCEPT !.packets = @ \ acked])) /\ UNCHANGED up
             \/ \E m \in up :
                  /\ Become(CheckTransfer(Dispatch([State EXCEPT !.packets = @ \ acked], m)))
                  /\ up' = up \ {m}
          /\ UNCHANGED <<c, gaveUp, events>>
    BY <1>3 DEF CheckAckHeaders
  <2> DEFINE s == [State EXCEPT !.packets = @ \ acked]
  <2>2. s \in Servers /\ s.tx = tx /\ s.disk = disk /\ s.packets = packets \ acked
    BY <1>1 DEF State, Servers
  <2>3. Unseen(s) = Unseen(State)
    BY <2>2 DEF Unseen, State
  <2> HIDE DEF s
  <2>4. Phase(s, up, c, gaveUp) /\ Fresh(s, c, gaveUp)
    BY <2>2, <2>3, SameStays
  <2>5. CASE Become(CheckTransfer(s)) /\ UNCHANGED up
    BY <2>1, <2>2, <2>4, <2>5, TurnStays
  <2>6. ASSUME NEW m \in up, Become(CheckTransfer(Dispatch(s, m))), up' = up \ {m}
        PROVE  FilesInv'
    BY <2>1, <2>2, <2>4, <2>6, HandledStays
  <2> QED BY <2>1, <2>5, <2>6 DEF s
<1>4. CASE Work
  BY <1>1, <1>4, TurnStays DEF Work
<1>5. CASE Event
  <2> DEFINE s == Send(State, "e", 0)
  <2>1. Become(s) /\ UNCHANGED <<up, c, gaveUp>>
    BY <1>5 DEF Event
  <2>2. "e" \in Cmds /\ 0 \in Nat
    BY DEF Cmds
  <2>3. PICK p \in Packets :
          /\ p.cmd = "e" /\ s.packets = State.packets \cup {p}
          /\ s.tx = State.tx /\ s.disk = State.disk /\ s \in Servers
    BY <1>1, <2>2, SendIs
  <2> HIDE DEF s
  <2>4. Unseen(s) = Unseen(State)
    BY <2>3 DEF Unseen
  <2>5. s.tx = tx /\ s.disk = disk
    BY <2>3 DEF State
  <2>6. Phase(s, up, c, gaveUp) /\ Fresh(s, c, gaveUp)
    BY <2>3, <2>4, <2>5, SameStays
  <2>7. Phase(s, up', c, gaveUp) /\ up' \subseteq up
    BY <2>1, <2>6
  <2> QED BY <2>1, <2>3, <2>6, <2>7, ServerStep
<1> QED BY <1>2, <1>3, <1>4, <1>5

----------------------------------------------------------------------------
(* What the client receives                                                 *)

\* The client has seen p.
Taken(s, r, p) ==
  p \in Unseen(s) /\ r.tx = s.tx /\ r.disk = s.disk /\ Unseen(r) = Unseen(s) \ {p}

LEMMA TakenNone ==
  ASSUME NEW s, NEW r, NEW p, Taken(s, r, p), NEW cmds, None(s, cmds)
  PROVE  None(r, cmds) /\ p.cmd \notin cmds
BY DEF Taken, None

LEMMA TakenIs ==
  ASSUME NEW s, NEW r, NEW p, Taken(s, r, p)
  PROVE  /\ \A cmds : None(s, cmds) => None(r, cmds) /\ p.cmd \notin cmds
         /\ Only(s, p.cmd) => None(r, {p.cmd})
         /\ \A g : Clear(s, g) => Clear(r, g)
         /\ \A g : Stuck(s, g) => Stuck(r, g)
         /\ Free(s) => Free(r)
         /\ \A t, g : Mine(s, t, g) => Mine(r, t, g)
<1>1. \A cmds : None(s, cmds) => None(r, cmds) /\ p.cmd \notin cmds
  BY DEF Taken, None
<1>2. Only(s, p.cmd) => None(r, {p.cmd})
  BY DEF Taken, Only, None
<1>3. /\ \A g : Stuck(s, g) => Stuck(r, g)
      /\ Free(s) => Free(r)
      /\ \A t, g : Mine(s, t, g) => Mine(r, t, g)
  BY DEF Taken, Stuck, Free, Mine
<1> QED BY <1>1, <1>2, <1>3 DEF Clear

\* As many chunks as packets.
LEMMA ChunksCount ==
  ASSUME NEW Q, IsFiniteSet(Q), NEW i, \A p \in Q : p.of = i,
         \A p, q \in Q : p.arg = q.arg => p = q
  PROVE  Cardinality({<<p.of, p.arg>> : p \in Q}) = Cardinality(Q)
<1> DEFINE T == {<<p.of, p.arg>> : p \in Q}
           f == [p \in Q |-> <<p.of, p.arg>>]
<1>1. f \in [Q -> T]
  OBVIOUS
<1>2. \A p, q \in Q : f[p] = f[q] => p = q
  OBVIOUS
<1>3. \A x \in T : \E p \in Q : f[p] = x
  OBVIOUS
<1>4. f \in Bijection(Q, T)
  BY <1>1, <1>2, <1>3 DEF Bijection, Injection, Surjection, IsInjective
<1>5. ExistsBijection(Q, T)
  BY <1>4 DEF ExistsBijection
<1> QED BY <1>5, FS_Bijection

LEMMA OpenedAs ==
  ASSUME NEW t \in FileTransfers, NEW at, NEW num
  PROVE  [t EXCEPT !.at = at, !.num = num]
         = [at |-> at, tr |-> t.tr, method |-> t.method, size |-> t.size, num |-> num,
            next |-> t.next, got |-> t.got, count |-> t.count, queue |-> t.queue,
            closed |-> t.closed]
<1>1. ASSUME NEW w, w = [t EXCEPT !.at = at, !.num = num]
      PROVE  w = [at |-> at, tr |-> t.tr, method |-> t.method, size |-> t.size, num |-> num,
            next |-> t.next, got |-> t.got, count |-> t.count, queue |-> t.queue,
            closed |-> t.closed]
  BY <1>1 DEF FileTransfers
<1> QED BY <1>1

\* The response to the get and the chunks that came before it.
LEMMA GetOpens ==
  ASSUME NEW s \in Servers, NEW r, NEW p, Taken(s, r, p), NEW t \in FileTransfers, NEW g,
         Opens(s, {}, t, g), Granted(s, {}, t, g), t.method = "get",
         NEW v, v = Opened(t, t.size)
  PROVE  v \in FileTransfers /\ v.tr = t.tr /\ v.at = "receiving"
         /\ (p.cmd = "F" => Gets(r, {}, v, g))
<1> DEFINE Q == t.queue
           got == {<<q.of, q.arg>> : q \in Q}
<1>1. /\ s.tx.next \in Nat /\ s.tx.num \in Nat /\ t.size \in Nat /\ t.tr \in Transfers
      /\ Q \subseteq Packets
  BY DEF Servers, FileTransfers
<1>2. /\ s.tx.next <= s.tx.num /\ s.tx.num <= t.size
      /\ IsFiniteSet(Q) /\ Q \cap Unseen(s) = {}
      /\ \A q \in Chunks(s, t) : q.of = t.tr /\ q.arg < s.tx.next
      /\ \A q, o \in Chunks(s, t) : q.arg = o.arg => q = o
      /\ Q \subseteq Chunks(s, t)
  BY DEF Granted, GetGoes, Chunks
<1>3. \A q \in Q : q.arg \in Nat /\ q.of \in Transfers
  BY <1>1 DEF Packets
<1>4. {q \in Q : q.arg < t.size} = Q
  BY <1>1, <1>2, <1>3
<1>5. Cardinality(got) = Cardinality(Q) /\ Cardinality(Q) \in Nat
  BY <1>2, ChunksCount, FS_CardinalityType
<1>6. t.got = {} /\ t.count = 0
  BY DEF Opens
<1>7. v = [at |-> "receiving", tr |-> t.tr, method |-> t.method, size |-> t.size,
           num |-> t.size, next |-> t.next, got |-> got, count |-> Cardinality(Q),
           queue |-> {}, closed |-> t.closed]
  <2> DEFINE w == [t EXCEPT !.at = "receiving", !.num = t.size]
  <2>2. w = [at |-> "receiving", tr |-> t.tr, method |-> t.method, size |-> t.size,
             num |-> t.size, next |-> t.next, got |-> t.got, count |-> t.count,
             queue |-> t.queue, closed |-> t.closed]
    BY OpenedAs
  <2>3. v = TakeChunks(w, t.queue)
    BY DEF Opened
  <2> HIDE DEF w
  <2>4. {q \in t.queue : q.arg < w.num} = Q
    BY <1>4, <2>2
  <2> DEFINE good == {q \in t.queue : q.arg < w.num}
  <2>5. v = [w EXCEPT !.got = w.got \cup {<<q.of, q.arg>> : q \in good},
                      !.count = w.count + Cardinality(good), !.queue = {}]
    BY <2>3 DEF TakeChunks
  <2>6. w.got = {} /\ w.count = 0
    BY <1>6, <2>2
  <2> HIDE DEF good
  <2>7. good = Q
    BY <2>4 DEF good
  <2>8. w.got \cup {<<q.of, q.arg>> : q \in good} = got /\ w.count + Cardinality(good) = Cardinality(Q)
    BY <1>5, <2>6, <2>7
  <2> HIDE DEF got, Q
  <2>9. v = [w EXCEPT !.got = got, !.count = Cardinality(Q), !.queue = {}]
    BY <2>5, <2>8
  <2> QED BY <2>2, <2>9
<1>8. got \in SUBSET (Transfers \X Nat)
  BY <1>3
<1>9. v \in FileTransfers
  BY <1>5, <1>7, <1>8 DEF FileTransfers, Running
<1>10. got \subseteq Contents(t.tr, s.tx.next)
  <2>1. \A q \in Q : q.of = t.tr /\ q.arg \in 0..(s.tx.next - 1)
    BY <1>1, <1>2, <1>3
  <2> QED BY <1>1, <2>1, ContentsIs
<1>11. ASSUME p.cmd = "F" PROVE GetGoes(r, v)
  <2>1. Chunks(r, v) = {q \in Unseen(s) : q.cmd = "k"}
    BY <1>7, <1>11 DEF Chunks, Taken
  <2>2. Chunks(r, v) \subseteq Chunks(s, t) /\ r.tx = s.tx
    BY <2>1 DEF Chunks, Taken
  <2>3. \A q \in Chunks(r, v) : <<t.tr, q.arg>> \notin got
    BY <1>2, <2>1, <2>2
  <2>4. v.queue = {} /\ v.got = got /\ v.count = Cardinality(got) /\ v.tr = t.tr /\ v.size = t.size
    BY <1>5, <1>7
  <2>5. IsFiniteSet({})
    BY FS_EmptySet
  <2> HIDE DEF got
  <2> QED BY <1>2, <1>10, <2>2, <2>3, <2>4, <2>5 DEF GetGoes
<1>12. ASSUME p.cmd = "F" PROVE Gets(r, {}, v, g)
  <2>1. None(s, {"Z", "z"}) /\ None(s, {"!"}) /\ Only(s, "F") /\ Mine(s, t, g)
    BY DEF Opens, Granted
  <2>2. None(r, {"Z", "z"}) /\ None(r, {"!"}) /\ None(r, {"F"}) /\ Mine(r, t, g)
    BY <1>12, <2>1, TakenIs
  <2>3. None(r, {"F", "!", "Z", "z"})
    BY <2>2 DEF None
  <2>4. Mine(r, v, g)
    BY <1>7, <2>2 DEF Mine
  <2> QED BY <1>7, <1>11, <1>12, <2>3, <2>4 DEF Gets
<1> QED BY <1>7, <1>9, <1>12

LEMMA PutOpened ==
  ASSUME NEW t \in FileTransfers, t.method = "put", t.size > 0, NEW v, v = Opened(t, t.size)
  PROVE  /\ v \in FileTransfers /\ v.at = "sending" /\ v.tr = t.tr /\ v.method = "put"
         /\ v.size = t.size /\ v.num = t.size /\ v.next = t.next /\ v.closed = t.closed
<1>1. t.size \in Nat
  BY DEF FileTransfers
<1>2. Max({t.size, 1}) = t.size
  BY <1>1, OneAtLeast
<1>3. v = [t EXCEPT !.at = "sending", !.num = t.size]
  BY <1>2 DEF Opened
<1> QED BY <1>1, <1>3 DEF FileTransfers, Running

LEMMA PutOpens ==
  ASSUME NEW s \in Servers, NEW r, NEW p, Taken(s, r, p), NEW t \in FileTransfers, NEW g,
         Opens(s, {}, t, g), Granted(s, {}, t, g), t.method = "put",
         NEW v, v = Opened(t, t.size), p.cmd = "F"
  PROVE  v \in FileTransfers /\ v.tr = t.tr /\ v.at = "sending" /\ Puts(r, {}, v, g)
<1>1. /\ PutGoes(s, {}, t) /\ t.size \in Nat /\ t.size > 0 /\ t.next = 0 /\ ~t.closed
      /\ Only(s, "F") /\ None(s, {"!"}) /\ None(s, {"Z", "z"}) /\ Mine(s, t, g)
  <2>1. PutGoes(s, {}, t)
    BY DEF Granted
  <2>2. t.size \in Nat /\ t.size > 0
    BY <2>1 DEF PutGoes, FileTransfers
  <2> QED BY <2>1, <2>2 DEF Opens, Granted
<1>2. /\ v \in FileTransfers /\ v.at = "sending" /\ v.tr = t.tr /\ v.method = "put"
      /\ v.size = t.size /\ v.num = t.size /\ v.next = t.next /\ v.closed = t.closed
  BY <1>1, PutOpened, Zenon
<1>3. None(r, {"F"}) /\ None(r, {"!"}) /\ None(r, {"Z", "z"}) /\ Mine(r, t, g)
  <2>1. None(r, {"!"}) /\ None(r, {"Z", "z"}) /\ Mine(r, t, g)
    BY <1>1, TakenIs
  <2>2. Only(s, p.cmd)
    BY <1>1
  <2>3. None(r, {p.cmd})
    BY <2>2, TakenIs
  <2> QED BY <2>1, <2>3
<1>4. None(r, {"F", "!", "Z"}) /\ None(r, {"z"})
  BY <1>3 DEF None
<1>5. PutGoes(r, {}, t)
  <2>1. None(s, {"k"}) => None(r, {"k"})
    BY TakenIs
  <2> QED BY <1>1, <2>1 DEF PutGoes, Taken
<1>6. PutGoes(r, {}, v) /\ Mine(r, v, g)
  BY <1>2, <1>3, <1>5 DEF PutGoes, Mine
<1> QED BY <1>1, <1>2, <1>4, <1>6 DEF Puts

LEMMA ChunkQueued ==
  ASSUME NEW t \in FileTransfers, NEW p \in Packets,
         NEW v, v = [t EXCEPT !.queue = t.queue \cup {p}]
  PROVE  /\ v \in FileTransfers /\ v.queue = t.queue \cup {p} /\ v.at = t.at /\ v.tr = t.tr
         /\ v.method = t.method /\ v.size = t.size /\ v.got = t.got /\ v.count = t.count
         /\ v.next = t.next /\ v.closed = t.closed
BY DEF FileTransfers

\* A chunk that comes before the response.
LEMMA ChunkQueues ==
  ASSUME NEW s \in Servers, NEW r, NEW p, Taken(s, r, p), NEW u, NEW t \in FileTransfers, NEW g,
         Opens(s, u, t, g), p.cmd = "k",
         NEW v, v = [t EXCEPT !.queue = t.queue \cup {p}]
  PROVE  v \in FileTransfers /\ v.tr = t.tr /\ v.at = t.at /\ Opens(r, u, v, g)
<1>1. p \in Packets
  BY DEF Taken, Unseen, Servers
<1>2. /\ v \in FileTransfers /\ v.queue = t.queue \cup {p} /\ v.at = t.at /\ v.tr = t.tr
      /\ v.method = t.method /\ v.size = t.size /\ v.got = t.got /\ v.count = t.count
      /\ v.next = t.next /\ v.closed = t.closed
  BY <1>1, ChunkQueued
<1>3. /\ \A cmds : None(s, cmds) => None(r, cmds)
      /\ Clear(s, g) => Clear(r, g)
      /\ Stuck(s, g) => Stuck(r, g)
      /\ Mine(s, t, g) => Mine(r, v, g)
  <2>1. /\ \A cmds : None(s, cmds) => None(r, cmds)
        /\ Clear(s, g) => Clear(r, g)
        /\ Stuck(s, g) => Stuck(r, g)
        /\ Mine(s, t, g) => Mine(r, t, g)
    BY TakenIs, Zenon
  <2>2. Mine(r, t, g) => Mine(r, v, g)
    BY <1>2 DEF Mine
  <2> QED BY <2>1, <2>2
<1>4. ~None(s, {"k"})
  BY DEF Taken, None
<1>5. Clear(s, g) => ~Free(r)
  BY <1>4 DEF Clear, Stuck, Free, Taken
<1>6. \A cmd : Only(s, cmd) /\ cmd # "k" => Only(r, cmd)
  BY DEF Only, Taken
<1>7. Requested(s, u, t, g) => Requested(r, u, v, g)
  BY <1>2, <1>3, <1>5 DEF Requested
<1>8. Turned(s, u, t, g) => Turned(r, u, v, g)
  BY <1>3, <1>6 DEF Turned
<1>9. ASSUME Granted(s, u, t, g) PROVE Granted(r, u, v, g)
  <2>1. t.method = "get" /\ GetGoes(s, t)
    BY <1>4, <1>9 DEF Granted, PutGoes
  <2>2. Chunks(r, v) = Chunks(s, t)
    BY <1>2 DEF Chunks, Taken
  <2>3. IsFiniteSet(v.queue) /\ v.queue \cap Unseen(r) = {}
    <3>1. IsFiniteSet(t.queue) /\ t.queue \cap Unseen(s) = {}
      BY <2>1 DEF GetGoes
    <3> QED BY <1>2, <3>1, FS_AddElement DEF Taken
  <2>4. GetGoes(r, v)
    BY <1>2, <2>1, <2>2, <2>3 DEF GetGoes, Taken
  <2>5. \A q \in Unseen(r) : q.cmd = "F" => q.arg = v.size
    BY <1>2, <1>9 DEF Granted, Taken
  <2> QED BY <1>2, <1>3, <1>6, <1>9, <2>1, <2>4, <2>5 DEF Granted
<1> QED BY <1>2, <1>3, <1>7, <1>8, <1>9 DEF Opens, Taken

LEMMA ChunkTaken ==
  ASSUME NEW t \in FileTransfers, NEW p, p.of = t.tr, p.arg \in Nat, p.arg < t.num,
         NEW v, v = TakeChunks(t, {p})
  PROVE  /\ v \in FileTransfers /\ v.got = t.got \cup {<<t.tr, p.arg>>} /\ v.count = t.count + 1
         /\ v.queue = {} /\ v.at = t.at /\ v.tr = t.tr /\ v.method = t.method /\ v.size = t.size
         /\ v.num = t.num
<1> DEFINE G == t.got \cup {<<t.tr, p.arg>>}
<1>1. {q \in {p} : q.arg < t.num} = {p}
  OBVIOUS
<1>2. Cardinality({p}) = 1
  BY FS_Singleton
<1>3. {<<q.of, q.arg>> : q \in {p}} = {<<t.tr, p.arg>>}
  OBVIOUS
<1>4. v = [t EXCEPT !.got = G, !.count = t.count + 1, !.queue = {}]
  BY <1>1, <1>2, <1>3 DEF TakeChunks
<1>5. G \in SUBSET (Transfers \X Nat) /\ t.count + 1 \in Nat
  BY DEF FileTransfers
<1> HIDE DEF G
<1>6. /\ v \in FileTransfers /\ v.got = G /\ v.count = t.count + 1
      /\ v.queue = {} /\ v.at = t.at /\ v.tr = t.tr /\ v.method = t.method /\ v.size = t.size
      /\ v.num = t.num
  <2>1. {} \in SUBSET Packets
    OBVIOUS
  <2>2. \A w : w = [t EXCEPT !.got = G, !.count = t.count + 1, !.queue = {}] =>
          /\ w \in FileTransfers /\ w.got = G /\ w.count = t.count + 1
          /\ w.queue = {} /\ w.at = t.at /\ w.tr = t.tr /\ w.method = t.method
          /\ w.size = t.size /\ w.num = t.num
    BY <1>5, <2>1 DEF FileTransfers
  <2> QED BY <1>4, <2>2
<1> QED BY <1>6 DEF G

LEMMA GetReceives ==
  ASSUME NEW s \in Servers, NEW r, NEW p, Taken(s, r, p), NEW u, NEW t \in FileTransfers, NEW g,
         Gets(s, u, t, g), p.cmd = "k", NEW v, v = TakeChunks(t, {p})
  PROVE  v \in FileTransfers /\ v.tr = t.tr /\ v.at = t.at /\ Gets(r, u, v, g)
<1> DEFINE e == <<t.tr, p.arg>>
           G == t.got \cup {e}
<1>1. /\ t.num = t.size /\ s.tx.next <= s.tx.num /\ s.tx.num <= t.size
      /\ s.tx.next \in Nat /\ s.tx.num \in Nat /\ t.size \in Nat /\ t.count \in Nat
      /\ t.tr \in Transfers /\ t.got \in SUBSET (Transfers \X Nat) /\ t.queue = {}
  BY DEF Gets, GetGoes, Servers, FileTransfers
<1>2. p \in Packets /\ p.arg \in Nat /\ p \in Chunks(s, t)
  BY DEF Taken, Unseen, Chunks, Servers, Packets
<1>3. /\ \A q \in Chunks(s, t) : q.of = t.tr /\ q.arg < s.tx.next /\ <<t.tr, q.arg>> \notin t.got
      /\ \A q, o \in Chunks(s, t) : q.arg = o.arg => q = o
      /\ t.got \subseteq Contents(t.tr, s.tx.next) /\ t.count = Cardinality(t.got)
  BY DEF Gets, GetGoes
<1>4. p.of = t.tr /\ p.arg \in 0..(s.tx.next - 1) /\ e \notin t.got /\ p.arg < t.num
  <2>1. p.of = t.tr /\ p.arg < s.tx.next /\ e \notin t.got
    BY <1>2, <1>3, Zenon
  <2>2. \A a, n, k, l \in Nat : a < n /\ n <= k /\ k <= l => a \in 0..(n - 1) /\ a < l
    OBVIOUS
  <2>3. p.arg \in 0..(s.tx.next - 1) /\ p.arg < t.num
    BY <1>1, <1>2, <2>1, <2>2
  <2> QED BY <2>1, <2>3
<1>5. IsFiniteSet(t.got) /\ Cardinality(G) = t.count + 1
  <2>1. IsFiniteSet(t.got)
    BY <1>1, <1>3, SomeContents
  <2>2. Cardinality(G) = Cardinality(t.got) + 1
    BY <1>4, <2>1, FS_AddElement
  <2> QED BY <1>3, <2>1, <2>2
<1>6. G \subseteq Contents(t.tr, s.tx.next) /\ G \in SUBSET (Transfers \X Nat)
  BY <1>1, <1>2, <1>3, <1>4, ContentsIs
<1> HIDE DEF G
<1>7. /\ v \in FileTransfers /\ v.got = G /\ v.count = t.count + 1
      /\ v.queue = {} /\ v.at = t.at /\ v.tr = t.tr /\ v.method = t.method /\ v.size = t.size
      /\ v.num = t.num
  BY <1>2, <1>4, ChunkTaken DEF G
<1>8. v.count = Cardinality(G)
  BY <1>5, <1>7
<1>9. Chunks(r, v) = Chunks(s, t) \ {p}
  BY <1>1, <1>7 DEF Chunks, Taken
<1>10. \A q \in Chunks(r, v) : <<t.tr, q.arg>> \notin G
  BY <1>2, <1>3, <1>9 DEF G
<1>11. GetGoes(r, v)
  <2>1. IsFiniteSet({})
    BY FS_EmptySet
  <2>2. r.tx = s.tx
    BY DEF Taken
  <2> QED BY <1>1, <1>3, <1>6, <1>7, <1>8, <1>9, <1>10, <2>1, <2>2 DEF GetGoes
<1>12. None(r, {"F", "!", "Z", "z"}) /\ Mine(r, v, g)
  <2>1. None(s, {"F", "!", "Z", "z"}) /\ Mine(s, t, g)
    BY DEF Gets
  <2>2. None(r, {"F", "!", "Z", "z"})
    BY <2>1, TakenNone
  <2>3. Mine(r, t, g)
    BY <2>1, TakenIs
  <2> QED BY <1>7, <2>2, <2>3 DEF Mine
<1> QED BY <1>1, <1>7, <1>11, <1>12 DEF Gets

LEMMA ReceivedStays ==
  ASSUME NEW s \in Servers, NEW r, NEW p, Taken(s, r, p), NEW u, NEW t \in FileTransfers, NEW g,
         Phase(s, u, t, g), NEW v, v = Received(t, p)
  PROVE  v \in FileTransfers /\ v.tr = t.tr /\ Phase(r, u, v, g)
<1>1. /\ \A cmds : None(s, cmds) => None(r, cmds) /\ p.cmd \notin cmds
      /\ Only(s, p.cmd) => None(r, {p.cmd})
      /\ Clear(s, g) => Clear(r, g)
      /\ Stuck(s, g) => Stuck(r, g)
      /\ Free(s) => Free(r)
      /\ Mine(s, t, g) => Mine(r, t, g)
      /\ \A cmd : Only(s, cmd) /\ cmd # p.cmd => Only(r, cmd)
  BY TakenIs DEF Only, Taken
<1>2. /\ t.at \in Ended \cup Running /\ t.method \in {"get", "put"}
      /\ p.cmd \in {"F", "!", "Z", "z", "k"} /\ r.disk = s.disk
  BY DEF Taken, Unseen, Servers, Packets, Cmds, FileTransfers
<1>3. CASE t.at \in Ended
  <2>1. v = t
    BY <1>3 DEF Received, Ended, Running
  <2>2. AtRest(s, u, t, g)
    BY <1>3 DEF Phase
  <2>3. None(r, {"F", "!", "Z", "z"})
    BY <1>1, <2>2 DEF AtRest
  <2>4. None(s, {"k"}) => None(r, {"k"})
    BY <1>1
  <2>5. Complete(s, t) => Complete(r, t)
    BY <1>2 DEF Complete
  <2>6. AtRest(r, u, t, g)
    BY <1>1, <2>2, <2>3, <2>4, <2>5 DEF AtRest
  <2> QED BY <1>3, <2>1, <2>6 DEF Phase, Ended
<1>4. CASE t.at = "opening"
  <2>1. Opens(s, u, t, g)
    BY <1>4 DEF Phase
  <2>2. p.cmd \notin {"Z", "z"}
    BY <1>1, <2>1 DEF Opens
  <2>3. CASE p.cmd = "F"
    <3>1. Granted(s, u, t, g) /\ u = {} /\ p.arg = t.size
      <4>1. Granted(s, u, t, g)
        <5>1. ~None(s, {"F"}) /\ ~None(s, {"F", "!"})
          BY <1>1, <2>3
        <5> QED BY <2>1, <5>1 DEF Opens, Requested, Turned
      <4> QED BY <2>3, <4>1 DEF Granted, Taken
    <3>2. v = Opened(t, t.size)
      BY <1>4, <2>3, <3>1 DEF Received
    <3>3. CASE t.method = "get"
      <4>1. v \in FileTransfers /\ v.tr = t.tr /\ v.at = "receiving" /\ Gets(r, {}, v, g)
        BY <2>1, <2>3, <3>1, <3>2, <3>3, GetOpens
      <4> QED BY <3>1, <4>1 DEF Phase, Ended
    <3>4. CASE t.method = "put"
      <4>1. v \in FileTransfers /\ v.tr = t.tr /\ v.at = "sending" /\ Puts(r, {}, v, g)
        BY <2>1, <2>3, <3>1, <3>2, <3>4, PutOpens
      <4> QED BY <3>1, <4>1 DEF Phase, Ended
    <3> QED BY <1>2, <3>3, <3>4
  <2>4. CASE p.cmd = "!"
    <3>1. v = [t EXCEPT !.at = "refused"]
      BY <1>4, <2>4 DEF Received
    <3>2. v \in FileTransfers /\ v.at = "refused" /\ v.tr = t.tr
      BY <3>1 DEF FileTransfers, Ended
    <3>3. Turned(s, u, t, g)
      <4>1. ~None(s, {"!"}) /\ ~None(s, {"F", "!"})
        BY <1>1, <2>4
      <4> QED BY <2>1, <4>1 DEF Opens, Requested, Granted
    <3>4. u = {} /\ Clear(r, g) /\ (SmallFiles => Stuck(r, g))
      BY <1>1, <3>3 DEF Turned
    <3>5. None(r, {"F", "!", "Z", "z"})
      <4>1. None(r, {"F"}) /\ None(r, {"Z", "z"})
        BY <1>1, <2>1, <3>3 DEF Turned, Opens
      <4>2. Only(s, p.cmd)
        BY <2>4, <3>3 DEF Turned
      <4>3. None(r, {"!"})
        BY <1>1, <2>4, <4>2
      <4> QED BY <4>1, <4>3 DEF None
    <3>6. AtRest(r, u, v, g)
      BY <3>2, <3>4, <3>5 DEF AtRest
    <3> QED BY <3>2, <3>6 DEF Phase
  <2>5. CASE p.cmd = "k"
    <3>1. v = [t EXCEPT !.queue = t.queue \cup {p}]
      BY <1>4, <2>5 DEF Received
    <3>2. v \in FileTransfers /\ v.tr = t.tr /\ v.at = t.at /\ Opens(r, u, v, g)
      BY <2>1, <2>5, <3>1, ChunkQueues
    <3> QED BY <1>4, <3>2 DEF Phase, Ended
  <2> QED BY <1>2, <2>2, <2>3, <2>4, <2>5
<1>5. CASE t.at = "receiving"
  <2>1. Gets(s, u, t, g)
    BY <1>5 DEF Phase
  <2>2. p.cmd = "k"
    BY <1>1, <1>2, <2>1 DEF Gets
  <2>3. v = TakeChunks(t, {p})
    BY <1>5, <2>2 DEF Received
  <2>4. v \in FileTransfers /\ v.tr = t.tr /\ v.at = t.at /\ Gets(r, u, v, g)
    BY <2>1, <2>2, <2>3, GetReceives
  <2> QED BY <1>5, <2>4 DEF Phase, Ended
<1>6. CASE t.at \in {"sending", "waiting"}
  <2>1. Puts(s, u, t, g)
    BY <1>6 DEF Phase
  <2>2. /\ Free(s) /\ u = {} /\ t.at = "waiting" /\ Complete(s, t) /\ None(s, {"k"})
        /\ None(s, {"F", "!", "Z"}) /\ t.next = t.num /\ t.num = t.size /\ t.method = "put"
        /\ p.cmd = "z" /\ Only(s, "z")
    <3>1. ~(PutGoes(s, u, t) /\ None(s, {"z"}) /\ None(s, {"F", "!", "Z"}))
      BY <1>1, <1>2 DEF PutGoes
    <3>2. /\ Free(s) /\ u = {} /\ t.at = "waiting" /\ Complete(s, t) /\ None(s, {"k"})
          /\ None(s, {"F", "!", "Z"}) /\ t.next = t.num /\ t.num = t.size /\ t.method = "put"
          /\ IF t.closed THEN None(s, {"z"}) ELSE Only(s, "z")
      BY <2>1, <3>1 DEF Puts
    <3>3. p.cmd = "z"
      BY <1>1, <1>2, <3>2
    <3>4. ~None(s, {"z"})
      BY <1>1, <3>3
    <3> QED BY <3>2, <3>3, <3>4
  <2>3. v = [t EXCEPT !.closed = TRUE]
    BY <2>2 DEF Received, Running
  <2>4. /\ v \in FileTransfers /\ v.tr = t.tr /\ v.at = t.at /\ v.closed /\ v.method = t.method
        /\ v.num = t.num /\ v.size = t.size /\ v.next = t.next /\ v.got = t.got
    BY <2>3 DEF FileTransfers
  <2>5. None(r, {"k"}) /\ None(r, {"F", "!", "Z"}) /\ None(r, {"z"}) /\ Free(r)
    <3>1. None(r, {"k"}) /\ None(r, {"F", "!", "Z"}) /\ Free(r)
      BY <1>1, <2>2
    <3>2. Only(s, p.cmd)
      BY <2>2
    <3>3. None(r, {p.cmd})
      BY <1>1, <3>2
    <3> QED BY <2>2, <3>1, <3>3
  <2>6. Complete(r, v)
    BY <1>2, <2>2, <2>4 DEF Complete
  <2>7. Puts(r, u, v, g)
    BY <2>2, <2>4, <2>5, <2>6 DEF Puts
  <2> QED BY <2>2, <2>4, <2>7 DEF Phase, Ended
<1>7. CASE t.at = "closing"
  <2>1. Closes(s, u, t, g)
    BY <1>7 DEF Phase
  <2>2. /\ t.method = "get" /\ Complete(s, t) /\ None(s, {"F", "!", "z", "k"})
        /\ p.cmd = "Z"
    BY <1>1, <1>2, <2>1 DEF Closes
  <2>3. u = {} /\ Free(s) /\ Only(s, "Z")
    <3>1. ~None(s, {"Z"})
      BY <1>1, <2>2
    <3> QED BY <2>1, <3>1 DEF Closes
  <2>4. v = [t EXCEPT !.at = "done"]
    BY <1>7, <2>2 DEF Received
  <2>5. /\ v \in FileTransfers /\ v.tr = t.tr /\ v.at = "done" /\ v.method = t.method
        /\ v.size = t.size /\ v.got = t.got
    BY <2>4 DEF FileTransfers, Ended
  <2>6. None(r, {"F", "!", "Z", "z"}) /\ None(r, {"k"}) /\ Free(r)
    <3>1. None(r, {"F", "!", "z", "k"}) /\ Free(r)
      BY <1>1, <2>2, <2>3
    <3>2. Only(s, p.cmd)
      BY <2>2, <2>3
    <3>3. None(r, {"Z"})
      BY <1>1, <2>2, <3>2
    <3> QED BY <3>1, <3>3 DEF None
  <2>7. Complete(r, v)
    BY <1>2, <2>2, <2>5 DEF Complete
  <2>8. AtRest(r, u, v, g)
    BY <2>3, <2>5, <2>6, <2>7 DEF AtRest
  <2> QED BY <2>5, <2>8 DEF Phase
<1> QED BY <1>2, <1>3, <1>4, <1>5, <1>6, <1>7 DEF Running

----------------------------------------------------------------------------
(* The steps of the client                                                  *)

LEMMA ReceiveStays ==
  ASSUME FilesInv, NEW p \in packets, Receive(p)
  PROVE  FilesInv'
<1> DEFINE q == [p EXCEPT !.seen = TRUE]
<1>1. /\ ~p.seen /\ packets' = (packets \ {p}) \cup {q} /\ c' = Received(c, p)
      /\ UNCHANGED <<tx, sent, disk, up, gaveUp>>
  BY DEF Receive
<1>2. /\ State \in Servers /\ up \subseteq Messages /\ c \in FileTransfers /\ gaveUp \subseteq Transfers
      /\ Phase(State, up, c, gaveUp) /\ Fresh(State, c, gaveUp)
  BY DEF FilesInv
<1>3. p \in Packets
  BY <1>2 DEF State, Servers
<1>4. q \in Packets /\ q.seen
  BY <1>3 DEF Packets
<1> HIDE DEF q
<1> DEFINE r == State'
           v == c'
<1>5. r.tx = State.tx /\ r.disk = State.disk /\ r.packets = (packets \ {p}) \cup {q}
  BY <1>1 DEF State
<1>6. r \in Servers
  BY <1>1, <1>2, <1>4 DEF State, Servers
<1>7. Unseen(r) = Unseen(State) \ {p}
  BY <1>4, <1>5 DEF Unseen, State
<1>8. v = Received(c, p)
  BY <1>1
<1> HIDE DEF r, v
<1>9. v \in FileTransfers /\ v.tr = c.tr /\ Phase(r, up, v, gaveUp)
  <2>1. CASE p.cmd = "e"
    <3>1. v = c
      BY <1>8, <2>1 DEF Received
    <3>2. Unseen(r) = Unseen(State)
      BY <1>7, <2>1 DEF Unseen
    <3>3. Phase(r, up, c, gaveUp)
      BY <1>2, <1>5, <3>2, PhaseStays
    <3> QED BY <1>2, <3>1, <3>3
  <2>2. CASE p.cmd # "e"
    <3>1. Taken(State, r, p)
      BY <1>1, <1>5, <1>7, <2>2 DEF Taken, Unseen, State
    <3> QED BY <1>2, <1>8, <3>1, ReceivedStays
  <2> QED BY <2>1, <2>2
<1>10. Fresh(r, v, gaveUp)
  BY <1>2, <1>5, <1>9 DEF Fresh
<1>11. State' \in Servers /\ c' \in FileTransfers /\ Phase(State', up, c', gaveUp) /\ Fresh(State', c', gaveUp)
  BY <1>6, <1>9, <1>10 DEF r, v
<1>12. up' = up /\ gaveUp' = gaveUp
  BY <1>1
<1> QED BY <1>2, <1>11, <1>12 DEF FilesInv

\* A step of the client that leaves the server alone.
LEMMA ClientStep ==
  ASSUME FilesInv, UNCHANGED server, c' \in FileTransfers, up' \subseteq Messages,
         gaveUp' \subseteq Transfers, Phase(State, up', c', gaveUp'), Fresh(State, c', gaveUp')
  PROVE  FilesInv'
<1>1. State' = State
  BY DEF State, server
<1> QED BY <1>1 DEF FilesInv

\* SendChunk for a server s, messages u and a transfer t.
LEMMA NextPut ==
  ASSUME NEW s \in Servers, NEW u \in SUBSET Messages, NEW t \in FileTransfers, NEW g,
         Puts(s, u, t, g), t.at = "sending",
         NEW v \in FileTransfers, v.tr = t.tr, v.method = t.method, v.num = t.num,
         v.size = t.size, v.closed = t.closed, v.next = t.next + 1,
         v.at = IF t.next + 1 < t.num THEN "sending" ELSE "waiting",
         NEW m \in Messages, m.cmd = "k", m.tr = t.tr, m.method = t.method,
         m.size = t.size, m.arg = t.next
  PROVE  v.at \in {"sending", "waiting"} /\ Puts(s, u \cup {m}, v, g)
<1>1. /\ Mine(s, t, g) /\ PutGoes(s, u, t) /\ None(s, {"z"}) /\ ~t.closed
      /\ t.method = "put" /\ t.num = t.size /\ None(s, {"F", "!", "Z"}) /\ t.next < t.num
      /\ t.next \in Nat /\ t.num \in Nat /\ t.size \in Nat /\ t.tr \in Transfers
  BY DEF Puts, FileTransfers
<1>2. /\ v.tr = t.tr /\ v.method = "put" /\ v.num = t.num /\ v.size = t.size /\ v.closed = t.closed
      /\ v.next = t.next + 1 /\ v.at = IF t.next + 1 < t.num THEN "sending" ELSE "waiting"
  BY <1>1
<1>3. /\ m.cmd = "k" /\ m.tr = t.tr /\ m.method = "put" /\ m.size = t.size /\ m.arg = t.next
  BY <1>1
<1>4. IF v.at = "sending" THEN v.next < v.num ELSE v.next = v.num
  BY <1>1, <1>2
<1>5. PutGoes(s, u \cup {m}, v)
  <2>1. /\ s.disk[t.tr] \subseteq Contents(t.tr, t.next) /\ t.size \in 1..(ChunkMod - 1)
        /\ s.tx.num + Cardinality(s.disk[t.tr]) = t.size /\ None(s, {"k"})
        /\ \A o \in u : /\ o.cmd = "k" /\ o.tr = t.tr /\ o.method = "put" /\ o.size = t.size
                        /\ o.arg < t.next /\ <<t.tr, o.arg>> \notin s.disk[t.tr]
    BY <1>1 DEF PutGoes
  <2>2. s.disk[t.tr] \subseteq Contents(t.tr, t.next + 1)
    BY <1>1, <2>1, MoreContents
  <2>3. <<t.tr, t.next>> \notin s.disk[t.tr]
    <3>1. t.next \notin 0..(t.next - 1)
      BY <1>1
    <3>2. <<t.tr, t.next>> \notin Contents(t.tr, t.next)
      BY <1>1, <3>1, ContentsIs
    <3> QED BY <2>1, <3>2
  <2>4. \A o \in u \cup {m} :
          /\ o.cmd = "k" /\ o.tr = t.tr /\ o.method = "put" /\ o.size = t.size
          /\ o.arg < t.next + 1 /\ <<t.tr, o.arg>> \notin s.disk[t.tr]
    <3> TAKE o \in u \cup {m}
    <3>1. CASE o = m
      BY <1>1, <1>3, <2>3, <3>1
    <3>2. CASE o \in u
      <4>1. o.arg \in Nat
        BY <3>2 DEF Messages
      <4>2. \A k, j \in Nat : k < j => k < j + 1
        OBVIOUS
      <4> QED BY <1>1, <2>1, <3>2, <4>1, <4>2
    <3> QED BY <3>1, <3>2
  <2>5. v.next <= v.size
    BY <1>1, <1>2
  <2> QED BY <1>2, <2>1, <2>2, <2>4, <2>5 DEF PutGoes
<1>6. Mine(s, v, g)
  BY <1>1, <1>2 DEF Mine
<1> QED BY <1>1, <1>2, <1>4, <1>5, <1>6 DEF Puts

LEMMA SendChunkStays == ASSUME FilesInv, SendChunk PROVE FilesInv'
<1>1. /\ State \in Servers /\ up \in SUBSET Messages /\ c \in FileTransfers /\ gaveUp \subseteq Transfers
      /\ Phase(State, up, c, gaveUp) /\ Fresh(State, c, gaveUp)
  BY DEF FilesInv
<1>2. c.at = "sending" /\ UNCHANGED <<server, gaveUp>>
  BY DEF SendChunk
<1> DEFINE v == c'
           m == [cmd |-> "k", tr |-> v.tr, method |-> v.method, arg |-> c.next, size |-> c.size]
           at == IF c.next + 1 < c.num THEN c.at ELSE "waiting"
<1>3. v = [c EXCEPT !.next = c.next + 1, !.at = at] /\ up' = up \cup {m}
  BY DEF SendChunk, Message
<1>4. Puts(State, up, c, gaveUp)
  BY <1>1, <1>2 DEF Phase
<1>5. at = (IF c.next + 1 < c.num THEN "sending" ELSE "waiting") /\ at \in Ended \cup Running
  BY <1>2 DEF Running
<1>6. c.next + 1 \in Nat
  BY <1>1 DEF FileTransfers
<1> HIDE DEF v, at
<1>7. /\ v \in FileTransfers /\ v.tr = c.tr /\ v.method = c.method /\ v.num = c.num
      /\ v.size = c.size /\ v.closed = c.closed /\ v.next = c.next + 1 /\ v.at = at
  BY <1>1, <1>3, <1>5, <1>6 DEF FileTransfers
<1>8. /\ m \in Messages /\ m.cmd = "k" /\ m.tr = c.tr /\ m.method = c.method
      /\ m.size = c.size /\ m.arg = c.next
  BY <1>1, <1>7 DEF Messages, FileTransfers
<1> HIDE DEF m
<1>9. v.at = IF c.next + 1 < c.num THEN "sending" ELSE "waiting"
  BY <1>5, <1>7
<1>10. v.at \in {"sending", "waiting"} /\ Puts(State, up \cup {m}, v, gaveUp)
  BY <1>1, <1>2, <1>4, <1>7, <1>8, <1>9, NextPut
<1>11. Phase(State, up', v, gaveUp') /\ Fresh(State, v, gaveUp')
  BY <1>1, <1>2, <1>3, <1>7, <1>10 DEF Phase, Ended, Fresh
<1>12. up' \subseteq Messages /\ gaveUp' \subseteq Transfers
  BY <1>1, <1>2, <1>3, <1>8
<1> QED BY <1>2, <1>7, <1>11, <1>12, ClientStep DEF v

LEMMA PutDoneStays == ASSUME FilesInv, PutDone PROVE FilesInv'
<1>1. /\ c \in FileTransfers /\ gaveUp \subseteq Transfers /\ up \subseteq Messages
      /\ Phase(State, up, c, gaveUp) /\ Fresh(State, c, gaveUp)
  BY DEF FilesInv
<1>2. /\ c.at = "waiting" /\ c.closed /\ c' = [c EXCEPT !.at = "done"]
      /\ UNCHANGED <<server, up, gaveUp>>
  BY DEF PutDone
<1>3. /\ Free(State) /\ up = {} /\ Complete(State, c) /\ None(State, {"k"}) /\ None(State, {"z"})
      /\ None(State, {"F", "!", "Z"})
  BY <1>1, <1>2 DEF Phase, Puts
<1> DEFINE v == c'
<1>4. v = [c EXCEPT !.at = "done"]
  BY <1>2
<1> HIDE DEF v
<1>5. /\ v \in FileTransfers /\ v.at = "done" /\ v.tr = c.tr /\ v.method = c.method
      /\ v.size = c.size /\ v.got = c.got
  BY <1>1, <1>4 DEF FileTransfers, Ended
<1>6. Complete(State, v) /\ None(State, {"F", "!", "Z", "z"})
  BY <1>3, <1>5 DEF Complete, None
<1>7. AtRest(State, up, v, gaveUp)
  BY <1>3, <1>5, <1>6 DEF AtRest
<1>8. Phase(State, up', v, gaveUp') /\ Fresh(State, v, gaveUp')
  BY <1>1, <1>2, <1>5, <1>7 DEF Phase, Fresh
<1>9. up' \subseteq Messages /\ gaveUp' \subseteq Transfers
  BY <1>1, <1>2
<1> QED BY <1>2, <1>5, <1>8, <1>9, ClientStep DEF v

\* A get that has received as many chunks as it wants has received all of them.
LEMMA GetIsWhole ==
  ASSUME NEW s \in Servers, NEW u, NEW t \in FileTransfers, NEW g, Gets(s, u, t, g),
         t.count >= t.num
  PROVE  Complete(s, t) /\ s.tx.next = s.tx.num /\ None(s, {"k"})
<1>1. /\ t.num = t.size /\ s.tx.next <= s.tx.num /\ s.tx.num <= t.size /\ t.method = "get"
      /\ t.got \subseteq Contents(t.tr, s.tx.next) /\ t.count = Cardinality(t.got)
      /\ \A p \in Chunks(s, t) : p.arg < s.tx.next /\ <<t.tr, p.arg>> \notin t.got
  BY DEF Gets, GetGoes
<1>2. s.tx.next \in Nat /\ s.tx.num \in Nat /\ t.size \in Nat /\ t.tr \in Transfers
  BY DEF Servers, FileTransfers
<1>3. Cardinality(t.got) \in 0..s.tx.next
      /\ (Cardinality(t.got) = s.tx.next => t.got = Contents(t.tr, s.tx.next))
  BY <1>1, <1>2, SomeContents
<1>4. s.tx.next = s.tx.num /\ s.tx.next = t.size /\ Cardinality(t.got) = s.tx.next
  BY <1>1, <1>2, <1>3
<1>5. t.got = Contents(t.tr, t.size)
  BY <1>3, <1>4
<1>6. Complete(s, t)
  BY <1>1, <1>5 DEF Complete
<1>7. \A p \in Unseen(s) : p.cmd # "k"
  <2> SUFFICES ASSUME NEW p \in Unseen(s), p.cmd = "k" PROVE FALSE
    OBVIOUS
  <2>1. p \in Chunks(s, t) /\ p.arg \in Nat
    BY DEF Chunks, Unseen, Servers, Packets
  <2>2. p.arg \in 0..(t.size - 1) /\ <<t.tr, p.arg>> \notin t.got
    BY <1>1, <1>2, <1>4, <2>1
  <2>3. <<t.tr, p.arg>> \in Contents(t.tr, t.size)
    BY <1>2, <2>2, ContentsIs
  <2> QED BY <1>5, <2>2, <2>3
<1> QED BY <1>4, <1>6, <1>7 DEF None

LEMMA GetDoneStays == ASSUME FilesInv, GetDone PROVE FilesInv'
<1>1. /\ State \in Servers /\ c \in FileTransfers /\ gaveUp \subseteq Transfers
      /\ up \subseteq Messages /\ Phase(State, up, c, gaveUp) /\ Fresh(State, c, gaveUp)
  BY DEF FilesInv
<1> DEFINE v == c'
           m == [cmd |-> "z", tr |-> v.tr, method |-> v.method, arg |-> 0, size |-> c.size]
<1>2. /\ c.at = "receiving" /\ c.count >= c.num /\ v = [c EXCEPT !.at = "closing"]
      /\ UNCHANGED <<server, gaveUp>> /\ up' = up \cup {m}
  BY DEF GetDone, Message
<1>3. Gets(State, up, c, gaveUp)
  BY <1>1, <1>2 DEF Phase
<1>4. /\ up = {} /\ c.method = "get" /\ None(State, {"F", "!", "Z", "z"}) /\ Mine(State, c, gaveUp)
      /\ Complete(State, c) /\ State.tx.next = State.tx.num /\ None(State, {"k"})
  BY <1>1, <1>2, <1>3, GetIsWhole DEF Gets
<1> HIDE DEF v
<1>5. /\ v \in FileTransfers /\ v.at = "closing" /\ v.tr = c.tr /\ v.method = c.method
      /\ v.size = c.size /\ v.got = c.got
  BY <1>1, <1>2 DEF FileTransfers, Running
<1>6. m \in Messages /\ m.cmd = "z" /\ m.tr = v.tr
  BY <1>1, <1>5 DEF Messages, FileTransfers
<1> HIDE DEF m
<1>7. /\ Complete(State, v) /\ Mine(State, v, gaveUp)
      /\ None(State, {"F", "!", "z", "k"}) /\ None(State, {"Z"})
  BY <1>4, <1>5 DEF Complete, Mine, None
<1>8. Closes(State, up', v, gaveUp)
  BY <1>2, <1>4, <1>5, <1>6, <1>7 DEF Closes
<1>9. Phase(State, up', v, gaveUp') /\ Fresh(State, v, gaveUp')
  BY <1>1, <1>2, <1>5, <1>8 DEF Phase, Fresh, Ended
<1>10. up' \subseteq Messages /\ gaveUp' \subseteq Transfers
  BY <1>1, <1>2, <1>6
<1> QED BY <1>2, <1>5, <1>9, <1>10, ClientStep DEF v

LEMMA AbortStays == ASSUME PutsComplete, FilesInv, Abort PROVE FilesInv'
<1>1. /\ State \in Servers /\ c \in FileTransfers /\ gaveUp \subseteq Transfers
      /\ up \subseteq Messages /\ Phase(State, up, c, gaveUp) /\ Fresh(State, c, gaveUp)
  BY DEF FilesInv
<1> DEFINE v == c'
           g == gaveUp'
<1>2. /\ c.method \in Aborts /\ c.at \in {"receiving", "waiting"}
      /\ v = [c EXCEPT !.at = "timedOut"] /\ g = gaveUp \cup {c.tr} /\ UNCHANGED <<server, up>>
  BY DEF Abort, StillWaits
<1>3. c.method # "put"
  BY <1>2 DEF PutsComplete
<1>4. Gets(State, up, c, gaveUp)
  BY <1>1, <1>2, <1>3 DEF Phase, Puts
<1> HIDE DEF v, g
<1>5. v \in FileTransfers /\ v.at = "timedOut" /\ v.tr = c.tr
  BY <1>1, <1>2 DEF FileTransfers, Ended
<1>6. c.tr \in Transfers
  BY <1>1 DEF FileTransfers
<1>7. Clear(State, g)
  BY <1>2, <1>4 DEF Gets, Mine, Clear, Stuck
<1>8. AtRest(State, up, v, g)
  BY <1>4, <1>5, <1>7 DEF Gets, AtRest
<1>9. Phase(State, up', v, g)
  BY <1>2, <1>5, <1>8 DEF Phase
<1>10. Fresh(State, v, g)
  <2>1. \A i \in Transfers : i > c.tr => i # c.tr
    BY <1>6 DEF Transfers
  <2> QED BY <1>1, <1>2, <1>5, <2>1 DEF Fresh
<1>11. up' \subseteq Messages /\ g \subseteq Transfers
  BY <1>1, <1>2, <1>6
<1> QED BY <1>2, <1>5, <1>9, <1>10, <1>11, ClientStep DEF v, g

LEMMA NewIs ==
  ASSUME NEW i \in Transfers, NEW method \in {"get", "put"}, NEW size \in Nat,
         NEW v, v = NewTransfer(i, method, size)
  PROVE  /\ v \in FileTransfers /\ v.at = "opening" /\ v.tr = i /\ v.method = method
         /\ v.size = size /\ v.got = {} /\ v.count = 0 /\ v.next = 0 /\ v.queue = {} /\ ~v.closed
<1>1. v = [at |-> "opening", tr |-> i, method |-> method, size |-> size, num |-> 0,
           next |-> 0, got |-> {}, count |-> 0, queue |-> {}, closed |-> FALSE]
  BY DEF NewTransfer
<1>2. v \in FileTransfers
  BY <1>1 DEF FileTransfers, Running
<1> QED BY <1>1, <1>2

\* A request of a transfer that is new on both sides.
LEMMA NewOpens ==
  ASSUME NEW s \in Servers, NEW t \in FileTransfers, NEW g, AtRest(s, {}, t, g), Fresh(s, t, g),
         t.at \in Ended, NEW i \in Transfers, i = t.tr + 1,
         NEW method \in {"get", "put"}, NEW size \in Nat, NEW v, v = NewTransfer(i, method, size),
         NEW m \in Messages, m.cmd = "f", m.tr = i, m.method = method,
         size = Asked(m.arg, m.size), SmallFiles => m.arg < ChunkMod - 1,
         method = "put" => m.arg = size /\ m.size = size /\ size > 0
  PROVE  v \in FileTransfers /\ Phase(s, {m}, v, g) /\ Fresh(s, v, g)
<1>1. /\ v.at = "opening" /\ v.tr = i /\ v.method = method /\ v.size = size /\ v.got = {}
      /\ v.count = 0 /\ v.next = 0 /\ v.queue = {} /\ ~v.closed /\ v \in FileTransfers
  BY NewIs
<1>2. t.tr \in Transfers /\ i > t.tr
  BY DEF FileTransfers, Transfers
<1>3. s.disk[i] = {} /\ i \notin g /\ Fresh(s, v, g)
  <2>1. \A j \in Transfers : j > i => j > t.tr
    BY <1>2 DEF Transfers
  <2> QED BY <1>1, <1>2, <2>1 DEF Fresh
<1>4. None(s, {"F", "!", "Z", "z"}) /\ Clear(s, g)
  BY DEF AtRest, Ended, Clear
<1>5. None(s, {"F", "!"}) /\ None(s, {"Z", "z"})
  BY <1>4 DEF None
<1>6. Requested(s, {m}, v, g)
  BY <1>1, <1>4, <1>5 DEF Requested
<1>7. Opens(s, {m}, v, g)
  BY <1>1, <1>3, <1>5, <1>6 DEF Opens
<1> QED BY <1>1, <1>3, <1>7 DEF Phase, Ended

LEMMA StartStays == ASSUME PutsComplete, FilesInv, Start PROVE FilesInv'
<1>1. /\ State \in Servers /\ c \in FileTransfers /\ gaveUp \subseteq Transfers
      /\ up \subseteq Messages /\ Phase(State, up, c, gaveUp) /\ Fresh(State, c, gaveUp)
  BY DEF FilesInv
<1>2. /\ c.at \in Ended /\ c.tr + 1 \in Transfers /\ UNCHANGED <<server, gaveUp>>
      /\ AtRest(State, up, c, gaveUp) /\ up = {} /\ AtRest(State, {}, c, gaveUp)
  <2>1. c.at \in Ended /\ c.tr < MaxTransfers /\ UNCHANGED <<server, gaveUp>>
    BY DEF Start
  <2>2. c.tr + 1 \in Transfers
    BY <1>1, <2>1, FileSizes DEF FileTransfers, Transfers
  <2>3. AtRest(State, up, c, gaveUp)
    BY <1>1, <2>1 DEF Phase
  <2>4. up = {}
    BY <2>3 DEF AtRest
  <2> QED BY <2>1, <2>2, <2>3, <2>4
<1> DEFINE i == c.tr + 1
<1>3. ASSUME NEW method \in {"get", "put"}, NEW size \in Nat, NEW arg \in Nat, NEW all \in Nat,
             c' = NewTransfer(i, method, size), up' = up \cup {Message("f", arg, all)},
             size = Asked(arg, all), SmallFiles => arg < ChunkMod - 1,
             method = "put" => arg = size /\ all = size /\ size > 0
      PROVE  FilesInv'
  <2> DEFINE v == c'
             m == [cmd |-> "f", tr |-> v.tr, method |-> v.method, arg |-> arg, size |-> all]
  <2>1. v = NewTransfer(i, method, size) /\ up' = {m}
    BY <1>2, <1>3 DEF Message
  <2> HIDE DEF v, i
  <2>2. i \in Transfers /\ i = c.tr + 1
    BY <1>2 DEF i
  <2>3. v.tr = i /\ v.method = method
    BY <2>1 DEF NewTransfer
  <2>4. /\ m \in Messages /\ m.cmd = "f" /\ m.tr = i /\ m.method = method
        /\ m.arg = arg /\ m.size = all
    BY <2>2, <2>3 DEF Messages
  <2> HIDE DEF m
  <2>5. size = Asked(m.arg, m.size) /\ (SmallFiles => m.arg < ChunkMod - 1)
        /\ (method = "put" => m.arg = size /\ m.size = size /\ size > 0)
    BY <1>3, <2>4
  <2>6. v \in FileTransfers /\ Phase(State, {m}, v, gaveUp) /\ Fresh(State, v, gaveUp)
    BY <1>1, <1>2, <2>1, <2>2, <2>4, <2>5, NewOpens
  <2>7. Phase(State, up', v, gaveUp') /\ Fresh(State, v, gaveUp')
    BY <1>2, <2>1, <2>6
  <2>8. up' \subseteq Messages /\ gaveUp' \subseteq Transfers
    BY <1>1, <1>2, <2>1, <2>4
  <2> QED BY <1>2, <2>6, <2>7, <2>8, ClientStep DEF v
<1>4. ASSUME NEW size \in GetSizes, NEW arg \in GetSizes \cup {0},
             c' = NewTransfer(i, "get", Asked(arg, size)),
             up' = up \cup {Message("f", arg, size)}
      PROVE  FilesInv'
  <2>1. size \in Nat /\ arg \in Nat /\ Asked(arg, size) \in Nat
    BY FileSizes, AskedIs
  <2>2. SmallFiles => arg < ChunkMod - 1
    BY FileSizes DEF SmallFiles
  <2> HIDE DEF i
  <2> QED BY <1>3, <1>4, <2>1, <2>2
<1>5. ASSUME NEW size \in PutSizes,
             c' = NewTransfer(i, "put", size), up' = up \cup {Message("f", size, size)}
      PROVE  FilesInv'
  <2>1. size \in Nat /\ size > 0 /\ Asked(size, size) = size
    BY FileSizes, AskedIs DEF PutsComplete
  <2>2. SmallFiles => size < ChunkMod - 1
    BY DEF SmallFiles
  <2> HIDE DEF i
  <2> QED BY <1>3, <1>5, <2>1, <2>2
<1> QED BY <1>4, <1>5 DEF Start

----------------------------------------------------------------------------
(* The invariant, and what it says of the client                            *)

LEMMA InitFiles == ASSUME Init PROVE FilesInv
<1>1. 0 \in Transfers
  BY FileSizes DEF Transfers
<1>2. c = [at |-> "idle", tr |-> 0, method |-> "get", size |-> 0, num |-> 0,
           next |-> 0, got |-> {}, count |-> 0, queue |-> {}, closed |-> FALSE]
  BY DEF Init, NewTransfer
<1>3. c \in FileTransfers /\ c.at = "idle" /\ c.tr = 0
  BY <1>1, <1>2 DEF FileTransfers, Ended
<1>4. /\ State.tx = [mode |-> "unused", num |-> 0, next |-> 0, of |-> 0]
      /\ State.packets = {} /\ State.sent = 0 /\ State.disk = [i \in Transfers |-> {}]
      /\ State = [tx |-> State.tx, packets |-> State.packets, sent |-> State.sent,
                  disk |-> State.disk]
  BY DEF Init, State
<1>5. State \in Servers
  BY <1>1, <1>4 DEF Servers
<1>6. Unseen(State) = {} /\ Free(State)
  BY <1>4 DEF Unseen, Free
<1>7. up = {} /\ gaveUp = {}
  BY DEF Init
<1>8. AtRest(State, up, c, gaveUp)
  BY <1>3, <1>6, <1>7 DEF AtRest, None
<1>9. Fresh(State, c, gaveUp)
  BY <1>4, <1>7 DEF Fresh
<1> QED BY <1>3, <1>5, <1>7, <1>8, <1>9 DEF FilesInv, Phase

LEMMA StepFiles == ASSUME PutsComplete, FilesInv, [Next]_vars PROVE FilesInv'
<1>1. CASE (\E m \in up : WorkMessage(m)) \/ CheckAckHeaders \/ Work \/ Event
  BY <1>1, ServerStays
<1>2. CASE \E p \in packets : Receive(p)
  BY <1>2, ReceiveStays
<1>3. CASE SendChunk
  BY <1>3, SendChunkStays
<1>4. CASE PutDone
  BY <1>4, PutDoneStays
<1>5. CASE GetDone
  BY <1>5, GetDoneStays
<1>6. CASE Start
  BY <1>6, StartStays
<1>7. CASE Abort
  BY <1>7, AbortStays
<1>8. CASE UNCHANGED vars
  BY <1>8 DEF vars, server, FilesInv, State, Phase, AtRest, Opens, Requested, Turned, Granted,
    Gets, Puts, Closes, Fresh
<1> QED BY <1>1, <1>2, <1>3, <1>4, <1>5, <1>6, <1>7, <1>8 DEF Next, Transferring

THEOREM FilesAreTransferred == PutsComplete /\ Spec => []FilesInv
<1> SUFFICES ASSUME PutsComplete PROVE Spec => []FilesInv
  OBVIOUS
<1>1. Init => FilesInv
  BY InitFiles
<1>2. FilesInv /\ [Next]_vars => FilesInv'
  BY StepFiles
<1> QED BY <1>1, <1>2, PTL DEF Spec

(* What the client reports as done has every chunk of the file, whatever    *)
(* the order the packets and the chunks came in: doPutFile relies on the     *)
(* server's close, doGetFile on a count of what it has put in the file.      *)
THEOREM DoneFilesAreComplete == PutsComplete /\ Spec => []DoneIsComplete
<1>1. FilesInv => DoneIsComplete
  <2> SUFFICES ASSUME FilesInv, c.at = "done"
               PROVE  Contents(c.tr, c.size) = IF c.method = "put" THEN disk[c.tr] ELSE c.got
    BY DEF DoneIsComplete
  <2>1. AtRest(State, up, c, gaveUp)
    BY DEF FilesInv, Phase, Ended
  <2>2. Complete(State, c)
    BY <2>1 DEF AtRest
  <2> QED BY <2>2 DEF Complete, State
<1> QED BY <1>1, FilesAreTransferred, PTL

(* A server that refuses a file has the get the client gave up on: each      *)
(* other transfer has freed it by the time the next can ask.                 *)
THEOREM NextFileIsAccepted == PutsComplete /\ SmallFiles /\ Spec => []NextIsAccepted
<1> SUFFICES ASSUME SmallFiles PROVE PutsComplete /\ Spec => []NextIsAccepted
  OBVIOUS
<1>1. FilesInv => NextIsAccepted
  <2> SUFFICES ASSUME FilesInv, c.at = "refused" PROVE tx.of \in gaveUp
    BY DEF NextIsAccepted
  <2>1. AtRest(State, up, c, gaveUp)
    BY DEF FilesInv, Phase, Ended
  <2>2. Stuck(State, gaveUp)
    BY <2>1 DEF AtRest
  <2> QED BY <2>2 DEF Stuck, State
<1> QED BY <1>1, FilesAreTransferred, PTL
=============================================================================
