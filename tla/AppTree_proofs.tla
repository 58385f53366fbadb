--------------------------- MODULE AppTree_proofs ---------------------------
(***************************************************************************)
(* That the table of components stays one tree, that links stay paired,    *)
(* and that what is saved can be loaded, for any number of components,     *)
(* names, slots and clients, if clients reorder the children there are.    *)
(***************************************************************************)
EXTENDS AppTree, FiniteSetTheorems, SequenceTheorems, TLAPS

CurrentReorders == ~StaleReorders

\* A table whose components are one tree. The last conjunct says that the App
\* reaches all of them, the one before that no entry is outside the lists.
Used(t) == {id \in Ids : t[id] # Null}
Serving(t) == {id \in Used(t) : t[id].service}
ListIn(t) == [id \in Ids |-> IF t[id] = Null THEN << >> ELSE t[id].children]
Tree(t) ==
  /\ t \in [Ids -> Components \cup {Null}] /\ App \in Used(t)
  /\ \A p \in Used(t) :
       /\ IsInjective(t[p].children)
       /\ \A x \in Range(t[p].children) : x \in Used(t) \ {App} /\ t[x].parent = p
  /\ \A x \in Used(t) \ {App} : t[x].parent \in Used(t) /\ x \in Range(t[t[x].parent].children)
  /\ \A S \in SUBSET Ids : App \in S /\ Closed(ListIn(t), S) => Used(t) \subseteq S

----------------------------------------------------------------------------
LEMMA IdsAre == App \in Ids /\ Root \in Components /\ Null \notin Components
  BY AppTreeAssumption DEF Ids, App, Root, Components

\* Lists of children
LEMMA RangeOf ==
  ASSUME NEW s \in Seq(Ids)
  PROVE  /\ Range(s) \subseteq Ids
         /\ \A x : x \in Range(s) <=> \E i \in 1..Len(s) : s[i] = x
  BY DEF Range

LEMMA AppendedList ==
  ASSUME NEW s \in Seq(Ids), IsInjective(s), NEW id \in Ids, id \notin Range(s)
  PROVE  /\ Append(s, id) \in Seq(Ids) /\ IsInjective(Append(s, id))
         /\ Range(Append(s, id)) = Range(s) \cup {id}
<1>1. /\ Append(s, id) \in Seq(Ids) /\ Len(Append(s, id)) = Len(s) + 1
      /\ \A i \in 1..Len(s) : Append(s, id)[i] = s[i]
      /\ Append(s, id)[Len(s) + 1] = id
  OBVIOUS
<1>2. Len(s) \in Nat
  OBVIOUS
<1>3. IsInjective(Append(s, id))
  BY <1>1, <1>2 DEF IsInjective, Range
<1>4. Range(Append(s, id)) = Range(s) \cup {id}
  BY <1>1, <1>2 DEF Range
<1> QED BY <1>1, <1>3, <1>4

LEMMA UnlistedList ==
  ASSUME NEW s \in Seq(Ids), IsInjective(s), NEW c \in Range(s)
  PROVE  /\ Unlist(s, c) \in Seq(Ids) /\ IsInjective(Unlist(s, c))
         /\ Range(Unlist(s, c)) = Range(s) \ {c}
<1>1. Contains(s, c) /\ \E i \in DOMAIN s : s[i] = c
  BY DEF Contains, Range
<1> DEFINE k == CHOOSE i \in DOMAIN s : s[i] = c
           u == RemoveAt(s, k)
<1>2. k \in 1..Len(s) /\ s[k] = c /\ Unlist(s, c) = u
  BY <1>1 DEF Unlist
<1> HIDE DEF k
<1>3. /\ u \in Seq(Ids) /\ Len(u) = Len(s) - 1
      /\ \A i \in 1..(Len(s) - 1) : u[i] = IF i < k THEN s[i] ELSE s[i + 1]
  <2>1. Len(s) \in Nat /\ \A i \in 1..Len(s) : s[i] \in Ids
    OBVIOUS
  <2>2. /\ SubSeq(s, 1, k - 1) \in Seq(Ids) /\ Len(SubSeq(s, 1, k - 1)) = k - 1
        /\ \A i \in 1..(k - 1) : SubSeq(s, 1, k - 1)[i] = s[i]
    BY <1>2, <2>1
  <2>3. /\ SubSeq(s, k + 1, Len(s)) \in Seq(Ids) /\ Len(SubSeq(s, k + 1, Len(s))) = Len(s) - k
        /\ \A i \in 1..(Len(s) - k) : SubSeq(s, k + 1, Len(s))[i] = s[k + i]
    BY <1>2, <2>1
  <2> DEFINE a == SubSeq(s, 1, k - 1)
             b == SubSeq(s, k + 1, Len(s))
  <2>4. u = a \o b
    BY DEF RemoveAt
  <2> HIDE DEF a, b, u
  <2>5. /\ a \o b \in Seq(Ids) /\ Len(a \o b) = Len(a) + Len(b)
        /\ \A i \in 1..(Len(a) + Len(b)) : (a \o b)[i] = IF i <= Len(a) THEN a[i] ELSE b[i - Len(a)]
    BY <2>2, <2>3, ConcatProperties DEF a, b
  <2>6. /\ Len(a) = k - 1 /\ Len(b) = Len(s) - k
        /\ \A i \in 1..(k - 1) : a[i] = s[i]
        /\ \A i \in 1..(Len(s) - k) : b[i] = s[k + i]
    BY <2>2, <2>3 DEF a, b
  <2>7. u \in Seq(Ids) /\ Len(u) = Len(s) - 1
    BY <1>2, <2>1, <2>4, <2>5, <2>6
  <2>8. ASSUME NEW i \in 1..(Len(s) - 1) PROVE u[i] = IF i < k THEN s[i] ELSE s[i + 1]
    <3>1. u[i] = IF i <= k - 1 THEN a[i] ELSE b[i - (k - 1)]
      <4>1. i \in 1..(Len(a) + Len(b))
        BY <1>2, <2>1, <2>6
      <4>2. u[i] = IF i <= Len(a) THEN a[i] ELSE b[i - Len(a)]
        BY <2>4, <2>5, <4>1
      <4> QED BY <2>6, <4>2
    <3>2. CASE i < k
      BY <1>2, <2>1, <2>6, <3>1, <3>2
    <3>3. CASE i >= k
      <4>1. i - (k - 1) \in 1..(Len(s) - k) /\ k + (i - (k - 1)) = i + 1
        BY <1>2, <2>1, <3>3
      <4> QED BY <1>2, <2>6, <3>1, <3>3, <4>1
    <3> QED BY <1>2, <3>2, <3>3
  <2> QED BY <2>7, <2>8
<1> HIDE DEF u
<1>4. /\ Len(s) \in Nat /\ DOMAIN s = 1..Len(s) /\ DOMAIN u = 1..(Len(s) - 1)
      /\ \A i, j \in 1..Len(s) : s[i] = s[j] => i = j
  BY <1>2, <1>3 DEF IsInjective
<1>5. IsInjective(u)
  <2>1. ASSUME NEW i \in 1..(Len(s) - 1), NEW j \in 1..(Len(s) - 1), u[i] = u[j] PROVE i = j
    <3> DEFINE at(n) == IF n < k THEN n ELSE n + 1
    <3>1. at(i) \in 1..Len(s) /\ at(j) \in 1..Len(s) /\ u[i] = s[at(i)] /\ u[j] = s[at(j)]
      BY <1>2, <1>3, <1>4
    <3>2. at(i) = at(j)
      <4> HIDE DEF at
      <4> QED BY <1>4, <2>1, <3>1
    <3> QED BY <3>2, <1>2, <1>4
  <2> QED BY <2>1, <1>4 DEF IsInjective
<1>6. Range(u) = Range(s) \ {c}
  <2>1. Len(s) \in Nat /\ DOMAIN s = 1..Len(s) /\ DOMAIN u = 1..(Len(s) - 1)
    BY <1>4
  <2>2. ASSUME NEW i \in 1..(Len(s) - 1) PROVE u[i] \in Range(s) \ {c}
    <3> DEFINE j == IF i < k THEN i ELSE i + 1
    <3>1. j \in 1..Len(s) /\ u[i] = s[j] /\ j # k
      BY <1>2, <1>3, <2>1
    <3> HIDE DEF j
    <3> QED BY <1>2, <1>4, <3>1 DEF Range
  <2>3. ASSUME NEW j \in 1..Len(s), s[j] # c PROVE s[j] \in Range(u)
    <3>1. CASE j < k
      <4>1. j \in 1..(Len(s) - 1) /\ u[j] = s[j]
        BY <1>2, <1>3, <2>1, <3>1
      <4> QED BY <4>1, <2>1 DEF Range
    <3>2. CASE j > k
      <4>1. j - 1 \in 1..(Len(s) - 1) /\ u[j - 1] = s[j]
        BY <1>2, <1>3, <2>1, <3>2
      <4> QED BY <4>1, <2>1 DEF Range
    <3> QED BY <1>2, <2>1, <2>3, <3>1, <3>2
  <2>4. \A x : x \in Range(u) <=> \E i \in 1..(Len(s) - 1) : u[i] = x
    BY <2>1 DEF Range
  <2>5. \A x : x \in Range(s) <=> \E i \in 1..Len(s) : s[i] = x
    BY <2>1 DEF Range
  <2> QED BY <2>2, <2>3, <2>4, <2>5
<1> QED BY <1>2, <1>3, <1>5, <1>6

LEMMA OrderedList ==
  ASSUME NEW s \in Seq(Ids), IsInjective(s), NEW t \in Orders(s)
  PROVE  t \in Seq(Ids) /\ IsInjective(t) /\ Range(t) = Range(s)
<1>1. /\ t \in [1..Len(s) -> Range(s)] /\ Range(t) = Range(s)
      /\ Len(s) \in Nat /\ Range(s) \subseteq Ids
  BY RangeOf DEF Orders
<1>2. t \in Seq(Ids)
  BY <1>1
<1>3. IsFiniteSet(1..Len(s))
  BY <1>1, FS_Interval
<1>4. s \in Surjection(1..Len(s), Range(s)) /\ s \in Injection(1..Len(s), Range(s))
  BY DEF Surjection, Injection, Range
<1>5. t \in Surjection(1..Len(s), Range(s))
  BY <1>1 DEF Surjection, Range
<1>6. Cardinality(Range(s)) = Cardinality(1..Len(s))
  BY <1>3, <1>4, FS_Surjection
<1>7. t \in Injection(1..Len(s), Range(s))
  BY <1>3, <1>5, <1>6, FS_Surjection
<1> QED BY <1>1, <1>2, <1>7 DEF Injection

----------------------------------------------------------------------------
(* Induction. Subsets of the naturals have a least element because 1..n     *)
(* shrinks with n and the finite sets are well-founded.                     *)
LEMMA LeastNumber ==
  ASSUME NEW T \in SUBSET Nat, T # {}
  PROVE  \E n \in T : \A m \in T : n <= m
<1> DEFINE R == StrictSubsetOrdering(Nat)
           F == FiniteSubsetsOf(Nat)
           B == {1..n : n \in T}
<1>1. IsWellFoundedOn(R, F)
  BY FS_StrictSubsetOrderingWellFounded
<1>2. \A n \in T : 1..n \in F
  <2> TAKE n \in T
  <2>1. n \in Int /\ 1 \in Int
    OBVIOUS
  <2>2. IsFiniteSet(1..n)
    BY <2>1, FS_Interval
  <2> QED BY <2>2 DEF FiniteSubsetsOf
<1>3. B \subseteq F /\ B # {}
  BY <1>2
<1>4. \E x \in B : \A y \in B : ~(<<y, x>> \in R)
  <2> HIDE DEF R, F, B
  <2> QED BY <1>1, <1>3, WFMin
<1>5. PICK n \in T : \A m \in T : ~(<<1..m, 1..n>> \in R)
  BY <1>4
<1>6. ASSUME NEW m \in T, m < n PROVE FALSE
  <2>1. m \in Nat /\ n \in Nat
    OBVIOUS
  <2>2. 1..m \subseteq 1..n /\ n \in 1..n /\ n \notin 1..m
    BY <1>6, <2>1
  <2>3. 1..m \in SUBSET Nat /\ 1..n \in SUBSET Nat /\ 1..m # 1..n
    BY <2>1, <2>2
  <2> QED BY <1>5, <2>2, <2>3 DEF StrictSubsetOrdering
<1> QED BY <1>6

LEMMA Induction ==
  ASSUME NEW S, 0 \in S, \A n \in Nat : n \in S => n + 1 \in S
  PROVE  Nat \subseteq S
<1> SUFFICES ASSUME Nat \ S # {} PROVE FALSE
  OBVIOUS
<1>1. PICK n \in Nat \ S : \A m \in Nat \ S : n <= m
  BY LeastNumber
<1>2. n - 1 \in Nat /\ n - 1 \notin Nat \ S
  BY <1>1
<1>3. (n - 1) + 1 = n
  OBVIOUS
<1> QED BY <1>2, <1>3

(* Kept is what it says: the choice is never empty.                         *)
LEMMA FollowsInjective ==
  ASSUME NEW s \in Seq(Ids), IsInjective(s), NEW t \in Seq(Ids), Follows(s, t)
  PROVE  IsInjective(t)
<1>1. DOMAIN t = 1..Len(t) /\ Len(t) \in Nat /\ DOMAIN s = 1..Len(s) /\ Len(s) \in Nat
  OBVIOUS
<1>2. ASSUME NEW i \in DOMAIN t, NEW j \in DOMAIN t, i < j PROVE t[i] # t[j]
  <2>1. PICK x \in DOMAIN s, y \in DOMAIN s : x < y /\ t[i] = s[x] /\ t[j] = s[y]
    BY <1>2 DEF Follows
  <2> QED BY <1>1, <2>1 DEF IsInjective
<1> QED BY <1>1, <1>2 DEF IsInjective

LEMMA KeptOfPrefix ==
  ASSUME NEW s \in Seq(Ids), IsInjective(s), NEW S
  PROVE  \A n \in Nat : n <= Len(s) =>
           \E t \in Seq(Ids) : /\ Range(t) = {s[i] : i \in 1..n} \cap S
                               /\ Follows(s, t)
<1> DEFINE Good(t, n) == Range(t) = {s[i] : i \in 1..n} \cap S /\ Follows(s, t)
           G == {n \in Nat : n <= Len(s) => \E t \in Seq(Ids) : Good(t, n)}
<1>0. DOMAIN s = 1..Len(s) /\ Len(s) \in Nat
  OBVIOUS
<1>1. 0 \in G
  <2>1. << >> \in Seq(Ids) /\ Range(<< >>) = {} /\ {s[i] : i \in 1..0} = {}
    BY DEF Range
  <2>2. Follows(s, << >>)
    BY DEF Follows
  <2> QED BY <2>1, <2>2
<1>2. ASSUME NEW n \in Nat, n \in G PROVE n + 1 \in G
  <2> SUFFICES ASSUME n + 1 <= Len(s) PROVE \E t \in Seq(Ids) : Good(t, n + 1)
    OBVIOUS
  <2>1. PICK t \in Seq(Ids) : Good(t, n)
    BY <1>0, <1>2
  <2>2. n + 1 \in DOMAIN s /\ n + 1 \in 1..(n + 1) /\ s[n + 1] \in Ids
    BY <1>0
  <2>3. 1..(n + 1) = 1..n \cup {n + 1}
    OBVIOUS
  <2>4. {s[i] : i \in 1..(n + 1)} = {s[i] : i \in 1..n} \cup {s[n + 1]}
    BY <2>3
  <2>5. CASE s[n + 1] \notin S
    BY <2>1, <2>4, <2>5
  <2>6. CASE s[n + 1] \in S
    <3> DEFINE u == Append(t, s[n + 1])
    <3>1. s[n + 1] \notin Range(t)
      BY <1>0, <2>1, <2>2 DEF IsInjective
    <3>2. IsInjective(t)
      BY <2>1, FollowsInjective
    <3>3. u \in Seq(Ids) /\ Range(u) = Range(t) \cup {s[n + 1]}
      BY <2>2, <3>1, <3>2, AppendedList
    <3>4. Range(u) = {s[i] : i \in 1..(n + 1)} \cap S
      BY <2>1, <2>4, <2>6, <3>3
    <3>5. Follows(s, u)
      <4>1. /\ Len(t) \in Nat /\ DOMAIN t = 1..Len(t) /\ DOMAIN u = 1..(Len(t) + 1)
            /\ \A i \in 1..Len(t) : u[i] = t[i]
            /\ u[Len(t) + 1] = s[n + 1]
        BY <2>2
      <4>2. ASSUME NEW i \in DOMAIN u, NEW j \in DOMAIN u, i < j
            PROVE  \E x, y \in DOMAIN s : x < y /\ u[i] = s[x] /\ u[j] = s[y]
        <5>1. i \in DOMAIN t /\ u[i] = t[i]
          BY <4>1, <4>2
        <5>2. CASE j \in DOMAIN t
          BY <2>1, <4>1, <4>2, <5>1, <5>2 DEF Follows
        <5>3. CASE j = Len(t) + 1
          <6>1. t[i] \in Range(t)
            BY <5>1 DEF Range
          <6>2. PICK x \in 1..n : t[i] = s[x]
            BY <2>1, <6>1
          <6>3. x \in DOMAIN s /\ x < n + 1
            BY <1>0, <2>2
          <6> QED BY <2>2, <4>1, <5>1, <5>3, <6>2, <6>3
        <5> QED BY <4>1, <5>2, <5>3
      <4> HIDE DEF u
      <4> QED BY <4>2 DEF Follows
    <3> QED BY <3>3, <3>4, <3>5
  <2> QED BY <2>5, <2>6
<1> HIDE DEF G
<1>3. Nat \subseteq G
  BY <1>1, <1>2, Induction
<1> QED BY <1>3 DEF G

LEMMA KeptList ==
  ASSUME NEW s \in Seq(Ids), IsInjective(s), NEW S
  PROVE  /\ Kept(s, S) \in Seq(Ids) /\ IsInjective(Kept(s, S))
         /\ Range(Kept(s, S)) = Range(s) \cap S
<1> DEFINE kept == Range(s) \cap S
           c == Cardinality(kept)
<1>1. Len(s) \in Nat /\ Len(s) <= Len(s) /\ {s[i] : i \in 1..Len(s)} = Range(s)
  BY DEF Range
<1>2. PICK t \in Seq(Ids) : Range(t) = kept /\ Follows(s, t)
  BY <1>1, KeptOfPrefix
<1>3. IsInjective(t)
  BY <1>2, FollowsInjective
<1>4. Len(t) = c
  <2>1. Len(t) \in Nat /\ DOMAIN t = 1..Len(t) /\ t \in [1..Len(t) -> kept]
    BY <1>2, SMTT(30) DEF Range
  <2>2. t \in Bijection(1..Len(t), kept)
    BY <1>2, <1>3, <2>1 DEF Bijection, Injection, Surjection, IsInjective, Range
  <2>3. ExistsBijection(1..Len(t), kept)
    BY <2>2 DEF ExistsBijection
  <2> QED BY <2>1, <2>3, FS_CountingElements
<1>5. t \in [1..c -> kept]
  <2>1. t \in [1..Len(t) -> Range(t)]
    BY DEF Range
  <2> HIDE DEF kept, c
  <2> QED BY <1>2, <1>4, <2>1
<1>6. Kept(s, S) = CHOOSE u \in [1..c -> kept] : Range(u) = kept /\ Follows(s, u)
  BY DEF Kept
<1>7. /\ Kept(s, S) \in [1..c -> kept]
      /\ Range(Kept(s, S)) = kept /\ Follows(s, Kept(s, S))
  <2> HIDE DEF kept, c
  <2> QED BY <1>2, <1>5, <1>6
<1>8. c \in Nat /\ kept \subseteq Ids
  BY <1>4, RangeOf
<1>9. Kept(s, S) \in Seq(Ids)
  <2> HIDE DEF kept, c
  <2> QED BY <1>7, <1>8
<1> QED BY <1>7, <1>9, FollowsInjective

LEMMA PrependedList ==
  ASSUME NEW s \in Seq(Ids), IsInjective(s), NEW id \in Ids, id \notin Range(s)
  PROVE  /\ <<id>> \o s \in Seq(Ids) /\ IsInjective(<<id>> \o s)
         /\ Range(<<id>> \o s) = Range(s) \cup {id}
<1> DEFINE u == <<id>> \o s
           n == Len(s)
<1>1. <<id>> \in Seq(Ids) /\ Len(<<id>>) = 1 /\ <<id>>[1] = id
  OBVIOUS
<1>2. /\ u \in Seq(Ids) /\ Len(u) = n + 1
      /\ \A i \in 1..(n + 1) : u[i] = IF i <= 1 THEN id ELSE s[i - 1]
  <2>1. u \in Seq(Ids) /\ Len(u) = 1 + n /\ n \in Nat
    BY <1>1, ConcatProperties
  <2>2. \A i \in 1..(1 + n) : u[i] = IF i <= 1 THEN <<id>>[i] ELSE s[i - 1]
    BY <1>1, ConcatProperties
  <2> HIDE DEF u
  <2> QED BY <1>1, <2>1, <2>2
<1>3. n \in Nat /\ DOMAIN u = 1..(n + 1) /\ DOMAIN s = 1..n
  <2> HIDE DEF u
  <2> QED BY <1>2
<1> HIDE DEF u, n
<1>4. u[1] = id /\ \A i \in 1..n : i + 1 \in 1..(n + 1) /\ u[i + 1] = s[i]
  BY <1>2, <1>3
<1>5. \A i \in 1..(n + 1) : i # 1 => i - 1 \in 1..n /\ u[i] = s[i - 1]
  BY <1>2, <1>3
<1>6. Range(u) = Range(s) \cup {id}
  <2>1. \A x \in Range(u) : x \in Range(s) \cup {id}
    <3> SUFFICES ASSUME NEW i \in 1..(n + 1) PROVE u[i] \in Range(s) \cup {id}
      BY <1>3 DEF Range
    <3>1. CASE i = 1
      BY <1>4, <3>1
    <3>2. CASE i # 1
      BY <1>3, <1>5, <3>2 DEF Range
    <3> QED BY <3>1, <3>2
  <2>2. \A x \in Range(s) : x \in Range(u)
    BY <1>3, <1>4 DEF Range
  <2>3. id \in Range(u)
    BY <1>3, <1>4 DEF Range
  <2> QED BY <2>1, <2>2, <2>3
<1>7. IsInjective(u)
  <2>1. ASSUME NEW i \in 1..(n + 1), NEW j \in 1..(n + 1), u[i] = u[j] PROVE i = j
    <3>1. CASE i = 1 /\ j # 1
      BY <1>3, <1>4, <1>5, <2>1, <3>1 DEF Range
    <3>2. CASE i # 1 /\ j = 1
      BY <1>3, <1>4, <1>5, <2>1, <3>2 DEF Range
    <3>3. CASE i # 1 /\ j # 1
      <4>1. i - 1 = j - 1
        BY <1>3, <1>5, <2>1, <3>3 DEF IsInjective
      <4> QED BY <4>1, <1>3
    <3> QED BY <3>1, <3>2, <3>3
  <2> QED BY <2>1, <1>3 DEF IsInjective
<1> QED BY <1>2, <1>6, <1>7 DEF u

----------------------------------------------------------------------------
\* The components below c: c, and each one whose parent is among them.
LEMMA ListedIn ==
  ASSUME NEW t, Tree(t), NEW p \in Ids, NEW x \in Range(ListIn(t)[p])
  PROVE  p \in Used(t) /\ x \in Used(t) \ {App} /\ t[x].parent = p /\ x \in Range(t[p].children)
<1>1. Range(<< >>) = {}
  BY DEF Range
<1> QED BY <1>1 DEF Tree, Used, ListIn

LEMMA SubtreeIs ==
  ASSUME NEW t, Tree(t), NEW c \in Used(t) \ {App}
  PROVE  LET R == Subtree(ListIn(t), c)
         IN  /\ c \in R /\ R \subseteq Ids \ {App}
             /\ Closed(ListIn(t), R)
             /\ \A y \in R : y # c => y \in Used(t) /\ t[y].parent \in R
<1> DEFINE L == ListIn(t)
           R == Subtree(L, c)
<1>1. \A p \in Ids, x \in Ids : x \in Range(L[p]) => x \in Used(t) \ {App} /\ t[x].parent = p
  BY ListedIn
<1>2. \A p \in Ids : Range(L[p]) \subseteq Ids \ {App}
  BY ListedIn DEF Used
<1>3. c \in Ids
  BY DEF Used
<1> HIDE DEF L
<1>4. c \in R /\ R \subseteq Ids
  BY <1>3 DEF Subtree
<1>5. Closed(L, R)
  BY <1>2 DEF Subtree, Closed
<1>6. App \notin R
  <2>1. c \in Ids \ {App} /\ Closed(L, Ids \ {App})
    BY <1>2, <1>3 DEF Closed
  <2> QED BY <2>1 DEF Subtree
<1>7. ASSUME NEW y \in R, y # c PROVE y \in Used(t) /\ t[y].parent \in R
  <2>1. R \ {y} \in SUBSET Ids /\ c \in R \ {y} /\ y \notin R \ {y}
    BY <1>4, <1>7
  <2>2. ~Closed(L, R \ {y})
    BY <2>1, <1>4 DEF Subtree
  <2>3. PICK p \in R \ {y} : ~(Range(L[p]) \subseteq R \ {y})
    BY <2>2 DEF Closed
  <2>4. Range(L[p]) \subseteq R
    BY <1>5, <2>3 DEF Closed
  <2>5. y \in Range(L[p])
    BY <2>3, <2>4
  <2> QED BY <2>3, <2>5, <1>1, <1>4
<1> QED BY <1>4, <1>5, <1>6, <1>7 DEF L

----------------------------------------------------------------------------
(* What the operations make of the table                                    *)

LEMMA ListInIs ==
  ASSUME NEW t, NEW x \in Ids
  PROVE  ListIn(t)[x] = IF x \in Used(t) THEN t[x].children ELSE << >>
BY DEF ListIn, Used

LEMMA NewTree ==
  LET t == [id \in Ids |-> IF id = App THEN Root ELSE Null] IN Tree(t) /\ Used(t) = {App}
<1> DEFINE t == [id \in Ids |-> IF id = App THEN Root ELSE Null]
<1>1. Used(t) = {App} /\ t[App] = Root
  BY IdsAre DEF Used
<1>2. t \in [Ids -> Components \cup {Null}]
  BY IdsAre
<1>3. Root.children = << >> /\ Range(<< >>) = {} /\ IsInjective(<< >>)
  BY DEF Root, Range, IsInjective
<1> HIDE DEF t
<1> QED BY <1>1, <1>2, <1>3 DEF Tree, t

LEMMA AddedTree ==
  ASSUME NEW t, Tree(t), NEW p \in Used(t), NEW id \in Ids \ Used(t),
         NEW new \in Components, new.parent = p, new.children = << >>,
         NEW u, u = [x \in Ids |->
           IF x = p THEN [t[p] EXCEPT !.children = Append(t[p].children, id)]
           ELSE IF x = id THEN new
           ELSE t[x]]
  PROVE  /\ Tree(u) /\ Used(u) = Used(t) \cup {id}
         /\ new.service => Serving(u) = Serving(t) \cup {id}
         /\ ~new.service => Serving(u) = Serving(t)
<1>0. t \in [Ids -> Components \cup {Null}] /\ p \in Ids /\ t[p] # Null /\ p # id
  BY DEF Tree, Used
<1>1. /\ p \in Ids /\ p # id /\ t[p] \in Components /\ t[p].children \in Seq(Ids)
      /\ new \in Components /\ new # Null /\ t \in [Ids -> Components \cup {Null}]
  <2>1. t[p] \in Components
    BY <1>0
  <2>2. t[p].children \in Seq(Ids)
    BY <2>1 DEF Components
  <2>3. new # Null
    BY IdsAre
  <2> QED BY <1>0, <2>1, <2>2, <2>3
<1>2. IsInjective(t[p].children) /\ id \notin Range(t[p].children)
  BY DEF Tree
<1> DEFINE kids == Append(t[p].children, id)
<1>3. kids \in Seq(Ids) /\ IsInjective(kids) /\ Range(kids) = Range(t[p].children) \cup {id}
  BY <1>1, <1>2, AppendedList
<1>4. u = [x \in Ids |-> IF x = p THEN [t[p] EXCEPT !.children = kids]
                         ELSE IF x = id THEN new ELSE t[x]]
  OBVIOUS
<1> HIDE DEF kids
<1>5. [t[p] EXCEPT !.children = kids] \in Components
  BY <1>1, <1>3 DEF Components
<1>6. /\ [t[p] EXCEPT !.children = kids].children = kids
      /\ [t[p] EXCEPT !.children = kids].parent = t[p].parent
      /\ [t[p] EXCEPT !.children = kids].service = t[p].service
  BY <1>1 DEF Components
<1>7. /\ u \in [Ids -> Components \cup {Null}]
      /\ u[id] = new /\ u[p] # Null /\ u[p].children = kids /\ u[p].parent = t[p].parent
      /\ u[p].service = t[p].service
      /\ \A x \in Ids \ {p, id} : u[x] = t[x]
  <2> DEFINE entry == [t[p] EXCEPT !.children = kids]
  <2>1. /\ entry \in Components /\ entry.children = kids /\ entry.parent = t[p].parent
        /\ entry.service = t[p].service
        /\ u = [x \in Ids |-> IF x = p THEN entry ELSE IF x = id THEN new ELSE t[x]]
    BY <1>4, <1>5, <1>6
  <2> HIDE DEF entry
  <2>2. entry # Null
    BY <2>1, IdsAre
  <2>3. u \in [Ids -> Components \cup {Null}] /\ u[p] = entry /\ u[id] = new
    <3>1. \A x \in Ids : t[x] \in Components \cup {Null}
      BY <1>1
    <3>2. u \in [Ids -> Components \cup {Null}]
      BY <2>1, <3>1
    <3> QED BY <2>1, <3>2, <1>0
  <2>4. \A x \in Ids \ {p, id} : u[x] = t[x]
    BY <2>1
  <2> QED BY <2>1, <2>2, <2>3, <2>4
<1>8. Used(u) = Used(t) \cup {id}
  BY <1>1, <1>7 DEF Used
<1>9. /\ new.parent = p /\ new.children = << >> /\ Range(<< >>) = {} /\ IsInjective(<< >>)
  BY DEF Range, IsInjective
<1>10. \A x \in Used(t) : u[x].parent = t[x].parent
  BY <1>1, <1>7 DEF Used
<1>11. ASSUME NEW q \in Used(u)
       PROVE  /\ IsInjective(u[q].children)
              /\ \A x \in Range(u[q].children) : x \in Used(u) \ {App} /\ u[x].parent = q
  <2>1. CASE q = id
    BY <2>1, <1>7, <1>9
  <2>2. CASE q = p
    <3>1. \A x \in Range(t[p].children) : x \in Used(t) \ {App} /\ t[x].parent = p
      BY DEF Tree
    <3>2. id # App
      BY DEF Tree
    <3> QED BY <2>2, <3>1, <3>2, <1>3, <1>7, <1>8, <1>9, <1>10, ZenonT(60)
  <2>3. CASE q \in Used(t) \ {p}
    <3>1. u[q] = t[q]
      BY <2>3, <1>7 DEF Used
    <3> QED BY <2>3, <3>1, <1>8, <1>10 DEF Tree
  <2> QED BY <2>1, <2>2, <2>3, <1>8
<1>12. ASSUME NEW x \in Used(u) \ {App}
       PROVE  u[x].parent \in Used(u) /\ x \in Range(u[u[x].parent].children)
  <2>1. CASE x = id
    BY <2>1, <1>1, <1>3, <1>7, <1>8, <1>9
  <2>2. CASE x \in Used(t)
    <3>1. t[x].parent \in Used(t) /\ x \in Range(t[t[x].parent].children)
      BY <2>2 DEF Tree
    <3>2. \A q \in Used(t) : Range(t[q].children) \subseteq Range(u[q].children)
      BY <1>3, <1>7 DEF Used
    <3> QED BY <2>2, <3>1, <3>2, <1>8, <1>10
  <2> QED BY <2>1, <2>2, <1>8
<1>13. ASSUME NEW S \in SUBSET Ids, App \in S, Closed(ListIn(u), S)
       PROVE  Used(u) \subseteq S
  <2>1. ASSUME NEW x \in Ids PROVE Range(ListIn(t)[x]) \subseteq Range(ListIn(u)[x])
    <3>1. CASE x = p
      <4>1. ListIn(t)[x] = t[p].children /\ ListIn(u)[x] = kids
        BY <3>1, <1>0, <1>7, <1>8, ListInIs
      <4> QED BY <4>1, <1>3
    <3>2. CASE x \in Used(t) \ {p}
      <4>1. u[x] = t[x] /\ x \in Used(u)
        BY <3>2, <1>7, <1>8 DEF Used
      <4>2. ListIn(t)[x] = ListIn(u)[x]
        BY <3>2, <4>1, ListInIs
      <4> QED BY <4>2
    <3>3. CASE x \notin Used(t)
      <4>1. Range(ListIn(t)[x]) = {}
        BY <3>3, <1>9, ListInIs
      <4> QED BY <4>1
    <3> QED BY <3>1, <3>2, <3>3
  <2>2. Closed(ListIn(t), S)
    BY <2>1, <1>13 DEF Closed
  <2>3. Used(t) \subseteq S
    BY <2>2, <1>13 DEF Tree
  <2>4. id \in Range(ListIn(u)[p])
    BY <1>1, <1>3, <1>7, <1>8, ListInIs
  <2> QED BY <2>3, <2>4, <1>8, <1>13 DEF Closed
<1>14. App \in Used(u)
  BY <1>8 DEF Tree
<1>15. /\ new.service => Serving(u) = Serving(t) \cup {id}
       /\ ~new.service => Serving(u) = Serving(t)
  <2>1. \A x \in Used(t) : u[x].service = t[x].service
    BY <1>1, <1>7 DEF Used
  <2>2. Serving(u) \ {id} = Serving(t)
    BY <2>1, <1>8 DEF Serving
  <2>3. id \in Used(u) /\ u[id] = new
    BY <1>7, <1>8, <1>9
  <2>4. CASE new.service
    <3>1. id \in Serving(u)
      BY <2>3, <2>4 DEF Serving
    <3> QED BY <2>2, <2>4, <3>1
  <2>5. CASE ~new.service
    <3>1. id \notin Serving(u)
      BY <2>3, <2>5 DEF Serving
    <3> QED BY <2>2, <2>5, <3>1
  <2> QED BY <2>4, <2>5
<1> QED BY <1>7, <1>8, <1>11, <1>12, <1>13, <1>14, <1>15 DEF Tree

LEMMA RemovedTree ==
  ASSUME NEW t, Tree(t), NEW c \in Used(t) \ {App},
         NEW R, R = Subtree(ListIn(t), c), NEW p, p = t[c].parent,
         NEW u, u = [x \in Ids |-> IF x \in R THEN Null
                                   ELSE IF x = p THEN [t[x] EXCEPT !.children = Unlist(@, c)]
                                   ELSE t[x]]
  PROVE  /\ Tree(u) /\ Used(u) = Used(t) \ R /\ Serving(u) = Serving(t) \ R
         /\ p \in Used(t) \ R /\ c \in R /\ c \in Range(t[p].children)
<1>1. /\ c \in R /\ R \subseteq Ids \ {App} /\ Closed(ListIn(t), R)
      /\ \A y \in R : y # c => y \in Used(t) /\ t[y].parent \in R
  BY SubtreeIs
<1>2. p \in Used(t) /\ c \in Range(t[p].children) /\ App \in Used(t)
  BY DEF Tree
<1>3. \A q \in Ids : \A x \in Range(ListIn(t)[q]) : x \in R => q \in R \/ q = p
  BY <1>1, ListedIn
<1>4. p \notin R
  <2> SUFFICES ASSUME p \in R PROVE FALSE
    OBVIOUS
  <2>1. \A q \in Ids \ R : Range(ListIn(t)[q]) \subseteq Ids \ R
    BY <1>3, ListedIn DEF Used
  <2>2. Closed(ListIn(t), Ids \ R) /\ App \in Ids \ R /\ Ids \ R \in SUBSET Ids
    BY <2>1, <1>1, IdsAre DEF Closed
  <2>3. Used(t) \subseteq Ids \ R
    BY <2>2 DEF Tree
  <2> QED BY <2>3, <1>1
<1>5. /\ t \in [Ids -> Components \cup {Null}] /\ p \in Ids /\ t[p] \in Components
      /\ t[p].children \in Seq(Ids) /\ IsInjective(t[p].children)
  <2>1. t \in [Ids -> Components \cup {Null}] /\ p \in Ids /\ t[p] # Null
    BY <1>2 DEF Tree, Used
  <2>2. t[p] \in Components
    BY <2>1
  <2> QED BY <1>2, <2>1, <2>2 DEF Tree, Components
<1> DEFINE kids == Unlist(t[p].children, c)
<1>6. kids \in Seq(Ids) /\ IsInjective(kids) /\ Range(kids) = Range(t[p].children) \ {c}
  BY <1>2, <1>5, UnlistedList
<1>7. u = [x \in Ids |-> IF x \in R THEN Null
                         ELSE IF x = p THEN [t[p] EXCEPT !.children = kids] ELSE t[x]]
  BY <1>5
<1> HIDE DEF kids
<1>8. /\ [t[p] EXCEPT !.children = kids] \in Components
      /\ [t[p] EXCEPT !.children = kids].children = kids
      /\ [t[p] EXCEPT !.children = kids].parent = t[p].parent
      /\ [t[p] EXCEPT !.children = kids].service = t[p].service
  BY <1>5, <1>6 DEF Components
<1>9. /\ u \in [Ids -> Components \cup {Null}]
      /\ u[p] # Null /\ u[p].children = kids /\ u[p].parent = t[p].parent
      /\ u[p].service = t[p].service
      /\ \A x \in R : u[x] = Null
      /\ \A x \in Ids \ R : x # p => u[x] = t[x]
  <2> DEFINE entry == [t[p] EXCEPT !.children = kids]
  <2>1. /\ entry \in Components /\ entry.children = kids /\ entry.parent = t[p].parent
        /\ entry.service = t[p].service
        /\ u = [x \in Ids |-> IF x \in R THEN Null ELSE IF x = p THEN entry ELSE t[x]]
    BY <1>7, <1>8
  <2> HIDE DEF entry
  <2>2. u \in [Ids -> Components \cup {Null}] /\ u[p] = entry
    BY <2>1, <1>4, <1>5
  <2>3. (\A x \in R : u[x] = Null) /\ \A x \in Ids \ R : x # p => u[x] = t[x]
    BY <2>1, <1>1
  <2>4. entry # Null
    BY <2>1, IdsAre
  <2> QED BY <2>1, <2>2, <2>3, <2>4
<1>10. Used(u) = Used(t) \ R
  BY <1>1, <1>2, <1>4, <1>9 DEF Used
<1>11. \A x \in Used(u) : u[x].parent = t[x].parent
  BY <1>9, <1>10 DEF Used
<1>12. \A x \in Used(u) : x # p => u[x].children = t[x].children
  BY <1>9, <1>10 DEF Used
<1>13. ASSUME NEW q \in Used(u)
       PROVE  /\ IsInjective(u[q].children)
              /\ \A x \in Range(u[q].children) : x \in Used(u) \ {App} /\ u[x].parent = q
  <2>1. IsInjective(u[q].children) /\ Range(u[q].children) \subseteq Range(t[q].children)
    BY <1>6, <1>9, <1>10, <1>12 DEF Tree
  <2>2. c \notin Range(u[q].children)
    <3>1. CASE q = p
      BY <3>1, <1>6, <1>9
    <3>2. CASE q # p
      BY <3>2, <2>1, <1>10 DEF Tree
    <3> QED BY <3>1, <3>2
  <2>3. ASSUME NEW x \in Range(u[q].children)
        PROVE  x \in Used(u) \ {App} /\ u[x].parent = q
    <3>1. x \in Used(t) \ {App} /\ t[x].parent = q /\ x # c
      BY <2>1, <2>2, <1>10 DEF Tree
    <3>2. x \notin R
      BY <3>1, <1>1, <1>10
    <3> QED BY <3>1, <3>2, <1>10, <1>11
  <2> QED BY <2>1, <2>3
<1>14. ASSUME NEW x \in Used(u) \ {App}
       PROVE  u[x].parent \in Used(u) /\ x \in Range(u[u[x].parent].children)
  <2> DEFINE q == t[x].parent
  <2>1. q \in Used(t) /\ x \in Range(t[q].children)
    BY <1>10 DEF Tree
  <2>2. q \notin R
    <3>1. x \in Range(ListIn(t)[q]) /\ q \in Ids
      BY <2>1, ListInIs DEF Used
    <3> QED BY <3>1, <1>1, <1>10 DEF Closed
  <2>3. x # c /\ q \in Used(u)
    BY <1>1, <1>10, <2>1, <2>2
  <2>4. x \in Range(u[q].children)
    BY <2>1, <2>3, <1>6, <1>9, <1>12
  <2> QED BY <2>3, <2>4, <1>11
<1>15. ASSUME NEW S \in SUBSET Ids, App \in S, Closed(ListIn(u), S)
       PROVE  Used(u) \subseteq S
  <2>1. ASSUME NEW x \in S \ R PROVE Range(ListIn(t)[x]) \subseteq S \cup R
    <3>1. Range(ListIn(u)[x]) \subseteq S /\ x \in Ids
      BY <1>15 DEF Closed
    <3>2. CASE x \in Used(t)
      <4>1. x \in Used(u) /\ ListIn(t)[x] = t[x].children /\ ListIn(u)[x] = u[x].children
        BY <3>1, <3>2, <1>10, ListInIs
      <4>2. Range(t[x].children) \subseteq Range(u[x].children) \cup {c}
        BY <4>1, <1>6, <1>9, <1>12
      <4> QED BY <3>1, <4>1, <4>2, <1>1
    <3>3. CASE x \notin Used(t)
      <4>1. Range(ListIn(t)[x]) = {}
        BY <3>1, <3>3, ListInIs DEF Range
      <4> QED BY <4>1
    <3> QED BY <3>2, <3>3
  <2>2. \A x \in R : Range(ListIn(t)[x]) \subseteq R
    BY <1>1 DEF Closed
  <2>3. Closed(ListIn(t), S \cup R) /\ S \cup R \in SUBSET Ids
    BY <2>1, <2>2, <1>1 DEF Closed
  <2>4. Used(t) \subseteq S \cup R
    BY <2>3, <1>15 DEF Tree
  <2> QED BY <2>4, <1>10
<1>16. App \in Used(u)
  BY <1>1, <1>2, <1>10
<1>17. Serving(u) = Serving(t) \ R
  <2>1. \A x \in Used(u) : u[x].service = t[x].service
    BY <1>9, <1>10 DEF Used
  <2> QED BY <2>1, <1>10 DEF Serving
<1> QED BY <1>1, <1>2, <1>4, <1>9, <1>10, <1>13, <1>14, <1>15, <1>16, <1>17 DEF Tree

\* A rename or a new order of the same children leaves the tree as it is.
LEMMA ReshapedTree ==
  ASSUME NEW t, Tree(t), NEW u \in [Ids -> Components \cup {Null}], Used(u) = Used(t),
         \A x \in Used(t) : /\ u[x].parent = t[x].parent
                            /\ IsInjective(u[x].children)
                            /\ Range(u[x].children) = Range(t[x].children)
  PROVE  Tree(u)
<1>1. ASSUME NEW S \in SUBSET Ids, App \in S, Closed(ListIn(u), S)
      PROVE  Used(u) \subseteq S
  <2>1. ASSUME NEW x \in Ids PROVE Range(ListIn(t)[x]) = Range(ListIn(u)[x])
    <3>1. CASE x \in Used(t)
      BY <3>1, ListInIs
    <3>2. CASE x \notin Used(t)
      <4>1. ListIn(t)[x] = << >> /\ ListIn(u)[x] = << >>
        BY <3>2, ListInIs
      <4> QED BY <4>1
    <3> QED BY <3>1, <3>2
  <2>2. Closed(ListIn(t), S)
    BY <2>1, <1>1 DEF Closed
  <2> QED BY <2>2, <1>1 DEF Tree
<1>2. ASSUME NEW q \in Used(u)
      PROVE  /\ IsInjective(u[q].children)
             /\ \A x \in Range(u[q].children) : x \in Used(u) \ {App} /\ u[x].parent = q
  BY DEF Tree
<1>3. ASSUME NEW x \in Used(u) \ {App}
      PROVE  u[x].parent \in Used(u) /\ x \in Range(u[u[x].parent].children)
  BY DEF Tree
<1>4. App \in Used(u)
  BY DEF Tree
<1> QED BY <1>1, <1>2, <1>3, <1>4 DEF Tree

\* ChildrenListed says the same of the table, in terms of what the App reaches.
LEMMA TreeIsListed ==
  ASSUME Tree(comps)
  PROVE  ChildrenListed
<1>1. Alive = Used(comps) /\ [x \in Ids |-> Kids(x)] = ListIn(comps)
  BY DEF Alive, Used, Kids, Children, ListIn
<1>2. \A id \in Alive : /\ IsInjective(Children(id))
                         /\ \A x \in Range(Children(id)) :
                              x \in Alive /\ x # App /\ comps[x].parent = id
  BY <1>1 DEF Tree, Children
<1>3. Alive \subseteq Subtree(ListIn(comps), App)
  BY <1>1 DEF Tree, Subtree, Used
<1>4. \A p \in Ids : Range(ListIn(comps)[p]) \subseteq Used(comps)
  BY ListedIn
<1>5. Closed(ListIn(comps), Used(comps)) /\ App \in Used(comps) /\ Used(comps) \in SUBSET Ids
  BY <1>4 DEF Closed, Used, Tree
<1>6. Subtree(ListIn(comps), App) \subseteq Used(comps)
  BY <1>5 DEF Subtree
<1> QED BY <1>1, <1>2, <1>3, <1>6 DEF ChildrenListed

----------------------------------------------------------------------------
(* The invariant                                                            *)
TreeInv == Tree(comps)
LinksInv ==
  /\ linksTo \in [Ids -> SUBSET Links] /\ linksFrom \in [Ids -> SUBSET Links]
  /\ driven \subseteq Ids \X Slots
  /\ LinksPaired /\ DrivenIsLinked
FileInv ==
  /\ Tree(file.comps)
  /\ file.links \subseteq Links
  /\ \A l \in file.links : {l.from, l.to} \subseteq Used(file.comps)
StatusInv == status \in {"running", "stopped"} /\ (status = "stopped" => driven = {})
TreeAppInv == TreeInv /\ LinksInv /\ FileInv /\ StatusInv

LEMMA AliveIs == Alive = Used(comps) /\ [x \in Ids |-> Kids(x)] = ListIn(comps)
  BY DEF Alive, Used, Kids, Children, ListIn

LEMMA NothingLinked ==
  ASSUME linksTo = [id \in Ids |-> {}], linksFrom = linksTo, driven = {}
  PROVE  LinksInv
<1>1. \A id \in Ids : linksTo[id] = {} /\ linksFrom[id] = {}
  OBVIOUS
<1>2. linksTo \in [Ids -> SUBSET Links] /\ linksFrom \in [Ids -> SUBSET Links]
  OBVIOUS
<1> QED BY <1>1, <1>2 DEF LinksInv, LinksPaired, DrivenIsLinked

LEMMA InitTree == Init => TreeAppInv
<1> SUFFICES ASSUME Init PROVE TreeAppInv
  OBVIOUS
<1>1. Tree(comps) /\ LinksInv
  BY NewTree, NothingLinked DEF Init
<1>2. AllLinks = {}
  BY DEF Init, AllLinks, Range
<1>3. file.comps = comps /\ file.links = {}
  BY <1>2 DEF Init, Image
<1>4. FileInv
  BY <1>1, <1>3 DEF FileInv
<1>5. StatusInv
  BY DEF Init, StatusInv
<1> QED BY <1>1, <1>4, <1>5 DEF TreeAppInv, TreeInv

\* The links of components that stay, when no component in use goes away.
LEMMA LinksStay ==
  ASSUME LinksInv, Alive \subseteq Alive', UNCHANGED links
  PROVE  LinksInv'
<1>1. linksTo' = linksTo /\ linksFrom' = linksFrom /\ driven' = driven
  BY DEF links
<1>2. LinksPaired'
  BY <1>1 DEF LinksInv, LinksPaired
<1> QED BY <1>1, <1>2 DEF LinksInv, DrivenIsLinked

LEMMA AddMakes ==
  ASSUME TreeInv, NEW k, NEW p \in Ids, NEW n \in Names, NEW s \in BOOLEAN,
         Add(k, p, n, s)
  PROVE  \E id \in Ids \ Used(comps) :
           /\ Tree(comps') /\ Used(comps') = Used(comps) \cup {id}
           /\ s = TRUE => /\ Serving(comps') = Serving(comps) \cup {id}
                          /\ services' = <<id>> \o services
           /\ s = FALSE => Serving(comps') = Serving(comps) /\ services' = services
<1>1. PICK id \in Ids :
        /\ AllocCompId(id)
        /\ comps' = [comps EXCEPT
              ![id] = [parent |-> p, children |-> << >>, name |-> n, service |-> s],
              ![p].children = Append(@, id)]
        /\ services' = IF s THEN <<id>> \o services ELSE services
  BY DEF Add
<1>2. p \in Used(comps) /\ id \in Ids \ Used(comps)
  BY <1>1, AliveIs DEF Add, AllocCompId
<1>3. comps \in [Ids -> Components \cup {Null}] /\ p # id /\ Tree(comps)
  BY <1>2 DEF TreeInv, Tree
<1>4. comps' = [x \in Ids |->
         IF x = p THEN [comps[p] EXCEPT !.children = Append(comps[p].children, id)]
         ELSE IF x = id THEN [parent |-> p, children |-> << >>, name |-> n, service |-> s]
         ELSE comps[x]]
  BY <1>1, <1>3
<1>5. /\ Tree(comps') /\ Used(comps') = Used(comps) \cup {id}
      /\ s = TRUE => Serving(comps') = Serving(comps) \cup {id}
      /\ s = FALSE => Serving(comps') = Serving(comps)
  <2> DEFINE u == comps'
             new == [parent |-> p, children |-> << >>, name |-> n, service |-> s]
  <2>1. /\ new \in Components /\ new.parent = p /\ new.children = << >> /\ new.service = s
    BY DEF Components
  <2>2. u = [x \in Ids |->
           IF x = p THEN [comps[p] EXCEPT !.children = Append(comps[p].children, id)]
           ELSE IF x = id THEN new ELSE comps[x]]
    BY <1>4
  <2> HIDE DEF u, new
  <2>3. /\ Tree(u) /\ Used(u) = Used(comps) \cup {id}
        /\ new.service => Serving(u) = Serving(comps) \cup {id}
        /\ ~new.service => Serving(u) = Serving(comps)
    BY <1>2, <1>3, <2>1, <2>2, AddedTree
  <2> QED BY <2>1, <2>3 DEF u
<1> QED BY <1>1, <1>2, <1>5

LEMMA AddKeeps ==
  ASSUME TreeInv, LinksInv, NEW k, NEW p \in Ids, NEW n \in Names, NEW s \in BOOLEAN,
         Add(k, p, n, s)
  PROVE  TreeInv' /\ LinksInv'
<1>1. Tree(comps') /\ Used(comps) \subseteq Used(comps')
  BY AddMakes
<1>2. Alive \subseteq Alive' /\ UNCHANGED links
  BY <1>1 DEF Add, Alive, Used
<1> QED BY <1>1, <1>2, LinksStay DEF TreeInv

LEMMA RenameKeeps ==
  ASSUME TreeInv, LinksInv, NEW c \in Ids, NEW n \in Names, Rename(c, n)
  PROVE  TreeInv' /\ LinksInv'
<1>1. /\ comps \in [Ids -> Components \cup {Null}] /\ comps[c] # Null
      /\ comps' = [comps EXCEPT ![c].name = n] /\ UNCHANGED links
  BY DEF TreeInv, Tree, Rename, Alive
<1>2. comps[c] \in Components
  BY <1>1
<1> DEFINE entry == [comps[c] EXCEPT !.name = n]
<1>3. /\ entry \in Components
      /\ entry.parent = comps[c].parent /\ entry.children = comps[c].children
  BY <1>2 DEF Components
<1>4. comps' = [comps EXCEPT ![c] = entry]
  BY <1>1
<1> HIDE DEF entry
<1>5. /\ comps' \in [Ids -> Components \cup {Null}] /\ comps'[c] = entry
      /\ \A x \in Ids : x # c => comps'[x] = comps[x]
  BY <1>1, <1>3, <1>4
<1>6. Used(comps') = Used(comps)
  BY <1>1, <1>3, <1>5, IdsAre DEF Used
<1>7. \A x \in Used(comps) : /\ comps'[x].parent = comps[x].parent
                             /\ comps'[x].children = comps[x].children
  BY <1>3, <1>5 DEF Used
<1>8. Tree(comps')
  BY <1>5, <1>6, <1>7, ReshapedTree DEF TreeInv, Tree
<1>9. Alive \subseteq Alive'
  BY <1>6 DEF Alive, Used
<1> QED BY <1>1, <1>8, <1>9, LinksStay DEF TreeInv

LEMMA ReorderKeeps ==
  ASSUME CurrentReorders, TreeInv, LinksInv, NEW k, NEW p \in Ids,
         NEW ids \in Orders(known[k][p]), Reorder(k, p, ids)
  PROVE  TreeInv' /\ LinksInv'
<1>1. /\ comps \in [Ids -> Components \cup {Null}] /\ comps[p] # Null
      /\ comps' = [comps EXCEPT ![p].children = ids] /\ UNCHANGED links
  BY DEF TreeInv, Tree, Reorder, Alive
<1>2. comps[p] \in Components
  BY <1>1
<1>3. known[k][p] = comps[p].children
  BY DEF Reorder, CurrentReorders, Children
<1>4. comps[p].children \in Seq(Ids) /\ IsInjective(comps[p].children)
  BY <1>1, <1>2 DEF TreeInv, Tree, Used, Components
<1>5. ids \in Seq(Ids) /\ IsInjective(ids) /\ Range(ids) = Range(comps[p].children)
  BY <1>3, <1>4, OrderedList
<1> DEFINE entry == [comps[p] EXCEPT !.children = ids]
<1>6. entry \in Components /\ entry.parent = comps[p].parent /\ entry.children = ids
  BY <1>2, <1>5 DEF Components
<1>7. comps' = [comps EXCEPT ![p] = entry]
  BY <1>1
<1> HIDE DEF entry
<1>8. /\ comps' \in [Ids -> Components \cup {Null}] /\ comps'[p] = entry
      /\ \A x \in Ids : x # p => comps'[x] = comps[x]
  BY <1>1, <1>6, <1>7
<1>9. Used(comps') = Used(comps)
  BY <1>1, <1>6, <1>8, IdsAre DEF Used
<1>10. \A x \in Used(comps) : /\ comps'[x].parent = comps[x].parent
                              /\ IsInjective(comps'[x].children)
                              /\ Range(comps'[x].children) = Range(comps[x].children)
  BY <1>5, <1>6, <1>8 DEF Used, TreeInv, Tree
<1>11. Tree(comps')
  BY <1>8, <1>9, <1>10, ReshapedTree DEF TreeInv
<1>12. Alive \subseteq Alive'
  BY <1>9 DEF Alive, Used
<1> QED BY <1>1, <1>11, <1>12, LinksStay DEF TreeInv

\* Unhook takes every link that has an end among the removed components.
LEMMA DeleteKeeps ==
  ASSUME TreeInv, LinksInv, NEW k, NEW c \in Ids, Delete(k, c)
  PROVE  TreeInv' /\ LinksInv'
<1> DEFINE p == comps[c].parent
           R == Subtree(ListIn(comps), c)
           gone == UNION {Hooks(x) : x \in R}
<1>1. c \in Used(comps) \ {App} /\ [x \in Ids |-> Kids(x)] = ListIn(comps)
  BY AliveIs DEF Delete, CanRemove
<1>2. comps' = [x \in Ids |-> IF x \in R THEN Null
                              ELSE IF x = p THEN [comps[x] EXCEPT !.children = Unlist(@, c)]
                              ELSE comps[x]]
  BY <1>1 DEF Delete
<1>3. /\ Tree(comps') /\ Used(comps') = Used(comps) \ R
      /\ p \in Used(comps) \ R /\ c \in R /\ c \in Range(comps[p].children)
  BY <1>1, <1>2, RemovedTree DEF TreeInv
<1>4. Contains(Children(p), c)
  <2>1. comps[p].children \in Seq(Ids)
    BY <1>3 DEF TreeInv, Tree, Used, Components
  <2> QED BY <1>3, <2>1 DEF Contains, Range, Children
<1>5. Unhook(R, gone)
  BY <1>1, <1>4 DEF Delete
<1>6. /\ linksTo' = [x \in Ids |-> IF x \in R THEN {} ELSE linksTo[x] \ gone]
      /\ linksFrom' = [x \in Ids |-> IF x \in R THEN {} ELSE linksFrom[x] \ gone]
      /\ driven' = {d \in driven : d[1] \notin R} \ Reset(gone)
  BY <1>5 DEF Unhook
<1>7. \A x \in R : linksTo[x] \subseteq gone /\ linksFrom[x] \subseteq gone
  BY DEF Hooks
<1>8. Alive' = Alive \ R
  BY <1>3 DEF Alive, Used
<1> HIDE DEF R, gone, p
<1>9. ASSUME NEW id \in Ids, NEW l \in linksTo'[id]
      PROVE  /\ l.to = id /\ {id, l.from} \subseteq Alive'
             /\ l.from # id => l \in linksFrom'[l.from]
  <2>1. id \notin R /\ l \in linksTo[id] /\ l \notin gone /\ l \in Links
    BY <1>6, <1>9 DEF LinksInv
  <2>2. /\ l.to = id /\ {id, l.from} \subseteq Alive /\ l.from \in Ids
        /\ l.from # id => l \in linksFrom[l.from]
    BY <2>1 DEF LinksInv, LinksPaired, Links
  <2>3. l.from \notin R
    BY <2>1, <2>2, <1>7
  <2> QED BY <2>1, <2>2, <2>3, <1>6, <1>8
<1>10. ASSUME NEW id \in Ids, NEW l \in linksFrom'[id]
       PROVE  l.from = id /\ l \in linksTo'[l.to] /\ l.to # id
  <2>1. id \notin R /\ l \in linksFrom[id] /\ l \notin gone /\ l \in Links
    BY <1>6, <1>10 DEF LinksInv
  <2>2. l.from = id /\ l \in linksTo[l.to] /\ l.to # id /\ l.to \in Ids
    BY <2>1 DEF LinksInv, LinksPaired, Links
  <2>3. l.to \notin R
    BY <2>1, <2>2, <1>7
  <2> QED BY <2>1, <2>2, <2>3, <1>6
<1>11. ASSUME NEW d \in driven'
       PROVE  \E l \in linksTo'[d[1]] : l.slot = d[2]
  <2>1. d \in driven /\ d[1] \notin R /\ d \notin Reset(gone) /\ d = <<d[1], d[2]>> /\ d[1] \in Ids
    BY <1>6, <1>11 DEF LinksInv
  <2>2. PICK l \in linksTo[d[1]] : l.slot = d[2]
    BY <2>1 DEF LinksInv, DrivenIsLinked
  <2>3. l.to = d[1]
    BY <2>1, <2>2 DEF LinksInv, LinksPaired
  <2>4. l \notin gone
    BY <2>1, <2>2, <2>3 DEF Reset
  <2> QED BY <2>1, <2>2, <2>4, <1>6
<1>12. /\ linksTo' \in [Ids -> SUBSET Links] /\ linksFrom' \in [Ids -> SUBSET Links]
       /\ driven' \subseteq Ids \X Slots
  BY <1>6 DEF LinksInv
<1> QED BY <1>3, <1>9, <1>10, <1>11, <1>12 DEF TreeInv, LinksInv, LinksPaired, DrivenIsLinked

LEMMA AddLinkKeeps ==
  ASSUME TreeInv, LinksInv, NEW l \in Links, AddLink(l)
  PROVE  TreeInv' /\ LinksInv'
<1>1. /\ comps' = comps /\ driven' = driven /\ Alive' = Alive
      /\ l.from \in Alive /\ l.to \in Alive /\ l.from \in Ids /\ l.to \in Ids
      /\ linksTo' = [linksTo EXCEPT ![l.to] = @ \cup {l}]
      /\ linksFrom' = IF l.from = l.to THEN linksFrom
                      ELSE [linksFrom EXCEPT ![l.from] = @ \cup {l}]
  BY DEF AddLink, InsertLink, Links, Alive
<1>2. /\ linksTo \in [Ids -> SUBSET Links] /\ linksFrom \in [Ids -> SUBSET Links]
      /\ linksTo' \in [Ids -> SUBSET Links] /\ linksFrom' \in [Ids -> SUBSET Links]
  BY <1>1 DEF LinksInv
<1>3. \A x \in Ids : /\ linksTo[x] \subseteq linksTo'[x] /\ linksFrom[x] \subseteq linksFrom'[x]
                     /\ \A m \in linksTo'[x] : m \in linksTo[x] \/ (m = l /\ x = l.to)
                     /\ \A m \in linksFrom'[x] :
                          m \in linksFrom[x] \/ (m = l /\ x = l.from /\ l.from # l.to)
  BY <1>1, <1>2
<1>4. l \in linksTo'[l.to] /\ (l.from # l.to => l \in linksFrom'[l.from])
  BY <1>1, <1>2
<1>5. ASSUME NEW id \in Ids, NEW m \in linksTo'[id]
      PROVE  /\ m.to = id /\ {id, m.from} \subseteq Alive'
             /\ m.from # id => m \in linksFrom'[m.from]
  <2>1. CASE m \in linksTo[id]
    <3>1. m.from \in Ids
      BY <2>1, <1>2 DEF Links
    <3> QED BY <2>1, <3>1, <1>1, <1>3 DEF LinksInv, LinksPaired
  <2>2. CASE m = l /\ id = l.to
    BY <2>2, <1>1, <1>4
  <2> QED BY <2>1, <2>2, <1>3
<1>6. ASSUME NEW id \in Ids, NEW m \in linksFrom'[id]
      PROVE  m.from = id /\ m \in linksTo'[m.to] /\ m.to # id
  <2>1. CASE m \in linksFrom[id]
    <3>1. m.to \in Ids
      BY <2>1, <1>2 DEF Links
    <3> QED BY <2>1, <3>1, <1>3 DEF LinksInv, LinksPaired
  <2>2. CASE m = l /\ id = l.from /\ l.from # l.to
    BY <2>2, <1>4
  <2> QED BY <2>1, <2>2, <1>3
<1>7. ASSUME NEW d \in driven' PROVE \E m \in linksTo'[d[1]] : m.slot = d[2]
  <2>1. d \in driven /\ d[1] \in Ids
    BY <1>1, <1>7 DEF LinksInv
  <2> QED BY <2>1, <1>3 DEF LinksInv, DrivenIsLinked
<1> QED BY <1>1, <1>2, <1>5, <1>6, <1>7 DEF TreeInv, LinksInv, LinksPaired, DrivenIsLinked

LEMMA DeleteLinkKeeps ==
  ASSUME TreeInv, LinksInv, NEW l \in Links, DeleteLink(l)
  PROVE  TreeInv' /\ LinksInv'
<1>1. /\ comps' = comps /\ Alive' = Alive
      /\ linksTo' = [x \in Ids |-> linksTo[x] \ {l}]
      /\ linksFrom' = [x \in Ids |-> linksFrom[x] \ {l}]
      /\ driven' = driven \ {<<l.to, l.slot>>}
  BY DEF DeleteLink, RemoveLink, Reset, Alive
<1>2. /\ linksTo \in [Ids -> SUBSET Links] /\ linksFrom \in [Ids -> SUBSET Links]
      /\ linksTo' \in [Ids -> SUBSET Links] /\ linksFrom' \in [Ids -> SUBSET Links]
  BY <1>1 DEF LinksInv
<1>3. ASSUME NEW id \in Ids, NEW m \in linksTo'[id]
      PROVE  /\ m.to = id /\ {id, m.from} \subseteq Alive'
             /\ m.from # id => m \in linksFrom'[m.from]
  <2>1. m \in linksTo[id] /\ m # l /\ m.from \in Ids
    BY <1>1, <1>2, <1>3 DEF Links
  <2> QED BY <2>1, <1>1 DEF LinksInv, LinksPaired
<1>4. ASSUME NEW id \in Ids, NEW m \in linksFrom'[id]
      PROVE  m.from = id /\ m \in linksTo'[m.to] /\ m.to # id
  <2>1. m \in linksFrom[id] /\ m # l /\ m.to \in Ids
    BY <1>1, <1>2, <1>4 DEF Links
  <2> QED BY <2>1, <1>1 DEF LinksInv, LinksPaired
<1>5. ASSUME NEW d \in driven' PROVE \E m \in linksTo'[d[1]] : m.slot = d[2]
  <2>1. d \in driven /\ d # <<l.to, l.slot>> /\ d[1] \in Ids /\ d = <<d[1], d[2]>>
    BY <1>1, <1>5 DEF LinksInv
  <2>2. PICK m \in linksTo[d[1]] : m.slot = d[2]
    BY <2>1 DEF LinksInv, DrivenIsLinked
  <2>3. m.to = d[1]
    BY <2>1, <2>2 DEF LinksInv, LinksPaired
  <2>4. m # l
    BY <2>1, <2>2, <2>3
  <2> QED BY <2>1, <2>2, <2>4, <1>1
<1>6. driven' \subseteq Ids \X Slots
  BY <1>1 DEF LinksInv
<1> QED BY <1>1, <1>2, <1>3, <1>4, <1>5, <1>6 DEF TreeInv, LinksInv, LinksPaired, DrivenIsLinked

LEMMA ExecuteKeeps ==
  ASSUME TreeInv, LinksInv, Execute
  PROVE  TreeInv' /\ LinksInv'
<1> DEFINE reached == Subtree([x \in Ids |-> Kids(x)], App)
           live == {l \in UNION {linksTo[x] : x \in reached} : l.from \in Alive}
<1>1. /\ comps' = comps /\ Alive' = Alive /\ linksTo' = linksTo /\ linksFrom' = linksFrom
      /\ driven' = driven \cup {<<l.to, l.slot>> : l \in live}
  BY DEF Execute, Alive
<1>2. reached \subseteq Ids
  BY DEF Subtree
<1> HIDE DEF reached
<1>3. ASSUME NEW l \in live
      PROVE  l \in Links /\ l.to \in Ids /\ l.slot \in Slots /\ l \in linksTo[l.to]
  <2>1. PICK x \in Ids : l \in linksTo[x]
    BY <1>2
  <2>2. l \in Links /\ l.to = x
    BY <2>1 DEF LinksInv, LinksPaired
  <2> QED BY <2>1, <2>2 DEF Links
<1> HIDE DEF live
<1>4. driven' \subseteq Ids \X Slots
  BY <1>1, <1>3 DEF LinksInv
<1>5. DrivenIsLinked'
  <2>1. ASSUME NEW d \in driven' PROVE \E l \in linksTo[d[1]] : l.slot = d[2]
    <3>1. CASE d \in driven
      BY <3>1 DEF LinksInv, DrivenIsLinked
    <3>2. CASE d \in {<<l.to, l.slot>> : l \in live}
      BY <3>2, <1>3
    <3> QED BY <2>1, <3>1, <3>2, <1>1
  <2> QED BY <2>1, <1>1 DEF DrivenIsLinked
<1>6. LinksPaired'
  BY <1>1 DEF LinksInv, LinksPaired
<1> QED BY <1>1, <1>4, <1>5, <1>6 DEF TreeInv, LinksInv

\* The image has the tree of the device, and its links have both ends.
LEMMA SaveKeeps ==
  ASSUME TreeInv, LinksInv, Save
  PROVE  FileInv'
<1>1. file'.comps = comps /\ file'.links = AllLinks
  BY DEF Save, Image
<1>2. ASSUME NEW l \in AllLinks
      PROVE  l \in Links /\ {l.from, l.to} \subseteq Used(comps)
  <2>1. PICK id \in Ids : l \in linksTo[id]
    BY DEF AllLinks, Range, LinksInv
  <2> QED BY <2>1, AliveIs DEF LinksInv, LinksPaired
<1> QED BY <1>1, <1>2 DEF FileInv, TreeInv

\* What is loaded pairs the links of the file.
LEMMA LoadKeeps ==
  ASSUME FileInv, StatusInv, Load
  PROVE  TreeInv' /\ LinksInv' /\ StatusInv'
<1>1. Loads(file)
  BY DEF FileInv, Loads, Used
<1>2. /\ status' = "running" /\ comps' = file.comps /\ driven' = {}
      /\ linksTo' = [x \in Ids |-> {l \in file.links : l.to = x}]
      /\ linksFrom' = [x \in Ids |-> {l \in file.links : l.from = x /\ l.to # x}]
  BY <1>1 DEF Load, StatusInv
<1>3. Alive' = Used(file.comps)
  BY <1>2 DEF Alive, Used
<1>4. linksTo' \in [Ids -> SUBSET Links] /\ linksFrom' \in [Ids -> SUBSET Links]
  BY <1>2 DEF FileInv
<1>5. ASSUME NEW id \in Ids, NEW l \in linksTo'[id]
      PROVE  /\ l.to = id /\ {id, l.from} \subseteq Alive'
             /\ l.from # id => l \in linksFrom'[l.from]
  <2>1. l \in file.links /\ l.to = id
    BY <1>2, <1>5
  <2>2. {l.from, l.to} \subseteq Used(file.comps) /\ l.from \in Ids
    BY <2>1 DEF FileInv, Used
  <2> QED BY <2>1, <2>2, <1>2, <1>3
<1>6. ASSUME NEW id \in Ids, NEW l \in linksFrom'[id]
      PROVE  l.from = id /\ l \in linksTo'[l.to] /\ l.to # id
  <2>1. l \in file.links /\ l.from = id /\ l.to # id
    BY <1>2, <1>6
  <2>2. l.to \in Ids
    BY <2>1 DEF FileInv, Used
  <2> QED BY <2>1, <2>2, <1>2
<1> QED BY <1>2, <1>4, <1>5, <1>6
        DEF FileInv, StatusInv, TreeInv, LinksInv, LinksPaired, DrivenIsLinked

\* Every edit leaves the file and the status alone.
LEMMA EditKeeps ==
  ASSUME TreeAppInv, TreeInv', LinksInv', UNCHANGED boot, status = "running"
  PROVE  TreeAppInv'
<1>1. file' = file /\ status' = status
  BY DEF boot
<1> QED BY <1>1 DEF TreeAppInv, FileInv, StatusInv

LEMMA NextKeepsTree == CurrentReorders /\ TreeAppInv /\ [Next]_vars => TreeAppInv'
<1> SUFFICES ASSUME CurrentReorders, TreeAppInv, [Next]_vars PROVE TreeAppInv'
  OBVIOUS
<1>0. TreeInv /\ LinksInv /\ FileInv /\ StatusInv
  BY DEF TreeAppInv
<1>1. ASSUME NEW k \in Clients, NEW p \in Ids, NEW n \in Names, NEW s \in BOOLEAN, Add(k, p, n, s)
      PROVE  TreeAppInv'
  <2>1. UNCHANGED boot /\ status = "running"
    BY <1>1 DEF Add, Edit
  <2> QED BY <1>0, <1>1, <2>1, AddKeeps, EditKeeps
<1>2. ASSUME NEW k \in Clients, NEW p \in Ids, Delete(k, p)
      PROVE  TreeAppInv'
  <2>1. UNCHANGED boot /\ status = "running"
    BY <1>2 DEF Delete, Edit
  <2> QED BY <1>0, <1>2, <2>1, DeleteKeeps, EditKeeps
<1>3. ASSUME NEW k \in Reorderers, NEW p \in Ids, NEW ids \in Orders(known[k][p]), Reorder(k, p, ids)
      PROVE  TreeAppInv'
  BY <1>0, <1>3, ReorderKeeps, EditKeeps DEF Reorder, Edit
<1>4. ASSUME NEW k \in Reorderers, NEW p \in Ids, ApplyTree(k, p)
      PROVE  TreeAppInv'
  <2>1. comps' = comps /\ UNCHANGED links /\ UNCHANGED boot /\ status = "running"
    BY <1>4 DEF ApplyTree
  <2>2. TreeInv' /\ Alive' = Alive
    BY <1>0, <2>1 DEF TreeInv, Alive
  <2> QED BY <1>0, <2>1, <2>2, LinksStay, EditKeeps
<1>5. ASSUME NEW c \in Ids, NEW n \in Names, Rename(c, n)
      PROVE  TreeAppInv'
  BY <1>0, <1>5, RenameKeeps, EditKeeps DEF Rename, Edit
<1>6. ASSUME NEW l \in Links, AddLink(l)
      PROVE  TreeAppInv'
  BY <1>0, <1>6, AddLinkKeeps, EditKeeps DEF AddLink, Edit
<1>7. ASSUME NEW l \in Links, DeleteLink(l)
      PROVE  TreeAppInv'
  BY <1>0, <1>7, DeleteLinkKeeps, EditKeeps DEF DeleteLink, Edit
<1>8. CASE Execute
  BY <1>0, <1>8, ExecuteKeeps, EditKeeps DEF Execute
<1>9. CASE Save
  <2>1. comps' = comps /\ UNCHANGED links /\ status' = status /\ status = "running"
    BY <1>9 DEF Save
  <2>2. TreeInv' /\ Alive' = Alive /\ StatusInv'
    BY <1>0, <2>1 DEF TreeInv, Alive, StatusInv
  <2> QED BY <1>0, <1>9, <2>1, <2>2, LinksStay, SaveKeeps DEF TreeAppInv
<1>10. CASE Stop
  <2>1. TreeInv'
    BY <1>10, NewTree DEF Stop, TreeInv
  <2>2. LinksInv'
    <3>1. /\ linksTo' = [id \in Ids |-> {}] /\ linksFrom' = linksTo' /\ driven' = {}
      BY <1>10 DEF Stop
    <3>2. \A id \in Ids : linksTo'[id] = {} /\ linksFrom'[id] = {}
      BY <3>1
    <3>3. linksTo' \in [Ids -> SUBSET Links] /\ linksFrom' \in [Ids -> SUBSET Links]
      BY <3>1
    <3> QED BY <3>1, <3>2, <3>3 DEF LinksInv, LinksPaired, DrivenIsLinked
  <2>3. FileInv' /\ StatusInv'
    BY <1>0, <1>10 DEF Stop, FileInv, StatusInv
  <2> QED BY <2>1, <2>2, <2>3 DEF TreeAppInv
<1>11. CASE Load
  <2>1. FileInv'
    BY <1>0, <1>11 DEF Load, FileInv
  <2> QED BY <1>0, <1>11, <2>1, LoadKeeps DEF TreeAppInv
<1>12. CASE UNCHANGED vars
  <2>1. /\ comps' = comps /\ UNCHANGED links /\ file' = file /\ status' = status
        /\ driven' = driven
    BY <1>12 DEF vars, links
  <2>2. TreeInv' /\ Alive' = Alive /\ FileInv' /\ StatusInv'
    BY <1>0, <2>1 DEF TreeInv, Alive, FileInv, StatusInv
  <2> QED BY <1>0, <2>1, <2>2, LinksStay DEF TreeAppInv
<1> QED
  BY <1>1, <1>2, <1>3, <1>4, <1>5, <1>6, <1>7, <1>8, <1>9, <1>10, <1>11, <1>12 DEF Next

----------------------------------------------------------------------------
LEMMA TreeInvariant == CurrentReorders /\ Spec => []TreeAppInv
<1> SUFFICES ASSUME CurrentReorders PROVE Spec => []TreeAppInv
  OBVIOUS
<1>1. TreeAppInv /\ [Next]_vars => TreeAppInv'
  BY NextKeepsTree
<1> QED BY <1>1, InitTree, PTL DEF Spec

----------------------------------------------------------------------------
(* The services. The App is none, so that loadApp may begin after it.       *)
ServicesInv ==
  /\ services \in Seq(Ids) /\ IsInjective(services)
  /\ Range(services) = Serving(comps)
  /\ App \notin Serving(comps) /\ App \notin Serving(file.comps)

LEMMA NoServices ==
  /\ << >> \in Seq(Ids) /\ IsInjective(<< >>) /\ Range(<< >>) = {}
  /\ Serving([id \in Ids |-> IF id = App THEN Root ELSE Null]) = {}
<1>1. << >> \in Seq(Ids) /\ IsInjective(<< >>) /\ Range(<< >>) = {}
  BY DEF IsInjective, Range
<1>2. ~Root.service
  BY DEF Root
<1> QED BY <1>1, <1>2 DEF Serving, Used

LEMMA InitServices == Init => ServicesInv
<1> SUFFICES ASSUME Init PROVE ServicesInv
  OBVIOUS
<1>1. services = << >> /\ file.comps = comps
  BY DEF Init, Image
<1>2. comps = [id \in Ids |-> IF id = App THEN Root ELSE Null]
  BY DEF Init
<1> QED BY <1>1, <1>2, NoServices DEF ServicesInv

\* An operation that changes neither which components are services nor the list.
LEMMA ServicesStay ==
  ASSUME ServicesInv, services' = services, Serving(comps') = Serving(comps),
         Serving(file'.comps) \in {Serving(comps), Serving(file.comps)}
  PROVE  ServicesInv'
<1>1. Serving(comps)' = Serving(comps') /\ Serving(file.comps)' = Serving(file'.comps)
  BY DEF Serving, Used
<1> QED BY <1>1 DEF ServicesInv

LEMMA AddKeepsServices ==
  ASSUME TreeInv, ServicesInv, NEW k, NEW p \in Ids, NEW n \in Names, NEW s \in BOOLEAN,
         Add(k, p, n, s)
  PROVE  ServicesInv'
<1>1. PICK id \in Ids \ Used(comps) :
        /\ s = TRUE => /\ Serving(comps') = Serving(comps) \cup {id}
                       /\ services' = <<id>> \o services
        /\ s = FALSE => Serving(comps') = Serving(comps) /\ services' = services
  BY AddMakes
<1>2. file' = file
  BY DEF Add, Edit, boot
<1>3. CASE s = FALSE
  BY <1>1, <1>2, <1>3, ServicesStay
<1>4. CASE s = TRUE
  <2>1. id \notin Range(services) /\ id # App
    BY DEF ServicesInv, Serving, TreeInv, Tree
  <2>2. /\ services' \in Seq(Ids) /\ IsInjective(services')
        /\ Range(services') = Range(services) \cup {id}
    BY <1>1, <1>4, <2>1, PrependedList DEF ServicesInv
  <2>3. Serving(comps)' = Serving(comps) \cup {id} /\ Serving(file.comps)' = Serving(file.comps)
    BY <1>1, <1>2, <1>4 DEF Serving, Used
  <2> QED BY <2>1, <2>2, <2>3 DEF ServicesInv
<1> QED BY <1>3, <1>4

LEMMA DeleteKeepsServices ==
  ASSUME TreeInv, ServicesInv, NEW k, NEW c \in Ids, Delete(k, c)
  PROVE  ServicesInv'
<1> DEFINE p == comps[c].parent
           R == Subtree(ListIn(comps), c)
<1>1. c \in Used(comps) \ {App} /\ [x \in Ids |-> Kids(x)] = ListIn(comps)
  BY AliveIs DEF Delete, CanRemove
<1>2. /\ comps' = [x \in Ids |-> IF x \in R THEN Null
                                 ELSE IF x = p THEN [comps[x] EXCEPT !.children = Unlist(@, c)]
                                 ELSE comps[x]]
      /\ services' = Kept(services, Ids \ R) /\ file' = file
  BY <1>1 DEF Delete, Unregistered, Edit, boot
<1>3. Serving(comps') = Serving(comps) \ R
  BY <1>1, <1>2, RemovedTree DEF TreeInv
<1> HIDE DEF R
<1>4. /\ services' \in Seq(Ids) /\ IsInjective(services')
      /\ Range(services') = Range(services) \cap (Ids \ R)
  BY <1>2, KeptList DEF ServicesInv
<1>5. Serving(comps)' = Serving(comps') /\ Serving(file.comps)' = Serving(file.comps)
  BY <1>2 DEF Serving, Used
<1>6. Serving(comps) \subseteq Ids
  BY DEF Serving, Used
<1> QED BY <1>3, <1>4, <1>5, <1>6 DEF ServicesInv

LEMMA EntryKeepsServices ==
  ASSUME TreeInv, ServicesInv, NEW c \in Used(comps),
         NEW e \in Components, e.service = comps[c].service,
         comps' = [comps EXCEPT ![c] = e], services' = services, file' = file
  PROVE  ServicesInv'
<1>1. comps \in [Ids -> Components \cup {Null}] /\ c \in Ids
  BY DEF TreeInv, Tree, Used
<1>2. comps'[c] = e /\ e # Null /\ \A x \in Ids : x # c => comps'[x] = comps[x]
  BY <1>1, IdsAre
<1>3. Serving(comps') = Serving(comps)
  BY <1>1, <1>2 DEF Serving, Used
<1> QED BY <1>3, ServicesStay

LEMMA RenameKeepsServices ==
  ASSUME TreeInv, ServicesInv, NEW c \in Ids, NEW n \in Names, Rename(c, n)
  PROVE  ServicesInv'
<1> DEFINE e == [comps[c] EXCEPT !.name = n]
<1>1. /\ c \in Used(comps) /\ comps \in [Ids -> Components \cup {Null}]
      /\ comps' = [comps EXCEPT ![c].name = n] /\ services' = services /\ file' = file
  BY AliveIs DEF Rename, TreeInv, Tree, Edit, boot
<1>2. comps[c] \in Components
  BY <1>1 DEF Used
<1>3. e \in Components /\ e.service = comps[c].service
  BY <1>2 DEF Components
<1>4. comps' = [comps EXCEPT ![c] = e]
  BY <1>1
<1> HIDE DEF e
<1> QED BY <1>1, <1>3, <1>4, EntryKeepsServices

LEMMA ReorderKeepsServices ==
  ASSUME CurrentReorders, TreeInv, ServicesInv, NEW k, NEW p \in Ids,
         NEW ids \in Orders(known[k][p]), Reorder(k, p, ids)
  PROVE  ServicesInv'
<1> DEFINE e == [comps[p] EXCEPT !.children = ids]
<1>1. /\ p \in Used(comps) /\ comps \in [Ids -> Components \cup {Null}]
      /\ comps' = [comps EXCEPT ![p].children = ids] /\ services' = services /\ file' = file
  BY AliveIs DEF Reorder, TreeInv, Tree, Edit, boot
<1>2. comps[p] \in Components
  BY <1>1 DEF Used
<1>3. known[k][p] = comps[p].children
  BY DEF Reorder, CurrentReorders, Children
<1>4. comps[p].children \in Seq(Ids) /\ IsInjective(comps[p].children)
  BY <1>1, <1>2 DEF TreeInv, Tree, Components
<1>5. ids \in Seq(Ids)
  BY <1>3, <1>4, OrderedList
<1>6. e \in Components /\ e.service = comps[p].service
  BY <1>2, <1>5 DEF Components
<1>7. comps' = [comps EXCEPT ![p] = e]
  BY <1>1
<1> HIDE DEF e
<1> QED BY <1>1, <1>6, <1>7, EntryKeepsServices

LEMMA LoadKeepsServices ==
  ASSUME FileInv, ServicesInv, Load
  PROVE  ServicesInv'
<1> DEFINE down == [i \in 1..MaxId |-> MaxId + 1 - i]
           listed == {id \in Ids : file.comps[id] # Null /\ file.comps[id].service}
<1>1. Loads(file)
  BY DEF FileInv, Loads, Used
<1>2. comps' = file.comps /\ services' = Kept(down, listed) /\ file' = file
  BY <1>1 DEF Load
<1>3. MaxId \in Nat
  BY AppTreeAssumption
<1>4. /\ down \in Seq(Ids) /\ IsInjective(down)
      /\ \A x \in 1..MaxId : MaxId + 1 - x \in 1..MaxId /\ down[MaxId + 1 - x] = x
      /\ DOMAIN down = 1..MaxId
  BY <1>3 DEF IsInjective, Ids
<1>5. listed = Serving(file.comps)
  BY DEF Serving, Used
<1>6. listed \subseteq 1..MaxId
  BY <1>3, <1>5 DEF ServicesInv, Ids, App
<1> HIDE DEF down, listed
<1>7. 1..MaxId \subseteq Range(down)
  BY <1>4 DEF Range
<1>8. /\ services' \in Seq(Ids) /\ IsInjective(services')
      /\ Range(services') = Range(down) \cap listed
  BY <1>2, <1>4, KeptList
<1>9. Serving(comps)' = listed /\ Serving(file.comps)' = Serving(file.comps)
  BY <1>2, <1>5 DEF Serving, Used
<1> QED BY <1>5, <1>6, <1>7, <1>8, <1>9 DEF ServicesInv

LEMMA NextKeepsServices ==
  CurrentReorders /\ TreeAppInv /\ ServicesInv /\ [Next]_vars => ServicesInv'
<1> SUFFICES ASSUME CurrentReorders, TreeInv, FileInv, ServicesInv, [Next]_vars
             PROVE  ServicesInv'
  BY DEF TreeAppInv
<1>1. ASSUME NEW k \in Clients, NEW p \in Ids, NEW n \in Names, NEW s \in BOOLEAN, Add(k, p, n, s)
      PROVE  ServicesInv'
  BY <1>1, AddKeepsServices
<1>2. ASSUME NEW k \in Clients, NEW p \in Ids, Delete(k, p)
      PROVE  ServicesInv'
  BY <1>2, DeleteKeepsServices
<1>3. ASSUME NEW k \in Reorderers, NEW p \in Ids, NEW ids \in Orders(known[k][p]), Reorder(k, p, ids)
      PROVE  ServicesInv'
  BY <1>3, ReorderKeepsServices
<1>4. ASSUME NEW c \in Ids, NEW n \in Names, Rename(c, n)
      PROVE  ServicesInv'
  BY <1>4, RenameKeepsServices
<1>5. ASSUME comps' = comps, services' = services, file' = file
      PROVE  ServicesInv'
  BY <1>5, ServicesStay
<1>6. ASSUME NEW k \in Reorderers, NEW p \in Ids, ApplyTree(k, p)
      PROVE  ServicesInv'
  BY <1>5, <1>6 DEF ApplyTree, boot
<1>7. ASSUME NEW l \in Links, AddLink(l) \/ DeleteLink(l)
      PROVE  ServicesInv'
  BY <1>5, <1>7 DEF AddLink, DeleteLink, Edit, boot
<1>8. CASE Execute
  BY <1>5, <1>8 DEF Execute, boot
<1>9. CASE Save
  <2>1. comps' = comps /\ services' = services /\ file'.comps = comps
    BY <1>9 DEF Save, Image
  <2> QED BY <2>1, ServicesStay
<1>10. CASE Stop
  <2>1. /\ comps' = [id \in Ids |-> IF id = App THEN Root ELSE Null]
        /\ services' = << >> /\ file' = file
    BY <1>10 DEF Stop
  <2>2. Serving(comps)' = {} /\ Serving(file.comps)' = Serving(file.comps)
    BY <2>1, NoServices DEF Serving, Used
  <2> QED BY <2>1, <2>2, NoServices DEF ServicesInv
<1>11. CASE Load
  BY <1>11, LoadKeepsServices
<1>12. CASE UNCHANGED vars
  BY <1>5, <1>12 DEF vars
<1> QED
  BY <1>1, <1>2, <1>3, <1>4, <1>6, <1>7, <1>8, <1>9, <1>10, <1>11, <1>12 DEF Next

----------------------------------------------------------------------------
(* App.add, remove, rename and reorder keep the table and the lists of     *)
(* children one tree that the App reaches, whatever was deleted between.   *)
THEOREM TableIsTree == CurrentReorders /\ Spec => []ChildrenListed
<1>1. TreeAppInv => ChildrenListed
  BY TreeIsListed DEF TreeAppInv, TreeInv
<1> QED BY <1>1, TreeInvariant, PTL

(* App.insertLink, removeLink and remove keep a link in the lists of both  *)
(* its components or of none, also when ids are given out again.           *)
THEOREM LinksStayPaired == CurrentReorders /\ Spec => []LinksPaired
<1>1. TreeAppInv => LinksPaired
  BY DEF TreeAppInv, LinksInv
<1> QED BY <1>1, TreeInvariant, PTL

(* A slot that holds the value of a link is reset when the link goes, by   *)
(* linkReq or with a component that is removed at either end.              *)
THEOREM UnlinkedSlotsReset == CurrentReorders /\ Spec => []DrivenIsLinked
<1>1. TreeAppInv => DrivenIsLinked
  BY DEF TreeAppInv, LinksInv
<1> QED BY <1>1, TreeInvariant, PTL

(* What App.saveApp writes App.loadApp accepts, after any edits.           *)
THEOREM SavedAppBoots == CurrentReorders /\ Spec => []SavedAppLoads
<1>1. TreeAppInv => SavedAppLoads
  BY DEF TreeAppInv, StatusInv, SavedAppLoads
<1> QED BY <1>1, TreeInvariant, PTL

(* App.insert, remove and loadApp keep in the linked list of services      *)
(* exactly the components that are services, each once, whatever order     *)
(* they come and go in.                                                    *)
THEOREM ServicesStayListed == CurrentReorders /\ Spec => []ServicesListed
<1> SUFFICES ASSUME CurrentReorders PROVE Spec => []ServicesListed
  OBVIOUS
<1>1. TreeAppInv /\ ServicesInv /\ [Next]_vars => ServicesInv'
  BY NextKeepsServices
<1>2. ServicesInv => ServicesListed
  BY AliveIs DEF ServicesInv, ServicesListed, Serving
<1> QED BY <1>1, <1>2, InitServices, TreeInvariant, PTL DEF Spec
=============================================================================
