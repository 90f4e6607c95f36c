------------------------- MODULE RhinoTimerProofs ---------------------------
(***************************************************************************)
(* What holds of the software timers for every set of timers and senders,  *)
(* all delays and periods and any size of the command queue: the list      *)
(* agrees with the states of the timers, no block is lost, and a timer     *)
(* task that is not delayed is never late.                                 *)
(***************************************************************************)
EXTENDS RhinoTimer, FiniteSetTheorems, WellFoundedInduction, TLAPS

-----------------------------------------------------------------------------
(* Lists.                                                                   *)

\* Every set of naturals that is not empty has a least element.  The lemmas that
\* need it have it as a hypothesis; NaturalsAreWellOrdered proves it.
NatLeast == \A S \in SUBSET Nat : S # {} => \E x \in S : \A y \in S : x <= y

\* Least picks the least element of any set of naturals that is not empty.
LEMMA MinNat ==
    ASSUME NatLeast, NEW S, S \subseteq Nat, S # {}
    PROVE  Least(S) \in S /\ \A x \in S : Least(S) <= x
<1>1. \E x \in S : \A y \in S : x <= y
  BY DEF NatLeast
<1> QED BY <1>1, ZenonT(60) DEF Least

\* FirstOr: the first position that passes the test, and the end when none does.
LEMMA FirstPosition ==
    ASSUME NatLeast, NEW n \in Nat, NEW I, \A i \in I : i \in 1..n
    PROVE  LET k == Least(I \cup {n + 1}) IN
           /\ k \in 1..(n + 1)
           /\ k \in I \/ k = n + 1
           /\ \A i \in I : k <= i
<1> DEFINE J == I \cup {n + 1}
           k == Least(J)
<1>1. J \subseteq Nat /\ J # {}
  OBVIOUS
<1>2. k \in J /\ \A x \in J : k <= x
  BY <1>1, MinNat
<1> HIDE DEF k
<1>3. k \in I \/ k = n + 1
  BY <1>2
<1>4. k \in 1..(n + 1)
  BY <1>3
<1>5. \A i \in I : k <= i
  BY <1>2
<1> QED BY <1>3, <1>4, <1>5 DEF k

\* The two parts of a concatenation.
LEMMA ConcatElements ==
    ASSUME NEW S, NEW s1 \in Seq(S), NEW s2 \in Seq(S)
    PROVE  /\ s1 \o s2 \in Seq(S)
           /\ Len(s1 \o s2) = Len(s1) + Len(s2)
           /\ \A i \in 1..(Len(s1) + Len(s2)) :
                 (s1 \o s2)[i] = IF i <= Len(s1) THEN s1[i] ELSE s2[i - Len(s1)]
  OBVIOUS

\* s is sorted by the numbers f gives its members.
SortedBy(s, f) == \A i, j \in 1..Len(s) : i < j => f[s[i]] <= f[s[j]]

\* Removal, element by element.
LEMMA KlistRmElements ==
    ASSUME NatLeast, NEW S, NEW s \in Seq(S), NEW e, Contains(s, e)
    PROVE  \E k \in 1..Len(s) :
             /\ s[k] = e
             /\ KlistRm(s, e) \in Seq(S)
             /\ Len(KlistRm(s, e)) = Len(s) - 1
             /\ \A i \in 1..(Len(s) - 1) :
                   KlistRm(s, e)[i] = IF i < k THEN s[i] ELSE s[i + 1]
<1> DEFINE I == {i \in 1..Len(s) : s[i] = e}
           k == Least(I \cup {Len(s) + 1})
           r == KlistRm(s, e)
           a == SubSeq(s, 1, k - 1)
           b == SubSeq(s, k + 1, Len(s))
<1>1. PICK m \in I : TRUE
  BY DEF Contains
<1>2. k \in 1..Len(s) /\ s[k] = e
  <2>1. (k \in I \/ k = Len(s) + 1) /\ k <= m
    <3>1. Len(s) \in Nat /\ \A n \in I : n \in 1..Len(s)
      OBVIOUS
    <3> HIDE DEF I
    <3> QED BY <1>1, <3>1, FirstPosition, ZenonT(60)
  <2>2. k # Len(s) + 1
    BY <2>1, <1>1
  <2> QED BY <2>1, <2>2
<1>3. r = a \o b
  BY ZenonT(60) DEF KlistRm, FirstOr
<1> HIDE DEF k, r, I
<1>4. a \in Seq(S) /\ Len(a) = k - 1 /\ \A i \in 1..(k - 1) : a[i] = s[i]
  BY <1>2
<1>5. b \in Seq(S) /\ Len(b) = Len(s) - k /\ \A i \in 1..(Len(s) - k) : b[i] = s[k + i]
  BY <1>2
<1> HIDE DEF a, b
<1>6. r \in Seq(S) /\ Len(r) = Len(s) - 1
  <2>1. r \in Seq(S) /\ Len(r) = Len(a) + Len(b)
    BY <1>3, <1>4, <1>5, ConcatElements, ZenonT(60)
  <2>2. k \in Int /\ Len(s) \in Int
    BY <1>2
  <2> QED BY <2>1, <2>2, <1>4, <1>5
<1>7. ASSUME NEW i \in 1..(Len(s) - 1) PROVE r[i] = IF i < k THEN s[i] ELSE s[i + 1]
  <2>1. r[i] = IF i <= Len(a) THEN a[i] ELSE b[i - Len(a)]
    BY <1>2, <1>3, <1>4, <1>5, <1>6, ConcatElements, SMTT(60)
  <2>2. CASE i < k
    BY <2>1, <2>2, <1>2, <1>4
  <2>3. CASE i >= k
    <3>1. i - (k - 1) \in 1..(Len(s) - k) /\ k + (i - (k - 1)) = i + 1
      BY <2>3, <1>2
    <3>2. r[i] = b[i - (k - 1)]
      <4>1. Len(a) = k - 1 /\ ~(i <= k - 1)
        BY <2>3, <1>2, <1>4
      <4> QED BY <2>1, <4>1
    <3>3. b[i - (k - 1)] = s[k + (i - (k - 1))]
      BY <3>1, <1>5, ZenonT(60)
    <3>4. ~(i < k)
      BY <2>3, <1>2
    <3> QED BY <3>1, <3>2, <3>3, <3>4
  <2> QED BY <2>2, <2>3, <1>2, SMTT(60)
<1> QED BY <1>2, <1>6, <1>7 DEF r

\* The members of a list without duplicates when e is removed, and its order.
LEMMA KlistRmMembers ==
    ASSUME NatLeast, NEW S, NEW s \in Seq(S), NoDup(s), NEW e
    PROVE  /\ KlistRm(s, e) \in Seq(S)
           /\ NoDup(KlistRm(s, e))
           /\ \A x : Contains(KlistRm(s, e), x) <=> Contains(s, x) /\ x # e
           /\ \A f : SortedBy(s, f) => SortedBy(KlistRm(s, e), f)
<1>1. CASE ~Contains(s, e)
  BY <1>1 DEF KlistRm, Contains
<1>2. CASE Contains(s, e)
  <2> DEFINE r == KlistRm(s, e)
  <2>1. PICK k \in 1..Len(s) :
          /\ s[k] = e
          /\ r \in Seq(S)
          /\ Len(r) = Len(s) - 1
          /\ \A i \in 1..(Len(s) - 1) : r[i] = IF i < k THEN s[i] ELSE s[i + 1]
    BY <1>2, KlistRmElements
  <2> HIDE DEF r
  <2>2. NoDup(r)
    BY <2>1 DEF NoDup
  <2>3. ASSUME NEW x PROVE Contains(r, x) <=> Contains(s, x) /\ x # e
    <3>1. ASSUME Contains(r, x) PROVE Contains(s, x) /\ x # e
      BY <2>1, <3>1, SMTT(60) DEF NoDup, Contains
    <3>2. ASSUME Contains(s, x), x # e PROVE Contains(r, x)
      <4>1. PICK i \in 1..Len(s) : s[i] = x
        BY <3>2 DEF Contains
      <4>2. i # k
        BY <4>1, <3>2, <2>1
      <4>3. CASE i < k
        BY <4>1, <4>3, <2>1, SMTT(60) DEF Contains
      <4>4. CASE i > k
        <5>1. i - 1 \in 1..Len(r) /\ r[i - 1] = x
          BY <4>1, <4>4, <2>1
        <5> QED BY <5>1 DEF Contains
      <4> QED BY <4>1, <4>2, <4>3, <4>4
    <3> QED BY <3>1, <3>2
  <2>4. ASSUME NEW f, SortedBy(s, f) PROVE SortedBy(r, f)
    <3>1. ASSUME NEW i \in 1..Len(r), NEW j \in 1..Len(r), i < j PROVE f[r[i]] <= f[r[j]]
      <4> DEFINE m == IF i < k THEN i ELSE i + 1
                 n == IF j < k THEN j ELSE j + 1
      <4>0. Len(s) \in Nat /\ i \in 1..(Len(s) - 1) /\ j \in 1..(Len(s) - 1)
        BY <2>1
      <4>1. m \in 1..Len(s) /\ r[i] = s[m]
        BY <2>1, <4>0
      <4>2. n \in 1..Len(s) /\ r[j] = s[n]
        BY <2>1, <4>0
      <4>3. m < n
        BY <4>0, <3>1
      <4> HIDE DEF m, n
      <4> QED BY <4>1, <4>2, <4>3, <2>4 DEF SortedBy
    <3> QED BY <3>1 DEF SortedBy
  <2> QED BY <2>1, <2>2, <2>3, <2>4 DEF r
<1> QED BY <1>1, <1>2

\* Insertion before position i, element by element.
LEMMA KlistInsertElements ==
    ASSUME NEW S, NEW s \in Seq(S), NEW i \in 1..(Len(s) + 1), NEW e \in S
    PROVE  /\ KlistInsert(s, i, e) \in Seq(S)
           /\ Len(KlistInsert(s, i, e)) = Len(s) + 1
           /\ \A j \in 1..(Len(s) + 1) :
                 KlistInsert(s, i, e)[j] = IF j < i THEN s[j] ELSE IF j = i THEN e ELSE s[j - 1]
<1> DEFINE a == SubSeq(s, 1, i - 1)
           b == SubSeq(s, i, Len(s))
           c == a \o <<e>>
           r == c \o b
<1>1. a \in Seq(S) /\ Len(a) = i - 1 /\ \A j \in 1..(i - 1) : a[j] = s[j]
  OBVIOUS
<1>2. b \in Seq(S) /\ Len(b) = Len(s) - i + 1 /\ \A j \in 1..(Len(s) - i + 1) : b[j] = s[i + j - 1]
  OBVIOUS
<1>3. KlistInsert(s, i, e) = r
  BY DEF KlistInsert
<1> HIDE DEF a, b
<1>4. /\ c \in Seq(S) /\ Len(c) = i
      /\ \A j \in 1..i : c[j] = IF j < i THEN s[j] ELSE e
  BY <1>1
<1> HIDE DEF c
<1>5. r \in Seq(S) /\ Len(r) = Len(c) + Len(b)
  BY <1>2, <1>4, ConcatElements, ZenonT(60)
<1>6. Len(r) = Len(s) + 1
  BY <1>2, <1>4, <1>5
<1>7. ASSUME NEW j \in 1..(Len(s) + 1)
      PROVE  r[j] = IF j < i THEN s[j] ELSE IF j = i THEN e ELSE s[j - 1]
  <2>1. r[j] = IF j <= Len(c) THEN c[j] ELSE b[j - Len(c)]
    BY <1>2, <1>4, <1>5, <1>6, ConcatElements
  <2> QED BY <2>1, <1>2, <1>4, SMTT(60)
<1> QED BY <1>3, <1>5, <1>6, <1>7

\* The members of a list after an insertion.
LEMMA KlistInsertMembers ==
    ASSUME NEW S, NEW s \in Seq(S), NoDup(s), NEW i \in 1..(Len(s) + 1), NEW e \in S, ~Contains(s, e)
    PROVE  /\ KlistInsert(s, i, e) \in Seq(S)
           /\ NoDup(KlistInsert(s, i, e))
           /\ \A x : Contains(KlistInsert(s, i, e), x) <=> Contains(s, x) \/ x = e
<1> DEFINE r == KlistInsert(s, i, e)
<1>1. /\ r \in Seq(S) /\ Len(r) = Len(s) + 1
      /\ \A j \in 1..(Len(s) + 1) : r[j] = IF j < i THEN s[j] ELSE IF j = i THEN e ELSE s[j - 1]
  BY KlistInsertElements, SMTT(60)
<1> HIDE DEF r
<1>2. NoDup(r)
  <2>1. ASSUME NEW j \in 1..Len(r), NEW k \in 1..Len(r), j < k PROVE r[j] # r[k]
    <3>1. \A n \in 1..Len(s) : s[n] # e
      BY DEF Contains
    <3>2. \A m, n \in 1..Len(s) : m < n => s[m] # s[n]
      BY DEF NoDup
    <3>3. CASE k < i
      BY <1>1, <2>1, <3>2, <3>3
    <3>4. CASE k = i
      BY <1>1, <2>1, <3>1, <3>4
    <3>5. CASE i < k /\ j < i
      BY <1>1, <2>1, <3>2, <3>5
    <3>6. CASE i < k /\ j = i
      <4>1. k - 1 \in 1..Len(s) /\ r[k] = s[k - 1] /\ r[j] = e
        BY <1>1, <2>1, <3>6
      <4> QED BY <4>1, <3>1
    <3>7. CASE i < k /\ i < j
      <4>1. k - 1 \in 1..Len(s) /\ r[k] = s[k - 1]
        BY <1>1, <2>1, <3>7
      <4>2. j - 1 \in 1..Len(s) /\ r[j] = s[j - 1] /\ j - 1 < k - 1
        BY <1>1, <2>1, <3>7
      <4> QED BY <4>1, <4>2, <3>2
    <3> QED BY <3>3, <3>4, <3>5, <3>6, <3>7
  <2> QED BY <2>1, <1>1 DEF NoDup
<1>3. ASSUME NEW x PROVE Contains(r, x) <=> Contains(s, x) \/ x = e
  <2>1. ASSUME Contains(r, x) PROVE Contains(s, x) \/ x = e
    <3>1. PICK j \in 1..Len(r) : r[j] = x
      BY <2>1 DEF Contains
    <3>2. CASE j < i
      BY <3>1, <3>2, <1>1 DEF Contains
    <3>3. CASE j = i
      BY <3>1, <3>3, <1>1
    <3>4. CASE j > i
      <4>1. j - 1 \in 1..Len(s) /\ s[j - 1] = x
        BY <3>1, <3>4, <1>1
      <4> QED BY <4>1 DEF Contains
    <3> QED BY <3>1, <3>2, <3>3, <3>4
  <2>2. ASSUME Contains(s, x) PROVE Contains(r, x)
    <3>1. PICK j \in 1..Len(s) : s[j] = x
      BY <2>2 DEF Contains
    <3>2. CASE j < i
      BY <3>1, <3>2, <1>1 DEF Contains
    <3>3. CASE j >= i
      <4>1. j + 1 \in 1..Len(r) /\ r[j + 1] = x
        BY <3>1, <3>3, <1>1
      <4> QED BY <4>1 DEF Contains
    <3> QED BY <3>1, <3>2, <3>3
  <2>3. Contains(r, e)
    BY <1>1 DEF Contains
  <2> QED BY <2>1, <2>2, <2>3
<1> QED BY <1>1, <1>2, <1>3, SMTT(60) DEF r

\* An insertion before the first larger element keeps a list sorted.
LEMMA KlistInsertSorted ==
    ASSUME NEW S, NEW l \in Seq(S), NEW t \in S, NEW f \in [S -> Int], SortedBy(l, f), NEW k \in 1..(Len(l) + 1),
           \A i \in 1..Len(l) : i < k => f[l[i]] <= f[t], k <= Len(l) => f[t] <= f[l[k]]
    PROVE  SortedBy(KlistInsert(l, k, t), f)
<1> DEFINE r == KlistInsert(l, k, t)
<1>1. /\ Len(r) = Len(l) + 1
      /\ \A j \in 1..(Len(l) + 1) : r[j] = IF j < k THEN l[j] ELSE IF j = k THEN t ELSE l[j - 1]
  BY KlistInsertElements, SMTT(60)
<1> HIDE DEF r
<1>2. \A m, n \in 1..Len(l) : m < n => f[l[m]] <= f[l[n]]
  BY DEF SortedBy
<1>3. \A m \in 1..Len(l) : f[l[m]] \in Int
  OBVIOUS
<1>4. ASSUME NEW i \in 1..Len(r), NEW j \in 1..Len(r), i < j PROVE f[r[i]] <= f[r[j]]
  <2>1. CASE j < k
    <3>1. i \in 1..Len(l) /\ j \in 1..Len(l) /\ r[i] = l[i] /\ r[j] = l[j]
      BY <1>1, <1>4, <2>1, SMTT(60)
    <3> QED BY <3>1, <1>4, <1>2
  <2>2. CASE j = k
    BY <1>1, <1>4, <2>2, SMTT(60)
  <2>3. CASE k < j
    <3>1. j - 1 \in 1..Len(l) /\ r[j] = l[j - 1] /\ k \in 1..Len(l)
      BY <1>1, <1>4, <2>3, SMTT(60)
    <3>2. f[t] <= f[r[j]]
      <4>1. f[t] <= f[l[k]]
        BY <3>1
      <4>2. k = j - 1 \/ f[l[k]] <= f[l[j - 1]]
        <5>1. k < j - 1 \/ k = j - 1
          BY <2>3, <3>1, SMTT(60)
        <5> QED BY <5>1, <1>2, <3>1, ZenonT(60)
      <4>3. f[t] \in Int /\ f[l[k]] \in Int /\ f[l[j - 1]] \in Int
        BY <1>3, <3>1, SMTT(60)
      <4> QED BY <4>1, <4>2, <4>3, <3>1, SMTT(60)
    <3>3. CASE i < k
      <4>1. r[i] = l[i] /\ i \in 1..Len(l) /\ f[l[i]] <= f[t]
        BY <1>1, <1>4, <3>3
      <4>2. f[l[i]] \in Int /\ f[t] \in Int /\ f[r[j]] \in Int
        BY <4>1, <1>3, <3>1, SMTT(60)
      <4> QED BY <4>1, <4>2, <3>2, SMTT(60)
    <3>4. CASE i = k
      BY <1>1, <3>2, <3>4
    <3>5. CASE k < i
      <4>1. i - 1 \in 1..Len(l) /\ r[i] = l[i - 1] /\ i - 1 < j - 1
        BY <1>1, <1>4, <3>5
      <4> QED BY <4>1, <3>1, <1>2, ZenonT(60)
    <3> QED BY <1>1, <3>3, <3>4, <3>5
  <2> QED BY <1>1, <2>1, <2>2, <2>3, SMTT(60)
<1> QED BY <1>4, SMTT(60) DEF SortedBy, r

\* The head and the other members of a list that is not empty.
LEMMA TailMembers ==
    ASSUME NEW S, NEW s \in Seq(S), NoDup(s), s # <<>>
    PROVE  /\ Head(s) \in S /\ Contains(s, Head(s))
           /\ Tail(s) \in Seq(S) /\ NoDup(Tail(s))
           /\ \A x : Contains(Tail(s), x) <=> Contains(s, x) /\ x # Head(s)
<1> DEFINE r == Tail(s)
<1>1. /\ Len(s) \in Nat /\ Len(s) > 0 /\ Head(s) = s[1] /\ Head(s) \in S
      /\ r \in Seq(S) /\ Len(r) = Len(s) - 1
      /\ \A i \in 1..(Len(s) - 1) : r[i] = s[i + 1]
  OBVIOUS
<1> HIDE DEF r
<1>2. NoDup(r)
  BY <1>1 DEF NoDup
<1>3. ASSUME NEW x PROVE Contains(r, x) <=> Contains(s, x) /\ x # Head(s)
  <2>1. ASSUME Contains(r, x) PROVE Contains(s, x) /\ x # Head(s)
    BY <1>1, <2>1, SMTT(60) DEF Contains, NoDup
  <2>2. ASSUME Contains(s, x), x # Head(s) PROVE Contains(r, x)
    <3>1. PICK i \in 1..Len(s) : s[i] = x
      BY <2>2 DEF Contains
    <3>2. i - 1 \in 1..Len(r) /\ r[i - 1] = x
      BY <1>1, <2>2, <3>1
    <3> QED BY <3>2 DEF Contains
  <2> QED BY <2>1, <2>2
<1>4. Contains(s, Head(s))
  BY <1>1 DEF Contains
<1> QED BY <1>1, <1>2, <1>3, <1>4, SMTT(60) DEF r

\* A list has a member exactly when it is not empty.
LEMMA NotEmpty ==
    ASSUME NEW S, NEW s \in Seq(S)
    PROVE  /\ s = <<>> <=> \A x : ~Contains(s, x)
           /\ \A x : Contains(s, x) => x \in S
<1>1. s # <<>> => Contains(s, s[1])
  BY DEF Contains
<1>2. \A x : Contains(s, x) => s # <<>> /\ x \in S
  BY DEF Contains
<1> QED BY <1>1, <1>2

-----------------------------------------------------------------------------
USE ZenonT(60)

\* The hypothesis of the lemmas on lists.
LEMMA NaturalsAreWellOrdered == NatLeast
<1> SUFFICES ASSUME NEW S \in SUBSET Nat, S # {} PROVE \E x \in S : \A y \in S : x <= y
  BY DEF NatLeast
<1>1. PICK x \in S : \A y \in S : ~(<<y, x>> \in OpToRel(<, Nat))
  BY NatLessThanWellFounded, WFMin
<1>2. ASSUME NEW y \in S PROVE x <= y
  <2>1. y < x => <<y, x>> \in OpToRel(<, Nat)
    BY DEF OpToRel
  <2>2. ~(y < x)
    BY <1>1, <2>1
  <2> QED BY <2>2, SMTT(60)
<1> QED BY <1>2

-----------------------------------------------------------------------------
(* A list l of timers and the control blocks tm of all timers.              *)

\* The list holds the active timers, once each, and they exist.
Matched(l, tm) ==
    /\ l \in Seq(Timers) /\ tm \in [Timers -> Control] /\ NoDup(l)
    /\ \A t \in Timers : (Contains(l, t) <=> Active(tm, t)) /\ (Active(tm, t) => tm[t].obj_type)

\* The list is sorted, and no timer is late.
Due(tm) == [t \in Timers |-> tm[t].match]
OnTime(l, tm) == SortedBy(l, Due(tm)) /\ \A t \in Timers : Active(tm, t) => tm[t].match >= 0

\* A timer is started or stopped.
LEMMA StartedIs ==
    ASSUME NEW tm \in [Timers -> Control], NEW t \in Timers, NEW val \in Int, age \in Nat
    PROVE  /\ Started(tm, t, val) \in [Timers -> Control]
           /\ Started(tm, t, val)[t].match = val - age /\ Started(tm, t, val)[t].state = "ACTIVE"
           /\ Started(tm, t, val)[t].obj_type = tm[t].obj_type
           /\ \A x \in Timers : x # t => Started(tm, t, val)[x] = tm[x]
<1> DEFINE a == val - age
           r == [tm[t] EXCEPT !.match = a, !.state = "ACTIVE"]
<1>1. a \in Int
  BY SMTT(60)
<1> HIDE DEF a
<1>2. tm[t] \in Control
  OBVIOUS
<1>3. r \in Control
  BY <1>1, <1>2 DEF Control
<1>4. r.match = a /\ r.state = "ACTIVE" /\ r.obj_type = tm[t].obj_type
  BY <1>1, <1>2, SMTT(60) DEF Control
<1>5. Started(tm, t, val) = [tm EXCEPT ![t] = r]
  BY DEF Started, a
<1> HIDE DEF r
<1> QED BY <1>3, <1>4, <1>5, SMTT(60) DEF a

\* A timer that is stopped, and the others.
LEMMA StoppedIs ==
    ASSUME NEW tm \in [Timers -> Control], NEW t \in Timers
    PROVE  /\ Stopped(tm, t) \in [Timers -> Control]
           /\ Stopped(tm, t)[t].state = "DEACTIVE" /\ Stopped(tm, t)[t].obj_type = tm[t].obj_type
           /\ \A x \in Timers : x # t => Stopped(tm, t)[x] = tm[x]
<1> DEFINE r == [tm[t] EXCEPT !.match = 0, !.state = "DEACTIVE"]
<1>1. 0 \in Int
  BY SMTT(60)
<1>2. tm[t] \in Control
  OBVIOUS
<1>3. r \in Control
  BY <1>1, <1>2 DEF Control
<1>4. r.state = "DEACTIVE" /\ r.obj_type = tm[t].obj_type
  BY <1>2, SMTT(60) DEF Control
<1>5. Stopped(tm, t) = [tm EXCEPT ![t] = r]
  BY DEF Stopped
<1> HIDE DEF r
<1> QED BY <1>3, <1>4, <1>5, SMTT(60)

\* timer_list_pri_insert: the timer joins the list before the timers that are due
\* later.
LEMMA PriInsertPlace ==
    ASSUME NatLeast, NEW l \in Seq(Timers), NEW tm, NEW t, NEW val
    PROVE  \E k \in 1..(Len(l) + 1) :
              /\ TimerListPriInsert(l, tm, t, val) = KlistInsert(l, k, t)
              /\ k <= Len(l) => Exceeds(tm[l[k]].match, val)
              /\ \A i \in 1..Len(l) : i < k => ~Exceeds(tm[l[i]].match, val)
<1> DEFINE I == {i \in 1..Len(l) : Exceeds(tm[l[i]].match, val)}
           k == Least(I \cup {Len(l) + 1})
<1>1. TimerListPriInsert(l, tm, t, val) = KlistInsert(l, k, t)
  BY SMTT(60) DEF TimerListPriInsert, FirstOr
<1>2. Len(l) \in Nat /\ \A i : i \in I <=> i \in 1..Len(l) /\ Exceeds(tm[l[i]].match, val)
  BY SMTT(60)
<1> HIDE DEF I
<1>3. /\ k \in 1..(Len(l) + 1) /\ (k \in I \/ k = Len(l) + 1) /\ \A i \in I : k <= i
  BY <1>2, FirstPosition
<1> HIDE DEF k
<1>4. k <= Len(l) => k \in I
  BY <1>2, <1>3, SMTT(60)
<1>5. \A i \in 1..Len(l) : i < k => i \notin I
  BY <1>2, <1>3, SMTT(60)
<1> QED BY <1>1, <1>2, <1>3, <1>4, <1>5

\* It joins the list.
LEMMA PriInsert ==
    ASSUME NatLeast, NEW l \in Seq(Timers), NoDup(l), NEW tm, NEW t \in Timers, ~Contains(l, t), NEW val
    PROVE  /\ TimerListPriInsert(l, tm, t, val) \in Seq(Timers) /\ NoDup(TimerListPriInsert(l, tm, t, val))
           /\ \A x : Contains(TimerListPriInsert(l, tm, t, val), x) <=> Contains(l, x) \/ x = t
<1>1. PICK k \in 1..(Len(l) + 1) : TimerListPriInsert(l, tm, t, val) = KlistInsert(l, k, t)
  BY PriInsertPlace
<1>2. /\ KlistInsert(l, k, t) \in Seq(Timers) /\ NoDup(KlistInsert(l, k, t))
      /\ \A x : Contains(KlistInsert(l, k, t), x) <=> Contains(l, x) \/ x = t
  BY KlistInsertMembers
<1> QED BY <1>1, <1>2

\* When g_timer_count is up to date and no timer is overdue, the list stays sorted.
LEMMA PriInsertSorted ==
    ASSUME NatLeast, age = 0, NEW l \in Seq(Timers), NEW tm, SortedBy(l, Due(tm)), NEW t \in Timers, ~Contains(l, t),
           \A x \in Timers : Contains(l, x) => tm[x].match >= 0, NEW val \in Nat,
           NEW f \in [Timers -> Int], f[t] = val, \A x \in Timers : x # t => f[x] = tm[x].match
    PROVE  SortedBy(TimerListPriInsert(l, tm, t, val), f)
<1>1. PICK k \in 1..(Len(l) + 1) :
             /\ TimerListPriInsert(l, tm, t, val) = KlistInsert(l, k, t)
             /\ k <= Len(l) => Exceeds(tm[l[k]].match, val)
             /\ \A i \in 1..Len(l) : i < k => ~Exceeds(tm[l[i]].match, val)
  BY PriInsertPlace
<1>2. \A i \in 1..Len(l) : l[i] \in Timers /\ l[i] # t /\ Contains(l, l[i])
  BY SMTT(60) DEF Contains
<1>3. \A i \in 1..Len(l) : f[l[i]] = tm[l[i]].match /\ f[l[i]] \in Int /\ f[l[i]] >= 0
  BY <1>2, SMTT(60)
<1>4. \A i \in 1..Len(l) : Exceeds(tm[l[i]].match, val) <=> f[l[i]] > val
  BY <1>3, SMTT(60) DEF Exceeds
<1>5. \A x \in Timers : Due(tm)[x] = tm[x].match
  BY DEF Due
<1>6. SortedBy(l, f)
  <2>1. ASSUME NEW i \in 1..Len(l), NEW j \in 1..Len(l), i < j PROVE f[l[i]] <= f[l[j]]
    <3>1. Due(tm)[l[i]] <= Due(tm)[l[j]]
      BY <2>1 DEF SortedBy
    <3> QED BY <3>1, <1>2, <1>3, <1>5
  <2> QED BY <2>1 DEF SortedBy
<1>7. \A i \in 1..Len(l) : i < k => f[l[i]] <= f[t]
  BY <1>1, <1>3, <1>4, SMTT(60)
<1>8. k <= Len(l) => f[t] <= f[l[k]]
  BY <1>1, <1>3, <1>4, SMTT(60)
<1>9. SortedBy(KlistInsert(l, k, t), f)
  BY <1>6, <1>7, <1>8, KlistInsertSorted
<1> QED BY <1>1, <1>9

-----------------------------------------------------------------------------
(* The commands.                                                            *)

\* A timer leaves the list and is stopped.
LEMMA MatchedStop ==
    ASSUME NatLeast, NEW l, NEW tm, Matched(l, tm), NEW t \in Timers
    PROVE  /\ Matched(KlistRm(l, t), Stopped(tm, t))
           /\ OnTime(l, tm) => OnTime(KlistRm(l, t), Stopped(tm, t))
           /\ \A x : Contains(KlistRm(l, t), x) <=> Contains(l, x) /\ x # t
<1>1. l \in Seq(Timers) /\ tm \in [Timers -> Control] /\ NoDup(l)
  BY DEF Matched
<1> DEFINE r == KlistRm(l, t)
           s == Stopped(tm, t)
<1>2. /\ r \in Seq(Timers) /\ NoDup(r) /\ \A x : Contains(r, x) <=> Contains(l, x) /\ x # t
      /\ \A f : SortedBy(l, f) => SortedBy(r, f)
  BY <1>1, KlistRmMembers
<1>3. /\ s \in [Timers -> Control] /\ s[t].state = "DEACTIVE" /\ s[t].obj_type = tm[t].obj_type
      /\ \A x \in Timers : x # t => s[x] = tm[x]
  BY <1>1, StoppedIs
<1> HIDE DEF r, s
<1>4. Matched(r, s)
  BY <1>1, <1>2, <1>3 DEF Matched, Active
<1>5. ASSUME OnTime(l, tm) PROVE OnTime(r, s)
  <2>1. \A x \in Timers : Active(s, x) => s[x].match >= 0
    BY <1>3, <1>5 DEF OnTime, Active
  <2>2. SortedBy(r, Due(tm))
    BY <1>2, <1>5 DEF OnTime
  <2>3. \A x \in Timers : x # t => Due(s)[x] = Due(tm)[x]
    BY <1>3 DEF Due
  <2>4. ASSUME NEW i \in 1..Len(r), NEW j \in 1..Len(r), i < j PROVE Due(s)[r[i]] <= Due(s)[r[j]]
    <3>1. Contains(r, r[i]) /\ Contains(r, r[j]) /\ r[i] \in Timers /\ r[j] \in Timers
      BY <1>2, SMTT(60) DEF Contains
    <3>2. r[i] # t /\ r[j] # t
      BY <1>2, <3>1
    <3>3. Due(tm)[r[i]] <= Due(tm)[r[j]]
      BY <2>2, <2>4 DEF SortedBy
    <3> QED BY <2>3, <3>1, <3>2, <3>3
  <2> QED BY <2>1, <2>4 DEF OnTime, SortedBy
<1> QED BY <1>2, <1>4, <1>5 DEF r, s

\* A timer that exists and is not on the list joins it and is started.
LEMMA MatchedStart ==
    ASSUME NatLeast, age \in Nat, NEW l, NEW tm, NEW t \in Timers, NEW val \in Nat,
           l \in Seq(Timers), tm \in [Timers -> Control], NoDup(l), ~Contains(l, t), tm[t].obj_type,
           \A x \in Timers : x # t => (Contains(l, x) <=> Active(tm, x)) /\ (Active(tm, x) => tm[x].obj_type)
    PROVE  LET ins == TimerListPriInsert(l, tm, t, val)
               s == Started(tm, t, val)
           IN  /\ Matched(ins, s) /\ Contains(ins, t)
               /\ age = 0 /\ SortedBy(l, Due(tm)) /\ (\A x \in Timers : x # t /\ Active(tm, x) => tm[x].match >= 0)
                  => OnTime(ins, s)
<1> DEFINE ins == TimerListPriInsert(l, tm, t, val)
           s == Started(tm, t, val)
<1>0. val \in Int
  BY SMTT(60)
<1>1. /\ ins \in Seq(Timers) /\ NoDup(ins) /\ \A x : Contains(ins, x) <=> Contains(l, x) \/ x = t
  BY PriInsert
<1>2. /\ s \in [Timers -> Control] /\ s[t].match = val - age /\ s[t].state = "ACTIVE"
      /\ s[t].obj_type = tm[t].obj_type /\ \A x \in Timers : x # t => s[x] = tm[x]
  BY <1>0, StartedIs
<1> HIDE DEF ins, s
<1>3. Matched(ins, s)
  BY <1>1, <1>2 DEF Matched, Active
<1>4. ASSUME age = 0, SortedBy(l, Due(tm)), \A x \in Timers : x # t /\ Active(tm, x) => tm[x].match >= 0
      PROVE  OnTime(ins, s)
  <2>1. s[t].match = val /\ val >= 0
    BY <1>2, <1>4, SMTT(60)
  <2>2. \A x \in Timers : Active(s, x) => s[x].match >= 0
    BY <1>2, <1>4, <2>1 DEF Active
  <2>3. \A x \in Timers : Contains(l, x) => tm[x].match >= 0
    BY <1>4
  <2>4. Due(s) \in [Timers -> Int] /\ Due(s)[t] = val /\ \A x \in Timers : x # t => Due(s)[x] = tm[x].match
    BY <1>2, <2>1 DEF Due, Control
  <2>5. SortedBy(TimerListPriInsert(l, tm, t, val), Due(s))
    BY <1>4, <2>3, <2>4, PriInsertSorted, SMTT(60)
  <2> QED BY <2>2, <2>5 DEF OnTime, ins
<1> QED BY <1>1, <1>3, <1>4 DEF ins, s

\* AfterStop and AfterStart leave a list that matches.
LEMMA MatchedAfterStop ==
    ASSUME NatLeast, NEW l, NEW tm, Matched(l, tm), NEW t \in Timers
    PROVE  /\ Matched(AfterStop(l, tm, t)[1], AfterStop(l, tm, t)[2])
           /\ OnTime(l, tm) => OnTime(AfterStop(l, tm, t)[1], AfterStop(l, tm, t)[2])
<1>1. CASE tm[t].obj_type /\ Active(tm, t)
  <2>1. AfterStop(l, tm, t)[1] = KlistRm(l, t) /\ AfterStop(l, tm, t)[2] = Stopped(tm, t)
    BY <1>1 DEF AfterStop
  <2>2. Matched(KlistRm(l, t), Stopped(tm, t)) /\ (OnTime(l, tm) => OnTime(KlistRm(l, t), Stopped(tm, t)))
    BY MatchedStop
  <2> QED BY <2>1, <2>2
<1>2. CASE ~(tm[t].obj_type /\ Active(tm, t))
  <2>1. AfterStop(l, tm, t)[1] = l /\ AfterStop(l, tm, t)[2] = tm
    BY <1>2 DEF AfterStop
  <2> QED BY <2>1
<1> QED BY <1>1, <1>2

\* The start command keeps the list and the states of the timers in step.
LEMMA MatchedAfterStart ==
    ASSUME NatLeast, age \in Nat, NEW l, NEW tm, Matched(l, tm), NEW t \in Timers
    PROVE  /\ Matched(AfterStart(l, tm, t)[1], AfterStart(l, tm, t)[2])
           /\ age = 0 /\ OnTime(l, tm) => OnTime(AfterStart(l, tm, t)[1], AfterStart(l, tm, t)[2])
<1> DEFINE n == tm[t].init_count
<1>1. CASE tm[t].obj_type /\ ~Active(tm, t)
  <2>1. AfterStart(l, tm, t)[1] = TimerListPriInsert(l, tm, t, n) /\ AfterStart(l, tm, t)[2] = Started(tm, t, n)
    BY <1>1 DEF AfterStart
  <2>2. n \in Nat
    <3>1. tm[t] \in Control
      BY DEF Matched
    <3> QED BY <3>1, SMTT(60) DEF Control
  <2> HIDE DEF n
  <2>3. /\ l \in Seq(Timers) /\ tm \in [Timers -> Control] /\ NoDup(l) /\ ~Contains(l, t) /\ tm[t].obj_type
        /\ \A x \in Timers : x # t => (Contains(l, x) <=> Active(tm, x)) /\ (Active(tm, x) => tm[x].obj_type)
    BY <1>1 DEF Matched
  <2>4. Matched(TimerListPriInsert(l, tm, t, n), Started(tm, t, n))
    BY <2>2, <2>3, MatchedStart
  <2>5. ASSUME age = 0, OnTime(l, tm) PROVE OnTime(TimerListPriInsert(l, tm, t, n), Started(tm, t, n))
    <3>1. SortedBy(l, Due(tm)) /\ \A x \in Timers : x # t /\ Active(tm, x) => tm[x].match >= 0
      BY <2>5 DEF OnTime
    <3> QED BY <2>2, <2>3, <2>5, <3>1, MatchedStart
  <2> QED BY <2>1, <2>4, <2>5
<1>2. CASE ~(tm[t].obj_type /\ ~Active(tm, t))
  <2>1. AfterStart(l, tm, t)[1] = l /\ AfterStart(l, tm, t)[2] = tm
    BY <1>2 DEF AfterStart
  <2> QED BY <2>1
<1> QED BY <1>1, <1>2

\* A timer that is not active changes its control block and stays inactive.
LEMMA MatchedChange ==
    ASSUME NEW l, NEW tm, Matched(l, tm), NEW t \in Timers, ~Active(tm, t),
           NEW r \in Control, r.state = "DEACTIVE"
    PROVE  /\ Matched(l, [tm EXCEPT ![t] = r])
           /\ OnTime(l, tm) => OnTime(l, [tm EXCEPT ![t] = r])
<1> DEFINE s == [tm EXCEPT ![t] = r]
<1>1. s \in [Timers -> Control] /\ s[t] = r /\ \A x \in Timers : x # t => s[x] = tm[x]
  BY DEF Matched
<1> HIDE DEF s
<1>2. Matched(l, s)
  BY <1>1 DEF Matched, Active
<1>3. ASSUME OnTime(l, tm) PROVE OnTime(l, s)
  <2>1. \A x \in Timers : Active(s, x) => s[x].match >= 0
    BY <1>1, <1>3 DEF OnTime, Active
  <2>2. \A x \in Timers : x # t => Due(s)[x] = Due(tm)[x]
    BY <1>1 DEF Due
  <2>3. ASSUME NEW i \in 1..Len(l), NEW j \in 1..Len(l), i < j PROVE Due(s)[l[i]] <= Due(s)[l[j]]
    <3>1. l[i] \in Timers /\ l[j] \in Timers /\ Contains(l, l[i]) /\ Contains(l, l[j])
      BY SMTT(60) DEF Contains, Matched
    <3>2. l[i] # t /\ l[j] # t
      BY <3>1 DEF Matched
    <3>3. Due(tm)[l[i]] <= Due(tm)[l[j]]
      BY <1>3, <2>3 DEF OnTime, SortedBy
    <3> QED BY <2>2, <3>1, <3>2, <3>3
  <2> QED BY <2>1, <2>3 DEF OnTime, SortedBy
<1> QED BY <1>2, <1>3 DEF s

\* A timer before its creation.
LEMMA UnusedIs == Unused \in Control /\ Unused.state = "DEACTIVE"
<1>1. 0 \in Int /\ 0 \in Nat /\ 1 \in Nat \ {0}
  BY SMTT(60)
<1> QED BY <1>1 DEF Unused, Control

\* Every command leaves a list that matches; it is also on time when the timer task is.
LEMMA MatchedAfterCmd ==
    ASSUME NatLeast, age \in Nat, NEW l, NEW tm, Matched(l, tm), NEW m \in Message
    PROVE  /\ Matched(AfterCmd(l, tm, m)[1], AfterCmd(l, tm, m)[2])
           /\ age = 0 /\ OnTime(l, tm) => OnTime(AfterCmd(l, tm, m)[1], AfterCmd(l, tm, m)[2])
<1> DEFINE t == m.timer
           a == AfterCmd(l, tm, m)
<1>1. t \in Timers /\ m.cmd \in Cmds /\ m.first \in Delays \cup {0} /\ m.round \in Rounds \cup {0}
  BY DEF Message
<1> HIDE DEF t, a
<1>2. CASE m.cmd = "START"
  <2>1. a = AfterStart(l, tm, t)
    BY <1>2 DEF AfterCmd, a, t
  <2> QED BY <1>1, <2>1, MatchedAfterStart DEF a
<1>3. CASE m.cmd = "STOP"
  <2>1. a = AfterStop(l, tm, t)
    BY <1>3 DEF AfterCmd, a, t
  <2> QED BY <1>1, <2>1, MatchedAfterStop DEF a
<1>4. CASE m.cmd = "AUTO"
  <2> DEFINE st == AfterStop(l, tm, t)
  <2>1. a = AfterStart(st[1], st[2], t)
    BY <1>4 DEF AfterCmd, a, t
  <2>2. Matched(st[1], st[2]) /\ (OnTime(l, tm) => OnTime(st[1], st[2]))
    BY <1>1, MatchedAfterStop
  <2> HIDE DEF st
  <2>3. /\ Matched(AfterStart(st[1], st[2], t)[1], AfterStart(st[1], st[2], t)[2])
        /\ age = 0 /\ OnTime(st[1], st[2]) => OnTime(AfterStart(st[1], st[2], t)[1], AfterStart(st[1], st[2], t)[2])
    BY <1>1, <2>2, MatchedAfterStart
  <2> QED BY <2>1, <2>2, <2>3 DEF a
<1>5. CASE m.cmd = "CHG"
  <2>1. CASE m.first # 0 /\ tm[t].obj_type /\ ~Active(tm, t)
    <3> DEFINE r == [tm[t] EXCEPT !.init_count = m.first, !.round_ticks = m.round]
    <3>1. a = <<l, [tm EXCEPT ![t] = r]>>
      BY <1>5, <2>1 DEF AfterCmd, a, t
    <3>2. tm[t] \in Control
      BY <1>1 DEF Matched
    <3>3. tm[t].state = "DEACTIVE"
      BY <2>1, <3>2 DEF Active, Control
    <3>4. m.first \in Nat \ {0} /\ m.round \in Nat
      <4>1. Delays \subseteq Nat \ {0} /\ Rounds \subseteq Nat
        BY TimerAssumption
      <4>2. 0 \in Nat
        BY SMTT(60)
      <4> QED BY <1>1, <2>1, <4>1, <4>2
    <3>5. r \in Control
      BY <3>2, <3>4 DEF Control
    <3>6. r.state = "DEACTIVE"
      BY <3>2, <3>3, SMTT(60) DEF Control
    <3> HIDE DEF r
    <3>7. /\ Matched(l, [tm EXCEPT ![t] = r])
          /\ OnTime(l, tm) => OnTime(l, [tm EXCEPT ![t] = r])
      BY <1>1, <2>1, <3>5, <3>6, MatchedChange
    <3>8. a[1] = l /\ a[2] = [tm EXCEPT ![t] = r]
      BY <3>1
    <3> QED BY <3>7, <3>8 DEF a
  <2>2. CASE ~(m.first # 0 /\ tm[t].obj_type /\ ~Active(tm, t))
    <3>1. a = <<l, tm>>
      BY <1>5, <2>2 DEF AfterCmd, a, t
    <3>2. a[1] = l /\ a[2] = tm
      BY <3>1
    <3> QED BY <3>2 DEF a
  <2> QED BY <2>1, <2>2
<1>6. CASE m.cmd = "DEL"
  <2>1. CASE tm[t].obj_type /\ ~Active(tm, t)
    <3>1. a = <<l, [tm EXCEPT ![t] = Unused]>>
      BY <1>6, <2>1 DEF AfterCmd, a, t
    <3>2. /\ Matched(l, [tm EXCEPT ![t] = Unused])
          /\ OnTime(l, tm) => OnTime(l, [tm EXCEPT ![t] = Unused])
      BY <1>1, <2>1, UnusedIs, MatchedChange
    <3>3. a[1] = l /\ a[2] = [tm EXCEPT ![t] = Unused]
      BY <3>1
    <3> QED BY <3>2, <3>3 DEF a
  <2>2. CASE ~(tm[t].obj_type /\ ~Active(tm, t))
    <3>1. a = <<l, tm>>
      BY <1>6, <2>2 DEF AfterCmd, a, t
    <3>2. a[1] = l /\ a[2] = tm
      BY <3>1
    <3> QED BY <3>2 DEF a
  <2> QED BY <2>1, <2>2
<1> QED BY <1>1, <1>2, <1>3, <1>4, <1>5, <1>6 DEF Cmds

-----------------------------------------------------------------------------
(* The timer task.                                                          *)

Places == {"loop", "recv", "recv_delta", "msg", "msg_delta", "cmd", "cmd_delta", "timeout", "cb"}

\* The locals of the timer task at a place, with a message, in a wait or at a timer.
LEMMA TaskAtIs ==
    ASSUME NEW p \in Places
    PROVE  TaskAt(p) \in Locals /\ TaskAt(p).pc = p
<1>1. 0 \in Nat
  BY SMTT(60)
<1> QED BY <1>1 DEF TaskAt, Locals, Places

\* The locals of the timer task with a command,
LEMMA TaskWithMsg ==
    ASSUME NEW p \in Places, NEW m \in Message
    PROVE  /\ [TaskAt(p) EXCEPT !.msg = m] \in Locals
           /\ [TaskAt(p) EXCEPT !.msg = m].pc = p /\ [TaskAt(p) EXCEPT !.msg = m].msg = m
<1>1. TaskAt(p) \in Locals /\ TaskAt(p).pc = p
  BY TaskAtIs
<1>2. [TaskAt(p) EXCEPT !.msg = m] \in Locals
  BY <1>1 DEF Locals
<1>3. [TaskAt(p) EXCEPT !.msg = m].pc = p /\ [TaskAt(p) EXCEPT !.msg = m].msg = m
  BY <1>1, SMTT(60) DEF Locals
<1> QED BY <1>2, <1>3

\* with a time to wait,
LEMMA TaskWithWait ==
    ASSUME NEW p \in Places, NEW n \in Nat
    PROVE  /\ [TaskAt(p) EXCEPT !.wait = n] \in Locals
           /\ [TaskAt(p) EXCEPT !.wait = n].pc = p /\ [TaskAt(p) EXCEPT !.wait = n].wait = n
<1>1. TaskAt(p) \in Locals /\ TaskAt(p).pc = p
  BY TaskAtIs
<1>2. [TaskAt(p) EXCEPT !.wait = n] \in Locals
  BY <1>1 DEF Locals
<1>3. [TaskAt(p) EXCEPT !.wait = n].pc = p /\ [TaskAt(p) EXCEPT !.wait = n].wait = n
  BY <1>1, SMTT(60) DEF Locals
<1> QED BY <1>2, <1>3

\* and with the timer it looks at.
LEMMA TaskWithTimer ==
    ASSUME NEW p \in Places, NEW t \in Timers
    PROVE  /\ [TaskAt(p) EXCEPT !.q = t] \in Locals
           /\ [TaskAt(p) EXCEPT !.q = t].pc = p /\ [TaskAt(p) EXCEPT !.q = t].q = t
<1>1. TaskAt(p) \in Locals /\ TaskAt(p).pc = p
  BY TaskAtIs
<1>2. [TaskAt(p) EXCEPT !.q = t] \in Locals
  BY <1>1 DEF Locals
<1>3. [TaskAt(p) EXCEPT !.q = t].pc = p /\ [TaskAt(p) EXCEPT !.q = t].q = t
  BY <1>1, SMTT(60) DEF Locals
<1> QED BY <1>2, <1>3

-----------------------------------------------------------------------------
(* The parts of the invariant.                                              *)

\* The state in the terms of the lemmas above
LEMMA InvIs ==
    ASSUME TimerInv
    PROVE  /\ TypeOK /\ age \in Nat /\ Matched(g_timer_head, timer) /\ BlocksConserved /\ TaskInv /\ WaitInv
           /\ use.punctual => age = 0 /\ OnTime(g_timer_head, timer)
<1>1. TypeOK /\ ListMatchesState /\ BlocksConserved /\ TaskInv /\ SortedByRemain /\ FiresOnTime /\ WaitInv
  BY DEF TimerInv
<1>2. age \in Nat
  BY <1>1, TimerAssumption, SMTT(60) DEF TypeOK
<1>3. Matched(g_timer_head, timer)
  BY <1>1 DEF TypeOK, ListMatchesState, Matched
<1>4. ASSUME use.punctual PROVE age = 0 /\ OnTime(g_timer_head, timer)
  <2>1. \A i \in 1..Len(g_timer_head) : Due(timer)[g_timer_head[i]] = timer[g_timer_head[i]].match
    <3>1. \A i \in 1..Len(g_timer_head) : g_timer_head[i] \in Timers
      BY <1>1, SMTT(60) DEF TypeOK
    <3> QED BY <3>1 DEF Due
  <2>2. SortedBy(g_timer_head, Due(timer))
    BY <1>1, <1>4, <2>1 DEF SortedByRemain, SortedBy
  <2> QED BY <1>1, <1>4, <2>2 DEF OnTime, FiresOnTime, WaitInv
<1> QED BY <1>1, <1>2, <1>3, <1>4

\* What has to be shown of a step
LEMMA InvAfter ==
    ASSUME TypeOK', Matched(g_timer_head', timer'), BlocksConserved', TaskInv', WaitInv',
           use'.punctual => OnTime(g_timer_head', timer')
    PROVE  TimerInv'
<1>1. ListMatchesState'
  BY DEF ListMatchesState, Matched
<1>2. SortedByRemain'
  <2> SUFFICES ASSUME use'.punctual, NEW i \in 1..Len(g_timer_head'), NEW j \in 1..Len(g_timer_head'), i < j
               PROVE  timer'[g_timer_head'[i]].match <= timer'[g_timer_head'[j]].match
    BY DEF SortedByRemain
  <2>1. Due(timer')[g_timer_head'[i]] <= Due(timer')[g_timer_head'[j]]
    BY DEF OnTime, SortedBy
  <2>2. g_timer_head'[i] \in Timers /\ g_timer_head'[j] \in Timers
    BY SMTT(60) DEF TypeOK
  <2> QED BY <2>1, <2>2 DEF Due
<1>3. FiresOnTime'
  BY DEF FiresOnTime, OnTime
<1> QED BY <1>1, <1>2, <1>3 DEF TimerInv

\* The senders with a block
Holders == {s \in Senders : block[s] # NONE}

\* The senders that have a block are finitely many,
LEMMA HoldersFinite == IsFiniteSet(Holders) /\ Cardinality(Holders) \in Nat
<1>1. IsFiniteSet(Holders)
  BY TimerAssumption, FS_Subset DEF Holders
<1> QED BY <1>1, FS_CardinalityType

\* also after a step,
LEMMA HoldersFiniteAfter == IsFiniteSet(Holders') /\ Cardinality(Holders') \in Nat
<1>1. IsFiniteSet(Holders')
  BY TimerAssumption, FS_Subset DEF Holders
<1> QED BY <1>1, FS_CardinalityType

\* and one more or one less when a sender gets a block or gives it away.
LEMMA HoldersChange ==
    ASSUME TypeOK, NEW s \in Senders, NEW b, block' = [block EXCEPT ![s] = b]
    PROVE  /\ block[s] = NONE /\ b # NONE => Cardinality(Holders') = Cardinality(Holders) + 1
           /\ block[s] # NONE /\ b = NONE => Cardinality(Holders) = Cardinality(Holders') + 1
<1>1. block'[s] = b /\ \A x \in Senders : x # s => block'[x] = block[x]
  BY DEF TypeOK
<1>2. ASSUME block[s] = NONE, b # NONE PROVE Cardinality(Holders') = Cardinality(Holders) + 1
  <2>1. Holders' = Holders \cup {s} /\ s \notin Holders
    BY <1>1, <1>2 DEF Holders
  <2> QED BY <2>1, HoldersFinite, FS_AddElement
<1>3. ASSUME block[s] # NONE, b = NONE PROVE Cardinality(Holders) = Cardinality(Holders') + 1
  <2>1. Holders = Holders' \cup {s} /\ s \notin Holders'
    BY <1>1, <1>3 DEF Holders
  <2> QED BY <2>1, HoldersFiniteAfter, FS_AddElement
<1> QED BY <1>2, <1>3

\* The blocks, in numbers
Carried == IF task.pc \in {"msg", "msg_delta"} THEN 1 ELSE 0
\* Where the blocks are,
LEMMA BlocksAre == BlocksConserved <=> g_timer_pool + Len(g_timer_queue) + (Cardinality(Holders) + Carried) = MSG_NUM
  BY DEF BlocksConserved, Holders, Carried
\* and where they are after a step.
LEMMA BlocksAreAfter ==
    BlocksConserved' <=> g_timer_pool' + Len(g_timer_queue') + (Cardinality(Holders') + Carried') = MSG_NUM
  BY DEF BlocksConserved, Holders, Carried

-----------------------------------------------------------------------------
(* The calls.                                                               *)

\* timer_create
LEMMA TimerCreateStep ==
    ASSUME NatLeast, TimerInv, NEW t \in Timers, TimerCreate(t)
    PROVE  TimerInv'
<1>1. /\ TypeOK /\ age \in Nat /\ Matched(g_timer_head, timer) /\ BlocksConserved /\ TaskInv /\ WaitInv
      /\ use.punctual => age = 0 /\ OnTime(g_timer_head, timer)
  BY InvIs
<1>2. PICK p \in use.timers[t] :
         timer' = [timer EXCEPT ![t] = [Unused EXCEPT !.obj_type = TRUE, !.init_count = p[1], !.round_ticks = p[2]]]
  BY DEF TimerCreate
<1>3. UNCHANGED <<g_timer_head, age, g_timer_queue, g_timer_pool, block, task, use>> /\ ~timer[t].obj_type
  BY DEF TimerCreate
<1> DEFINE r == [Unused EXCEPT !.obj_type = TRUE, !.init_count = p[1], !.round_ticks = p[2]]
<1>4. p[1] \in Nat \ {0} /\ p[2] \in Nat
  <2>1. use.timers \in [Timers -> SUBSET (Delays \X Rounds)]
    BY <1>1, TimerAssumption DEF TypeOK
  <2>2. p \in Delays \X Rounds
    BY <2>1
  <2>3. p[1] \in Delays /\ p[2] \in Rounds
    BY <2>2, SMTT(60)
  <2> QED BY <2>3, TimerAssumption
<1>5. r \in Control
  BY <1>4, UnusedIs DEF Control
<1>6. r.state = "DEACTIVE"
  BY UnusedIs, SMTT(60) DEF Control
<1>7. timer' = [timer EXCEPT ![t] = r]
  BY <1>2
<1> HIDE DEF r
<1>8. ~Active(timer, t)
  BY <1>1, <1>3 DEF Matched
<1>9. Matched(g_timer_head, timer') /\ (OnTime(g_timer_head, timer) => OnTime(g_timer_head, timer'))
  BY <1>1, <1>5, <1>6, <1>7, <1>8, MatchedChange
<1>10. TypeOK'
  BY <1>1, <1>3, <1>9 DEF TypeOK, Matched
<1>11. BlocksConserved' /\ TaskInv'
  BY <1>1, <1>3 DEF BlocksConserved, TaskInv, Counting
<1>12. WaitInv'
  <2>1. ASSUME g_timer_head # <<>> PROVE timer'[Head(g_timer_head)] = timer[Head(g_timer_head)]
    <3>1. Head(g_timer_head) \in Timers /\ Contains(g_timer_head, Head(g_timer_head))
      BY <1>1, <2>1, TailMembers DEF Matched
    <3>2. Head(g_timer_head) # t
      BY <1>1, <1>8, <3>1 DEF Matched
    <3> QED BY <1>1, <1>7, <3>1, <3>2 DEF Matched
  <2>2. task.pc = "recv_delta" => g_timer_head # <<>>
    BY <1>1 DEF TaskInv
  <2> QED BY <1>1, <1>3, <2>1, <2>2 DEF WaitInv
<1> QED BY <1>1, <1>3, <1>9, <1>10, <1>11, <1>12, InvAfter

\* A block from the pool
LEMMA SendAllocStep ==
    ASSUME TimerInv, NEW s \in Senders, SendAlloc(s)
    PROVE  TimerInv'
<1>1. /\ TypeOK /\ age \in Nat /\ Matched(g_timer_head, timer) /\ BlocksConserved /\ TaskInv /\ WaitInv
      /\ use.punctual => age = 0 /\ OnTime(g_timer_head, timer)
  BY InvIs
<1>2. PICK m \in Msgs : block' = [block EXCEPT ![s] = m]
  BY DEF SendAlloc
<1>3. /\ block[s] = NONE /\ g_timer_pool > 0 /\ g_timer_pool' = g_timer_pool - 1
      /\ UNCHANGED <<g_timer_head, timer, age, g_timer_queue, task, use>>
  BY DEF SendAlloc
<1>4. m \in Message
  BY DEF Msgs
<1>5. m # NONE
  BY <1>4, TimerAssumption
<1>6. Cardinality(Holders') = Cardinality(Holders) + 1 /\ Cardinality(Holders) \in Nat
  BY <1>1, <1>2, <1>3, <1>5, HoldersChange, HoldersFinite
<1>7. TypeOK'
  <2>1. g_timer_pool' \in 0..MSG_NUM
    BY <1>1, <1>3, TimerAssumption, SMTT(60) DEF TypeOK
  <2>2. block' \in [Senders -> Message \cup {NONE}]
    BY <1>1, <1>2, <1>4 DEF TypeOK
  <2> QED BY <1>1, <1>3, <2>1, <2>2 DEF TypeOK
<1>8. BlocksConserved'
  <2>1. Carried' = Carried /\ Carried \in Nat
    BY <1>3, SMTT(60) DEF Carried
  <2>2. g_timer_pool \in Int /\ Len(g_timer_queue) \in Nat /\ g_timer_queue' = g_timer_queue
    BY <1>1, <1>3, SMTT(60) DEF TypeOK
  <2>3. g_timer_pool + Len(g_timer_queue) + (Cardinality(Holders) + Carried) = MSG_NUM
    BY <1>1, BlocksAre
  <2>4. g_timer_pool' + Len(g_timer_queue') + (Cardinality(Holders') + Carried') = MSG_NUM
    BY <1>3, <1>6, <2>1, <2>2, <2>3, SMTT(60)
  <2> QED BY <2>4, BlocksAreAfter
<1>9. TaskInv' /\ WaitInv'
  BY <1>1, <1>3 DEF TaskInv, WaitInv, Counting
<1> QED BY <1>1, <1>3, <1>7, <1>8, <1>9, InvAfter

\* The timer task gets a message while it waits.
LEMMA TaskGets ==
    ASSUME task \in Locals, Waits, NEW m \in Message,
           task' = [task EXCEPT !.pc = IF @ = "recv" THEN "msg" ELSE "msg_delta", !.msg = m, !.wait = 0]
    PROVE  task' \in Locals /\ task'.pc \in {"msg", "msg_delta"} /\ task'.msg = m
<1>1. 0 \in Nat
  BY SMTT(60)
<1>2. ASSUME NEW l \in Locals, NEW p \in {"msg", "msg_delta"}
      PROVE  /\ [l EXCEPT !.pc = p, !.msg = m, !.wait = 0] \in Locals
             /\ [l EXCEPT !.pc = p, !.msg = m, !.wait = 0].pc = p /\ [l EXCEPT !.pc = p, !.msg = m, !.wait = 0].msg = m
  <2>1. [l EXCEPT !.pc = p, !.msg = m, !.wait = 0] \in Locals
    BY <1>1, <1>2 DEF Locals
  <2>2. [l EXCEPT !.pc = p, !.msg = m, !.wait = 0].pc = p /\ [l EXCEPT !.pc = p, !.msg = m, !.wait = 0].msg = m
    BY <1>2, SMTT(60) DEF Locals
  <2> QED BY <2>1, <2>2
<1>3. CASE task.pc = "recv"
  <2>1. task' = [task EXCEPT !.pc = "msg", !.msg = m, !.wait = 0]
    BY <1>3
  <2> QED BY <1>2, <2>1
<1>4. CASE task.pc # "recv"
  <2>1. task' = [task EXCEPT !.pc = "msg_delta", !.msg = m, !.wait = 0]
    BY <1>4
  <2> QED BY <1>2, <2>1
<1> QED BY <1>3, <1>4

\* krhino_queue_back_send
LEMMA SendMsgStep ==
    ASSUME TimerInv, NEW s \in Senders, SendMsg(s)
    PROVE  TimerInv'
<1>1. /\ TypeOK /\ age \in Nat /\ Matched(g_timer_head, timer) /\ BlocksConserved /\ TaskInv /\ WaitInv
      /\ use.punctual => age = 0 /\ OnTime(g_timer_head, timer)
  BY InvIs
<1>2. block[s] # NONE /\ block' = [block EXCEPT ![s] = NONE] /\ UNCHANGED <<g_timer_head, timer, age, use>>
  BY DEF SendMsg
<1>3. block[s] \in Message /\ block' \in [Senders -> Message \cup {NONE}]
  BY <1>1, <1>2 DEF TypeOK
<1>4. /\ Cardinality(Holders) = Cardinality(Holders') + 1 /\ Cardinality(Holders') \in Nat
  BY <1>1, <1>2, HoldersChange, HoldersFiniteAfter
<1>5. /\ g_timer_pool \in 0..MSG_NUM /\ Len(g_timer_queue) \in Nat /\ MSG_NUM \in Nat
      /\ g_timer_queue \in Seq(Message) /\ task \in Locals
  BY <1>1, TimerAssumption, SMTT(60) DEF TypeOK
<1>6. g_timer_pool + Len(g_timer_queue) + (Cardinality(Holders) + Carried) = MSG_NUM
  BY <1>1, BlocksAre
<1>7. Carried \in {0, 1}
  BY DEF Carried
<1>8. CASE Waits
  <2>1. /\ task' = [task EXCEPT !.pc = IF @ = "recv" THEN "msg" ELSE "msg_delta", !.msg = block[s], !.wait = 0]
        /\ UNCHANGED <<g_timer_queue, g_timer_pool>>
    BY <1>8 DEF SendMsg
  <2>2. task' \in Locals /\ task'.pc \in {"msg", "msg_delta"} /\ task'.msg = block[s]
    BY <1>3, <1>5, <1>8, <2>1, TaskGets
  <2>3. TypeOK'
    BY <1>1, <1>2, <1>3, <2>1, <2>2 DEF TypeOK
  <2>4. Carried = 0 /\ Carried' = 1
    BY <1>8, <2>2 DEF Carried, Waits
  <2>5. g_timer_pool' + Len(g_timer_queue') + (Cardinality(Holders') + Carried') = MSG_NUM
    BY <1>4, <1>5, <1>6, <2>1, <2>4, SMTT(60)
  <2>6. age = 0
    BY <1>1, <1>8 DEF TaskInv, Counting, Waits
  <2>7. TaskInv' /\ WaitInv'
    BY <1>2, <2>2, <2>6 DEF TaskInv, WaitInv
  <2> QED BY <1>1, <1>2, <2>3, <2>5, <2>7, BlocksAreAfter, InvAfter
<1>9. CASE ~Waits
  <2>1. UNCHANGED task
    BY <1>9 DEF SendMsg
  <2>2. TaskInv' /\ WaitInv'
    BY <1>1, <1>2, <2>1 DEF TaskInv, WaitInv, Counting
  <2>3. Carried' = Carried
    BY <2>1 DEF Carried
  <2>4. CASE Len(g_timer_queue) < MSG_NUM
    <3>1. g_timer_queue' = Append(g_timer_queue, block[s]) /\ UNCHANGED g_timer_pool
      BY <1>9, <2>4 DEF SendMsg
    <3>2. g_timer_queue' \in Seq(Message) /\ Len(g_timer_queue') = Len(g_timer_queue) + 1
      BY <1>3, <1>5, <3>1, SMTT(60)
    <3>3. TypeOK'
      BY <1>1, <1>2, <1>3, <2>1, <3>1, <3>2 DEF TypeOK
    <3>4. g_timer_pool' + Len(g_timer_queue') + (Cardinality(Holders') + Carried') = MSG_NUM
      BY <1>4, <1>5, <1>6, <1>7, <2>3, <3>1, <3>2, SMTT(60)
    <3> QED BY <1>1, <1>2, <2>2, <3>3, <3>4, BlocksAreAfter, InvAfter
  <2>5. CASE ~(Len(g_timer_queue) < MSG_NUM)
    <3>1. g_timer_pool' = g_timer_pool + 1 /\ UNCHANGED g_timer_queue
      BY <1>9, <2>5 DEF SendMsg
    <3>2. g_timer_pool' \in 0..MSG_NUM
      BY <1>4, <1>5, <1>6, <1>7, <3>1, SMTT(60)
    <3>3. TypeOK'
      BY <1>1, <1>2, <1>3, <2>1, <3>1, <3>2 DEF TypeOK
    <3>4. g_timer_pool' + Len(g_timer_queue') + (Cardinality(Holders') + Carried') = MSG_NUM
      BY <1>4, <1>5, <1>6, <1>7, <2>3, <3>1, SMTT(60)
    <3> QED BY <1>1, <1>2, <2>2, <3>3, <3>4, BlocksAreAfter, InvAfter
  <2> QED BY <2>4, <2>5
<1> QED BY <1>8, <1>9

-----------------------------------------------------------------------------
(* The timer task.                                                          *)

\* krhino_queue_recv: the task gets the first message of the queue, or blocks.
LEMMA QueueRecvStep ==
    ASSUME TypeOK, NEW blocked \in {"recv", "recv_delta"}, NEW received \in {"msg", "msg_delta"}, NEW n \in Nat,
           QueueRecv(blocked, received, n)
    PROVE  /\ task' \in Locals /\ g_timer_queue' \in Seq(Message)
           /\ \/ /\ task'.pc = received /\ task'.msg \in Message
                 /\ Len(g_timer_queue) = Len(g_timer_queue') + 1
              \/ task'.pc = blocked /\ task'.wait = n /\ g_timer_queue' = g_timer_queue
<1>1. blocked \in Places /\ received \in Places
  BY DEF Places
<1>2. g_timer_queue \in Seq(Message)
  BY DEF TypeOK
<1>3. CASE g_timer_queue # <<>>
  <2> DEFINE m == Head(g_timer_queue)
  <2>1. task' = [TaskAt(received) EXCEPT !.msg = m] /\ g_timer_queue' = Tail(g_timer_queue)
    BY <1>3 DEF QueueRecv
  <2>2. /\ m \in Message /\ Tail(g_timer_queue) \in Seq(Message)
        /\ Len(g_timer_queue) = Len(Tail(g_timer_queue)) + 1
    BY <1>2, <1>3, SMTT(60)
  <2> HIDE DEF m
  <2>3. /\ [TaskAt(received) EXCEPT !.msg = m] \in Locals
        /\ [TaskAt(received) EXCEPT !.msg = m].pc = received /\ [TaskAt(received) EXCEPT !.msg = m].msg = m
    BY <1>1, <2>2, TaskWithMsg
  <2> QED BY <2>1, <2>2, <2>3
<1>4. CASE g_timer_queue = <<>>
  <2>1. task' = [TaskAt(blocked) EXCEPT !.wait = n] /\ g_timer_queue' = g_timer_queue
    BY <1>4 DEF QueueRecv
  <2>2. /\ [TaskAt(blocked) EXCEPT !.wait = n] \in Locals
        /\ [TaskAt(blocked) EXCEPT !.wait = n].pc = blocked /\ [TaskAt(blocked) EXCEPT !.wait = n].wait = n
    BY <1>1, TaskWithWait
  <2> QED BY <1>2, <2>1, <2>2
<1> QED BY <1>3, <1>4

\* The end of the loops of the timer task
LEMMA LoopStep ==
    ASSUME TimerInv, Loop
    PROVE  TimerInv'
<1>1. /\ TypeOK /\ age \in Nat /\ Matched(g_timer_head, timer) /\ BlocksConserved /\ TaskInv /\ WaitInv
      /\ use.punctual => age = 0 /\ OnTime(g_timer_head, timer)
  BY InvIs
<1>2. task.pc = "loop" /\ UNCHANGED <<g_timer_head, timer, g_timer_pool, block, use>>
  BY DEF Loop
<1>3. age = 0 /\ Carried = 0 /\ Holders' = Holders
  BY <1>1, <1>2 DEF TaskInv, Counting, Carried, Holders
<1>4. /\ g_timer_pool + Len(g_timer_queue) + (Cardinality(Holders) + Carried) = MSG_NUM /\ Cardinality(Holders) \in Nat
  BY <1>1, BlocksAre, HoldersFinite
<1>5. 0 \in 0..LATE_MAX /\ 0 \in Nat /\ g_timer_pool \in Int /\ Len(g_timer_queue) \in Nat
  BY <1>1, TimerAssumption, SMTT(60) DEF TypeOK
<1>6. ASSUME NEW blocked \in {"recv", "recv_delta"}, NEW received \in {"msg", "msg_delta"}, NEW n \in Nat,
             QueueRecv(blocked, received, n), UNCHANGED age,
             blocked = "recv" => g_timer_head = <<>>,
             blocked = "recv_delta" => g_timer_head # <<>> /\ n > 0 /\ n = timer[Head(g_timer_head)].match
      PROVE  TimerInv'
  <2>1. /\ task' \in Locals /\ g_timer_queue' \in Seq(Message)
        /\ \/ /\ task'.pc = received /\ task'.msg \in Message
              /\ Len(g_timer_queue) = Len(g_timer_queue') + 1
           \/ task'.pc = blocked /\ task'.wait = n /\ g_timer_queue' = g_timer_queue
    BY <1>1, <1>6, QueueRecvStep
  <2>2. TypeOK'
    BY <1>1, <1>2, <1>6, <2>1 DEF TypeOK
  <2>3. CASE task'.pc = received /\ task'.msg \in Message /\ Len(g_timer_queue) = Len(g_timer_queue') + 1
    <3>1. Carried' = 1
      BY <1>6, <2>3 DEF Carried
    <3>2. Len(g_timer_queue') \in Nat
      BY <2>1, SMTT(60)
    <3>3. g_timer_pool' + Len(g_timer_queue') + (Cardinality(Holders') + Carried') = MSG_NUM
      BY <1>2, <1>3, <1>4, <1>5, <2>3, <3>1, <3>2, SMTT(60)
    <3>4. TaskInv' /\ WaitInv'
      BY <1>3, <1>6, <2>3, TimerAssumption DEF TaskInv, WaitInv
    <3> QED BY <1>1, <1>2, <2>2, <3>3, <3>4, BlocksAreAfter, InvAfter
  <2>4. CASE task'.pc = blocked /\ task'.wait = n /\ g_timer_queue' = g_timer_queue
    <3>1. Carried' = 0
      BY <1>6, <2>4 DEF Carried
    <3>2. g_timer_pool' + Len(g_timer_queue') + (Cardinality(Holders') + Carried') = MSG_NUM
      BY <1>2, <1>3, <1>4, <2>4, <3>1
    <3>3. TaskInv' /\ WaitInv'
      BY <1>2, <1>3, <1>6, <2>4 DEF TaskInv, WaitInv
    <3> QED BY <1>1, <1>2, <2>2, <3>2, <3>3, BlocksAreAfter, InvAfter
  <2> QED BY <2>1, <2>3, <2>4
<1>7. CASE g_timer_head = <<>>
  <2>1. QueueRecv("recv", "msg", 0) /\ UNCHANGED age
    BY <1>7 DEF Loop
  <2> QED BY <1>5, <1>6, <1>7, <2>1
<1>8. CASE g_timer_head # <<>> /\ timer[Head(g_timer_head)].match > 0
  <2> DEFINE d == timer[Head(g_timer_head)].match
  <2>1. QueueRecv("recv_delta", "msg_delta", d) /\ UNCHANGED age
    <3>1. ~(d <= 0)
      <4>1. timer[Head(g_timer_head)] \in Control
        BY <1>1, <1>8, TailMembers DEF Matched
      <4> QED BY <1>8, <4>1, SMTT(60) DEF Control
    <3> QED BY <1>8, <3>1 DEF Loop
  <2>2. d \in Nat
    <3>1. timer[Head(g_timer_head)] \in Control
      BY <1>1, <1>8, TailMembers DEF Matched
    <3> QED BY <1>8, <3>1, SMTT(60) DEF Control
  <2> QED BY <1>6, <1>8, <2>1, <2>2
<1>9. CASE g_timer_head # <<>> /\ ~(timer[Head(g_timer_head)].match > 0)
  <2> DEFINE h == Head(g_timer_head)
  <2>1. age' = 0 /\ task' = [TaskAt("cb") EXCEPT !.q = h] /\ UNCHANGED g_timer_queue
    BY <1>9 DEF Loop
  <2>2. h \in Timers /\ Contains(g_timer_head, h)
    BY <1>1, <1>9, TailMembers DEF Matched
  <2> HIDE DEF h
  <2>3. task' \in Locals /\ task'.pc = "cb" /\ task'.q = h
    BY <2>1, <2>2, TaskWithTimer DEF Places
  <2>4. TypeOK'
    BY <1>1, <1>2, <1>5, <2>1, <2>3 DEF TypeOK
  <2>5. Carried' = 0
    BY <2>3 DEF Carried
  <2>6. g_timer_pool' + Len(g_timer_queue') + (Cardinality(Holders') + Carried') = MSG_NUM
    BY <1>2, <1>3, <1>4, <2>1, <2>5
  <2>7. TaskInv' /\ WaitInv'
    BY <1>2, <2>1, <2>2, <2>3 DEF TaskInv, WaitInv, Counting
  <2> QED BY <1>1, <1>2, <2>4, <2>6, <2>7, BlocksAreAfter, InvAfter
<1> QED BY <1>7, <1>8, <1>9

\* The task reads g_timer_count and frees the block of the message.
LEMMA ReceivedStep ==
    ASSUME TimerInv, Received
    PROVE  TimerInv'
<1>1. /\ TypeOK /\ age \in Nat /\ Matched(g_timer_head, timer) /\ BlocksConserved /\ TaskInv /\ WaitInv
      /\ use.punctual => age = 0 /\ OnTime(g_timer_head, timer)
  BY InvIs
<1>2. /\ task.pc \in {"msg", "msg_delta"} /\ age' = 0 /\ g_timer_pool' = g_timer_pool + 1
      /\ UNCHANGED <<g_timer_head, timer, g_timer_queue, block, use>>
  BY DEF Received
<1>3. task' \in Locals /\ task'.pc \in {"cmd", "cmd_delta"} /\ task'.msg = task.msg
  <2>1. ASSUME NEW p \in {"cmd", "cmd_delta"}
        PROVE  /\ [task EXCEPT !.pc = p] \in Locals
               /\ [task EXCEPT !.pc = p].pc = p /\ [task EXCEPT !.pc = p].msg = task.msg
    <3>1. task \in Locals
      BY <1>1 DEF TypeOK
    <3>2. [task EXCEPT !.pc = p] \in Locals
      BY <2>1, <3>1 DEF Locals
    <3>3. [task EXCEPT !.pc = p].pc = p /\ [task EXCEPT !.pc = p].msg = task.msg
      BY <3>1, SMTT(60) DEF Locals
    <3> QED BY <3>2, <3>3
  <2>2. task' = [task EXCEPT !.pc = "cmd"] \/ task' = [task EXCEPT !.pc = "cmd_delta"]
    BY DEF Received
  <2> QED BY <2>1, <2>2
<1>4. Carried = 1 /\ Carried' = 0 /\ Holders' = Holders
  BY <1>2, <1>3 DEF Carried, Holders
<1>5. g_timer_pool + Len(g_timer_queue) + (Cardinality(Holders) + Carried) = MSG_NUM /\ Cardinality(Holders) \in Nat
  BY <1>1, BlocksAre, HoldersFinite
<1>6. 0 \in 0..LATE_MAX /\ g_timer_pool \in Nat /\ Len(g_timer_queue) \in Nat /\ MSG_NUM \in Nat
  BY <1>1, TimerAssumption, SMTT(60) DEF TypeOK
<1>7. g_timer_pool' + Len(g_timer_queue') + (Cardinality(Holders') + Carried') = MSG_NUM
  BY <1>2, <1>4, <1>5, <1>6, SMTT(60)
<1>8. g_timer_pool' \in 0..MSG_NUM
  BY <1>2, <1>4, <1>5, <1>6, SMTT(60)
<1>9. TypeOK'
  BY <1>1, <1>2, <1>3, <1>6, <1>8 DEF TypeOK
<1>10. TaskInv' /\ WaitInv'
  BY <1>1, <1>2, <1>3 DEF TaskInv, WaitInv, Counting
<1> QED BY <1>1, <1>2, <1>7, <1>9, <1>10, BlocksAreAfter, InvAfter

\* The steps of the timer task that leave the blocks alone
LEMMA BlocksStay ==
    ASSUME BlocksConserved, Carried' = Carried, UNCHANGED <<g_timer_queue, g_timer_pool, block>>
    PROVE  BlocksConserved'
<1>1. Holders' = Holders
  BY DEF Holders
<1>2. g_timer_pool + Len(g_timer_queue) + (Cardinality(Holders) + Carried) = MSG_NUM
  BY BlocksAre
<1> QED BY <1>1, <1>2, BlocksAreAfter

\* The wait of the timer task is over.
LEMMA TimedOutStep ==
    ASSUME TimerInv, TimedOut
    PROVE  TimerInv'
<1>1. /\ TypeOK /\ age \in Nat /\ Matched(g_timer_head, timer) /\ BlocksConserved /\ TaskInv /\ WaitInv
      /\ use.punctual => age = 0 /\ OnTime(g_timer_head, timer)
  BY InvIs
<1> DEFINE h == Head(g_timer_head)
<1>2. /\ task.pc = "timeout" /\ age' = 0 /\ task' = [TaskAt("cb") EXCEPT !.q = h]
      /\ UNCHANGED <<g_timer_head, timer, g_timer_queue, g_timer_pool, block, use>>
  BY DEF TimedOut
<1>3. g_timer_head # <<>>
  BY <1>1, <1>2 DEF TaskInv
<1>4. h \in Timers /\ Contains(g_timer_head, h)
  BY <1>1, <1>3, TailMembers DEF Matched
<1> HIDE DEF h
<1>5. task' \in Locals /\ task'.pc = "cb" /\ task'.q = h
  BY <1>2, <1>4, TaskWithTimer DEF Places
<1>6. 0 \in 0..LATE_MAX
  BY TimerAssumption, SMTT(60)
<1>7. TypeOK'
  BY <1>1, <1>2, <1>5, <1>6 DEF TypeOK
<1>8. BlocksConserved'
  BY <1>1, <1>2, <1>5, BlocksStay DEF Carried
<1>9. TaskInv' /\ WaitInv'
  BY <1>2, <1>4, <1>5 DEF TaskInv, WaitInv, Counting
<1> QED BY <1>1, <1>2, <1>7, <1>8, <1>9, InvAfter

\* The end of a command or of a round of timer_cb_proc: the task goes on with a
\* timer of the list or leaves the loop.
LEMMA RoundStep ==
    ASSUME TimerInv, task.pc \in {"cmd", "cmd_delta", "cb"}, Matched(g_timer_head', timer'), Forget,
           UNCHANGED <<g_timer_queue, g_timer_pool, block, use>>,
           age = 0 /\ OnTime(g_timer_head, timer) => OnTime(g_timer_head', timer'),
           task' = TaskAt("loop")
           \/ \E t \in Timers : Contains(g_timer_head', t) /\ task' = [TaskAt("cb") EXCEPT !.q = t]
    PROVE  TimerInv'
<1>1. /\ TypeOK /\ age \in Nat /\ Matched(g_timer_head, timer) /\ BlocksConserved /\ TaskInv /\ WaitInv
      /\ use.punctual => age = 0 /\ OnTime(g_timer_head, timer)
  BY InvIs
<1>2. /\ task' \in Locals
      /\ task'.pc = "loop" \/ (task'.pc = "cb" /\ Contains(g_timer_head', task'.q))
  <2>1. CASE task' = TaskAt("loop")
    BY <2>1, TaskAtIs DEF Places
  <2>2. ASSUME NEW t \in Timers, Contains(g_timer_head', t), task' = [TaskAt("cb") EXCEPT !.q = t]
        PROVE  task' \in Locals /\ task'.pc = "cb" /\ task'.q = t
    BY <2>2, TaskWithTimer DEF Places
  <2> QED BY <2>1, <2>2
<1>3. age' = IF task'.pc = "loop" THEN 0 ELSE age
  BY DEF Forget
<1>4. age' \in 0..LATE_MAX
  <2>1. age \in 0..LATE_MAX /\ 0 \in 0..LATE_MAX
    BY <1>1, TimerAssumption, SMTT(60) DEF TypeOK
  <2> QED BY <1>3, <2>1
<1>5. TypeOK'
  BY <1>1, <1>2, <1>4 DEF TypeOK, Matched
<1>6. Carried' = Carried
  BY <1>2 DEF Carried
<1>7. BlocksConserved'
  BY <1>1, <1>6, BlocksStay
<1>8. TaskInv'
  BY <1>2, <1>3 DEF TaskInv, Counting
<1>9. WaitInv'
  BY <1>1, <1>2, <1>3 DEF WaitInv
<1> QED BY <1>1, <1>5, <1>7, <1>8, <1>9, InvAfter

\* timer_cmd_proc
LEMMA TimerCmdProcStep ==
    ASSUME NatLeast, TimerInv, TimerCmdProc
    PROVE  TimerInv'
<1>1. /\ TypeOK /\ age \in Nat /\ Matched(g_timer_head, timer) /\ TaskInv
  BY InvIs
<1> DEFINE after == AfterCmd(g_timer_head, timer, task.msg)
<1>2. /\ task.pc \in {"cmd", "cmd_delta"} /\ g_timer_head' = after[1] /\ timer' = after[2]
      /\ task' = IF task.pc = "cmd" \/ after[1] = <<>> THEN TaskAt("loop") ELSE [TaskAt("cb") EXCEPT !.q = Head(after[1])]
      /\ Forget /\ UNCHANGED <<g_timer_queue, g_timer_pool, block, use>>
  BY DEF TimerCmdProc
<1>3. task.msg \in Message
  <2>1. task.msg # NONE
    BY <1>1, <1>2 DEF TaskInv
  <2>2. task.msg \in Message \cup {NONE}
    BY <1>1 DEF TypeOK, Locals
  <2> QED BY <2>1, <2>2
<1>4. Matched(after[1], after[2]) /\ (age = 0 /\ OnTime(g_timer_head, timer) => OnTime(after[1], after[2]))
  BY <1>1, <1>3, MatchedAfterCmd
<1> HIDE DEF after
<1>5. Matched(g_timer_head', timer') /\ (age = 0 /\ OnTime(g_timer_head, timer) => OnTime(g_timer_head', timer'))
  BY <1>2, <1>4
<1>6. task' = TaskAt("loop") \/ (g_timer_head' # <<>> /\ task' = [TaskAt("cb") EXCEPT !.q = Head(g_timer_head')])
  BY <1>2
<1>7. g_timer_head' # <<>> => Head(g_timer_head') \in Timers /\ Contains(g_timer_head', Head(g_timer_head'))
  BY <1>5, TailMembers DEF Matched
<1> QED BY <1>2, <1>5, <1>6, <1>7, RoundStep

\* The timer after t is another timer of the list.
LEMMA NextIs ==
    ASSUME NEW l \in Seq(Timers), NoDup(l), NEW t, Contains(l, t)
    PROVE  Next1(l, t) = NONE \/ (Next1(l, t) \in Timers /\ Contains(l, Next1(l, t)) /\ Next1(l, t) # t)
<1> DEFINE k == CHOOSE i \in 1..Len(l) : l[i] = t
<1>1. k \in 1..Len(l) /\ l[k] = t
  BY DEF Contains
<1>2. Next1(l, t) = IF k = Len(l) THEN NONE ELSE l[k + 1]
  BY DEF Next1
<1> HIDE DEF k
<1>3. ASSUME k # Len(l) PROVE k + 1 \in 1..Len(l) /\ k + 1 # k /\ l[k + 1] \in Timers
  BY <1>1, <1>3, SMTT(60)
<1>4. ASSUME k # Len(l) PROVE Contains(l, l[k + 1]) /\ l[k + 1] # t
  BY <1>1, <1>3, <1>4 DEF Contains, NoDup
<1> QED BY <1>2, <1>3, <1>4

\* One round of timer_cb_proc
LEMMA TimerCbProcStep ==
    ASSUME NatLeast, TimerInv, TimerCbProc
    PROVE  TimerInv'
<1>1. /\ TypeOK /\ age \in Nat /\ Matched(g_timer_head, timer) /\ TaskInv
  BY InvIs
<1> DEFINE t == task.q
           rest == KlistRm(g_timer_head, t)
           again == timer[t].round_ticks
           ins == TimerListPriInsert(rest, timer, t, again)
<1>2. task.pc = "cb" /\ Forget /\ UNCHANGED <<g_timer_queue, g_timer_pool, block, use>>
  BY DEF TimerCbProc
<1>3. Contains(g_timer_head, t)
  BY <1>1, <1>2 DEF TaskInv
<1>4. g_timer_head \in Seq(Timers) /\ NoDup(g_timer_head) /\ timer \in [Timers -> Control]
  BY <1>1 DEF Matched
<1>5. t \in Timers
  BY <1>3, <1>4, NotEmpty
<1>6. timer[t].obj_type /\ again \in Nat /\ (timer[t].match + age <= 0 <=> ~(timer[t].match + age > 0))
  <2>1. timer[t].obj_type
    BY <1>1, <1>3, <1>5 DEF Matched
  <2>2. timer[t] \in Control
    BY <1>4, <1>5
  <2>3. timer[t].match + age <= 0 <=> ~(timer[t].match + age > 0)
    <3>1. timer[t].match \in Int
      BY <2>2 DEF Control
    <3> QED BY <1>1, <3>1, SMTT(60)
  <2> QED BY <2>1, <2>2, <2>3 DEF Control
<1>7. /\ rest \in Seq(Timers) /\ NoDup(rest) /\ \A x : Contains(rest, x) <=> Contains(g_timer_head, x) /\ x # t
      /\ \A f : SortedBy(g_timer_head, f) => SortedBy(rest, f)
  BY <1>4, KlistRmMembers
<1>8. CASE timer[t].match + age <= 0 /\ again > 0
  <2> DEFINE n == Next1(ins, t)
  <2>1. g_timer_head' = ins /\ timer' = Started(timer, t, again)
    BY <1>6, <1>8 DEF TimerCbProc
  <2>2. task' = IF n = NONE THEN TaskAt("loop") ELSE [TaskAt("cb") EXCEPT !.q = n]
    BY <1>6, <1>8 DEF TimerCbProc
  <2> HIDE DEF rest, again, t
  <2>3. \A x \in Timers : x # t => (Contains(rest, x) <=> Active(timer, x)) /\ (Active(timer, x) => timer[x].obj_type)
    BY <1>1, <1>7 DEF Matched
  <2>4. ~Contains(rest, t)
    BY <1>7
  <2>5. Matched(ins, Started(timer, t, again)) /\ Contains(ins, t)
    BY <1>1, <1>4, <1>5, <1>6, <1>7, <2>3, <2>4, MatchedStart
  <2>6. ASSUME age = 0, OnTime(g_timer_head, timer) PROVE OnTime(ins, Started(timer, t, again))
    <3>1. SortedBy(rest, Due(timer)) /\ \A x \in Timers : x # t /\ Active(timer, x) => timer[x].match >= 0
      BY <1>7, <2>6 DEF OnTime
    <3> QED BY <1>1, <1>4, <1>5, <1>6, <1>7, <2>3, <2>4, <2>6, <3>1, MatchedStart
  <2> HIDE DEF ins
  <2>7. n = NONE \/ (n \in Timers /\ Contains(ins, n))
    BY <2>5, NextIs DEF Matched
  <2> HIDE DEF n
  <2>8. /\ Matched(g_timer_head', timer')
        /\ age = 0 /\ OnTime(g_timer_head, timer) => OnTime(g_timer_head', timer')
    BY <2>1, <2>5, <2>6
  <2>9. task' = TaskAt("loop")
        \/ \E x \in Timers : Contains(g_timer_head', x) /\ task' = [TaskAt("cb") EXCEPT !.q = x]
    BY <2>1, <2>2, <2>7
  <2> QED BY <1>2, <2>8, <2>9, RoundStep
<1>9. CASE timer[t].match + age <= 0 /\ ~(again > 0)
  <2> DEFINE n == Next1(g_timer_head, t)
  <2>1. g_timer_head' = rest /\ timer' = Stopped(timer, t)
    BY <1>6, <1>9 DEF TimerCbProc
  <2>2. task' = IF n = NONE THEN TaskAt("loop") ELSE [TaskAt("cb") EXCEPT !.q = n]
    BY <1>6, <1>9 DEF TimerCbProc
  <2>3. /\ Matched(rest, Stopped(timer, t))
        /\ OnTime(g_timer_head, timer) => OnTime(rest, Stopped(timer, t))
    BY <1>1, <1>5, MatchedStop
  <2> HIDE DEF rest, again, t
  <2>4. n = NONE \/ (n \in Timers /\ Contains(g_timer_head, n) /\ n # t)
    BY <1>3, <1>4, NextIs
  <2> HIDE DEF n
  <2>5. task' = TaskAt("loop")
        \/ \E x \in Timers : Contains(g_timer_head', x) /\ task' = [TaskAt("cb") EXCEPT !.q = x]
    BY <1>7, <2>1, <2>2, <2>4
  <2> QED BY <1>2, <2>1, <2>3, <2>5, RoundStep
<1>10. CASE ~(timer[t].match + age <= 0)
  <2>1. task' = TaskAt("loop") /\ UNCHANGED <<g_timer_head, timer>>
    BY <1>10 DEF TimerCbProc
  <2> QED BY <1>1, <1>2, <2>1, RoundStep
<1> QED BY <1>8, <1>9, <1>10

-----------------------------------------------------------------------------
(* Time.                                                                    *)

\* A tick brings the active timers nearer and leaves the others alone.
LEMMA TickTimers ==
    ASSUME TypeOK, Tick
    PROVE  /\ timer' \in [Timers -> Control]
           /\ \A t \in Timers : /\ timer'[t].state = timer[t].state /\ timer'[t].obj_type = timer[t].obj_type
                                /\ timer[t].match \in Int /\ timer'[t].match \in Int
                                /\ Active(timer, t) => timer'[t].match = Passed(timer[t].match)
<1>1. timer \in [Timers -> Control]
  BY DEF TypeOK
<1>2. timer' = [t \in Timers |-> IF Active(timer, t) THEN [timer[t] EXCEPT !.match = Passed(@)] ELSE timer[t]]
  BY DEF Tick
<1>3. ASSUME NEW t \in Timers
      PROVE  /\ timer'[t] \in Control
             /\ timer'[t].state = timer[t].state /\ timer'[t].obj_type = timer[t].obj_type
             /\ timer[t].match \in Int
             /\ Active(timer, t) => timer'[t].match = Passed(timer[t].match)
  <2> DEFINE p == Passed(timer[t].match)
             r == [timer[t] EXCEPT !.match = p]
  <2>1. timer[t] \in Control
    BY <1>1
  <2>2. timer[t].match \in Int
    BY <2>1 DEF Control
  <2>3. p \in Int
    BY <2>2, TimerAssumption, SMTT(60) DEF Passed
  <2> HIDE DEF p
  <2>4. r \in Control
    BY <2>1, <2>3 DEF Control
  <2>5. r.match = p /\ r.state = timer[t].state /\ r.obj_type = timer[t].obj_type
    BY <2>1, SMTT(60) DEF Control
  <2>6. timer'[t] = IF Active(timer, t) THEN r ELSE timer[t]
    BY <1>2 DEF p
  <2> HIDE DEF r
  <2> QED BY <2>1, <2>2, <2>4, <2>5, <2>6 DEF p
<1>4. timer' \in [Timers -> Control]
  BY <1>2, <1>3
<1>5. \A t \in Timers : timer'[t].match \in Int
  BY <1>4 DEF Control
<1> QED BY <1>3, <1>4, <1>5

\* The first timer of a sorted list is due first.
LEMMA HeadFirst ==
    ASSUME NEW l \in Seq(Timers), NEW f \in [Timers -> Int], SortedBy(l, f), NEW t \in Timers, Contains(l, t)
    PROVE  l # <<>> /\ Head(l) \in Timers /\ f[Head(l)] <= f[t]
<1>1. PICK i \in 1..Len(l) : l[i] = t
  BY DEF Contains
<1>2. l # <<>> /\ Head(l) = l[1] /\ 1 \in 1..Len(l) /\ l[1] \in Timers
  BY <1>1, SMTT(60)
<1>3. CASE i = 1
  BY <1>1, <1>2, <1>3, SMTT(60)
<1>4. CASE i # 1
  <2>1. 1 < i
    BY <1>1, <1>4, SMTT(60)
  <2>2. f[l[1]] <= f[l[i]]
    BY <1>1, <1>2, <2>1 DEF SortedBy
  <2> QED BY <1>1, <1>2, <2>2
<1> QED BY <1>3, <1>4

\* The timer task after a tick
LEMMA TickTask ==
    ASSUME TypeOK, TaskInv, Tick
    PROVE  /\ task' \in Locals
           /\ task.pc # "recv_delta" => task' = task
           /\ task.pc = "recv_delta" => \/ task.wait = 1 /\ task'.pc = "timeout"
                                        \/ task.wait > 1 /\ task'.pc = "recv_delta" /\ task'.wait = task.wait - 1
<1>1. task \in Locals
  BY DEF TypeOK
<1>2. CASE task.pc # "recv_delta"
  <2>1. task' = task
    BY <1>2 DEF Tick
  <2> QED BY <1>1, <1>2, <2>1
<1>3. CASE task.pc = "recv_delta" /\ task.wait = 1
  <2>1. task' = TaskAt("timeout")
    BY <1>3 DEF Tick
  <2> QED BY <1>3, <2>1, TaskAtIs DEF Places
<1>4. CASE task.pc = "recv_delta" /\ task.wait # 1
  <2> DEFINE n == task.wait - 1
  <2>1. task' = [task EXCEPT !.wait = n]
    BY <1>4 DEF Tick
  <2>2. task.wait > 0 /\ task.wait \in Nat
    BY <1>1, <1>4 DEF TaskInv, Locals
  <2>3. n \in Nat /\ task.wait > 1
    BY <1>4, <2>2, SMTT(60)
  <2> HIDE DEF n
  <2>4. task' \in Locals
    BY <1>1, <2>1, <2>3 DEF Locals
  <2>5. task'.pc = task.pc /\ task'.wait = n
    BY <1>1, <2>1, SMTT(60) DEF Locals
  <2> QED BY <1>4, <2>3, <2>4, <2>5 DEF n
<1> QED BY <1>2, <1>3, <1>4

\* A tick.  In a system whose timer task is not delayed it comes while the task
\* waits, so no timer is due before it.
LEMMA TickStep ==
    ASSUME TimerInv, Tick
    PROVE  TimerInv'
<1>1. /\ TypeOK /\ age \in Nat /\ Matched(g_timer_head, timer) /\ BlocksConserved /\ TaskInv /\ WaitInv
      /\ use.punctual => age = 0 /\ OnTime(g_timer_head, timer)
  BY InvIs
<1>2. /\ use.punctual => Waits
      /\ Counting => age < LATE_MAX
      /\ age' = IF Counting THEN age + 1 ELSE age
      /\ UNCHANGED <<g_timer_head, g_timer_queue, g_timer_pool, block, use>>
  BY DEF Tick
<1>3. /\ timer' \in [Timers -> Control]
      /\ \A t \in Timers : /\ timer'[t].state = timer[t].state /\ timer'[t].obj_type = timer[t].obj_type
                           /\ timer[t].match \in Int /\ timer'[t].match \in Int
                           /\ Active(timer, t) => timer'[t].match = Passed(timer[t].match)
  BY <1>1, TickTimers
<1>4. /\ task' \in Locals
      /\ task.pc # "recv_delta" => task' = task
      /\ task.pc = "recv_delta" => \/ task.wait = 1 /\ task'.pc = "timeout"
                                   \/ task.wait > 1 /\ task'.pc = "recv_delta" /\ task'.wait = task.wait - 1
  BY <1>1, TickTask
<1>5. Matched(g_timer_head', timer')
  BY <1>1, <1>2, <1>3 DEF Matched, Active
<1>6. age' \in 0..LATE_MAX
  BY <1>1, <1>2, TimerAssumption, SMTT(60) DEF TypeOK
<1>7. TypeOK'
  BY <1>1, <1>2, <1>3, <1>4, <1>6 DEF TypeOK
<1>8. BlocksConserved'
  <2>1. Carried' = Carried
    BY <1>4 DEF Carried
  <2> QED BY <1>1, <1>2, <2>1, BlocksStay
<1>9. TaskInv'
  <2>1. CASE task.pc # "recv_delta"
    BY <1>1, <1>2, <1>4, <2>1 DEF TaskInv, Counting
  <2>2. CASE task.pc = "recv_delta"
    <3>1. age' = 0 /\ g_timer_head' # <<>>
      BY <1>1, <1>2, <2>2 DEF TaskInv, Counting
    <3>2. task'.pc = "recv_delta" => task'.wait > 0
      <4>1. task.wait \in Nat
        BY <1>1 DEF TypeOK, Locals
      <4>2. task.wait > 1 => task.wait - 1 > 0
        BY <4>1, SMTT(60)
      <4> QED BY <1>4, <2>2, <4>2
    <3> QED BY <1>4, <2>2, <3>1, <3>2 DEF TaskInv
  <2> QED BY <2>1, <2>2
<1>10. ASSUME use.punctual
       PROVE  /\ OnTime(g_timer_head', timer') /\ age' = 0 /\ (task'.pc = "recv" => g_timer_head' = <<>>)
              /\ task'.pc = "recv_delta" => task'.wait = timer'[Head(g_timer_head)].match
  <2>1. age = 0 /\ age' = 0 /\ OnTime(g_timer_head, timer) /\ Waits
    BY <1>1, <1>2, <1>10 DEF Counting, Waits
  <2>2. CASE task.pc = "recv"
    <3>1. g_timer_head = <<>> /\ task' = task
      BY <1>1, <1>4, <1>10, <2>2 DEF WaitInv
    <3>2. \A t \in Timers : ~Active(timer', t)
      <4>1. \A t \in Timers : ~Contains(g_timer_head', t)
        BY <1>2, <3>1, SMTT(60) DEF Contains
      <4> QED BY <1>5, <4>1 DEF Matched
    <3>3. SortedBy(g_timer_head', Due(timer'))
      BY <1>2, <3>1, SMTT(60) DEF SortedBy
    <3> QED BY <1>2, <2>1, <2>2, <3>1, <3>2, <3>3 DEF OnTime
  <2>3. CASE task.pc = "recv_delta"
    <3> DEFINE h == Head(g_timer_head)
    <3>1. task.wait = timer[h].match /\ task.wait > 0 /\ g_timer_head # <<>>
      BY <1>1, <1>10, <2>3 DEF WaitInv, TaskInv
    <3>2. h \in Timers /\ Contains(g_timer_head, h)
      BY <1>1, <3>1, TailMembers DEF Matched
    <3>3. Due(timer) \in [Timers -> Int]
      BY <1>3 DEF Due
    <3>4. ASSUME NEW t \in Timers, Active(timer, t)
          PROVE  timer[t].match >= 1 /\ timer'[t].match = timer[t].match - 1
      <4>1. Contains(g_timer_head, t) /\ g_timer_head \in Seq(Timers)
        BY <1>1, <3>4 DEF Matched
      <4>2. Due(timer)[h] <= Due(timer)[t]
        BY <2>1, <3>3, <4>1, HeadFirst DEF OnTime
      <4>3. timer[h].match <= timer[t].match
        BY <3>2, <4>2 DEF Due
      <4>4. timer[h].match \in Int /\ timer[t].match \in Int /\ LATE_MAX \in Nat
        BY <1>3, <3>2, TimerAssumption
      <4>5. timer[t].match >= 1
        BY <3>1, <4>3, <4>4, SMTT(60)
      <4>6. Passed(timer[t].match) = timer[t].match - 1
        BY <4>4, <4>5, SMTT(60) DEF Passed
      <4> QED BY <1>3, <3>4, <4>5, <4>6
    <3>5. \A t \in Timers : Active(timer', t) => timer'[t].match >= 0
      <4>1. ASSUME NEW t \in Timers, Active(timer', t) PROVE timer'[t].match >= 0
        <5>1. Active(timer, t)
          BY <1>3, <4>1 DEF Active
        <5>2. timer[t].match \in Int
          BY <1>3
        <5> QED BY <3>4, <5>1, <5>2, SMTT(60)
      <4> QED BY <4>1
    <3>6. SortedBy(g_timer_head, Due(timer'))
      <4> SUFFICES ASSUME NEW i \in 1..Len(g_timer_head), NEW j \in 1..Len(g_timer_head), i < j
                   PROVE  Due(timer')[g_timer_head[i]] <= Due(timer')[g_timer_head[j]]
        BY DEF SortedBy
      <4> DEFINE x == g_timer_head[i]
                 y == g_timer_head[j]
      <4>1. x \in Timers /\ y \in Timers /\ Contains(g_timer_head, x) /\ Contains(g_timer_head, y)
        BY <1>1, SMTT(60) DEF TypeOK, Contains
      <4>2. Due(timer)[x] <= Due(timer)[y]
        BY <2>1 DEF OnTime, SortedBy
      <4> HIDE DEF x, y
      <4>3. Active(timer, x) /\ Active(timer, y)
        BY <1>1, <4>1 DEF Matched
      <4>4. timer'[x].match = timer[x].match - 1 /\ timer'[y].match = timer[y].match - 1
        BY <3>4, <4>1, <4>3
      <4>5. timer[x].match <= timer[y].match /\ timer[x].match \in Int /\ timer[y].match \in Int
        BY <1>3, <4>1, <4>2 DEF Due
      <4>6. timer'[x].match <= timer'[y].match
        BY <4>4, <4>5, SMTT(60)
      <4> QED BY <4>1, <4>6 DEF Due, x, y
    <3>7. timer'[h].match = task.wait - 1
      <4>1. Active(timer, h)
        BY <1>1, <3>2 DEF Matched
      <4> QED BY <3>1, <3>2, <3>4, <4>1
    <3>8. task'.pc = "recv_delta" => task'.wait = timer'[h].match
      BY <1>4, <2>3, <3>7
    <3>9. task'.pc # "recv"
      BY <1>4, <2>3
    <3> QED BY <1>2, <2>1, <3>5, <3>6, <3>8, <3>9 DEF OnTime
  <2> QED BY <2>1, <2>2, <2>3 DEF Waits
<1>11. WaitInv'
  BY <1>2, <1>10 DEF WaitInv
<1> QED BY <1>2, <1>5, <1>7, <1>8, <1>9, <1>10, <1>11, InvAfter

-----------------------------------------------------------------------------
(* The invariant.                                                           *)

\* The invariant holds when the timer task starts.
LEMMA InitInv ==
    ASSUME Init
    PROVE  TimerInv
<1>1. /\ g_timer_head = <<>> /\ timer = [t \in Timers |-> Unused] /\ age = 0
      /\ g_timer_queue = <<>> /\ g_timer_pool = MSG_NUM
      /\ block = [s \in Senders |-> NONE] /\ task = TaskAt("loop") /\ use \in Uses
  BY DEF Init
<1>2. task \in Locals /\ task.pc = "loop"
  BY <1>1, TaskAtIs DEF Places
<1>3. TypeOK
  <2>1. /\ g_timer_head \in Seq(Timers) /\ g_timer_queue \in Seq(Message)
        /\ age \in 0..LATE_MAX /\ g_timer_pool \in 0..MSG_NUM
    BY <1>1, TimerAssumption, SMTT(60)
  <2>2. timer \in [Timers -> Control] /\ block \in [Senders -> Message \cup {NONE}]
    BY <1>1, UnusedIs
  <2> QED BY <1>1, <1>2, <2>1, <2>2 DEF TypeOK
<1>4. \A x : ~Contains(g_timer_head, x)
  BY <1>1, SMTT(60) DEF Contains
<1>5. \A t \in Timers : ~Active(timer, t)
  BY <1>1, UnusedIs DEF Active
<1>6. NoDup(g_timer_head) /\ SortedByRemain
  BY <1>1, SMTT(60) DEF NoDup, SortedByRemain
<1>7. ListMatchesState /\ FiresOnTime
  BY <1>4, <1>5, <1>6 DEF ListMatchesState, FiresOnTime
<1>8. BlocksConserved
  <2>1. Holders = {}
    BY <1>1 DEF Holders
  <2>2. Carried = 0 /\ Cardinality(Holders) = 0
    BY <1>2, <2>1, FS_EmptySet DEF Carried
  <2>3. g_timer_pool + Len(g_timer_queue) + (Cardinality(Holders) + Carried) = MSG_NUM
    BY <1>1, <2>2, TimerAssumption, SMTT(60)
  <2> QED BY <2>3, BlocksAre
<1>9. TaskInv /\ WaitInv
  BY <1>1, <1>2 DEF TaskInv, WaitInv
<1> QED BY <1>3, <1>6, <1>7, <1>8, <1>9 DEF TimerInv

\* Every step of a sender, of the timer task and of the clock preserves the
\* invariant of the timers.
LEMMA TimerInvStep == TimerInv /\ [Next]_vars => TimerInv'
<1> SUFFICES ASSUME NatLeast, TimerInv, [Next]_vars PROVE TimerInv'
  BY NaturalsAreWellOrdered
<1>1. ASSUME NEW t \in Timers, TimerCreate(t) PROVE TimerInv'
  BY <1>1, TimerCreateStep
<1>2. ASSUME NEW s \in Senders, SendAlloc(s) \/ SendMsg(s) PROVE TimerInv'
  BY <1>2, SendAllocStep, SendMsgStep
<1>3. CASE TimerTask
  BY <1>3, LoopStep, ReceivedStep, TimedOutStep, TimerCmdProcStep, TimerCbProcStep DEF TimerTask
<1>4. CASE Tick
  BY <1>4, TickStep
<1>5. CASE UNCHANGED vars
  <2>1. UNCHANGED <<g_timer_head, timer, age, g_timer_queue, g_timer_pool, block, task, use>>
    BY <1>5 DEF vars
  <2>2. TypeOK /\ ListMatchesState /\ BlocksConserved /\ TaskInv /\ SortedByRemain /\ FiresOnTime /\ WaitInv
    BY DEF TimerInv
  <2>3. TypeOK' /\ ListMatchesState' /\ BlocksConserved'
    BY <2>1, <2>2 DEF TypeOK, ListMatchesState, BlocksConserved
  <2>4. TaskInv' /\ SortedByRemain' /\ FiresOnTime' /\ WaitInv'
    BY <2>1, <2>2 DEF TaskInv, SortedByRemain, FiresOnTime, WaitInv, Counting
  <2> QED BY <2>3, <2>4 DEF TimerInv
<1> QED BY <1>1, <1>2, <1>3, <1>4, <1>5 DEF Next

\* TimerInv holds between any two steps of the timers.
THEOREM TimerInvariance == Spec => []TimerInv
<1>1. Init => TimerInv
  BY InitInv
<1>2. TimerInv /\ [Next]_vars => TimerInv'
  BY TimerInvStep
<1> QED BY <1>1, <1>2, PTL DEF Spec

-----------------------------------------------------------------------------
(* The properties.                                                          *)

\* The list of timers holds exactly the active ones, once each, and they exist,
\* whatever timer_cmd_proc and timer_cb_proc do to it in turn.
THEOREM ListMatchesStateThm == Spec => []ListMatchesState
<1>1. TimerInv => ListMatchesState
  BY DEF TimerInv
<1> QED BY <1>1, TimerInvariance, PTL

\* Each block of the pool is free, in the command queue, or in the hands of a
\* sender or of the timer task.
THEOREM BlocksConservedThm == Spec => []BlocksConserved
<1>1. TimerInv => BlocksConserved
  BY DEF TimerInv
<1> QED BY <1>1, TimerInvariance, PTL

\* A call that has got its block finds the timer task waiting or room in the
\* queue: the error path of the krhino_queue_back_send in it is never taken.
CommandsKept == \A s \in Senders : block[s] # NONE => Waits \/ Len(g_timer_queue) < MSG_NUM

\* No command of a timer is dropped for want of room in the queue.
THEOREM CommandsKeptThm == Spec => []CommandsKept
<1>1. TimerInv => CommandsKept
  <2> SUFFICES ASSUME TimerInv, NEW s \in Senders, block[s] # NONE PROVE Len(g_timer_queue) < MSG_NUM
    BY DEF CommandsKept
  <2>1. TypeOK /\ BlocksConserved
    BY DEF TimerInv
  <2>2. g_timer_pool + Len(g_timer_queue) + (Cardinality(Holders) + Carried) = MSG_NUM
    BY <2>1, BlocksAre
  <2>3. Cardinality(Holders) \in Nat /\ Cardinality(Holders) # 0
    <3>1. Holders # {}
      BY DEF Holders
    <3>2. IsFiniteSet(Holders) /\ Cardinality(Holders) \in Nat
      BY HoldersFinite
    <3> HIDE DEF Holders
    <3> QED BY <3>1, <3>2, FS_EmptySet
  <2>4. g_timer_pool \in Nat /\ Len(g_timer_queue) \in Nat /\ MSG_NUM \in Nat /\ Carried \in Nat
    BY <2>1, TimerAssumption, SMTT(60) DEF TypeOK, Carried
  <2> QED BY <2>2, <2>3, <2>4, SMTT(60)
<1> QED BY <1>1, TimerInvariance, PTL

\* timer_list_pri_insert keeps the list sorted by the time that is left when the
\* timer task runs before the next tick.
THEOREM SortedByRemainThm == Spec => []SortedByRemain
<1>1. TimerInv => SortedByRemain
  BY DEF TimerInv
<1> QED BY <1>1, TimerInvariance, PTL

\* And no timer is ever a tick late then, whatever timers timer_cb_proc skips when it
\* goes on from one that it has moved.
THEOREM FiresOnTimeThm == Spec => []FiresOnTime
<1>1. TimerInv => FiresOnTime
  BY DEF TimerInv
<1> QED BY <1>1, TimerInvariance, PTL
=============================================================================
