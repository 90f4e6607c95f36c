-------------------------- MODULE RhinoQueueProofs --------------------------
(***************************************************************************)
(* What holds of the queues for every set of receivers, any size of queue  *)
(* and of messages and any number of sends: no message is lost, repeated   *)
(* or overtaken, and nobody waits while there is one.                      *)
(***************************************************************************)
EXTENDS RhinoQueue, FiniteSetTheorems, WellFoundedInduction, TLAPS

-----------------------------------------------------------------------------
(* Lists.                                                                   *)

\* Every set of naturals that is not empty has a least element.  The lemmas that
\* need it have it as a hypothesis; NaturalsAreWellOrdered proves it.
NatLeast == \A S \in SUBSET Nat : S # {} => \E x \in S : \A y \in S : x <= y

\* Least picks the least element of any set of naturals that is not empty.
LEMMA MinNat ==
    ASSUME NatLeast, NEW S, S \subseteq Nat, S # {}
    PROVE  Least(S) \in S /\ \A x \in S : Least(S) <= x
<1>1. \E x \in S : \A y \in S : x <= y
  BY DEF NatLeast
<1> QED BY <1>1, ZenonT(60) DEF Least

\* FirstOr: the first position that passes the test, and the end when none does.
LEMMA FirstPosition ==
    ASSUME NatLeast, NEW n \in Nat, NEW I, \A i \in I : i \in 1..n
    PROVE  LET k == Least(I \cup {n + 1}) IN
           /\ k \in 1..(n + 1)
           /\ k \in I \/ k = n + 1
           /\ \A i \in I : k <= i
<1> DEFINE J == I \cup {n + 1}
           k == Least(J)
<1>1. J \subseteq Nat /\ J # {}
  OBVIOUS
<1>2. k \in J /\ \A x \in J : k <= x
  BY <1>1, MinNat
<1> HIDE DEF k
<1>3. k \in I \/ k = n + 1
  BY <1>2
<1>4. k \in 1..(n + 1)
  BY <1>3
<1>5. \A i \in I : k <= i
  BY <1>2
<1> QED BY <1>3, <1>4, <1>5 DEF k

\* The two parts of a concatenation.
LEMMA ConcatElements ==
    ASSUME NEW S, NEW s1 \in Seq(S), NEW s2 \in Seq(S)
    PROVE  /\ s1 \o s2 \in Seq(S)
           /\ Len(s1 \o s2) = Len(s1) + Len(s2)
           /\ \A i \in 1..(Len(s1) + Len(s2)) :
                 (s1 \o s2)[i] = IF i <= Len(s1) THEN s1[i] ELSE s2[i - Len(s1)]
  OBVIOUS

\* Removal, element by element.
LEMMA KlistRmElements ==
    ASSUME NatLeast, NEW S, NEW s \in Seq(S), NEW e, Contains(s, e)
    PROVE  \E k \in 1..Len(s) :
             /\ s[k] = e
             /\ KlistRm(s, e) \in Seq(S)
             /\ Len(KlistRm(s, e)) = Len(s) - 1
             /\ \A i \in 1..(Len(s) - 1) :
                   KlistRm(s, e)[i] = IF i < k THEN s[i] ELSE s[i + 1]
<1> DEFINE I == {i \in 1..Len(s) : s[i] = e}
           k == Least(I \cup {Len(s) + 1})
           r == KlistRm(s, e)
           a == SubSeq(s, 1, k - 1)
           b == SubSeq(s, k + 1, Len(s))
<1>1. PICK m \in I : TRUE
  BY DEF Contains
<1>2. k \in 1..Len(s) /\ s[k] = e
  <2>1. (k \in I \/ k = Len(s) + 1) /\ k <= m
    <3>1. Len(s) \in Nat /\ \A n \in I : n \in 1..Len(s)
      OBVIOUS
    <3> HIDE DEF I
    <3> QED BY <1>1, <3>1, FirstPosition, ZenonT(60)
  <2>2. k # Len(s) + 1
    BY <2>1, <1>1
  <2> QED BY <2>1, <2>2
<1>3. r = a \o b
  BY ZenonT(60) DEF KlistRm, FirstOr
<1> HIDE DEF k, r, I
<1>4. a \in Seq(S) /\ Len(a) = k - 1 /\ \A i \in 1..(k - 1) : a[i] = s[i]
  BY <1>2
<1>5. b \in Seq(S) /\ Len(b) = Len(s) - k /\ \A i \in 1..(Len(s) - k) : b[i] = s[k + i]
  BY <1>2
<1> HIDE DEF a, b
<1>6. r \in Seq(S) /\ Len(r) = Len(s) - 1
  <2>1. r \in Seq(S) /\ Len(r) = Len(a) + Len(b)
    BY <1>3, <1>4, <1>5, ConcatElements, ZenonT(60)
  <2>2. k \in Int /\ Len(s) \in Int
    BY <1>2
  <2> QED BY <2>1, <2>2, <1>4, <1>5
<1>7. ASSUME NEW i \in 1..(Len(s) - 1) PROVE r[i] = IF i < k THEN s[i] ELSE s[i + 1]
  <2>1. r[i] = IF i <= Len(a) THEN a[i] ELSE b[i - Len(a)]
    BY <1>2, <1>3, <1>4, <1>5, <1>6, ConcatElements, SMTT(60)
  <2>2. CASE i < k
    BY <2>1, <2>2, <1>2, <1>4
  <2>3. CASE i >= k
    <3>1. i - (k - 1) \in 1..(Len(s) - k) /\ k + (i - (k - 1)) = i + 1
      BY <2>3, <1>2
    <3>2. r[i] = b[i - (k - 1)]
      <4>1. Len(a) = k - 1 /\ ~(i <= k - 1)
        BY <2>3, <1>2, <1>4
      <4> QED BY <2>1, <4>1
    <3>3. b[i - (k - 1)] = s[k + (i - (k - 1))]
      BY <3>1, <1>5, ZenonT(60)
    <3>4. ~(i < k)
      BY <2>3, <1>2
    <3> QED BY <3>1, <3>2, <3>3, <3>4
  <2> QED BY <2>2, <2>3, <1>2
<1> QED BY <1>2, <1>6, <1>7 DEF r

\* The members of a list without duplicates when e is removed, and its order.
LEMMA KlistRmMembers ==
    ASSUME NatLeast, NEW S, NEW s \in Seq(S), NoDup(s), NEW e
    PROVE  /\ KlistRm(s, e) \in Seq(S)
           /\ NoDup(KlistRm(s, e))
           /\ \A x : Contains(KlistRm(s, e), x) <=> Contains(s, x) /\ x # e
<1>1. CASE ~Contains(s, e)
  BY <1>1 DEF KlistRm, Contains
<1>2. CASE Contains(s, e)
  <2> DEFINE r == KlistRm(s, e)
  <2>1. PICK k \in 1..Len(s) :
          /\ s[k] = e
          /\ r \in Seq(S)
          /\ Len(r) = Len(s) - 1
          /\ \A i \in 1..(Len(s) - 1) : r[i] = IF i < k THEN s[i] ELSE s[i + 1]
    BY <1>2, KlistRmElements
  <2> HIDE DEF r
  <2>2. NoDup(r)
    BY <2>1 DEF NoDup
  <2>3. ASSUME NEW x PROVE Contains(r, x) <=> Contains(s, x) /\ x # e
    <3>1. ASSUME Contains(r, x) PROVE Contains(s, x) /\ x # e
      BY <2>1, <3>1, SMTT(60) DEF NoDup, Contains
    <3>2. ASSUME Contains(s, x), x # e PROVE Contains(r, x)
      <4>1. PICK i \in 1..Len(s) : s[i] = x
        BY <3>2 DEF Contains
      <4>2. i # k
        BY <4>1, <3>2, <2>1
      <4>3. CASE i < k
        BY <4>1, <4>3, <2>1, SMTT(60) DEF Contains
      <4>4. CASE i > k
        <5>1. i - 1 \in 1..Len(r) /\ r[i - 1] = x
          BY <4>1, <4>4, <2>1
        <5> QED BY <5>1 DEF Contains
      <4> QED BY <4>1, <4>2, <4>3, <4>4
    <3> QED BY <3>1, <3>2
  <2> QED BY <2>1, <2>2, <2>3 DEF r
<1> QED BY <1>1, <1>2

\* Insertion before position i, element by element.
LEMMA KlistInsertElements ==
    ASSUME NEW S, NEW s \in Seq(S), NEW i \in 1..(Len(s) + 1), NEW e \in S
    PROVE  /\ KlistInsert(s, i, e) \in Seq(S)
           /\ Len(KlistInsert(s, i, e)) = Len(s) + 1
           /\ \A j \in 1..(Len(s) + 1) :
                 KlistInsert(s, i, e)[j] = IF j < i THEN s[j] ELSE IF j = i THEN e ELSE s[j - 1]
<1> DEFINE a == SubSeq(s, 1, i - 1)
           b == SubSeq(s, i, Len(s))
           c == a \o <<e>>
           r == c \o b
<1>1. a \in Seq(S) /\ Len(a) = i - 1 /\ \A j \in 1..(i - 1) : a[j] = s[j]
  OBVIOUS
<1>2. b \in Seq(S) /\ Len(b) = Len(s) - i + 1 /\ \A j \in 1..(Len(s) - i + 1) : b[j] = s[i + j - 1]
  OBVIOUS
<1>3. KlistInsert(s, i, e) = r
  BY DEF KlistInsert
<1> HIDE DEF a, b
<1>4. /\ c \in Seq(S) /\ Len(c) = i
      /\ \A j \in 1..i : c[j] = IF j < i THEN s[j] ELSE e
  BY <1>1
<1> HIDE DEF c
<1>5. r \in Seq(S) /\ Len(r) = Len(c) + Len(b)
  BY <1>2, <1>4, ConcatElements, ZenonT(60)
<1>6. Len(r) = Len(s) + 1
  BY <1>2, <1>4, <1>5
<1>7. ASSUME NEW j \in 1..(Len(s) + 1)
      PROVE  r[j] = IF j < i THEN s[j] ELSE IF j = i THEN e ELSE s[j - 1]
  <2>1. r[j] = IF j <= Len(c) THEN c[j] ELSE b[j - Len(c)]
    BY <1>2, <1>4, <1>5, <1>6, ConcatElements, SMTT(60)
  <2> QED BY <2>1, <1>2, <1>4, SMTT(60)
<1> QED BY <1>3, <1>5, <1>6, <1>7, SMTT(60)

\* The members of a list after an insertion.
LEMMA KlistInsertMembers ==
    ASSUME NEW S, NEW s \in Seq(S), NoDup(s), NEW i \in 1..(Len(s) + 1), NEW e \in S, ~Contains(s, e)
    PROVE  /\ KlistInsert(s, i, e) \in Seq(S)
           /\ NoDup(KlistInsert(s, i, e))
           /\ \A x : Contains(KlistInsert(s, i, e), x) <=> Contains(s, x) \/ x = e
<1> DEFINE r == KlistInsert(s, i, e)
<1>1. /\ r \in Seq(S) /\ Len(r) = Len(s) + 1
      /\ \A j \in 1..(Len(s) + 1) : r[j] = IF j < i THEN s[j] ELSE IF j = i THEN e ELSE s[j - 1]
  BY KlistInsertElements, SMTT(60)
<1> HIDE DEF r
<1>2. NoDup(r)
  <2>1. ASSUME NEW j \in 1..Len(r), NEW k \in 1..Len(r), j < k PROVE r[j] # r[k]
    <3>1. \A n \in 1..Len(s) : s[n] # e
      BY DEF Contains
    <3>2. \A m, n \in 1..Len(s) : m < n => s[m] # s[n]
      BY DEF NoDup
    <3>3. CASE k < i
      <4>1. j \in 1..Len(s) /\ k \in 1..Len(s) /\ r[j] = s[j] /\ r[k] = s[k]
        BY <1>1, <2>1, <3>3, SMTT(60)
      <4> QED BY <2>1, <3>2, <4>1, ZenonT(60)
    <3>4. CASE k = i
      BY <1>1, <2>1, <3>1, <3>4
    <3>5. CASE i < k /\ j < i
      BY <1>1, <2>1, <3>2, <3>5, SMTT(60)
    <3>6. CASE i < k /\ j = i
      <4>1. k - 1 \in 1..Len(s) /\ r[k] = s[k - 1] /\ r[j] = e
        BY <1>1, <2>1, <3>6
      <4> QED BY <4>1, <3>1
    <3>7. CASE i < k /\ i < j
      <4>1. k - 1 \in 1..Len(s) /\ r[k] = s[k - 1]
        BY <1>1, <2>1, <3>7
      <4>2. j - 1 \in 1..Len(s) /\ r[j] = s[j - 1] /\ j - 1 < k - 1
        BY <1>1, <2>1, <3>7
      <4> QED BY <4>1, <4>2, <3>2, SMTT(60)
    <3> QED BY <3>3, <3>4, <3>5, <3>6, <3>7
  <2> QED BY <2>1, <1>1 DEF NoDup
<1>3. ASSUME NEW x PROVE Contains(r, x) <=> Contains(s, x) \/ x = e
  <2>1. ASSUME Contains(r, x) PROVE Contains(s, x) \/ x = e
    <3>1. PICK j \in 1..Len(r) : r[j] = x
      BY <2>1 DEF Contains
    <3>2. CASE j < i
      BY <3>1, <3>2, <1>1, SMTT(60) DEF Contains
    <3>3. CASE j = i
      BY <3>1, <3>3, <1>1
    <3>4. CASE j > i
      <4>1. j - 1 \in 1..Len(s) /\ s[j - 1] = x
        BY <3>1, <3>4, <1>1
      <4> QED BY <4>1 DEF Contains
    <3> QED BY <3>1, <3>2, <3>3, <3>4
  <2>2. ASSUME Contains(s, x) PROVE Contains(r, x)
    <3>1. PICK j \in 1..Len(s) : s[j] = x
      BY <2>2 DEF Contains
    <3>2. CASE j < i
      BY <3>1, <3>2, <1>1 DEF Contains
    <3>3. CASE j >= i
      <4>1. j + 1 \in 1..Len(r) /\ r[j + 1] = x
        BY <3>1, <3>3, <1>1
      <4> QED BY <4>1 DEF Contains
    <3> QED BY <3>1, <3>2, <3>3
  <2>3. Contains(r, e)
    BY <1>1, SMTT(60) DEF Contains
  <2> QED BY <2>1, <2>2, <2>3
<1> QED BY <1>1, <1>2, <1>3 DEF r

\* pend_list_add: the waiter joins the list, which stays sorted by priority.
LEMMA PendListAddMembers ==
    ASSUME NatLeast, NEW S, NEW l \in Seq(S), NoDup(l), NEW t \in S, ~Contains(l, t), NEW pr \in [S -> Nat]
    PROVE  /\ PendListAdd(l, t, pr) \in Seq(S)
           /\ NoDup(PendListAdd(l, t, pr))
           /\ \A x : Contains(PendListAdd(l, t, pr), x) <=> Contains(l, x) \/ x = t
<1> DEFINE I == {i \in 1..Len(l) : pr[l[i]] > pr[t]}
           k == Least(I \cup {Len(l) + 1})
           r == KlistInsert(l, k, t)
<1>1. PendListAdd(l, t, pr) = r
  BY DEF PendListAdd, FirstOr
<1>2. Len(l) \in Nat /\ \A i : i \in I <=> i \in 1..Len(l) /\ pr[l[i]] > pr[t]
  OBVIOUS
<1> HIDE DEF I
<1>3. k \in 1..(Len(l) + 1) /\ (k \in I \/ k = Len(l) + 1) /\ \A i \in I : k <= i
  BY <1>2, FirstPosition, ZenonT(60)
<1> HIDE DEF k
<1>4. /\ r \in Seq(S) /\ NoDup(r)
      /\ \A x : Contains(r, x) <=> Contains(l, x) \/ x = t
  BY <1>3, KlistInsertMembers
<1> QED BY <1>1, <1>4

\* The head and the other members of a list that is not empty.
LEMMA TailMembers ==
    ASSUME NEW S, NEW s \in Seq(S), NoDup(s), s # <<>>
    PROVE  /\ Head(s) \in S /\ Contains(s, Head(s))
           /\ Tail(s) \in Seq(S) /\ NoDup(Tail(s))
           /\ \A x : Contains(Tail(s), x) <=> Contains(s, x) /\ x # Head(s)
<1> DEFINE r == Tail(s)
<1>1. /\ Len(s) \in Nat /\ Len(s) > 0 /\ Head(s) = s[1] /\ Head(s) \in S
      /\ r \in Seq(S) /\ Len(r) = Len(s) - 1
      /\ \A i \in 1..(Len(s) - 1) : r[i] = s[i + 1]
  OBVIOUS
<1> HIDE DEF r
<1>2. NoDup(r)
  BY <1>1, SMTT(60) DEF NoDup
<1>3. ASSUME NEW x PROVE Contains(r, x) <=> Contains(s, x) /\ x # Head(s)
  <2>1. ASSUME Contains(r, x) PROVE Contains(s, x) /\ x # Head(s)
    BY <1>1, <2>1 DEF Contains, NoDup
  <2>2. ASSUME Contains(s, x), x # Head(s) PROVE Contains(r, x)
    <3>1. PICK i \in 1..Len(s) : s[i] = x
      BY <2>2 DEF Contains
    <3>2. i - 1 \in 1..Len(r) /\ r[i - 1] = x
      BY <1>1, <2>2, <3>1
    <3> QED BY <3>2 DEF Contains
  <2> QED BY <2>1, <2>2
<1>4. Contains(s, Head(s))
  BY <1>1 DEF Contains
<1> QED BY <1>1, <1>2, <1>3, <1>4 DEF r

\* A list has a member exactly when it is not empty.
LEMMA NotEmpty ==
    ASSUME NEW S, NEW s \in Seq(S)
    PROVE  /\ s = <<>> <=> \A x : ~Contains(s, x)
           /\ \A x : Contains(s, x) => x \in S
<1>1. s # <<>> => Contains(s, s[1])
  BY DEF Contains
<1>2. \A x : Contains(s, x) => s # <<>> /\ x \in S
  BY DEF Contains
<1> QED BY <1>1, <1>2

\* The empty list is the one of length zero.
LEMMA EmptyLength ==
    ASSUME NEW S, NEW r \in Seq(S)
    PROVE  r = <<>> <=> Len(r) = 0
  OBVIOUS

USE ZenonT(60)

\* The hypothesis of the lemmas on lists.
LEMMA NaturalsAreWellOrdered == NatLeast
<1> SUFFICES ASSUME NEW S \in SUBSET Nat, S # {} PROVE \E x \in S : \A y \in S : x <= y
  BY DEF NatLeast
<1>1. PICK x \in S : \A y \in S : ~(<<y, x>> \in OpToRel(<, Nat))
  BY NatLessThanWellFounded, WFMin
<1>2. ASSUME NEW y \in S PROVE x <= y
  <2>1. y < x => <<y, x>> \in OpToRel(<, Nat)
    BY DEF OpToRel
  <2>2. ~(y < x)
    BY <1>1, <2>1
  <2> QED BY <2>2, SMTT(60)
<1> QED BY <1>2

-----------------------------------------------------------------------------
(* Sequences of messages.                                                   *)

\* The messages after one is added at the end.
LEMMA AppendMsg ==
    ASSUME NEW s \in Seq(Nat), NEW e \in Nat
    PROVE  /\ Append(s, e) \in Seq(Nat) /\ Len(Append(s, e)) = Len(s) + 1
           /\ ToSet(Append(s, e)) = ToSet(s) \cup {e}
           /\ NoDup(s) /\ e \notin ToSet(s) => NoDup(Append(s, e))
           /\ Rising(s) /\ (\A m \in ToSet(s) : m < e) => Rising(Append(s, e))
<1> DEFINE r == Append(s, e)
<1>1. /\ r \in Seq(Nat) /\ Len(r) = Len(s) + 1 /\ Len(s) \in Nat
      /\ \A i \in 1..(Len(s) + 1) : r[i] = IF i <= Len(s) THEN s[i] ELSE e
      /\ \A i \in 1..Len(s) : s[i] \in Nat
  BY SMTT(60)
<1> HIDE DEF r
<1>2. ASSUME NEW x PROVE x \in ToSet(r) <=> x \in ToSet(s) \/ x = e
  <2>1. x \in ToSet(s) => x \in ToSet(r)
    BY <1>1, SMTT(60) DEF ToSet
  <2>2. x = e => x \in ToSet(r)
    BY <1>1, SMTT(60) DEF ToSet
  <2>3. x \in ToSet(r) => x \in ToSet(s) \/ x = e
    BY <1>1, SMTT(60) DEF ToSet
  <2> QED BY <2>1, <2>2, <2>3
<1>3. ToSet(r) = ToSet(s) \cup {e}
  BY <1>2
<1>4. ASSUME NoDup(s), e \notin ToSet(s) PROVE NoDup(r)
  BY <1>1, <1>4, SMTT(60) DEF NoDup, ToSet
<1>5. ASSUME Rising(s), \A m \in ToSet(s) : m < e PROVE Rising(r)
  BY <1>1, <1>5, SMTT(60) DEF Rising, ToSet
<1> QED BY <1>1, <1>3, <1>4, <1>5 DEF r

\* And at the front.
LEMMA ConsMsg ==
    ASSUME NEW s \in Seq(Nat), NEW e \in Nat
    PROVE  /\ <<e>> \o s \in Seq(Nat) /\ Len(<<e>> \o s) = Len(s) + 1
           /\ ToSet(<<e>> \o s) = ToSet(s) \cup {e}
           /\ NoDup(s) /\ e \notin ToSet(s) => NoDup(<<e>> \o s)
<1> DEFINE r == <<e>> \o s
<1>1. /\ r \in Seq(Nat) /\ Len(r) = Len(s) + 1 /\ Len(s) \in Nat
      /\ \A i \in 1..(Len(s) + 1) : r[i] = IF i = 1 THEN e ELSE s[i - 1]
  BY SMTT(60)
<1> HIDE DEF r
<1>0. ASSUME NEW k \in 1..Len(r), k # 1 PROVE k - 1 \in 1..Len(s) /\ r[k] = s[k - 1]
  <2>1. k - 1 \in 1..Len(s) /\ k \in 1..(Len(s) + 1)
    BY <1>0, <1>1, SMTT(60)
  <2> QED BY <1>0, <1>1, <2>1
<1>5. r[1] = e
  BY <1>1, SMTT(60)
<1>2. ASSUME NEW x PROVE x \in ToSet(r) <=> x \in ToSet(s) \/ x = e
  <2>1. x \in ToSet(s) => x \in ToSet(r)
    <3> SUFFICES ASSUME NEW i \in 1..Len(s), x = s[i] PROVE x \in ToSet(r)
      BY DEF ToSet
    <3>1. i + 1 \in 1..(Len(s) + 1) /\ i + 1 # 1 /\ (i + 1) - 1 = i
      BY <1>1, SMTT(60)
    <3>2. r[i + 1] = s[i] /\ i + 1 \in 1..Len(r)
      BY <1>1, <3>1, SMTT(60)
    <3> QED BY <3>2 DEF ToSet
  <2>2. x = e => x \in ToSet(r)
    BY <1>1, SMTT(60) DEF ToSet
  <2>3. x \in ToSet(r) => x \in ToSet(s) \/ x = e
    <3> SUFFICES ASSUME NEW i \in 1..Len(r), x = r[i], i # 1 PROVE x \in ToSet(s)
      BY <1>5 DEF ToSet
    <3> QED BY <1>0 DEF ToSet
  <2> QED BY <2>1, <2>2, <2>3
<1>3. ToSet(r) = ToSet(s) \cup {e}
  BY <1>2
<1>4. ASSUME NoDup(s), e \notin ToSet(s) PROVE NoDup(r)
  <2>1. \A k \in 1..Len(s) : s[k] # e
    BY <1>4 DEF ToSet
  <2> SUFFICES ASSUME NEW i \in 1..Len(r), NEW j \in 1..Len(r), r[i] = r[j] PROVE i = j
    BY DEF NoDup
  <2>2. CASE i = 1 \/ j = 1
    BY <1>0, <1>5, <2>1, <2>2
  <2>3. CASE i # 1 /\ j # 1
    <3>1. i - 1 = j - 1
      BY <1>0, <1>4, <2>3 DEF NoDup
    <3> QED BY <1>1, <3>1, SMTT(60)
  <2> QED BY <2>2, <2>3
<1> QED BY <1>1, <1>3, <1>4 DEF r

\* The messages from the i-th on.
LEMMA Suffix ==
    ASSUME NEW s \in Seq(Nat), NEW i \in 1..(Len(s) + 1)
    PROVE  /\ SubSeq(s, i, Len(s)) \in Seq(Nat) /\ Len(SubSeq(s, i, Len(s))) = Len(s) - i + 1
           /\ \A j \in 1..(Len(s) - i + 1) : SubSeq(s, i, Len(s))[j] = s[i + j - 1]
  BY SMTT(60)

\* And after ringbuf_pop takes the first.
LEMMA PopMsg ==
    ASSUME NEW s \in Seq(Nat), s # <<>>
    PROVE  /\ s[1] \in Nat /\ SubSeq(s, 2, Len(s)) \in Seq(Nat) /\ Len(SubSeq(s, 2, Len(s))) = Len(s) - 1
           /\ ToSet(s) = ToSet(SubSeq(s, 2, Len(s))) \cup {s[1]}
           /\ NoDup(s) => NoDup(SubSeq(s, 2, Len(s))) /\ s[1] \notin ToSet(SubSeq(s, 2, Len(s)))
           /\ Rising(s) => Rising(SubSeq(s, 2, Len(s))) /\ \A m \in ToSet(SubSeq(s, 2, Len(s))) : s[1] < m
<1> DEFINE r == SubSeq(s, 2, Len(s))
<1>0. Len(s) \in Nat /\ Len(s) >= 1 /\ \A i \in 1..Len(s) : s[i] \in Nat
  BY SMTT(60)
<1>1. /\ Len(s) \in Nat /\ Len(s) >= 1 /\ \A i \in 1..Len(s) : s[i] \in Nat
      /\ r \in Seq(Nat) /\ Len(r) = Len(s) - 1
      /\ \A i \in 1..(Len(s) - 1) : r[i] = s[i + 1]
  <2>1. 2 \in 1..(Len(s) + 1)
    BY <1>0, SMTT(60)
  <2>2. /\ r \in Seq(Nat) /\ Len(r) = Len(s) - 2 + 1
        /\ \A j \in 1..(Len(s) - 2 + 1) : r[j] = s[2 + j - 1]
    BY <2>1, Suffix
  <2> HIDE DEF r
  <2>3. Len(s) - 2 + 1 = Len(s) - 1 /\ \A j \in 1..(Len(s) - 1) : 2 + j - 1 = j + 1
    BY <1>0, SMTT(60)
  <2> QED BY <1>0, <2>2, <2>3
<1> HIDE DEF r
<1>7. ASSUME NEW k \in 1..Len(r) PROVE k + 1 \in 1..Len(s) /\ r[k] = s[k + 1] /\ 1 < k + 1 /\ 1 \in 1..Len(s)
  BY <1>1, SMTT(60)
<1>2. ASSUME NEW x PROVE x \in ToSet(s) <=> x \in ToSet(r) \/ x = s[1]
  <2>1. x \in ToSet(r) => x \in ToSet(s)
    BY <1>1, SMTT(60) DEF ToSet
  <2>2. x = s[1] => x \in ToSet(s)
    BY <1>1, SMTT(60) DEF ToSet
  <2>3. x \in ToSet(s) => x \in ToSet(r) \/ x = s[1]
    <3> SUFFICES ASSUME NEW i \in 1..Len(s), x = s[i], i # 1 PROVE x \in ToSet(r)
      BY DEF ToSet
    <3>1. i - 1 \in 1..(Len(s) - 1) /\ (i - 1) + 1 = i
      BY <1>1, SMTT(60)
    <3>2. r[i - 1] = s[i] /\ i - 1 \in 1..Len(r)
      BY <1>1, <3>1, SMTT(60)
    <3> QED BY <3>2 DEF ToSet
  <2> QED BY <2>1, <2>2, <2>3
<1>3. ToSet(s) = ToSet(r) \cup {s[1]}
  BY <1>2
<1>4. ASSUME NoDup(s) PROVE NoDup(r) /\ s[1] \notin ToSet(r)
  <2>1. ASSUME NEW i \in 1..Len(r), NEW j \in 1..Len(r), r[i] = r[j] PROVE i = j
    <3>1. i + 1 = j + 1
      BY <1>4, <1>7, <2>1 DEF NoDup
    <3> QED BY <3>1, SMTT(60)
  <2>2. ASSUME NEW i \in 1..Len(r), r[i] = s[1] PROVE FALSE
    <3>1. i + 1 = 1
      BY <1>4, <1>7, <2>2 DEF NoDup
    <3> QED BY <3>1, SMTT(60)
  <2> QED BY <2>1, <2>2 DEF NoDup, ToSet
<1>5. ASSUME Rising(s) PROVE Rising(r) /\ \A m \in ToSet(r) : s[1] < m
  <2>1. ASSUME NEW i \in 1..Len(r), NEW j \in 1..Len(r), i < j PROVE r[i] < r[j]
    <3>1. i + 1 < j + 1
      BY <2>1, SMTT(60)
    <3> QED BY <1>5, <1>7, <3>1 DEF Rising
  <2>2. ASSUME NEW i \in 1..Len(r) PROVE s[1] < r[i]
    BY <1>5, <1>7 DEF Rising
  <2> QED BY <2>1, <2>2 DEF Rising, ToSet
<1>6. s[1] \in Nat
  BY <1>1, SMTT(60)
<1> QED BY <1>1, <1>3, <1>4, <1>5, <1>6 DEF r

\* An empty sequence.
LEMMA EmptyMsg ==
    /\ <<>> \in Seq(Nat) /\ Len(<<>>) = 0 /\ ToSet(<<>>) = {} /\ NoDup(<<>>) /\ Rising(<<>>)
<1>1. <<>> \in Seq(Nat) /\ Len(<<>>) = 0 /\ 1..0 = {}
  BY SMTT(60)
<1> QED BY <1>1 DEF ToSet, NoDup, Rising

\* Numbers that have been used, and the next one.
LEMMA NextNumber ==
    ASSUME NEW n \in Nat
    PROVE  n + 1 \in Nat /\ n + 1 \notin 1..n /\ 1..(n + 1) = 1..n \cup {n + 1} /\ \A m \in 1..n : m \in Nat /\ m < n + 1
  BY SMTT(60)

-----------------------------------------------------------------------------
(* Where the messages are, when one moves.                                  *)

MsgInv == Numbered /\ Kept /\ Once /\ InOrder

\* Steps that move no message.
LEMMA MsgSame ==
    ASSUME MsgInv, UNCHANGED <<use, sent, ringbuf, got, dropped>>, \A t \in Tasks : Out(t)' = Out(t)
    PROVE  MsgInv'
<1>1. \A t \in Tasks : Has(t)' = Has(t)
  BY DEF Has
<1>2. Numbered' /\ Kept'
  BY <1>1 DEF MsgInv, Numbered, Kept
<1>3. Once'
  BY <1>1 DEF MsgInv, Once
<1>4. InOrder'
  BY <1>1 DEF MsgInv, InOrder
<1> QED BY <1>2, <1>3, <1>4 DEF MsgInv

\* A new message is stored.
LEMMA MsgStored ==
    ASSUME TypeOK, MsgInv, UNCHANGED <<use, got, dropped>>, \A t \in Tasks : Out(t)' = Out(t),
           sent' = sent + 1, ToSet(ringbuf') = ToSet(ringbuf) \cup {sent + 1}, NoDup(ringbuf'),
           use.front \/ Rising(ringbuf')
    PROVE  MsgInv'
<1>1. \A t \in Tasks : Has(t)' = Has(t)
  BY DEF Has
<1>2. /\ sent + 1 \notin 1..sent /\ 1..sent' = 1..sent \cup {sent + 1}
      /\ \A m \in 1..sent : m < sent + 1
  BY NextNumber DEF TypeOK
<1>3. ToSet(ringbuf) \cup dropped \subseteq 1..sent /\ \A t \in Tasks : Has(t) \subseteq 1..sent
  BY DEF MsgInv, Numbered
<1>4. Numbered'
  BY <1>1, <1>2, <1>3 DEF Numbered
<1>5. Kept'
  <2>1. ASSUME NEW n \in 1..sent' PROVE n \in ToSet(ringbuf') \cup dropped \/ \E t \in Tasks : n \in Has(t)
    <3>1. CASE n \in 1..sent
      BY <3>1 DEF MsgInv, Kept
    <3>2. CASE n = sent + 1
      BY <3>2
    <3> QED BY <1>2, <3>1, <3>2
  <2> QED BY <1>1, <2>1 DEF Kept
<1>6. Once'
  <2>1. ToSet(ringbuf') \cap dropped = {}
    BY <1>2, <1>3 DEF MsgInv, Once
  <2>2. \A t \in Tasks : Has(t) \cap ToSet(ringbuf') = {}
    BY <1>2, <1>3 DEF MsgInv, Once
  <2> QED BY <1>1, <2>1, <2>2 DEF MsgInv, Once
<1>7. InOrder'
  <2>1. ~use.front => \A t \in Tasks : \A n \in Has(t), m \in ToSet(ringbuf') : n < m
    BY <1>2, <1>3 DEF MsgInv, InOrder
  <2> QED BY <1>1, <2>1 DEF MsgInv, InOrder
<1> QED BY <1>4, <1>5, <1>6, <1>7 DEF MsgInv

\* A new message is handed to the waiters ts, one unless it is sent to all.
LEMMA MsgHanded ==
    ASSUME TypeOK, MsgInv, UNCHANGED <<use, ringbuf, got, dropped>>, sent' = sent + 1, ToSet(ringbuf) = {},
           NEW ts \in SUBSET Tasks, ts # {}, use.all \/ \A t, u \in ts : t = u,
           \A t \in Tasks : Out(t)' = IF t \in ts THEN {sent + 1} ELSE Out(t),
           \A t \in ts : Out(t) = {}
    PROVE  MsgInv'
<1> DEFINE m == sent + 1
<1>1. \A t \in Tasks : Has(t)' = IF t \in ts THEN Has(t) \cup {m} ELSE Has(t)
  BY DEF Has
<1>2. /\ m \notin 1..sent /\ 1..sent' = 1..sent \cup {m}
      /\ \A n \in 1..sent : n < m
  BY NextNumber DEF TypeOK
<1> HIDE DEF m
<1>3. dropped \subseteq 1..sent /\ \A t \in Tasks : Has(t) \subseteq 1..sent
  BY DEF MsgInv, Numbered
<1>4. Numbered'
  BY <1>1, <1>2, <1>3 DEF Numbered
<1>5. Kept'
  <2>1. ASSUME NEW n \in 1..sent' PROVE n \in dropped \/ \E t \in Tasks : n \in Has(t)'
    <3>1. CASE n \in 1..sent
      <4>1. n \in dropped \/ \E t \in Tasks : n \in Has(t)
        BY <3>1 DEF MsgInv, Kept
      <4> QED BY <1>1, <4>1
    <3>2. CASE n = m
      BY <1>1, <3>2
    <3> QED BY <1>2, <3>1, <3>2
  <2> QED BY <2>1 DEF Kept
<1>6. Once'
  <2>1. ASSUME NEW t \in Tasks PROVE Out(t)' \cap ToSet(got[t]) = {}
    <3>1. m \notin ToSet(got[t])
      BY <1>2, <1>3 DEF Has
    <3> QED BY <3>1 DEF MsgInv, Once, m
  <2>2. ASSUME ~use.all, NEW t \in Tasks, NEW u \in Tasks, u # t
        PROVE  Has(t)' \cap dropped = {} /\ Has(t)' \cap Has(u)' = {}
    <3>1. Has(t) \cap dropped = {} /\ Has(t) \cap Has(u) = {}
      BY <2>2 DEF MsgInv, Once
    <3>2. m \notin dropped /\ m \notin Has(t) /\ m \notin Has(u) /\ ~(t \in ts /\ u \in ts)
      BY <1>2, <1>3, <2>2
    <3> QED BY <1>1, <3>1, <3>2
  <2>3. ASSUME ~use.all, NEW t \in Tasks PROVE Has(t)' \cap dropped = {}
    <3>1. Has(t) \cap dropped = {} /\ m \notin dropped
      BY <1>2, <1>3, <2>3 DEF MsgInv, Once
    <3> QED BY <1>1, <3>1
  <2> QED BY <2>1, <2>2, <2>3 DEF MsgInv, Once
<1>7. InOrder'
  <2>1. ASSUME ~use.front, NEW t \in Tasks PROVE \A n \in Out(t)', k \in ToSet(got[t]) : k < n
    <3>1. \A k \in ToSet(got[t]) : k < m
      BY <1>2, <1>3 DEF Has
    <3> QED BY <3>1, <2>1 DEF MsgInv, InOrder, m
  <2> QED BY <2>1 DEF MsgInv, InOrder
<1> QED BY <1>4, <1>5, <1>6, <1>7 DEF MsgInv

\* A receiver takes the first message of the ring.
LEMMA MsgTaken ==
    ASSUME TypeOK, MsgInv, UNCHANGED <<use, sent, dropped>>, \A t \in Tasks : Out(t)' = Out(t),
           NEW t \in Tasks, Out(t) = {}, ringbuf # <<>>, ringbuf' = SubSeq(ringbuf, 2, Len(ringbuf)),
           got' = [got EXCEPT ![t] = Append(@, ringbuf[1])]
    PROVE  MsgInv'
<1> DEFINE h == ringbuf[1]
<1>0. ringbuf \in Seq(Nat) /\ got \in [Tasks -> Seq(Nat)] /\ got[t] \in Seq(Nat)
  BY DEF TypeOK
<1>1. /\ h \in Nat /\ ToSet(ringbuf) = ToSet(ringbuf') \cup {h}
      /\ NoDup(ringbuf) => NoDup(ringbuf') /\ h \notin ToSet(ringbuf')
      /\ Rising(ringbuf) => Rising(ringbuf') /\ \A m \in ToSet(ringbuf') : h < m
  BY <1>0, PopMsg
<1>2. got'[t] = Append(got[t], h) /\ \A u \in Tasks : u # t => got'[u] = got[u]
  BY <1>0
<1> HIDE DEF h
<1>3. /\ ToSet(got'[t]) = ToSet(got[t]) \cup {h}
      /\ NoDup(got[t]) /\ h \notin ToSet(got[t]) => NoDup(got'[t])
      /\ Rising(got[t]) /\ (\A m \in ToSet(got[t]) : m < h) => Rising(got'[t])
  BY <1>0, <1>1, <1>2, AppendMsg
<1>4. \A u \in Tasks : Has(u)' = IF u = t THEN Has(u) \cup {h} ELSE Has(u)
  BY <1>2, <1>3 DEF Has
<1>5. h \in ToSet(ringbuf) /\ h \notin dropped /\ \A u \in Tasks : h \notin Has(u)
  BY <1>1 DEF MsgInv, Once
<1>6. Numbered'
  BY <1>1, <1>4, <1>5 DEF MsgInv, Numbered
<1>9. Kept'
  <2>1. ASSUME NEW n \in 1..sent PROVE n \in ToSet(ringbuf') \cup dropped \/ \E u \in Tasks : n \in Has(u)'
    <3>1. n \in ToSet(ringbuf) \cup dropped \/ \E u \in Tasks : n \in Has(u)
      BY DEF MsgInv, Kept
    <3>2. CASE n = h
      BY <1>4, <3>2
    <3>3. CASE n # h /\ n \in ToSet(ringbuf)
      BY <1>1, <3>3
    <3> QED BY <1>4, <3>1, <3>2, <3>3
  <2> QED BY <2>1 DEF Kept
<1>7. Once'
  <2>1. NoDup(ringbuf') /\ ToSet(ringbuf') \cap dropped = {}
    BY <1>1 DEF MsgInv, Once
  <2>2. ASSUME NEW u \in Tasks
        PROVE  NoDup(got'[u]) /\ Out(u) \cap ToSet(got'[u]) = {} /\ Has(u)' \cap ToSet(ringbuf') = {}
    <3>1. NoDup(got[u]) /\ Out(u) \cap ToSet(got[u]) = {} /\ Has(u) \cap ToSet(ringbuf) = {} /\ NoDup(ringbuf)
      BY DEF MsgInv, Once
    <3>2. h \notin ToSet(got[u])
      BY <1>5 DEF Has
    <3>3. CASE u = t
      BY <1>1, <1>3, <1>4, <3>1, <3>2, <3>3
    <3>4. CASE u # t
      BY <1>1, <1>2, <1>4, <3>1, <3>4
    <3> QED BY <3>3, <3>4
  <2>3. ASSUME ~use.all, NEW u \in Tasks PROVE Has(u)' \cap dropped = {}
    BY <1>4, <1>5, <2>3 DEF MsgInv, Once
  <2>4. ASSUME ~use.all, NEW u \in Tasks, NEW v \in Tasks, v # u PROVE Has(u)' \cap Has(v)' = {}
    <3>1. Has(u) \cap Has(v) = {} /\ h \notin Has(u) /\ h \notin Has(v)
      BY <1>5, <2>4 DEF MsgInv, Once
    <3> QED BY <1>4, <3>1, <2>4
  <2> QED BY <2>1, <2>2, <2>3, <2>4 DEF MsgInv, Once
<1>8. InOrder'
  <2> SUFFICES ASSUME ~use.front PROVE InOrder'
    BY DEF InOrder
  <2>1. Rising(ringbuf) /\ Rising(ringbuf') /\ \A m \in ToSet(ringbuf') : h < m /\ m \in ToSet(ringbuf)
    BY <1>1 DEF MsgInv, InOrder
  <2>2. ASSUME NEW u \in Tasks
        PROVE  /\ Rising(got'[u]) /\ \A n \in Has(u)', m \in ToSet(ringbuf') : n < m
               /\ \A n \in Out(u), m \in ToSet(got'[u]) : m < n
    <3>1. /\ Rising(got[u]) /\ \A n \in Has(u), m \in ToSet(ringbuf) : n < m
          /\ \A n \in Out(u), m \in ToSet(got[u]) : m < n
      BY DEF MsgInv, InOrder
    <3>2. \A m \in ToSet(got[u]) : m < h
      BY <1>5, <3>1 DEF Has
    <3>3. CASE u = t
      BY <1>3, <1>4, <2>1, <3>1, <3>2, <3>3
    <3>4. CASE u # t
      BY <1>2, <1>4, <2>1, <3>1, <3>4
    <3> QED BY <3>3, <3>4
  <2> QED BY <2>1, <2>2 DEF InOrder
<1> QED BY <1>6, <1>7, <1>8, <1>9 DEF MsgInv

\* A receiver returns with the message it was handed.
LEMMA MsgReturned ==
    ASSUME TypeOK, MsgInv, UNCHANGED <<use, sent, ringbuf, dropped>>,
           NEW t \in Tasks, NEW m \in Nat, Out(t) = {m}, \A u \in Tasks : Out(u)' = IF u = t THEN {} ELSE Out(u),
           got' = [got EXCEPT ![t] = Append(@, m)]
    PROVE  MsgInv'
<1>0. got \in [Tasks -> Seq(Nat)] /\ got[t] \in Seq(Nat)
  BY DEF TypeOK
<1>2. got'[t] = Append(got[t], m) /\ \A u \in Tasks : u # t => got'[u] = got[u]
  BY <1>0
<1>3. /\ ToSet(got'[t]) = ToSet(got[t]) \cup {m}
      /\ NoDup(got[t]) /\ m \notin ToSet(got[t]) => NoDup(got'[t])
      /\ Rising(got[t]) /\ (\A n \in ToSet(got[t]) : n < m) => Rising(got'[t])
  BY <1>0, <1>2, AppendMsg
<1>4. \A u \in Tasks : Has(u)' = Has(u)
  BY <1>2, <1>3 DEF Has
<1>5. Numbered' /\ Kept'
  <2>1. Numbered'
    BY <1>4 DEF MsgInv, Numbered
  <2>2. Kept'
    BY <1>4 DEF MsgInv, Kept
  <2> QED BY <2>1, <2>2
<1>6. Once'
  <2>1. ASSUME NEW u \in Tasks PROVE NoDup(got'[u]) /\ Out(u)' \cap ToSet(got'[u]) = {}
    <3>1. NoDup(got[u]) /\ Out(u) \cap ToSet(got[u]) = {}
      BY DEF MsgInv, Once
    <3>2. CASE u = t
      BY <1>3, <3>1, <3>2
    <3>3. CASE u # t
      BY <1>2, <3>1, <3>3
    <3> QED BY <3>2, <3>3
  <2> QED BY <1>4, <2>1 DEF MsgInv, Once
<1>7. InOrder'
  <2> SUFFICES ASSUME ~use.front PROVE InOrder'
    BY DEF InOrder
  <2>1. ASSUME NEW u \in Tasks PROVE Rising(got'[u]) /\ \A n \in Out(u)', k \in ToSet(got'[u]) : k < n
    <3>1. Rising(got[u]) /\ \A n \in Out(u), k \in ToSet(got[u]) : k < n
      BY DEF MsgInv, InOrder
    <3>2. CASE u = t
      BY <1>3, <3>1, <3>2
    <3>3. CASE u # t
      BY <1>2, <3>1, <3>3
    <3> QED BY <3>2, <3>3
  <2> QED BY <1>4, <2>1 DEF MsgInv, InOrder
<1> QED BY <1>5, <1>6, <1>7 DEF MsgInv

\* A receiver is deleted with the message it was handed, or without one.
LEMMA MsgLost ==
    ASSUME MsgInv, UNCHANGED <<use, sent, ringbuf, got>>,
           NEW t \in Tasks, \A u \in Tasks : Out(u)' = IF u = t THEN {} ELSE Out(u),
           dropped' = dropped \cup Out(t)
    PROVE  MsgInv'
<1>1. \A u \in Tasks : Has(u)' = IF u = t THEN ToSet(got[u]) ELSE Has(u)
  BY DEF Has
<1>2. Has(t) = ToSet(got[t]) \cup Out(t) /\ \A u \in Tasks : Has(u)' \subseteq Has(u)
  BY <1>1 DEF Has
<1>3. Numbered'
  BY <1>2 DEF MsgInv, Numbered
<1>4. Kept'
  <2>1. ASSUME NEW m \in 1..sent, NEW u \in Tasks, m \in Has(u) PROVE m \in dropped' \/ m \in Has(u)'
    BY <1>1, <1>2, <2>1
  <2> QED BY <2>1 DEF MsgInv, Kept
<1>5. Once'
  <2>1. ToSet(ringbuf) \cap dropped' = {}
    BY <1>2 DEF MsgInv, Once
  <2>2. ASSUME NEW u \in Tasks
        PROVE  NoDup(got[u]) /\ Out(u)' \cap ToSet(got[u]) = {} /\ Has(u)' \cap ToSet(ringbuf) = {}
    BY <1>2 DEF MsgInv, Once
  <2>3. ASSUME ~use.all, NEW u \in Tasks PROVE Has(u)' \cap dropped' = {}
    <3>1. Has(u) \cap dropped = {} /\ (u # t => Has(u) \cap Has(t) = {}) /\ Out(t) \cap ToSet(got[t]) = {}
      BY <2>3 DEF MsgInv, Once
    <3>2. CASE u = t
      BY <1>1, <1>2, <3>1, <3>2
    <3>3. CASE u # t
      BY <1>1, <1>2, <3>1, <3>3
    <3> QED BY <3>2, <3>3
  <2>4. ASSUME ~use.all, NEW u \in Tasks, NEW v \in Tasks, v # u PROVE Has(u)' \cap Has(v)' = {}
    BY <1>2, <2>4 DEF MsgInv, Once
  <2> QED BY <2>1, <2>2, <2>3, <2>4 DEF MsgInv, Once
<1>6. InOrder'
  BY <1>2 DEF MsgInv, InOrder
<1> QED BY <1>3, <1>4, <1>5, <1>6 DEF MsgInv

\* The messages of the ring are dropped.
LEMMA MsgDropped ==
    ASSUME MsgInv, UNCHANGED <<use, sent, got>>, \A t \in Tasks : Out(t)' = Out(t), DropAll
    PROVE  MsgInv'
<1>1. ToSet(ringbuf') = {} /\ NoDup(ringbuf') /\ Rising(ringbuf') /\ dropped' = dropped \cup ToSet(ringbuf)
  BY EmptyMsg DEF DropAll
<1>2. \A t \in Tasks : Has(t)' = Has(t)
  BY DEF Has
<1>3. Numbered' /\ Kept'
  BY <1>1, <1>2 DEF MsgInv, Numbered, Kept
<1>4. Once'
  <2>1. ~use.all => \A t \in Tasks : Has(t) \cap dropped' = {}
    BY <1>1 DEF MsgInv, Once
  <2> QED BY <1>1, <1>2, <2>1 DEF MsgInv, Once
<1>5. InOrder'
  BY <1>1, <1>2 DEF MsgInv, InOrder
<1> QED BY <1>3, <1>4, <1>5 DEF MsgInv

-----------------------------------------------------------------------------
(* The calls.                                                               *)

\* What the queue is, apart from its messages.
StoreInv == Counted /\ Waiting /\ NoWaiterWithMessage

\* The invariant in three parts: types, the store with its waiters, and messages.
LEMMA Parts == QueueInv <=> TypeOK /\ StoreInv /\ MsgInv
BY DEF QueueInv, StoreInv, MsgInv

\* The receivers that are on their way out, when none moves.
LEMMA OutSame ==
    ASSUME UNCHANGED <<pc, blk_list, blk_state, task_msg>>
    PROVE  \A t \in Tasks : Out(t)' = Out(t)
BY DEF Out

\* A message is stored, at the front only when the application sends to the front.
LEMMA StoreStep ==
    ASSUME QueueInv, NEW front, front => use.front, Store(sent', front), sent' = sent + 1, obj_type # "none",
           UNCHANGED <<use, obj_type, pc, got, dropped>>
    PROVE  QueueInv'
<1> DEFINE m == sent + 1
<1>1. TypeOK /\ StoreInv /\ MsgInv
  BY Parts
<1>2. ringbuf \in Seq(Nat) /\ sent \in Nat /\ m \in Nat /\ m \notin 1..sent /\ \A n \in 1..sent : n < m
  BY <1>1, NextNumber DEF TypeOK
<1>3. ToSet(ringbuf) \subseteq 1..sent /\ NoDup(ringbuf) /\ (use.front \/ Rising(ringbuf))
  BY <1>1 DEF MsgInv, Numbered, Once, InOrder
<1>4. /\ blk_list = <<>> /\ cur_num' = cur_num + 1 /\ UNCHANGED <<blk_list, blk_state, task_msg>>
      /\ ringbuf' = IF front THEN <<m>> \o ringbuf ELSE Append(ringbuf, m)
  BY DEF Store, pendVars
<1>5. /\ ringbuf' \in Seq(Nat) /\ Len(ringbuf') = Len(ringbuf) + 1
      /\ ToSet(ringbuf') = ToSet(ringbuf) \cup {m} /\ NoDup(ringbuf') /\ (use.front \/ Rising(ringbuf'))
  <2> HIDE DEF m
  <2>0. m \notin ToSet(ringbuf) /\ \A n \in ToSet(ringbuf) : n < m
    BY <1>2, <1>3
  <2>1. CASE front
    <3>1. ringbuf' = <<m>> \o ringbuf /\ use.front
      BY <1>4, <2>1
    <3> QED BY <3>1, <1>2, <1>3, <2>0, ConsMsg
  <2>2. CASE ~front
    <3>1. ringbuf' = Append(ringbuf, m)
      BY <1>4, <2>2
    <3> QED BY <3>1, <1>2, <1>3, <2>0, AppendMsg
  <2> QED BY <2>1, <2>2
<1>6. MsgInv'
  BY <1>1, <1>4, <1>5, OutSame, MsgStored
<1>7. cur_num \in Nat /\ cur_num + 1 \in Nat /\ Len(ringbuf) \in Nat
  BY <1>1, <1>2, SMTT(60) DEF TypeOK
<1>8. TypeOK'
  BY <1>1, <1>2, <1>4, <1>5, <1>7 DEF TypeOK
<1>9. Counted'
  <2>1. /\ cur_num >= Len(ringbuf) => cur_num' >= Len(ringbuf')
        /\ cur_num = Len(ringbuf) => cur_num' = Len(ringbuf')
    BY <1>4, <1>5, <1>7, SMTT(60)
  <2> QED BY <1>1, <2>1 DEF StoreInv, Counted
<1>10. Waiting' /\ NoWaiterWithMessage'
  BY <1>1, <1>4 DEF StoreInv, Waiting, NoWaiterWithMessage
<1> QED BY <1>6, <1>8, <1>9, <1>10 DEF QueueInv, MsgInv

\* What becomes of the waiting list when the tasks ts leave it: the queue is as
\* before, and those that stay are still waiting.
LEMMA WakeStep ==
    ASSUME QueueInv, NEW ts \in SUBSET Tasks, \A t \in ts : Contains(blk_list, t),
           blk_list' \in Seq(Tasks), NoDup(blk_list'),
           \A t \in Tasks : Contains(blk_list', t) <=> Contains(blk_list, t) /\ t \notin ts,
           pc' = pc
    PROVE  /\ Waiting' /\ (blk_list' # <<>> => blk_list # <<>>)
           /\ \A t \in ts : Out(t) = {} /\ pc'[t] = "recv" /\ ~Contains(blk_list', t)
           /\ \A t \in Tasks : t \notin ts /\ blk_state'[t] = blk_state[t] /\ task_msg'[t] = task_msg[t] => Out(t)' = Out(t)
<1>1. Waiting /\ TypeOK
  BY DEF QueueInv
<1>2. Waiting'
  BY <1>1 DEF Waiting
<1>3. blk_list' # <<>> => blk_list # <<>>
  <2>1. /\ blk_list' = <<>> <=> \A x : ~Contains(blk_list', x)
        /\ blk_list = <<>> <=> \A x : ~Contains(blk_list, x)
        /\ \A x : Contains(blk_list', x) => x \in Tasks
    BY <1>1, NotEmpty DEF TypeOK
  <2> QED BY <2>1
<1>4. ASSUME NEW t \in ts PROVE Out(t) = {} /\ pc'[t] = "recv" /\ ~Contains(blk_list', t)
  BY <1>1 DEF Out, Waiting
<1>5. ASSUME NEW t \in Tasks, t \notin ts, blk_state'[t] = blk_state[t], task_msg'[t] = task_msg[t]
      PROVE  Out(t)' = Out(t)
  <2>1. Contains(blk_list', t) <=> Contains(blk_list, t)
    BY <1>5
  <2> QED BY <1>5, <2>1 DEF Out
<1> QED BY <1>2, <1>3, <1>4, <1>5

\* The message goes to the first waiter, or to all.
LEMMA HandOverStep ==
    ASSUME QueueInv, NEW all, all => use.all, HandOver(sent', all), sent' = sent + 1, obj_type # "none",
           UNCHANGED <<use, obj_type, pc, got, dropped>>
    PROVE  QueueInv'
<1> DEFINE m == sent + 1
           ts == IF all THEN ToSet(blk_list) ELSE {Head(blk_list)}
<1>1. TypeOK /\ StoreInv /\ MsgInv
  BY Parts
<1>2. /\ blk_list # <<>> /\ blk_list' = (IF all THEN <<>> ELSE Tail(blk_list)) /\ UNCHANGED <<ringbuf, cur_num>>
      /\ blk_state' = [t \in Tasks |-> IF t \in ts THEN "FINISH" ELSE blk_state[t]]
      /\ task_msg' = [t \in Tasks |-> IF t \in ts THEN m ELSE task_msg[t]]
  BY DEF HandOver, Wake, storeVars
<1>3. blk_list \in Seq(Tasks) /\ NoDup(blk_list) /\ sent \in Nat /\ m \in Nat
  BY <1>1, NextNumber DEF TypeOK, StoreInv, Waiting
<1>4. /\ ts \in SUBSET Tasks /\ ts # {} /\ (use.all \/ \A t, u \in ts : t = u)
      /\ \A t \in ts : Contains(blk_list, t)
      /\ blk_list' \in Seq(Tasks) /\ NoDup(blk_list')
      /\ \A t \in Tasks : Contains(blk_list', t) <=> Contains(blk_list, t) /\ t \notin ts
  <2>1. CASE all
    <3>1. ts = ToSet(blk_list) /\ blk_list' = <<>> /\ use.all
      BY <1>2, <2>1
    <3>2. \A t : t \in ToSet(blk_list) <=> Contains(blk_list, t)
      BY DEF ToSet, Contains
    <3>3. (\A t : ~Contains(<<>>, t)) /\ NoDup(<<>>) /\ <<>> \in Seq(Tasks)
      BY SMTT(60) DEF Contains, NoDup
    <3>4. (\E t : Contains(blk_list, t)) /\ \A t : Contains(blk_list, t) => t \in Tasks
      <4>1. blk_list # <<>>
        BY <1>2
      <4>2. /\ blk_list = <<>> <=> \A x : ~Contains(blk_list, x)
            /\ \A x : Contains(blk_list, x) => x \in Tasks
        BY <1>3, NotEmpty
      <4> QED BY <4>1, <4>2
    <3> QED BY <3>1, <3>2, <3>3, <3>4
  <2>2. CASE ~all
    <3>1. ts = {Head(blk_list)} /\ blk_list' = Tail(blk_list)
      BY <1>2, <2>2
    <3>2. /\ Head(blk_list) \in Tasks /\ Contains(blk_list, Head(blk_list))
          /\ Tail(blk_list) \in Seq(Tasks) /\ NoDup(Tail(blk_list))
          /\ \A x : Contains(Tail(blk_list), x) <=> Contains(blk_list, x) /\ x # Head(blk_list)
      BY <1>2, <1>3, TailMembers
    <3> QED BY <3>1, <3>2
  <2> QED BY <2>1, <2>2
<1> HIDE DEF ts, m
<1>5. /\ Waiting' /\ (blk_list' # <<>> => blk_list # <<>>)
      /\ \A t \in ts : Out(t) = {} /\ pc'[t] = "recv" /\ ~Contains(blk_list', t)
      /\ \A t \in Tasks : t \notin ts /\ blk_state'[t] = blk_state[t] /\ task_msg'[t] = task_msg[t] => Out(t)' = Out(t)
  BY <1>4, WakeStep
<1>6. \A t \in Tasks : Out(t)' = IF t \in ts THEN {m} ELSE Out(t)
  <2>1. ASSUME NEW t \in ts PROVE Out(t)' = {m}
    BY <1>2, <1>4, <1>5 DEF Out
  <2>2. ASSUME NEW t \in Tasks, t \notin ts PROVE Out(t)' = Out(t)
    BY <1>2, <1>5, <2>2
  <2> QED BY <2>1, <2>2
<1>7. ringbuf = <<>> /\ ToSet(ringbuf) = {}
  BY <1>1, <1>2, EmptyMsg DEF StoreInv, NoWaiterWithMessage
<1>8. MsgInv'
  BY <1>1, <1>2, <1>4, <1>5, <1>6, <1>7, MsgHanded DEF m
<1>9. TypeOK'
  <2>1. blk_state' \in [Tasks -> {"FINISH", "TIMEOUT", "DEL"}] /\ task_msg' \in [Tasks -> Nat \cup {NULL}]
    BY <1>1, <1>2, <1>3 DEF TypeOK
  <2> QED BY <1>1, <1>2, <1>3, <1>4, <2>1 DEF TypeOK, m
<1>10. Counted' /\ NoWaiterWithMessage'
  BY <1>1, <1>2, <1>7 DEF StoreInv, Counted, NoWaiterWithMessage
<1> QED BY <1>5, <1>8, <1>9, <1>10 DEF QueueInv, MsgInv

\* Waiters leave with another result than a message, and no message moves.
LEMMA WakeSame ==
    ASSUME QueueInv, NEW ts \in SUBSET Tasks, \A t \in ts : Contains(blk_list, t), NEW others, NEW st,
           Wake(ts, others, st), others \in Seq(Tasks), NoDup(others), st \in {"TIMEOUT", "DEL"},
           \A t \in Tasks : Contains(others, t) <=> Contains(blk_list, t) /\ t \notin ts,
           UNCHANGED <<pc, task_msg>>
    PROVE  /\ Waiting' /\ (blk_list' # <<>> => blk_list # <<>>)
           /\ \A t \in Tasks : Out(t)' = Out(t)
           /\ blk_list' \in Seq(Tasks) /\ blk_state' \in [Tasks -> {"FINISH", "TIMEOUT", "DEL"}]
<1>1. blk_list' = others /\ blk_state' = [t \in Tasks |-> IF t \in ts THEN st ELSE blk_state[t]]
  BY DEF Wake
<1>2. /\ Waiting' /\ (blk_list' # <<>> => blk_list # <<>>)
      /\ \A t \in ts : Out(t) = {} /\ pc'[t] = "recv" /\ ~Contains(blk_list', t)
      /\ \A t \in Tasks : t \notin ts /\ blk_state'[t] = blk_state[t] /\ task_msg'[t] = task_msg[t] => Out(t)' = Out(t)
  BY <1>1, WakeStep
<1>3. ASSUME NEW t \in Tasks PROVE Out(t)' = Out(t)
  <2>1. CASE t \in ts
    <3>1. blk_state'[t] # "FINISH"
      BY <1>1, <2>1
    <3> QED BY <1>2, <2>1, <3>1 DEF Out
  <2>2. CASE t \notin ts
    BY <1>1, <1>2, <2>2
  <2> QED BY <2>1, <2>2
<1>4. blk_state' \in [Tasks -> {"FINISH", "TIMEOUT", "DEL"}]
  BY <1>1 DEF QueueInv, TypeOK
<1> QED BY <1>1, <1>2, <1>3, <1>4

\* tick_list_update takes a waiter off the list, and no message moves.
LEMMA TimeOutStep ==
    ASSUME NatLeast, QueueInv, NEW t \in Tasks, TimeOut(t)
    PROVE  QueueInv'
<1>1. TypeOK /\ StoreInv /\ MsgInv
  BY Parts
<1>2. /\ Contains(blk_list, t) /\ Wake({t}, KlistRm(blk_list, t), "TIMEOUT")
      /\ UNCHANGED <<use, obj_type, ringbuf, cur_num, pc, task_msg, sent, got, dropped>>
  BY DEF TimeOut, storeVars
<1>3. /\ KlistRm(blk_list, t) \in Seq(Tasks) /\ NoDup(KlistRm(blk_list, t))
      /\ \A x : Contains(KlistRm(blk_list, t), x) <=> Contains(blk_list, x) /\ x # t
  BY <1>1, KlistRmMembers DEF TypeOK, StoreInv, Waiting
<1>4. /\ Waiting' /\ (blk_list' # <<>> => blk_list # <<>>)
      /\ \A u \in Tasks : Out(u)' = Out(u)
      /\ blk_list' \in Seq(Tasks) /\ blk_state' \in [Tasks -> {"FINISH", "TIMEOUT", "DEL"}]
  <2>1. /\ {t} \in SUBSET Tasks /\ (\A u \in {t} : Contains(blk_list, u)) /\ "TIMEOUT" \in {"TIMEOUT", "DEL"}
        /\ \A u \in Tasks : Contains(KlistRm(blk_list, t), u) <=> Contains(blk_list, u) /\ u \notin {t}
    BY <1>2, <1>3
  <2>2. UNCHANGED <<pc, task_msg>>
    BY <1>2
  <2> QED BY <1>2, <1>3, <2>1, <2>2, WakeSame
<1>5. MsgInv'
  BY <1>1, <1>2, <1>4, MsgSame
<1>6. TypeOK'
  BY <1>1, <1>2, <1>4 DEF TypeOK
<1>7. Counted' /\ NoWaiterWithMessage'
  BY <1>1, <1>2, <1>4 DEF StoreInv, Counted, NoWaiterWithMessage
<1> QED BY <1>4, <1>5, <1>6, <1>7 DEF QueueInv, MsgInv

\* Both kinds of queue know whether they are empty.
LEMMA EmptyIsKnown ==
    ASSUME QueueInv, obj_type # "none"
    PROVE  IsEmpty <=> ringbuf = <<>>
<1>1. TypeOK /\ Counted
  BY DEF QueueInv
<1>2. CASE use.buf
  BY <1>2 DEF IsEmpty
<1>3. CASE ~use.buf
  <2>1. cur_num = Len(ringbuf)
    BY <1>1, <1>3 DEF TypeOK, Counted
  <2>2. ringbuf = <<>> <=> Len(ringbuf) = 0
    BY <1>1, EmptyLength DEF TypeOK
  <2> QED BY <1>3, <2>1, <2>2 DEF IsEmpty
<1> QED BY <1>2, <1>3

\* A receiver that finds a message takes the first one.
LEMMA RecvNowStep ==
    ASSUME QueueInv, NEW t \in Tasks, RecvNow(t)
    PROVE  QueueInv'
<1>1. TypeOK /\ StoreInv /\ MsgInv
  BY Parts
<1>2. /\ obj_type # "none" /\ pc[t] = "run" /\ ~IsEmpty /\ cur_num' = cur_num - 1
      /\ UNCHANGED <<use, obj_type, blk_list, blk_state, pc, task_msg, sent, dropped>>
  BY DEF RecvNow, pendVars
<1>3. ringbuf # <<>> /\ ringbuf \in Seq(Nat) /\ got \in [Tasks -> Seq(Nat)] /\ got[t] \in Seq(Nat)
  BY <1>1, <1>2, EmptyIsKnown DEF TypeOK
<1>4. ringbuf' = SubSeq(ringbuf, 2, Len(ringbuf)) /\ got' = [got EXCEPT ![t] = Append(@, ringbuf[1])]
  BY <1>3 DEF RecvNow, Pop
<1>5. Out(t) = {}
  BY <1>2 DEF Out
<1>6. MsgInv'
  BY <1>1, <1>2, <1>3, <1>4, <1>5, OutSame, MsgTaken
<1>7. ringbuf[1] \in Nat /\ ringbuf' \in Seq(Nat) /\ Len(ringbuf') = Len(ringbuf) - 1
  BY <1>3, <1>4, PopMsg
<1>8. got' \in [Tasks -> Seq(Nat)]
  <2>1. Append(got[t], ringbuf[1]) \in Seq(Nat)
    BY <1>3, <1>7, AppendMsg
  <2> QED BY <1>3, <1>4, <2>1
<1>9. Len(ringbuf) \in Nat /\ Len(ringbuf) > 0 /\ cur_num \in Nat
  BY <1>1, <1>3, SMTT(60) DEF TypeOK
<1>10. cur_num >= Len(ringbuf)
  <2>1. CASE use.buf
    BY <1>1, <2>1 DEF StoreInv, Counted
  <2>2. CASE ~use.buf
    <3>1. cur_num = Len(ringbuf)
      BY <1>1, <1>2, <2>2 DEF StoreInv, Counted, TypeOK
    <3> QED BY <1>9, <3>1, SMTT(60)
  <2> QED BY <2>1, <2>2
<1>11. /\ cur_num' \in Nat /\ cur_num' >= Len(ringbuf')
       /\ cur_num = Len(ringbuf) => cur_num' = Len(ringbuf')
  BY <1>2, <1>7, <1>9, <1>10, SMTT(60)
<1>12. TypeOK'
  BY <1>1, <1>2, <1>7, <1>8, <1>11 DEF TypeOK
<1>13. Counted'
  BY <1>1, <1>2, <1>11 DEF StoreInv, Counted
<1>14. Waiting' /\ NoWaiterWithMessage'
  BY <1>1, <1>2, <1>3 DEF StoreInv, Waiting, NoWaiterWithMessage
<1> QED BY <1>6, <1>12, <1>13, <1>14 DEF QueueInv, MsgInv

\* A receiver that finds none waits, on a queue that is then empty.
LEMMA RecvPendStep ==
    ASSUME NatLeast, QueueInv, NEW t \in Tasks, RecvPend(t)
    PROVE  QueueInv'
<1>1. TypeOK /\ StoreInv /\ MsgInv
  BY Parts
<1>2. /\ obj_type # "none" /\ pc[t] = "run" /\ IsEmpty /\ blk_list' = PendListAdd(blk_list, t, PRIO)
      /\ pc' = [pc EXCEPT ![t] = "recv"]
      /\ UNCHANGED <<use, obj_type, ringbuf, cur_num, blk_state, task_msg, sent, got, dropped>>
  BY DEF RecvPend, RecvPendAlways, storeVars
<1>3. ringbuf = <<>>
  BY <1>2, EmptyIsKnown
<1>4. ~Contains(blk_list, t)
  BY <1>1, <1>2 DEF StoreInv, Waiting
<1>5. /\ blk_list' \in Seq(Tasks) /\ NoDup(blk_list')
      /\ \A x : Contains(blk_list', x) <=> Contains(blk_list, x) \/ x = t
  BY <1>1, <1>2, <1>4, QueueAssumption, PendListAddMembers DEF TypeOK, StoreInv, Waiting
<1>6. pc' \in [Tasks -> {"run", "recv", "deleted"}] /\ pc'[t] = "recv" /\ \A u \in Tasks : u # t => pc'[u] = pc[u]
  BY <1>1, <1>2 DEF TypeOK
<1>7. ASSUME NEW u \in Tasks PROVE Out(u)' = Out(u)
  <2>1. CASE u = t
    BY <1>2, <1>5, <2>1 DEF Out
  <2>2. CASE u # t
    <3>1. (Contains(blk_list', u) <=> Contains(blk_list, u)) /\ pc'[u] = pc[u]
      BY <1>5, <1>6, <2>2
    <3> QED BY <1>2, <3>1 DEF Out
  <2> QED BY <2>1, <2>2
<1>8. MsgInv'
  BY <1>1, <1>2, <1>7, MsgSame
<1>9. TypeOK'
  BY <1>1, <1>2, <1>5, <1>6 DEF TypeOK
<1>10. Counted' /\ NoWaiterWithMessage'
  BY <1>1, <1>2, <1>3 DEF StoreInv, Counted, NoWaiterWithMessage
<1>11. Waiting'
  BY <1>1, <1>5, <1>6 DEF StoreInv, Waiting
<1> QED BY <1>8, <1>9, <1>10, <1>11 DEF QueueInv, MsgInv

\* A receiver returns, with the message it was handed or without one.
LEMMA RecvReturnStep ==
    ASSUME QueueInv, NEW t \in Tasks, RecvReturn(t)
    PROVE  QueueInv'
<1>1. TypeOK /\ StoreInv /\ MsgInv
  BY Parts
<1>2. /\ pc[t] = "recv" /\ ~Contains(blk_list, t) /\ pc' = [pc EXCEPT ![t] = "run"]
      /\ got' = (IF HasMsg(t) THEN [got EXCEPT ![t] = Append(@, task_msg[t])] ELSE got)
      /\ UNCHANGED <<use, obj_type, ringbuf, cur_num, blk_list, blk_state, task_msg, sent, dropped>>
  BY DEF RecvReturn, storeVars, pendVars
<1>3. pc' \in [Tasks -> {"run", "recv", "deleted"}] /\ pc'[t] = "run" /\ \A u \in Tasks : u # t => pc'[u] = pc[u]
  BY <1>1, <1>2 DEF TypeOK
<1>4. \A u \in Tasks : Out(u)' = IF u = t THEN {} ELSE Out(u)
  <2>1. Out(t)' = {}
    BY <1>3 DEF Out
  <2>2. ASSUME NEW u \in Tasks, u # t PROVE Out(u)' = Out(u)
    BY <1>2, <1>3, <2>2 DEF Out
  <2> QED BY <2>1, <2>2
<1>5. got' \in [Tasks -> Seq(Nat)] /\ MsgInv'
  <2>1. CASE HasMsg(t)
    <3>1. Out(t) = {task_msg[t]}
      BY <1>2, <2>1 DEF Out, HasMsg
    <3>2. Out(t) \subseteq 1..sent
      BY <1>1 DEF MsgInv, Numbered, Has
    <3>3. \A n \in 1..sent : n \in Nat
      BY <1>1, NextNumber DEF TypeOK
    <3>4. task_msg[t] \in Nat
      BY <3>1, <3>2, <3>3
    <3>5. got' = [got EXCEPT ![t] = Append(@, task_msg[t])]
      BY <1>2, <2>1
    <3>6. MsgInv'
      BY <1>1, <1>2, <1>4, <3>1, <3>4, <3>5, MsgReturned
    <3>7. got \in [Tasks -> Seq(Nat)] /\ Append(got[t], task_msg[t]) \in Seq(Nat)
      BY <1>1, <3>4, AppendMsg DEF TypeOK
    <3> QED BY <3>5, <3>6, <3>7
  <2>2. CASE ~HasMsg(t)
    <3>1. Out(t) = {}
      BY <2>2 DEF Out, HasMsg
    <3>2. got' = got /\ \A u \in Tasks : Out(u)' = Out(u)
      BY <1>2, <1>4, <2>2, <3>1
    <3> QED BY <1>1, <1>2, <3>2, MsgSame DEF TypeOK
  <2> QED BY <2>1, <2>2
<1>6. TypeOK'
  BY <1>1, <1>2, <1>3, <1>5 DEF TypeOK
<1>7. Counted' /\ NoWaiterWithMessage'
  BY <1>1, <1>2 DEF StoreInv, Counted, NoWaiterWithMessage
<1>8. Waiting'
  BY <1>1, <1>2, <1>3 DEF StoreInv, Waiting
<1> QED BY <1>5, <1>6, <1>7, <1>8 DEF QueueInv, MsgInv

\* krhino_task_del takes a receiver off the list, with the message it was handed.
LEMMA TaskDelStep ==
    ASSUME NatLeast, QueueInv, NEW t \in Tasks, TaskDel(t)
    PROVE  QueueInv'
<1>1. TypeOK /\ StoreInv /\ MsgInv
  BY Parts
<1>2. /\ pc[t] = "recv" /\ pc' = [pc EXCEPT ![t] = "deleted"] /\ blk_list' = KlistRm(blk_list, t)
      /\ dropped' = dropped \cup (IF ~Contains(blk_list, t) /\ blk_state[t] = "FINISH" THEN {task_msg[t]} ELSE {})
      /\ UNCHANGED <<use, obj_type, ringbuf, cur_num, blk_state, task_msg, sent, got>>
  BY DEF TaskDel, storeVars
<1>3. pc' \in [Tasks -> {"run", "recv", "deleted"}] /\ pc'[t] = "deleted" /\ \A u \in Tasks : u # t => pc'[u] = pc[u]
  BY <1>1, <1>2 DEF TypeOK
<1>4. /\ blk_list' \in Seq(Tasks) /\ NoDup(blk_list')
      /\ \A x : Contains(blk_list', x) <=> Contains(blk_list, x) /\ x # t
  BY <1>1, <1>2, KlistRmMembers DEF TypeOK, StoreInv, Waiting
<1>5. blk_list = <<>> => blk_list' = <<>>
  <2>1. /\ blk_list' = <<>> <=> \A x : ~Contains(blk_list', x)
        /\ blk_list = <<>> <=> \A x : ~Contains(blk_list, x)
    BY <1>1, <1>4, NotEmpty DEF TypeOK
  <2> QED BY <1>4, <2>1
<1>6. \A u \in Tasks : Out(u)' = IF u = t THEN {} ELSE Out(u)
  <2>1. Out(t)' = {}
    BY <1>3 DEF Out
  <2>2. ASSUME NEW u \in Tasks, u # t PROVE Out(u)' = Out(u)
    <3>1. (Contains(blk_list', u) <=> Contains(blk_list, u)) /\ pc'[u] = pc[u]
      BY <1>3, <1>4, <2>2
    <3> QED BY <1>2, <3>1 DEF Out
  <2> QED BY <2>1, <2>2
<1>7. dropped' = dropped \cup Out(t)
  BY <1>2 DEF Out
<1>8. MsgInv'
  BY <1>1, <1>2, <1>6, <1>7, MsgLost
<1>9. TypeOK'
  <2>1. dropped' \subseteq Nat
    <3>1. dropped' \subseteq 1..sent
      BY <1>2, <1>8 DEF MsgInv, Numbered
    <3>2. \A n \in 1..sent : n \in Nat
      BY <1>1, NextNumber DEF TypeOK
    <3> QED BY <3>1, <3>2
  <2> QED BY <1>1, <1>2, <1>3, <1>4, <2>1 DEF TypeOK
<1>10. Counted' /\ NoWaiterWithMessage'
  BY <1>1, <1>2, <1>5 DEF StoreInv, Counted, NoWaiterWithMessage
<1>11. Waiting'
  BY <1>1, <1>3, <1>4 DEF StoreInv, Waiting
<1> QED BY <1>8, <1>9, <1>10, <1>11 DEF QueueInv, MsgInv

-----------------------------------------------------------------------------
(* The object.                                                              *)

\* The messages of the ring are numbers, and so are those that are dropped.
LEMMA DropTypes ==
    ASSUME TypeOK, MsgInv, DropAll
    PROVE  ringbuf' = <<>> /\ ringbuf' \in Seq(Nat) /\ Len(ringbuf') = 0 /\ dropped' \subseteq Nat
<1>1. ToSet(ringbuf) \subseteq 1..sent /\ dropped \subseteq 1..sent /\ \A n \in 1..sent : n \in Nat
  BY NextNumber DEF MsgInv, Numbered, TypeOK
<1> QED BY <1>1, EmptyMsg DEF DropAll

\* krhino_queue_flush drops the messages and clears the counter.
LEMMA FlushStep ==
    ASSUME QueueInv, Flush
    PROVE  QueueInv'
<1>1. TypeOK /\ StoreInv /\ MsgInv
  BY Parts
<1>2. /\ obj_type # "none" /\ DropAll /\ cur_num' = 0
      /\ UNCHANGED <<use, obj_type, blk_list, blk_state, pc, task_msg, sent, got>>
  BY DEF Flush, pendVars
<1>3. ringbuf' = <<>> /\ ringbuf' \in Seq(Nat) /\ Len(ringbuf') = 0 /\ dropped' \subseteq Nat
  BY <1>1, <1>2, DropTypes
<1>4. MsgInv'
  BY <1>1, <1>2, OutSame, MsgDropped
<1>5. 0 \in Nat /\ 0 >= 0
  BY SMTT(60)
<1>6. TypeOK'
  BY <1>1, <1>2, <1>3, <1>5 DEF TypeOK
<1>7. Counted'
  BY <1>1, <1>2, <1>3, <1>5 DEF StoreInv, Counted
<1>8. Waiting' /\ NoWaiterWithMessage'
  BY <1>1, <1>2, <1>3 DEF StoreInv, Waiting, NoWaiterWithMessage
<1> QED BY <1>4, <1>6, <1>7, <1>8 DEF QueueInv, MsgInv

\* krhino_queue_del wakes every waiter and drops the messages.
LEMMA DelStep ==
    ASSUME QueueInv, Del
    PROVE  QueueInv'
<1>1. TypeOK /\ StoreInv /\ MsgInv
  BY Parts
<1>2. /\ obj_type = "queue" /\ obj_type' = "none" /\ Wake(ToSet(blk_list), <<>>, "DEL") /\ DropAll
      /\ UNCHANGED <<use, cur_num, pc, task_msg, sent, got>>
  BY DEF Del
<1>3. ringbuf' = <<>> /\ ringbuf' \in Seq(Nat) /\ Len(ringbuf') = 0 /\ dropped' \subseteq Nat
  BY <1>1, <1>2, DropTypes
<1>4. /\ ToSet(blk_list) \in SUBSET Tasks /\ \A t : t \in ToSet(blk_list) <=> Contains(blk_list, t)
  <2>1. \A t : t \in ToSet(blk_list) <=> Contains(blk_list, t)
    BY DEF ToSet, Contains
  <2>2. \A t : Contains(blk_list, t) => t \in Tasks
    BY <1>1, NotEmpty DEF TypeOK
  <2> QED BY <2>1, <2>2
<1>5. (\A t : ~Contains(<<>>, t)) /\ NoDup(<<>>) /\ <<>> \in Seq(Tasks)
  BY SMTT(60) DEF Contains, NoDup
<1>6. /\ Waiting' /\ (\A t \in Tasks : Out(t)' = Out(t))
      /\ blk_list' \in Seq(Tasks) /\ blk_state' \in [Tasks -> {"FINISH", "TIMEOUT", "DEL"}]
  BY <1>2, <1>4, <1>5, WakeSame
<1>7. MsgInv'
  BY <1>1, <1>2, <1>6, MsgDropped
<1>8. TypeOK'
  BY <1>1, <1>2, <1>3, <1>6 DEF TypeOK
<1>9. blk_list' = <<>>
  BY <1>2 DEF Wake
<1>10. cur_num \in Nat /\ cur_num >= 0
  BY <1>1, SMTT(60) DEF TypeOK
<1>11. Counted'
  BY <1>2, <1>3, <1>9, <1>10 DEF Counted
<1>12. NoWaiterWithMessage'
  BY <1>3 DEF NoWaiterWithMessage
<1> QED BY <1>6, <1>7, <1>8, <1>11, <1>12 DEF QueueInv, MsgInv

\* A queue is created anew on the ring that its deletion left empty.
LEMMA CreateStep ==
    ASSUME QueueInv, Create
    PROVE  QueueInv'
<1>1. TypeOK /\ StoreInv /\ MsgInv
  BY Parts
<1>2. /\ obj_type = "none" /\ obj_type' = (IF use.buf THEN "early" ELSE "queue") /\ cur_num' = 0
      /\ UNCHANGED <<use, ringbuf, blk_list, blk_state, pc, task_msg, sent, got, dropped>>
  BY DEF Create, pendVars
<1>3. ringbuf = <<>> /\ Len(ringbuf) = 0 /\ blk_list = <<>>
  BY <1>1, <1>2, EmptyMsg DEF StoreInv, Counted
<1>4. MsgInv'
  BY <1>1, <1>2, OutSame, MsgSame
<1>5. 0 \in Nat /\ 0 >= 0
  BY SMTT(60)
<1>6. TypeOK'
  BY <1>1, <1>2, <1>5 DEF TypeOK
<1>7. Counted'
  BY <1>2, <1>3, <1>5 DEF Counted
<1>8. Waiting' /\ NoWaiterWithMessage'
  BY <1>1, <1>2 DEF StoreInv, Waiting, NoWaiterWithMessage
<1> QED BY <1>4, <1>6, <1>7, <1>8 DEF QueueInv, MsgInv

\* buf_queue_create initialises the ring of a queue that is already in use.
LEMMA RingInitStep ==
    ASSUME QueueInv, RingInit
    PROVE  QueueInv'
<1>1. TypeOK /\ StoreInv /\ MsgInv
  BY Parts
<1>2. /\ obj_type = "early" /\ obj_type' = "queue" /\ DropAll
      /\ UNCHANGED <<use, cur_num, blk_list, blk_state, pc, task_msg, sent, got>>
  BY DEF RingInit, pendVars
<1>3. ringbuf' = <<>> /\ ringbuf' \in Seq(Nat) /\ Len(ringbuf') = 0 /\ dropped' \subseteq Nat
  BY <1>1, <1>2, DropTypes
<1>4. MsgInv'
  BY <1>1, <1>2, OutSame, MsgDropped
<1>5. TypeOK'
  BY <1>1, <1>2, <1>3 DEF TypeOK
<1>6. cur_num \in Nat /\ cur_num >= 0 /\ use.buf
  <2>1. cur_num \in Nat /\ cur_num >= 0
    BY <1>1, SMTT(60) DEF TypeOK
  <2> QED BY <1>1, <1>2, <2>1 DEF StoreInv, Counted
<1>7. Counted'
  BY <1>2, <1>3, <1>6 DEF Counted
<1>8. Waiting' /\ NoWaiterWithMessage'
  BY <1>1, <1>2, <1>3 DEF StoreInv, Waiting, NoWaiterWithMessage
<1> QED BY <1>4, <1>5, <1>7, <1>8 DEF QueueInv, MsgInv

-----------------------------------------------------------------------------
(* The invariant.                                                           *)

\* The invariant holds of a queue that is just created.
LEMMA QueueInit == Init => QueueInv
<1> SUFFICES ASSUME Init PROVE QueueInv
  OBVIOUS
<1>1. /\ use \in Uses /\ obj_type = "queue" /\ ringbuf = <<>> /\ cur_num = 0 /\ blk_list = <<>>
      /\ pc = [t \in Tasks |-> "run"] /\ blk_state = [t \in Tasks |-> "FINISH"]
      /\ task_msg = [t \in Tasks |-> NULL] /\ sent = 0 /\ got = [t \in Tasks |-> <<>>] /\ dropped = {}
  BY DEF Init
<1>2. 0 \in Nat /\ 0 >= 0 /\ 1..0 = {} /\ <<>> \in Seq(Tasks) /\ \A t : ~Contains(<<>>, t)
  BY SMTT(60) DEF Contains
<1>3. TypeOK
  BY <1>1, <1>2, EmptyMsg DEF TypeOK
<1>4. \A t \in Tasks : Out(t) = {} /\ got[t] = <<>> /\ Has(t) = {}
  BY <1>1, EmptyMsg DEF Out, Has
<1>5. Counted /\ Waiting /\ NoWaiterWithMessage
  BY <1>1, <1>2, EmptyMsg DEF Counted, Waiting, NoWaiterWithMessage
<1>6. Numbered /\ Kept
  BY <1>1, <1>2, <1>4, EmptyMsg DEF Numbered, Kept
<1>7. Once /\ InOrder
  BY <1>1, <1>4, EmptyMsg DEF Once, InOrder
<1> QED BY <1>3, <1>5, <1>6, <1>7 DEF QueueInv

\* msg_send and buf_queue_send store the message or hand it over.
LEMMA SendStep ==
    ASSUME QueueInv, NEW front \in {FALSE, use.front}, NEW all \in {FALSE, use.all}, MsgSend(front, all)
    PROVE  QueueInv'
<1>1. (front => use.front) /\ (all => use.all)
  OBVIOUS
<1>2. /\ obj_type # "none" /\ sent' = sent + 1 /\ UNCHANGED <<use, obj_type, pc, got, dropped>>
      /\ Store(sent', front) \/ HandOver(sent', all)
  BY DEF MsgSend
<1>3. CASE Store(sent', front)
  BY <1>1, <1>2, <1>3, StoreStep
<1>4. CASE HandOver(sent', all)
  BY <1>1, <1>2, <1>4, HandOverStep
<1> QED BY <1>2, <1>3, <1>4

\* Every step of the queues preserves the invariant.
LEMMA QueueStep == QueueInv /\ [Next]_vars => QueueInv'
<1> SUFFICES ASSUME NatLeast, QueueInv, [Next]_vars PROVE QueueInv'
  BY NaturalsAreWellOrdered
<1>1. ASSUME NEW front \in {FALSE, use.front}, NEW all \in {FALSE, use.all}, MsgSend(front, all) PROVE QueueInv'
  BY <1>1, SendStep
<1>2. ASSUME NEW t \in Tasks, RecvNow(t) PROVE QueueInv'
  BY <1>2, RecvNowStep
<1>3. ASSUME NEW t \in Tasks, RecvPend(t) PROVE QueueInv'
  BY <1>3, RecvPendStep
<1>4. ASSUME NEW t \in Tasks, TimeOut(t) PROVE QueueInv'
  BY <1>4, TimeOutStep
<1>5. ASSUME NEW t \in Tasks, RecvReturn(t) PROVE QueueInv'
  BY <1>5, RecvReturnStep
<1>6. ASSUME NEW t \in Tasks, TaskDel(t) PROVE QueueInv'
  BY <1>6, TaskDelStep
<1>7. CASE Flush
  BY <1>7, FlushStep
<1>8. CASE Del
  BY <1>8, DelStep
<1>9. CASE Create
  BY <1>9, CreateStep
<1>10. CASE RingInit
  BY <1>10, RingInitStep
<1>11. CASE UNCHANGED vars
  <2>1. UNCHANGED <<use, obj_type, ringbuf, cur_num, blk_list, blk_state, pc, task_msg, sent, got, dropped>>
    BY <1>11 DEF vars, storeVars, pendVars
  <2>2. TypeOK /\ StoreInv /\ MsgInv
    BY Parts
  <2>3. MsgInv'
    BY <2>1, <2>2, OutSame, MsgSame
  <2>4. TypeOK'
    BY <2>1, <2>2 DEF TypeOK
  <2>5. Counted' /\ Waiting' /\ NoWaiterWithMessage'
    BY <2>1, <2>2 DEF StoreInv, Counted, Waiting, NoWaiterWithMessage
  <2> QED BY <2>3, <2>4, <2>5 DEF QueueInv, MsgInv
<1> QED BY <1>1, <1>2, <1>3, <1>4, <1>5, <1>6, <1>7, <1>8, <1>9, <1>10, <1>11 DEF Next

\* QueueInv holds after every critical section of the queues, whatever the order of
\* senders, receivers, time-outs, flushes and deletions.
THEOREM QueueInvariance == Spec => []QueueInv
<1>1. QueueInv /\ [Next]_vars => QueueInv'
  BY QueueStep
<1>2. Init => QueueInv
  BY QueueInit
<1> QED BY <1>1, <1>2, PTL DEF Spec

-----------------------------------------------------------------------------
(* The properties.                                                          *)

\* Where a message is in a sequence.
LEMMA Positions ==
    ASSUME NEW s, NEW m
    PROVE  /\ At(s, m) # {} <=> m \in ToSet(s)
           /\ NoDup(s) /\ m \in ToSet(s) => \E i : At(s, m) = {i}
<1>1. At(s, m) # {} <=> m \in ToSet(s)
  BY DEF ToSet, At
<1>2. ASSUME NoDup(s), m \in ToSet(s) PROVE \E i : At(s, m) = {i}
  <2>1. PICK i \in 1..Len(s) : s[i] = m
    BY <1>2 DEF ToSet
  <2>2. \A j \in 1..Len(s) : s[j] = m => j = i
    BY <1>2, <2>1 DEF NoDup
  <2> QED BY <2>1, <2>2 DEF At
<1> QED BY <1>1, <1>2

\* Pairs with a given first element.
LEMMA Pairs ==
    ASSUME NEW a, NEW S
    PROVE  ({a} \X S = {} <=> S = {}) /\ \A b : S = {b} => {a} \X S = {<<a, b>>}
<1>1. S = {} => {a} \X S = {}
  BY SMTT(60)
<1>2. ASSUME NEW b \in S PROVE <<a, b>> \in {a} \X S
  BY SMTT(60)
<1>3. ASSUME NEW b, S = {b} PROVE {a} \X S = {<<a, b>>}
  BY <1>3, SMTT(60)
<1> QED BY <1>1, <1>2, <1>3

\* A message that is kept, and once, has exactly one place.
LEMMA KeptImplied == QueueInv => MessagesKept
<1> SUFFICES ASSUME QueueInv, NEW m \in 1..sent PROVE Places(m) # {} /\ (use.all \/ Cardinality(Places(m)) = 1)
  BY DEF MessagesKept
<1> DEFINE Got(t) == {t} \X At(got[t], m)
           R == {"ring"} \X At(ringbuf, m)
           G == {"given"} \X Given(m)
           T == UNION {Got(t) : t \in Tasks}
           D == {"dropped"} \X (dropped \cap {m})
<1>1. Places(m) = R \cup G \cup T \cup D
  BY DEF Places
<1>2. /\ R = {} <=> At(ringbuf, m) = {}
      /\ \A b : At(ringbuf, m) = {b} => R = {<<"ring", b>>}
  BY Pairs
<1>3. /\ G = {} <=> Given(m) = {}
      /\ \A b : Given(m) = {b} => G = {<<"given", b>>}
  BY Pairs
<1>4. /\ D = {} <=> dropped \cap {m} = {}
      /\ \A b : dropped \cap {m} = {b} => D = {<<"dropped", b>>}
  BY Pairs
<1>5. ASSUME NEW t \in Tasks
      PROVE  /\ Got(t) = {} <=> At(got[t], m) = {}
             /\ \A b : At(got[t], m) = {b} => Got(t) = {<<t, b>>}
  BY Pairs
<1> HIDE DEF R, G, D, Got
<1>6. T = {} <=> \A t \in Tasks : Got(t) = {}
  OBVIOUS
<1>7. ASSUME NEW t \in Tasks, \A u \in Tasks : u # t => Got(u) = {} PROVE T = Got(t)
  BY <1>7
<1> HIDE DEF T
<1>8. /\ At(ringbuf, m) # {} <=> m \in ToSet(ringbuf)
      /\ \A t \in Tasks : At(got[t], m) # {} <=> m \in ToSet(got[t])
      /\ Given(m) # {} <=> \E t \in Tasks : m \in Out(t)
      /\ dropped \cap {m} # {} <=> m \in dropped
  BY Positions DEF Given
<1>9. /\ R # {} <=> m \in ToSet(ringbuf)
      /\ G # {} <=> \E t \in Tasks : m \in Out(t)
      /\ T # {} <=> \E t \in Tasks : m \in ToSet(got[t])
      /\ D # {} <=> m \in dropped
  BY <1>2, <1>3, <1>4, <1>5, <1>6, <1>8
<1>10. m \in ToSet(ringbuf) \/ m \in dropped \/ (\E t \in Tasks : m \in ToSet(got[t])) \/ (\E t \in Tasks : m \in Out(t))
  BY DEF QueueInv, Kept, Has
<1>11. Places(m) # {}
  BY <1>1, <1>9, <1>10
<1>12. ASSUME ~use.all PROVE \E p : Places(m) = {p}
  <2>0. /\ NoDup(ringbuf) /\ ToSet(ringbuf) \cap dropped = {}
        /\ \A t \in Tasks : NoDup(got[t]) /\ Out(t) \cap ToSet(got[t]) = {} /\ Has(t) \cap ToSet(ringbuf) = {}
        /\ \A t \in Tasks : Has(t) \cap dropped = {} /\ \A u \in Tasks : u # t => Has(t) \cap Has(u) = {}
        /\ \A t \in Tasks : Has(t) = ToSet(got[t]) \cup Out(t)
    BY <1>12 DEF QueueInv, Once, Has
  <2>1. CASE m \in ToSet(ringbuf)
    <3>1. PICK i : At(ringbuf, m) = {i}
      BY <2>0, <2>1, Positions
    <3>2. R = {<<"ring", i>>}
      BY <1>2, <3>1
    <3>3. m \notin dropped /\ \A t \in Tasks : m \notin ToSet(got[t]) /\ m \notin Out(t)
      BY <2>0, <2>1
    <3>4. G = {} /\ T = {} /\ D = {}
      BY <1>9, <3>3
    <3>5. R \cup G \cup T \cup D = {<<"ring", i>>}
      BY <3>2, <3>4
    <3> QED BY <1>1, <3>5
  <2>2. CASE m \in dropped
    <3>1. dropped \cap {m} = {m}
      BY <2>2
    <3>2. D = {<<"dropped", m>>}
      BY <1>4, <3>1
    <3>3. m \notin ToSet(ringbuf) /\ \A t \in Tasks : m \notin ToSet(got[t]) /\ m \notin Out(t)
      BY <2>0, <2>2
    <3>4. G = {} /\ T = {} /\ R = {}
      BY <1>9, <3>3
    <3>5. R \cup G \cup T \cup D = {<<"dropped", m>>}
      BY <3>2, <3>4
    <3> QED BY <1>1, <3>5
  <2>3. ASSUME NEW t \in Tasks, m \in Out(t) PROVE \E p : Places(m) = {p}
    <3>1. \A u \in Tasks : m \in Out(u) => u = t
      BY <2>0, <2>3
    <3>2. Given(m) = {t}
      BY <2>3, <3>1 DEF Given
    <3>3. G = {<<"given", t>>}
      BY <1>3, <3>2
    <3>4. m \notin ToSet(ringbuf) /\ m \notin dropped /\ \A u \in Tasks : m \notin ToSet(got[u])
      BY <2>0, <2>3
    <3>5. R = {} /\ T = {} /\ D = {}
      BY <1>9, <3>4
    <3>6. R \cup G \cup T \cup D = {<<"given", t>>}
      BY <3>3, <3>5
    <3> QED BY <1>1, <3>6
  <2>4. ASSUME NEW t \in Tasks, m \in ToSet(got[t]) PROVE \E p : Places(m) = {p}
    <3>1. PICK i : At(got[t], m) = {i}
      BY <2>0, <2>4, Positions
    <3>2. \A u \in Tasks : u # t => m \notin ToSet(got[u])
      BY <2>0, <2>4
    <3>3. \A u \in Tasks : u # t => Got(u) = {}
      BY <1>5, <1>8, <3>2
    <3>4. T = {<<t, i>>}
      BY <1>5, <1>7, <3>1, <3>3
    <3>5. m \notin ToSet(ringbuf) /\ m \notin dropped /\ \A u \in Tasks : m \notin Out(u)
      BY <2>0, <2>4
    <3>6. R = {} /\ G = {} /\ D = {}
      BY <1>9, <3>5
    <3>7. R \cup G \cup T \cup D = {<<t, i>>}
      BY <3>4, <3>6
    <3> QED BY <1>1, <3>7
  <2> QED BY <1>10, <2>1, <2>2, <2>3, <2>4
<1>13. ASSUME NEW p PROVE Cardinality({p}) = 1
  BY FS_Singleton
<1> QED BY <1>11, <1>12, <1>13

\* A message that a send accepted is in the ring, with a receiver on its way out of
\* the call, returned, or dropped with a flush, the queue or a task, and in one of
\* these places only unless it was sent to all.
THEOREM MessagesKeptThm == Spec => []MessagesKept
<1>1. QueueInv => MessagesKept
  BY KeptImplied
<1> QED BY <1>1, QueueInvariance, PTL

\* Without sends to the front, receivers get messages in the order of sending, also
\* when some are handed to a waiter past the ring.
THEOREM FirstInFirstOutThm == Spec => []FirstInFirstOut
<1>1. QueueInv => FirstInFirstOut
  <2> SUFFICES ASSUME QueueInv, ~use.front, NEW t \in Tasks
               PROVE  /\ \A i, j \in 1..Len(got[t]) : i < j => got[t][i] < got[t][j]
                      /\ \A m \in ToSet(ringbuf), n \in 1..sent : n \in ToSet(got[t]) \/ t \in Given(n) => n < m
                      /\ \A n \in 1..sent : t \in Given(n) => \A k \in ToSet(got[t]) : k < n
    BY DEF FirstInFirstOut
  <2>1. /\ Rising(got[t]) /\ \A n \in Has(t), m \in ToSet(ringbuf) : n < m
        /\ \A n \in Out(t), m \in ToSet(got[t]) : m < n
    BY DEF QueueInv, InOrder
  <2>2. \A n : t \in Given(n) <=> n \in Out(t)
    BY DEF Given
  <2> QED BY <2>1, <2>2 DEF Rising, Has
<1> QED BY <1>1, QueueInvariance, PTL

\* msg_send and buf_queue_send store a message only when nobody waits, and a receiver
\* blocks only on an empty queue: nobody waits while there is a message.
THEOREM NoWaiterWithMessageThm == Spec => []NoWaiterWithMessage
<1>1. QueueInv => NoWaiterWithMessage
  BY DEF QueueInv
<1> QED BY <1>1, QueueInvariance, PTL

\* The cur_num of a queue of pointers is the number of messages in its ring.
THEOREM CountIsMessagesThm == Spec => []CountIsMessages
<1>1. QueueInv => CountIsMessages
  BY DEF QueueInv, Counted, CountIsMessages
<1> QED BY <1>1, QueueInvariance, PTL
=============================================================================
