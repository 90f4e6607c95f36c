----------------------------- MODULE RhinoFacts -----------------------------
(***************************************************************************)
(* What the list operations of RhinoList do to the members of a list and   *)
(* to its order, for lists of any length; what a state that satisfies the  *)
(* invariant looks like to a step; and what the steps have in common.      *)
(***************************************************************************)
EXTENDS RhinoInvariant, TLAPS

\* Every set of naturals that is not empty has a least element.  The lemmas that
\* need it have it as a hypothesis; RhinoKernelProofs proves it.
NatLeast == \A S \in SUBSET Nat : S # {} => \E x \in S : \A y \in S : x <= y

\* Least picks the least element of any set of naturals that is not empty.
LEMMA MinNat ==
    ASSUME NatLeast, NEW S, S \subseteq Nat, S # {}
    PROVE  Least(S) \in S /\ \A x \in S : Least(S) <= x
<1>1. \E x \in S : \A y \in S : x <= y
  BY DEF NatLeast
<1> QED BY <1>1, ZenonT(60) DEF Least

\* FirstOr: the first position that passes the test, and the end when none does.
LEMMA FirstPosition ==
    ASSUME NatLeast, NEW n \in Nat, NEW I, \A i \in I : i \in 1..n
    PROVE  LET k == Least(I \cup {n + 1}) IN
           /\ k \in 1..(n + 1)
           /\ k \in I \/ k = n + 1
           /\ \A i \in I : k <= i
<1> DEFINE J == I \cup {n + 1}
           k == Least(J)
<1>1. J \subseteq Nat /\ J # {}
  OBVIOUS
<1>2. k \in J /\ \A x \in J : k <= x
  BY <1>1, MinNat
<1> HIDE DEF k
<1>3. k \in I \/ k = n + 1
  BY <1>2
<1>4. k \in 1..(n + 1)
  BY <1>3
<1>5. \A i \in I : k <= i
  BY <1>2
<1> QED BY <1>3, <1>4, <1>5 DEF k

\* The two parts of a concatenation.
LEMMA ConcatElements ==
    ASSUME NEW S, NEW s1 \in Seq(S), NEW s2 \in Seq(S)
    PROVE  /\ s1 \o s2 \in Seq(S)
           /\ Len(s1 \o s2) = Len(s1) + Len(s2)
           /\ \A i \in 1..(Len(s1) + Len(s2)) :
                 (s1 \o s2)[i] = IF i <= Len(s1) THEN s1[i] ELSE s2[i - Len(s1)]
  OBVIOUS

\* s is sorted by the numbers f gives its members.
SortedBy(s, f) == \A i, j \in 1..Len(s) : i < j => f[s[i]] <= f[s[j]]

\* Removal, element by element.
LEMMA KlistRmElements ==
    ASSUME NatLeast, NEW S, NEW s \in Seq(S), NEW e, Contains(s, e)
    PROVE  \E k \in 1..Len(s) :
             /\ s[k] = e
             /\ KlistRm(s, e) \in Seq(S)
             /\ Len(KlistRm(s, e)) = Len(s) - 1
             /\ \A i \in 1..(Len(s) - 1) :
                   KlistRm(s, e)[i] = IF i < k THEN s[i] ELSE s[i + 1]
<1> DEFINE I == {i \in 1..Len(s) : s[i] = e}
           k == Least(I \cup {Len(s) + 1})
           r == KlistRm(s, e)
           a == SubSeq(s, 1, k - 1)
           b == SubSeq(s, k + 1, Len(s))
<1>1. PICK m \in I : TRUE
  BY DEF Contains
<1>2. k \in 1..Len(s) /\ s[k] = e
  <2>1. (k \in I \/ k = Len(s) + 1) /\ k <= m
    <3>1. Len(s) \in Nat /\ \A n \in I : n \in 1..Len(s)
      OBVIOUS
    <3> HIDE DEF I
    <3> QED BY <1>1, <3>1, FirstPosition, ZenonT(60)
  <2>2. k # Len(s) + 1
    BY <2>1, <1>1
  <2> QED BY <2>1, <2>2
<1>3. r = a \o b
  BY ZenonT(60) DEF KlistRm, FirstOr
<1> HIDE DEF k, r, I
<1>4. a \in Seq(S) /\ Len(a) = k - 1 /\ \A i \in 1..(k - 1) : a[i] = s[i]
  BY <1>2
<1>5. b \in Seq(S) /\ Len(b) = Len(s) - k /\ \A i \in 1..(Len(s) - k) : b[i] = s[k + i]
  BY <1>2
<1> HIDE DEF a, b
<1>6. r \in Seq(S) /\ Len(r) = Len(s) - 1
  <2>1. r \in Seq(S) /\ Len(r) = Len(a) + Len(b)
    BY <1>3, <1>4, <1>5, ConcatElements, ZenonT(60)
  <2>2. k \in Int /\ Len(s) \in Int
    BY <1>2
  <2> QED BY <2>1, <2>2, <1>4, <1>5
<1>7. ASSUME NEW i \in 1..(Len(s) - 1) PROVE r[i] = IF i < k THEN s[i] ELSE s[i + 1]
  <2>1. r[i] = IF i <= Len(a) THEN a[i] ELSE b[i - Len(a)]
    BY <1>2, <1>3, <1>4, <1>5, <1>6, ConcatElements, SMTT(60)
  <2>2. CASE i < k
    BY <2>1, <2>2, <1>2, <1>4
  <2>3. CASE i >= k
    <3>1. i - (k - 1) \in 1..(Len(s) - k) /\ k + (i - (k - 1)) = i + 1
      BY <2>3, <1>2
    <3>2. r[i] = b[i - (k - 1)]
      <4>1. Len(a) = k - 1 /\ ~(i <= k - 1)
        BY <2>3, <1>2, <1>4
      <4> QED BY <2>1, <4>1
    <3>3. b[i - (k - 1)] = s[k + (i - (k - 1))]
      BY <3>1, <1>5, ZenonT(60)
    <3>4. ~(i < k)
      BY <2>3, <1>2
    <3> QED BY <3>1, <3>2, <3>3, <3>4
  <2> QED BY <2>2, <2>3, <1>2
<1> QED BY <1>2, <1>6, <1>7 DEF r

\* The members of a list without duplicates when e is removed, and its order.
LEMMA KlistRmMembers ==
    ASSUME NatLeast, NEW S, NEW s \in Seq(S), NoDup(s), NEW e
    PROVE  /\ KlistRm(s, e) \in Seq(S)
           /\ NoDup(KlistRm(s, e))
           /\ \A x : Contains(KlistRm(s, e), x) <=> Contains(s, x) /\ x # e
           /\ \A f : SortedBy(s, f) => SortedBy(KlistRm(s, e), f)
<1>1. CASE ~Contains(s, e)
  BY <1>1 DEF KlistRm, Contains
<1>2. CASE Contains(s, e)
  <2> DEFINE r == KlistRm(s, e)
  <2>1. PICK k \in 1..Len(s) :
          /\ s[k] = e
          /\ r \in Seq(S)
          /\ Len(r) = Len(s) - 1
          /\ \A i \in 1..(Len(s) - 1) : r[i] = IF i < k THEN s[i] ELSE s[i + 1]
    BY <1>2, KlistRmElements
  <2> HIDE DEF r
  <2>2. NoDup(r)
    BY <2>1 DEF NoDup
  <2>3. ASSUME NEW x PROVE Contains(r, x) <=> Contains(s, x) /\ x # e
    <3>1. ASSUME Contains(r, x) PROVE Contains(s, x) /\ x # e
      BY <2>1, <3>1, SMTT(60) DEF NoDup, Contains
    <3>2. ASSUME Contains(s, x), x # e PROVE Contains(r, x)
      <4>1. PICK i \in 1..Len(s) : s[i] = x
        BY <3>2 DEF Contains
      <4>2. i # k
        BY <4>1, <3>2, <2>1
      <4>3. CASE i < k
        BY <4>1, <4>3, <2>1, SMTT(60) DEF Contains
      <4>4. CASE i > k
        <5>1. i - 1 \in 1..Len(r) /\ r[i - 1] = x
          BY <4>1, <4>4, <2>1
        <5> QED BY <5>1 DEF Contains
      <4> QED BY <4>1, <4>2, <4>3, <4>4
    <3> QED BY <3>1, <3>2
  <2>4. ASSUME NEW f, SortedBy(s, f) PROVE SortedBy(r, f)
    <3>1. ASSUME NEW i \in 1..Len(r), NEW j \in 1..Len(r), i < j PROVE f[r[i]] <= f[r[j]]
      <4> DEFINE m == IF i < k THEN i ELSE i + 1
                 n == IF j < k THEN j ELSE j + 1
      <4>0. Len(s) \in Nat /\ i \in 1..(Len(s) - 1) /\ j \in 1..(Len(s) - 1)
        BY <2>1
      <4>1. m \in 1..Len(s) /\ r[i] = s[m]
        BY <2>1, <4>0
      <4>2. n \in 1..Len(s) /\ r[j] = s[n]
        BY <2>1, <4>0
      <4>3. m < n
        BY <4>0, <3>1, SMTT(60)
      <4> HIDE DEF m, n
      <4> QED BY <4>1, <4>2, <4>3, <2>4 DEF SortedBy
    <3> QED BY <3>1, SMTT(60) DEF SortedBy
  <2> QED BY <2>1, <2>2, <2>3, <2>4 DEF r
<1> QED BY <1>1, <1>2

\* Insertion before position i, element by element.
LEMMA KlistInsertElements ==
    ASSUME NEW S, NEW s \in Seq(S), NEW i \in 1..(Len(s) + 1), NEW e \in S
    PROVE  /\ KlistInsert(s, i, e) \in Seq(S)
           /\ Len(KlistInsert(s, i, e)) = Len(s) + 1
           /\ \A j \in 1..(Len(s) + 1) :
                 KlistInsert(s, i, e)[j] = IF j < i THEN s[j] ELSE IF j = i THEN e ELSE s[j - 1]
<1> DEFINE a == SubSeq(s, 1, i - 1)
           b == SubSeq(s, i, Len(s))
           c == a \o <<e>>
           r == c \o b
<1>1. a \in Seq(S) /\ Len(a) = i - 1 /\ \A j \in 1..(i - 1) : a[j] = s[j]
  OBVIOUS
<1>2. b \in Seq(S) /\ Len(b) = Len(s) - i + 1 /\ \A j \in 1..(Len(s) - i + 1) : b[j] = s[i + j - 1]
  OBVIOUS
<1>3. KlistInsert(s, i, e) = r
  BY DEF KlistInsert
<1> HIDE DEF a, b
<1>4. /\ c \in Seq(S) /\ Len(c) = i
      /\ \A j \in 1..i : c[j] = IF j < i THEN s[j] ELSE e
  BY <1>1
<1> HIDE DEF c
<1>5. r \in Seq(S) /\ Len(r) = Len(c) + Len(b)
  BY <1>2, <1>4, ConcatElements, ZenonT(60)
<1>6. Len(r) = Len(s) + 1
  BY <1>2, <1>4, <1>5
<1>7. ASSUME NEW j \in 1..(Len(s) + 1)
      PROVE  r[j] = IF j < i THEN s[j] ELSE IF j = i THEN e ELSE s[j - 1]
  <2>1. r[j] = IF j <= Len(c) THEN c[j] ELSE b[j - Len(c)]
    BY <1>2, <1>4, <1>5, <1>6, ConcatElements
  <2> QED BY <2>1, <1>2, <1>4, SMTT(60)
<1> QED BY <1>3, <1>5, <1>6, <1>7

\* The members of a list after an insertion.
LEMMA KlistInsertMembers ==
    ASSUME NEW S, NEW s \in Seq(S), NoDup(s), NEW i \in 1..(Len(s) + 1), NEW e \in S, ~Contains(s, e)
    PROVE  /\ KlistInsert(s, i, e) \in Seq(S)
           /\ NoDup(KlistInsert(s, i, e))
           /\ \A x : Contains(KlistInsert(s, i, e), x) <=> Contains(s, x) \/ x = e
<1> DEFINE r == KlistInsert(s, i, e)
<1>1. /\ r \in Seq(S) /\ Len(r) = Len(s) + 1
      /\ \A j \in 1..(Len(s) + 1) : r[j] = IF j < i THEN s[j] ELSE IF j = i THEN e ELSE s[j - 1]
  BY KlistInsertElements
<1> HIDE DEF r
<1>2. NoDup(r)
  <2>1. ASSUME NEW j \in 1..Len(r), NEW k \in 1..Len(r), j < k PROVE r[j] # r[k]
    <3>1. \A n \in 1..Len(s) : s[n] # e
      BY DEF Contains
    <3>2. \A m, n \in 1..Len(s) : m < n => s[m] # s[n]
      BY DEF NoDup
    <3>3. CASE k < i
      BY <1>1, <2>1, <3>2, <3>3, SMTT(60)
    <3>4. CASE k = i
      BY <1>1, <2>1, <3>1, <3>4
    <3>5. CASE i < k /\ j < i
      BY <1>1, <2>1, <3>2, <3>5, SMTT(60)
    <3>6. CASE i < k /\ j = i
      <4>1. k - 1 \in 1..Len(s) /\ r[k] = s[k - 1] /\ r[j] = e
        BY <1>1, <2>1, <3>6
      <4> QED BY <4>1, <3>1
    <3>7. CASE i < k /\ i < j
      <4>1. k - 1 \in 1..Len(s) /\ r[k] = s[k - 1]
        BY <1>1, <2>1, <3>7
      <4>2. j - 1 \in 1..Len(s) /\ r[j] = s[j - 1] /\ j - 1 < k - 1
        BY <1>1, <2>1, <3>7
      <4> QED BY <4>1, <4>2, <3>2, SMTT(60)
    <3> QED BY <3>3, <3>4, <3>5, <3>6, <3>7
  <2> QED BY <2>1, <1>1 DEF NoDup
<1>3. ASSUME NEW x PROVE Contains(r, x) <=> Contains(s, x) \/ x = e
  <2>1. ASSUME Contains(r, x) PROVE Contains(s, x) \/ x = e
    <3>1. PICK j \in 1..Len(r) : r[j] = x
      BY <2>1 DEF Contains
    <3>2. CASE j < i
      BY <3>1, <3>2, <1>1, SMTT(60) DEF Contains
    <3>3. CASE j = i
      BY <3>1, <3>3, <1>1
    <3>4. CASE j > i
      <4>1. j - 1 \in 1..Len(s) /\ s[j - 1] = x
        BY <3>1, <3>4, <1>1
      <4> QED BY <4>1 DEF Contains
    <3> QED BY <3>1, <3>2, <3>3, <3>4
  <2>2. ASSUME Contains(s, x) PROVE Contains(r, x)
    <3>1. PICK j \in 1..Len(s) : s[j] = x
      BY <2>2 DEF Contains
    <3>2. CASE j < i
      BY <3>1, <3>2, <1>1 DEF Contains
    <3>3. CASE j >= i
      <4>1. j + 1 \in 1..Len(r) /\ r[j + 1] = x
        BY <3>1, <3>3, <1>1, SMTT(60)
      <4> QED BY <4>1 DEF Contains
    <3> QED BY <3>1, <3>2, <3>3
  <2>3. Contains(r, e)
    BY <1>1 DEF Contains
  <2> QED BY <2>1, <2>2, <2>3
<1> QED BY <1>1, <1>2, <1>3 DEF r

\* pend_list_add: the waiter joins the list, which stays sorted by priority.
LEMMA PendListAddMembers ==
    ASSUME NatLeast, NEW S, NEW l \in Seq(S), NoDup(l), NEW t \in S, ~Contains(l, t), NEW pr \in [S -> Nat]
    PROVE  /\ PendListAdd(l, t, pr) \in Seq(S)
           /\ NoDup(PendListAdd(l, t, pr))
           /\ \A x : Contains(PendListAdd(l, t, pr), x) <=> Contains(l, x) \/ x = t
           /\ SortedBy(l, pr) => SortedBy(PendListAdd(l, t, pr), pr)
<1> DEFINE I == {i \in 1..Len(l) : pr[l[i]] > pr[t]}
           k == Least(I \cup {Len(l) + 1})
           r == KlistInsert(l, k, t)
<1>1. PendListAdd(l, t, pr) = r
  BY DEF PendListAdd, FirstOr
<1>2. Len(l) \in Nat /\ \A i : i \in I <=> i \in 1..Len(l) /\ pr[l[i]] > pr[t]
  OBVIOUS
<1> HIDE DEF I
<1>3. k \in 1..(Len(l) + 1) /\ (k \in I \/ k = Len(l) + 1) /\ \A i \in I : k <= i
  BY <1>2, FirstPosition, ZenonT(60)
<1> HIDE DEF k
<1>4. ASSUME NEW i \in 1..Len(l), i < k PROVE pr[l[i]] <= pr[t]
  <2>1. i \notin I
    BY <1>3, <1>4
  <2>2. pr[l[i]] \in Nat /\ pr[t] \in Nat
    OBVIOUS
  <2> QED BY <2>1, <2>2, <1>2, SMTT(60)
<1>5. ASSUME k <= Len(l) PROVE pr[t] <= pr[l[k]]
  <2>1. k \in I
    BY <1>3, <1>5
  <2>2. pr[l[k]] \in Nat /\ pr[t] \in Nat
    BY <1>3, <1>5
  <2> QED BY <2>1, <2>2, <1>2, SMTT(60)
<1>6. /\ r \in Seq(S) /\ NoDup(r)
      /\ \A x : Contains(r, x) <=> Contains(l, x) \/ x = t
  BY <1>3, KlistInsertMembers, SMTT(60)
<1>7. /\ Len(r) = Len(l) + 1
      /\ \A j \in 1..(Len(l) + 1) : r[j] = IF j < k THEN l[j] ELSE IF j = k THEN t ELSE l[j - 1]
  BY <1>3, KlistInsertElements
<1> HIDE DEF r
<1>8. ASSUME SortedBy(l, pr) PROVE SortedBy(r, pr)
  <2>1. ASSUME NEW i \in 1..Len(r), NEW j \in 1..Len(r), i < j PROVE pr[r[i]] <= pr[r[j]]
    <3>1. \A m, n \in 1..Len(l) : m < n => pr[l[m]] <= pr[l[n]]
      BY <1>8 DEF SortedBy
    <3>2. \A m \in 1..Len(l) : pr[l[m]] \in Nat
      OBVIOUS
    <3>3. CASE j < k
      <4>1. i \in 1..Len(l) /\ j \in 1..Len(l) /\ r[i] = l[i] /\ r[j] = l[j]
        BY <1>3, <1>7, <2>1, <3>3, SMTT(60)
      <4> QED BY <4>1, <2>1, <3>1
    <3>4. CASE j = k
      BY <1>3, <1>4, <1>7, <2>1, <3>4, SMTT(60)
    <3>5. CASE k < j
      <4>1. j - 1 \in 1..Len(l) /\ r[j] = l[j - 1] /\ k \in 1..Len(l)
        BY <1>3, <1>7, <2>1, <3>5, SMTT(60)
      <4>2. pr[t] <= pr[r[j]]
        <5>1. pr[t] <= pr[l[k]]
          BY <1>5, <4>1
        <5>2. k = j - 1 \/ pr[l[k]] <= pr[l[j - 1]]
          <6>1. k < j - 1 \/ k = j - 1
            BY <3>5, <4>1
          <6> QED BY <6>1, <3>1, <4>1, ZenonT(60)
        <5>3. pr[t] \in Nat /\ pr[l[k]] \in Nat /\ pr[l[j - 1]] \in Nat
          BY <3>2, <4>1, SMTT(60)
        <5> QED BY <5>1, <5>2, <5>3, <4>1, SMTT(60)
      <4>3. CASE i < k
        <5>1. r[i] = l[i] /\ i \in 1..Len(l) /\ pr[l[i]] <= pr[t]
          BY <1>3, <1>4, <1>7, <2>1, <4>3, SMTT(60)
        <5>2. pr[l[i]] \in Nat /\ pr[t] \in Nat /\ pr[r[j]] \in Nat
          BY <5>1, <3>2, <4>1, SMTT(60)
        <5> QED BY <5>1, <5>2, <4>2, SMTT(60)
      <4>4. CASE i = k
        BY <1>7, <4>2, <4>4
      <4>5. CASE k < i
        <5>1. i - 1 \in 1..Len(l) /\ r[i] = l[i - 1] /\ i - 1 < j - 1
          BY <1>3, <1>7, <2>1, <4>5, SMTT(60)
        <5> QED BY <5>1, <4>1, <3>1, ZenonT(60)
      <4> QED BY <1>3, <4>3, <4>4, <4>5
    <3> QED BY <1>3, <3>3, <3>4, <3>5
  <2> QED BY <2>1 DEF SortedBy
<1> QED BY <1>1, <1>6, <1>8

\* The members of a list after an element joins it at the end or in front.
LEMMA AppendMembers ==
    ASSUME NEW S, NEW s \in Seq(S), NoDup(s), NEW e \in S, ~Contains(s, e)
    PROVE  /\ Append(s, e) \in Seq(S) /\ Append(s, e) # <<>>
           /\ NoDup(Append(s, e))
           /\ \A x : Contains(Append(s, e), x) <=> Contains(s, x) \/ x = e
<1> DEFINE r == Append(s, e)
<1>1. /\ r \in Seq(S) /\ r # <<>> /\ Len(r) = Len(s) + 1
      /\ \A i \in 1..(Len(s) + 1) : r[i] = IF i <= Len(s) THEN s[i] ELSE e
  OBVIOUS
<1> HIDE DEF r
<1>2. NoDup(r)
  BY <1>1 DEF NoDup, Contains
<1>3. ASSUME NEW x PROVE Contains(r, x) <=> Contains(s, x) \/ x = e
  <2>1. ASSUME Contains(r, x) PROVE Contains(s, x) \/ x = e
    BY <1>1, <2>1 DEF Contains
  <2>2. ASSUME Contains(s, x) PROVE Contains(r, x)
    BY <1>1, <2>2 DEF Contains
  <2>3. Contains(r, e)
    BY <1>1 DEF Contains
  <2> QED BY <2>1, <2>2, <2>3
<1> QED BY <1>1, <1>2, <1>3 DEF r

\* Adding in front: what klist_insert does to the list of a task or an object
LEMMA ConsMembers ==
    ASSUME NEW S, NEW s \in Seq(S), NoDup(s), NEW e \in S, ~Contains(s, e)
    PROVE  /\ <<e>> \o s \in Seq(S) /\ <<e>> \o s # <<>>
           /\ NoDup(<<e>> \o s)
           /\ \A x : Contains(<<e>> \o s, x) <=> Contains(s, x) \/ x = e
<1> DEFINE r == <<e>> \o s
<1>1. /\ r \in Seq(S) /\ r # <<>> /\ Len(r) = Len(s) + 1
      /\ \A i \in 1..(Len(s) + 1) : r[i] = IF i = 1 THEN e ELSE s[i - 1]
  OBVIOUS
<1> HIDE DEF r
<1>2. NoDup(r)
  BY <1>1, SMTT(60) DEF NoDup, Contains
<1>3. ASSUME NEW x PROVE Contains(r, x) <=> Contains(s, x) \/ x = e
  <2>1. ASSUME Contains(r, x) PROVE Contains(s, x) \/ x = e
    BY <1>1, <2>1 DEF Contains
  <2>2. ASSUME Contains(s, x) PROVE Contains(r, x)
    <3>1. PICK i \in 1..Len(s) : s[i] = x
      BY <2>2 DEF Contains
    <3>2. i + 1 \in 1..Len(r) /\ r[i + 1] = x
      BY <1>1, <3>1
    <3> QED BY <3>2 DEF Contains
  <2>3. Contains(r, e)
    BY <1>1 DEF Contains
  <2> QED BY <2>1, <2>2, <2>3
<1> QED BY <1>1, <1>2, <1>3, SMTT(60) DEF r

\* The head and the other members of a list that is not empty.
LEMMA TailMembers ==
    ASSUME NEW S, NEW s \in Seq(S), NoDup(s), s # <<>>
    PROVE  /\ Head(s) \in S /\ Contains(s, Head(s))
           /\ Tail(s) \in Seq(S) /\ NoDup(Tail(s))
           /\ \A x : Contains(Tail(s), x) <=> Contains(s, x) /\ x # Head(s)
<1> DEFINE r == Tail(s)
<1>1. /\ Len(s) \in Nat /\ Len(s) > 0 /\ Head(s) = s[1] /\ Head(s) \in S
      /\ r \in Seq(S) /\ Len(r) = Len(s) - 1
      /\ \A i \in 1..(Len(s) - 1) : r[i] = s[i + 1]
  OBVIOUS
<1> HIDE DEF r
<1>2. NoDup(r)
  BY <1>1, SMTT(60) DEF NoDup
<1>3. ASSUME NEW x PROVE Contains(r, x) <=> Contains(s, x) /\ x # Head(s)
  <2>1. ASSUME Contains(r, x) PROVE Contains(s, x) /\ x # Head(s)
    BY <1>1, <2>1 DEF Contains, NoDup
  <2>2. ASSUME Contains(s, x), x # Head(s) PROVE Contains(r, x)
    <3>1. PICK i \in 1..Len(s) : s[i] = x
      BY <2>2, SMTT(60) DEF Contains
    <3>2. i - 1 \in 1..Len(r) /\ r[i - 1] = x
      BY <1>1, <2>2, <3>1
    <3> QED BY <3>2 DEF Contains
  <2> QED BY <2>1, <2>2
<1>4. Contains(s, Head(s))
  BY <1>1 DEF Contains
<1> QED BY <1>1, <1>2, <1>3, <1>4 DEF r

\* A list has a member exactly when it is not empty.
LEMMA NotEmpty ==
    ASSUME NEW S, NEW s \in Seq(S)
    PROVE  /\ s = <<>> <=> \A x : ~Contains(s, x)
           /\ \A x : Contains(s, x) => x \in S
<1>1. s # <<>> => Contains(s, s[1])
  BY DEF Contains
<1>2. \A x : Contains(s, x) => s # <<>> /\ x \in S
  BY DEF Contains
<1> QED BY <1>1, <1>2

\* The empty list is the one of length zero.
LEMMA EmptyLength ==
    ASSUME NEW S, NEW r \in Seq(S)
    PROVE  r = <<>> <=> Len(r) = 0
  OBVIOUS

\* Removal empties exactly the lists of length one.
LEMMA KlistRmEmpties ==
    ASSUME NatLeast, NEW S, NEW s \in Seq(S), NEW e, Contains(s, e)
    PROVE  KlistRm(s, e) = <<>> <=> Len(s) = 1
<1> DEFINE r == KlistRm(s, e)
<1>1. r \in Seq(S) /\ Len(r) = Len(s) - 1
  BY KlistRmElements
<1> HIDE DEF r
<1>2. r = <<>> <=> Len(r) = 0
  BY <1>1, EmptyLength, ZenonT(60)
<1>3. Len(s) \in Nat
  OBVIOUS
<1> QED BY <1>1, <1>2, <1>3, SMTT(60) DEF r

USE ZenonT(60)

\* Priorities are natural numbers.
LEMMA PriNat == Pri \subseteq Nat
BY BoundAssumption, SMTT(60) DEF Pri

\* Ticks stay within tick_t.
LEMMA TickRange ==
    ASSUME NEW n \in Int
    PROVE  n % TICK_MODULUS \in 0..(TICK_MODULUS - 1)
BY BoundAssumption, SMTT(60)

\* tick_list_insert: the task joins the tick list, which stays sorted by the
\* time that remains.
LEMMA TickListInsertMembers ==
    ASSUME NatLeast, NEW t \in Tasks, NEW time \in Nat, TickListInsert(t, time),
           tick_list \in Seq(Tasks), NoDup(tick_list), ~Contains(tick_list, t),
           tick_match \in [Tasks -> 0..(TICK_MODULUS - 1)], g_tick_count \in Nat
    PROVE  /\ tick_list' \in Seq(Tasks) /\ NoDup(tick_list')
           /\ \A x : Contains(tick_list', x) <=> Contains(tick_list, x) \/ x = t
           /\ tick_match' \in [Tasks -> 0..(TICK_MODULUS - 1)]
           /\ LET left == [u \in Tasks |-> IF u = t THEN time ELSE Remaining(u)]
              IN  SortedBy(tick_list, left) => SortedBy(tick_list', left)
<1> DEFINE left == [u \in Tasks |-> IF u = t THEN time ELSE Remaining(u)]
<1>1. left \in [Tasks -> Nat]
  <2>1. ASSUME NEW u \in Tasks PROVE Remaining(u) \in Nat
    <3>1. tick_match[u] - g_tick_count \in Int
      BY SMTT(60)
    <3>2. Remaining(u) \in 0..(TICK_MODULUS - 1)
      BY <3>1, TickRange DEF Remaining
    <3> QED BY <3>2, BoundAssumption, SMTT(60)
  <2> QED BY <2>1
<1>2. \A i \in 1..Len(tick_list) : left[tick_list[i]] = Remaining(tick_list[i])
  BY SMTT(60) DEF Contains
<1>3. left[t] = time
  OBVIOUS
<1> HIDE DEF left
<1>4. tick_list' = PendListAdd(tick_list, t, left)
  <2>1. {i \in 1..Len(tick_list) : Remaining(tick_list[i]) > time}
        = {i \in 1..Len(tick_list) : left[tick_list[i]] > left[t]}
    BY <1>2, <1>3
  <2> QED BY <2>1 DEF TickListInsert, PendListAdd, FirstOr
<1>5. tick_match' \in [Tasks -> 0..(TICK_MODULUS - 1)]
  <2>1. (g_tick_count + time) % TICK_MODULUS \in 0..(TICK_MODULUS - 1)
    <3>1. g_tick_count + time \in Int
      BY SMTT(60)
    <3> QED BY <3>1, TickRange
  <2> QED BY <2>1 DEF TickListInsert
<1> QED BY <1>1, <1>4, <1>5, PendListAddMembers DEF left

-----------------------------------------------------------------------------
(* Facts about a state that satisfies the invariant.                        *)

\* What the invariant says about the lists, in the form the lemmas use
LEMMA Parts == IInv => ListPart /\ TaskPart
<1> SUFFICES ASSUME IInv PROVE ListPart /\ TaskPart
  OBVIOUS
<1>1. g_tick_count \in Nat
  BY BoundAssumption, SMTT(60) DEF IInv, TypeOK
<1>2. TaskPart
  BY <1>1 DEF IInv, TypeOK, TaskPart
<1> QED BY <1>2 DEF IInv, TypeOK, ListInv, ListsMatchState, ListPart, ReadyPart, BlkPart, TickPart

\* What pend_task_wakeup and the others do to the task and its object
LEMMA PendTaskWakeEffect ==
    ASSUME NatLeast, ListPart, TaskPart, NEW t \in Tasks, Pending(t), NEW o, o = blk_obj[t],
           NEW why, PendTaskWake(o, t, why)
    PROVE  /\ task_state'[t] \in {"K_RDY", "K_SUSPENDED"} /\ t # Idle /\ o \in Objs
           /\ task_state'[t] = "K_SUSPENDED" => task_state[t] = "K_PEND_SUSPENDED"
           /\ \A u \in Tasks \ {t} : task_state'[u] = task_state[u]
           /\ \A u \in Tasks : Alive(u)' <=> Alive(u)
           /\ \A x \in Objs \ {o} : blk_list'[x] = blk_list[x]
           /\ \A x : Contains(blk_list'[o], x) <=> Contains(blk_list[o], x) /\ x # t
<1>1. task_state'[t] \in {"K_RDY", "K_SUSPENDED"} /\ t # Idle /\ o \in Objs
  BY DEF PendTaskWake, TaskPart, IdleInv, Pending, ListPart, BlkPart
<1>2. /\ task_state'[t] = "K_SUSPENDED" => task_state[t] = "K_PEND_SUSPENDED"
      /\ \A u \in Tasks \ {t} : task_state'[u] = task_state[u]
  BY DEF PendTaskWake, TaskPart, Pending
<1>3. \A u \in Tasks : Alive(u)' <=> Alive(u)
  BY <1>1, <1>2 DEF Alive, Pending
<1>4. /\ blk_list[o] \in Seq(Tasks) /\ NoDup(blk_list[o])
      /\ blk_list' = [blk_list EXCEPT ![o] = KlistRm(blk_list[o], t)]
  BY <1>1 DEF PendTaskWake, ListPart, BlkPart, BlkLists
<1>5. /\ \A x \in Objs \ {o} : blk_list'[x] = blk_list[x]
      /\ blk_list'[o] = KlistRm(blk_list[o], t)
  BY <1>1, <1>4 DEF ListPart, BlkPart
<1>6. \A x : Contains(blk_list'[o], x) <=> Contains(blk_list[o], x) /\ x # t
  <2>1. \A x : Contains(KlistRm(blk_list[o], t), x) <=> Contains(blk_list[o], x) /\ x # t
    BY <1>4, KlistRmMembers
  <2> QED BY <1>5, <2>1
<1> QED BY <1>1, <1>2, <1>3, <1>5, <1>6

\* A task that makes a kernel call is ready and is not the idle task.
LEMMA Caller ==
    ASSUME IInv, NEW c, TaskCall(c)
    PROVE  /\ g_active_task \in Tasks \ {Idle} /\ task_state[g_active_task] = "K_RDY"
           /\ kcall.pc = "none" /\ chg = NoChg /\ g_intrpt_nested_level = 0
BY DEF IInv, TypeOK, LoopInv, RunInv, TaskCall, InTask

\* A handler makes a call while the kernel is in no loop.
LEMMA Handler ==
    ASSUME IInv, NEW c, IsrCall(c)
    PROVE  kcall.pc = "none" /\ chg = NoChg /\ g_intrpt_nested_level > 0
BY DEF IInv, LoopInv, IsrCall

\* The first task of a list of waiters waits for that object.
LEMMA FirstWaiter ==
    ASSUME ListPart, NEW o \in Objs, blk_list[o] # <<>>
    PROVE  LET t == Head(blk_list[o]) IN
           t \in Tasks /\ Pending(t) /\ blk_obj[t] = o /\ Contains(blk_list[o], t)
<1>1. blk_list[o] \in Seq(Tasks)
  BY DEF ListPart, BlkPart
<1>2. Head(blk_list[o]) \in Tasks /\ Contains(blk_list[o], Head(blk_list[o]))
  BY <1>1, SMTT(60) DEF Contains
<1> QED BY <1>2 DEF ListPart, BlkPart, BlkLists

\* The times a task waits
LEMMA WaitNat == Waits \subseteq 0..(TICK_MODULUS - 1) /\ Timeouts \subseteq 0..(TICK_MODULUS - 1)
BY BoundAssumption, ApplicationAssumption, SMTT(60) DEF Waits, WAIT_FOREVER

\* The waiters of an object, before and after a step
LEMMA BlkMember ==
    ASSUME NEW o \in Objs, NEW u \in Tasks
    PROVE  /\ IInv => (Contains(blk_list[o], u) <=> Pending(u) /\ blk_obj[u] = o)
           /\ IInv' => (Contains(blk_list'[o], u) <=> Pending(u)' /\ blk_obj'[u] = o)
BY DEF IInv, ListInv, ListsMatchState, BlkLists

\* The first mutex of a task that owns one
LEMMA FirstMutex ==
    ASSUME IInv, NEW t \in Tasks, mutex_list[t] # <<>>
    PROVE  LET m == Head(mutex_list[t]) IN m \in Mutexes /\ m \in Objs /\ Contains(mutex_list[t], m)
<1>1. mutex_list[t] \in Seq(Mutexes)
  BY DEF IInv, TypeOK
<1> QED BY <1>1, SMTT(60) DEF Contains, Objs

\* A running task_pri_change works on a live task other than the idle task.
LEMMA ChgTask ==
    ASSUME IInv, chg # NoChg
    PROVE  chg.task \in Tasks \ {Idle} /\ chg.pri \in Pri /\ chg.pri # RHINO_IDLE_PRI /\ Alive(chg.task)
BY DEF IInv, TypeOK, Chg, LoopInv

\* Only task_create makes a task alive, and only krhino_task_del ends it.
LEMMA AliveSame ==
    ASSUME NatLeast, IInv, Next, NEW t \in Tasks, TaskDelState => t # kcall.task,
           \A autorun \in BOOLEAN : ~TaskCreate(t, autorun)
    PROVE  Alive(t)' <=> Alive(t)
<1>1. ListPart /\ TaskPart
  BY Parts
<1>2. CASE task_state'[t] = task_state[t]
  BY <1>2 DEF Alive
<1>3. CASE task_state'[t] # task_state[t]
  <2>1. CASE SemNext
    <3>1. PICK s \in Sems : (SemGive(s) /\ blk_list[s] # <<>>) \/ \E w \in Waits : SemTake(s, w)
      BY <1>3, <2>1 DEF SemNext, SemCreate, SemGive, SemGiveAll, SemDel, SemCountSet
    <3>2. CASE SemGive(s) /\ blk_list[s] # <<>>
      BY <1>1, <3>2, FirstWaiter, PendTaskWakeEffect DEF SemGive, Objs
    <3>3. CASE \E w \in Waits : SemTake(s, w)
      BY <1>1, <3>3, Caller DEF SemTake, PendToBlkObj, TaskPart, Alive
    <3> QED BY <3>1, <3>2, <3>3
  <2>2. CASE MutexNext
    BY <1>3, <2>2 DEF MutexNext, MutexCreate, MutexUnlock, MutexDel, MutexLock
  <2>3. CASE TaskNext
    <3>1. CASE \E n \in Timeouts : TaskSleep(n)
      BY <1>1, <3>1, Caller DEF TaskSleep, TaskPart, Alive
    <3>2. CASE \E u \in Tasks : TaskSuspend(u)
      BY <1>1, <3>2, SMTT(60) DEF TaskSuspend, SuspendedFrom, TaskPart, Alive
    <3>3. CASE \E u \in Tasks : TaskResume(u)
      BY <1>1, <3>3, SMTT(60) DEF TaskResume, ResumedTo, TaskPart, Alive
    <3>4. CASE \E u \in Tasks : \E autorun \in BOOLEAN : TaskCreate(u, autorun)
      BY <1>1, <1>3, <3>4 DEF TaskCreate, TaskPart
    <3> QED BY <1>3, <2>3, <3>1, <3>2, <3>3, <3>4 DEF TaskNext, TaskYield, TaskPriChange, TaskDel, TaskPriChangeCheck
  <2>4. CASE SchedNext
    BY <1>3, <2>4 DEF SchedNext, SchedDisable, SchedEnable, CoreSched, PendSV, IntrptEnter, IntrptExit,
                      PendReturn, Tick, schedUnchanged
  <2>5. CASE KernelStep
    <3>1. CASE \E o \in Objs, u \in Tasks : \E why : Pending(u) /\ o = blk_obj[u] /\ PendTaskWake(o, u, why)
      BY <1>1, <3>1, PendTaskWakeEffect
    <3>2. CASE MutexLockPend
      <4>1. task_state[g_active_task] = "K_RDY"
        BY <3>2 DEF MutexLockPend, IInv, LoopInv
      <4> QED BY <1>1, <3>2, <4>1 DEF MutexLockPend, PendToBlkObj, TaskPart, Alive
    <3>3. CASE MutexHandOver
      BY <1>1, <1>3, <3>1, <3>3, FirstWaiter DEF MutexHandOver, IInv, LoopInv, Objs
    <3>4. CASE SemGiveAllStep \/ DelStep
      BY <1>1, <1>3, <3>1, <3>4, FirstWaiter DEF SemGiveAllStep, DelStep, WakeAllLoop, IInv, LoopInv, Objs
    <3>5. CASE TickStep
      <4>1. PICK u \in Tasks : u = Head(tick_list)
        BY <1>1, <1>3, <3>5, SMTT(60) DEF TickStep, TickDue, ListPart, TickPart
      <4>2. CASE Pending(u) /\ PendTaskWake(blk_obj[u], u, "BLK_TIMEOUT")
        BY <1>1, <4>2, PendTaskWakeEffect
      <4>3. CASE Sleeping(u) /\ task_state' \in {[task_state EXCEPT ![u] = "K_RDY"], [task_state EXCEPT ![u] = "K_SUSPENDED"]}
        BY <1>1, <4>1, <4>3 DEF TaskPart, Sleeping, Alive
      <4> QED BY <1>3, <3>5, <4>1, <4>2, <4>3 DEF TickStep
    <3>6. CASE TaskMutexFree
      <4>1. PICK u \in Tasks : u = kcall.task
        BY <3>6 DEF TaskMutexFree, IInv, LoopInv
      <4>2. PICK m \in Objs : m = Head(mutex_list[u])
        BY <3>6, <4>1, FirstMutex DEF TaskMutexFree
      <4> QED BY <1>1, <1>3, <3>1, <3>6, <4>1, <4>2, FirstWaiter DEF TaskMutexFree
    <3>7. CASE TaskDelState
      BY <1>1, <3>7 DEF TaskDelState, TaskPart, Alive
    <3> QED BY <1>3, <2>5, <3>2, <3>3, <3>4, <3>5, <3>6, <3>7 DEF KernelStep, PriChangeStep, ExitStep
  <2> QED BY <2>1, <2>2, <2>3, <2>4, <2>5 DEF Next
<1> QED BY <1>2, <1>3

\* A live task stays alive until krhino_task_del ends it.
LEMMA AliveStep ==
    ASSUME NatLeast, IInv, Next, NEW t \in Tasks, Alive(t), TaskDelState => t # kcall.task
    PROVE  Alive(t)'
BY AliveSame DEF TaskCreate

ChgInv == /\ chg \in Chg
          /\ chg # NoChg =>
              /\ kcall.pc \in {"lock", "unlock", "del", "exit", "tick"}
              /\ Alive(chg.task) /\ chg.task # Idle /\ chg.pri # RHINO_IDLE_PRI

-----------------------------------------------------------------------------
(* What a step does to task_state.                                          *)

\* A task is woken up.
Waking == \E o \in Objs, u \in Tasks, why \in BlkStates :
    Pending(u) /\ o = blk_obj[u] /\ PendTaskWake(o, u, why)

\* The steps that wake a task or leave the tasks alone
WakeStep == \/ \E s \in Sems : SemGive(s)
            \/ MutexHandOver \/ SemGiveAllStep \/ DelStep \/ TaskMutexFree

\* Each of these steps wakes one waiter or nobody.
LEMMA WakeSteps ==
    ASSUME IInv, WakeStep
    PROVE  Waking \/ UNCHANGED <<task_state, readyVars, pendVars, tickVars>>
<1>0. ListPart
  BY Parts
<1>1. ASSUME NEW o \in Objs, NEW why \in BlkStates, blk_list[o] # <<>>, PendTaskWake(o, Head(blk_list[o]), why)
      PROVE  Waking
  <2>1. PICK u \in Tasks : u = Head(blk_list[o]) /\ Pending(u) /\ o = blk_obj[u]
    BY <1>0, <1>1, FirstWaiter
  <2> QED BY <1>1, <2>1 DEF Waking
<1>2. ASSUME NEW s \in Sems, SemGive(s) PROVE Waking \/ UNCHANGED <<task_state, readyVars, pendVars, tickVars>>
  BY <1>1, <1>2 DEF SemGive, Objs, BlkStates
<1>3. CASE MutexHandOver
  BY <1>1, <1>3 DEF MutexHandOver, IInv, LoopInv, Objs, BlkStates
<1>4. CASE SemGiveAllStep \/ DelStep
  BY <1>1, <1>4 DEF SemGiveAllStep, DelStep, WakeAllLoop, IInv, LoopInv, Objs, BlkStates
<1>5. CASE TaskMutexFree
  <2>1. PICK t \in Tasks : t = kcall.task
    BY <1>5 DEF TaskMutexFree, IInv, LoopInv
  <2>2. PICK m \in Objs : m = Head(mutex_list[t])
    BY <1>5, <2>1, FirstMutex DEF TaskMutexFree
  <2> QED BY <1>1, <1>5, <2>1, <2>2 DEF TaskMutexFree, BlkStates
<1> QED BY <1>2, <1>3, <1>4, <1>5 DEF WakeStep

-----------------------------------------------------------------------------
(* The loops: kcall.                                                        *)

\* The steps that leave kcall alone, or set it to NoCall
KcallOther == kcall' = kcall \/ kcall' = NoCall

\* The loops of the kernel
KcallType(k) ==
    k \in [pc : {"none", "give_all", "del", "lock", "unlock", "exit", "task_del", "tick"},
           obj : Objs \cup {NONE}, task : Tasks \cup {NONE}, ticks : 0..(TICK_MODULUS - 1)]

\* The steps that start a loop
KcallSet ==
    \/ \E s \in Sems : SemGiveAll(s) \/ SemDel(s)
    \/ \E m \in Mutexes : MutexUnlock(m) \/ MutexDel(m) \/ \E w \in Waits : MutexLock(m, w)
    \/ TaskPriChange \/ \E t \in Tasks : TaskDel(t)
    \/ Tick \/ TaskDelState

\* The other steps leave kcall alone or end a loop.
LEMMA KcallSteps ==
    ASSUME Next, ~KcallSet
    PROVE  KcallOther
<1>1. CASE SemNext
  BY <1>1 DEF SemNext, SemCreate, SemGive, SemTake, SemCountSet, KcallSet, KcallOther
<1>2. CASE MutexNext
  BY <1>2 DEF MutexNext, MutexCreate, KcallSet, KcallOther
<1>3. CASE TaskNext
  BY <1>3 DEF TaskNext, TaskYield, TaskSleep, TaskSuspend, TaskResume, TaskCreate, TaskPriChangeCheck,
              KcallSet, KcallOther
<1>4. CASE SchedNext
  BY <1>4 DEF SchedNext, SchedDisable, SchedEnable, CoreSched, PendSV, IntrptEnter, IntrptExit,
              PendReturn, schedUnchanged, KcallSet, KcallOther
<1>5. CASE KernelStep
  BY <1>5 DEF KernelStep, PriChangeStep, MutexLockPend, MutexHandOver, SemGiveAllStep, DelStep, WakeAllLoop,
              TickStep, TaskMutexFree, ExitStep, KcallSet, KcallOther
<1> QED BY <1>1, <1>2, <1>3, <1>4, <1>5 DEF Next

\* While the kernel is in a loop nothing else happens.
LEMMA InLoop ==
    ASSUME Next, kcall.pc # "none"
    PROVE  KernelStep
<1>1. ~SemNext
  BY DEF SemNext, SemCreate, SemGive, SemGiveAll, SemDel, SemTake, SemCountSet, TaskCall, IsrCall, InTask
<1>2. ~MutexNext
  BY DEF MutexNext, MutexCreate, MutexUnlock, MutexDel, MutexLock, TaskCall, InTask
<1>3. ~TaskNext
  BY DEF TaskNext, TaskYield, TaskSleep, TaskSuspend, TaskResume, TaskDel, TaskCreate,
         TaskPriChange, TaskPriChangeCheck, TaskCall, IsrCall, InTask
<1>4. ~SchedNext
  BY DEF SchedNext, SchedDisable, SchedEnable, CoreSched, PendSV, IntrptEnter, IntrptExit,
         PendReturn, Tick, TaskCall, IsrCall, InTask
<1> QED BY <1>1, <1>2, <1>3, <1>4 DEF Next

-----------------------------------------------------------------------------
(* New waiters.                                                             *)

\* The active task blocks on o.
Blocking(o) == \/ o \in Sems /\ obj_type[o] /\ count[o] = 0 /\ UNCHANGED <<obj_type, count, kcall>>
               \/ MutexLockPend /\ o = kcall.obj

\* The steps that write blk_list
LEMMA BlkSame ==
    ASSUME Next, ~WakeStep, ~TickStep, ~MutexLockPend, ~PriChangeStep, ~TaskDelState,
           \A s \in Sems : \A w \in Waits : ~SemTake(s, w)
    PROVE  UNCHANGED blk_list
<1>1. CASE SemNext
  BY <1>1 DEF SemNext, SemCreate, SemGiveAll, SemDel, SemCountSet, WakeStep, pendVars
<1>2. CASE MutexNext
  BY <1>2 DEF MutexNext, MutexCreate, MutexUnlock, MutexDel, MutexLock, pendVars
<1>3. CASE TaskNext
  BY <1>3 DEF TaskNext, TaskYield, TaskSleep, TaskSuspend, TaskResume, TaskDel, TaskCreate,
              TaskPriChange, TaskPriChangeCheck, pendVars
<1>4. CASE SchedNext
  BY <1>4 DEF SchedNext, SchedDisable, SchedEnable, CoreSched, PendSV, IntrptEnter, IntrptExit,
              PendReturn, Tick, schedUnchanged, pendVars
<1>5. CASE KernelStep
  BY <1>5 DEF KernelStep, ExitStep, WakeStep, pendVars
<1> QED BY <1>1, <1>2, <1>3, <1>4, <1>5 DEF Next

\* A waking step adds no waiter.
LEMMA WakingRemoves ==
    ASSUME NatLeast, IInv, Waking, NEW o \in Objs, NEW u \in Tasks, Contains(blk_list'[o], u)
    PROVE  Contains(blk_list[o], u)
<1>1. PICK x \in Objs, t \in Tasks, why \in BlkStates : Pending(t) /\ x = blk_obj[t] /\ PendTaskWake(x, t, why)
  BY DEF Waking
<1>2. /\ \A y \in Objs \ {x} : blk_list'[y] = blk_list[y]
      /\ \A y : Contains(blk_list'[x], y) <=> Contains(blk_list[x], y) /\ y # t
  <2>1. ListPart /\ TaskPart
    BY Parts
  <2> QED BY <1>1, <2>1, PendTaskWakeEffect
<1> QED BY <1>2

\* A task that joins the waiters of an object is the active task, which
\* found a count of 0 or a mutex with another owner.
LEMMA NewWaiter ==
    ASSUME NatLeast, IInv, Next, ListPart', NEW o \in Objs, NEW u \in Tasks, Contains(blk_list'[o], u)
    PROVE  Contains(blk_list[o], u) \/ (u = g_active_task /\ Blocking(o))
<1>1. Pending(u)' /\ blk_obj'[u] = o
  BY DEF ListPart, BlkPart, BlkLists
<1>2. ASSUME Pending(u), blk_obj[u] = o PROVE Contains(blk_list[o], u)
  BY <1>2 DEF IInv, ListInv, ListsMatchState, BlkLists
<1>3. task_state \in [Tasks -> TaskStates] /\ blk_obj \in [Tasks -> Objs \cup {NONE}]
  BY DEF IInv, TypeOK
<1>4. CASE PriChangeStep \/ TaskDelState
  <2>1. blk_obj' = blk_obj /\ (task_state'[u] = task_state[u] \/ task_state'[u] = "K_DELETED")
    BY <1>3, <1>4 DEF PriChangeStep, TaskDelState
  <2> QED BY <1>1, <1>2, <2>1 DEF Pending
<1>5. CASE WakeStep
  BY <1>5, WakeSteps, WakingRemoves DEF pendVars
<1>6. CASE TickStep
  <2>1. CASE ~TickDue
    BY <1>6, <2>1 DEF TickStep, pendVars
  <2>2. CASE TickDue
    <3>1. tick_list # <<>> /\ tick_list \in Seq(Tasks)
      BY <2>2 DEF TickDue, IInv, TypeOK
    <3>2. PICK t \in Tasks : t = Head(tick_list)
      BY <3>1, SMTT(60)
    <3>3. CASE Pending(t) /\ PendTaskWake(blk_obj[t], t, "BLK_TIMEOUT")
      <4>1. blk_obj[t] \in Objs
        BY <3>3 DEF IInv, ListInv
      <4>2. Waking
        BY <3>3, <4>1 DEF Waking, BlkStates
      <4> QED BY <4>2, WakingRemoves
    <3> QED BY <1>6, <2>2, <3>2, <3>3 DEF TickStep, pendVars
  <2> QED BY <2>1, <2>2
<1>7. ASSUME NEW x, NEW w, PendToBlkObj(x, g_active_task, w)
      PROVE  Contains(blk_list[o], u) \/ (u = g_active_task /\ x = o)
  <2>1. u # g_active_task => Pending(u) /\ blk_obj[u] = o
    BY <1>1, <1>3, <1>7 DEF PendToBlkObj, Pending
  <2>2. u = g_active_task => x = o
    BY <1>1, <1>3, <1>7 DEF PendToBlkObj
  <2> QED BY <1>2, <2>1, <2>2
<1>8. CASE MutexLockPend
  BY <1>7, <1>8 DEF MutexLockPend, Blocking
<1>9. ASSUME NEW s \in Sems, NEW w \in Waits, SemTake(s, w)
      PROVE  Contains(blk_list[o], u) \/ (u = g_active_task /\ Blocking(o))
  <2>1. CASE count[s] > 0
    BY <1>9, <2>1, SMTT(60) DEF SemTake, pendVars
  <2>2. CASE ~(count[s] > 0)
    <3>1. PendToBlkObj(s, g_active_task, w) /\ obj_type[s] /\ count[s] = 0 /\ UNCHANGED <<obj_type, count, kcall>>
      BY <1>9, <2>2 DEF SemTake
    <3> QED BY <1>7, <3>1, SMTT(60) DEF Blocking
  <2> QED BY <2>1, <2>2
<1> QED BY <1>4, <1>5, <1>6, <1>8, <1>9, BlkSame

\* A list that gets no new waiter was not empty if it is not empty now.
LEMMA OldWaiters ==
    ASSUME NatLeast, IInv, Next, ListPart', NEW o \in Objs, blk_list'[o] # <<>>
    PROVE  blk_list[o] # <<>> \/ Blocking(o)
<1>1. blk_list'[o] \in Seq(Tasks) /\ blk_list[o] \in Seq(Tasks)
  BY DEF ListPart, BlkPart, IInv, TypeOK
<1>2. PICK u \in Tasks : Contains(blk_list'[o], u)
  <2>1. blk_list'[o][1] \in Tasks /\ Contains(blk_list'[o], blk_list'[o][1])
    BY <1>1, SMTT(60) DEF Contains
  <2> QED BY <2>1
<1> QED BY <1>1, <1>2, NewWaiter, NotEmpty

\* When the active task stops being ready, the scheduler is not locked, and a
\* switch is due before the task runs again.
ActiveStops ==
    task_state[g_active_task] = "K_RDY" /\ task_state'[g_active_task] # "K_RDY" =>
        /\ g_sched_lock = 0
        /\ g_active_task \in resched' \/ g_intrpt_nested_level > 0 \/ kcall'.pc # "none"

\* The priorities of all tasks but the idle one
LowPri == Pri \ {RHINO_IDLE_PRI}

\* The change of a task t to a priority of a task other than the idle task
ChgOf(c, t) == \E p \in LowPri : c = ChgTo(t, p)

\* A task_pri_change of a task o is a well-formed request for o.
LEMMA ChgOfChg ==
    ASSUME NEW o \in Tasks, NEW c, ChgOf(c, o)
    PROVE  c \in Chg /\ c.task = o /\ c.pri # RHINO_IDLE_PRI
BY SMTT(60) DEF ChgOf, ChgTo, Chg, LowPri

\* Every step keeps kcall a loop of the kernel or none.
LEMMA KcallTypeStep ==
    ASSUME IInv, Next
    PROVE  KcallType(kcall')
<1>1. KcallType(kcall)
  BY DEF IInv, TypeOK, KcallType
<1>2. ASSUME NEW pc \in {"none", "give_all", "del", "lock", "unlock", "exit", "task_del", "tick"},
             NEW o \in Objs \cup {NONE}, NEW t \in Tasks \cup {NONE}, NEW n \in 0..(TICK_MODULUS - 1)
      PROVE  KcallType(KCall(pc, o, t, n))
  BY DEF KCall, KcallType
<1>3. 0 \in 0..(TICK_MODULUS - 1)
  BY BoundAssumption, SMTT(60)
<1>4. KcallType(NoCall)
  BY <1>2, <1>3 DEF NoCall
<1>5. CASE KcallSet
  <2>1. CASE \E s \in Sems : SemGiveAll(s) \/ SemDel(s)
    BY <1>1, <1>2, <1>3, <2>1 DEF SemGiveAll, SemDel, Objs
  <2>2. CASE \E m \in Mutexes : MutexUnlock(m) \/ MutexDel(m)
    BY <1>1, <1>2, <1>3, <2>2, SMTT(60) DEF MutexUnlock, MutexDel, Objs
  <2>3. CASE \E m \in Mutexes, w \in Waits : MutexLock(m, w)
    BY <1>1, <1>2, <2>3, WaitNat DEF MutexLock, Objs
  <2>4. CASE TaskPriChange \/ Tick \/ TaskDelState
    <3>1. kcall' \in {kcall, KCall("exit", NONE, NONE, 0), KCall("tick", NONE, NONE, 0)}
      BY <2>4 DEF TaskPriChange, Tick, TaskDelState
    <3>2. KcallType(KCall("exit", NONE, NONE, 0)) /\ KcallType(KCall("tick", NONE, NONE, 0))
      BY <1>2, <1>3
    <3> QED BY <1>1, <3>1, <3>2
  <2>5. CASE \E t \in Tasks : TaskDel(t)
    BY <1>2, <1>3, <2>5 DEF TaskDel
  <2> QED BY <1>5, <2>1, <2>2, <2>3, <2>4, <2>5 DEF KcallSet
<1> QED BY <1>1, <1>4, <1>5, KcallSteps DEF KcallOther

-----------------------------------------------------------------------------
(* The processor.                                                           *)

\* The kernel's loops leave the processor's variables alone.
LEMMA LoopCpu ==
    ASSUME KernelStep
    PROVE  UNCHANGED cpuVars
BY DEF KernelStep, PriChangeStep, MutexLockPend, MutexHandOver, SemGiveAllStep, DelStep, WakeAllLoop,
       TickStep, TaskMutexFree, TaskDelState, ExitStep, semUnchanged, mutexUnchanged

\* The steps that write the variables of the processor
CpuStep == SchedDisable \/ SchedEnable \/ CoreSched \/ PendSV \/ IntrptEnter \/ IntrptExit

\* Only the actions of RhinoSched write the variables of the processor.
LEMMA CpuSame ==
    ASSUME Next, ~CpuStep
    PROVE  UNCHANGED cpuVars
<1>1. CASE SemNext
  BY <1>1 DEF SemNext, SemCreate, SemGive, SemGiveAll, SemDel, SemTake, SemCountSet, semUnchanged
<1>2. CASE MutexNext
  BY <1>2 DEF MutexNext, MutexCreate, MutexUnlock, MutexDel, MutexLock, mutexUnchanged
<1>3. CASE TaskNext
  BY <1>3 DEF TaskNext, TaskYield, TaskPriChange, TaskSleep, TaskSuspend, TaskResume, TaskDel,
              TaskCreate, TaskPriChangeCheck
<1>4. CASE SchedNext
  BY <1>4 DEF SchedNext, PendReturn, Tick, CpuStep
<1> QED
  BY <1>1, <1>2, <1>3, <1>4, LoopCpu DEF Next

\* Who takes the other steps: a task, a handler or a loop of the kernel
LEMMA CpuContext ==
    ASSUME Next, ~CpuStep
    PROVE  InTask \/ g_intrpt_nested_level > 0 \/ kcall.pc # "none" \/ PriChangeStep
<1>1. CASE SemNext
  BY <1>1 DEF SemNext, SemCreate, SemGive, SemGiveAll, SemDel, SemTake, SemCountSet, TaskCall, IsrCall
<1>2. CASE MutexNext
  BY <1>2 DEF MutexNext, MutexCreate, MutexUnlock, MutexDel, MutexLock, TaskCall
<1>3. CASE TaskNext
  BY <1>3 DEF TaskNext, TaskYield, TaskPriChange, TaskSleep, TaskSuspend, TaskResume, TaskDel,
              TaskCreate, TaskPriChangeCheck, TaskCall, IsrCall
<1>4. CASE SchedNext
  BY <1>4 DEF SchedNext, PendReturn, Tick, CpuStep, IsrCall
<1>5. CASE KernelStep
  BY <1>5 DEF KernelStep, MutexLockPend, MutexHandOver, SemGiveAllStep, DelStep, WakeAllLoop,
              TickStep, TaskMutexFree, TaskDelState, ExitStep
<1> QED
  BY <1>1, <1>2, <1>3, <1>4, <1>5 DEF Next

\* A task that has to call core_sched is forgotten only when it does so, or
\* is deleted.
LEMMA ReschedStep ==
    ASSUME IInv, Next
    PROVE  /\ resched' \subseteq Tasks
           /\ ~CoreSched /\ ~TaskDelState => resched \subseteq resched'
<1>1. resched \subseteq Tasks /\ g_active_task \in Tasks
  BY DEF IInv, TypeOK
<1>2. CASE SemNext
  BY <1>1, <1>2 DEF SemNext, SemCreate, SemGive, SemGiveAll, SemDel, SemTake, SemCountSet, ExitSched
<1>3. CASE MutexNext
  BY <1>1, <1>3 DEF MutexNext, MutexCreate, MutexUnlock, MutexDel, MutexLock
<1>4. CASE TaskNext
  BY <1>1, <1>4 DEF TaskNext, TaskYield, TaskPriChange, TaskSleep, TaskSuspend, TaskResume, TaskDel,
              TaskCreate, TaskPriChangeCheck, ExitSched
<1>5. CASE SchedNext
  BY <1>1, <1>5, SMTT(60) DEF SchedNext, SchedDisable, SchedEnable, CoreSched, PendSV, IntrptEnter, IntrptExit,
              PendReturn, Tick, ExitSched
<1>6. CASE KernelStep
  BY <1>1, <1>6 DEF KernelStep, PriChangeStep, MutexLockPend, MutexHandOver, SemGiveAllStep, DelStep, WakeAllLoop,
              TickStep, TaskMutexFree, TaskDelState, ExitStep, ExitSched
<1> QED BY <1>2, <1>3, <1>4, <1>5, <1>6 DEF Next

\* The preferred ready task is ready.
LEMMA Preferred ==
    ASSUME IInv
    PROVE  PreferredReadyTask \in Tasks /\ task_state[PreferredReadyTask] = "K_RDY"
<1> DEFINE l == cur_list_item[highest_pri]
<1>1. l \in Seq(Tasks) /\ l # <<>> /\ highest_pri \in Pri
  BY DEF IInv, TypeOK, ListInv, HighestPriIsFirst
<1>2. Head(l) \in Tasks /\ Contains(l, Head(l))
  BY <1>1, SMTT(60) DEF Contains
<1> QED BY <1>1, <1>2 DEF IInv, ListInv, ListsMatchState, ReadyLists, PreferredReadyTask

CpuTypes == /\ g_active_task \in Tasks /\ g_preferred_ready_task \in Tasks
            /\ g_sched_lock \in 0..LOCK_MAX /\ g_intrpt_nested_level \in 0..INTRPT_MAX
            /\ pendsv \in BOOLEAN

\* Every step keeps the variables of the processor in their sets.
LEMMA CpuTypesStep ==
    ASSUME IInv, Next
    PROVE  CpuTypes'
<1>1. CpuTypes /\ PreferredReadyTask \in Tasks
  BY Preferred DEF IInv, TypeOK, CpuTypes
<1>2. CASE SchedDisable \/ SchedEnable
  BY <1>1, <1>2, BoundAssumption, SMTT(60) DEF SchedDisable, SchedEnable, CpuTypes
<1>3. CASE IntrptEnter
  BY <1>1, <1>3, BoundAssumption, SMTT(60) DEF IntrptEnter, CpuTypes
<1>4. CASE CoreSched \/ IntrptExit
  <2>1. g_preferred_ready_task' \in Tasks /\ pendsv' \in BOOLEAN
    BY <1>1, <1>4 DEF CoreSched, IntrptExit, ChooseTask, CpuTypes
  <2>2. g_active_task' = g_active_task /\ g_sched_lock' = g_sched_lock
    BY <1>4 DEF CoreSched, IntrptExit
  <2>3. g_intrpt_nested_level' \in 0..INTRPT_MAX
    BY <1>1, <1>4, BoundAssumption, SMTT(60) DEF CoreSched, IntrptExit, CpuTypes
  <2> QED BY <1>1, <2>1, <2>2, <2>3 DEF CpuTypes
<1>5. CASE PendSV
  BY <1>1, <1>5 DEF PendSV, CpuTypes
<1> QED BY <1>1, <1>2, <1>3, <1>4, <1>5, CpuSame DEF CpuTypes, CpuStep, cpuVars
=============================================================================
