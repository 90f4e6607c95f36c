----------------------------- MODULE RhinoList ------------------------------
(***************************************************************************)
(* The circular lists of k_list.h and aos/list.h: a list is the sequence   *)
(* of its elements, read from its head.                                    *)
(***************************************************************************)
EXTENDS Integers, Sequences

ToSet(s) == {s[i] : i \in 1..Len(s)}
Contains(s, e) == \E i \in 1..Len(s) : s[i] = e
NoDup(s) == \A i, j \in 1..Len(s) : s[i] = s[j] => i = j

Least(S) == CHOOSE x \in S : \A y \in S : x <= y

\* The position of the first element that passes the test, or the end
FirstOr(s, Test(_)) == Least({i \in 1..Len(s) : Test(s[i])} \cup {Len(s) + 1})

\* klist_insert: e joins the list before its i-th element
KlistInsert(s, i, e) == SubSeq(s, 1, i - 1) \o <<e>> \o SubSeq(s, i, Len(s))

\* klist_rm, for an element that is on the list at most once
KlistRm(s, e) ==
    LET i == FirstOr(s, LAMBDA x : x = e) IN
    IF Contains(s, e) THEN SubSeq(s, 1, i - 1) \o SubSeq(s, i + 1, Len(s)) ELSE s

\* pend_list_add: before the first element that is larger
PendListAdd(l, t, pr) == KlistInsert(l, FirstOr(l, LAMBDA u : pr[u] > pr[t]), t)
=============================================================================
