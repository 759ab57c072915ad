------------------------------- MODULE SafeList -------------------------------
(***************************************************************************)
(* pkg/types/safe_list.go: SafeList, a doubly linked list behind a RWMutex. *)
(* Every method holds the lock from its first access to its last, so one    *)
(* call is one atomic change of the list.  A list is a sequence written     *)
(* from its Back (index 1) to its Front (index Len): elements enter at the  *)
(* Front and leave at the Back.                                             *)
(***************************************************************************)
EXTENDS Naturals, Sequences

NewSafeList == <<>>

PushFront(L, v) == Append(L, v)

\* Mutant: the elements enter at the Back.
PushFrontN_AtBack(L, vs) == vs \o L

\* The loop pushes vs[0], vs[1], ...: the last one ends nearest to the Front.
PushFrontN(L, vs) == L \o vs

\* Mutant: one element too many.
PopCount_OneMore(L, n) == IF Len(L) > n THEN n + 1 ELSE Len(L)

\* count of PopBackN(n): the whole list when it holds at most n elements.
PopCount(L, n) == IF Len(L) > n THEN n ELSE Len(L)

\* The slice PopBackN(n) returns, oldest element first.
PopBackN(L, n) == SubSeq(L, 1, PopCount(L, n))

\* The list PopBackN(n) leaves behind.
AfterPopBackN(L, n) == SubSeq(L, PopCount(L, n) + 1, Len(L))

\* The slice PopBackAll returns; the list it leaves is NewSafeList.
PopBackAll(L) == L
===============================================================================
