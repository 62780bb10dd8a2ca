------------------------------- MODULE Lists -------------------------------
(* util/list.h as the kernel's wait queues use it: a sequence, the entry   *)
(* next in line first, each entry on it at most once.                      *)
EXTENDS Integers, Sequences

(* list_add_tail. *)
ListAddTail(q, x) == Append(q, x)

(* The i-th entry taken off. *)
ListRemoveAt(q, i) == SubSeq(q, 1, i - 1) \o SubSeq(q, i + 1, Len(q))

OnList(q, x) == \E i \in DOMAIN q : q[i] = x

(* list_remove_safe: off the list if it is on it. *)
ListRemove(q, x) ==
    IF OnList(q, x) THEN ListRemoveAt(q, CHOOSE i \in DOMAIN q : q[i] = x) ELSE q

(* No entry is on the list twice: it has one pair of links. *)
Distinct(q) == \A i, j \in DOMAIN q : q[i] = q[j] => i = j
=============================================================================
