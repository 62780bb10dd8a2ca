----------------------------- MODULE ListProofs -----------------------------
(* What the list operations of Lists do to the entries of a list.           *)
EXTENDS Lists, TLAPS

LEMMA ConcatEntries ==
    ASSUME NEW S, NEW a \in Seq(S), NEW b \in Seq(S)
    PROVE  \A k \in 1 .. Len(a) + Len(b) :
              (a \o b)[k] = IF k <= Len(a) THEN a[k] ELSE b[k - Len(a)]
OBVIOUS

(* Taking out the i-th entry leaves the entries before it in place and      *)
(* moves the ones behind it up by one.                                      *)
LEMMA RemoveAtShape ==
    ASSUME NEW S, NEW q \in Seq(S), NEW i \in DOMAIN q
    PROVE  /\ ListRemoveAt(q, i) \in Seq(S)
           /\ Len(ListRemoveAt(q, i)) = Len(q) - 1
           /\ \A j \in DOMAIN ListRemoveAt(q, i) :
                 ListRemoveAt(q, i)[j] = IF j < i THEN q[j] ELSE q[j + 1]
<1> DEFINE a == SubSeq(q, 1, i - 1)
           b == SubSeq(q, i + 1, Len(q))
<1>1. Len(q) \in Nat /\ i \in 1 .. Len(q)
  OBVIOUS
<1>2. a \in Seq(S) /\ Len(a) = i - 1 /\ \A j \in 1 .. i - 1 : a[j] = q[j]
  BY <1>1
<1>3. b \in Seq(S) /\ Len(b) = Len(q) - i /\ \A j \in 1 .. Len(q) - i : b[j] = q[i + j]
  BY <1>1
<1> HIDE DEF a, b
<1>4. /\ a \o b \in Seq(S) /\ Len(a \o b) = Len(q) - 1
      /\ DOMAIN (a \o b) = 1 .. Len(q) - 1
  BY <1>1, <1>2, <1>3
<1>5. ASSUME NEW j \in 1 .. Len(q) - 1
      PROVE  (a \o b)[j] = IF j < i THEN q[j] ELSE q[j + 1]
  <2>1. CASE j < i
    BY <1>1, <1>2, <1>3, <2>1
  <2>2. CASE ~(j < i)
    <3>1. j \in 1 .. Len(a) + Len(b) /\ ~(j <= Len(a))
      BY <1>1, <1>2, <1>3, <2>2
    <3>2. \A k \in 1 .. Len(a) + Len(b) :
             (a \o b)[k] = IF k <= Len(a) THEN a[k] ELSE b[k - Len(a)]
      BY <1>2, <1>3, ConcatEntries
    <3>3. (a \o b)[j] = b[j - Len(a)]
      BY <3>1, <3>2
    <3>4. b[j - (i - 1)] = q[i + (j - (i - 1))]
      BY <1>1, <1>3, <2>2
    <3> QED BY <3>3, <3>4, <1>1, <1>2, <2>2
  <2> QED BY <2>1, <2>2
<1>6. ListRemoveAt(q, i) = a \o b
  BY DEF ListRemoveAt, a, b
<1> QED BY <1>1, <1>4, <1>5, <1>6

(* Taking an entry off a list without duplicates leaves exactly the others, *)
(* again without duplicates.                                                *)
LEMMA RemoveAtEntries ==
    ASSUME NEW S, NEW q \in Seq(S), NEW i \in DOMAIN q, Distinct(q)
    PROVE  /\ ListRemoveAt(q, i) \in Seq(S)
           /\ Distinct(ListRemoveAt(q, i))
           /\ \A x : OnList(ListRemoveAt(q, i), x) <=> OnList(q, x) /\ x # q[i]
<1> DEFINE r == ListRemoveAt(q, i)
<1>1. /\ r \in Seq(S) /\ Len(r) = Len(q) - 1 /\ Len(q) \in Nat /\ i \in 1 .. Len(q)
      /\ DOMAIN r = 1 .. Len(q) - 1
      /\ \A j \in DOMAIN r : r[j] = IF j < i THEN q[j] ELSE q[j + 1]
  BY RemoveAtShape
<1> HIDE DEF r
<1>2. Distinct(r)
  BY <1>1 DEF Distinct
<1>3. ASSUME NEW x, OnList(r, x) PROVE OnList(q, x) /\ x # q[i]
  BY <1>1, <1>3 DEF OnList, Distinct
<1>4. ASSUME NEW x, OnList(q, x), x # q[i] PROVE OnList(r, x)
  <2>1. PICK j \in DOMAIN q : q[j] = x
    BY <1>4 DEF OnList
  <2>2. CASE j < i
    <3>1. j \in DOMAIN r /\ r[j] = x
      BY <1>1, <2>1, <2>2
    <3> QED BY <3>1 DEF OnList
  <2>3. CASE j > i
    <3>1. j - 1 \in DOMAIN r /\ r[j - 1] = x
      BY <1>1, <2>1, <2>3
    <3> QED BY <3>1 DEF OnList
  <2> QED BY <1>4, <2>1, <2>2, <2>3, <1>1
<1> QED BY <1>1, <1>2, <1>3, <1>4 DEF r

(* list_remove_safe leaves the other entries, and only them.                *)
LEMMA RemoveEntries ==
    ASSUME NEW S, NEW q \in Seq(S), NEW x, Distinct(q)
    PROVE  /\ ListRemove(q, x) \in Seq(S)
           /\ Distinct(ListRemove(q, x))
           /\ \A y : OnList(ListRemove(q, x), y) <=> OnList(q, y) /\ y # x
<1>1. CASE OnList(q, x)
  <2> DEFINE i == CHOOSE j \in DOMAIN q : q[j] = x
  <2>1. i \in DOMAIN q /\ q[i] = x
    BY <1>1 DEF OnList
  <2>2. ListRemove(q, x) = ListRemoveAt(q, i)
    BY <1>1 DEF ListRemove
  <2> HIDE DEF i
  <2> QED BY <2>1, <2>2, RemoveAtEntries
<1>2. CASE ~OnList(q, x)
  BY <1>2 DEF ListRemove
<1> QED BY <1>1, <1>2

(* A new entry at the tail is the only difference.                          *)
LEMMA AddTailEntries ==
    ASSUME NEW S, NEW q \in Seq(S), NEW x \in S, Distinct(q), ~OnList(q, x)
    PROVE  /\ ListAddTail(q, x) \in Seq(S)
           /\ Distinct(ListAddTail(q, x))
           /\ \A y : OnList(ListAddTail(q, x), y) <=> OnList(q, y) \/ y = x
<1>1. /\ ListAddTail(q, x) \in Seq(S)
      /\ Len(q) \in Nat
      /\ DOMAIN ListAddTail(q, x) = 1 .. Len(q) + 1
      /\ DOMAIN q = 1 .. Len(q)
      /\ \A j \in 1 .. Len(q) : ListAddTail(q, x)[j] = q[j]
      /\ ListAddTail(q, x)[Len(q) + 1] = x
  BY DEF ListAddTail
<1>2. Distinct(ListAddTail(q, x))
  BY <1>1 DEF Distinct, OnList
<1>3. ASSUME NEW y PROVE OnList(ListAddTail(q, x), y) <=> OnList(q, y) \/ y = x
  <2>1. Len(q) + 1 \in DOMAIN ListAddTail(q, x)
    BY <1>1
  <2> QED BY <1>1, <2>1 DEF OnList
<1> QED BY <1>1, <1>2, <1>3

(* The first entry taken off. *)
LEMMA TailEntries ==
    ASSUME NEW S, NEW q \in Seq(S), q # <<>>, Distinct(q)
    PROVE  /\ Head(q) \in S /\ OnList(q, Head(q))
           /\ Tail(q) \in Seq(S)
           /\ Distinct(Tail(q))
           /\ \A y : OnList(Tail(q), y) <=> OnList(q, y) /\ y # Head(q)
<1>1. /\ Len(q) \in Nat /\ Len(q) > 0
      /\ DOMAIN q = 1 .. Len(q) /\ DOMAIN Tail(q) = 1 .. Len(q) - 1
      /\ Head(q) = q[1] /\ Tail(q) \in Seq(S)
      /\ \A j \in 1 .. Len(q) - 1 : Tail(q)[j] = q[j + 1]
  OBVIOUS
<1>2. Distinct(Tail(q))
  BY <1>1 DEF Distinct
<1>3. Head(q) \in S /\ OnList(q, Head(q))
  BY <1>1 DEF OnList
<1>4. ASSUME NEW y, OnList(Tail(q), y) PROVE OnList(q, y) /\ y # Head(q)
  BY <1>1, <1>4 DEF OnList, Distinct
<1>5. ASSUME NEW y, OnList(q, y), y # Head(q) PROVE OnList(Tail(q), y)
  <2>1. PICK j \in DOMAIN q : q[j] = y
    BY <1>5 DEF OnList
  <2>2. j - 1 \in DOMAIN Tail(q) /\ Tail(q)[j - 1] = y
    BY <1>1, <1>5, <2>1
  <2> QED BY <2>2 DEF OnList
<1> QED BY <1>1, <1>2, <1>3, <1>4, <1>5
=============================================================================
