---------------------------- MODULE KernelProofs ---------------------------
(***************************************************************************)
(* Proofs about the kernel core, for every set of threads, locks and       *)
(* semaphores, every range of priorities and every time slice: types,      *)
(* scheduling, who holds the locks of threads/synch.c, what donation does  *)
(* to priorities and that lock_release undoes it, and that synch.c         *)
(* implements SynchSpec.                                                   *)
(***************************************************************************)
EXTENDS KernelProperties, SequenceTheorems, TLAPS

(* What the operations on lists of threads return: facts about InsertAt,   *)
(* RemoveAt, Front and Last, as ThreadLists uses them.                     *)

(* InsertAt, place by place.                                               *)
LEMMA InsertAtElements ==
  ASSUME NEW S, NEW s \in Seq(S), NEW i \in 1 .. Len(s) + 1, NEW e \in S
  PROVE  /\ InsertAt(s, i, e) \in Seq(S)
         /\ Len(InsertAt(s, i, e)) = Len(s) + 1
         /\ \A j \in 1 .. i - 1 : InsertAt(s, i, e)[j] = s[j]
         /\ InsertAt(s, i, e)[i] = e
         /\ \A j \in i + 1 .. Len(s) + 1 : InsertAt(s, i, e)[j] = s[j - 1]
<1> DEFINE a == SubSeq(s, 1, i - 1)
           b == SubSeq(s, i, Len(s))
<1>1. /\ a \in Seq(S) /\ Len(a) = i - 1
      /\ \A j \in 1 .. i - 1 : a[j] = s[j]
  <2>1. 1 .. i - 1 \subseteq DOMAIN s /\ i - 1 \in Nat /\ Len(s) \in Nat
    OBVIOUS
  <2>2. QED BY <2>1, SubSeqProperties
<1>2. /\ b \in Seq(S) /\ Len(b) = Len(s) - i + 1
      /\ \A j \in 1 .. Len(s) - i + 1 : b[j] = s[i + j - 1]
  <2>1. Len(s) \in Nat /\ i \in Nat /\ DOMAIN s = 1 .. Len(s)
    OBVIOUS
  <2>2. QED BY <2>1, SubSeqProperties
<1>3. /\ <<e>> \in Seq(S) /\ Len(<<e>>) = 1 /\ <<e>>[1] = e
  OBVIOUS
<1> HIDE DEF a, b
<1> DEFINE c == a \o <<e>>
           r == c \o b
<1>4. /\ c \in Seq(S) /\ Len(c) = i
      /\ \A j \in 1 .. i - 1 : c[j] = s[j]
      /\ c[i] = e
  <2>1. i - 1 \in Nat /\ (i - 1) + 1 = i /\ i - (i - 1) = 1
    OBVIOUS
  <2>2. /\ c \in Seq(S) /\ Len(c) = i
        /\ \A j \in 1 .. i - 1 : c[j] = a[j]
        /\ \A j \in i .. i : c[j] = <<e>>[j - (i - 1)]
    BY <1>1, <1>3, <2>1
  <2>3. i \in i .. i
    OBVIOUS
  <2>4. QED BY <1>1, <1>3, <2>1, <2>2, <2>3
<1> HIDE DEF c
<1>5. /\ r \in Seq(S) /\ Len(r) = Len(s) + 1
      /\ \A j \in 1 .. i - 1 : r[j] = s[j]
      /\ r[i] = e
      /\ \A j \in i + 1 .. Len(s) + 1 : r[j] = s[j - 1]
  <2>1. /\ i \in Nat /\ i >= 1 /\ Len(s) - i + 1 \in Nat
        /\ i + (Len(s) - i + 1) = Len(s) + 1
    OBVIOUS
  <2>2. /\ r \in Seq(S) /\ Len(r) = Len(s) + 1
        /\ \A j \in 1 .. i : r[j] = c[j]
        /\ \A j \in i + 1 .. Len(s) + 1 : r[j] = b[j - i]
    <3> DEFINE m == Len(s) - i + 1
    <3>1. /\ c \in Seq(S) /\ b \in Seq(S) /\ i \in Nat /\ m \in Nat
          /\ Len(c) = i /\ Len(b) = m
      BY <1>2, <1>4, <2>1
    <3> HIDE DEF m
    <3>2. /\ r \in Seq(S) /\ Len(r) = i + m
          /\ \A j \in 1 .. i : r[j] = c[j]
          /\ \A j \in i + 1 .. i + m : r[j] = b[j - i]
      BY <3>1
    <3>3. QED BY <2>1, <3>2 DEF m
  <2>3. \A j \in i + 1 .. Len(s) + 1 :
          j - i \in 1 .. Len(s) - i + 1 /\ i + (j - i) - 1 = j - 1
    OBVIOUS
  <2>4. (\A j \in 1 .. i - 1 : j \in 1 .. i) /\ i \in 1 .. i
    OBVIOUS
  <2>5. \A j \in i + 1 .. Len(s) + 1 : r[j] = s[j - 1]
    BY <1>2, <2>1, <2>2, <2>3
  <2>6. QED BY <1>4, <2>1, <2>2, <2>4, <2>5, Zenon
<1>6. InsertAt(s, i, e) = r
  BY DEF InsertAt, a, b, c
<1> HIDE DEF r
<1>7. QED BY <1>5, <1>6

(* Inserting an element at a legal position adds that element and nothing  *)
(* else (list_insert); a new one is then in the list once.                 *)
LEMMA InsertAtLemma ==
  ASSUME NEW S, NEW s \in Seq(S), NEW i \in 1 .. Len(s) + 1, NEW e \in S
  PROVE  /\ InsertAt(s, i, e) \in Seq(S)
         /\ Len(InsertAt(s, i, e)) = Len(s) + 1
         /\ ToSet(InsertAt(s, i, e)) = ToSet(s) \cup {e}
         /\ IsInjective(s) /\ e \notin ToSet(s) => IsInjective(InsertAt(s, i, e))
<1>1. PICK r \in Seq(S) :
           /\ r = InsertAt(s, i, e) /\ Len(r) = Len(s) + 1
           /\ \A j \in 1 .. i - 1 : r[j] = s[j]
           /\ r[i] = e
           /\ \A j \in i + 1 .. Len(s) + 1 : r[j] = s[j - 1]
  BY InsertAtElements
<1>2. ToSet(r) = ToSet(s) \cup {e}
  <2>1. DOMAIN r = 1 .. Len(s) + 1 /\ DOMAIN s = 1 .. Len(s) /\ Len(s) \in Nat
    BY <1>1, LenProperties
  <2>2. ASSUME NEW x \in ToSet(r) PROVE x \in ToSet(s) \cup {e}
    <3>1. PICK j \in 1 .. Len(s) + 1 : x = r[j]
      BY <2>1 DEF ToSet
    <3>2. CASE j < i
      <4>1. j \in 1 .. Len(s) /\ x = s[j] BY <1>1, <3>1, <3>2, <2>1
      <4>2. QED BY <4>1, <2>1 DEF ToSet
    <3>3. CASE j = i
      BY <1>1, <3>1, <3>3
    <3>4. CASE j > i
      <4>1. j - 1 \in 1 .. Len(s) /\ x = s[j - 1] BY <1>1, <3>1, <3>4, <2>1
      <4>2. QED BY <4>1, <2>1 DEF ToSet
    <3>5. QED BY <3>2, <3>3, <3>4, <2>1
  <2>3. ASSUME NEW x \in ToSet(s) PROVE x \in ToSet(r)
    <3>1. PICK j \in 1 .. Len(s) : x = s[j]
      BY <2>1 DEF ToSet
    <3>2. CASE j < i
      <4>1. j \in 1 .. Len(s) + 1 /\ x = r[j] BY <1>1, <3>1, <3>2, <2>1
      <4>2. QED BY <4>1, <2>1 DEF ToSet
    <3>3. CASE j >= i
      <4>1. j + 1 \in 1 .. Len(s) + 1 /\ x = r[j + 1] BY <1>1, <3>1, <3>3, <2>1
      <4>2. QED BY <4>1, <2>1 DEF ToSet
    <3>4. QED BY <3>2, <3>3, <2>1
  <2>4. e \in ToSet(r)
    <3>1. i \in 1 .. Len(s) + 1 /\ r[i] = e BY <1>1, <2>1
    <3>2. QED BY <3>1, <2>1 DEF ToSet
  <2>5. QED BY <2>2, <2>3, <2>4
<1>3. ASSUME IsInjective(s), e \notin ToSet(s) PROVE IsInjective(r)
  <2>1. DOMAIN r = 1 .. Len(s) + 1 /\ DOMAIN s = 1 .. Len(s) /\ Len(s) \in Nat
    BY <1>1, LenProperties
  <2>2. /\ \A j \in 1 .. Len(s) : s[j] # e
        /\ \A j, k \in 1 .. Len(s) : s[j] = s[k] => j = k
    BY <1>3, <2>1 DEF ToSet, IsInjective
  <2>3. ASSUME NEW j \in 1 .. Len(s) + 1, NEW k \in 1 .. Len(s) + 1, j < k
        PROVE  r[j] # r[k]
    <3>1. CASE k < i
      <4>1. r[j] = s[j] /\ r[k] = s[k] /\ j \in 1 .. Len(s) /\ k \in 1 .. Len(s)
        BY <1>1, <2>1, <2>3, <3>1
      <4>2. QED BY <2>2, <2>3, <4>1
    <3>2. CASE k = i
      <4>1. r[j] = s[j] /\ r[k] = e /\ j \in 1 .. Len(s)
        BY <1>1, <2>1, <2>3, <3>2
      <4>2. QED BY <2>2, <4>1
    <3>3. CASE k > i
      <4>1. r[k] = s[k - 1] /\ k - 1 \in 1 .. Len(s)
        BY <1>1, <2>1, <2>3, <3>3
      <4>2. CASE j < i
        <5>1. r[j] = s[j] /\ j \in 1 .. Len(s) /\ j # k - 1
          BY <1>1, <2>1, <2>3, <3>3, <4>2
        <5>2. QED BY <2>2, <4>1, <5>1
      <4>3. CASE j = i
        BY <1>1, <2>2, <4>1, <4>3
      <4>4. CASE j > i
        <5>1. r[j] = s[j - 1] /\ j - 1 \in 1 .. Len(s) /\ j - 1 # k - 1
          BY <1>1, <2>1, <2>3, <4>4
        <5>2. QED BY <2>2, <4>1, <5>1
      <4>5. QED BY <2>1, <4>2, <4>3, <4>4
    <3>4. QED BY <2>1, <3>1, <3>2, <3>3
  <2>4. QED BY <2>1, <2>3 DEF IsInjective
<1>4. QED BY <1>1, <1>2, <1>3

(* What is where after an element is taken out of a list.                  *)
LEMMA RemoveAtElements ==
  ASSUME NEW S, NEW s \in Seq(S), NEW i \in 1 .. Len(s)
  PROVE  \E r \in Seq(S) :
           /\ r = RemoveAt(s, i) /\ Len(r) = Len(s) - 1
           /\ \A j \in 1 .. i - 1 : r[j] = s[j]
           /\ \A j \in i .. Len(s) - 1 : r[j] = s[j + 1]
<1> DEFINE a == SubSeq(s, 1, i - 1)
           b == SubSeq(s, i + 1, Len(s))
<1>1. /\ a \in Seq(S) /\ Len(a) = i - 1
      /\ \A j \in 1 .. i - 1 : a[j] = s[j]
  <2>1. 1 .. i - 1 \subseteq DOMAIN s /\ i - 1 \in Nat /\ Len(s) \in Nat
    OBVIOUS
  <2>2. QED BY <2>1, SubSeqProperties
<1>2. /\ b \in Seq(S) /\ Len(b) = Len(s) - i
      /\ \A j \in 1 .. Len(s) - i : b[j] = s[i + j]
  <2> DEFINE m == i + 1
             n == Len(s)
  <2>1. m \in Nat /\ n \in Nat /\ m .. n \subseteq DOMAIN s /\ m <= n + 1
    OBVIOUS
  <2> HIDE DEF m, n
  <2>2. /\ SubSeq(s, m, n) \in Seq(S)
        /\ Len(SubSeq(s, m, n)) = n - m + 1
        /\ \A j \in 1 .. n - m + 1 : SubSeq(s, m, n)[j] = s[m + j - 1]
    BY <2>1, SubSeqProperties
  <2>3. n - m + 1 = Len(s) - i /\ \A j \in 1 .. Len(s) - i : m + j - 1 = i + j
    BY DEF m, n
  <2>4. QED BY <2>2, <2>3 DEF m, n
<1> HIDE DEF a, b
<1> DEFINE r == a \o b
<1>3. /\ r \in Seq(S) /\ Len(r) = Len(s) - 1
      /\ \A j \in 1 .. i - 1 : r[j] = s[j]
      /\ \A j \in i .. Len(s) - 1 : r[j] = s[j + 1]
  <2>1. /\ i - 1 \in Nat /\ Len(s) - i \in Nat /\ (i - 1) + 1 = i
        /\ (i - 1) + (Len(s) - i) = Len(s) - 1
    OBVIOUS
  <2>2. /\ r \in Seq(S) /\ Len(r) = Len(s) - 1
        /\ \A j \in 1 .. i - 1 : r[j] = a[j]
        /\ \A j \in i .. Len(s) - 1 : r[j] = b[j - (i - 1)]
    <3> DEFINE n == i - 1
               m == Len(s) - i
    <3>1. /\ a \in Seq(S) /\ b \in Seq(S) /\ n \in Nat /\ m \in Nat
          /\ Len(a) = n /\ Len(b) = m
      BY <1>1, <1>2, <2>1
    <3> HIDE DEF n, m
    <3>2. /\ r \in Seq(S) /\ Len(r) = n + m
          /\ \A j \in 1 .. n : r[j] = a[j]
          /\ \A j \in n + 1 .. n + m : r[j] = b[j - n]
      BY <3>1
    <3>3. QED BY <2>1, <3>2 DEF n, m
  <2>3. \A j \in i .. Len(s) - 1 :
          j - (i - 1) \in 1 .. Len(s) - i /\ i + (j - (i - 1)) = j + 1
    OBVIOUS
  <2>4. \A j \in i .. Len(s) - 1 : r[j] = s[j + 1]
    BY <1>2, <2>1, <2>2, <2>3
  <2>5. QED BY <1>1, <2>1, <2>2, <2>4, Zenon
<1>4. RemoveAt(s, i) = r
  BY DEF RemoveAt, a, b
<1> HIDE DEF r
<1>5. QED BY <1>3, <1>4

(* Removing the element at a position (list_remove) loses no other, and    *)
(* nothing remains of it when it was in the list once.                     *)
LEMMA RemoveAtLemma ==
  ASSUME NEW S, NEW s \in Seq(S), NEW i \in 1 .. Len(s)
  PROVE  /\ RemoveAt(s, i) \in Seq(S)
         /\ Len(RemoveAt(s, i)) = Len(s) - 1
         /\ ToSet(s) = ToSet(RemoveAt(s, i)) \cup {s[i]}
         /\ IsInjective(s) =>
              IsInjective(RemoveAt(s, i)) /\ s[i] \notin ToSet(RemoveAt(s, i))
<1>3. PICK r \in Seq(S) :
           /\ r = RemoveAt(s, i) /\ Len(r) = Len(s) - 1
           /\ \A j \in 1 .. i - 1 : r[j] = s[j]
           /\ \A j \in i .. Len(s) - 1 : r[j] = s[j + 1]
  BY RemoveAtElements
<1>5. DOMAIN r = 1 .. Len(s) - 1 /\ DOMAIN s = 1 .. Len(s) /\ Len(s) \in Nat
  BY <1>3, LenProperties
<1>6. ASSUME NEW x \in ToSet(s) PROVE x \in ToSet(r) \cup {s[i]}
  <2>1. PICK j \in 1 .. Len(s) : x = s[j]
    BY <1>5 DEF ToSet
  <2>2. CASE j < i
    <3>1. j \in 1 .. Len(s) - 1 /\ x = r[j] BY <1>3, <1>5, <2>1, <2>2
    <3>2. QED BY <3>1, <1>5 DEF ToSet
  <2>3. CASE j > i
    <3>1. j - 1 \in 1 .. Len(s) - 1 /\ x = r[j - 1] BY <1>3, <1>5, <2>1, <2>3
    <3>2. QED BY <3>1, <1>5 DEF ToSet
  <2>4. QED BY <1>5, <2>1, <2>2, <2>3
<1>7. ASSUME NEW x \in ToSet(r) PROVE x \in ToSet(s)
  <2>1. PICK j \in 1 .. Len(s) - 1 : x = r[j]
    BY <1>5 DEF ToSet
  <2>2. \E k \in 1 .. Len(s) : x = s[k]
    BY <1>3, <1>5, <2>1
  <2>3. QED BY <2>2, <1>5 DEF ToSet
<1>8. s[i] \in ToSet(s)
  BY <1>5 DEF ToSet
<1>9. ASSUME IsInjective(s) PROVE IsInjective(r) /\ s[i] \notin ToSet(r)
  <2>1. \A j, k \in 1 .. Len(s) : s[j] = s[k] => j = k
    BY <1>5, <1>9 DEF IsInjective
  <2> DEFINE at(j) == IF j < i THEN j ELSE j + 1
  <2>2. ASSUME NEW j \in 1 .. Len(s) - 1
        PROVE  at(j) \in 1 .. Len(s) /\ at(j) # i /\ r[j] = s[at(j)]
    BY <1>3, <1>5
  <2>3. ASSUME NEW j \in 1 .. Len(s) - 1, NEW k \in 1 .. Len(s) - 1, at(j) = at(k)
        PROVE  j = k
    BY <1>5, <2>3
  <2> HIDE DEF at
  <2>4. ASSUME NEW j \in 1 .. Len(s) - 1, NEW k \in 1 .. Len(s) - 1, r[j] = r[k]
        PROVE  j = k
    <3>1. s[at(j)] = s[at(k)] /\ at(j) \in 1 .. Len(s) /\ at(k) \in 1 .. Len(s)
      BY <2>2, <2>4
    <3>2. QED BY <2>1, <2>3, <3>1
  <2>5. IsInjective(r)
    BY <1>5, <2>4 DEF IsInjective
  <2>6. s[i] \notin ToSet(r)
    BY <1>5, <2>1, <2>2 DEF ToSet
  <2>7. QED BY <2>5, <2>6
<1>10. QED BY <1>3, <1>6, <1>7, <1>8, <1>9

(* list_pop_back leaves the other elements where they are.                 *)
LEMMA FrontElements ==
  ASSUME NEW S, NEW s \in Seq(S), s # << >>
  PROVE  /\ Front(s) \in Seq(S) /\ Len(Front(s)) = Len(s) - 1
         /\ \A j \in 1 .. Len(s) - 1 : Front(s)[j] = s[j]
<1>1. Len(s) \in Nat \ {0} /\ DOMAIN s = 1 .. Len(s)
  BY EmptySeq, LenProperties
<1>2. 1 .. Len(s) - 1 \subseteq DOMAIN s /\ Len(s) - 1 \in Nat
  BY <1>1
<1>3. QED BY <1>1, <1>2, SubSeqProperties DEF Front

(* What is in a non-empty list is its last element or in the list that     *)
(* list_pop_back leaves, and not both when it was in the list once.        *)
LEMMA FrontLastLemma ==
  ASSUME NEW S, NEW s \in Seq(S), s # << >>
  PROVE  /\ Front(s) \in Seq(S)
         /\ Last(s) \in S
         /\ ToSet(s) = ToSet(Front(s)) \cup {Last(s)}
         /\ IsInjective(s) => IsInjective(Front(s)) /\ Last(s) \notin ToSet(Front(s))
<1>1. Len(s) \in Nat \ {0} /\ DOMAIN s = 1 .. Len(s)
  BY EmptySeq, LenProperties
<1>2. /\ Front(s) \in Seq(S) /\ Len(Front(s)) = Len(s) - 1
      /\ \A j \in 1 .. Len(s) - 1 : Front(s)[j] = s[j]
  BY FrontElements
<1>3. DOMAIN Front(s) = 1 .. Len(s) - 1
  BY <1>2, LenProperties
<1>4. Last(s) = s[Len(s)] /\ Len(s) \in 1 .. Len(s)
  BY <1>1 DEF Last
<1>5. \A j \in 1 .. Len(s) : j = Len(s) \/ j \in 1 .. Len(s) - 1
  <2>1. ASSUME NEW n \in Nat PROVE \A j \in 1 .. n : j = n \/ j \in 1 .. n - 1
    OBVIOUS
  <2>2. QED BY <1>1, <2>1
<1>6. \A j \in 1 .. Len(s) - 1 : j \in 1 .. Len(s)
  BY <1>1
<1>7. ToSet(s) = ToSet(Front(s)) \cup {Last(s)}
  BY <1>1, <1>2, <1>3, <1>4, <1>5, <1>6 DEF ToSet
<1>8. Last(s) \in S
  BY <1>1, <1>4, ElementOfSeq
<1>9. ASSUME IsInjective(s) PROVE IsInjective(Front(s)) /\ Last(s) \notin ToSet(Front(s))
  <2>1. \A j \in 1 .. Len(s) - 1 : j # Len(s)
    <3>1. ASSUME NEW n \in Nat PROVE \A j \in 1 .. n - 1 : j # n
      OBVIOUS
    <3>2. QED BY <1>1, <3>1
  <2>2. QED BY <1>1, <1>2, <1>3, <1>4, <1>6, <1>9, <2>1 DEF ToSet, IsInjective
<1>10. QED BY <1>2, <1>7, <1>8, <1>9

(* list_push_back.                                                         *)
LEMMA AppendLemma ==
  ASSUME NEW S, NEW s \in Seq(S), NEW e \in S
  PROVE  /\ Append(s, e) \in Seq(S)
         /\ ToSet(Append(s, e)) = ToSet(s) \cup {e}
         /\ IsInjective(s) /\ e \notin ToSet(s) => IsInjective(Append(s, e))
<1> DEFINE t == Append(s, e)
<1>1. /\ t \in Seq(S) /\ Len(t) = Len(s) + 1 /\ Len(s) \in Nat
      /\ DOMAIN t = 1 .. Len(t) /\ DOMAIN s = 1 .. Len(s)
      /\ \A k \in 1 .. Len(s) : t[k] = s[k]
      /\ t[Len(s) + 1] = e
  OBVIOUS
<1> HIDE DEF t
<1>2. ToSet(t) = ToSet(s) \cup {e}
  BY <1>1 DEF ToSet
<1>3. ASSUME IsInjective(s), e \notin ToSet(s) PROVE IsInjective(t)
  BY <1>1, <1>3 DEF IsInjective, ToSet
<1>4. QED BY <1>1, <1>2, <1>3 DEF t

(* A sequence that is in the order of its keys, each element once.         *)
Ascending(s, key) ==
  \A i, j \in DOMAIN s : i < j => s[i] # s[j] /\ key[s[i]] <= key[s[j]]

(* Behind the smaller keys and before the larger ones, wherever among the  *)
(* equal ones.                                                             *)
Fits(s, key, p, i) ==
  /\ i \in 1 .. Len(s) + 1
  /\ \A j \in 1 .. i - 1 : key[s[j]] <= p
  /\ i <= Len(s) => p <= key[s[i]]

(* An element that is put where its key fits leaves the list in order.     *)
LEMMA OrderedInsertLemma ==
  ASSUME NEW S, NEW s \in Seq(S), NEW e \in S, e \notin ToSet(s),
         NEW key \in [S -> Int], NEW p \in Int, NEW i, Fits(s, key, p, i),
         NEW key2, key2[e] = p, \A x \in S \ {e} : key2[x] = key[x], Ascending(s, key)
  PROVE  Ascending(InsertAt(s, i, e), key2)
<1> DEFINE r == InsertAt(s, i, e)
<1>1. /\ Len(s) \in Nat /\ DOMAIN s = 1 .. Len(s) /\ i \in 1 .. Len(s) + 1
      /\ \A j \in 1 .. Len(s) : s[j] \in S /\ s[j] # e
  BY LenProperties, ElementOfSeq DEF ToSet, Fits
<1>2. /\ DOMAIN r = 1 .. Len(s) + 1
      /\ \A j \in 1 .. i - 1 : r[j] = s[j]
      /\ r[i] = e
      /\ \A j \in i + 1 .. Len(s) + 1 : r[j] = s[j - 1]
  <2>1. /\ r \in Seq(S) /\ Len(r) = Len(s) + 1
        /\ \A j \in 1 .. i - 1 : r[j] = s[j]
        /\ r[i] = e
        /\ \A j \in i + 1 .. Len(s) + 1 : r[j] = s[j - 1]
    <3>1. i \in 1 .. Len(s) + 1
      BY <1>1
    <3>2. QED BY <3>1, InsertAtElements
  <2> HIDE DEF r
  <2>2. QED BY <2>1, LenProperties
<1> HIDE DEF r
<1> DEFINE k(j) == key[s[j]]
<1>3. /\ \A j \in 1 .. Len(s) : k(j) \in Int /\ key2[s[j]] = k(j)
      /\ \A j \in 1 .. i - 1 : k(j) <= p
      /\ i <= Len(s) => p <= k(i)
      /\ \A j, l \in 1 .. Len(s) : j < l => s[j] # s[l] /\ k(j) <= k(l)
  BY <1>1 DEF Ascending, Fits
<1> HIDE DEF k
<1>4. \A j \in i .. Len(s) : p <= k(j)
  <2>1. ASSUME NEW j \in i .. Len(s) PROVE p <= k(j)
    <3>1. i \in 1 .. Len(s) /\ j \in 1 .. Len(s) /\ p <= k(i)
      BY <1>1, <1>3, <2>1
    <3>2. k(i) <= k(j)
      BY <1>3, <3>1, <2>1
    <3>3. QED BY <1>3, <3>1, <3>2
  <2>2. QED BY <2>1
<1>5. ASSUME NEW j \in 1 .. Len(s) + 1, NEW l \in 1 .. Len(s) + 1, j < l
      PROVE  r[j] # r[l] /\ key2[r[j]] <= key2[r[l]]
  <2>1. CASE l < i
    <3>1. j \in 1 .. i - 1 /\ l \in 1 .. i - 1 /\ j \in 1 .. Len(s) /\ l \in 1 .. Len(s)
      BY <1>1, <1>5, <2>1
    <3>2. r[j] = s[j] /\ r[l] = s[l]
      BY <1>2, <3>1
    <3>3. QED BY <1>3, <1>5, <3>1, <3>2
  <2>2. CASE l = i
    <3>1. r[j] = s[j] /\ r[l] = e /\ j \in 1 .. Len(s) /\ k(j) <= p
      BY <1>1, <1>2, <1>3, <1>5, <2>2
    <3>2. QED BY <1>1, <1>3, <3>1
  <2>3. CASE l > i
    <3>1. r[l] = s[l - 1] /\ l - 1 \in 1 .. Len(s) /\ p <= k(l - 1)
      BY <1>1, <1>2, <1>4, <1>5, <2>3
    <3>2. CASE j < i
      <4>1. r[j] = s[j] /\ j \in 1 .. Len(s) /\ j < l - 1
        BY <1>1, <1>2, <1>5, <2>3, <3>2
      <4>2. QED BY <1>3, <3>1, <4>1
    <3>3. CASE j = i
      BY <1>1, <1>2, <1>3, <3>1, <3>3
    <3>4. CASE j > i
      <4>1. r[j] = s[j - 1] /\ j - 1 \in 1 .. Len(s) /\ j - 1 < l - 1
        BY <1>1, <1>2, <1>5, <3>4
      <4>2. QED BY <1>3, <3>1, <4>1
    <3>5. QED BY <1>1, <3>2, <3>3, <3>4
  <2>4. QED BY <1>1, <2>1, <2>2, <2>3
<1>6. QED BY <1>2, <1>5 DEF Ascending, r

(* list_insert_ordered with the strict comparator keeps the order of keys. *)
LEMMA StrictInsertLemma ==
  ASSUME NEW S, NEW s \in Seq(S), NEW e \in S, e \notin ToSet(s),
         NEW key \in [S -> Int], NEW p \in Int, NEW i \in StrictInsertPoints(s, key, p),
         NEW key2, key2[e] = p, \A x \in S \ {e} : key2[x] = key[x], Ascending(s, key)
  PROVE  Ascending(InsertAt(s, i, e), key2)
<1>1. /\ i \in 1 .. Len(s) + 1 /\ \A j \in 1 .. i - 1 : key[s[j]] <= p
      /\ i <= Len(s) => p < key[s[i]]
  BY DEF StrictInsertPoints
<1>2. ASSUME i <= Len(s) PROVE key[s[i]] \in Int
  <2>1. Len(s) \in Nat /\ i \in 1 .. Len(s)
    BY <1>1, <1>2, LenProperties
  <2>2. QED BY <2>1, ElementOfSeq
<1>3. i <= Len(s) => p <= key[s[i]]
  BY <1>1, <1>2
<1>4. Fits(s, key, p, i)
  BY <1>1, <1>3 DEF Fits
<1>5. QED BY <1>4, OrderedInsertLemma

(* ... and so does list_insert_ordered with thread_priority_cmp.           *)
LEMMA InsertLemma ==
  ASSUME NEW S, NEW s \in Seq(S), NEW e \in S, e \notin ToSet(s),
         NEW key \in [S -> Int], NEW p \in Int, NEW i \in InsertPoints(s, key, p),
         NEW key2, key2[e] = p, \A x \in S \ {e} : key2[x] = key[x], Ascending(s, key)
  PROVE  Ascending(InsertAt(s, i, e), key2)
<1>1. /\ i \in 1 .. Len(s) + 1 /\ \A j \in 1 .. i - 1 : key[s[j]] < p
      /\ i <= Len(s) => p <= key[s[i]]
  BY DEF InsertPoints
<1>2. ASSUME NEW j \in 1 .. i - 1 PROVE key[s[j]] <= p
  <2>1. Len(s) \in Nat /\ j \in 1 .. Len(s)
    BY <1>1, <1>2, LenProperties
  <2>2. key[s[j]] \in Int
    BY <2>1, ElementOfSeq
  <2>3. key[s[j]] < p
    BY <1>1, <1>2
  <2>4. QED BY <2>2, <2>3
<1>3. Fits(s, key, p, i)
  BY <1>1, <1>2 DEF Fits
<1>4. QED BY <1>3, OrderedInsertLemma

(* list_remove keeps the order, whatever becomes of the key of the element *)
(* that is removed.                                                        *)
LEMMA RemoveAscends ==
  ASSUME NEW S, NEW s \in Seq(S), NEW i \in 1 .. Len(s), NEW key, NEW key2,
         Ascending(s, key), \A x \in S \ {s[i]} : key2[x] = key[x]
  PROVE  Ascending(RemoveAt(s, i), key2) /\ s[i] \notin ToSet(RemoveAt(s, i))
<1>1. PICK r \in Seq(S) :
           /\ r = RemoveAt(s, i) /\ Len(r) = Len(s) - 1
           /\ \A j \in 1 .. i - 1 : r[j] = s[j]
           /\ \A j \in i .. Len(s) - 1 : r[j] = s[j + 1]
  BY RemoveAtElements
<1>2. /\ DOMAIN r = 1 .. Len(s) - 1 /\ DOMAIN s = 1 .. Len(s) /\ Len(s) \in Nat
      /\ \A j \in 1 .. Len(s) : s[j] \in S
  BY <1>1, LenProperties, ElementOfSeq
<1>3. \A j, k \in 1 .. Len(s) : j < k => s[j] # s[k] /\ key[s[j]] <= key[s[k]]
  BY <1>2 DEF Ascending
<1> DEFINE at(j) == IF j < i THEN j ELSE j + 1
<1>4. ASSUME NEW j \in 1 .. Len(s) - 1
      PROVE  at(j) \in 1 .. Len(s) /\ at(j) # i /\ r[j] = s[at(j)]
  BY <1>1, <1>2
<1>5. ASSUME NEW j \in 1 .. Len(s) - 1, NEW k \in 1 .. Len(s) - 1, j < k
      PROVE  at(j) < at(k)
  BY <1>2, <1>5
<1> HIDE DEF at
<1>6. ASSUME NEW j \in 1 .. Len(s) - 1 PROVE r[j] # s[i] /\ key2[r[j]] = key[r[j]]
  <2>1. at(j) < i \/ i < at(j)
    BY <1>2, <1>4
  <2>2. s[at(j)] # s[i]
    BY <1>3, <1>4, <2>1
  <2>3. QED BY <1>2, <1>4, <2>2
<1>7. Ascending(r, key2)
  BY <1>2, <1>3, <1>4, <1>5, <1>6 DEF Ascending
<1>8. QED BY <1>1, <1>2, <1>6, <1>7 DEF ToSet

(* list_pop_front.                                                         *)
LEMMA TailLemma ==
  ASSUME NEW S, NEW s \in Seq(S), s # << >>, NEW key, Ascending(s, key)
  PROVE  /\ Ascending(Tail(s), key)
         /\ ToSet(Tail(s)) = ToSet(s) \ {Head(s)}
         /\ \A x \in ToSet(s) : key[Head(s)] <= key[x] \/ x = Head(s)
<1> DEFINE t == Tail(s)
<1>1. /\ Len(s) \in Nat \ {0} /\ Len(t) = Len(s) - 1
      /\ DOMAIN t = 1 .. Len(t) /\ DOMAIN s = 1 .. Len(s)
      /\ \A k \in 1 .. Len(t) : t[k] = s[k + 1]
      /\ Head(s) = s[1]
  OBVIOUS
<1> HIDE DEF t
<1>2. Ascending(t, key)
  <2>1. ASSUME NEW i \in DOMAIN t, NEW j \in DOMAIN t, i < j
        PROVE  t[i] # t[j] /\ key[t[i]] <= key[t[j]]
    <3>1. /\ i + 1 \in DOMAIN s /\ j + 1 \in DOMAIN s /\ i + 1 < j + 1
          /\ t[i] = s[i + 1] /\ t[j] = s[j + 1]
      BY <1>1, <2>1
    <3>2. QED BY <3>1 DEF Ascending
  <2>2. QED BY <2>1 DEF Ascending
<1>3. ToSet(t) = ToSet(s) \ {s[1]}
  <2>1. ASSUME NEW k \in 1 .. Len(s), s[k] # s[1] PROVE s[k] \in ToSet(t)
    <3>1. k - 1 \in 1 .. Len(t) /\ t[k - 1] = s[k]
      BY <1>1, <2>1
    <3>2. QED BY <1>1, <3>1 DEF ToSet
  <2>2. ASSUME NEW k \in 1 .. Len(t) PROVE t[k] \in ToSet(s) /\ t[k] # s[1]
    <3>1. k + 1 \in 1 .. Len(s) /\ t[k] = s[k + 1] /\ 1 \in 1 .. Len(s) /\ 1 < k + 1
      BY <1>1
    <3>2. QED BY <1>1, <3>1 DEF ToSet, Ascending
  <2>3. QED BY <1>1, <2>1, <2>2 DEF ToSet
<1>4. \A x \in ToSet(s) : key[s[1]] <= key[x] \/ x = s[1]
  <2>1. ASSUME NEW k \in 1 .. Len(s) PROVE key[s[1]] <= key[s[k]] \/ s[k] = s[1]
    <3>1. k = 1 \/ (1 < k /\ 1 \in 1 .. Len(s))
      BY <1>1
    <3>2. QED BY <1>1, <3>1 DEF Ascending
  <2>2. QED BY <1>1, <2>1 DEF ToSet
<1>5. QED BY <1>1, <1>2, <1>3, <1>4 DEF t

(* A position list_insert_ordered finds is a legal one; so is one list_max *)
(* finds, and it holds an element of the list.                             *)
LEMMA PointsLemma ==
  ASSUME NEW S, NEW s \in Seq(S), NEW key, NEW p
  PROVE  /\ InsertPoints(s, key, p) \subseteq 1 .. Len(s) + 1
         /\ StrictInsertPoints(s, key, p) \subseteq 1 .. Len(s) + 1
         /\ MaxPoints(s, key) \subseteq 1 .. Len(s)
         /\ \A t : PointsOf(s, t) \subseteq 1 .. Len(s)
BY LenProperties DEF InsertPoints, StrictInsertPoints, MaxPoints, PointsOf

-----------------------------------------------------------------------------

(* What a change of the run queue leaves alone: no page becomes free, and  *)
(* idle does not vanish from the run queue unless it is run.               *)
RunKept ==
  /\ \A u \in Threads : status'[u] = "NONE" => status[u] = "NONE"
  /\ Idle \in ToSet(ready_list) => Idle \in ToSet(ready_list') \/ current' = Idle

(* schedule finds a thread to run and leaves the run queue, the statuses   *)
(* and the time slice well-formed.                                         *)
LEMMA ScheduleLemma ==
  ASSUME NEW st \in [Threads -> Statuses], NEW ready \in Seq(Threads),
         current \in Threads, ready = << >> => idle_thread \in Threads,
         Schedule(st, ready)
  PROVE  /\ current' \in Threads
         /\ ready_list' \in Seq(Threads)
         /\ status' \in [Threads -> Statuses]
         /\ thread_ticks' \in 0 .. TIME_SLICE - 1
         /\ \A u \in Threads :
              status'[u] = "NONE" => st[u] = "NONE" \/ (u = current /\ st[u] = "DYING")
         /\ \A u \in ToSet(ready) : u \in ToSet(ready_list') \/ u = current'
<1>1. NextThreadToRun(ready) \in Threads
  BY FrontLastLemma DEF NextThreadToRun
<1>2. ready_list' \in Seq(Threads)
  BY FrontLastLemma DEF Schedule
<1>3. ASSUME NEW u \in ToSet(ready) PROVE u \in ToSet(ready_list') \/ u = current'
  <2>1. CASE ready = << >>
    BY <2>1 DEF Schedule
  <2>2. CASE ready # << >>
    BY <2>2, FrontLastLemma DEF Schedule, NextThreadToRun
  <2>3. QED BY <2>1, <2>2
<1>4. thread_ticks' \in 0 .. TIME_SLICE - 1
  BY ThreadsAssumption DEF Schedule
<1>5. status' \in [Threads -> Statuses]
  BY <1>1 DEF Schedule, Statuses
<1>6. ASSUME NEW u \in Threads, status'[u] = "NONE"
      PROVE  st[u] = "NONE" \/ (u = current /\ st[u] = "DYING")
  BY <1>1, <1>6 DEF Schedule, Statuses
<1>7. QED BY <1>1, <1>2, <1>3, <1>4, <1>5, <1>6 DEF Schedule

(* thread_block, called where there is a thread to switch to.              *)
LEMMA ThreadBlockLemma ==
  ASSUME RunTypeOK, ready_list = << >> => idle_thread \in Threads, ThreadBlock
  PROVE  RunTypeOK' /\ RunKept
<1> DEFINE st == [status EXCEPT ![current] = "BLOCKED"]
<1>1. /\ st \in [Threads -> Statuses]
      /\ \A u \in Threads :
           st[u] \in {"NONE", "DYING"} => st[u] = status[u] /\ u # current
  BY DEF RunTypeOK, Statuses
<1>2. Schedule(st, ready_list) /\ cpu_ready_count' \in Int
  BY DEF ThreadBlock, RunTypeOK
<1> HIDE DEF st
<1>3. QED BY <1>1, <1>2, ScheduleLemma DEF RunTypeOK, RunKept

(* thread_unblock puts the thread on the run queue.                        *)
LEMMA ThreadUnblockLemma ==
  ASSUME RunTypeOK, NEW t \in Threads, ThreadUnblock(t)
  PROVE  RunTypeOK' /\ RunKept /\ current' = current /\ status'[t] = "READY"
<1>1. PICK i \in InsertPoints(ready_list, priority, priority[t]) :
        ready_list' = InsertAt(ready_list, i, t)
  BY DEF ThreadUnblock
<1>2. i \in 1 .. Len(ready_list) + 1
  BY PointsLemma DEF RunTypeOK
<1>3. ready_list' \in Seq(Threads) /\ ToSet(ready_list') = ToSet(ready_list) \cup {t}
  BY <1>1, <1>2, InsertAtLemma DEF RunTypeOK
<1>4. QED BY <1>3 DEF ThreadUnblock, RunTypeOK, RunKept, Statuses

(* thread_yield puts the running thread on the run queue, or is called by  *)
(* idle, which can go on.                                                  *)
LEMMA ThreadYieldLemma ==
  ASSUME RunTypeOK, idle_thread \in {NULL, Idle}, ThreadYield
  PROVE  /\ RunTypeOK' /\ RunKept
         /\ idle_thread = NULL => current \in ToSet(ready_list') \/ current' = current
<1> DEFINE st == [status EXCEPT ![current] = "READY"]
<1>1. /\ st \in [Threads -> Statuses]
      /\ \A u \in Threads :
           st[u] \in {"NONE", "DYING"} => st[u] = status[u] /\ u # current
  BY DEF RunTypeOK, Statuses
<1>2. CASE current # idle_thread
  <2>1. PICK i \in InsertPoints(ready_list, priority, priority[current]) :
          Schedule(st, InsertAt(ready_list, i, current))
    BY <1>2 DEF ThreadYield
  <2> DEFINE ready == InsertAt(ready_list, i, current)
  <2>2. i \in 1 .. Len(ready_list) + 1
    BY PointsLemma DEF RunTypeOK
  <2>3. /\ ready \in Seq(Threads) /\ Len(ready) = Len(ready_list) + 1
        /\ ToSet(ready) = ToSet(ready_list) \cup {current}
    BY <2>2, InsertAtLemma DEF RunTypeOK
  <2>4. ready # << >>
    <3>1. Len(ready_list) \in Nat
      BY LenProperties DEF RunTypeOK
    <3>2. QED BY <2>3, <3>1, EmptySeq
  <2> HIDE DEF ready, st
  <2>5. Schedule(st, ready) /\ cpu_ready_count' \in Int
    BY <2>1 DEF ThreadYield, RunTypeOK, ready
  <2>6. QED BY <1>1, <2>3, <2>4, <2>5, ScheduleLemma DEF RunTypeOK, RunKept
<1>3. CASE current = idle_thread
  <2>1. Schedule(st, ready_list) /\ cpu_ready_count' \in Int
    BY <1>3 DEF ThreadYield, RunTypeOK
  <2>2. idle_thread # NULL
    BY <1>3, ThreadsAssumption DEF RunTypeOK
  <2> HIDE DEF st
  <2>3. QED BY <1>1, <1>3, <2>1, <2>2, ScheduleLemma DEF RunTypeOK, RunKept
<1>4. QED BY <1>2, <1>3

(* thread_exit frees at most the page of the running thread.               *)
LEMMA ThreadExitLemma ==
  ASSUME RunTypeOK, ready_list = << >> => idle_thread \in Threads, ThreadExit
  PROVE  /\ RunTypeOK'
         /\ \A u \in Threads : status'[u] = "NONE" => status[u] = "NONE" \/ u = current
         /\ Idle \in ToSet(ready_list) => Idle \in ToSet(ready_list') \/ current' = Idle
<1> DEFINE st == [status EXCEPT ![current] = "DYING"]
<1>1. st \in [Threads -> Statuses] /\ \A u \in Threads : st[u] = "NONE" => status[u] = "NONE"
  BY DEF RunTypeOK, Statuses
<1>2. Schedule(st, ready_list) /\ cpu_ready_count' \in Int
  BY DEF ThreadExit, RunTypeOK
<1> HIDE DEF st
<1>3. QED BY <1>1, <1>2, ScheduleLemma DEF RunTypeOK

(* sema_up wakes at most one waiter, before it adds one to the value.      *)
LEMMA SemaUpBodyLemma ==
  ASSUME RunTypeOK, SyncTypeOK, NEW s \in Semas, SemaUpBody(s)
  PROVE  /\ RunTypeOK' /\ RunKept /\ current' = current
         /\ value' = [value EXCEPT ![s] = value[s] + 1]
         /\ waiters' \in [Semas -> Seq(Threads)]
<1>1. value' = [value EXCEPT ![s] = value[s] + 1]
  BY DEF SemaUpBody
<1>2. CASE UNCHANGED << runVars, waiters >>
  BY <1>1, <1>2 DEF RunTypeOK, SyncTypeOK, RunKept, runVars
<1>3. ASSUME NEW i \in MaxPoints(waiters[s], priority),
             waiters' = [waiters EXCEPT ![s] = RemoveAt(@, i)],
             ThreadUnblock(waiters[s][i])
      PROVE  /\ RunTypeOK' /\ RunKept /\ current' = current
             /\ waiters' \in [Semas -> Seq(Threads)]
  <2>1. waiters[s] \in Seq(Threads)
    BY DEF SyncTypeOK
  <2>2. i \in 1 .. Len(waiters[s])
    BY <2>1, PointsLemma
  <2>3. waiters[s][i] \in Threads /\ RemoveAt(waiters[s], i) \in Seq(Threads)
    BY <2>1, <2>2, RemoveAtLemma, ElementOfSeq
  <2>4. QED BY <1>3, <2>3, ThreadUnblockLemma DEF SyncTypeOK
<1>4. QED BY <1>1, <1>2, <1>3 DEF SemaUpBody

-----------------------------------------------------------------------------
(* The type invariant.                                                     *)

LEMMA TypeInvInit == Init => TypeInv
<1> SUFFICES ASSUME Init PROVE TypeInv
  OBVIOUS
<1> USE ThreadsAssumption, SynchAssumption DEF Init
<1>1. RunTypeOK
  BY DEF RunTypeOK, Statuses
<1>2. PrioTypeOK
  BY DEF PrioTypeOK, Prio
<1>3. SyncTypeOK
  BY DEF SyncTypeOK, Semas
<1>4. CallTypeOK
  <2>1. pc \in [Threads -> Labels]
    BY DEF Labels
  <2>2. QED BY <2>1 DEF CallTypeOK
<1>5. IntrTypeOK
  <2>1. in_intr \in BOOLEAN /\ yield_on_return \in BOOLEAN
    BY Zenon
  <2>2. sleeping_threads \in Seq(Threads) /\ remaining \in [Threads -> Nat]
    OBVIOUS
  <2>3. QED BY <2>1, <2>2 DEF IntrTypeOK
<1>6. CallsWellFormed /\ IdleReady /\ NewbornsDormant
  BY DEF CallsWellFormed, IdleReady, NewbornsDormant
<1>7. QED BY <1>1, <1>2, <1>3, <1>4, <1>5, <1>6 DEF TypeInv, TypeOK

(* What calculateDonatedPriority returns is a priority.                    *)
LEMMA MaximaLemma ==
  ASSUME TypeInv, NEW t \in Threads, NEW base \in Prio,
         NEW m \in Maxima(DonatedPriorities(t, base))
  PROVE  m \in Prio /\ base <= m
<1>1. m \in DonatedPriorities(t, base) /\ base \in DonatedPriorities(t, base)
  BY DEF Maxima, DonatedPriorities
<1>2. base <= m
  BY <1>1 DEF Maxima
<1>3. ASSUME NEW l \in Locks, NEW i \in DOMAIN waiters[l]
      PROVE  priority[waiters[l][i]] \in Prio
  <2>1. waiters[l] \in Seq(Threads)
    BY DEF TypeInv, TypeOK, SyncTypeOK, Semas
  <2>2. waiters[l][i] \in Threads
    BY <2>1, LenProperties, ElementOfSeq
  <2>3. QED BY <2>2 DEF TypeInv, TypeOK, PrioTypeOK
<1>4. m \in Prio
  BY <1>1, <1>3 DEF DonatedPriorities, OwnedLocks
<1>5. QED BY <1>2, <1>4

(* A step of the running thread, neither booting nor idle before it has    *)
(* started, that may switch to another thread.                             *)
LEMMA RunningMovesLemma ==
  ASSUME TypeInv, RunTypeOK', RunKept, UNCHANGED << idle_thread, child >>,
         NEW label \in Labels \ {"idle_start"}, pc' = [pc EXCEPT ![current] = label],
         pc[current] \notin {"none", "boot", "idle_start"}, ~in_intr'
  PROVE  IdleReady' /\ NewbornsDormant'
<1>1. IdleReady'
  BY ThreadsAssumption DEF TypeInv, TypeOK, RunTypeOK, CallTypeOK, IdleReady, RunKept
<1>2. NewbornsDormant'
  BY DEF TypeInv, TypeOK, RunTypeOK, CallTypeOK, NewbornsDormant, RunKept
<1>3. QED BY <1>1, <1>2

(* The same without a switch.                                              *)
LEMMA QuietLemma ==
  ASSUME TypeInv, UNCHANGED << runVars, idle_thread, child >>,
         NEW label \in Labels \ {"idle_start"}, pc' = [pc EXCEPT ![current] = label],
         pc[current] \notin {"none", "boot", "idle_start"}, ~in_intr'
  PROVE  RunTypeOK' /\ IdleReady' /\ NewbornsDormant'
<1>1. RunTypeOK' /\ RunKept
  BY DEF TypeInv, TypeOK, RunTypeOK, RunKept, runVars
<1>2. QED BY <1>1, RunningMovesLemma

(* Where interrupts let a thread block or exit there is a thread to switch *)
(* to: idle is ready or has set idle_thread.                               *)
LEMMA SwitchLemma ==
  ASSUME TypeInv, pc[current] \notin {"boot", "idle_start"}, ready_list = << >>
  PROVE  idle_thread \in Threads
<1>1. ToSet(ready_list) = {}
  BY DEF ToSet
<1>2. QED BY <1>1, ThreadsAssumption DEF TypeInv, TypeOK, IntrTypeOK, IdleReady

(* Every step keeps the type invariant.                                    *)
LEMMA TypeInvStep ==
  ASSUME TypeInv, [Next]_vars PROVE TypeInv'
<1> USE ThreadsAssumption, SynchAssumption
<1> DEFINE Others == PrioTypeOK /\ SyncTypeOK /\ CallTypeOK /\ IntrTypeOK /\ CallsWellFormed
<1>0. SUFFICES RunTypeOK' /\ IdleReady' /\ NewbornsDormant' /\ Others'
  BY DEF TypeInv, TypeOK
<1>1. ASSUME NEW s \in Semaphores, SemaDown(s), UNCHANGED timerVars
      PROVE  RunTypeOK' /\ IdleReady' /\ NewbornsDormant' /\ Others'
  <2>1. Others'
    BY <1>1 DEF TypeInv, TypeOK, RunTypeOK, PrioTypeOK, SyncTypeOK, CallTypeOK,
           IntrTypeOK, CallsWellFormed, Labels, Semas, SemaDown, Call, At,
           Goto, runVars, prioVars, intrVars, semaVars, lockVars, callVars,
           timerVars
  <2>2. RunTypeOK' /\ IdleReady' /\ NewbornsDormant'
    BY <1>1, QuietLemma DEF SemaDown, Call, At, Goto, Labels, runVars,
           prioVars, intrVars, semaVars, lockVars, callVars, timerVars
  <2>3. QED BY <2>1, <2>2
<1>2. ASSUME NEW s \in Semaphores, SemaUp(s), UNCHANGED timerVars
      PROVE  RunTypeOK' /\ IdleReady' /\ NewbornsDormant' /\ Others'
  <2>1. Others'
    BY <1>2 DEF TypeInv, TypeOK, RunTypeOK, PrioTypeOK, SyncTypeOK, CallTypeOK,
           IntrTypeOK, CallsWellFormed, Labels, Semas, SemaUp, Call, At,
           Goto, runVars, prioVars, intrVars, semaVars, lockVars, callVars,
           timerVars
  <2>2. RunTypeOK' /\ IdleReady' /\ NewbornsDormant'
    BY <1>2, QuietLemma DEF SemaUp, Call, At, Goto, Labels, runVars, prioVars,
           intrVars, semaVars, lockVars, callVars, timerVars
  <2>3. QED BY <2>1, <2>2
<1>3. ASSUME NEW l \in Locks, LockAcquire(l), UNCHANGED timerVars
      PROVE  RunTypeOK' /\ IdleReady' /\ NewbornsDormant' /\ Others'
  <2>1. Others'
    BY <1>3 DEF TypeInv, TypeOK, RunTypeOK, PrioTypeOK, SyncTypeOK, CallTypeOK,
           IntrTypeOK, CallsWellFormed, Labels, Semas, LockAcquire,
           LockAcquireHead, Call, At, Goto, runVars, prioVars, intrVars,
           semaVars, lockVars, callVars, timerVars
  <2>2. RunTypeOK' /\ IdleReady' /\ NewbornsDormant'
    BY <1>3, QuietLemma DEF LockAcquire, LockAcquireHead, Call, At, Goto,
           Labels, runVars, prioVars, intrVars, semaVars, lockVars,
           callVars, timerVars
  <2>3. QED BY <2>1, <2>2
<1>4. ASSUME NEW l \in Locks, LockTryAcquire(l), UNCHANGED timerVars
      PROVE  RunTypeOK' /\ IdleReady' /\ NewbornsDormant' /\ Others'
  <2>1. Others'
    <3>1. PrioTypeOK'
      BY <1>4 DEF TypeInv, TypeOK, RunTypeOK, LockTryAcquire, Call, At, Goto,
             PrioTypeOK, runVars, prioVars, intrVars, semaVars, lockVars,
             callVars, timerVars
    <3>2. SyncTypeOK'
      <4>1. /\ l \in Semas /\ value[l] > 0 /\ value' = [value EXCEPT ![l] = value[l] - 1]
            /\ UNCHANGED << waiters, holder, waitingFor >>
        BY <1>4 DEF LockTryAcquire, lockVars, Semas
      <4>2. SyncTypeOK
        BY DEF TypeInv, TypeOK
      <4>3. QED BY <4>1, <4>2 DEF SyncTypeOK
    <3>3. CallTypeOK'
      BY <1>4 DEF TypeInv, TypeOK, RunTypeOK, LockTryAcquire, Call, At, Goto,
             CallTypeOK, Labels, Semas, runVars, prioVars, intrVars,
             semaVars, lockVars, callVars, timerVars
    <3>4. IntrTypeOK'
      BY <1>4 DEF TypeInv, TypeOK, RunTypeOK, LockTryAcquire, Call, At, Goto,
             IntrTypeOK, runVars, prioVars, intrVars, semaVars, lockVars,
             callVars, timerVars
    <3>5. CallsWellFormed'
      BY <1>4 DEF TypeInv, TypeOK, RunTypeOK, LockTryAcquire, Call, At, Goto,
             CallTypeOK, CallsWellFormed, Semas, runVars, prioVars,
             intrVars, semaVars, lockVars, callVars, timerVars
    <3>6. QED BY <3>1, <3>2, <3>3, <3>4, <3>5
  <2>2. RunTypeOK' /\ IdleReady' /\ NewbornsDormant'
    BY <1>4, QuietLemma DEF LockTryAcquire, Call, At, Goto, Labels, runVars,
           prioVars, intrVars, semaVars, lockVars, callVars, timerVars
  <2>3. QED BY <2>1, <2>2
<1>5. ASSUME NEW l \in Locks, LockRelease(l), UNCHANGED timerVars
      PROVE  RunTypeOK' /\ IdleReady' /\ NewbornsDormant' /\ Others'
  <2>1. Others'
    <3>1. PrioTypeOK' /\ IntrTypeOK'
      BY <1>5 DEF TypeInv, TypeOK, PrioTypeOK, IntrTypeOK, LockRelease,
             LockReleaseHead, prioVars, intrVars, timerVars
    <3>2. SyncTypeOK'
      BY <1>5 DEF TypeInv, TypeOK, SyncTypeOK, LockRelease, LockReleaseHead, semaVars
    <3>3. CallTypeOK'
      BY <1>5 DEF TypeInv, TypeOK, RunTypeOK, CallTypeOK, Labels, Semas, LockRelease,
             LockReleaseHead, Call, Goto
    <3>4. CallsWellFormed'
      BY <1>5 DEF TypeInv, TypeOK, RunTypeOK, CallTypeOK, CallsWellFormed, Semas,
             LockRelease, LockReleaseHead, Call, Goto
    <3>5. QED BY <3>1, <3>2, <3>3, <3>4
  <2>2. RunTypeOK' /\ IdleReady' /\ NewbornsDormant'
    BY <1>5, QuietLemma DEF LockRelease, LockReleaseHead, Call, At, Goto,
           Labels, runVars, prioVars, intrVars, semaVars, lockVars,
           callVars, timerVars
  <2>3. QED BY <2>1, <2>2
<1>6. ASSUME NEW p \in Prio, SetPriority(p), UNCHANGED timerVars
      PROVE  RunTypeOK' /\ IdleReady' /\ NewbornsDormant' /\ Others'
  <2>1. Others'
    <3>1. PrioTypeOK'
      BY <1>6, MaximaLemma DEF TypeInv, TypeOK, RunTypeOK, SetPriority, At,
             Goto, PrioTypeOK, runVars, prioVars, intrVars, semaVars,
             lockVars, callVars, timerVars
    <3>2. SyncTypeOK'
      BY <1>6 DEF TypeInv, TypeOK, RunTypeOK, SetPriority, At, Goto,
             SyncTypeOK, CallTypeOK, runVars, prioVars, intrVars, semaVars,
             lockVars, callVars, timerVars
    <3>3. CallTypeOK'
      BY <1>6 DEF TypeInv, TypeOK, RunTypeOK, SetPriority, At, Goto,
             CallTypeOK, Labels, Semas, runVars, prioVars, intrVars,
             semaVars, lockVars, callVars, timerVars
    <3>4. IntrTypeOK'
      BY <1>6 DEF TypeInv, TypeOK, RunTypeOK, SetPriority, At, Goto,
             IntrTypeOK, runVars, prioVars, intrVars, semaVars, lockVars,
             callVars, timerVars
    <3>5. CallsWellFormed'
      BY <1>6 DEF TypeInv, TypeOK, RunTypeOK, SetPriority, At, Goto,
             CallTypeOK, CallsWellFormed, Semas, runVars, prioVars,
             intrVars, semaVars, lockVars, callVars, timerVars
    <3>6. QED BY <3>1, <3>2, <3>3, <3>4, <3>5
  <2>2. RunTypeOK' /\ IdleReady' /\ NewbornsDormant'
    BY <1>6, QuietLemma DEF SetPriority, At, Goto, Labels, runVars, prioVars,
           intrVars, semaVars, lockVars, callVars, timerVars
  <2>3. QED BY <2>1, <2>2
<1>7. ASSUME Recalculate, UNCHANGED timerVars
      PROVE  RunTypeOK' /\ IdleReady' /\ NewbornsDormant' /\ Others'
  <2>1. Others'
    <3>1. PrioTypeOK'
      BY <1>7, MaximaLemma DEF TypeInv, TypeOK, RunTypeOK, Recalculate, At,
             Goto, PrioTypeOK, runVars, prioVars, intrVars, semaVars,
             lockVars, callVars, timerVars
    <3>2. SyncTypeOK'
      BY <1>7 DEF TypeInv, TypeOK, RunTypeOK, Recalculate, At, Goto,
             SyncTypeOK, CallTypeOK, runVars, prioVars, intrVars, semaVars,
             lockVars, callVars, timerVars
    <3>3. CallTypeOK'
      BY <1>7 DEF TypeInv, TypeOK, RunTypeOK, Recalculate, At, Goto,
             CallTypeOK, Labels, Semas, runVars, prioVars, intrVars,
             semaVars, lockVars, callVars, timerVars
    <3>4. IntrTypeOK'
      BY <1>7 DEF TypeInv, TypeOK, RunTypeOK, Recalculate, At, Goto,
             IntrTypeOK, runVars, prioVars, intrVars, semaVars, lockVars,
             callVars, timerVars
    <3>5. CallsWellFormed'
      BY <1>7 DEF TypeInv, TypeOK, RunTypeOK, Recalculate, At, Goto,
             CallTypeOK, CallsWellFormed, Semas, runVars, prioVars,
             intrVars, semaVars, lockVars, callVars, timerVars
    <3>6. QED BY <3>1, <3>2, <3>3, <3>4, <3>5
  <2>2. RunTypeOK' /\ IdleReady' /\ NewbornsDormant'
    BY <1>7, QuietLemma DEF Recalculate, At, Goto, Labels, runVars, prioVars,
           intrVars, semaVars, lockVars, callVars, timerVars
  <2>3. QED BY <2>1, <2>2
<1>8. ASSUME AssignPriority, UNCHANGED timerVars
      PROVE  RunTypeOK' /\ IdleReady' /\ NewbornsDormant' /\ Others'
  <2>1. Others'
    <3>1. PrioTypeOK'
      BY <1>8, ThreadsAssumption DEF TypeInv, TypeOK, RunTypeOK,
             AssignPriority, At, Goto, PrioTypeOK, Prio, runVars, prioVars,
             intrVars, semaVars, lockVars, callVars, timerVars
    <3>2. SyncTypeOK'
      BY <1>8 DEF TypeInv, TypeOK, RunTypeOK, AssignPriority, At, Goto,
             SyncTypeOK, CallTypeOK, runVars, prioVars, intrVars, semaVars,
             lockVars, callVars, timerVars
    <3>3. CallTypeOK'
      BY <1>8 DEF TypeInv, TypeOK, RunTypeOK, AssignPriority, At, Goto,
             CallTypeOK, Labels, Semas, runVars, prioVars, intrVars,
             semaVars, lockVars, callVars, timerVars
    <3>4. IntrTypeOK'
      BY <1>8 DEF TypeInv, TypeOK, RunTypeOK, AssignPriority, At, Goto,
             IntrTypeOK, runVars, prioVars, intrVars, semaVars, lockVars,
             callVars, timerVars
    <3>5. CallsWellFormed'
      BY <1>8 DEF TypeInv, TypeOK, RunTypeOK, AssignPriority, At, Goto,
             CallTypeOK, CallsWellFormed, Semas, runVars, prioVars,
             intrVars, semaVars, lockVars, callVars, timerVars
    <3>6. QED BY <3>1, <3>2, <3>3, <3>4, <3>5
  <2>2. RunTypeOK' /\ IdleReady' /\ NewbornsDormant'
    BY <1>8, QuietLemma DEF AssignPriority, At, Goto, Labels, runVars,
           prioVars, intrVars, semaVars, lockVars, callVars, timerVars
  <2>3. QED BY <2>1, <2>2
<1>9. ASSUME TryHold, UNCHANGED timerVars
      PROVE  RunTypeOK' /\ IdleReady' /\ NewbornsDormant' /\ Others'
  <2>1. Others'
    BY <1>9 DEF TypeInv, TypeOK, RunTypeOK, PrioTypeOK, SyncTypeOK, CallTypeOK,
           IntrTypeOK, CallsWellFormed, Labels, Semas, TryHold, At, Goto,
           runVars, prioVars, intrVars, semaVars, lockVars, callVars,
           timerVars
  <2>2. RunTypeOK' /\ IdleReady' /\ NewbornsDormant'
    BY <1>9, QuietLemma DEF TryHold, At, Goto, Labels, runVars, prioVars,
           intrVars, semaVars, lockVars, callVars, timerVars
  <2>3. QED BY <2>1, <2>2
<1>10. ASSUME CreateRelease, UNCHANGED timerVars
      PROVE  RunTypeOK' /\ IdleReady' /\ NewbornsDormant' /\ Others'
  <2>1. Others'
    BY <1>10 DEF TypeInv, TypeOK, RunTypeOK, PrioTypeOK, SyncTypeOK, CallTypeOK,
           IntrTypeOK, CallsWellFormed, Labels, Semas, CreateRelease,
           LockReleaseHead, Call, At, Goto, runVars, prioVars, intrVars,
           semaVars, lockVars, callVars, timerVars
  <2>2. RunTypeOK' /\ IdleReady' /\ NewbornsDormant'
    BY <1>10, QuietLemma DEF CreateRelease, LockReleaseHead, Call, At, Goto,
           Labels, runVars, prioVars, intrVars, semaVars, lockVars,
           callVars, timerVars
  <2>3. QED BY <2>1, <2>2
<1>11. ASSUME YieldIfNecessary, UNCHANGED timerVars
      PROVE  RunTypeOK' /\ IdleReady' /\ NewbornsDormant' /\ Others'
  <2>1. Others'
    <3>1. PrioTypeOK'
      BY <1>11 DEF TypeInv, TypeOK, RunTypeOK, YieldIfNecessary, At, Goto,
             PrioTypeOK, runVars, prioVars, intrVars, semaVars, lockVars,
             callVars, timerVars
    <3>2. SyncTypeOK'
      BY <1>11 DEF TypeInv, TypeOK, RunTypeOK, YieldIfNecessary, At, Goto,
             SyncTypeOK, CallTypeOK, runVars, prioVars, intrVars, semaVars,
             lockVars, callVars, timerVars
    <3>3. CallTypeOK'
      BY <1>11 DEF TypeInv, TypeOK, RunTypeOK, YieldIfNecessary, At, Goto,
             CallTypeOK, Labels, Semas, AfterYield, runVars, prioVars,
             intrVars, semaVars, lockVars, callVars, timerVars
    <3>4. IntrTypeOK'
      BY <1>11 DEF TypeInv, TypeOK, RunTypeOK, YieldIfNecessary, At, Goto,
             IntrTypeOK, runVars, prioVars, intrVars, semaVars, lockVars,
             callVars, timerVars
    <3>5. CallsWellFormed'
      BY <1>11 DEF TypeInv, TypeOK, RunTypeOK, YieldIfNecessary, At, Goto,
             CallTypeOK, CallsWellFormed, Semas, AfterYield, runVars,
             prioVars, intrVars, semaVars, lockVars, callVars, timerVars
    <3>6. QED BY <3>1, <3>2, <3>3, <3>4, <3>5
  <2>2. PICK label \in Labels \ {"idle_start"} : pc' = [pc EXCEPT ![current] = label]
    BY <1>11 DEF TypeInv, TypeOK, RunTypeOK, CallTypeOK, Labels,
           YieldIfNecessary, AfterYield, Goto
  <2>3. RunTypeOK' /\ IdleReady' /\ NewbornsDormant'
    BY <1>11, <2>2, QuietLemma DEF YieldIfNecessary, At, runVars, prioVars,
           intrVars, semaVars, lockVars, callVars, timerVars
  <2>4. QED BY <2>1, <2>3
<1>12. ASSUME WaitForIdle
      PROVE  RunTypeOK' /\ IdleReady' /\ NewbornsDormant' /\ Others'
  <2>1. Others'
    BY <1>12 DEF TypeInv, TypeOK, RunTypeOK, PrioTypeOK, SyncTypeOK, CallTypeOK,
           IntrTypeOK, CallsWellFormed, Labels, Semas, WaitForIdle, Call,
           At, Goto, runVars, prioVars, intrVars, semaVars, lockVars,
           callVars, timerVars
  <2>2. RunTypeOK' /\ IdleReady' /\ NewbornsDormant'
    BY <1>12, QuietLemma DEF WaitForIdle, Call, At, Goto, Labels, runVars,
           prioVars, intrVars, semaVars, lockVars, callVars, timerVars
  <2>3. QED BY <2>1, <2>2
<1>13. ASSUME NEW s \in Semaphores, SemaTryDown(s), UNCHANGED timerVars
      PROVE  RunTypeOK' /\ IdleReady' /\ NewbornsDormant' /\ Others'
  <2>1. Others'
    <3>1. PrioTypeOK'
      BY <1>13 DEF TypeInv, TypeOK, RunTypeOK, SemaTryDown, At, Goto,
             PrioTypeOK, runVars, prioVars, intrVars, semaVars, lockVars,
             callVars, timerVars
    <3>2. SyncTypeOK'
      BY <1>13 DEF TypeInv, TypeOK, RunTypeOK, SemaTryDown, At, Goto,
             SyncTypeOK, CallTypeOK, Semas, runVars, prioVars, intrVars,
             semaVars, lockVars, callVars, timerVars
    <3>3. CallTypeOK'
      BY <1>13 DEF TypeInv, TypeOK, RunTypeOK, SemaTryDown, At, Goto,
             CallTypeOK, Labels, Semas, runVars, prioVars, intrVars,
             semaVars, lockVars, callVars, timerVars
    <3>4. IntrTypeOK'
      BY <1>13 DEF TypeInv, TypeOK, RunTypeOK, SemaTryDown, At, Goto,
             IntrTypeOK, runVars, prioVars, intrVars, semaVars, lockVars,
             callVars, timerVars
    <3>5. CallsWellFormed'
      BY <1>13 DEF TypeInv, TypeOK, RunTypeOK, SemaTryDown, At, Goto,
             CallTypeOK, CallsWellFormed, Semas, runVars, prioVars,
             intrVars, semaVars, lockVars, callVars, timerVars
    <3>6. QED BY <3>1, <3>2, <3>3, <3>4, <3>5
  <2>2. pc' = [pc EXCEPT ![current] = "run"]
    BY <1>13 DEF TypeInv, TypeOK, CallTypeOK, RunTypeOK, SemaTryDown, At
  <2>3. RunTypeOK' /\ IdleReady' /\ NewbornsDormant'
    BY <1>13, <2>2, QuietLemma DEF SemaTryDown, At, Labels, callVars, runVars,
           prioVars, intrVars, semaVars, lockVars, callVars, timerVars
  <2>4. QED BY <2>1, <2>3
<1>14. ASSUME Yield, UNCHANGED timerVars
      PROVE  RunTypeOK' /\ IdleReady' /\ NewbornsDormant' /\ Others'
  <2>1. Others'
    <3>1. PrioTypeOK'
      BY <1>14 DEF TypeInv, TypeOK, RunTypeOK, Yield, At, Goto, PrioTypeOK,
             runVars, prioVars, intrVars, semaVars, lockVars, callVars,
             timerVars
    <3>2. SyncTypeOK'
      BY <1>14 DEF TypeInv, TypeOK, RunTypeOK, Yield, At, Goto, SyncTypeOK,
             CallTypeOK, runVars, prioVars, intrVars, semaVars, lockVars,
             callVars, timerVars
    <3>3. CallTypeOK'
      BY <1>14 DEF TypeInv, TypeOK, RunTypeOK, Yield, At, Goto, CallTypeOK,
             Labels, Semas, runVars, prioVars, intrVars, semaVars, lockVars,
             callVars, timerVars
    <3>4. IntrTypeOK'
      BY <1>14 DEF TypeInv, TypeOK, RunTypeOK, Yield, At, Goto, IntrTypeOK,
             runVars, prioVars, intrVars, semaVars, lockVars, callVars,
             timerVars
    <3>5. CallsWellFormed'
      BY <1>14 DEF TypeInv, TypeOK, RunTypeOK, Yield, At, Goto, CallTypeOK,
             CallsWellFormed, Semas, runVars, prioVars, intrVars, semaVars,
             lockVars, callVars, timerVars
    <3>6. QED BY <3>1, <3>2, <3>3, <3>4, <3>5
  <2>2. RunTypeOK' /\ RunKept
    BY <1>14, ThreadYieldLemma DEF Yield, At, TypeInv, TypeOK, IntrTypeOK
  <2>3. pc' = [pc EXCEPT ![current] = "run"]
    BY <1>14 DEF Yield, At, Goto, TypeInv, TypeOK, CallTypeOK, RunTypeOK
  <2>4. IdleReady' /\ NewbornsDormant'
    BY <1>14, <2>2, <2>3, RunningMovesLemma DEF Yield, At, Labels, runVars,
           prioVars, intrVars, semaVars, lockVars, callVars, timerVars
  <2>5. QED BY <2>1, <2>2, <2>4
<1>15. ASSUME IdleBlock
      PROVE  RunTypeOK' /\ IdleReady' /\ NewbornsDormant' /\ Others'
  <2>1. Others'
    <3>1. PrioTypeOK'
      BY <1>15 DEF TypeInv, TypeOK, RunTypeOK, IdleBlock, At, Goto, PrioTypeOK,
             runVars, prioVars, intrVars, semaVars, lockVars, callVars,
             timerVars
    <3>2. SyncTypeOK'
      BY <1>15 DEF TypeInv, TypeOK, RunTypeOK, IdleBlock, At, Goto, SyncTypeOK,
             CallTypeOK, runVars, prioVars, intrVars, semaVars, lockVars,
             callVars, timerVars
    <3>3. CallTypeOK'
      BY <1>15 DEF TypeInv, TypeOK, RunTypeOK, IdleBlock, At, Goto, CallTypeOK,
             Labels, Semas, runVars, prioVars, intrVars, semaVars, lockVars,
             callVars, timerVars
    <3>4. IntrTypeOK'
      BY <1>15 DEF TypeInv, TypeOK, RunTypeOK, IdleBlock, At, Goto, IntrTypeOK,
             runVars, prioVars, intrVars, semaVars, lockVars, callVars,
             timerVars
    <3>5. CallsWellFormed'
      BY <1>15 DEF TypeInv, TypeOK, RunTypeOK, IdleBlock, At, Goto, CallTypeOK,
             CallsWellFormed, Semas, runVars, prioVars, intrVars, semaVars,
             lockVars, callVars, timerVars
    <3>6. QED BY <3>1, <3>2, <3>3, <3>4, <3>5
  <2>2. RunTypeOK' /\ RunKept
    BY <1>15, ThreadBlockLemma, SwitchLemma DEF IdleBlock, At, TypeInv, TypeOK,
           IntrTypeOK
  <2>3. pc' = [pc EXCEPT ![current] = "hlt"]
    BY <1>15 DEF IdleBlock, At, Goto, TypeInv, TypeOK, CallTypeOK, RunTypeOK
  <2>4. IdleReady' /\ NewbornsDormant'
    BY <1>15, <2>2, <2>3, RunningMovesLemma DEF IdleBlock, At, Labels, runVars,
           prioVars, intrVars, semaVars, lockVars, callVars, timerVars
  <2>5. QED BY <2>1, <2>2, <2>4
<1>16. ASSUME YieldNow, UNCHANGED timerVars
      PROVE  RunTypeOK' /\ IdleReady' /\ NewbornsDormant' /\ Others'
  <2>1. Others'
    <3>1. PrioTypeOK'
      BY <1>16 DEF TypeInv, TypeOK, RunTypeOK, YieldNow, At, Goto, PrioTypeOK,
             runVars, prioVars, intrVars, semaVars, lockVars, callVars,
             timerVars
    <3>2. SyncTypeOK'
      BY <1>16 DEF TypeInv, TypeOK, RunTypeOK, YieldNow, At, Goto, SyncTypeOK,
             CallTypeOK, runVars, prioVars, intrVars, semaVars, lockVars,
             callVars, timerVars
    <3>3. CallTypeOK'
      BY <1>16 DEF TypeInv, TypeOK, RunTypeOK, YieldNow, At, Goto, CallTypeOK,
             Labels, Semas, AfterYield, runVars, prioVars, intrVars,
             semaVars, lockVars, callVars, timerVars
    <3>4. IntrTypeOK'
      BY <1>16 DEF TypeInv, TypeOK, RunTypeOK, YieldNow, At, Goto, IntrTypeOK,
             runVars, prioVars, intrVars, semaVars, lockVars, callVars,
             timerVars
    <3>5. CallsWellFormed'
      BY <1>16 DEF TypeInv, TypeOK, RunTypeOK, YieldNow, At, Goto, CallTypeOK,
             CallsWellFormed, Semas, AfterYield, runVars, prioVars,
             intrVars, semaVars, lockVars, callVars, timerVars
    <3>6. QED BY <3>1, <3>2, <3>3, <3>4, <3>5
  <2>2. RunTypeOK' /\ RunKept
    BY <1>16, ThreadYieldLemma DEF YieldNow, TypeInv, TypeOK, IntrTypeOK
  <2>3. PICK label \in Labels \ {"idle_start"} : pc' = [pc EXCEPT ![current] = label]
    BY <1>16 DEF TypeInv, TypeOK, RunTypeOK, CallTypeOK, Labels, YieldNow,
           AfterYield, Goto
  <2>4. IdleReady' /\ NewbornsDormant'
    BY <1>16, <2>2, <2>3, RunningMovesLemma DEF YieldNow, At, runVars, prioVars,
           intrVars, semaVars, lockVars, callVars, timerVars
  <2>5. QED BY <2>1, <2>2, <2>4
<1>17. ASSUME Up, UNCHANGED timerVars
      PROVE  RunTypeOK' /\ IdleReady' /\ NewbornsDormant' /\ Others'
  <2>1. arg[current] \in Semas
    BY <1>17 DEF Up, At, TypeInv, TypeOK, RunTypeOK, CallsWellFormed
  <2>2. /\ RunTypeOK' /\ RunKept
        /\ value' = [value EXCEPT ![arg[current]] = value[arg[current]] + 1]
        /\ waiters' \in [Semas -> Seq(Threads)]
    BY <1>17, <2>1, SemaUpBodyLemma DEF Up, TypeInv, TypeOK
  <2>3. Others'
    <3>1. PrioTypeOK'
      BY <1>17 DEF TypeInv, TypeOK, RunTypeOK, Up, At, Goto, PrioTypeOK,
             runVars, prioVars, intrVars, semaVars, lockVars, callVars,
             timerVars
    <3>2. SyncTypeOK'
      BY <1>17, <2>1, <2>2 DEF TypeInv, TypeOK, RunTypeOK, Up, At, Goto,
             SyncTypeOK, CallTypeOK, runVars, prioVars, intrVars, semaVars,
             lockVars, callVars, timerVars
    <3>3. CallTypeOK'
      BY <1>17 DEF TypeInv, TypeOK, RunTypeOK, Up, At, Goto, CallTypeOK, Labels,
             Semas, runVars, prioVars, intrVars, semaVars, lockVars,
             callVars, timerVars
    <3>4. IntrTypeOK'
      BY <1>17 DEF TypeInv, TypeOK, RunTypeOK, Up, At, Goto, IntrTypeOK,
             runVars, prioVars, intrVars, semaVars, lockVars, callVars,
             timerVars
    <3>5. CallsWellFormed'
      BY <1>17 DEF TypeInv, TypeOK, RunTypeOK, Up, At, Goto, CallTypeOK,
             CallsWellFormed, Semas, runVars, prioVars, intrVars, semaVars,
             lockVars, callVars, timerVars
    <3>6. QED BY <3>1, <3>2, <3>3, <3>4, <3>5
  <2> DEFINE label == IF arg[current] \in Locks THEN "rel_yield" ELSE "yield"
  <2>4. pc' = [pc EXCEPT ![current] = label] /\ label \in Labels \ {"idle_start"}
    BY <1>17 DEF Up, Goto, Labels
  <2> HIDE DEF label
  <2>5. IdleReady' /\ NewbornsDormant'
    BY <1>17, <2>2, <2>4, RunningMovesLemma DEF Up, At, runVars, prioVars,
           intrVars, semaVars, lockVars, callVars, timerVars
  <2>6. QED BY <2>2, <2>3, <2>5
<1>18. ASSUME WakeSleeper
      PROVE  RunTypeOK' /\ IdleReady' /\ NewbornsDormant' /\ Others'
  <2>1. Head(sleeping_threads) \in Threads /\ Tail(sleeping_threads) \in Seq(Threads)
    BY <1>18, HeadTailProperties DEF WakeSleeper, SleeperDue, TypeInv, TypeOK,
           IntrTypeOK
  <2>2. /\ RunTypeOK' /\ RunKept /\ current' = current
        /\ value' \in [Semas -> Nat] /\ waiters' \in [Semas -> Seq(Threads)]
    <3>1. Head(sleeping_threads) \in Semas /\ SemaUpBody(Head(sleeping_threads))
      BY <1>18, <2>1 DEF WakeSleeper, Semas
    <3> DEFINE s == Head(sleeping_threads)
    <3> HIDE DEF s
    <3>2. /\ RunTypeOK' /\ RunKept /\ current' = current
          /\ value' = [value EXCEPT ![s] = value[s] + 1] /\ waiters' \in [Semas -> Seq(Threads)]
      BY <3>1, SemaUpBodyLemma DEF TypeInv, TypeOK, s
    <3>3. value' \in [Semas -> Nat]
      BY <3>1, <3>2 DEF TypeInv, TypeOK, SyncTypeOK, s
    <3>4. QED BY <3>2, <3>3
  <2>3. Others'
    <3>1. PrioTypeOK'
      BY <1>18 DEF WakeSleeper, TypeInv, TypeOK, PrioTypeOK, runVars, prioVars,
             intrVars, semaVars, lockVars, callVars, timerVars
    <3>2. SyncTypeOK'
      BY <1>18, <2>2 DEF WakeSleeper, TypeInv, TypeOK, SyncTypeOK, runVars,
             prioVars, intrVars, semaVars, lockVars, callVars, timerVars
    <3>3. CallTypeOK'
      BY <1>18 DEF WakeSleeper, TypeInv, TypeOK, CallTypeOK, runVars, prioVars,
             intrVars, semaVars, lockVars, callVars, timerVars
    <3>4. yield_on_return' \in BOOLEAN
      BY <1>18 DEF WakeSleeper, ShouldYield, runVars, prioVars, intrVars,
             semaVars, lockVars, callVars, timerVars
    <3>5. IntrTypeOK'
      BY <1>18, <2>1, <3>4 DEF WakeSleeper, TypeInv, TypeOK, IntrTypeOK,
             runVars, prioVars, intrVars, semaVars, lockVars, callVars,
             timerVars
    <3>6. CallsWellFormed'
      BY <1>18 DEF WakeSleeper, TypeInv, TypeOK, CallsWellFormed, runVars,
             prioVars, intrVars, semaVars, lockVars, callVars, timerVars
    <3>7. QED BY <3>1, <3>2, <3>3, <3>4, <3>5, <3>6
  <2>4. IdleReady'
    BY <1>18, <2>2 DEF WakeSleeper, TypeInv, IdleReady, RunKept, runVars,
           prioVars, intrVars, semaVars, lockVars, callVars, timerVars
  <2>5. NewbornsDormant'
    BY <1>18, <2>2 DEF WakeSleeper, TypeInv, TypeOK, CallTypeOK,
           NewbornsDormant, RunKept, runVars, prioVars, intrVars, semaVars,
           lockVars, callVars, timerVars
  <2>6. QED BY <2>2, <2>3, <2>4, <2>5
<1>19. ASSUME TimerInterrupt
      PROVE  RunTypeOK' /\ IdleReady' /\ NewbornsDormant' /\ Others'
  <2>1. Others'
    <3>1. PrioTypeOK'
      BY <1>19 DEF TimerInterrupt, TypeInv, TypeOK, PrioTypeOK, runVars,
             prioVars, intrVars, semaVars, lockVars, callVars, timerVars
    <3>2. SyncTypeOK'
      BY <1>19 DEF TimerInterrupt, TypeInv, TypeOK, SyncTypeOK, runVars,
             prioVars, intrVars, semaVars, lockVars, callVars, timerVars
    <3>3. CallTypeOK'
      BY <1>19 DEF TimerInterrupt, TypeInv, TypeOK, CallTypeOK, runVars,
             prioVars, intrVars, semaVars, lockVars, callVars, timerVars
    <3>4. remaining' \in [Threads -> Nat]
      BY <1>19 DEF TimerInterrupt, TypeInv, TypeOK, IntrTypeOK, runVars,
             prioVars, intrVars, semaVars, lockVars, callVars, timerVars
    <3>5. in_intr' \in BOOLEAN /\ yield_on_return' \in BOOLEAN
      BY <1>19, Zenon DEF TimerInterrupt, runVars, prioVars, intrVars, semaVars,
             lockVars, callVars, timerVars
    <3>6. IntrTypeOK'
      BY <1>19, <3>4, <3>5 DEF TimerInterrupt, TypeInv, TypeOK, IntrTypeOK,
             runVars, prioVars, intrVars, semaVars, lockVars, callVars,
             timerVars
    <3>7. CallsWellFormed'
      BY <1>19 DEF TimerInterrupt, TypeInv, TypeOK, CallsWellFormed, runVars,
             prioVars, intrVars, semaVars, lockVars, callVars, timerVars
    <3>8. QED BY <3>1, <3>2, <3>3, <3>4, <3>5, <3>6, <3>7
  <2>2. RunTypeOK' /\ IdleReady' /\ NewbornsDormant'
    BY <1>19 DEF TimerInterrupt, TypeInv, TypeOK, RunTypeOK, IdleReady,
           NewbornsDormant, runVars, prioVars, intrVars, semaVars, lockVars,
           callVars, timerVars
  <2>3. QED BY <2>1, <2>2
<1>20. ASSUME ReturnFromInterrupt
      PROVE  RunTypeOK' /\ IdleReady' /\ NewbornsDormant' /\ Others'
  <2>1. /\ RunTypeOK' /\ RunKept
        /\ idle_thread = NULL => current \in ToSet(ready_list') \/ current' = current
    <3>1. CASE yield_on_return \/ SliceOver
      BY <1>20, <3>1, ThreadYieldLemma DEF ReturnFromInterrupt, TypeInv, TypeOK,
             IntrTypeOK
    <3>2. CASE ~(yield_on_return \/ SliceOver)
      BY <1>20, <3>2 DEF ReturnFromInterrupt, SliceOver, TypeInv, TypeOK,
             RunTypeOK, RunKept
    <3>3. QED BY <3>1, <3>2
  <2>2. /\ pc' \in [Threads -> Labels]
        /\ \A t \in Threads : pc'[t] = pc[t] \/ (pc[t] = "hlt" /\ pc'[t] = "idle_loop")
    BY <1>20 DEF ReturnFromInterrupt, TypeInv, TypeOK, CallTypeOK, RunTypeOK,
           Labels
  <2>3. Others'
    <3>1. PrioTypeOK'
      BY <1>20 DEF ReturnFromInterrupt, TypeInv, TypeOK, PrioTypeOK, runVars,
             prioVars, intrVars, semaVars, lockVars, callVars, timerVars
    <3>2. SyncTypeOK'
      BY <1>20 DEF ReturnFromInterrupt, TypeInv, TypeOK, SyncTypeOK, runVars,
             prioVars, intrVars, semaVars, lockVars, callVars, timerVars
    <3>3. CallTypeOK'
      BY <1>20, <2>2 DEF ReturnFromInterrupt, TypeInv, TypeOK, CallTypeOK,
             runVars, prioVars, intrVars, semaVars, lockVars, callVars,
             timerVars
    <3>4. in_intr' \in BOOLEAN /\ yield_on_return' \in BOOLEAN
      BY <1>20, Zenon DEF ReturnFromInterrupt, runVars, prioVars, intrVars,
             semaVars, lockVars, callVars, timerVars
    <3>5. IntrTypeOK'
      BY <1>20, <3>4 DEF ReturnFromInterrupt, TypeInv, TypeOK, IntrTypeOK,
             runVars, prioVars, intrVars, semaVars, lockVars, callVars,
             timerVars
    <3>6. CallsWellFormed'
      BY <1>20, <2>2 DEF ReturnFromInterrupt, TypeInv, TypeOK, CallTypeOK,
             CallsWellFormed, runVars, prioVars, intrVars, semaVars,
             lockVars, callVars, timerVars
    <3>7. QED BY <3>1, <3>2, <3>3, <3>4, <3>5, <3>6
  <2>4. IdleReady'
    BY <1>20, <2>1, <2>2 DEF ReturnFromInterrupt, TypeInv, TypeOK, RunTypeOK,
           IdleReady, RunKept, IntrOff
  <2>5. NewbornsDormant'
    BY <1>20, <2>1, <2>2 DEF ReturnFromInterrupt, TypeInv, TypeOK, CallTypeOK,
           NewbornsDormant, RunKept, runVars, prioVars, intrVars, semaVars,
           lockVars, callVars, timerVars
  <2>6. QED BY <2>1, <2>3, <2>4, <2>5
<1>21. ASSUME UNCHANGED vars
      PROVE  RunTypeOK' /\ IdleReady' /\ NewbornsDormant' /\ Others'
  <2>1. QED
    BY <1>21 DEF TypeInv, TypeOK, RunTypeOK, PrioTypeOK, SyncTypeOK, CallTypeOK,
           IntrTypeOK, CallsWellFormed, IdleReady, NewbornsDormant,
           RunTypeOK, vars, runVars, prioVars, intrVars, semaVars, lockVars,
           callVars, timerVars
<1>22. ASSUME Down, UNCHANGED timerVars
      PROVE  RunTypeOK' /\ IdleReady' /\ NewbornsDormant' /\ Others'
  <2>1. arg[current] \in Semas
    BY <1>22 DEF Down, At, TypeInv, TypeOK, RunTypeOK, CallsWellFormed
  <2>2. CASE MustWait(arg[current]) /\ ThreadBlock /\ pc' = pc
              /\ waiters' = [waiters EXCEPT
                               ![arg[current]] = Append(waiters[arg[current]], current)]
              /\ UNCHANGED << value, lockVars, arg >>
    <3>1. RunTypeOK' /\ RunKept
      BY <1>22, <2>2, ThreadBlockLemma, SwitchLemma DEF Down, At, TypeInv,
             TypeOK
    <3>2. IdleReady' /\ NewbornsDormant'
      <4>1. pc' = [pc EXCEPT ![current] = "down"] /\ "down" \in Labels \ {"idle_start"}
        BY <1>22, <2>2 DEF Down, At, TypeInv, TypeOK, CallTypeOK, Labels
      <4>2. QED
        BY <1>22, <2>2, <3>1, <4>1, RunningMovesLemma DEF Down, At, intrVars
    <3>3. waiters' \in [Semas -> Seq(Threads)]
      BY <2>1, <2>2, AppendProperties DEF TypeInv, TypeOK, RunTypeOK,
             SyncTypeOK
    <3>4. Others'
      BY <1>22, <2>2, <3>1, <3>3 DEF TypeInv, TypeOK, RunTypeOK, PrioTypeOK,
             SyncTypeOK, CallTypeOK, IntrTypeOK, CallsWellFormed, Down,
             runVars, prioVars, intrVars, semaVars, lockVars, callVars,
             timerVars
    <3>5. QED BY <3>1, <3>2, <3>4
  <2>3. CASE /\ ~MustWait(arg[current]) /\ UNCHANGED << runVars, waiters >>
             /\ value' = [value EXCEPT ![arg[current]] = value[arg[current]] - 1]
             /\ Goto(ret[current]) /\ arg' = [arg EXCEPT ![current] = NULL]
             /\ IF arg[current] \in Locks
                THEN /\ waitingFor' = [waitingFor EXCEPT ![current] = NULL]
                     /\ holder' = [holder EXCEPT ![arg[current]] = current]
                ELSE UNCHANGED lockVars
    <3>1. ret[current] \in Labels \ {"idle_start"}
      BY DEF TypeInv, TypeOK, RunTypeOK, CallTypeOK, Labels
    <3>2. RunTypeOK' /\ IdleReady' /\ NewbornsDormant'
      BY <1>22, <2>3, <3>1, QuietLemma DEF Down, At, Goto, intrVars
    <3>3. PrioTypeOK' /\ IntrTypeOK'
      BY <1>22, <2>3 DEF Down, TypeInv, TypeOK, PrioTypeOK, IntrTypeOK,
             intrVars, prioVars, timerVars
    <3>4. SyncTypeOK'
      <4>1. value' \in [Semas -> Nat]
        <5>1. value[arg[current]] \in Nat /\ value[arg[current]] # 0
          BY <2>1, <2>3 DEF MustWait, TypeInv, TypeOK, SyncTypeOK
        <5>2. value[arg[current]] - 1 \in Nat
          BY <5>1
        <5>3. QED BY <2>3, <5>2 DEF TypeInv, TypeOK, SyncTypeOK
      <4>2. /\ holder' \in [Locks -> Threads \cup {NULL}]
            /\ waitingFor' \in [Threads -> Locks \cup {NULL}]
        BY <2>3 DEF TypeInv, TypeOK, RunTypeOK, SyncTypeOK, lockVars
      <4>3. QED BY <2>3, <4>1, <4>2 DEF TypeInv, TypeOK, SyncTypeOK
    <3>5. CallTypeOK' /\ CallsWellFormed'
      BY <1>22, <2>3, <3>1 DEF Down, Goto, TypeInv, TypeOK, RunTypeOK,
             CallTypeOK, CallsWellFormed
    <3>6. QED BY <3>2, <3>3, <3>4, <3>5
  <2>4. QED BY <1>22, <2>2, <2>3 DEF Down
<1>23. ASSUME Donate, UNCHANGED timerVars
      PROVE  RunTypeOK' /\ IdleReady' /\ NewbornsDormant' /\ Others'
  <2>1. PICK label \in {"donate", "down"} : pc' = [pc EXCEPT ![current] = label]
    BY <1>23 DEF Donate, At, Goto, TypeInv, TypeOK, RunTypeOK, CallTypeOK
  <2>2. ready_list' \in Seq(Threads) /\ ToSet(ready_list) \subseteq ToSet(ready_list')
    <3>1. CASE UNCHANGED ready_list
      BY <3>1 DEF TypeInv, TypeOK, RunTypeOK
    <3>2. ASSUME NEW i \in PointsOf(ready_list, donee),
                 NEW j \in InsertPoints(RemoveAt(ready_list, i), priority', priority[current]),
                 ready_list' = InsertAt(RemoveAt(ready_list, i), j, donee), donee \in Threads
          PROVE  ready_list' \in Seq(Threads) /\ ToSet(ready_list) \subseteq ToSet(ready_list')
      <4> DEFINE rest == RemoveAt(ready_list, i)
      <4>1. i \in 1 .. Len(ready_list) /\ ready_list[i] = donee
        BY PointsLemma DEF TypeInv, TypeOK, RunTypeOK, PointsOf
      <4>2. /\ rest \in Seq(Threads)
            /\ ToSet(ready_list) \subseteq ToSet(rest) \cup {donee}
        BY <4>1, RemoveAtLemma DEF TypeInv, TypeOK, RunTypeOK
      <4>3. j \in 1 .. Len(rest) + 1
        BY <3>2, <4>2, PointsLemma
      <4> HIDE DEF rest
      <4>4. /\ InsertAt(rest, j, donee) \in Seq(Threads)
            /\ ToSet(InsertAt(rest, j, donee)) = ToSet(rest) \cup {donee}
        BY <3>2, <4>2, <4>3, InsertAtLemma
      <4>5. QED BY <3>2, <4>2, <4>4 DEF rest
    <3>3. QED BY <1>23, <3>1, <3>2 DEF Donate, CanRaise, TypeInv, TypeOK, CallTypeOK
  <2>3. RunTypeOK' /\ RunKept
    BY <1>23, <2>2 DEF Donate, TypeInv, TypeOK, RunTypeOK, RunKept
  <2>4. IdleReady' /\ NewbornsDormant'
    BY <1>23, <2>1, <2>3, RunningMovesLemma DEF Donate, At, Labels, intrVars
  <2>5. PrioTypeOK'
    BY <1>23 DEF Donate, CanRaise, TypeInv, TypeOK, RunTypeOK, PrioTypeOK
  <2>6. donee' \in Threads \cup {NULL}
    BY <1>23 DEF Donate, CanRaise, TypeInv, TypeOK, CallTypeOK, SyncTypeOK
  <2>7. CallTypeOK' /\ CallsWellFormed'
    BY <1>23, <2>1, <2>6 DEF Donate, At, TypeInv, TypeOK, RunTypeOK, CallTypeOK,
           CallsWellFormed, Labels, Semas
  <2>8. SyncTypeOK' /\ IntrTypeOK'
    BY <1>23 DEF Donate, TypeInv, TypeOK, SyncTypeOK, IntrTypeOK, runVars,
           prioVars, intrVars, semaVars, lockVars, callVars, timerVars
  <2>9. QED BY <2>3, <2>4, <2>5, <2>7, <2>8
<1>24. ASSUME NEW u \in Threads, NEW p \in Prio, ThreadCreate(u, p), UNCHANGED timerVars
      PROVE  RunTypeOK' /\ IdleReady' /\ NewbornsDormant' /\ Others'
  <2>1. /\ current # u /\ current \in Threads /\ pc[u] = "none" /\ TidLock \in Semas
        /\ \A t \in Threads : child[t] # u
    BY <1>24 DEF ThreadCreate, At, TypeInv, TypeOK, RunTypeOK, NewbornsDormant,
           Semas
  <2>2. RunTypeOK'
    BY <1>24 DEF ThreadCreate, TypeInv, TypeOK, RunTypeOK, Statuses
  <2>3. PrioTypeOK'
    BY <1>24 DEF ThreadCreate, LockAcquireHead, TypeInv, TypeOK, PrioTypeOK
  <2>4. SyncTypeOK' /\ IntrTypeOK'
    BY <1>24 DEF ThreadCreate, LockAcquireHead, TypeInv, TypeOK, SyncTypeOK,
           IntrTypeOK, runVars, prioVars, intrVars, semaVars, lockVars,
           callVars, timerVars
  <2>5. CallTypeOK'
    BY <1>24, <2>1 DEF ThreadCreate, LockAcquireHead, Call, Goto, TypeInv,
           TypeOK, CallTypeOK, Labels
  <2>6. CallsWellFormed'
    BY <1>24, <2>1 DEF ThreadCreate, LockAcquireHead, Call, Goto, TypeInv,
           TypeOK, CallTypeOK, CallsWellFormed
  <2>7. IdleReady'
    BY <1>24, <2>1 DEF ThreadCreate, At, LockAcquireHead, Goto, TypeInv, TypeOK,
           CallTypeOK, IdleReady, intrVars
  <2>8. NewbornsDormant'
    BY <1>24, <2>1 DEF ThreadCreate, At, LockAcquireHead, Goto, TypeInv, TypeOK,
           CallTypeOK, RunTypeOK, NewbornsDormant
  <2>9. QED BY <2>2, <2>3, <2>4, <2>5, <2>6, <2>7, <2>8
<1>25. ASSUME CreateUnblock, UNCHANGED timerVars
      PROVE  RunTypeOK' /\ IdleReady' /\ NewbornsDormant' /\ Others'
  <2>1. /\ child[current] \in Threads /\ child[current] # Idle /\ pc[child[current]] = "none"
        /\ current # child[current] /\ current \in Threads
        /\ pc' = [pc EXCEPT ![current] = "yield", ![child[current]] = "run"]
    BY <1>25 DEF CreateUnblock, At, TypeInv, TypeOK, RunTypeOK, CallsWellFormed,
           NewbornsDormant
  <2>2. RunTypeOK' /\ RunKept /\ current' = current /\ status'[child[current]] = "READY"
    BY <1>25, <2>1, ThreadUnblockLemma DEF CreateUnblock, TypeInv, TypeOK
  <2>3. PrioTypeOK' /\ SyncTypeOK' /\ IntrTypeOK'
    BY <1>25 DEF CreateUnblock, TypeInv, TypeOK, PrioTypeOK, SyncTypeOK,
           IntrTypeOK, runVars, prioVars, intrVars, semaVars, lockVars,
           callVars, timerVars
  <2>4. CallTypeOK'
    BY <1>25, <2>1 DEF CreateUnblock, TypeInv, TypeOK, CallTypeOK, Labels
  <2>5. CallsWellFormed'
    BY <1>25, <2>1 DEF CreateUnblock, TypeInv, TypeOK, CallTypeOK,
           CallsWellFormed
  <2>6. IdleReady'
    BY <1>25, <2>1, <2>2 DEF CreateUnblock, At, TypeInv, TypeOK, CallTypeOK,
           IdleReady, RunKept, IntrOff, intrVars
  <2>7. NewbornsDormant'
    BY <1>25, <2>1, <2>2 DEF CreateUnblock, At, TypeInv, TypeOK, CallTypeOK,
           RunTypeOK, NewbornsDormant, RunKept
  <2>8. QED BY <2>2, <2>3, <2>4, <2>5, <2>6, <2>7
<1>26. ASSUME Exit, UNCHANGED timerVars
      PROVE  RunTypeOK' /\ IdleReady' /\ NewbornsDormant' /\ Others'
  <2>1. /\ RunTypeOK' /\ pc' = [pc EXCEPT ![current] = "none"]
        /\ \A t \in Threads : status'[t] = "NONE" => status[t] = "NONE" \/ t = current
        /\ Idle \in ToSet(ready_list) => Idle \in ToSet(ready_list') \/ current' = Idle
    BY <1>26, ThreadExitLemma, SwitchLemma DEF Exit, At, Goto, TypeInv, TypeOK
  <2>2. Others'
    <3>1. PrioTypeOK'
      BY <1>26 DEF TypeInv, TypeOK, RunTypeOK, Exit, At, Goto, PrioTypeOK,
             runVars, prioVars, intrVars, semaVars, lockVars, callVars,
             timerVars
    <3>2. SyncTypeOK'
      BY <1>26 DEF TypeInv, TypeOK, RunTypeOK, Exit, At, Goto, SyncTypeOK,
             CallTypeOK, runVars, prioVars, intrVars, semaVars, lockVars,
             callVars, timerVars
    <3>3. CallTypeOK'
      BY <1>26, <2>1 DEF TypeInv, TypeOK, RunTypeOK, Exit, At, Goto, CallTypeOK,
             Labels, Semas, runVars, prioVars, intrVars, semaVars, lockVars,
             callVars, timerVars
    <3>4. IntrTypeOK'
      BY <1>26 DEF TypeInv, TypeOK, RunTypeOK, Exit, At, Goto, IntrTypeOK,
             runVars, prioVars, intrVars, semaVars, lockVars, callVars,
             timerVars
    <3>5. CallsWellFormed'
      BY <1>26, <2>1 DEF TypeInv, TypeOK, RunTypeOK, Exit, At, Goto, CallTypeOK,
             CallsWellFormed, Semas, runVars, prioVars, intrVars, semaVars,
             lockVars, callVars, timerVars
    <3>6. QED BY <3>1, <3>2, <3>3, <3>4, <3>5
  <2>3. IdleReady'
    BY <1>26, <2>1 DEF Exit, At, TypeInv, TypeOK, RunTypeOK, CallTypeOK,
           IdleReady, IntrOff, intrVars
  <2>4. NewbornsDormant'
    BY <1>26, <2>1 DEF Exit, At, TypeInv, TypeOK, RunTypeOK, CallTypeOK,
           NewbornsDormant, callVars
  <2>5. QED BY <2>1, <2>2, <2>3, <2>4
<1>27. ASSUME ThreadStart
      PROVE  RunTypeOK' /\ IdleReady' /\ NewbornsDormant' /\ Others'
  <2>1. RunTypeOK' /\ ToSet(ready_list') = {Idle}
    BY <1>27 DEF ThreadStart, TypeInv, TypeOK, RunTypeOK, Statuses, ToSet
  <2>2. Others'
    <3>1. PrioTypeOK'
      BY <1>27 DEF TypeInv, TypeOK, RunTypeOK, ThreadStart, At, Goto,
             PrioTypeOK, runVars, prioVars, intrVars, semaVars, lockVars,
             callVars, timerVars
    <3>2. SyncTypeOK'
      BY <1>27 DEF TypeInv, TypeOK, RunTypeOK, ThreadStart, At, Goto,
             SyncTypeOK, CallTypeOK, runVars, prioVars, intrVars, semaVars,
             lockVars, callVars, timerVars
    <3>3. CallTypeOK'
      BY <1>27 DEF TypeInv, TypeOK, RunTypeOK, ThreadStart, At, Goto,
             CallTypeOK, Labels, Semas, runVars, prioVars, intrVars,
             semaVars, lockVars, callVars, timerVars
    <3>4. IntrTypeOK'
      BY <1>27 DEF TypeInv, TypeOK, RunTypeOK, ThreadStart, At, Goto,
             IntrTypeOK, runVars, prioVars, intrVars, semaVars, lockVars,
             callVars, timerVars
    <3>5. CallsWellFormed'
      BY <1>27 DEF TypeInv, TypeOK, RunTypeOK, ThreadStart, At, Goto,
             CallTypeOK, CallsWellFormed, Semas, runVars, prioVars,
             intrVars, semaVars, lockVars, callVars, timerVars
    <3>6. QED BY <3>1, <3>2, <3>3, <3>4, <3>5
  <2>3. IdleReady'
    BY <1>27, <2>1 DEF ThreadStart, At, Goto, TypeInv, TypeOK, RunTypeOK,
           CallTypeOK, IdleReady, intrVars
  <2>4. NewbornsDormant'
    BY <1>27, <2>1 DEF ThreadStart, At, Goto, TypeInv, TypeOK, RunTypeOK,
           CallTypeOK, NewbornsDormant, callVars
  <2>5. QED BY <2>1, <2>2, <2>3, <2>4
<1>28. ASSUME IdleStart
      PROVE  RunTypeOK' /\ IdleReady' /\ NewbornsDormant' /\ Others'
  <2>1. current = Idle /\ Idle # NULL
    BY <1>28 DEF IdleStart, At, TypeInv, TypeOK, RunTypeOK, IdleReady
  <2>2. Others'
    <3>1. PrioTypeOK'
      BY <1>28 DEF TypeInv, TypeOK, RunTypeOK, IdleStart, Call, At, Goto,
             PrioTypeOK, runVars, prioVars, intrVars, semaVars, lockVars,
             callVars, timerVars
    <3>2. SyncTypeOK'
      BY <1>28 DEF TypeInv, TypeOK, RunTypeOK, IdleStart, Call, At, Goto,
             SyncTypeOK, CallTypeOK, runVars, prioVars, intrVars, semaVars,
             lockVars, callVars, timerVars
    <3>3. CallTypeOK'
      BY <1>28 DEF TypeInv, TypeOK, RunTypeOK, IdleStart, Call, At, Goto,
             CallTypeOK, Labels, Semas, runVars, prioVars, intrVars,
             semaVars, lockVars, callVars, timerVars
    <3>4. IntrTypeOK'
      BY <1>28, <2>1 DEF TypeInv, TypeOK, RunTypeOK, IdleStart, Call, At, Goto,
             IntrTypeOK, runVars, prioVars, intrVars, semaVars, lockVars,
             callVars, timerVars
    <3>5. CallsWellFormed'
      BY <1>28 DEF TypeInv, TypeOK, RunTypeOK, IdleStart, Call, At, Goto,
             CallTypeOK, CallsWellFormed, Semas, runVars, prioVars,
             intrVars, semaVars, lockVars, callVars, timerVars
    <3>6. QED BY <3>1, <3>2, <3>3, <3>4, <3>5
  <2>3. RunTypeOK'
    BY <1>28 DEF IdleStart, TypeInv, TypeOK, RunTypeOK, runVars
  <2>4. IdleReady'
    BY <1>28, <2>1 DEF IdleStart, At, Goto, TypeInv, TypeOK, RunTypeOK,
           CallTypeOK, IdleReady, intrVars, runVars
  <2>5. NewbornsDormant'
    BY <1>28, <2>1 DEF IdleStart, At, Goto, TypeInv, TypeOK, RunTypeOK,
           CallTypeOK, NewbornsDormant, runVars
  <2>6. QED BY <2>2, <2>3, <2>4, <2>5
<1>29. ASSUME NEW n \in Nat \ {0}, TimerSleep(n)
      PROVE  RunTypeOK' /\ IdleReady' /\ NewbornsDormant' /\ Others'
  <2>1. PICK i \in StrictInsertPoints(sleeping_threads, remaining, n) :
          sleeping_threads' = InsertAt(sleeping_threads, i, current)
    BY <1>29 DEF TimerSleep
  <2>2. i \in 1 .. Len(sleeping_threads) + 1
    BY PointsLemma DEF TypeInv, TypeOK, IntrTypeOK
  <2>3. sleeping_threads' \in Seq(Threads)
    BY <2>1, <2>2, InsertAtLemma DEF TypeInv, TypeOK, RunTypeOK, IntrTypeOK
  <2>4. Others'
    <3>1. PrioTypeOK'
      BY <1>29 DEF TypeInv, TypeOK, RunTypeOK, TimerSleep, Call, At, Goto,
             PrioTypeOK, runVars, prioVars, intrVars, semaVars, lockVars,
             callVars, timerVars
    <3>2. SyncTypeOK'
      BY <1>29 DEF TypeInv, TypeOK, RunTypeOK, TimerSleep, Call, At, Goto,
             SyncTypeOK, CallTypeOK, runVars, prioVars, intrVars, semaVars,
             lockVars, callVars, timerVars
    <3>3. CallTypeOK'
      BY <1>29 DEF TypeInv, TypeOK, RunTypeOK, TimerSleep, Call, At, Goto,
             CallTypeOK, Labels, Semas, runVars, prioVars, intrVars,
             semaVars, lockVars, callVars, timerVars
    <3>4. IntrTypeOK'
      BY <1>29, <2>3 DEF TypeInv, TypeOK, RunTypeOK, TimerSleep, Call, At, Goto,
             IntrTypeOK, runVars, prioVars, intrVars, semaVars, lockVars,
             callVars, timerVars
    <3>5. CallsWellFormed'
      BY <1>29 DEF TypeInv, TypeOK, RunTypeOK, TimerSleep, Call, At, Goto,
             CallTypeOK, CallsWellFormed, Semas, runVars, prioVars,
             intrVars, semaVars, lockVars, callVars, timerVars
    <3>6. QED BY <3>1, <3>2, <3>3, <3>4, <3>5
  <2>5. RunTypeOK' /\ IdleReady' /\ NewbornsDormant'
    BY <1>29, QuietLemma DEF TimerSleep, At, Goto, Labels, runVars, prioVars,
           intrVars, semaVars, lockVars, callVars, timerVars
  <2>6. QED BY <2>4, <2>5
<1>30. QED
  <2>1. ASSUME Request, UNCHANGED timerVars
        PROVE  RunTypeOK' /\ IdleReady' /\ NewbornsDormant' /\ Others'
    BY <2>1, KernelAssumption, <1>24, <1>26, <1>14, <1>6, <1>1, <1>2, <1>13, <1>3, <1>5, <1>4 DEF
           Request
  <2>2. ASSUME Progress, UNCHANGED timerVars
        PROVE  RunTypeOK' /\ IdleReady' /\ NewbornsDormant' /\ Others'
    BY <2>2, <1>22, <1>17, <1>11, <1>16, <1>23, <1>7, <1>8, <1>9, <1>10, <1>25 DEF
           Progress
  <2>3. ASSUME NEW n \in Naps, TimerSleep(n)
        PROVE  RunTypeOK' /\ IdleReady' /\ NewbornsDormant' /\ Others'
    BY <2>3, KernelAssumption, <1>29
  <2>4. CASE Boot
    BY <2>4, <1>27, <1>12, <1>28 DEF Boot
  <2>5. CASE Interrupt
    BY <2>5, <1>19, <1>18, <1>20 DEF Interrupt
  <2>6. QED
    BY <2>1, <2>2, <2>3, <2>4, <2>5, <1>15, <1>21 DEF Next

(* Every variable keeps its type: struct thread, struct semaphore, struct  *)
(* lock and the file-scope variables, in every instance.                   *)
THEOREM TypeCorrect == Spec => []TypeOK
<1>1. Init => TypeInv
  BY TypeInvInit
<1>2. TypeInv /\ [Next]_vars => TypeInv'
  BY TypeInvStep
<1>3. TypeInv => TypeOK
  BY DEF TypeInv
<1>4. QED BY <1>1, <1>2, <1>3, PTL DEF Spec

-----------------------------------------------------------------------------
(* Locks and donation.                                                      *)


(* t is between the two writes of lock_try_acquire or of lock_release.     *)
Between(t, l) == pc[t] \in {"up", "try_hold"} /\ arg[t] = l

(* Mutual exclusion only depends on who claims what and on the semaphores  *)
(* of the locks.                                                           *)
LEMMA ClaimsSame ==
  ASSUME LockOwnership, \A l \in Locks : value'[l] = value[l],
         \A t \in Threads, l \in Locks : Claims(t, l)' <=> Claims(t, l)
  PROVE  LockOwnership'
BY DEF LockOwnership

(* A step that moves nobody into or out of the two-write windows.          *)
LEMMA ClaimsFrame ==
  ASSUME LockInv, holder' = holder, \A l \in Locks : value'[l] = value[l],
         \A t \in Threads, l \in Locks : Between(t, l)' <=> Between(t, l)
  PROVE  LockInv'
<1>1. \A t \in Threads, l \in Locks : Claims(t, l)' <=> Claims(t, l)
  BY DEF Claims, Between
<1>2. ClaimsApart'
  BY DEF LockInv, ClaimsApart, Between
<1>3. QED BY <1>1, <1>2, ClaimsSame DEF LockInv

(* A step in which the running thread takes a lock whose semaphore is up.  *)
LEMMA LockTaken ==
  ASSUME TypeInv, LockInv, NEW l \in Locks, NEW t \in Threads, value[l] # 0,
         value'[l] = value[l] - 1,
         \A m \in Locks \ {l} : value'[m] = value[m] /\ holder'[m] = holder[m],
         \A u \in Threads, m \in Locks :
           u # t \/ m # l => (Between(u, m)' <=> Between(u, m)),
         \/ holder'[l] = t /\ ~Between(t, l)'
         \/ holder'[l] = holder[l] /\ Between(t, l)'
  PROVE  LockInv'
<1>1. value[l] = 1 /\ \A u \in Threads : ~Claims(u, l)
  BY DEF LockInv, LockOwnership
<1>2. value'[l] = 0
  BY <1>1
<1>3. \A u \in Threads : ~Between(u, l) /\ holder[l] # u
  BY <1>1 DEF Claims, Between
<1>4. \A u \in Threads : Claims(u, l)' <=> u = t
  <2>1. ASSUME NEW u \in Threads PROVE Claims(u, l)' <=> holder'[l] = u \/ Between(u, l)'
    BY DEF Claims, Between
  <2>2. QED BY <1>3, <2>1
<1>5. \A u \in Threads, m \in Locks \ {l} : Claims(u, m)' <=> Claims(u, m)
  BY DEF Claims, Between
<1>6. LockOwnership'
  <2>1. ASSUME NEW m \in Locks
        PROVE  /\ \A u, v \in Threads : Claims(u, m)' /\ Claims(v, m)' => u = v
               /\ value'[m] = IF \E u \in Threads : Claims(u, m)' THEN 0 ELSE 1
    <3>1. CASE m = l
      BY <1>2, <1>4, <3>1
    <3>2. CASE m # l
      BY <1>5, <3>2 DEF LockInv, LockOwnership
    <3>3. QED BY <3>1, <3>2
  <2>2. QED BY <2>1 DEF LockOwnership
<1>7. ClaimsApart'
  <2>1. ASSUME NEW u \in Threads, NEW m \in Locks, Between(u, m)'
        PROVE  holder'[m] # u
    <3>1. CASE m = l
      BY <1>3, <2>1, <3>1
    <3>2. CASE m # l
      BY <2>1, <3>2 DEF LockInv, ClaimsApart, Between
    <3>3. QED BY <3>1, <3>2
  <2>2. QED BY <2>1 DEF ClaimsApart, Between
<1>8. QED BY <1>6, <1>7 DEF LockInv

(* The head of lock_release: the lock is claimed as before, but no longer  *)
(* held.                                                                   *)
LEMMA LockGivenUp ==
  ASSUME TypeInv, LockInv, NEW l \in Locks, NEW r, LockReleaseHead(l, r),
         pc[current] \notin {"up", "try_hold"}, value' = value
  PROVE  LockInv'
<1>1. current \in Threads /\ NULL \notin Threads
  BY ThreadsAssumption DEF TypeInv, TypeOK, RunTypeOK
<1>2. \A u \in Threads, m \in Locks :
        Between(u, m)' <=> Between(u, m) \/ (u = current /\ m = l)
  BY <1>1 DEF LockReleaseHead, Call, Goto, Between, TypeInv, TypeOK, CallTypeOK
<1>3. \A m \in Locks : holder'[m] = IF m = l THEN NULL ELSE holder[m]
  BY DEF LockReleaseHead, TypeInv, TypeOK, SyncTypeOK
<1>4. holder[l] = current
  BY DEF LockReleaseHead
<1>5. \A u \in Threads, m \in Locks : Claims(u, m)' <=> Claims(u, m)
  <2>1. ASSUME NEW u \in Threads, NEW m \in Locks
        PROVE  /\ Claims(u, m) <=> holder[m] = u \/ Between(u, m)
               /\ Claims(u, m)' <=> holder'[m] = u \/ Between(u, m)'
    BY DEF Claims, Between
  <2>2. QED BY <1>1, <1>2, <1>3, <1>4, <2>1
<1>6. LockOwnership'
  BY <1>5, ClaimsSame DEF LockInv
<1>7. ClaimsApart'
  <2>1. ASSUME NEW u \in Threads, NEW m \in Locks, Between(u, m)'
        PROVE  holder'[m] # u
    <3>1. CASE m = l
      BY <1>1, <1>3, <3>1
    <3>2. CASE m # l
      BY <1>2, <1>3, <2>1, <3>2 DEF LockInv, ClaimsApart, Between
    <3>3. QED BY <3>1, <3>2
  <2>2. QED BY <2>1 DEF ClaimsApart, Between
<1>8. QED BY <1>6, <1>7 DEF LockInv

(* Every step keeps mutual exclusion and what it rests on.                 *)
LEMMA LockInvStep ==
  ASSUME TypeInv, LockInv, [Next]_vars PROVE LockInv'
<1> USE ThreadsAssumption, SynchAssumption
<1>1. /\ current \in Threads /\ pc \in [Threads -> Labels]
      /\ arg \in [Threads -> Semas \cup {NULL}]
      /\ ret \in [Threads -> {"run", "idle_loop", "create_release", "create_unblock"}]
      /\ value \in [Semas -> Nat] /\ Locks \subseteq Semas
      /\ holder \in [Locks -> Threads \cup {NULL}]
  BY DEF TypeInv, TypeOK, RunTypeOK, CallTypeOK, SyncTypeOK, Semas
<1>2. ASSUME YieldIfNecessary PROVE LockInv'
  <2>1. holder' = holder /\ \A m \in Locks : value'[m] = value[m]
    BY <1>2, <1>1 DEF YieldIfNecessary, semaVars, lockVars
  <2>2. \A t \in Threads, m \in Locks : Between(t, m)' <=> Between(t, m)
    BY <1>2, <1>1 DEF YieldIfNecessary, At, Goto, AfterYield, Between, callVars
  <2>3. QED BY <2>1, <2>2, ClaimsFrame
<1>3. ASSUME YieldNow PROVE LockInv'
  <2>1. holder' = holder /\ \A m \in Locks : value'[m] = value[m]
    BY <1>3, <1>1 DEF YieldNow, semaVars, lockVars
  <2>2. \A t \in Threads, m \in Locks : Between(t, m)' <=> Between(t, m)
    BY <1>3, <1>1 DEF YieldNow, At, Goto, AfterYield, Between, callVars
  <2>3. QED BY <2>1, <2>2, ClaimsFrame
<1>4. ASSUME Donate PROVE LockInv'
  <2>1. holder' = holder /\ \A m \in Locks : value'[m] = value[m]
    BY <1>4, <1>1 DEF Donate, semaVars, lockVars
  <2>2. \A t \in Threads, m \in Locks : Between(t, m)' <=> Between(t, m)
    BY <1>4, <1>1 DEF Donate, At, Goto, Between, callVars
  <2>3. QED BY <2>1, <2>2, ClaimsFrame
<1>5. ASSUME Recalculate PROVE LockInv'
  <2>1. holder' = holder /\ \A m \in Locks : value'[m] = value[m]
    BY <1>5, <1>1 DEF Recalculate, semaVars, lockVars
  <2>2. \A t \in Threads, m \in Locks : Between(t, m)' <=> Between(t, m)
    BY <1>5, <1>1 DEF Recalculate, At, Goto, Between, callVars
  <2>3. QED BY <2>1, <2>2, ClaimsFrame
<1>6. ASSUME AssignPriority PROVE LockInv'
  <2>1. holder' = holder /\ \A m \in Locks : value'[m] = value[m]
    BY <1>6, <1>1 DEF AssignPriority, semaVars, lockVars
  <2>2. \A t \in Threads, m \in Locks : Between(t, m)' <=> Between(t, m)
    BY <1>6, <1>1 DEF AssignPriority, At, Goto, Between, callVars
  <2>3. QED BY <2>1, <2>2, ClaimsFrame
<1>7. ASSUME Exit PROVE LockInv'
  <2>1. holder' = holder /\ \A m \in Locks : value'[m] = value[m]
    BY <1>7, <1>1 DEF Exit, semaVars, lockVars
  <2>2. \A t \in Threads, m \in Locks : Between(t, m)' <=> Between(t, m)
    BY <1>7, <1>1 DEF Exit, At, Goto, Between, callVars
  <2>3. QED BY <2>1, <2>2, ClaimsFrame
<1>8. ASSUME Yield PROVE LockInv'
  <2>1. holder' = holder /\ \A m \in Locks : value'[m] = value[m]
    BY <1>8, <1>1 DEF Yield, semaVars, lockVars
  <2>2. \A t \in Threads, m \in Locks : Between(t, m)' <=> Between(t, m)
    BY <1>8, <1>1 DEF Yield, At, Goto, Between, callVars
  <2>3. QED BY <2>1, <2>2, ClaimsFrame
<1>9. ASSUME NEW p \in Prio, SetPriority(p) PROVE LockInv'
  <2>1. holder' = holder /\ \A m \in Locks : value'[m] = value[m]
    BY <1>9, <1>1 DEF SetPriority, semaVars, lockVars
  <2>2. \A t \in Threads, m \in Locks : Between(t, m)' <=> Between(t, m)
    BY <1>9, <1>1 DEF SetPriority, At, Goto, Between, callVars
  <2>3. QED BY <2>1, <2>2, ClaimsFrame
<1>10. ASSUME NEW u \in Threads, NEW p \in Prio, ThreadCreate(u, p) PROVE LockInv'
  <2>1. holder' = holder /\ \A m \in Locks : value'[m] = value[m]
    BY <1>10, <1>1 DEF ThreadCreate, LockAcquireHead, semaVars, lockVars
  <2>2. \A t \in Threads, m \in Locks : Between(t, m)' <=> Between(t, m)
    BY <1>10, <1>1 DEF ThreadCreate, At, Goto, LockAcquireHead, Call, Between, callVars
  <2>3. QED BY <2>1, <2>2, ClaimsFrame
<1>11. ASSUME NEW s \in Semaphores, SemaDown(s) PROVE LockInv'
  <2>1. holder' = holder /\ \A m \in Locks : value'[m] = value[m]
    BY <1>11, <1>1 DEF SemaDown, semaVars, lockVars
  <2>2. \A t \in Threads, m \in Locks : Between(t, m)' <=> Between(t, m)
    BY <1>11, <1>1 DEF SemaDown, At, Goto, Call, Between, callVars
  <2>3. QED BY <2>1, <2>2, ClaimsFrame
<1>12. ASSUME NEW s \in Semaphores, SemaUp(s) PROVE LockInv'
  <2>1. holder' = holder /\ \A m \in Locks : value'[m] = value[m]
    BY <1>12, <1>1 DEF SemaUp, semaVars, lockVars
  <2>2. \A t \in Threads, m \in Locks : Between(t, m)' <=> Between(t, m)
    BY <1>12, <1>1 DEF SemaUp, At, Goto, Call, Between, callVars
  <2>3. QED BY <2>1, <2>2, ClaimsFrame
<1>13. ASSUME NEW s \in Semaphores, SemaTryDown(s) PROVE LockInv'
  <2>1. holder' = holder /\ \A m \in Locks : value'[m] = value[m]
    BY <1>13, <1>1 DEF SemaTryDown, semaVars, lockVars
  <2>2. \A t \in Threads, m \in Locks : Between(t, m)' <=> Between(t, m)
    BY <1>13, <1>1 DEF SemaTryDown, At, Goto, Between, callVars
  <2>3. QED BY <2>1, <2>2, ClaimsFrame
<1>14. ASSUME NEW l \in Locks, LockAcquire(l) PROVE LockInv'
  <2>1. holder' = holder /\ \A m \in Locks : value'[m] = value[m]
    BY <1>14, <1>1 DEF LockAcquire, LockAcquireHead, semaVars, lockVars
  <2>2. \A t \in Threads, m \in Locks : Between(t, m)' <=> Between(t, m)
    BY <1>14, <1>1 DEF LockAcquire, At, Goto, LockAcquireHead, Call, Between, callVars
  <2>3. QED BY <2>1, <2>2, ClaimsFrame
<1>15. ASSUME ThreadStart PROVE LockInv'
  <2>1. holder' = holder /\ \A m \in Locks : value'[m] = value[m]
    BY <1>15, <1>1 DEF ThreadStart, semaVars, lockVars
  <2>2. \A t \in Threads, m \in Locks : Between(t, m)' <=> Between(t, m)
    BY <1>15, <1>1 DEF ThreadStart, At, Goto, Between, callVars
  <2>3. QED BY <2>1, <2>2, ClaimsFrame
<1>16. ASSUME WaitForIdle PROVE LockInv'
  <2>1. holder' = holder /\ \A m \in Locks : value'[m] = value[m]
    BY <1>16, <1>1 DEF WaitForIdle, semaVars, lockVars
  <2>2. \A t \in Threads, m \in Locks : Between(t, m)' <=> Between(t, m)
    BY <1>16, <1>1 DEF WaitForIdle, At, Goto, Call, Between, callVars
  <2>3. QED BY <2>1, <2>2, ClaimsFrame
<1>17. ASSUME IdleStart PROVE LockInv'
  <2>1. holder' = holder /\ \A m \in Locks : value'[m] = value[m]
    BY <1>17, <1>1 DEF IdleStart, semaVars, lockVars
  <2>2. \A t \in Threads, m \in Locks : Between(t, m)' <=> Between(t, m)
    BY <1>17, <1>1 DEF IdleStart, At, Goto, Call, Between, callVars
  <2>3. QED BY <2>1, <2>2, ClaimsFrame
<1>18. ASSUME IdleBlock PROVE LockInv'
  <2>1. holder' = holder /\ \A m \in Locks : value'[m] = value[m]
    BY <1>18, <1>1 DEF IdleBlock, semaVars, lockVars
  <2>2. \A t \in Threads, m \in Locks : Between(t, m)' <=> Between(t, m)
    BY <1>18, <1>1 DEF IdleBlock, At, Goto, Between, callVars
  <2>3. QED BY <2>1, <2>2, ClaimsFrame
<1>19. ASSUME NEW n \in Nat, TimerSleep(n) PROVE LockInv'
  <2>1. holder' = holder /\ \A m \in Locks : value'[m] = value[m]
    BY <1>19, <1>1 DEF TimerSleep, semaVars, lockVars
  <2>2. \A t \in Threads, m \in Locks : Between(t, m)' <=> Between(t, m)
    BY <1>19, <1>1 DEF TimerSleep, At, Goto, Call, Between, callVars
  <2>3. QED BY <2>1, <2>2, ClaimsFrame
<1>20. ASSUME TimerInterrupt PROVE LockInv'
  <2>1. holder' = holder /\ \A m \in Locks : value'[m] = value[m]
    BY <1>20, <1>1 DEF TimerInterrupt, semaVars, lockVars
  <2>2. \A t \in Threads, m \in Locks : Between(t, m)' <=> Between(t, m)
    BY <1>20, <1>1 DEF TimerInterrupt, At, Goto, Between, callVars
  <2>3. QED BY <2>1, <2>2, ClaimsFrame
<1>21. ASSUME ReturnFromInterrupt PROVE LockInv'
  <2>1. holder' = holder /\ \A m \in Locks : value'[m] = value[m]
    BY <1>21, <1>1 DEF ReturnFromInterrupt, semaVars, lockVars
  <2>2. \A t \in Threads, m \in Locks : Between(t, m)' <=> Between(t, m)
    BY <1>21, <1>1 DEF ReturnFromInterrupt, At, Goto, Between, callVars
  <2>3. QED BY <2>1, <2>2, ClaimsFrame
<1>22. ASSUME UNCHANGED vars PROVE LockInv'
  <2>1. holder' = holder /\ \A m \in Locks : value'[m] = value[m]
    BY <1>22, <1>1 DEF semaVars, lockVars, vars
  <2>2. \A t \in Threads, m \in Locks : Between(t, m)' <=> Between(t, m)
    BY <1>22, <1>1 DEF At, Goto, Between, callVars, vars
  <2>3. QED BY <2>1, <2>2, ClaimsFrame
<1>23. ASSUME CreateUnblock PROVE LockInv'
  <2>1. holder' = holder /\ value' = value /\ arg' = arg
    BY <1>23 DEF CreateUnblock, semaVars, lockVars
  <2>2. \A t \in Threads : pc[t] \in {"up", "try_hold"} <=> pc'[t] \in {"up", "try_hold"}
    <3>1. child[current] \in Threads /\ pc[child[current]] = "none"
      BY <1>23, <1>1 DEF CreateUnblock, At, TypeInv, CallsWellFormed, NewbornsDormant
    <3>2. QED BY <1>23, <1>1, <3>1 DEF CreateUnblock, At
  <2>3. QED BY <2>1, <2>2, ClaimsFrame DEF Between
<1>24. ASSUME WakeSleeper PROVE LockInv'
  <2>1. Head(sleeping_threads) \in Threads
    BY <1>24, HeadTailProperties DEF WakeSleeper, SleeperDue, TypeInv, TypeOK, IntrTypeOK
  <2>2. \A m \in Locks : value'[m] = value[m]
    BY <1>24, <1>1, <2>1 DEF WakeSleeper, SemaUpBody
  <2>3. holder' = holder /\ pc' = pc /\ arg' = arg
    BY <1>24 DEF WakeSleeper, lockVars, callVars
  <2>4. QED BY <2>2, <2>3, ClaimsFrame DEF Between
<1>25. ASSUME Down PROVE LockInv'
  <2>1. ASSUME NEW l \in Locks, NEW t \in Threads, arg[current] = l, current = t,
               ~MustWait(l)
        PROVE  LockInv'
    <3>1. value[l] # 0
      BY <2>1 DEF MustWait
    <3>2. /\ value' = [value EXCEPT ![l] = value[l] - 1]
          /\ holder' = [holder EXCEPT ![l] = t]
          /\ arg' = [arg EXCEPT ![t] = NULL]
      BY <1>25, <2>1 DEF Down
    <3>3. \A u \in Threads, m \in Locks :
            u # t \/ m # l => (Between(u, m)' <=> Between(u, m))
      BY <1>25, <1>1, <2>1 DEF Down, At, Goto, Between
    <3>4. ~Between(t, l)'
      BY <1>1, <3>2 DEF Between
    <3>5. /\ value'[l] = value[l] - 1 /\ holder'[l] = t
          /\ \A m \in Locks \ {l} : value'[m] = value[m] /\ holder'[m] = holder[m]
      BY <1>1, <3>2
    <3>6. QED BY <3>1, <3>3, <3>4, <3>5, LockTaken
  <2>2. CASE ~(arg[current] \in Locks /\ ~MustWait(arg[current]))
    <3>1. holder' = holder /\ \A m \in Locks : value'[m] = value[m]
      BY <1>25, <1>1, <2>2 DEF Down, lockVars
    <3>2. \A t \in Threads, m \in Locks : Between(t, m)' <=> Between(t, m)
      BY <1>25, <1>1, <2>2 DEF Down, At, Goto, Between
    <3>3. QED BY <3>1, <3>2, ClaimsFrame
  <2>3. QED BY <1>1, <2>1, <2>2
<1>26. ASSUME NEW l \in Locks, LockTryAcquire(l) PROVE LockInv'
  <2>1. value[l] # 0 /\ value' = [value EXCEPT ![l] = value[l] - 1] /\ holder' = holder
    BY <1>26, <1>1 DEF LockTryAcquire, lockVars
  <2>2. \A t \in Threads, m \in Locks :
          t # current \/ m # l => (Between(t, m)' <=> Between(t, m))
    BY <1>26, <1>1 DEF LockTryAcquire, At, Goto, Call, Between
  <2>3. ASSUME NEW t \in Threads, t = current PROVE Between(t, l)'
    BY <1>26, <1>1, <2>3 DEF LockTryAcquire, Goto, Call, Between
  <2>4. /\ value'[l] = value[l] - 1
        /\ \A m \in Locks \ {l} : value'[m] = value[m]
    BY <1>1, <2>1
  <2>5. ASSUME NEW t \in Threads, t = current PROVE LockInv'
    BY <2>1, <2>2, <2>3, <2>4, <2>5, LockTaken
  <2>6. QED BY <1>1, <2>5
<1>27. ASSUME NEW l \in Locks, LockRelease(l) PROVE LockInv'
  <2>1. QED BY <1>27, LockGivenUp DEF LockRelease, At, semaVars
<1>28. ASSUME CreateRelease PROVE LockInv'
  <2>1. QED BY <1>28, LockGivenUp DEF CreateRelease, At, semaVars
<1>29. ASSUME TryHold PROVE LockInv'
  <2>1. arg[current] \in Locks /\ Between(current, arg[current]) /\ value' = value
    BY <1>29, <1>1 DEF TryHold, At, Between, TypeInv, CallsWellFormed, semaVars
  <2>2. \A u \in Threads, m \in Locks :
          Between(u, m)' <=> Between(u, m) /\ u # current
    BY <1>29, <1>1 DEF TryHold, Goto, Between
  <2>3. \A m \in Locks : holder'[m] = IF m = arg[current] THEN current ELSE holder[m]
    BY <1>29, <1>1 DEF TryHold
  <2>4. \A u \in Threads : Claims(u, arg[current]) <=> u = current
    BY <1>1, <2>1 DEF LockInv, LockOwnership, Claims, Between
  <2>5. \A u \in Threads, m \in Locks : Claims(u, m)' <=> Claims(u, m)
    <3>1. ASSUME NEW u \in Threads, NEW m \in Locks
          PROVE  /\ Claims(u, m) <=> holder[m] = u \/ Between(u, m)
                 /\ Claims(u, m)' <=> holder'[m] = u \/ Between(u, m)'
      BY DEF Claims, Between
    <3>2. \A m \in Locks : Between(current, m) <=> m = arg[current]
      BY <2>1 DEF Between
    <3>3. QED BY <1>1, <2>2, <2>3, <2>4, <3>1, <3>2
  <2>6. LockOwnership'
    BY <2>1, <2>5, ClaimsSame DEF LockInv
  <2>7. ClaimsApart'
    <3>1. ASSUME NEW u \in Threads, NEW m \in Locks, Between(u, m)'
          PROVE  holder'[m] # u
      <4>1. CASE m = arg[current]
        BY <2>2, <2>3, <3>1, <4>1
      <4>2. CASE m # arg[current]
        BY <2>2, <2>3, <3>1, <4>2 DEF LockInv, ClaimsApart, Between
      <4>3. QED BY <4>1, <4>2
    <3>2. QED BY <3>1 DEF ClaimsApart, Between
  <2>8. QED BY <2>6, <2>7 DEF LockInv
<1>30. ASSUME Up PROVE LockInv'
  <2>1. arg[current] \in Semas /\ pc[current] = "up"
    BY <1>30, <1>1 DEF Up, At, TypeInv, CallsWellFormed
  <2>2. /\ value' = [value EXCEPT ![arg[current]] = value[arg[current]] + 1]
        /\ holder' = holder
    BY <1>30 DEF Up, SemaUpBody, lockVars
  <2>3. \A u \in Threads, m \in Locks :
          Between(u, m)' <=> Between(u, m) /\ u # current
    BY <1>30, <1>1 DEF Up, Goto, Between
  <2>4. CASE arg[current] \notin Locks
    <3>1. \A m \in Locks : value'[m] = value[m]
      BY <1>1, <2>2, <2>4
    <3>2. \A m \in Locks : ~Between(current, m)
      BY <2>4 DEF Between
    <3>3. QED BY <2>2, <2>3, <3>1, <3>2, ClaimsFrame
  <2>5. CASE arg[current] \in Locks
    <3>1. \A m \in Locks : Between(current, m) <=> m = arg[current]
      BY <2>1 DEF Between
    <3>2. holder[arg[current]] # current /\ Claims(current, arg[current])
      BY <1>1, <2>1, <2>5 DEF LockInv, ClaimsApart, Claims
    <3>3. \A u \in Threads : Claims(u, arg[current]) <=> u = current
      BY <1>1, <2>5, <3>2 DEF LockInv, LockOwnership
    <3>4. value'[arg[current]] = 1
      BY <1>1, <2>1, <2>2, <2>5, <3>2 DEF LockInv, LockOwnership
    <3>5. ASSUME NEW u \in Threads, NEW m \in Locks
          PROVE  /\ Claims(u, m) <=> holder[m] = u \/ Between(u, m)
                 /\ Claims(u, m)' <=> holder[m] = u \/ (Between(u, m) /\ u # current)
      BY <2>2, <2>3 DEF Claims, Between
    <3>6. \A u \in Threads, m \in Locks : m = arg[current] => ~Claims(u, m)'
      BY <2>5, <3>2, <3>3, <3>5
    <3>7. \A u \in Threads, m \in Locks \ {arg[current]} : Claims(u, m)' <=> Claims(u, m)
      BY <3>1, <3>5
    <3>8. LockOwnership'
      <4>1. ASSUME NEW m \in Locks
            PROVE  /\ \A u, v \in Threads : Claims(u, m)' /\ Claims(v, m)' => u = v
                   /\ value'[m] = IF \E u \in Threads : Claims(u, m)' THEN 0 ELSE 1
        <5>1. CASE m = arg[current]
          BY <3>4, <3>6, <5>1
        <5>2. CASE m # arg[current]
          <6>1. value'[m] = value[m]
            BY <1>1, <2>2, <5>2
          <6>2. QED BY <3>7, <5>2, <6>1 DEF LockInv, LockOwnership
        <5>3. QED BY <5>1, <5>2
      <4>2. QED BY <4>1 DEF LockOwnership
    <3>9. ClaimsApart'
      BY <2>2, <2>3 DEF LockInv, ClaimsApart, Between
    <3>10. QED BY <3>8, <3>9 DEF LockInv
  <2>6. QED BY <2>4, <2>5
<1>31. QED
  <2>1. ASSUME Request PROVE LockInv'
    BY <2>1, KernelAssumption, <1>10, <1>7, <1>8, <1>9, <1>11, <1>12, <1>13,
       <1>14, <1>27, <1>26 DEF Request
  <2>2. ASSUME Progress PROVE LockInv'
    BY <2>2, <1>25, <1>30, <1>2, <1>3, <1>4, <1>5, <1>6, <1>29, <1>28, <1>23 DEF Progress
  <2>3. CASE Boot
    BY <2>3, <1>15, <1>16, <1>17 DEF Boot
  <2>4. CASE Interrupt
    BY <2>4, <1>20, <1>24, <1>21 DEF Interrupt
  <2>5. QED
    BY <2>1, <2>2, <2>3, <2>4, KernelAssumption, <1>19, <1>18, <1>22 DEF Next

LEMMA LockInvInit == Init => LockInv
<1> SUFFICES ASSUME Init PROVE LockInv
  OBVIOUS
<1>1. \A t \in Threads, l \in Locks :
        ~Claims(t, l) /\ value[l] = 1 /\ holder[l] # t
  BY ThreadsAssumption, SynchAssumption DEF Init, Claims, Semas
<1>2. LockOwnership
  <2>1. ASSUME NEW l \in Locks
        PROVE  value[l] = 1 /\ ~ \E t \in Threads : Claims(t, l)
    BY <1>1, ThreadsAssumption
  <2>2. QED BY <1>1, <2>1 DEF LockOwnership
<1>3. ClaimsApart
  BY <1>1 DEF ClaimsApart
<1>4. QED BY <1>2, <1>3 DEF LockInv

(* A lock has at most one owner, and its semaphore is up exactly when it   *)
(* has none, in every interleaving of lock_acquire, lock_try_acquire and   *)
(* lock_release.                                                           *)
THEOREM MutualExclusion == Spec => []LockOwnership
<1>1. Init => TypeInv
  BY TypeInvInit
<1>2. Init => LockInv
  BY LockInvInit
<1>3. TypeInv /\ LockInv /\ [Next]_vars => TypeInv' /\ LockInv'
  BY TypeInvStep, LockInvStep
<1>4. LockInv => LockOwnership
  BY DEF LockInv
<1>5. QED BY <1>1, <1>2, <1>3, <1>4, PTL DEF Spec

-----------------------------------------------------------------------------
(* A step that changes no priority and stores none.                        *)
LEMMA FloorFrame ==
  ASSUME FloorInv, UNCHANGED << priority, defaultPriority, newPriority >>,
         \A t \in Threads : pc'[t] = "assign" => pc[t] = "assign"
  PROVE  FloorInv'
BY DEF FloorInv, DonationFloor, StoreFloor

(* Every step keeps the floor.                                             *)
LEMMA FloorInvStep ==
  ASSUME TypeInv, FloorInv, [Next]_vars PROVE FloorInv'
<1>1. /\ current \in Threads /\ pc \in [Threads -> Labels]
      /\ ret \in [Threads -> {"run", "idle_loop", "create_release", "create_unblock"}]
      /\ priority \in [Threads -> Prio] /\ defaultPriority \in [Threads -> Prio]
      /\ newPriority \in [Threads -> Prio]
  BY DEF TypeInv, TypeOK, RunTypeOK, CallTypeOK, PrioTypeOK
<1>2. \A p \in Prio : p \in Int
  BY ThreadsAssumption DEF Prio
<1>3. ASSUME Down PROVE FloorInv'
  <2>1. UNCHANGED << priority, defaultPriority, newPriority >>
    BY <1>3 DEF Down, prioVars, callVars
  <2>2. \A t \in Threads : pc'[t] = "assign" => pc[t] = "assign"
    BY <1>3, <1>1 DEF Down, At, Goto
  <2>3. QED BY <2>1, <2>2, FloorFrame
<1>4. ASSUME Up PROVE FloorInv'
  <2>1. UNCHANGED << priority, defaultPriority, newPriority >>
    BY <1>4 DEF Up, prioVars, callVars
  <2>2. \A t \in Threads : pc'[t] = "assign" => pc[t] = "assign"
    BY <1>4, <1>1 DEF Up, At, Goto
  <2>3. QED BY <2>1, <2>2, FloorFrame
<1>5. ASSUME YieldIfNecessary PROVE FloorInv'
  <2>1. UNCHANGED << priority, defaultPriority, newPriority >>
    BY <1>5 DEF YieldIfNecessary, prioVars, callVars
  <2>2. \A t \in Threads : pc'[t] = "assign" => pc[t] = "assign"
    BY <1>5, <1>1 DEF YieldIfNecessary, At, Goto, AfterYield
  <2>3. QED BY <2>1, <2>2, FloorFrame
<1>6. ASSUME YieldNow PROVE FloorInv'
  <2>1. UNCHANGED << priority, defaultPriority, newPriority >>
    BY <1>6 DEF YieldNow, prioVars, callVars
  <2>2. \A t \in Threads : pc'[t] = "assign" => pc[t] = "assign"
    BY <1>6, <1>1 DEF YieldNow, At, Goto, AfterYield
  <2>3. QED BY <2>1, <2>2, FloorFrame
<1>7. ASSUME TryHold PROVE FloorInv'
  <2>1. UNCHANGED << priority, defaultPriority, newPriority >>
    BY <1>7 DEF TryHold, prioVars, callVars
  <2>2. \A t \in Threads : pc'[t] = "assign" => pc[t] = "assign"
    BY <1>7, <1>1 DEF TryHold, At, Goto
  <2>3. QED BY <2>1, <2>2, FloorFrame
<1>8. ASSUME CreateRelease PROVE FloorInv'
  <2>1. UNCHANGED << priority, defaultPriority, newPriority >>
    BY <1>8 DEF CreateRelease, LockReleaseHead, prioVars, callVars
  <2>2. \A t \in Threads : pc'[t] = "assign" => pc[t] = "assign"
    BY <1>8, <1>1 DEF CreateRelease, At, Goto, LockReleaseHead
  <2>3. QED BY <2>1, <2>2, FloorFrame
<1>9. ASSUME Exit PROVE FloorInv'
  <2>1. UNCHANGED << priority, defaultPriority, newPriority >>
    BY <1>9 DEF Exit, prioVars, callVars
  <2>2. \A t \in Threads : pc'[t] = "assign" => pc[t] = "assign"
    BY <1>9, <1>1 DEF Exit, At, Goto
  <2>3. QED BY <2>1, <2>2, FloorFrame
<1>10. ASSUME Yield PROVE FloorInv'
  <2>1. UNCHANGED << priority, defaultPriority, newPriority >>
    BY <1>10 DEF Yield, prioVars, callVars
  <2>2. \A t \in Threads : pc'[t] = "assign" => pc[t] = "assign"
    BY <1>10, <1>1 DEF Yield, At, Goto
  <2>3. QED BY <2>1, <2>2, FloorFrame
<1>11. ASSUME NEW s \in Semaphores, SemaDown(s) PROVE FloorInv'
  <2>1. UNCHANGED << priority, defaultPriority, newPriority >>
    BY <1>11 DEF SemaDown, prioVars, callVars
  <2>2. \A t \in Threads : pc'[t] = "assign" => pc[t] = "assign"
    BY <1>11, <1>1 DEF SemaDown, At, Goto
  <2>3. QED BY <2>1, <2>2, FloorFrame
<1>12. ASSUME NEW s \in Semaphores, SemaUp(s) PROVE FloorInv'
  <2>1. UNCHANGED << priority, defaultPriority, newPriority >>
    BY <1>12 DEF SemaUp, prioVars, callVars
  <2>2. \A t \in Threads : pc'[t] = "assign" => pc[t] = "assign"
    BY <1>12, <1>1 DEF SemaUp, At, Goto
  <2>3. QED BY <2>1, <2>2, FloorFrame
<1>13. ASSUME NEW s \in Semaphores, SemaTryDown(s) PROVE FloorInv'
  <2>1. UNCHANGED << priority, defaultPriority, newPriority >>
    BY <1>13 DEF SemaTryDown, prioVars, callVars
  <2>2. \A t \in Threads : pc'[t] = "assign" => pc[t] = "assign"
    BY <1>13, <1>1 DEF SemaTryDown, At, Goto
  <2>3. QED BY <2>1, <2>2, FloorFrame
<1>14. ASSUME NEW l \in Locks, LockAcquire(l) PROVE FloorInv'
  <2>1. UNCHANGED << priority, defaultPriority, newPriority >>
    BY <1>14 DEF LockAcquire, LockAcquireHead, prioVars, callVars
  <2>2. \A t \in Threads : pc'[t] = "assign" => pc[t] = "assign"
    BY <1>14, <1>1 DEF LockAcquire, At, Goto, LockAcquireHead
  <2>3. QED BY <2>1, <2>2, FloorFrame
<1>15. ASSUME NEW l \in Locks, LockTryAcquire(l) PROVE FloorInv'
  <2>1. UNCHANGED << priority, defaultPriority, newPriority >>
    BY <1>15 DEF LockTryAcquire, prioVars, callVars
  <2>2. \A t \in Threads : pc'[t] = "assign" => pc[t] = "assign"
    BY <1>15, <1>1 DEF LockTryAcquire, At, Goto
  <2>3. QED BY <2>1, <2>2, FloorFrame
<1>16. ASSUME NEW l \in Locks, LockRelease(l) PROVE FloorInv'
  <2>1. UNCHANGED << priority, defaultPriority, newPriority >>
    BY <1>16 DEF LockRelease, LockReleaseHead, prioVars, callVars
  <2>2. \A t \in Threads : pc'[t] = "assign" => pc[t] = "assign"
    BY <1>16, <1>1 DEF LockRelease, At, Goto, LockReleaseHead
  <2>3. QED BY <2>1, <2>2, FloorFrame
<1>17. ASSUME ThreadStart PROVE FloorInv'
  <2>1. UNCHANGED << priority, defaultPriority, newPriority >>
    BY <1>17 DEF ThreadStart, prioVars, callVars
  <2>2. \A t \in Threads : pc'[t] = "assign" => pc[t] = "assign"
    BY <1>17, <1>1 DEF ThreadStart, At, Goto
  <2>3. QED BY <2>1, <2>2, FloorFrame
<1>18. ASSUME WaitForIdle PROVE FloorInv'
  <2>1. UNCHANGED << priority, defaultPriority, newPriority >>
    BY <1>18 DEF WaitForIdle, prioVars, callVars
  <2>2. \A t \in Threads : pc'[t] = "assign" => pc[t] = "assign"
    BY <1>18, <1>1 DEF WaitForIdle, At, Goto
  <2>3. QED BY <2>1, <2>2, FloorFrame
<1>19. ASSUME IdleStart PROVE FloorInv'
  <2>1. UNCHANGED << priority, defaultPriority, newPriority >>
    BY <1>19 DEF IdleStart, prioVars, callVars
  <2>2. \A t \in Threads : pc'[t] = "assign" => pc[t] = "assign"
    BY <1>19, <1>1 DEF IdleStart, At, Goto
  <2>3. QED BY <2>1, <2>2, FloorFrame
<1>20. ASSUME IdleBlock PROVE FloorInv'
  <2>1. UNCHANGED << priority, defaultPriority, newPriority >>
    BY <1>20 DEF IdleBlock, prioVars, callVars
  <2>2. \A t \in Threads : pc'[t] = "assign" => pc[t] = "assign"
    BY <1>20, <1>1 DEF IdleBlock, At, Goto
  <2>3. QED BY <2>1, <2>2, FloorFrame
<1>21. ASSUME NEW n \in Nat, TimerSleep(n) PROVE FloorInv'
  <2>1. UNCHANGED << priority, defaultPriority, newPriority >>
    BY <1>21 DEF TimerSleep, prioVars, callVars
  <2>2. \A t \in Threads : pc'[t] = "assign" => pc[t] = "assign"
    BY <1>21, <1>1 DEF TimerSleep, At, Goto
  <2>3. QED BY <2>1, <2>2, FloorFrame
<1>22. ASSUME TimerInterrupt PROVE FloorInv'
  <2>1. UNCHANGED << priority, defaultPriority, newPriority >>
    BY <1>22 DEF TimerInterrupt, prioVars, callVars
  <2>2. \A t \in Threads : pc'[t] = "assign" => pc[t] = "assign"
    BY <1>22, <1>1 DEF TimerInterrupt, At, Goto
  <2>3. QED BY <2>1, <2>2, FloorFrame
<1>23. ASSUME WakeSleeper PROVE FloorInv'
  <2>1. UNCHANGED << priority, defaultPriority, newPriority >>
    BY <1>23 DEF WakeSleeper, prioVars, callVars
  <2>2. \A t \in Threads : pc'[t] = "assign" => pc[t] = "assign"
    BY <1>23, <1>1 DEF WakeSleeper, At, Goto
  <2>3. QED BY <2>1, <2>2, FloorFrame
<1>24. ASSUME ReturnFromInterrupt PROVE FloorInv'
  <2>1. UNCHANGED << priority, defaultPriority, newPriority >>
    BY <1>24 DEF ReturnFromInterrupt, prioVars, callVars
  <2>2. \A t \in Threads : pc'[t] = "assign" => pc[t] = "assign"
    BY <1>24, <1>1 DEF ReturnFromInterrupt, At, Goto
  <2>3. QED BY <2>1, <2>2, FloorFrame
<1>25. ASSUME UNCHANGED vars PROVE FloorInv'
  <2>1. UNCHANGED << priority, defaultPriority, newPriority >>
    BY <1>25 DEF prioVars, callVars, vars
  <2>2. \A t \in Threads : pc'[t] = "assign" => pc[t] = "assign"
    BY <1>25, <1>1 DEF vars
  <2>3. QED BY <2>1, <2>2, FloorFrame
<1>26. ASSUME CreateUnblock PROVE FloorInv'
  <2>1. UNCHANGED << priority, defaultPriority, newPriority >>
    BY <1>26 DEF CreateUnblock, prioVars
  <2>2. \A t \in Threads : pc'[t] = "assign" => pc[t] = "assign"
    BY <1>26, <1>1 DEF CreateUnblock, At
  <2>3. QED BY <2>1, <2>2, FloorFrame
<1>27. ASSUME Donate PROVE FloorInv'
  <2>1. \A t \in Threads : priority[t] <= priority'[t]
    BY <1>27, <1>1, <1>2 DEF Donate, CanRaise
  <2>2. UNCHANGED << defaultPriority, newPriority >>
    BY <1>27 DEF Donate
  <2>3. \A t \in Threads : pc'[t] = "assign" => pc[t] = "assign"
    BY <1>27, <1>1 DEF Donate, At, Goto
  <2>4. priority' \in [Threads -> Prio]
    BY <1>27, <1>1 DEF Donate
  <2>5. QED BY <1>1, <1>2, <2>1, <2>2, <2>3, <2>4 DEF FloorInv, DonationFloor, StoreFloor
<1>28. ASSUME Recalculate PROVE FloorInv'
  <2>1. PICK m \in Maxima(DonatedPriorities(current, defaultPriority[current])) :
          newPriority' = [newPriority EXCEPT ![current] = m]
    BY <1>28 DEF Recalculate
  <2>2. defaultPriority[current] <= m
    BY <1>1, MaximaLemma
  <2>3. UNCHANGED << priority, defaultPriority >>
    BY <1>28 DEF Recalculate, prioVars
  <2>4. QED BY <1>28, <1>1, <2>1, <2>2, <2>3 DEF Recalculate, Goto, FloorInv, DonationFloor, StoreFloor
<1>29. ASSUME AssignPriority PROVE FloorInv'
  <2>1. QED
    BY <1>29, <1>1 DEF AssignPriority, At, Goto, FloorInv, DonationFloor, StoreFloor
<1>30. ASSUME NEW p \in Prio, SetPriority(p) PROVE FloorInv'
  <2>1. PICK m \in Maxima(DonatedPriorities(current, p)) :
          priority' = [priority EXCEPT ![current] = m]
    BY <1>30 DEF SetPriority
  <2>2. p <= m
    BY <1>1, MaximaLemma
  <2>3. QED BY <1>30, <1>1, <2>1, <2>2 DEF SetPriority, Goto, FloorInv, DonationFloor, StoreFloor
<1>31. ASSUME NEW u \in Threads, NEW p \in Prio, ThreadCreate(u, p) PROVE FloorInv'
  <2>1. pc[u] = "none" /\ u # current
    BY <1>31, <1>1 DEF ThreadCreate, At, TypeInv, NewbornsDormant
  <2>2. QED
    BY <1>31, <1>1, <1>2, <2>1 DEF ThreadCreate, LockAcquireHead, Goto, FloorInv,
           DonationFloor, StoreFloor
<1>32. QED
  <2>1. ASSUME Request PROVE FloorInv'
    BY <2>1, KernelAssumption, <1>31, <1>9, <1>10, <1>30, <1>11, <1>12, <1>13,
       <1>14, <1>16, <1>15 DEF Request
  <2>2. ASSUME Progress PROVE FloorInv'
    BY <2>2, <1>3, <1>4, <1>5, <1>6, <1>27, <1>28, <1>29, <1>7, <1>8, <1>26 DEF Progress
  <2>3. CASE Boot
    BY <2>3, <1>17, <1>18, <1>19 DEF Boot
  <2>4. CASE Interrupt
    BY <2>4, <1>22, <1>23, <1>24 DEF Interrupt
  <2>5. QED
    BY <2>1, <2>2, <2>3, <2>4, KernelAssumption, <1>21, <1>20, <1>25 DEF Next

LEMMA FloorInvInit == Init => FloorInv
BY ThreadsAssumption DEF Init, FloorInv, DonationFloor, StoreFloor

(* No donation, and no store of a priority computed before one, takes a    *)
(* thread below the priority it was given or has set itself.               *)
THEOREM PriorityFloor == Spec => []DonationFloor
<1>1. Init => TypeInv
  BY TypeInvInit
<1>2. Init => FloorInv
  BY FloorInvInit
<1>3. TypeInv /\ FloorInv /\ [Next]_vars => TypeInv' /\ FloorInv'
  BY TypeInvStep, FloorInvStep
<1>4. FloorInv => DonationFloor
  BY DEF FloorInv
<1>5. QED BY <1>1, <1>2, <1>3, <1>4, PTL DEF Spec

(* The lock, the donation and the type part hold together: the state every *)
(* handler of the kernel may rely on, for any number of threads and locks. *)
THEOREM KernelInvariant == Spec => []KernelInv
<1>1. Init => KernelInv
  BY TypeInvInit, LockInvInit, FloorInvInit DEF KernelInv
<1>2. KernelInv /\ [Next]_vars => KernelInv'
  BY TypeInvStep, LockInvStep, FloorInvStep DEF KernelInv
<1>3. QED BY <1>1, <1>2, PTL DEF Spec

-----------------------------------------------------------------------------
(* Donations are returned.                                                 *)

(* The places of lock_release after the lock is free.                      *)
Releasing == {"rel_yield", "rel_thread_yield", "recalc", "assign"}

(* A thread that owns no lock has its own priority, unless it is on its    *)
(* way through lock_release to storing just that.                          *)
Repaid(t) ==
  OwnedLocks(t) = {} =>
    /\ \/ priority[t] = defaultPriority[t]
       \/ pc[t] \in Releasing
       \/ pc[t] = "up" /\ arg[t] \in Locks
    /\ pc[t] = "assign" => newPriority[t] = defaultPriority[t]

(* Only the running thread is in donate, and whom it is about to raise, if *)
(* not itself, owns a lock.                                                *)
RaisesOwner(t) ==
  pc[t] = "donate" => /\ t = current
                      /\ donee \in {NULL, t} \/ \E l \in Locks : holder[l] = donee

RepaidInv == \A t \in Threads : Repaid(t) /\ RaisesOwner(t)

(* What a step of c may do to another thread.                              *)
KeepsRepaid(c) ==
  \A t \in Threads \ {c} :
    \/ /\ OwnedLocks(t)' = OwnedLocks(t)
       /\ OwnedLocks(t) = {} => priority'[t] = priority[t]
       /\ defaultPriority'[t] = defaultPriority[t] /\ newPriority'[t] = newPriority[t]
       /\ pc'[t] = pc[t] /\ arg'[t] = arg[t]
    \/ Repaid(t)' /\ pc'[t] # "donate"

Repays(c) == KeepsRepaid(c) /\ Repaid(c)' /\ RaisesOwner(c)'

(* A step of the running thread that keeps the others repaid.              *)
LEMMA RepaidFrame ==
  ASSUME RepaidInv, NEW c \in Threads, c = current, Repays(c) PROVE RepaidInv'
<1>1. ASSUME NEW t \in Threads PROVE Repaid(t)' /\ RaisesOwner(t)'
  <2>1. Repaid(t) /\ RaisesOwner(t)
    BY DEF RepaidInv
  <2>2. CASE t = c
    BY <2>2 DEF Repays
  <2>3. CASE t # c
    BY <2>1, <2>3 DEF Repays, KeepsRepaid, Repaid, RaisesOwner
  <2>4. QED BY <2>2, <2>3
<1>2. QED BY <1>1 DEF RepaidInv

(* Without waiters to take a maximum over, the maximum is the base.        *)
LEMMA NoDonors ==
  ASSUME NEW t, NEW base, OwnedLocks(t) = {}
  PROVE  \A m \in Maxima(DonatedPriorities(t, base)) : m = base
BY DEF Maxima, DonatedPriorities

(* The calls a client starts.                                              *)
LEMMA RequestRepays ==
  ASSUME TypeInv, RepaidInv, NEW c \in Threads, c = current, Request
  PROVE  Repays(c)
<1>1. Repaid(c) /\ RaisesOwner(c) /\ TidLock \in Locks /\ Semaphores \cap Locks = {}
  BY SynchAssumption DEF RepaidInv
<1>2. /\ holder \in [Locks -> Threads \cup {NULL}] /\ NULL \notin Threads
      /\ pc \in [Threads -> Labels] /\ arg \in [Threads -> Semas \cup {NULL}]
      /\ priority \in [Threads -> Prio] /\ defaultPriority \in [Threads -> Prio]
  BY ThreadsAssumption DEF TypeInv, TypeOK, PrioTypeOK, SyncTypeOK, CallTypeOK
<1> USE DEF Repays, KeepsRepaid, Repaid, RaisesOwner, Releasing, OwnedLocks, At, Goto, Call,
            runVars, prioVars, intrVars, semaVars, lockVars, callVars
<1>3. ASSUME NEW u \in Threads, NEW p \in Priorities, ThreadCreate(u, p) PROVE Repays(c)
  <2>1. u # c /\ pc[u] = "none"
    BY <1>2, <1>3, ThreadsAssumption DEF ThreadCreate, TypeInv, NewbornsDormant
  <2>2. QED BY <1>1, <1>2, <1>3, <2>1 DEF ThreadCreate, LockAcquireHead
<1>4. CASE Exit
  BY <1>1, <1>2, <1>4 DEF Exit
<1>5. CASE Yield
  BY <1>1, <1>2, <1>5 DEF Yield
<1>6. ASSUME NEW p \in Priorities, SetPriority(p) PROVE Repays(c)
  <2>1. PICK m \in Maxima(DonatedPriorities(c, p)) : priority' = [priority EXCEPT ![c] = m]
    BY <1>6 DEF SetPriority
  <2>2. OwnedLocks(c) = {} => m = p
    BY NoDonors
  <2>3. QED BY <1>1, <1>2, <1>6, <2>1, <2>2 DEF SetPriority
<1>7. ASSUME NEW s \in Semaphores, SemaDown(s) \/ SemaUp(s) PROVE Repays(c)
  BY <1>1, <1>2, <1>7 DEF SemaDown, SemaUp
<1>8. ASSUME NEW s \in Semaphores, SemaTryDown(s) PROVE Repays(c)
  BY <1>1, <1>2, <1>8 DEF SemaTryDown
<1>9. ASSUME NEW l \in Locks, LockAcquire(l) PROVE Repays(c)
  BY <1>1, <1>2, <1>9 DEF LockAcquire, LockAcquireHead
<1>10. ASSUME NEW l \in Locks, LockRelease(l) PROVE Repays(c)
  BY <1>1, <1>2, <1>10 DEF LockRelease, LockReleaseHead
<1>11. ASSUME NEW l \in Locks, LockTryAcquire(l) PROVE Repays(c)
  BY <1>1, <1>2, <1>11 DEF LockTryAcquire
<1> HIDE DEF Repays
<1>12. QED BY <1>3, <1>4, <1>5, <1>6, <1>7, <1>8, <1>9, <1>10, <1>11 DEF Request

(* donate raises the thread itself, to the priority it has, and then the   *)
(* owners of locks.                                                        *)
LEMMA DonateRepays ==
  ASSUME TypeInv, RepaidInv, NEW c \in Threads, c = current, Donate
  PROVE  Repays(c)
<1>1. Repaid(c) /\ RaisesOwner(c)
  BY DEF RepaidInv
<1>2. /\ holder \in [Locks -> Threads \cup {NULL}] /\ NULL \notin Threads
      /\ pc \in [Threads -> Labels] /\ waitingFor \in [Threads -> Locks \cup {NULL}]
      /\ priority \in [Threads -> Prio] /\ donee \in Threads \cup {NULL}
  BY ThreadsAssumption DEF TypeInv, TypeOK, PrioTypeOK, SyncTypeOK, CallTypeOK
<1>3. /\ pc[c] = "donate"
      /\ UNCHANGED << current, holder, defaultPriority, newPriority, arg >>
      /\ pc' = pc \/ pc' = [pc EXCEPT ![c] = "down"]
  BY DEF Donate, At, Goto, lockVars
<1>4. \A t \in Threads : OwnedLocks(t)' = OwnedLocks(t)
  BY <1>3 DEF OwnedLocks
<1>5. \A t \in Threads : OwnedLocks(t) = {} => priority'[t] = priority[t]
  <2>1. CASE priority' = priority
    BY <2>1
  <2>2. CASE donee # NULL /\ priority' = [priority EXCEPT ![donee] = priority[c]]
    BY <1>1, <1>2, <1>3, <2>2 DEF RaisesOwner, OwnedLocks
  <2>3. QED BY <2>1, <2>2 DEF Donate, CanRaise
<1>6. pc'[c] = "donate" => \E l \in Locks : donee' \in {NULL, holder[l]}
  <2>1. CASE pc' = [pc EXCEPT ![c] = "down"]
    BY <1>2, <2>1
  <2>2. CASE waitingFor[donee] # NULL /\ donee # NULL /\ donee' = holder[waitingFor[donee]]
    BY <1>2, <2>2
  <2>3. QED BY <2>1, <2>2 DEF Donate, CanRaise, Goto
<1>7. KeepsRepaid(c)
  BY <1>2, <1>3, <1>4, <1>5 DEF KeepsRepaid
<1>8. Repaid(c)' /\ RaisesOwner(c)'
  BY <1>1, <1>2, <1>3, <1>4, <1>5, <1>6 DEF Repaid, RaisesOwner, Releasing
<1>9. QED BY <1>7, <1>8 DEF Repays

(* The rest of a call.                                                     *)
LEMMA ProgressRepays ==
  ASSUME TypeInv, LockInv, RepaidInv, NEW c \in Threads, c = current, Progress, ~Donate
  PROVE  Repays(c)
<1>1. Repaid(c) /\ RaisesOwner(c) /\ TidLock \in Locks
  BY SynchAssumption DEF RepaidInv
<1>2. /\ holder \in [Locks -> Threads \cup {NULL}] /\ NULL \notin Threads
      /\ pc \in [Threads -> Labels] /\ arg \in [Threads -> Semas \cup {NULL}]
      /\ priority \in [Threads -> Prio] /\ newPriority \in [Threads -> Prio]
      /\ ret[c] \notin Releasing \cup {"donate", "up"}
  BY ThreadsAssumption DEF TypeInv, TypeOK, PrioTypeOK, SyncTypeOK, CallTypeOK, Releasing
<1> USE DEF Repays, KeepsRepaid, Repaid, RaisesOwner, Releasing, OwnedLocks, At, Goto, Call,
            runVars, prioVars, intrVars, semaVars, lockVars, callVars
<1>3. CASE Down
  <2>0. arg[c] \in Locks /\ ~MustWait(arg[c]) => holder[arg[c]] = NULL
    BY <1>2 DEF LockInv, LockOwnership, Claims, MustWait
  <2>1. \/ UNCHANGED << pc, arg, holder >>
        \/ /\ pc' = [pc EXCEPT ![c] = ret[c]] /\ arg' = [arg EXCEPT ![c] = NULL]
           /\ holder' = holder \/ \E l \in Locks : /\ holder' = [holder EXCEPT ![l] = c]
                                                   /\ holder[l] \in {NULL, c}
    BY <1>3, <2>0 DEF Down
  <2>2. QED BY <1>1, <1>2, <1>3, <2>1 DEF Down
<1>4. CASE Up
  BY <1>1, <1>2, <1>4 DEF Up
<1>5. CASE YieldIfNecessary
  BY <1>1, <1>2, <1>5 DEF YieldIfNecessary, AfterYield
<1>6. CASE YieldNow
  BY <1>1, <1>2, <1>6 DEF YieldNow, AfterYield
<1>7. CASE Recalculate
  <2>1. PICK m \in Maxima(DonatedPriorities(c, defaultPriority[c])) :
          newPriority' = [newPriority EXCEPT ![c] = m]
    BY <1>7 DEF Recalculate
  <2>2. OwnedLocks(c) = {} => m = defaultPriority[c]
    BY NoDonors
  <2>3. QED BY <1>1, <1>2, <1>7, <2>1, <2>2 DEF Recalculate
<1>8. CASE AssignPriority
  BY <1>1, <1>2, <1>8 DEF AssignPriority
<1>9. CASE TryHold
  <2>1. arg[c] \in Locks /\ holder[arg[c]] = NULL
    <3>1. arg[c] \in Locks /\ Claims(c, arg[c]) /\ holder[arg[c]] # c
      BY <1>9 DEF TryHold, TypeInv, CallsWellFormed, LockInv, ClaimsApart, Claims
    <3>2. \A t \in Threads : holder[arg[c]] = t => t = c
      BY <3>1 DEF LockInv, LockOwnership, Claims
    <3>3. QED BY <1>2, <3>1, <3>2
  <2>2. QED BY <1>1, <1>2, <1>9, <2>1 DEF TryHold
<1>10. CASE CreateRelease
  BY <1>1, <1>2, <1>10 DEF CreateRelease, LockReleaseHead
<1>11. CASE CreateUnblock
  <2>1. PICK k \in Threads : k = child[c] /\ pc[k] = "none" /\ k # c
    BY <1>2, <1>11 DEF CreateUnblock, TypeInv, CallsWellFormed, NewbornsDormant
  <2>2. Repaid(k)
    BY DEF RepaidInv
  <2>3. pc' = [pc EXCEPT ![c] = "yield", ![k] = "run"] /\ pc[c] = "create_unblock"
    BY <1>11, <2>1 DEF CreateUnblock
  <2>4. /\ pc'[c] = "yield" /\ pc'[k] = "run" /\ \A t \in Threads \ {c, k} : pc'[t] = pc[t]
    BY <1>2, <2>1, <2>3
  <2>5. UNCHANGED << priority, defaultPriority, newPriority, holder, arg >>
    BY <1>11 DEF CreateUnblock
  <2>6. Repaid(k)' /\ Repaid(c)'
    BY <1>1, <2>1, <2>2, <2>3, <2>4, <2>5
  <2>7. QED BY <2>4, <2>5, <2>6
<1> HIDE DEF Repays
<1>12. QED BY <1>3, <1>4, <1>5, <1>6, <1>7, <1>8, <1>9, <1>10, <1>11 DEF Progress

(* The boot sequence, idle and the clock.                                  *)
LEMMA BootRepays ==
  ASSUME TypeInv, RepaidInv, NEW c \in Threads, c = current,
         Boot \/ IdleBlock \/ Interrupt \/ \E n \in Naps : TimerSleep(n)
  PROVE  Repays(c)
<1>1. Repaid(c) /\ RaisesOwner(c) /\ IdleStarted \in Semaphores /\ Semaphores \cap Locks = {}
  BY SynchAssumption DEF RepaidInv
<1>2. /\ pc \in [Threads -> Labels] /\ arg \in [Threads -> Semas \cup {NULL}]
      /\ in_intr => pc[c] \notin IntrOff
  BY DEF TypeInv, TypeOK, CallTypeOK, IdleReady
<1> USE DEF Repays, KeepsRepaid, Repaid, RaisesOwner, Releasing, OwnedLocks, At, Goto, Call,
            runVars, prioVars, intrVars, semaVars, lockVars, callVars
<1>3. CASE Boot \/ IdleBlock
  BY <1>1, <1>2, <1>3 DEF Boot, ThreadStart, WaitForIdle, IdleStart, IdleBlock
<1>4. CASE TimerInterrupt \/ WakeSleeper
  BY <1>1, <1>2, <1>4 DEF TimerInterrupt, WakeSleeper, IntrOff
<1>5. CASE ReturnFromInterrupt
  BY <1>1, <1>2, <1>5 DEF ReturnFromInterrupt, IntrOff
<1>6. ASSUME NEW n \in Naps, TimerSleep(n) PROVE Repays(c)
  BY <1>1, <1>2, <1>6 DEF TimerSleep
<1> HIDE DEF Repays
<1>7. QED BY <1>3, <1>4, <1>5, <1>6 DEF Interrupt

(* At boot nobody has donated.                                             *)
LEMMA RepaidInvInit == Init => RepaidInv
BY ThreadsAssumption DEF Init, RepaidInv, Repaid, RaisesOwner

(* No step leaves a donation behind.                                       *)
LEMMA RepaidInvStep ==
  ASSUME TypeInv, LockInv, RepaidInv, [Next]_vars PROVE RepaidInv'
<1>1. PICK c \in Threads : c = current
  BY DEF TypeInv, TypeOK, RunTypeOK
<1>2. CASE UNCHANGED vars
  BY <1>2 DEF vars, runVars, prioVars, lockVars, callVars, RepaidInv, Repaid, RaisesOwner,
              OwnedLocks
<1>3. CASE Next
  BY <1>1, <1>3, RequestRepays, DonateRepays, ProgressRepays, BootRepays, RepaidFrame DEF Next
<1>4. QED BY <1>2, <1>3

(* lock_release hands every donation back: client code that owns no lock   *)
(* runs at its own priority, whoever donated while it did.                 *)
THEOREM DonationsAreReturned == Spec => []DonationReturned
<1>1. Init => TypeInv /\ LockInv /\ RepaidInv
  BY TypeInvInit, LockInvInit, RepaidInvInit
<1>2. TypeInv /\ LockInv /\ RepaidInv /\ [Next]_vars
      => (TypeInv /\ LockInv /\ RepaidInv)'
  BY TypeInvStep, LockInvStep, RepaidInvStep
<1>3. RepaidInv => DonationReturned
  BY DEF RepaidInv, Repaid, Releasing, DonationReturned
<1>4. QED BY <1>1, <1>2, <1>3, PTL DEF Spec

-----------------------------------------------------------------------------
(* The refinement.                                                         *)

(* What the refinement mapping says a thread waits to obtain.              *)
Asks(t) == IF pc[t] \in {"donate", "down"} THEN arg[t] ELSE NULL

Tokens == Semas \ Locks

SameClaims(l) == \A t \in Threads : Claims(t, l)' <=> Claims(t, l)
SameCounts    == \A s \in Tokens : value'[s] = value[s]
SameAsks(T)   == \A t \in T : Asks(t)' = Asks(t)

(* The only thread of a set that has at most one.                          *)
Only(S) == IF S = {} THEN NULL ELSE CHOOSE t \in S : TRUE

LEMMA OnlyLemma ==
  ASSUME NEW S \in SUBSET Threads, \A t, u \in S : t = u
  PROVE  Only(S) \in Threads \cup {NULL} /\ \A t \in Threads : Only(S) = t <=> t \in S
BY ThreadsAssumption DEF Only

(* Its owner is the one thread that claims a lock.                         *)
LEMMA OwnerLemma ==
  ASSUME LockInv, LockInv', NEW l \in Locks
  PROVE  /\ Owner(l) \in Threads \cup {NULL} /\ Owner(l)' \in Threads \cup {NULL}
         /\ \A t \in Threads : Owner(l) = t <=> Claims(t, l)
         /\ \A t \in Threads : Owner(l)' = t <=> Claims(t, l)'
<1> DEFINE S == { t \in Threads : Claims(t, l) }
           T == { t \in Threads : Claims(t, l)' }
<1>1. Owner(l) = Only(S) /\ Owner(l)' = Only(T)
  BY DEF Owner, Only
<1>2. \A t, u \in S : t = u
  BY DEF LockInv, LockOwnership
<1>3. \A t, u \in T : t = u
  BY DEF LockInv, LockOwnership
<1>4. Only(S) \in Threads \cup {NULL} /\ \A t \in Threads : Only(S) = t <=> Claims(t, l)
  BY <1>2, OnlyLemma
<1>5. Only(T) \in Threads \cup {NULL} /\ \A t \in Threads : Only(T) = t <=> Claims(t, l)'
  BY <1>3, OnlyLemma
<1>6. QED BY <1>1, <1>4, <1>5

(* Who claims a lock says who owns it.                                     *)
LEMMA OwnerSame ==
  ASSUME LockInv, LockInv', NEW l \in Locks, SameClaims(l)
  PROVE  Owner(l)' = Owner(l)
BY OwnerLemma, ThreadsAssumption DEF SameClaims

(* What no user of a lock or semaphore can tell.                           *)
Silent == (\A l \in Locks : SameClaims(l)) /\ SameCounts /\ SameAsks(Threads)

(* Such a step is a stutter of SynchSpec.                                  *)
LEMMA SilentMaps ==
  ASSUME LockInv, LockInv', Silent PROVE UNCHANGED Abstract!svars
<1>1. \A l \in Locks : Owner(l)' = Owner(l)
  BY OwnerSame DEF Silent
<1>2. QED BY <1>1 DEF Silent, SameCounts, SameAsks, Asks, Tokens, Abstract!svars

(* The calls that may block.                                               *)
Asking(c, x) ==
  /\ (\A l \in Locks : SameClaims(l)) /\ SameCounts /\ SameAsks(Threads \ {c})
  /\ Asks(c) = NULL /\ Asks(c)' = x

(* Such a step is a Request of SynchSpec.                                  *)
LEMMA AskingMaps ==
  ASSUME LockInv, LockInv', NEW c \in Threads, NEW x \in Semas, Asking(c, x)
  PROVE  Abstract!Next
<1>1. \A l \in Locks : Owner(l)' = Owner(l)
  BY OwnerSame DEF Asking
<1>2. Abstract!Ask(c, x)
  BY <1>1 DEF Asking, SameCounts, SameAsks, Asks, Tokens, Abstract!Ask
<1>3. x \in Locks \cup (Semas \ Locks)
  OBVIOUS
<1>4. QED BY <1>2, <1>3 DEF Abstract!Next

(* A lock is taken: at the end of lock_acquire, or by lock_try_acquire.    *)
LEMMA TakingMaps ==
  ASSUME LockInv, LockInv', NEW c \in Threads, NEW l \in Locks,
         \A t \in Threads : ~Claims(t, l), Claims(c, l)',
         \A m \in Locks \ {l} : SameClaims(m),
         SameCounts, SameAsks(Threads \ {c}), Asks(c) \in {NULL, l}, Asks(c)' = NULL
  PROVE  Abstract!Next
<1>1. \A m \in Locks \ {l} : Owner(m)' = Owner(m)
  BY OwnerSame
<1>2. Owner(l) = NULL /\ Owner(l)' = c
  BY OwnerLemma
<1>3. Abstract!Take(c, l)
  BY <1>1, <1>2 DEF SameCounts, Tokens, Abstract!Take
<1>4. l \in Locks \cup (Semas \ Locks)
  OBVIOUS
<1>5. CASE Asks(c) = NULL
  <2>1. Abstract!Try(c, l)
    BY <1>3, <1>5 DEF SameAsks, Asks, Abstract!Try
  <2>2. QED BY <1>4, <2>1 DEF Abstract!Next
<1>6. CASE Asks(c) = l
  <2>1. Abstract!Obtain(c, l)
    BY <1>3, <1>6 DEF SameAsks, Asks, Abstract!Obtain
  <2>2. QED BY <1>6, <2>1 DEF Asks, Abstract!Obtain, Abstract!Take, Abstract!Next
<1>7. QED BY <1>5, <1>6

(* One is taken from the count of a semaphore.                             *)
LEMMA DowningMaps ==
  ASSUME TypeInv, LockInv, LockInv', NEW c \in Threads, NEW s \in Tokens,
         \A l \in Locks : SameClaims(l), value[s] # 0, value' = [value EXCEPT ![s] = @ - 1],
         SameAsks(Threads \ {c}), Asks(c) \in {NULL, s}, Asks(c)' = NULL
  PROVE  Abstract!Next
<1>1. \A l \in Locks : Owner(l)' = Owner(l)
  BY OwnerSame
<1>2. value \in [Semas -> Nat]
  BY DEF TypeInv, TypeOK, SyncTypeOK
<1>3. Abstract!Take(c, s)
  <2>1. /\ s \in Semas \ Locks /\ value[s] > 0 /\ value'[s] = value[s] - 1
        /\ \A r \in Semas \ {s} : value'[r] = value[r]
    BY <1>2 DEF Tokens
  <2>2. QED BY <1>1, <2>1 DEF Abstract!Take
<1>4. s \in Locks \cup (Semas \ Locks)
  BY DEF Tokens
<1>5. CASE Asks(c) = NULL
  <2>1. Abstract!Try(c, s)
    BY <1>3, <1>5 DEF SameAsks, Asks, Abstract!Try
  <2>2. QED BY <1>4, <2>1 DEF Abstract!Next
<1>6. CASE Asks(c) = s
  <2>1. Abstract!Obtain(c, s)
    BY <1>3, <1>6 DEF SameAsks, Asks, Abstract!Obtain
  <2>2. QED BY <1>6, <2>1 DEF Asks, Abstract!Obtain, Abstract!Take, Abstract!Next
<1>7. QED BY <1>5, <1>6

(* One is added to the count of a semaphore.                               *)
LEMMA UppingMaps ==
  ASSUME TypeInv, LockInv, LockInv', NEW s \in Tokens,
         \A l \in Locks : SameClaims(l), value' = [value EXCEPT ![s] = @ + 1],
         SameAsks(Threads)
  PROVE  Abstract!Next
<1>1. \A l \in Locks : Owner(l)' = Owner(l)
  BY OwnerSame
<1>2. value \in [Semas -> Nat]
  BY DEF TypeInv, TypeOK, SyncTypeOK
<1>3. Abstract!Post(s)
  BY <1>1, <1>2 DEF Tokens, SameAsks, Asks, Abstract!Post
<1>4. s \in Semas \ Locks
  BY DEF Tokens
<1>5. QED BY <1>3, <1>4 DEF Abstract!Next

(* A lock is given up.                                                     *)
LEMMA FreeingMaps ==
  ASSUME LockInv, LockInv', NEW c \in Threads, NEW l \in Locks, Claims(c, l),
         \A t \in Threads : ~Claims(t, l)', \A m \in Locks \ {l} : SameClaims(m),
         SameCounts, SameAsks(Threads), Asks(c) = NULL
  PROVE  Abstract!Next
<1>1. \A m \in Locks \ {l} : Owner(m)' = Owner(m)
  BY OwnerSame
<1>2. Owner(l) = c /\ Owner(l)' = NULL
  BY OwnerLemma
<1>3. Abstract!Release(c, l)
  BY <1>1, <1>2 DEF SameCounts, SameAsks, Asks, Tokens, Abstract!Release
<1>4. QED BY <1>3 DEF Abstract!Next

(* What the calls a client starts map to.                                  *)
LEMMA RequestMaps ==
  ASSUME TypeInv, LockInv, LockInv', NEW c \in Threads, c = current, Request
  PROVE  Abstract!Next \/ UNCHANGED Abstract!svars
<1>1. /\ Locks \subseteq Semas /\ Semaphores \subseteq Tokens /\ TidLock \in Locks
      /\ NULL \notin Threads /\ NULL \notin Semas
  BY SynchAssumption, ThreadsAssumption DEF Semas, Tokens
<1>2. /\ value \in [Semas -> Nat] /\ holder \in [Locks -> Threads \cup {NULL}]
      /\ pc \in [Threads -> Labels] /\ arg \in [Threads -> Semas \cup {NULL}]
  BY DEF TypeInv, TypeOK, SyncTypeOK, CallTypeOK
<1> USE DEF SameClaims, SameCounts, SameAsks, Claims, Asks, At, Goto, Call,
            runVars, prioVars, intrVars, semaVars, lockVars, callVars
<1>3. ASSUME NEW u \in Threads, NEW p \in Priorities, ThreadCreate(u, p)
      PROVE  Abstract!Next
  <2>1. Asking(c, TidLock)
    BY <1>1, <1>2, <1>3 DEF Asking, ThreadCreate, LockAcquireHead
  <2> HIDE DEF SameClaims, SameCounts, SameAsks, Claims, Asks
  <2>2. QED BY <1>1, <2>1, AskingMaps
<1>4. CASE Exit \/ Yield
  <2>1. Silent
    BY <1>1, <1>2, <1>4 DEF Silent, Exit, Yield
  <2>2. QED BY <2>1, SilentMaps
<1>5. ASSUME NEW p \in Priorities, SetPriority(p) PROVE UNCHANGED Abstract!svars
  <2>1. Silent
    BY <1>1, <1>2, <1>5 DEF Silent, SetPriority
  <2>2. QED BY <2>1, SilentMaps
<1>6. ASSUME NEW s \in Semaphores, SemaDown(s) PROVE Abstract!Next
  <2>1. Asking(c, s)
    BY <1>1, <1>2, <1>6 DEF Asking, SemaDown
  <2> HIDE DEF SameClaims, SameCounts, SameAsks, Claims, Asks
  <2>2. QED BY <1>1, <2>1, AskingMaps DEF Tokens
<1>7. ASSUME NEW s \in Semaphores, SemaUp(s) PROVE UNCHANGED Abstract!svars
  <2>1. Silent
    BY <1>1, <1>2, <1>7, SynchAssumption DEF Silent, SemaUp
  <2>2. QED BY <2>1, SilentMaps
<1>8. ASSUME NEW s \in Semaphores, SemaTryDown(s) PROVE Abstract!Next
  <2>1. /\ \A l \in Locks : SameClaims(l) /\ value[s] # 0
        /\ value' = [value EXCEPT ![s] = @ - 1] /\ SameAsks(Threads)
        /\ Asks(c) = NULL /\ Asks(c)' = NULL
    BY <1>1, <1>2, <1>8 DEF SemaTryDown
  <2> HIDE DEF SameClaims, SameCounts, Claims, Asks
  <2>2. QED BY <1>1, <2>1, DowningMaps
<1>9. ASSUME NEW l \in Locks, LockAcquire(l) PROVE Abstract!Next
  <2>1. Asking(c, l)
    BY <1>1, <1>2, <1>9 DEF Asking, LockAcquire, LockAcquireHead
  <2> HIDE DEF SameClaims, SameCounts, SameAsks, Claims, Asks
  <2>2. QED BY <1>1, <2>1, AskingMaps
<1>10. ASSUME NEW l \in Locks, LockRelease(l) PROVE UNCHANGED Abstract!svars
  <2>1. Silent
    BY <1>1, <1>2, <1>10 DEF Silent, LockRelease, LockReleaseHead
  <2>2. QED BY <2>1, SilentMaps
<1>11. ASSUME NEW l \in Locks, LockTryAcquire(l) PROVE Abstract!Next
  <2>1. \A t \in Threads : ~Claims(t, l)
    BY <1>1, <1>2, <1>11 DEF LockTryAcquire, LockInv, LockOwnership
  <2>2. /\ Claims(c, l)' /\ \A m \in Locks \ {l} : SameClaims(m)
        /\ SameCounts /\ SameAsks(Threads) /\ Asks(c) = NULL /\ Asks(c)' = NULL
    BY <1>1, <1>2, <1>11 DEF LockTryAcquire, Tokens
  <2> HIDE DEF SameClaims, SameCounts, Claims, Asks
  <2>3. QED BY <2>1, <2>2, TakingMaps
<1>12. QED BY <1>3, <1>4, <1>5, <1>6, <1>7, <1>8, <1>9, <1>10, <1>11 DEF Request

(* What the rest of a call maps to.                                        *)
LEMMA ProgressMaps ==
  ASSUME TypeInv, LockInv, LockInv', NEW c \in Threads, c = current, Progress
  PROVE  Abstract!Next \/ UNCHANGED Abstract!svars
<1>1. /\ Locks \subseteq Semas /\ TidLock \in Locks /\ Tokens \subseteq Semas
      /\ NULL \notin Threads /\ NULL \notin Semas
  BY SynchAssumption, ThreadsAssumption DEF Semas, Tokens
<1>2. /\ value \in [Semas -> Nat] /\ holder \in [Locks -> Threads \cup {NULL}]
      /\ pc \in [Threads -> Labels] /\ arg \in [Threads -> Semas \cup {NULL}]
      /\ ret[c] \in {"run", "idle_loop", "create_release", "create_unblock"}
  BY DEF TypeInv, TypeOK, SyncTypeOK, CallTypeOK
<1> USE DEF SameClaims, SameCounts, SameAsks, Claims, Asks, At, Goto, Call,
            runVars, prioVars, intrVars, semaVars, lockVars, callVars
<1>3. CASE Down
  <2>1. PICK s \in Semas : s = arg[c] /\ pc[c] = "down"
    BY <1>3 DEF Down, TypeInv, CallsWellFormed
  <2>2. CASE MustWait(s)
    <3>1. Silent
      BY <1>1, <1>2, <1>3, <2>1, <2>2 DEF Silent, Down
    <3>2. QED BY <3>1, SilentMaps
  <2>3. CASE ~MustWait(s)
    <3>1. /\ value[s] # 0 /\ value' = [value EXCEPT ![s] = @ - 1] /\ SameAsks(Threads \ {c})
          /\ Asks(c) = s /\ Asks(c)' = NULL
      BY <1>1, <1>2, <1>3, <2>1, <2>3 DEF Down, MustWait
    <3>2. CASE s \in Tokens
      <4>1. \A l \in Locks : SameClaims(l)
        BY <1>1, <1>2, <1>3, <2>1, <2>3, <3>2 DEF Down, Tokens
      <4> HIDE DEF SameClaims, SameAsks, Asks
      <4>2. QED BY <3>1, <3>2, <4>1, DowningMaps
    <3>3. CASE s \in Locks
      <4>1. \A t \in Threads : ~Claims(t, s)
        BY <3>1, <3>3 DEF LockInv, LockOwnership
      <4>2. Claims(c, s)' /\ SameCounts /\ \A m \in Locks \ {s} : SameClaims(m)
        BY <1>1, <1>2, <1>3, <2>1, <2>3, <3>3 DEF Down, Tokens
      <4> HIDE DEF SameClaims, SameCounts, SameAsks, Claims, Asks
      <4>3. QED BY <3>1, <3>3, <4>1, <4>2, TakingMaps
    <3>4. QED BY <3>2, <3>3 DEF Tokens
  <2>4. QED BY <2>2, <2>3
<1>4. CASE Up
  <2>1. PICK s \in Semas : s = arg[c] /\ pc[c] = "up"
    BY <1>4 DEF Up, TypeInv, CallsWellFormed
  <2>2. /\ value' = [value EXCEPT ![s] = @ + 1] /\ SameAsks(Threads) /\ Asks(c) = NULL
        /\ holder' = holder
    BY <1>1, <1>2, <1>4, <2>1 DEF Up, SemaUpBody
  <2>3. CASE s \in Tokens
    <3>1. \A l \in Locks : SameClaims(l)
      BY <1>1, <1>2, <1>4, <2>1, <2>3 DEF Up, Tokens
    <3> HIDE DEF SameClaims, SameAsks, Asks
    <3>2. QED BY <2>2, <2>3, <3>1, UppingMaps
  <2>4. CASE s \in Locks
    <3>1. Claims(c, s) /\ holder[s] # c
      BY <2>1, <2>4 DEF LockInv, ClaimsApart
    <3>2. \A t \in Threads \ {c} : ~Claims(t, s)
      BY <2>4, <3>1 DEF LockInv, LockOwnership
    <3>3. /\ \A t \in Threads : ~Claims(t, s)'
          /\ SameCounts /\ \A m \in Locks \ {s} : SameClaims(m)
      BY <1>1, <1>2, <1>4, <2>1, <2>2, <2>4, <3>1, <3>2 DEF Up, Tokens
    <3> HIDE DEF SameClaims, SameCounts, SameAsks, Claims, Asks
    <3>4. QED BY <2>2, <2>4, <3>1, <3>3, FreeingMaps
  <2>5. QED BY <2>3, <2>4 DEF Tokens
<1>5. CASE YieldIfNecessary \/ YieldNow
  <2>1. Silent
    BY <1>1, <1>2, <1>5 DEF Silent, YieldIfNecessary, YieldNow, AfterYield
  <2>2. QED BY <2>1, SilentMaps
<1>6. CASE Donate
  <2>1. Silent
    BY <1>1, <1>2, <1>6 DEF Silent, Donate
  <2>2. QED BY <2>1, SilentMaps
<1>7. CASE Recalculate \/ AssignPriority
  <2>1. Silent
    BY <1>1, <1>2, <1>7 DEF Silent, Recalculate, AssignPriority
  <2>2. QED BY <2>1, SilentMaps
<1>8. CASE TryHold
  <2>1. PICK l \in Locks : l = arg[c] /\ Claims(c, l)
    BY <1>8 DEF TryHold, TypeInv, CallsWellFormed
  <2>2. \A t \in Threads \ {c} : ~Claims(t, l)
    BY <2>1 DEF LockInv, LockOwnership
  <2>3. Silent
    BY <1>1, <1>2, <1>8, <2>1, <2>2 DEF Silent, TryHold
  <2>4. QED BY <2>3, SilentMaps
<1>9. CASE CreateRelease
  <2>1. Silent
    BY <1>1, <1>2, <1>9 DEF Silent, CreateRelease, LockReleaseHead
  <2>2. QED BY <2>1, SilentMaps
<1>10. CASE CreateUnblock
  <2>1. PICK k \in Threads : k = child[c] /\ pc[k] = "none" /\ k # c
    BY <1>1, <1>10 DEF CreateUnblock, TypeInv, CallsWellFormed, NewbornsDormant
  <2>2. /\ pc'[c] = "yield" /\ pc'[k] = "run" /\ \A t \in Threads \ {c, k} : pc'[t] = pc[t]
        /\ UNCHANGED << holder, arg, value >> /\ pc[c] = "create_unblock"
    <3>1. pc' = [pc EXCEPT ![c] = "yield", ![k] = "run"]
      BY <1>10, <2>1 DEF CreateUnblock
    <3>2. QED BY <1>2, <1>10, <2>1, <3>1 DEF CreateUnblock
  <2>3. Silent
    BY <2>1, <2>2 DEF Silent
  <2>4. QED BY <2>3, SilentMaps
<1>11. QED BY <1>3, <1>4, <1>5, <1>6, <1>7, <1>8, <1>9, <1>10 DEF Progress

(* The boot sequence, idle and the clock map to stutters.                  *)
LEMMA BootMaps ==
  ASSUME TypeInv, LockInv, LockInv', NEW c \in Threads, c = current,
         Boot \/ IdleBlock \/ Interrupt \/ \E n \in Naps : TimerSleep(n)
  PROVE  Abstract!Next \/ UNCHANGED Abstract!svars
<1>1. /\ Locks \subseteq Semas /\ IdleStarted \in Tokens /\ Threads \subseteq Tokens
      /\ NULL \notin Threads /\ NULL \notin Semas /\ Tokens \cap Locks = {}
  BY SynchAssumption, ThreadsAssumption DEF Semas, Tokens
<1>2. /\ value \in [Semas -> Nat] /\ holder \in [Locks -> Threads \cup {NULL}]
      /\ pc \in [Threads -> Labels] /\ arg \in [Threads -> Semas \cup {NULL}]
      /\ in_intr => pc[c] \notin IntrOff
  BY DEF TypeInv, TypeOK, SyncTypeOK, CallTypeOK, IdleReady
<1> USE DEF SameClaims, SameCounts, SameAsks, Claims, Asks, At, Goto, Call,
            runVars, prioVars, intrVars, semaVars, lockVars, callVars
<1>3. CASE ThreadStart \/ IdleStart \/ IdleBlock
  <2>1. Silent
    BY <1>1, <1>2, <1>3 DEF Silent, ThreadStart, IdleStart, IdleBlock
  <2>2. QED BY <2>1, SilentMaps
<1>4. CASE WaitForIdle
  <2>1. Asking(c, IdleStarted)
    BY <1>1, <1>2, <1>4 DEF Asking, WaitForIdle
  <2> HIDE DEF SameClaims, SameCounts, SameAsks, Claims, Asks
  <2>2. QED BY <1>1, <2>1, AskingMaps DEF Tokens
<1>5. ASSUME NEW n \in Naps, TimerSleep(n) PROVE Abstract!Next
  <2>1. Asking(c, c)
    BY <1>1, <1>2, <1>5 DEF Asking, TimerSleep
  <2> HIDE DEF SameClaims, SameCounts, SameAsks, Claims, Asks
  <2>2. QED BY <1>1, <2>1, AskingMaps DEF Tokens
<1>6. CASE TimerInterrupt
  <2>1. Silent
    BY <1>6 DEF Silent, TimerInterrupt
  <2>2. QED BY <2>1, SilentMaps
<1>7. CASE WakeSleeper
  <2>1. PICK h \in Threads : h = Head(sleeping_threads)
    <3>1. ASSUME NEW w \in Seq(Threads), w # << >> PROVE Head(w) \in Threads
      BY <3>1
    <3>2. QED BY <1>7, <3>1 DEF WakeSleeper, SleeperDue, TypeInv, TypeOK, IntrTypeOK
  <2>2. /\ value' = [value EXCEPT ![h] = @ + 1] /\ SameAsks(Threads)
        /\ \A l \in Locks : SameClaims(l)
    BY <1>7, <2>1 DEF WakeSleeper, SemaUpBody
  <2> HIDE DEF SameClaims, SameAsks
  <2>3. QED BY <1>1, <2>1, <2>2, UppingMaps
<1>8. CASE ReturnFromInterrupt
  <2>1. \A t \in Threads : pc'[t] = pc[t] \/ (pc[t] = "hlt" /\ pc'[t] = "idle_loop")
    BY <1>2, <1>8 DEF ReturnFromInterrupt
  <2>2. Silent
    BY <1>8, <2>1 DEF Silent, ReturnFromInterrupt
  <2>3. QED BY <2>2, SilentMaps
<1>9. QED BY <1>3, <1>4, <1>5, <1>6, <1>7, <1>8 DEF Boot, Interrupt

(* synch.c implements SynchSpec: at every place it can be interrupted at,  *)
(* a lock has one owner and changes hands only through being free, and a   *)
(* down succeeds only by taking one from the count.                        *)
THEOREM SynchImplementsSpec == Spec => ImplementsSynchSpec
<1>1. Init => Abstract!Init
  <2>1. ASSUME Init PROVE Abstract!Init
    <3>1. \A l \in Locks : { t \in Threads : Claims(t, l) } = {}
      BY <2>1, ThreadsAssumption, SynchAssumption DEF Init, Claims
    <3>2. \A l \in Locks : Owner(l) = NULL
      BY <3>1 DEF Owner
    <3>3. QED BY <2>1, <3>2 DEF Init, Abstract!Init
  <2>2. QED BY <2>1
<1>2. Init => TypeInv /\ LockInv
  BY TypeInvInit, LockInvInit
<1>3. TypeInv /\ LockInv /\ [Next]_vars => (TypeInv /\ LockInv)'
  BY TypeInvStep, LockInvStep
<1>4. TypeInv /\ LockInv /\ LockInv' /\ [Next]_vars => [Abstract!Next]_(Abstract!svars)
  <2> SUFFICES ASSUME TypeInv, LockInv, LockInv', [Next]_vars
               PROVE  Abstract!Next \/ UNCHANGED Abstract!svars
    OBVIOUS
  <2>1. PICK c \in Threads : c = current
    BY DEF TypeInv, TypeOK, RunTypeOK
  <2>2. CASE UNCHANGED vars
    <3>1. Silent
      BY <2>2 DEF Silent, SameClaims, SameCounts, SameAsks, Claims, Asks, vars, semaVars,
                  lockVars, callVars
    <3>2. QED BY <3>1, SilentMaps
  <2>3. CASE Next
    BY <2>1, <2>3, RequestMaps, ProgressMaps, BootMaps DEF Next
  <2>4. QED BY <2>2, <2>3
<1>5. QED BY <1>1, <1>2, <1>3, <1>4, PTL DEF Spec, ImplementsSynchSpec, Abstract!Spec

=============================================================================
