---------------------------- MODULE KernelLemmas ----------------------------
(***************************************************************************)
(* The lemmas the proofs of this project share, in two parts.               *)
(*                                                                         *)
(* Lists: rt_list_remove is RemoveFirst and an insertion is InsertAt.  What *)
(* the two do to a list that holds no element twice, and to one that is in  *)
(* order; sets of at most one element, and counting modulo n.  The timers,  *)
(* the work queue and the Ethernet path need no more than this part.        *)
(*                                                                         *)
(* The kernel: what the routines of scheduler.c and the sections of         *)
(* thread.c do to the lists, the bitmap and the states of the threads, for  *)
(* every number of threads, priorities and lists.  Every module that        *)
(* composes the operators of RtKernel into actions can start its proofs     *)
(* from here.                                                              *)
(***************************************************************************)
EXTENDS RtKernel, Integers, SequenceTheorems, FiniteSetTheorems, WellFoundedInduction,
        TLAPS

-----------------------------------------------------------------------------
(***************************************************************************)
(* Lists                                                                   *)
(***************************************************************************)

\* No element is in the list twice.
Distinct(s) == \A i, j \in DOMAIN s : s[i] = s[j] => i = j

\* A set of naturals that is not empty has a least element, and Min is it.
LEMMA MinIsLeast ==
  ASSUME NEW T \in SUBSET Nat, T # {}
  PROVE  Min(T) \in T /\ \A y \in T : Min(T) <= y
<1>1. \E x \in T : \A y \in T : ~(<<y, x>> \in OpToRel(<, Nat))
  BY NatLessThanWellFounded, WFMin
<1>2. PICK x \in T : \A y \in T : ~(<<y, x>> \in OpToRel(<, Nat))
  BY <1>1
<1>3. \A y \in T : x <= y
  <2>1. SUFFICES ASSUME NEW y \in T, ~(x <= y) PROVE FALSE
    OBVIOUS
  <2>2. <<y, x>> \in Nat \X Nat /\ y < x
    BY <2>1
  <2>3. <<y, x>> \in OpToRel(<, Nat)
    BY <2>2 DEF OpToRel
  <2> QED
    BY <1>2, <2>3
<1> QED
  BY <1>3 DEF Min

\* The indices of a list without its i-th element.
LEMMA RemoveAtIndices ==
  ASSUME NEW S, NEW s \in Seq(S), NEW i \in 1 .. Len(s)
  PROVE  /\ RemoveAt(s, i) \in Seq(S)
         /\ Len(RemoveAt(s, i)) = Len(s) - 1
         /\ \A j \in 1 .. Len(s) - 1 :
              RemoveAt(s, i)[j] = IF j < i THEN s[j] ELSE s[j + 1]
<1> DEFINE front == SubSeq(s, 1, i - 1)
           back  == SubSeq(s, i + 1, Len(s))
<1>1. Len(s) \in Nat /\ \A j \in 1 .. Len(s) : s[j] \in S
  OBVIOUS
<1>2. /\ front \in Seq(S)
      /\ Len(front) = i - 1
      /\ \A j \in 1 .. i - 1 : front[j] = s[j]
  BY <1>1, SubSeqProperties, Z3
<1>3. /\ back \in Seq(S)
      /\ Len(back) = Len(s) - i
      /\ \A j \in 1 .. Len(s) - i : back[j] = s[i + j]
  BY <1>1, SubSeqProperties, Z3
<1> HIDE DEF front, back
<1>4. /\ front \o back \in Seq(S)
      /\ Len(front \o back) = Len(front) + Len(back)
      /\ \A j \in 1 .. Len(front) + Len(back) :
           (front \o back)[j] = IF j <= Len(front) THEN front[j] ELSE back[j - Len(front)]
  BY <1>2, <1>3, ConcatProperties, Zenon
<1>5. ASSUME NEW j \in 1 .. Len(s) - 1
      PROVE  (front \o back)[j] = IF j < i THEN s[j] ELSE s[j + 1]
  <2>1. j \in 1 .. Len(front) + Len(back)
    BY <1>1, <1>2, <1>3
  <2>2. (front \o back)[j] = IF j <= Len(front) THEN front[j] ELSE back[j - Len(front)]
    BY <1>4, <2>1, Zenon
  <2>3. CASE j < i
    <3>1. j <= Len(front) /\ j \in 1 .. i - 1
      BY <1>2, <2>3
    <3> QED
      BY <1>2, <2>2, <2>3, <3>1, Zenon
  <2>4. CASE ~(j < i)
    <3>1. ~(j <= Len(front)) /\ j - Len(front) \in 1 .. Len(s) - i
      BY <1>1, <1>2, <2>4
    <3>2. i + (j - Len(front)) = j + 1
      BY <1>2
    <3>3. back[j - Len(front)] = s[i + (j - Len(front))]
      BY <1>3, <3>1, Zenon
    <3> QED
      BY <2>2, <2>4, <3>1, <3>2, <3>3, Zenon
  <2> QED
    BY <2>3, <2>4
<1>6. RemoveAt(s, i) = front \o back
  BY DEF RemoveAt, front, back
<1>7. Len(front) + Len(back) = Len(s) - 1
  BY <1>1, <1>2, <1>3
<1> QED
  BY <1>4, <1>5, <1>6, <1>7, Zenon

\* rt_list_remove takes exactly that element out of a list.
LEMMA RemoveFirstList ==
  ASSUME NEW S, NEW s \in Seq(S), NEW e, Distinct(s)
  PROVE  /\ RemoveFirst(s, e) \in Seq(S)
         /\ Distinct(RemoveFirst(s, e))
         /\ ToSet(RemoveFirst(s, e)) = ToSet(s) \ {e}
         /\ Len(RemoveFirst(s, e)) = IF e \in ToSet(s) THEN Len(s) - 1 ELSE Len(s)
<1>1. Len(s) \in Nat /\ DOMAIN s = 1 .. Len(s)
  OBVIOUS
<1>2. CASE ~\E i \in 1 .. Len(s) : s[i] = e
  <2>1. RemoveFirst(s, e) = s
    BY <1>2, Zenon DEF RemoveFirst
  <2>2. e \notin ToSet(s)
    BY <1>1, <1>2, Zenon DEF ToSet
  <2> QED
    BY <2>1, <2>2
<1>3. CASE \E i \in 1 .. Len(s) : s[i] = e
  <2> DEFINE I == {i \in 1 .. Len(s) : s[i] = e}
             m == Min(I)
  <2>1. I \in SUBSET Nat /\ I # {}
    BY <1>3
  <2>2. m \in 1 .. Len(s) /\ s[m] = e
    <3>1. m \in I
      BY <2>1, MinIsLeast, Zenon
    <3> QED
      BY <3>1
  <2>3. RemoveFirst(s, e) = RemoveAt(s, m)
    BY <1>3, <2>1, Zenon DEF RemoveFirst, SelectInSeq
  <2> HIDE DEF I, m
  <2> DEFINE r == RemoveAt(s, m)
  <2>4. /\ r \in Seq(S)
        /\ Len(r) = Len(s) - 1
        /\ \A j \in 1 .. Len(s) - 1 : r[j] = IF j < m THEN s[j] ELSE s[j + 1]
    BY <2>2, RemoveAtIndices
  <2> HIDE DEF r
  <2>5. DOMAIN r = 1 .. Len(s) - 1
    BY <2>4
  <2>6. Distinct(r)
    <3>1. SUFFICES ASSUME NEW i \in 1 .. Len(s) - 1, NEW j \in 1 .. Len(s) - 1, r[i] = r[j]
                   PROVE  i = j
      BY <2>5 DEF Distinct
    <3> DEFINE f(x) == IF x < m THEN x ELSE x + 1
    <3>2. f(i) \in 1 .. Len(s) /\ f(j) \in 1 .. Len(s)
      BY <1>1, <2>2
    <3>3. s[f(i)] = s[f(j)]
      BY <2>4, <3>1
    <3>4. f(i) = f(j)
      BY <1>1, <3>2, <3>3 DEF Distinct
    <3> QED
      BY <2>2, <3>4
  <2>7. ASSUME NEW x \in ToSet(r) PROVE x \in ToSet(s) \ {e}
    <3>1. PICK j \in 1 .. Len(s) - 1 : x = r[j]
      BY <2>5 DEF ToSet
    <3> DEFINE n == IF j < m THEN j ELSE j + 1
    <3>2. n \in 1 .. Len(s) /\ n # m /\ x = s[n]
      BY <1>1, <2>2, <2>4, <3>1
    <3>3. x # e
      BY <1>1, <2>2, <3>2 DEF Distinct
    <3> QED
      BY <1>1, <3>2, <3>3 DEF ToSet
  <2>8. ASSUME NEW x \in ToSet(s) \ {e} PROVE x \in ToSet(r)
    <3>1. PICK n \in 1 .. Len(s) : x = s[n]
      BY <1>1 DEF ToSet
    <3> DEFINE j == IF n < m THEN n ELSE n - 1
    <3>2. n # m
      BY <2>2, <3>1
    <3>3. j \in 1 .. Len(s) - 1
      BY <1>1, <2>2, <3>2
    <3>4. r[j] = s[n]
      BY <1>1, <2>2, <2>4, <3>2, <3>3
    <3> QED
      BY <2>5, <3>1, <3>3, <3>4 DEF ToSet
  <2>9. ToSet(r) = ToSet(s) \ {e}
    BY <2>7, <2>8
  <2>10. e \in ToSet(s)
    BY <1>1, <2>2 DEF ToSet
  <2> QED
    BY <2>3, <2>4, <2>6, <2>9, <2>10 DEF r
<1> QED
  BY <1>2, <1>3

\* The indices of a list with a new i-th element.
LEMMA InsertAtIndices ==
  ASSUME NEW S, NEW s \in Seq(S), NEW i \in 1 .. Len(s) + 1, NEW e \in S
  PROVE  /\ InsertAt(s, i, e) \in Seq(S)
         /\ Len(InsertAt(s, i, e)) = Len(s) + 1
         /\ \A j \in 1 .. Len(s) + 1 :
              InsertAt(s, i, e)[j] = IF j < i THEN s[j] ELSE IF j = i THEN e ELSE s[j - 1]
<1> DEFINE front == SubSeq(s, 1, i - 1)
           back  == SubSeq(s, i, Len(s))
           head  == front \o <<e>>
<1>1. Len(s) \in Nat /\ \A j \in 1 .. Len(s) : s[j] \in S
  OBVIOUS
<1>2. /\ front \in Seq(S)
      /\ Len(front) = i - 1
      /\ \A j \in 1 .. i - 1 : front[j] = s[j]
  BY <1>1, SubSeqProperties, Z3
<1>3. /\ back \in Seq(S)
      /\ Len(back) = Len(s) - i + 1
      /\ \A j \in 1 .. Len(s) - i + 1 : back[j] = s[i + j - 1]
  BY <1>1, SubSeqProperties, Z3
<1> HIDE DEF front, back
<1>4. /\ head \in Seq(S)
      /\ Len(head) = i
      /\ \A j \in 1 .. i : head[j] = IF j < i THEN s[j] ELSE e
  BY <1>1, <1>2
<1> HIDE DEF head
<1>5. /\ head \o back \in Seq(S)
      /\ Len(head \o back) = Len(head) + Len(back)
      /\ \A j \in 1 .. Len(head) + Len(back) :
           (head \o back)[j] = IF j <= Len(head) THEN head[j] ELSE back[j - Len(head)]
  BY <1>3, <1>4, ConcatProperties, Zenon
<1>6. ASSUME NEW j \in 1 .. Len(s) + 1
      PROVE  (head \o back)[j] = IF j < i THEN s[j] ELSE IF j = i THEN e ELSE s[j - 1]
  <2>1. j \in 1 .. Len(head) + Len(back)
    BY <1>1, <1>3, <1>4
  <2>2. (head \o back)[j] = IF j <= Len(head) THEN head[j] ELSE back[j - Len(head)]
    BY <1>5, <2>1, Zenon
  <2>3. CASE j <= i
    <3>1. j <= Len(head) /\ j \in 1 .. i /\ (~(j < i) => j = i)
      BY <1>4, <2>3
    <3> QED
      BY <1>4, <2>2, <3>1, Zenon
  <2>4. CASE ~(j <= i)
    <3>1. ~(j <= Len(head)) /\ j - Len(head) \in 1 .. Len(s) - i + 1
      BY <1>1, <1>4, <2>4
    <3>2. i + (j - Len(head)) - 1 = j - 1 /\ ~(j < i) /\ j # i
      BY <1>4, <2>4
    <3>3. back[j - Len(head)] = s[i + (j - Len(head)) - 1]
      BY <1>3, <3>1, Zenon
    <3> QED
      BY <2>2, <3>1, <3>2, <3>3, Zenon
  <2> QED
    BY <2>3, <2>4
<1>7. InsertAt(s, i, e) = head \o back
  BY DEF InsertAt, front, back, head
<1>8. Len(head) + Len(back) = Len(s) + 1
  BY <1>1, <1>3, <1>4
<1> QED
  BY <1>5, <1>6, <1>7, <1>8, Zenon

\* An insertion adds exactly that element to a list that does not hold it.
LEMMA InsertAtList ==
  ASSUME NEW S, NEW s \in Seq(S), NEW i \in 1 .. Len(s) + 1, NEW e \in S,
         Distinct(s), e \notin ToSet(s)
  PROVE  /\ InsertAt(s, i, e) \in Seq(S)
         /\ Distinct(InsertAt(s, i, e))
         /\ ToSet(InsertAt(s, i, e)) = ToSet(s) \cup {e}
<1> DEFINE r == InsertAt(s, i, e)
<1>1. Len(s) \in Nat /\ DOMAIN s = 1 .. Len(s)
  OBVIOUS
<1>2. /\ r \in Seq(S)
      /\ Len(r) = Len(s) + 1
      /\ \A j \in 1 .. Len(s) + 1 :
           r[j] = IF j < i THEN s[j] ELSE IF j = i THEN e ELSE s[j - 1]
  <2>1. /\ InsertAt(s, i, e) \in Seq(S)
        /\ Len(InsertAt(s, i, e)) = Len(s) + 1
    BY InsertAtIndices, Z3
  <2>2. \A j \in 1 .. Len(s) + 1 :
          InsertAt(s, i, e)[j] = IF j < i THEN s[j] ELSE IF j = i THEN e ELSE s[j - 1]
    BY InsertAtIndices, Z3
  <2> QED
    BY <2>1, <2>2, Zenon
<1> HIDE DEF r
<1>3. DOMAIN r = 1 .. Len(s) + 1
  BY <1>2
<1>4. \A n \in 1 .. Len(s) : s[n] # e
  BY <1>1 DEF ToSet
<1> DEFINE f(x) == IF x < i THEN x ELSE x - 1
<1>5. ASSUME NEW j \in 1 .. Len(s) + 1, j # i
      PROVE  f(j) \in 1 .. Len(s) /\ r[j] = s[f(j)]
  BY <1>1, <1>2, <1>5
<1>6. r[i] = e
  BY <1>1, <1>2
<1>7. Distinct(r)
  <2>1. SUFFICES ASSUME NEW j \in 1 .. Len(s) + 1, NEW n \in 1 .. Len(s) + 1, r[j] = r[n]
                 PROVE  j = n
    BY <1>3 DEF Distinct
  <2>2. CASE j = i \/ n = i
    BY <1>4, <1>5, <1>6, <2>1, <2>2
  <2>3. CASE j # i /\ n # i
    <3>1. f(j) = f(n)
      BY <1>1, <1>5, <2>1, <2>3 DEF Distinct
    <3> QED
      BY <1>1, <2>3, <3>1
  <2> QED
    BY <2>2, <2>3
<1>8. ASSUME NEW x \in ToSet(r) PROVE x \in ToSet(s) \cup {e}
  <2>1. PICK j \in 1 .. Len(s) + 1 : x = r[j]
    BY <1>3 DEF ToSet
  <2> QED
    BY <1>1, <1>5, <1>6, <2>1 DEF ToSet
<1>9. ASSUME NEW x \in ToSet(s) \cup {e} PROVE x \in ToSet(r)
  <2>1. CASE x = e
    BY <1>1, <1>3, <1>6, <2>1 DEF ToSet
  <2>2. CASE x \in ToSet(s)
    <3>1. PICK n \in 1 .. Len(s) : x = s[n]
      BY <1>1, <2>2 DEF ToSet
    <3> DEFINE j == IF n < i THEN n ELSE n + 1
    <3>2. j \in 1 .. Len(s) + 1 /\ r[j] = x
      <4>1. i \in 1 .. Len(s) + 1 /\ Len(s) \in Nat
        BY <1>1
      <4>2. CASE n < i
        <5>1. n \in 1 .. Len(s) + 1 /\ j = n
          BY <4>1, <4>2, <3>1
        <5>2. r[n] = s[n]
          BY <1>2, <4>2, <5>1
        <5> QED
          BY <3>1, <5>1, <5>2
      <4>3. CASE ~(n < i)
        <5>1. /\ n + 1 \in 1 .. Len(s) + 1 /\ j = n + 1
              /\ ~(n + 1 < i) /\ n + 1 # i /\ n + 1 - 1 = n
          BY <4>1, <4>3, <3>1
        <5>2. r[n + 1] = s[n]
          BY <1>2, <5>1
        <5> QED
          BY <3>1, <5>1, <5>2
      <4> QED
        BY <4>2, <4>3
    <3> QED
      BY <1>3, <3>2 DEF ToSet
  <2> QED
    BY <2>1, <2>2
<1> QED
  BY <1>2, <1>7, <1>8, <1>9 DEF r

\* Contains and ToSet agree.
LEMMA ContainsToSet ==
  ASSUME NEW S, NEW s \in Seq(S)
  PROVE  \A e : Contains(s, e) <=> e \in ToSet(s)
<1>1. DOMAIN s = 1 .. Len(s)
  OBVIOUS
<1> QED
  BY <1>1 DEF Contains, ToSet

\* Taking the first element out of a list.
LEMMA TailList ==
  ASSUME NEW S, NEW s \in Seq(S), s # << >>, Distinct(s)
  PROVE  /\ Tail(s) \in Seq(S)
         /\ Distinct(Tail(s))
         /\ Head(s) \in S
         /\ Head(s) \in ToSet(s)
         /\ ToSet(Tail(s)) = ToSet(s) \ {Head(s)}
<1>1. Len(s) \in Nat /\ DOMAIN s = 1 .. Len(s) /\ Len(s) >= 1 /\ Head(s) = s[1]
  OBVIOUS
<1>2. /\ Tail(s) \in Seq(S)
      /\ DOMAIN Tail(s) = 1 .. Len(s) - 1
      /\ \A j \in 1 .. Len(s) - 1 : Tail(s)[j] = s[j + 1]
  BY <1>1
<1>3. Distinct(Tail(s))
  BY <1>1, <1>2 DEF Distinct
<1>4. ASSUME NEW x \in ToSet(Tail(s)) PROVE x \in ToSet(s) \ {Head(s)}
  <2>1. PICK j \in 1 .. Len(s) - 1 : x = s[j + 1]
    BY <1>2 DEF ToSet
  <2>2. j + 1 \in 1 .. Len(s) /\ j + 1 # 1 /\ 1 \in 1 .. Len(s)
    BY <1>1
  <2> QED
    BY <1>1, <2>1, <2>2 DEF Distinct, ToSet
<1>5. ASSUME NEW x \in ToSet(s) \ {Head(s)} PROVE x \in ToSet(Tail(s))
  <2>1. PICK n \in 1 .. Len(s) : x = s[n]
    BY <1>1 DEF ToSet
  <2>2. n - 1 \in 1 .. Len(s) - 1 /\ s[(n - 1) + 1] = x
    BY <1>1, <2>1
  <2> QED
    BY <1>2, <2>2 DEF ToSet
<1>6. Head(s) \in S /\ Head(s) \in ToSet(s)
  BY <1>1 DEF ToSet
<1> QED
  BY <1>2, <1>3, <1>4, <1>5, <1>6

\* rt_list_insert_before the head of a list, its end.
LEMMA AppendList ==
  ASSUME NEW S, NEW s \in Seq(S), NEW e \in S
  PROVE  /\ Append(s, e) \in Seq(S)
         /\ Append(s, e) # << >>
         /\ ToSet(Append(s, e)) = ToSet(s) \cup {e}
         /\ Distinct(s) /\ e \notin ToSet(s) => Distinct(Append(s, e))
<1> DEFINE r == Append(s, e)
<1>1. /\ Len(s) \in Nat /\ DOMAIN s = 1 .. Len(s)
      /\ r \in Seq(S) /\ Len(r) = Len(s) + 1 /\ DOMAIN r = 1 .. Len(s) + 1
      /\ r # << >>
  OBVIOUS
<1>2. /\ \A i \in 1 .. Len(s) : r[i] = s[i]
      /\ r[Len(s) + 1] = e
  OBVIOUS
<1> HIDE DEF r
<1>3. ToSet(r) = ToSet(s) \cup {e}
  <2>1. ASSUME NEW x \in ToSet(r) PROVE x \in ToSet(s) \cup {e}
    <3>1. PICK i \in 1 .. Len(s) + 1 : x = r[i]
      BY <1>1, <2>1 DEF ToSet
    <3>2. CASE i = Len(s) + 1
      BY <1>2, <3>1, <3>2
    <3>3. CASE i # Len(s) + 1
      <4>1. i \in 1 .. Len(s)
        BY <1>1, <3>1, <3>3
      <4> QED
        BY <1>1, <1>2, <3>1, <4>1 DEF ToSet
    <3> QED
      BY <3>2, <3>3
  <2>2. ASSUME NEW x \in ToSet(s) PROVE x \in ToSet(r)
    <3>1. PICK i \in 1 .. Len(s) : x = s[i]
      BY <1>1, <2>2 DEF ToSet
    <3>2. i \in 1 .. Len(s) + 1
      BY <1>1, <3>1
    <3> QED
      BY <1>1, <1>2, <3>1, <3>2 DEF ToSet
  <2>3. e \in ToSet(r)
    <3>1. Len(s) + 1 \in 1 .. Len(s) + 1
      BY <1>1
    <3> QED
      BY <1>1, <1>2, <3>1 DEF ToSet
  <2> QED
    BY <2>1, <2>2, <2>3
<1>4. ASSUME Distinct(s), e \notin ToSet(s) PROVE Distinct(r)
  <2> SUFFICES ASSUME NEW i \in 1 .. Len(s) + 1, NEW j \in 1 .. Len(s) + 1, r[i] = r[j]
               PROVE  i = j
    BY <1>1 DEF Distinct
  <2>1. CASE i \in 1 .. Len(s) /\ j \in 1 .. Len(s)
    BY <1>1, <1>2, <1>4, <2>1 DEF Distinct
  <2>2. CASE i = Len(s) + 1 /\ j \in 1 .. Len(s)
    BY <1>1, <1>2, <1>4, <2>2 DEF ToSet
  <2>3. CASE i \in 1 .. Len(s) /\ j = Len(s) + 1
    BY <1>1, <1>2, <1>4, <2>3 DEF ToSet
  <2> QED
    BY <1>1, <2>1, <2>2, <2>3
<1> QED
  BY <1>1, <1>3, <1>4 DEF r

\* An element at the head of a list it was not in.
LEMMA ConsList ==
  ASSUME NEW S, NEW s \in Seq(S), NEW e \in S, Distinct(s), e \notin ToSet(s)
  PROVE  /\ <<e>> \o s \in Seq(S)
         /\ Distinct(<<e>> \o s)
         /\ ToSet(<<e>> \o s) = ToSet(s) \cup {e}
<1> DEFINE r == <<e>> \o s
<1>1. /\ r \in Seq(S) /\ Len(s) \in Nat /\ Len(r) = Len(s) + 1
      /\ DOMAIN r = 1 .. Len(s) + 1 /\ DOMAIN s = 1 .. Len(s)
      /\ r[1] = e
      /\ \A i \in 1 .. Len(s) : r[i + 1] = s[i]
  OBVIOUS
<1> HIDE DEF r
<1>2. \A i \in DOMAIN r : i = 1 \/ (i - 1 \in DOMAIN s /\ r[i] = s[i - 1])
  <2>1. SUFFICES ASSUME NEW i \in DOMAIN r, i # 1
                 PROVE  i - 1 \in DOMAIN s /\ r[i] = s[i - 1]
    OBVIOUS
  <2>2. i - 1 \in 1 .. Len(s) /\ (i - 1) + 1 = i
    BY <1>1, <2>1
  <2> QED
    BY <1>1, <2>2
<1>3. \A i \in DOMAIN s : s[i] # e
  BY DEF ToSet
<1>4. Distinct(r)
  <2>1. SUFFICES ASSUME NEW i \in DOMAIN r, NEW j \in DOMAIN r, r[i] = r[j] PROVE i = j
    BY DEF Distinct
  <2>2. CASE i # 1 /\ j # 1
    <3>1. i - 1 = j - 1
      BY <1>2, <2>1, <2>2 DEF Distinct
    <3> QED
      BY <1>1, <3>1
  <2>3. CASE i = 1 \/ j = 1
    BY <1>1, <1>2, <1>3, <2>1, <2>3
  <2> QED
    BY <2>2, <2>3
<1>5. ToSet(r) = ToSet(s) \cup {e}
  <2>1. \A i \in DOMAIN r : r[i] \in ToSet(s) \cup {e}
    BY <1>1, <1>2 DEF ToSet
  <2>2. \A i \in DOMAIN s : s[i] \in ToSet(r)
    <3>1. \A i \in DOMAIN s : i + 1 \in DOMAIN r /\ r[i + 1] = s[i]
      BY <1>1
    <3> QED
      BY <3>1 DEF ToSet
  <2>3. e \in ToSet(r)
    <3>1. 1 \in DOMAIN r /\ r[1] = e
      BY <1>1
    <3> QED
      BY <3>1 DEF ToSet
  <2> QED
    BY <2>1, <2>2, <2>3 DEF ToSet
<1> QED
  BY <1>1, <1>4, <1>5 DEF r

\* A set without two different elements.
LEMMA AtMostOne ==
  ASSUME NEW S, \A x, y \in S : x = y
  PROVE  Cardinality(S) <= 1
<1>1. CASE S = {}
  <2>1. Cardinality(S) = 0
    BY <1>1, FS_EmptySet
  <2> QED
    BY <2>1
<1>2. CASE S # {}
  <2>1. PICK x : S = {x}
    BY <1>2
  <2>2. Cardinality(S) = 1
    BY <2>1, FS_Singleton
  <2> QED
    BY <2>2
<1> QED
  BY <1>1, <1>2

\* Elements nearer to the front have the smaller keys.
InOrder(s, key) == \A i, j \in DOMAIN s : i < j => key[s[i]] <= key[s[j]]

\* Taking an element out leaves the others in order.
LEMMA RemoveFirstOrder ==
  ASSUME NEW S, NEW s \in Seq(S), NEW e, NEW key \in [S -> Int], InOrder(s, key)
  PROVE  InOrder(RemoveFirst(s, e), key)
<1>1. Len(s) \in Nat /\ DOMAIN s = 1 .. Len(s)
  OBVIOUS
<1>2. CASE ~\E i \in 1 .. Len(s) : s[i] = e
  BY <1>2, Zenon DEF RemoveFirst
<1>3. CASE \E i \in 1 .. Len(s) : s[i] = e
  <2> DEFINE I == {i \in 1 .. Len(s) : s[i] = e}
             m == Min(I)
  <2>1. I \in SUBSET Nat /\ I # {}
    BY <1>3
  <2>2. m \in I
    BY <2>1, MinIsLeast, Zenon
  <2>3. m \in 1 .. Len(s)
    BY <2>2
  <2>4. RemoveFirst(s, e) = RemoveAt(s, m)
    BY <1>3, <2>1, Zenon DEF RemoveFirst, SelectInSeq
  <2> HIDE DEF I, m
  <2> DEFINE r == RemoveAt(s, m)
  <2>5. /\ r \in Seq(S)
        /\ Len(r) = Len(s) - 1
        /\ \A j \in 1 .. Len(s) - 1 : r[j] = IF j < m THEN s[j] ELSE s[j + 1]
    BY <2>3, RemoveAtIndices
  <2> HIDE DEF r
  <2>6. DOMAIN r = 1 .. Len(s) - 1
    BY <2>5
  <2>7. ASSUME NEW i \in 1 .. Len(s) - 1, NEW j \in 1 .. Len(s) - 1, i < j
        PROVE  key[r[i]] <= key[r[j]]
    <3> DEFINE f(x) == IF x < m THEN x ELSE x + 1
    <3>1. f(i) \in 1 .. Len(s) /\ f(j) \in 1 .. Len(s) /\ f(i) < f(j)
      BY <1>1, <2>3, <2>7
    <3>2. r[i] = s[f(i)] /\ r[j] = s[f(j)]
      BY <2>5
    <3> HIDE DEF f
    <3> QED
      BY <1>1, <3>1, <3>2 DEF InOrder
  <2>8. InOrder(r, key)
    BY <2>6, <2>7 DEF InOrder
  <2> QED
    BY <2>4, <2>8 DEF r
<1> QED
  BY <1>2, <1>3

\* An element that is put between smaller and larger ones keeps the order.
LEMMA InsertAtOrder ==
  ASSUME NEW S, NEW s \in Seq(S), NEW n \in 1 .. Len(s) + 1, NEW e \in S,
         NEW key \in [S -> Int], InOrder(s, key),
         \A i \in 1 .. Len(s) : i < n => key[s[i]] <= key[e],
         \A i \in 1 .. Len(s) : n <= i => key[e] <= key[s[i]]
  PROVE  InOrder(InsertAt(s, n, e), key)
<1> DEFINE r == InsertAt(s, n, e)
<1>1. Len(s) \in Nat /\ DOMAIN s = 1 .. Len(s)
  OBVIOUS
<1>2. /\ r \in Seq(S)
      /\ Len(r) = Len(s) + 1
      /\ \A j \in 1 .. Len(s) + 1 :
           r[j] = IF j < n THEN s[j] ELSE IF j = n THEN e ELSE s[j - 1]
  BY InsertAtIndices
<1> HIDE DEF r
<1>3. DOMAIN r = 1 .. Len(s) + 1
  BY <1>2
<1>4. ASSUME NEW i \in 1 .. Len(s) + 1, NEW j \in 1 .. Len(s) + 1, i < j
      PROVE  key[r[i]] <= key[r[j]]
  <2>1. /\ i < n => i \in 1 .. Len(s) /\ r[i] = s[i]
        /\ i = n => r[i] = e
        /\ i > n => i - 1 \in 1 .. Len(s) /\ r[i] = s[i - 1]
    <3>1. r[i] = IF i < n THEN s[i] ELSE IF i = n THEN e ELSE s[i - 1]
      BY <1>2
    <3> QED
      BY <1>1, <3>1
  <2>2. /\ j < n => j \in 1 .. Len(s) /\ r[j] = s[j]
        /\ j = n => r[j] = e
        /\ j > n => j - 1 \in 1 .. Len(s) /\ r[j] = s[j - 1]
    <3>1. r[j] = IF j < n THEN s[j] ELSE IF j = n THEN e ELSE s[j - 1]
      BY <1>2
    <3> QED
      BY <1>1, <3>1
  <2>3. \A a, b \in 1 .. Len(s) : a < b => key[s[a]] <= key[s[b]]
    BY <1>1 DEF InOrder
  <2>4. CASE j < n
    <3>1. i \in 1 .. Len(s) /\ j \in 1 .. Len(s) /\ r[i] = s[i] /\ r[j] = s[j]
      BY <1>4, <2>1, <2>2, <2>4
    <3> QED
      BY <1>4, <2>3, <3>1
  <2>5. CASE j = n
    <3>1. i \in 1 .. Len(s) /\ i < n /\ r[i] = s[i] /\ r[j] = e
      BY <1>4, <2>1, <2>2, <2>5
    <3> QED
      BY <3>1
  <2>6. CASE j > n /\ i < n
    <3>1. i \in 1 .. Len(s) /\ j - 1 \in 1 .. Len(s) /\ i < j - 1
          /\ r[i] = s[i] /\ r[j] = s[j - 1]
      BY <2>1, <2>2, <2>6
    <3> QED
      BY <2>3, <3>1
  <2>7. CASE j > n /\ i = n
    <3>1. j - 1 \in 1 .. Len(s) /\ n <= j - 1 /\ r[i] = e /\ r[j] = s[j - 1]
      BY <2>1, <2>2, <2>7
    <3> QED
      BY <3>1
  <2>8. CASE j > n /\ i > n
    <3>1. i - 1 \in 1 .. Len(s) /\ j - 1 \in 1 .. Len(s) /\ i - 1 < j - 1
          /\ r[i] = s[i - 1] /\ r[j] = s[j - 1]
      BY <1>4, <2>1, <2>2, <2>8
    <3> QED
      BY <2>3, <3>1
  <2> QED
    BY <2>4, <2>5, <2>6, <2>7, <2>8
<1> QED
  BY <1>3, <1>4 DEF InOrder, r

\* So does taking the first element, whose key is the least.
LEMMA TailOrder ==
  ASSUME NEW S, NEW s \in Seq(S), s # << >>, NEW key \in [S -> Int], InOrder(s, key)
  PROVE  /\ InOrder(Tail(s), key)
         /\ \A e \in ToSet(s) : key[Head(s)] <= key[e]
<1>1. /\ Len(s) \in Nat /\ DOMAIN s = 1 .. Len(s) /\ Len(s) >= 1 /\ Head(s) = s[1]
      /\ DOMAIN Tail(s) = 1 .. Len(s) - 1
      /\ \A i \in 1 .. Len(s) - 1 : Tail(s)[i] = s[i + 1]
      /\ \A i \in 1 .. Len(s) : s[i] \in S
  OBVIOUS
<1>2. ASSUME NEW i \in 1 .. Len(s) - 1, NEW j \in 1 .. Len(s) - 1, i < j
      PROVE  key[Tail(s)[i]] <= key[Tail(s)[j]]
  <2>1. i + 1 \in 1 .. Len(s) /\ j + 1 \in 1 .. Len(s) /\ i + 1 < j + 1
    BY <1>1, <1>2
  <2>2. key[s[i + 1]] <= key[s[j + 1]]
    BY <1>1, <2>1 DEF InOrder
  <2> QED
    BY <1>1, <2>2
<1>3. ASSUME NEW e \in ToSet(s) PROVE key[Head(s)] <= key[e]
  <2>1. PICK i \in 1 .. Len(s) : e = s[i]
    BY <1>1 DEF ToSet
  <2>2. CASE i = 1
    <3>1. Head(s) = e /\ key[e] \in Int
      BY <1>1, <2>1, <2>2
    <3> QED
      BY <3>1
  <2>3. CASE i # 1
    <3>1. 1 \in DOMAIN s /\ i \in DOMAIN s /\ 1 < i
      BY <1>1, <2>1, <2>3
    <3> QED
      BY <1>1, <2>1, <3>1 DEF InOrder
  <2> QED
    BY <2>2, <2>3
<1> QED
  BY <1>1, <1>2, <1>3 DEF InOrder

\* A number that has been advanced by at most n beyond 0 .. n - 1, modulo n.
LEMMA RingMod ==
  ASSUME NEW n \in Nat \ {0}, NEW a \in 0 .. 2 * n - 1
  PROVE  a % n = IF a < n THEN a ELSE a - n
<1>1. CASE a < n
  BY <1>1
<1>2. CASE a >= n
  <2>1. a - n \in 0 .. n - 1
    BY <1>2
  <2>2. (a - n) % n = a - n
    BY <2>1
  <2>3. a % n = (a - n) % n
    BY <1>2, <2>1
  <2> QED
    BY <1>2, <2>2, <2>3
<1> QED
  BY <1>1, <1>2

\* SetToSeq lists every element of a finite set once.
LEMMA SetToSeqList ==
  ASSUME NEW S, IsFiniteSet(S)
  PROVE  SetToSeq(S) \in Seq(S) /\ Distinct(SetToSeq(S)) /\ ToSet(SetToSeq(S)) = S
<1> DEFINE n == Cardinality(S)
           f == SetToSeq(S)
<1>1. n \in Nat /\ ExistsBijection(1 .. n, S)
  BY FS_CardinalityType
<1>2. \E b \in [1 .. n -> S] : IsInjective(b)
  BY <1>1, Zenon DEF ExistsBijection, Bijection, Injection
<1>3. f \in [1 .. n -> S] /\ IsInjective(f)
  BY <1>2, Zenon DEF SetToSeq
<1> HIDE DEF f, n
<1>4. f \in Seq(S) /\ DOMAIN f = 1 .. n
  BY <1>1, <1>3
<1>5. Distinct(f)
  BY <1>3, Zenon DEF Distinct, IsInjective
<1>6. ToSet(f) \subseteq S
  BY <1>3, <1>4 DEF ToSet
<1>7. f \in Bijection(1 .. n, ToSet(f))
  <2>1. f \in [1 .. n -> ToSet(f)]
    BY <1>3, <1>4 DEF ToSet
  <2>2. \A y \in ToSet(f) : \E x \in 1 .. n : f[x] = y
    BY <1>4 DEF ToSet
  <2> QED
    BY <1>3, <2>1, <2>2 DEF Bijection, Injection, Surjection
<1>8. Cardinality(ToSet(f)) = n
  BY <1>1, <1>7, FS_CountingElements, Zenon DEF ExistsBijection
<1>9. ToSet(f) = S
  BY <1>6, <1>8, FS_Subset DEF n
<1> QED
  BY <1>4, <1>5, <1>9 DEF f

\* An element that is not in the list can not be taken out.
LEMMA RemoveFirstAbsent ==
  ASSUME NEW S, NEW s \in Seq(S), NEW e, e \notin ToSet(s)
  PROVE  RemoveFirst(s, e) = s
<1>1. DOMAIN s = 1 .. Len(s)
  OBVIOUS
<1>2. ~\E i \in 1 .. Len(s) : s[i] = e
  BY <1>1 DEF ToSet
<1> QED
  BY <1>2, Zenon DEF RemoveFirst

\* a is somewhere before b in the list.
Precedes(s, a, b) == \E i, j \in DOMAIN s : i < j /\ s[i] = a /\ s[j] = b

\* Taking an element out brings no two others into a new order.
LEMMA RemoveFirstPrecedes ==
  ASSUME NEW S, NEW s \in Seq(S), NEW e, NEW a, NEW b, Precedes(RemoveFirst(s, e), a, b)
  PROVE  Precedes(s, a, b)
<1>1. Len(s) \in Nat /\ DOMAIN s = 1 .. Len(s)
  OBVIOUS
<1>2. CASE ~\E i \in 1 .. Len(s) : s[i] = e
  BY <1>2, Zenon DEF RemoveFirst
<1>3. CASE \E i \in 1 .. Len(s) : s[i] = e
  <2> DEFINE I == {i \in 1 .. Len(s) : s[i] = e}
             m == Min(I)
  <2>1. I \in SUBSET Nat /\ I # {}
    BY <1>3
  <2>2. m \in I
    BY <2>1, MinIsLeast, Zenon
  <2>3. m \in 1 .. Len(s)
    BY <2>2
  <2>4. RemoveFirst(s, e) = RemoveAt(s, m)
    BY <1>3, <2>1, Zenon DEF RemoveFirst, SelectInSeq
  <2> HIDE DEF I, m
  <2> DEFINE r == RemoveAt(s, m)
             f(x) == IF x < m THEN x ELSE x + 1
  <2>5. /\ r \in Seq(S)
        /\ Len(r) = Len(s) - 1
        /\ \A j \in 1 .. Len(s) - 1 : r[j] = IF j < m THEN s[j] ELSE s[j + 1]
    BY <2>3, RemoveAtIndices
  <2> HIDE DEF r
  <2>6. DOMAIN r = 1 .. Len(s) - 1
    BY <2>5
  <2>7. PICK i, j \in 1 .. Len(s) - 1 : i < j /\ r[i] = a /\ r[j] = b
    BY <2>4, <2>6 DEF Precedes, r
  <2>8. f(i) \in 1 .. Len(s) /\ f(j) \in 1 .. Len(s) /\ f(i) < f(j)
    BY <1>1, <2>3, <2>7
  <2>9. s[f(i)] = a /\ s[f(j)] = b
    BY <2>5, <2>7
  <2> HIDE DEF f
  <2> QED
    BY <1>1, <2>8, <2>9 DEF Precedes
<1> QED
  BY <1>2, <1>3

\* An insertion brings only the new element into an order with the others.
LEMMA InsertAtPrecedes ==
  ASSUME NEW S, NEW s \in Seq(S), NEW n \in 1 .. Len(s) + 1, NEW e \in S,
         NEW a, NEW b, Precedes(InsertAt(s, n, e), a, b)
  PROVE  \/ Precedes(s, a, b)
         \/ b = e /\ \E i \in 1 .. Len(s) : i < n /\ s[i] = a
         \/ a = e /\ \E i \in 1 .. Len(s) : n <= i /\ s[i] = b
<1> DEFINE r == InsertAt(s, n, e)
<1>1. Len(s) \in Nat /\ DOMAIN s = 1 .. Len(s)
  OBVIOUS
<1>2. /\ r \in Seq(S)
      /\ Len(r) = Len(s) + 1
      /\ \A j \in 1 .. Len(s) + 1 :
           r[j] = IF j < n THEN s[j] ELSE IF j = n THEN e ELSE s[j - 1]
  BY InsertAtIndices
<1> HIDE DEF r
<1>3. DOMAIN r = 1 .. Len(s) + 1
  BY <1>2
<1>4. PICK i, j \in 1 .. Len(s) + 1 : i < j /\ r[i] = a /\ r[j] = b
  BY <1>3 DEF Precedes, r
<1>5. /\ i < n => i \in 1 .. Len(s) /\ a = s[i]
      /\ i = n => a = e
      /\ i > n => i - 1 \in 1 .. Len(s) /\ a = s[i - 1]
  BY <1>1, <1>2, <1>4
<1>6. /\ j < n => j \in 1 .. Len(s) /\ b = s[j]
      /\ j = n => b = e
      /\ j > n => j - 1 \in 1 .. Len(s) /\ b = s[j - 1]
  BY <1>1, <1>2, <1>4
<1>7. \A x, y \in 1 .. Len(s) : x < y /\ s[x] = a /\ s[y] = b => Precedes(s, a, b)
  BY <1>1 DEF Precedes
<1>8. CASE j < n
  BY <1>4, <1>5, <1>6, <1>7, <1>8
<1>9. CASE j = n
  BY <1>4, <1>5, <1>6, <1>9
<1>10. CASE j > n /\ i < n
  <2>1. i \in 1 .. Len(s) /\ j - 1 \in 1 .. Len(s) /\ i < j - 1
        /\ a = s[i] /\ b = s[j - 1]
    BY <1>5, <1>6, <1>10
  <2> QED
    BY <1>7, <2>1
<1>11. CASE j > n /\ i = n
  <2>1. j - 1 \in 1 .. Len(s) /\ n <= j - 1 /\ a = e /\ b = s[j - 1]
    BY <1>5, <1>6, <1>11
  <2> QED
    BY <2>1
<1>12. CASE j > n /\ i > n
  <2>1. i - 1 \in 1 .. Len(s) /\ j - 1 \in 1 .. Len(s) /\ i - 1 < j - 1
        /\ a = s[i - 1] /\ b = s[j - 1]
    BY <1>4, <1>5, <1>6, <1>12
  <2> QED
    BY <1>7, <2>1
<1> QED
  BY <1>8, <1>9, <1>10, <1>11, <1>12

\* The first element is before all others.
LEMMA HeadPrecedes ==
  ASSUME NEW S, NEW s \in Seq(S), s # << >>, NEW b \in ToSet(s), b # Head(s)
  PROVE  Precedes(s, Head(s), b)
<1>1. Len(s) \in Nat /\ DOMAIN s = 1 .. Len(s) /\ Head(s) = s[1] /\ 1 \in DOMAIN s
  OBVIOUS
<1>2. PICK j \in DOMAIN s : s[j] = b
  BY DEF ToSet
<1>3. 1 < j
  BY <1>1, <1>2
<1> QED
  BY <1>1, <1>2, <1>3 DEF Precedes

-----------------------------------------------------------------------------
(***************************************************************************)
(* The kernel                                                              *)
(***************************************************************************)

\* The threads in a ready list, and in another list.
Ready(k, p) == ToSet(k.rdy[p])
Waiting(k, q) == ToSet(k.wait[q])

\* No list holds a thread twice.
ListType(k) ==
  /\ k \in KernelType
  /\ \A p \in Prio : Distinct(k.rdy[p])
  /\ \A q \in Queue : Distinct(k.wait[q])

\* The node of a thread is in one list, which its stat tells; the bitmap has
\* the bits of the lists that hold a thread; at most the current thread is
\* RUNNING, and a timer runs for suspended threads only.  The threads in S may
\* be READY in no list.
LinksSound(k, S) ==
  /\ \A p \in Prio : \A t \in Ready(k, p) : k.stat[t] = "READY" /\ k.prio[t] = p
  /\ \A q \in Queue : \A t \in Waiting(k, q) : k.stat[t] \notin {"READY", "RUNNING"}
  /\ \A q, r \in Queue : \A t \in Waiting(k, q) : t \in Waiting(k, r) => q = r
  /\ \A t \in Thread \ S : k.stat[t] = "READY" => t \in Ready(k, k.prio[t])
  /\ \A p \in Prio : p \in k.grp <=> Ready(k, p) # {}
  /\ \A t \in Thread : k.stat[t] = "RUNNING" => t = k.cur
  /\ \A t \in k.tmr : k.stat[t] = "SUSPEND"

KernelSound(k, S) == ListType(k) /\ LinksSound(k, S)

\* A thread whose node is in no list.
Detached(k, t) ==
  /\ \A p \in Prio : t \notin Ready(k, p)
  /\ \A q \in Queue : t \notin Waiting(k, q)

-----------------------------------------------------------------------------
\* The fields of a kernel state.
LEMMA KernelFields ==
  ASSUME NEW k \in KernelType
  PROVE  /\ k.cur \in Thread
         /\ k.rdy \in [Prio -> Seq(Thread)]
         /\ k.grp \subseteq Prio
         /\ k.lock \in Nat
         /\ k.wait \in [Queue -> Seq(Thread)]
         /\ k.stat \in [Thread -> Stat]
         /\ k.yld \subseteq Thread
         /\ k.prio \in [Thread -> Prio]
         /\ k.err \in [Thread -> Error]
         /\ k.tmr \subseteq Thread
         /\ \A p \in Prio : Ready(k, p) \subseteq Thread
         /\ \A q \in Queue : Waiting(k, q) \subseteq Thread
<1>1. /\ k.rdy \in [Prio -> Seq(Thread)]
      /\ k.wait \in [Queue -> Seq(Thread)]
  BY DEF KernelType
<1>2. ASSUME NEW s \in Seq(Thread) PROVE ToSet(s) \subseteq Thread
  BY DEF ToSet
<1>3. /\ \A p \in Prio : Ready(k, p) \subseteq Thread
      /\ \A q \in Queue : Waiting(k, q) \subseteq Thread
  BY <1>1, <1>2 DEF Ready, Waiting
<1> QED
  BY <1>3 DEF KernelType

\* A list is empty exactly if no thread is in it.
LEMMA EmptyList ==
  ASSUME NEW S, NEW s \in Seq(S)
  PROVE  (s = << >>) <=> (ToSet(s) = {})
<1>1. Len(s) \in Nat /\ DOMAIN s = 1 .. Len(s)
  OBVIOUS
<1>2. ASSUME s # << >> PROVE ToSet(s) # {}
  <2>1. 1 \in DOMAIN s
    BY <1>1, <1>2
  <2> QED
    BY <2>1 DEF ToSet
<1>3. ASSUME s = << >> PROVE ToSet(s) = {}
  BY <1>3 DEF ToSet
<1> QED
  BY <1>2, <1>3

\* The first thread of a list.
LEMMA HeadInList ==
  ASSUME NEW S, NEW s \in Seq(S), s # << >>
  PROVE  Head(s) \in ToSet(s)
<1>1. 1 \in DOMAIN s /\ Head(s) = s[1]
  OBVIOUS
<1> QED
  BY <1>1 DEF ToSet

\* rt_schedule_insert_thread works on ready lists only.
LEMMA InsertFields ==
  ASSUME NEW k \in KernelType, NEW t \in Thread
  PROVE  LET i == InsertThread(k, t)
         IN  /\ i.cur = k.cur /\ i.lock = k.lock /\ i.wait = k.wait /\ i.yld = k.yld
             /\ i.prio = k.prio /\ i.err = k.err /\ i.tmr = k.tmr
BY DEF InsertThread, KernelType

\* rt_list_remove takes a thread out of every list it is in.
LEMMA UnlinkEffect ==
  ASSUME NEW k, ListType(k), NEW t \in Thread
  PROVE  LET u == Unlink(k, t)
         IN  /\ ListType(u)
             /\ u.cur = k.cur /\ u.grp = k.grp /\ u.lock = k.lock /\ u.stat = k.stat
             /\ u.yld = k.yld /\ u.prio = k.prio /\ u.err = k.err /\ u.tmr = k.tmr
             /\ \A p \in Prio : Ready(u, p) = Ready(k, p) \ {t}
             /\ \A q \in Queue : Waiting(u, q) = Waiting(k, q) \ {t}
<1> DEFINE u == Unlink(k, t)
<1>1. /\ k \in KernelType
      /\ \A p \in Prio : Distinct(k.rdy[p])
      /\ \A q \in Queue : Distinct(k.wait[q])
  BY DEF ListType
<1>2. /\ u.rdy = [p \in Prio |-> RemoveFirst(k.rdy[p], t)]
      /\ u.wait = [q \in Queue |-> RemoveFirst(k.wait[q], t)]
      /\ u.cur = k.cur /\ u.grp = k.grp /\ u.lock = k.lock /\ u.stat = k.stat
      /\ u.yld = k.yld /\ u.prio = k.prio /\ u.err = k.err /\ u.tmr = k.tmr
  BY <1>1 DEF Unlink, KernelType
<1>3. ASSUME NEW s \in Seq(Thread), Distinct(s)
      PROVE  /\ RemoveFirst(s, t) \in Seq(Thread)
             /\ Distinct(RemoveFirst(s, t))
             /\ ToSet(RemoveFirst(s, t)) = ToSet(s) \ {t}
  BY <1>3, RemoveFirstList
<1>4. /\ k.rdy \in [Prio -> Seq(Thread)] /\ k.wait \in [Queue -> Seq(Thread)]
  BY <1>1, KernelFields
<1>5. \A p \in Prio :
        /\ u.rdy[p] \in Seq(Thread) /\ Distinct(u.rdy[p])
        /\ Ready(u, p) = Ready(k, p) \ {t}
  BY <1>1, <1>2, <1>3, <1>4, SMTT(40) DEF Ready
<1>6. \A q \in Queue :
        /\ u.wait[q] \in Seq(Thread) /\ Distinct(u.wait[q])
        /\ Waiting(u, q) = Waiting(k, q) \ {t}
  BY <1>1, <1>2, <1>3, <1>4, SMTT(40) DEF Waiting
<1>7. u \in KernelType
  <2>1. /\ [p \in Prio |-> RemoveFirst(k.rdy[p], t)] \in [Prio -> Seq(Thread)]
        /\ [q \in Queue |-> RemoveFirst(k.wait[q], t)] \in [Queue -> Seq(Thread)]
    BY <1>1, <1>3, <1>4
  <2> QED
    BY <1>1, <2>1 DEF Unlink, KernelType
<1> QED
  BY <1>2, <1>5, <1>6, <1>7 DEF ListType

\* The threads of a list are in the order of their priorities.
UrgentFirst(k, q) == InOrder(k.wait[q], k.prio)

\* Taking a thread out of the lists leaves the others in order.
LEMMA UnlinkOrder ==
  ASSUME NEW k \in KernelType, NEW t \in Thread, NEW q \in Queue, UrgentFirst(k, q)
  PROVE  UrgentFirst(Unlink(k, t), q)
<1> DEFINE u == Unlink(k, t)
<1>1. u.wait = [r \in Queue |-> RemoveFirst(k.wait[r], t)] /\ u.prio = k.prio
  BY DEF Unlink, KernelType
<1>2. k.wait[q] \in Seq(Thread) /\ k.prio \in [Thread -> Int]
  BY KernelFields, KernelAssumption DEF Prio
<1>3. InOrder(RemoveFirst(k.wait[q], t), k.prio)
  BY <1>2, RemoveFirstOrder DEF UrgentFirst
<1> QED
  BY <1>1, <1>3 DEF UrgentFirst

\* What rt_schedule_insert_thread sets stat to.
InsertedStat(k, t) == IF t = k.cur THEN "RUNNING" ELSE "READY"

\* rt_schedule_insert_thread on a thread that is in no ready list.
LEMMA InsertEffect ==
  ASSUME NEW k, ListType(k), NEW t \in Thread, t \notin Ready(k, k.prio[t])
  PROVE  LET i == InsertThread(k, t)
         IN  /\ ListType(i)
             /\ i.cur = k.cur /\ i.lock = k.lock /\ i.wait = k.wait
             /\ i.yld = k.yld /\ i.prio = k.prio /\ i.err = k.err /\ i.tmr = k.tmr
             /\ i.stat = [k.stat EXCEPT ![t] = InsertedStat(k, t)]
             /\ t = k.cur => i.grp = k.grp /\ i.rdy = k.rdy
             /\ t # k.cur => i.grp = k.grp \cup {k.prio[t]}
             /\ t # k.cur => Ready(i, k.prio[t]) = Ready(k, k.prio[t]) \cup {t}
             /\ \A p \in Prio : p # k.prio[t] => Ready(i, p) = Ready(k, p)
<1> DEFINE i == InsertThread(k, t)
<1>1. /\ k \in KernelType
      /\ \A p \in Prio : Distinct(k.rdy[p])
      /\ \A q \in Queue : Distinct(k.wait[q])
  BY DEF ListType
<1>2. /\ k.rdy \in [Prio -> Seq(Thread)] /\ k.prio[t] \in Prio
      /\ k.stat \in [Thread -> Stat] /\ k.grp \subseteq Prio
  BY <1>1, KernelFields
<1>3. CASE t = k.cur
  <2>1. i = [k EXCEPT !.stat[t] = "RUNNING"]
    BY <1>3 DEF InsertThread
  <2>2. i \in KernelType
    <3>1. [k.stat EXCEPT ![t] = "RUNNING"] \in [Thread -> Stat]
      BY <1>2 DEF Stat
    <3>2. i = [k EXCEPT !.stat = [k.stat EXCEPT ![t] = "RUNNING"]]
      BY <1>1, <2>1 DEF KernelType
    <3> HIDE DEF i
    <3> QED
      BY <1>1, <3>1, <3>2 DEF KernelType
  <2>3. /\ i.cur = k.cur /\ i.rdy = k.rdy /\ i.grp = k.grp /\ i.lock = k.lock
        /\ i.wait = k.wait /\ i.yld = k.yld /\ i.prio = k.prio /\ i.err = k.err
        /\ i.tmr = k.tmr /\ i.stat = [k.stat EXCEPT ![t] = "RUNNING"]
    BY <1>1, <2>1 DEF KernelType
  <2> QED
    BY <1>1, <1>3, <2>2, <2>3 DEF ListType, Ready, InsertedStat
<1>4. CASE t # k.cur
  <2> DEFINE P == k.prio[t]
             list == Append(k.rdy[P], t)
  <2>1. i = [k EXCEPT !.stat[t] = "READY", !.rdy[P] = Append(@, t), !.grp = @ \cup {P}]
    BY <1>4 DEF InsertThread
  <2>2. /\ i.cur = k.cur /\ i.rdy = [k.rdy EXCEPT ![P] = list]
        /\ i.grp = k.grp \cup {P} /\ i.lock = k.lock
        /\ i.wait = k.wait /\ i.yld = k.yld /\ i.prio = k.prio /\ i.err = k.err
        /\ i.tmr = k.tmr /\ i.stat = [k.stat EXCEPT ![t] = "READY"]
    BY <1>1, <2>1 DEF KernelType
  <2>3. /\ list \in Seq(Thread) /\ Distinct(list)
        /\ ToSet(list) = ToSet(k.rdy[P]) \cup {t}
    <3>1. k.rdy[P] \in Seq(Thread) /\ Distinct(k.rdy[P]) /\ t \notin ToSet(k.rdy[P])
      BY <1>1, <1>2 DEF Ready
    <3> QED
      BY <3>1, AppendList
  <2>4. i \in KernelType
    <3>1. [k.rdy EXCEPT ![P] = list] \in [Prio -> Seq(Thread)]
      BY <1>2, <2>3
    <3>2. k.grp \cup {P} \subseteq Prio /\ [k.stat EXCEPT ![t] = "READY"] \in [Thread -> Stat]
      BY <1>2 DEF Stat
    <3> HIDE DEF P, list
    <3>3. i = [k EXCEPT !.stat = [k.stat EXCEPT ![t] = "READY"],
                        !.rdy = [k.rdy EXCEPT ![P] = list], !.grp = k.grp \cup {P}]
      BY <1>1, <2>1 DEF KernelType, P, list
    <3> HIDE DEF i
    <3> QED
      BY <1>1, <3>1, <3>2, <3>3 DEF KernelType
  <2> HIDE DEF list, i
  <2>5. ASSUME NEW p \in Prio
        PROVE  /\ Distinct(i.rdy[p])
               /\ Ready(i, p) = IF p = P THEN Ready(k, p) \cup {t} ELSE Ready(k, p)
    <3>1. CASE p = P
      <4>1. i.rdy[p] = list
        BY <1>2, <2>2, <3>1
      <4> QED
        BY <2>3, <3>1, <4>1 DEF Ready
    <3>2. CASE p # P
      <4>1. i.rdy[p] = k.rdy[p]
        BY <1>2, <2>2, <3>2
      <4> QED
        BY <1>1, <3>2, <4>1 DEF Ready
    <3> QED
      BY <3>1, <3>2
  <2>6. ListType(i)
    BY <1>1, <2>2, <2>4, <2>5 DEF ListType
  <2> QED
    BY <1>2, <1>4, <2>2, <2>5, <2>6 DEF i, InsertedStat
<1> QED
  BY <1>3, <1>4

\* rt_schedule_remove_thread.
LEMMA RemoveEffect ==
  ASSUME NEW k, ListType(k), NEW t \in Thread
  PROVE  LET r == RemoveThread(k, t)
         IN  /\ ListType(r)
             /\ r.cur = k.cur /\ r.lock = k.lock /\ r.stat = k.stat
             /\ r.yld = k.yld /\ r.prio = k.prio /\ r.err = k.err /\ r.tmr = k.tmr
             /\ \A p \in Prio : Ready(r, p) = Ready(k, p) \ {t}
             /\ \A q \in Queue : Waiting(r, q) = Waiting(k, q) \ {t}
             /\ r.grp = IF Ready(k, k.prio[t]) \subseteq {t} THEN k.grp \ {k.prio[t]}
                        ELSE k.grp
<1> DEFINE u == Unlink(k, t)
           r == RemoveThread(k, t)
           P == k.prio[t]
<1>1. /\ ListType(u)
      /\ u.cur = k.cur /\ u.grp = k.grp /\ u.lock = k.lock /\ u.stat = k.stat
      /\ u.yld = k.yld /\ u.prio = k.prio /\ u.err = k.err /\ u.tmr = k.tmr
      /\ \A p \in Prio : Ready(u, p) = Ready(k, p) \ {t}
      /\ \A q \in Queue : Waiting(u, q) = Waiting(k, q) \ {t}
  BY UnlinkEffect
<1>2. k \in KernelType /\ u \in KernelType /\ P \in Prio
  <2>1. k \in KernelType /\ u \in KernelType
    BY <1>1 DEF ListType
  <2> QED
    BY <2>1, KernelFields
<1>3. r = [u EXCEPT !.grp = IF u.rdy[P] = << >> THEN u.grp \ {P} ELSE u.grp]
  BY DEF RemoveThread
<1>4. (u.rdy[P] = << >>) <=> (Ready(k, P) \subseteq {t})
  <2>1. u.rdy[P] \in Seq(Thread)
    BY <1>2, KernelFields
  <2>2. (u.rdy[P] = << >>) <=> (Ready(u, P) = {})
    BY <2>1, EmptyList DEF Ready
  <2>3. Ready(u, P) = Ready(k, P) \ {t}
    BY <1>1, <1>2
  <2> QED
    BY <2>2, <2>3
<1> HIDE DEF u, r, P
<1>5. /\ r.cur = u.cur /\ r.rdy = u.rdy /\ r.lock = u.lock /\ r.wait = u.wait
      /\ r.stat = u.stat /\ r.yld = u.yld /\ r.prio = u.prio /\ r.err = u.err
      /\ r.tmr = u.tmr
      /\ r.grp = IF u.rdy[P] = << >> THEN u.grp \ {P} ELSE u.grp
  BY <1>2, <1>3 DEF KernelType
<1>6. r \in KernelType
  BY <1>2, <1>3 DEF KernelType
<1>7. ListType(r)
  BY <1>1, <1>5, <1>6 DEF ListType
<1>8. /\ \A p \in Prio : Ready(r, p) = Ready(k, p) \ {t}
      /\ \A q \in Queue : Waiting(r, q) = Waiting(k, q) \ {t}
  BY <1>1, <1>5 DEF Ready, Waiting
<1>9. r.grp = IF Ready(k, P) \subseteq {t} THEN k.grp \ {P} ELSE k.grp
  BY <1>1, <1>4, <1>5
<1>10. /\ r.cur = k.cur /\ r.lock = k.lock /\ r.stat = k.stat
       /\ r.yld = k.yld /\ r.prio = k.prio /\ r.err = k.err /\ r.tmr = k.tmr
  BY <1>1, <1>5
<1> QED
  BY <1>7, <1>8, <1>9, <1>10 DEF r, P

-----------------------------------------------------------------------------
\* rt_schedule_remove_thread leaves a thread in no list; it may be READY still.
LEMMA RemoveSound ==
  ASSUME NEW k, NEW S, KernelSound(k, S), NEW t \in Thread
  PROVE  KernelSound(RemoveThread(k, t), S \cup {t}) /\ Detached(RemoveThread(k, t), t)
<1> DEFINE r == RemoveThread(k, t)
           P == k.prio[t]
<1>1. ListType(k) /\ LinksSound(k, S) /\ k \in KernelType
  BY DEF KernelSound, ListType
<1>2. /\ ListType(r)
      /\ r.cur = k.cur /\ r.lock = k.lock /\ r.stat = k.stat
      /\ r.yld = k.yld /\ r.prio = k.prio /\ r.err = k.err /\ r.tmr = k.tmr
      /\ \A p \in Prio : Ready(r, p) = Ready(k, p) \ {t}
      /\ \A q \in Queue : Waiting(r, q) = Waiting(k, q) \ {t}
      /\ r.grp = IF Ready(k, P) \subseteq {t} THEN k.grp \ {P} ELSE k.grp
  BY <1>1, RemoveEffect
<1> HIDE DEF r
<1>3. ASSUME NEW p \in Prio PROVE p \in r.grp <=> Ready(r, p) # {}
  <2>1. p \in k.grp <=> Ready(k, p) # {}
    BY <1>1 DEF LinksSound
  <2>2. CASE p = P
    BY <1>2, <2>1, <2>2
  <2>3. CASE p # P
    <3>1. t \notin Ready(k, p)
      BY <1>1, <2>3 DEF LinksSound
    <3> QED
      BY <1>2, <2>1, <2>3, <3>1
  <2> QED
    BY <2>2, <2>3
<1>4. ASSUME NEW x \in Thread \ (S \cup {t}), r.stat[x] = "READY"
      PROVE  x \in Ready(r, r.prio[x])
  <2>1. x \in Ready(k, k.prio[x]) /\ k.prio[x] \in Prio
    BY <1>1, <1>2, <1>4, KernelFields DEF LinksSound
  <2> QED
    BY <1>2, <1>4, <2>1
<1>5. /\ \A p \in Prio : \A x \in Ready(r, p) : r.stat[x] = "READY" /\ r.prio[x] = p
      /\ \A q \in Queue : \A x \in Waiting(r, q) : r.stat[x] \notin {"READY", "RUNNING"}
      /\ \A q, w \in Queue : \A x \in Waiting(r, q) : x \in Waiting(r, w) => q = w
  BY <1>1, <1>2 DEF LinksSound
<1>6. /\ \A x \in Thread : r.stat[x] = "RUNNING" => x = r.cur
      /\ \A x \in r.tmr : r.stat[x] = "SUSPEND"
  BY <1>1, <1>2 DEF LinksSound
<1>7. LinksSound(r, S \cup {t})
  BY <1>3, <1>4, <1>5, <1>6 DEF LinksSound
<1>8. Detached(r, t)
  BY <1>2 DEF Detached
<1> QED
  BY <1>2, <1>7, <1>8 DEF KernelSound, r

\* rt_thread_suspend, below its test of stat.
LEMMA SuspendSound ==
  ASSUME NEW k, NEW S, KernelSound(k, S), NEW t \in Thread
  PROVE  LET s == SuspendThread(k, t)
         IN  /\ KernelSound(s, S) /\ Detached(s, t)
             /\ s.cur = k.cur /\ s.lock = k.lock
             /\ s.yld = k.yld /\ s.prio = k.prio /\ s.err = k.err
             /\ s.stat = [k.stat EXCEPT ![t] = "SUSPEND"]
             /\ s.tmr = k.tmr \ {t}
             /\ \A p \in Prio : Ready(s, p) = Ready(k, p) \ {t}
             /\ \A q \in Queue : Waiting(s, q) = Waiting(k, q) \ {t}
<1> DEFINE r == RemoveThread(k, t)
           s == SuspendThread(k, t)
<1>1. ListType(k) /\ LinksSound(k, S) /\ k \in KernelType
  BY DEF KernelSound, ListType
<1>2. /\ ListType(r)
      /\ r.cur = k.cur /\ r.lock = k.lock /\ r.stat = k.stat
      /\ r.yld = k.yld /\ r.prio = k.prio /\ r.err = k.err /\ r.tmr = k.tmr
      /\ \A p \in Prio : Ready(r, p) = Ready(k, p) \ {t}
      /\ \A q \in Queue : Waiting(r, q) = Waiting(k, q) \ {t}
  BY <1>1, RemoveEffect, ZenonT(40)
<1>3. LinksSound(r, S \cup {t}) /\ r \in KernelType
  BY <1>2, RemoveSound DEF KernelSound, ListType
<1>4. s = [r EXCEPT !.stat[t] = "SUSPEND", !.tmr = r.tmr \ {t}]
  BY DEF SuspendThread
<1> HIDE DEF r, s
<1>5. /\ s.cur = r.cur /\ s.rdy = r.rdy /\ s.grp = r.grp /\ s.lock = r.lock
      /\ s.wait = r.wait /\ s.stat = [r.stat EXCEPT ![t] = "SUSPEND"]
      /\ s.yld = r.yld /\ s.prio = r.prio /\ s.err = r.err /\ s.tmr = r.tmr \ {t}
  BY <1>3, <1>4 DEF KernelType
<1>6. s \in KernelType
  <2>1. r.stat \in [Thread -> Stat] /\ r.tmr \subseteq Thread
    BY <1>3, KernelFields
  <2>2. [r.stat EXCEPT ![t] = "SUSPEND"] \in [Thread -> Stat] /\ r.tmr \ {t} \subseteq Thread
    BY <2>1 DEF Stat
  <2>3. s = [r EXCEPT !.stat = [r.stat EXCEPT ![t] = "SUSPEND"], !.tmr = r.tmr \ {t}]
    BY <1>3, <1>4 DEF KernelType
  <2> QED
    BY <1>3, <2>2, <2>3 DEF KernelType
<1>7. ListType(s)
  BY <1>2, <1>5, <1>6 DEF ListType
<1>8. /\ \A p \in Prio : Ready(s, p) = Ready(k, p) \ {t}
      /\ \A q \in Queue : Waiting(s, q) = Waiting(k, q) \ {t}
      /\ \A p \in Prio : Ready(s, p) = Ready(r, p)
      /\ \A q \in Queue : Waiting(s, q) = Waiting(r, q)
  BY <1>2, <1>5 DEF Ready, Waiting
<1>9. Detached(s, t)
  BY <1>8 DEF Detached
<1>10. r.stat \in [Thread -> Stat] /\ r.prio \in [Thread -> Prio]
       /\ r.tmr \subseteq Thread
       /\ (\A p \in Prio : Ready(r, p) \subseteq Thread)
       /\ (\A q \in Queue : Waiting(r, q) \subseteq Thread)
  BY <1>3, KernelFields
<1>11. /\ \A x \in Thread : x # t => s.stat[x] = r.stat[x]
       /\ s.stat[t] = "SUSPEND"
  BY <1>5, <1>10
<1>12. LinksSound(s, S)
  <2>1. /\ \A p \in Prio : \A x \in Ready(s, p) : s.stat[x] = "READY" /\ s.prio[x] = p
        /\ \A q \in Queue : \A x \in Waiting(s, q) : s.stat[x] \notin {"READY", "RUNNING"}
        /\ \A q, w \in Queue : \A x \in Waiting(s, q) : x \in Waiting(s, w) => q = w
    BY <1>3, <1>5, <1>8, <1>9, <1>10, <1>11 DEF LinksSound, Detached
  <2>2. /\ \A x \in Thread \ S : s.stat[x] = "READY" => x \in Ready(s, s.prio[x])
    BY <1>3, <1>5, <1>8, <1>10, <1>11 DEF LinksSound
  <2>3. \A p \in Prio : p \in s.grp <=> Ready(s, p) # {}
    BY <1>3, <1>5, <1>8 DEF LinksSound
  <2>4. /\ \A x \in Thread : s.stat[x] = "RUNNING" => x = s.cur
        /\ \A x \in s.tmr : s.stat[x] = "SUSPEND"
    BY <1>3, <1>5, <1>10, <1>11 DEF LinksSound
  <2> QED
    BY <2>1, <2>2, <2>3, <2>4 DEF LinksSound
<1>13. /\ s.cur = k.cur /\ s.lock = k.lock
       /\ s.yld = k.yld /\ s.prio = k.prio /\ s.err = k.err
       /\ s.stat = [k.stat EXCEPT ![t] = "SUSPEND"]
       /\ s.tmr = k.tmr \ {t}
  BY <1>2, <1>5
<1>14. KernelSound(s, S)
  BY <1>7, <1>12 DEF KernelSound
<1> QED
  BY <1>8, <1>9, <1>13, <1>14 DEF s

\* x is k without thread t in its lists and without its timer.
TakenOut(k, x, t) ==
  /\ ListType(x)
  /\ x.cur = k.cur /\ x.lock = k.lock /\ x.grp = k.grp /\ x.stat = k.stat
  /\ x.yld = k.yld /\ x.prio = k.prio
  /\ x.tmr = k.tmr \ {t}
  /\ \A p \in Prio : Ready(x, p) = Ready(k, p) \ {t}
  /\ \A q \in Queue : Waiting(x, q) = Waiting(k, q) \ {t}

\* i is k with thread t made ready, or RUNNING if it is the current one.
Woken(k, i, t) ==
  /\ i.cur = k.cur /\ i.lock = k.lock /\ i.yld = k.yld /\ i.prio = k.prio
  /\ i.tmr = k.tmr \ {t}
  /\ i.stat = [k.stat EXCEPT ![t] = InsertedStat(k, t)]
  /\ \A p \in Prio : Ready(i, p) \subseteq Ready(k, p) \cup {t}
  /\ \A q \in Queue : Waiting(i, q) = Waiting(k, q) \ {t}

\* A thread is taken out of its list and made ready: rt_thread_resume and
\* rt_thread_timeout, which differ in the fields that no list depends on.
LEMMA WakeSound ==
  ASSUME NEW k, NEW S, KernelSound(k, S), k.stat[k.cur] # "READY",
         NEW t \in Thread, NEW x, TakenOut(k, x, t)
  PROVE  LET i == InsertThread(x, t)
         IN  KernelSound(i, S \ {t}) /\ Woken(k, i, t)
<1> DEFINE i == InsertThread(x, t)
           P == k.prio[t]
<1>1. ListType(k) /\ LinksSound(k, S) /\ k \in KernelType
  BY DEF KernelSound, ListType
<1>2. /\ k.cur \in Thread /\ k.stat \in [Thread -> Stat] /\ k.prio \in [Thread -> Prio]
      /\ P \in Prio /\ k.tmr \subseteq Thread
      /\ \A p \in Prio : Ready(k, p) \subseteq Thread
      /\ \A q \in Queue : Waiting(k, q) \subseteq Thread
  BY <1>1, KernelFields
<1>3. /\ ListType(i)
      /\ i.cur = x.cur /\ i.lock = x.lock /\ i.wait = x.wait
      /\ i.yld = x.yld /\ i.prio = x.prio /\ i.err = x.err /\ i.tmr = x.tmr
      /\ i.stat = [x.stat EXCEPT ![t] = InsertedStat(x, t)]
      /\ t = x.cur => i.grp = x.grp /\ i.rdy = x.rdy
      /\ t # x.cur => i.grp = x.grp \cup {x.prio[t]}
      /\ t # x.cur => Ready(i, x.prio[t]) = Ready(x, x.prio[t]) \cup {t}
      /\ \A p \in Prio : p # x.prio[t] => Ready(i, p) = Ready(x, p)
  <2>1. t \notin Ready(x, x.prio[t]) /\ ListType(x)
    BY <1>2 DEF TakenOut
  <2> QED
    BY <2>1, InsertEffect
<1> HIDE DEF i
<1>4. \A q \in Queue : Waiting(i, q) = Waiting(k, q) \ {t}
  BY <1>3 DEF Waiting, TakenOut
<1>5. \A p \in Prio :
        Ready(i, p) = IF t # k.cur /\ p = P THEN Ready(k, p) \cup {t} ELSE Ready(k, p) \ {t}
  <2>1. t = k.cur => \A p \in Prio : Ready(i, p) = Ready(x, p)
    BY <1>3 DEF TakenOut, Ready
  <2>2. /\ \A p \in Prio : Ready(x, p) = Ready(k, p) \ {t}
        /\ x.cur = k.cur /\ x.prio = k.prio
    BY DEF TakenOut
  <2> QED
    BY <1>2, <1>3, <2>1, <2>2
<1>6. /\ \A y \in Thread : y # t => i.stat[y] = k.stat[y]
      /\ i.stat[t] = IF t = k.cur THEN "RUNNING" ELSE "READY"
  BY <1>2, <1>3 DEF TakenOut, InsertedStat
<1>7. /\ \A p \in Prio : \A y \in Ready(i, p) : i.stat[y] = "READY" /\ i.prio[y] = p
      /\ \A q \in Queue : \A y \in Waiting(i, q) : i.stat[y] \notin {"READY", "RUNNING"}
      /\ \A q, w \in Queue : \A y \in Waiting(i, q) : y \in Waiting(i, w) => q = w
  BY <1>1, <1>2, <1>3, <1>4, <1>5, <1>6 DEF LinksSound, TakenOut
<1>8. ASSUME NEW y \in Thread \ (S \ {t}), i.stat[y] = "READY"
      PROVE  y \in Ready(i, i.prio[y])
  <2>1. CASE y = t
    BY <1>2, <1>3, <1>5, <1>6, <1>8, <2>1 DEF TakenOut
  <2>2. CASE y # t
    <3>1. y \in Ready(k, k.prio[y]) /\ k.prio[y] \in Prio
      BY <1>1, <1>2, <1>6, <1>8, <2>2 DEF LinksSound
    <3> QED
      BY <1>3, <1>5, <2>2, <3>1 DEF TakenOut
  <2> QED
    BY <2>1, <2>2
<1>9. ASSUME NEW p \in Prio PROVE p \in i.grp <=> Ready(i, p) # {}
  <2>1. p \in k.grp <=> Ready(k, p) # {}
    BY <1>1 DEF LinksSound
  <2>2. t \in Ready(k, p) => p = P /\ t # k.cur
    BY <1>1 DEF LinksSound
  <2> QED
    BY <1>3, <1>5, <2>1, <2>2 DEF TakenOut
<1>10. /\ \A y \in Thread : i.stat[y] = "RUNNING" => y = i.cur
       /\ \A y \in i.tmr : i.stat[y] = "SUSPEND"
  BY <1>1, <1>2, <1>3, <1>6 DEF LinksSound, TakenOut
<1>11. LinksSound(i, S \ {t})
  BY <1>7, <1>8, <1>9, <1>10 DEF LinksSound
<1>12. \A p \in Prio : Ready(i, p) \subseteq Ready(k, p) \cup {t}
  BY <1>5
<1>13. KernelSound(i, S \ {t})
  BY <1>3, <1>11 DEF KernelSound
<1> QED
  <2>1. /\ i.cur = k.cur /\ i.lock = k.lock /\ i.yld = k.yld /\ i.prio = k.prio
        /\ i.tmr = k.tmr \ {t}
        /\ i.stat = [k.stat EXCEPT ![t] = InsertedStat(k, t)]
    BY <1>3 DEF TakenOut, InsertedStat
  <2>2. Woken(k, i, t)
    BY <1>4, <1>12, <2>1 DEF Woken
  <2> QED
    BY <1>13, <2>2 DEF i

\* rt_thread_resume, below its test of stat.
LEMMA ResumeSound ==
  ASSUME NEW k, NEW S, KernelSound(k, S), k.stat[k.cur] # "READY", NEW t \in Thread
  PROVE  /\ KernelSound(ResumeThread(k, t), S \ {t}) /\ Woken(k, ResumeThread(k, t), t)
         /\ ResumeThread(k, t).err = k.err
<1> DEFINE u == Unlink(k, t)
           x == [u EXCEPT !.tmr = u.tmr \ {t}]
<1>1. ListType(k)
  BY DEF KernelSound
<1>2. /\ ListType(u) /\ u \in KernelType
      /\ u.cur = k.cur /\ u.grp = k.grp /\ u.lock = k.lock /\ u.stat = k.stat
      /\ u.yld = k.yld /\ u.prio = k.prio /\ u.err = k.err /\ u.tmr = k.tmr
      /\ \A p \in Prio : Ready(u, p) = Ready(k, p) \ {t}
      /\ \A q \in Queue : Waiting(u, q) = Waiting(k, q) \ {t}
  BY <1>1, UnlinkEffect DEF ListType
<1>3. ResumeThread(k, t) = InsertThread(x, t)
  BY DEF ResumeThread
<1> HIDE DEF u
<1>4. /\ x \in KernelType
      /\ x.cur = u.cur /\ x.rdy = u.rdy /\ x.grp = u.grp /\ x.lock = u.lock
      /\ x.wait = u.wait /\ x.stat = u.stat /\ x.yld = u.yld /\ x.prio = u.prio
      /\ x.err = u.err /\ x.tmr = u.tmr \ {t}
  BY <1>2 DEF KernelType
<1> HIDE DEF x
<1>5. TakenOut(k, x, t)
  <2>1. ListType(x)
    BY <1>2, <1>4 DEF ListType
  <2>2. /\ \A p \in Prio : Ready(x, p) = Ready(k, p) \ {t}
        /\ \A q \in Queue : Waiting(x, q) = Waiting(k, q) \ {t}
    BY <1>2, <1>4 DEF Ready, Waiting
  <2> QED
    BY <1>2, <1>4, <2>1, <2>2 DEF TakenOut
<1>6. InsertThread(x, t).err = x.err
  BY <1>4, InsertFields
<1> QED
  BY <1>2, <1>3, <1>4, <1>5, <1>6, WakeSound

\* rt_thread_timeout before its rt_schedule.
LEMMA TimeoutSound ==
  ASSUME NEW k, NEW S, KernelSound(k, S), k.stat[k.cur] # "READY", NEW t \in Thread
  PROVE  \E i : /\ ThreadTimeout(k, t) = Schedule(i)
               /\ KernelSound(i, S \ {t}) /\ Woken(k, i, t)
               /\ i.err = [k.err EXCEPT ![t] = "ETIMEOUT"]
               /\ i.wait = [q \in Queue |-> RemoveFirst(k.wait[q], t)]
               /\ \A q \in Queue : UrgentFirst(k, q) => UrgentFirst(i, q)
<1> DEFINE u == Unlink(k, t)
           x == [u EXCEPT !.tmr = u.tmr \ {t}, !.err = [u.err EXCEPT ![t] = "ETIMEOUT"]]
<1>1. ListType(k)
  BY DEF KernelSound
<1>2. /\ ListType(u) /\ u \in KernelType
      /\ u.cur = k.cur /\ u.grp = k.grp /\ u.lock = k.lock /\ u.stat = k.stat
      /\ u.yld = k.yld /\ u.prio = k.prio /\ u.err = k.err /\ u.tmr = k.tmr
      /\ \A p \in Prio : Ready(u, p) = Ready(k, p) \ {t}
      /\ \A q \in Queue : Waiting(u, q) = Waiting(k, q) \ {t}
  BY <1>1, UnlinkEffect DEF ListType
<1>3. ThreadTimeout(k, t) = Schedule(InsertThread(x, t))
  <2>1. [u EXCEPT !.tmr = u.tmr \ {t}, !.err[t] = "ETIMEOUT"] = x
    BY <1>2 DEF KernelType
  <2> QED
    BY <2>1 DEF ThreadTimeout
<1> HIDE DEF u
<1>4. [u.err EXCEPT ![t] = "ETIMEOUT"] \in [Thread -> Error]
  BY <1>2, KernelFields DEF Error
<1>5. /\ x \in KernelType
      /\ x.cur = u.cur /\ x.rdy = u.rdy /\ x.grp = u.grp /\ x.lock = u.lock
      /\ x.wait = u.wait /\ x.stat = u.stat /\ x.yld = u.yld /\ x.prio = u.prio
      /\ x.tmr = u.tmr \ {t} /\ x.err = [u.err EXCEPT ![t] = "ETIMEOUT"]
  BY <1>2, <1>4 DEF KernelType
<1> HIDE DEF x
<1>6. TakenOut(k, x, t)
  <2>1. ListType(x)
    BY <1>2, <1>5 DEF ListType
  <2>2. /\ \A p \in Prio : Ready(x, p) = Ready(k, p) \ {t}
        /\ \A q \in Queue : Waiting(x, q) = Waiting(k, q) \ {t}
    BY <1>2, <1>5 DEF Ready, Waiting
  <2> QED
    BY <1>2, <1>5, <2>1, <2>2 DEF TakenOut
<1>7. KernelSound(InsertThread(x, t), S \ {t}) /\ Woken(k, InsertThread(x, t), t)
  BY <1>6, WakeSound
<1>8. /\ InsertThread(x, t).err = x.err /\ InsertThread(x, t).wait = x.wait
      /\ InsertThread(x, t).prio = x.prio
  BY <1>5, InsertFields
<1>9. \A q \in Queue : UrgentFirst(k, q) => UrgentFirst(InsertThread(x, t), q)
  <2>1. \A q \in Queue : UrgentFirst(k, q) => UrgentFirst(u, q)
    BY <1>1, UnlinkOrder DEF ListType, u
  <2> QED
    BY <1>5, <1>8, <2>1 DEF UrgentFirst
<1>10. InsertThread(x, t).wait = [q \in Queue |-> RemoveFirst(k.wait[q], t)]
  <2>1. u.wait = [q \in Queue |-> RemoveFirst(k.wait[q], t)]
    BY <1>1 DEF u, Unlink, ListType, KernelType
  <2> QED
    BY <1>5, <1>8, <2>1
<1>11. InsertThread(x, t).err = [k.err EXCEPT ![t] = "ETIMEOUT"]
  BY <1>2, <1>5, <1>8
<1> QED
  BY <1>3, <1>7, <1>9, <1>10, <1>11

\* The lists do not depend on the lock, the YIELD flags and the errors.
LEMMA SoundFields ==
  ASSUME NEW k, NEW S, KernelSound(k, S), NEW c \in KernelType,
         c.cur = k.cur, c.rdy = k.rdy, c.grp = k.grp, c.wait = k.wait,
         c.stat = k.stat, c.prio = k.prio, c.tmr = k.tmr
  PROVE  KernelSound(c, S)
BY DEF KernelSound, ListType, LinksSound, Ready, Waiting

\* A set of threads that may be READY in no list can grow.
LEMMA SoundMore ==
  ASSUME NEW k, NEW S, KernelSound(k, S), NEW T, S \subseteq T
  PROVE  KernelSound(k, T)
BY DEF KernelSound, LinksSound

\* __rt_ffs finds the most urgent priority whose bit is set.
LEMMA HighestIsLeast ==
  ASSUME NEW k \in KernelType, k.grp # {}
  PROVE  /\ HighestReadyPriority(k) \in k.grp
         /\ HighestReadyPriority(k) \in Prio
         /\ \A p \in k.grp : HighestReadyPriority(k) <= p
<1>1. k.grp \in SUBSET Nat /\ k.grp \subseteq Prio
  BY KernelFields, KernelAssumption DEF Prio
<1>2. Min(k.grp) \in k.grp /\ \A p \in k.grp : Min(k.grp) <= p
  BY <1>1, MinIsLeast
<1>3. \E p \in k.grp : \A q \in k.grp : p <= q
  BY <1>2
<1> QED
  BY <1>1, <1>3 DEF HighestReadyPriority

\* A thread that is not READY needs no excuse for being in no ready list.
LEMMA SoundLess ==
  ASSUME NEW k, NEW S, NEW t, KernelSound(k, S \cup {t}), k.stat[t] # "READY"
  PROVE  KernelSound(k, S)
BY DEF KernelSound, LinksSound

\* The first half of a switch: `to' is the current thread, and the thread that
\* was it is in the ready list of its priority if it was RUNNING.
Demote(k, to) ==
  LET s == [k EXCEPT !.cur = to]
  IN  IF k.stat[k.cur] = "RUNNING" THEN InsertThread(s, k.cur) ELSE s

\* What the thread that loses the processor becomes.
DemotedStat(k) == IF k.stat[k.cur] = "RUNNING" THEN "READY" ELSE k.stat[k.cur]

LEMMA DemoteSound ==
  ASSUME NEW k, NEW S, KernelSound(k, S), k.stat[k.cur] # "READY",
         NEW to \in Thread, k.stat[to] = "READY"
  PROVE  LET i == Demote(k, to)
         IN  /\ KernelSound(i, S)
             /\ i.cur = to /\ i.lock = k.lock /\ i.yld = k.yld
             /\ i.prio = k.prio /\ i.err = k.err /\ i.tmr = k.tmr
             /\ i.stat = [k.stat EXCEPT ![k.cur] = DemotedStat(k)]
             /\ \A p \in Prio : Ready(i, p) \subseteq Ready(k, p) \cup {k.cur}
             /\ \A q \in Queue : Waiting(i, q) = Waiting(k, q)
<1> DEFINE i == Demote(k, to)
           s == [k EXCEPT !.cur = to]
           C == k.cur
           P == k.prio[C]
<1>1. ListType(k) /\ LinksSound(k, S) /\ k \in KernelType
  BY DEF KernelSound, ListType
<1>2. /\ C \in Thread /\ k.stat \in [Thread -> Stat] /\ k.prio \in [Thread -> Prio]
      /\ P \in Prio /\ k.tmr \subseteq Thread
      /\ \A p \in Prio : Ready(k, p) \subseteq Thread
      /\ \A q \in Queue : Waiting(k, q) \subseteq Thread
  BY <1>1, KernelFields
<1>3. /\ s \in KernelType
      /\ s.cur = to /\ s.rdy = k.rdy /\ s.grp = k.grp /\ s.lock = k.lock
      /\ s.wait = k.wait /\ s.stat = k.stat /\ s.yld = k.yld /\ s.prio = k.prio
      /\ s.err = k.err /\ s.tmr = k.tmr
  BY <1>1 DEF KernelType
<1>4. i = IF k.stat[C] = "RUNNING" THEN InsertThread(s, C) ELSE s
  BY DEF Demote
<1> HIDE DEF s, i
<1>5. ListType(s)
  BY <1>1, <1>3 DEF ListType
<1>6. /\ \A p \in Prio : Ready(s, p) = Ready(k, p) /\ C \notin Ready(k, p)
      /\ \A q \in Queue : Waiting(s, q) = Waiting(k, q)
  BY <1>1, <1>3 DEF Ready, Waiting, LinksSound
<1>7. /\ ListType(i)
      /\ i.cur = to /\ i.lock = k.lock /\ i.wait = k.wait /\ i.yld = k.yld
      /\ i.prio = k.prio /\ i.err = k.err /\ i.tmr = k.tmr
      /\ i.stat = [k.stat EXCEPT ![C] = DemotedStat(k)]
      /\ k.stat[C] = "RUNNING" =>
           i.grp = k.grp \cup {P} /\ Ready(i, P) = Ready(k, P) \cup {C}
      /\ k.stat[C] # "RUNNING" => i.grp = k.grp /\ Ready(i, P) = Ready(k, P)
      /\ \A p \in Prio : p # P => Ready(i, p) = Ready(k, p)
  <2>1. CASE k.stat[C] = "RUNNING"
    <3>1. i = InsertThread(s, C) /\ C # s.cur
      BY <1>2, <1>3, <1>4, <2>1
    <3>2. C \notin Ready(s, s.prio[C])
      BY <1>2, <1>3, <1>6
    <3>3. /\ ListType(i)
          /\ i.cur = s.cur /\ i.lock = s.lock /\ i.wait = s.wait
          /\ i.yld = s.yld /\ i.prio = s.prio /\ i.err = s.err /\ i.tmr = s.tmr
          /\ i.stat = [s.stat EXCEPT ![C] = InsertedStat(s, C)]
          /\ i.grp = s.grp \cup {s.prio[C]}
          /\ Ready(i, s.prio[C]) = Ready(s, s.prio[C]) \cup {C}
          /\ \A p \in Prio : p # s.prio[C] => Ready(i, p) = Ready(s, p)
      BY <1>2, <1>5, <3>1, <3>2, InsertEffect, ZenonT(40)
    <3>4. InsertedStat(s, C) = DemotedStat(k)
      BY <2>1, <3>1 DEF InsertedStat, DemotedStat
    <3> QED
      BY <1>2, <1>3, <1>6, <2>1, <3>3, <3>4
  <2>2. CASE k.stat[C] # "RUNNING"
    <3>1. i = s
      BY <1>4, <2>2
    <3>2. i.stat = [k.stat EXCEPT ![C] = DemotedStat(k)]
      BY <1>2, <1>3, <2>2, <3>1 DEF DemotedStat
    <3> QED
      BY <1>2, <1>3, <1>5, <1>6, <2>2, <3>1, <3>2
  <2> QED
    BY <2>1, <2>2
<1>8. /\ \A x \in Thread : x # C => i.stat[x] = k.stat[x]
      /\ k.stat[C] = "RUNNING" => i.stat[C] = "READY"
      /\ k.stat[C] # "RUNNING" => i.stat[C] = k.stat[C]
  BY <1>2, <1>7 DEF DemotedStat
<1>9. \A q \in Queue : Waiting(i, q) = Waiting(k, q)
  BY <1>7 DEF Waiting
<1>10. \A p \in Prio : Ready(i, p) \subseteq Ready(k, p) \cup {C}
  BY <1>7
<1>11. LinksSound(i, S)
  <2>1. \A p \in Prio : \A x \in Ready(i, p) : i.stat[x] = "READY" /\ i.prio[x] = p
    BY <1>1, <1>2, <1>6, <1>7, <1>8 DEF LinksSound
  <2>2. /\ \A q \in Queue : \A x \in Waiting(i, q) : i.stat[x] \notin {"READY", "RUNNING"}
        /\ \A q, w \in Queue : \A x \in Waiting(i, q) : x \in Waiting(i, w) => q = w
    BY <1>1, <1>2, <1>8, <1>9 DEF LinksSound
  <2>3. ASSUME NEW x \in Thread \ S, i.stat[x] = "READY" PROVE x \in Ready(i, i.prio[x])
    <3>1. CASE x = C
      BY <1>7, <1>8, <2>3, <3>1
    <3>2. CASE x # C
      <4>1. x \in Ready(k, k.prio[x]) /\ k.prio[x] \in Prio
        BY <1>1, <1>2, <1>8, <2>3, <3>2 DEF LinksSound
      <4> QED
        BY <1>7, <4>1
    <3> QED
      BY <3>1, <3>2
  <2>4. ASSUME NEW p \in Prio PROVE p \in i.grp <=> Ready(i, p) # {}
    <3>1. p \in k.grp <=> Ready(k, p) # {}
      BY <1>1 DEF LinksSound
    <3> QED
      BY <1>7, <3>1
  <2>5. /\ \A x \in Thread : i.stat[x] = "RUNNING" => x = i.cur
        /\ \A x \in i.tmr : i.stat[x] = "SUSPEND"
    BY <1>1, <1>2, <1>7, <1>8 DEF LinksSound
  <2> QED
    BY <2>1, <2>2, <2>3, <2>4, <2>5 DEF LinksSound
<1>12. KernelSound(i, S)
  BY <1>7, <1>11 DEF KernelSound
<1> QED
  BY <1>7, <1>9, <1>10, <1>12 DEF i

\* The second half: the new current thread leaves its list and runs.
LEMMA PromoteSound ==
  ASSUME NEW k, NEW S, KernelSound(k, S), k.stat[k.cur] = "READY"
  PROVE  LET r == [RemoveThread(k, k.cur) EXCEPT !.stat[k.cur] = "RUNNING"]
         IN  /\ KernelSound(r, S)
             /\ r.cur = k.cur /\ r.lock = k.lock /\ r.yld = k.yld
             /\ r.prio = k.prio /\ r.err = k.err /\ r.tmr = k.tmr
             /\ r.stat = [k.stat EXCEPT ![k.cur] = "RUNNING"]
             /\ \A p \in Prio : Ready(r, p) = Ready(k, p) \ {k.cur}
             /\ \A q \in Queue : Waiting(r, q) = Waiting(k, q)
<1> DEFINE C == k.cur
           j == RemoveThread(k, C)
           r == [j EXCEPT !.stat[C] = "RUNNING"]
<1>1. ListType(k) /\ LinksSound(k, S) /\ k \in KernelType
  BY DEF KernelSound, ListType
<1>2. /\ C \in Thread /\ k.stat \in [Thread -> Stat] /\ k.prio \in [Thread -> Prio]
      /\ k.tmr \subseteq Thread
      /\ \A p \in Prio : Ready(k, p) \subseteq Thread
      /\ \A q \in Queue : Waiting(k, q) \subseteq Thread
  BY <1>1, KernelFields
<1>3. /\ ListType(j)
      /\ j.cur = k.cur /\ j.lock = k.lock /\ j.stat = k.stat
      /\ j.yld = k.yld /\ j.prio = k.prio /\ j.err = k.err /\ j.tmr = k.tmr
      /\ \A p \in Prio : Ready(j, p) = Ready(k, p) \ {C}
      /\ \A q \in Queue : Waiting(j, q) = Waiting(k, q) \ {C}
  BY <1>1, <1>2, RemoveEffect, ZenonT(40)
<1>4. LinksSound(j, S \cup {C}) /\ j \in KernelType
  BY <1>2, <1>3, RemoveSound DEF KernelSound, ListType
<1> HIDE DEF j
<1>5. /\ r.cur = j.cur /\ r.rdy = j.rdy /\ r.grp = j.grp /\ r.lock = j.lock
      /\ r.wait = j.wait /\ r.stat = [j.stat EXCEPT ![C] = "RUNNING"]
      /\ r.yld = j.yld /\ r.prio = j.prio /\ r.err = j.err /\ r.tmr = j.tmr
  BY <1>4 DEF KernelType
<1>6. r \in KernelType
  <2>1. [j.stat EXCEPT ![C] = "RUNNING"] \in [Thread -> Stat]
    BY <1>2, <1>3 DEF Stat
  <2>2. r = [j EXCEPT !.stat = [j.stat EXCEPT ![C] = "RUNNING"]]
    BY <1>4 DEF KernelType
  <2> HIDE DEF r
  <2> QED
    BY <1>4, <2>1, <2>2 DEF KernelType
<1> HIDE DEF r
<1>7. ListType(r)
  BY <1>3, <1>5, <1>6 DEF ListType
<1>8. /\ \A p \in Prio : Ready(r, p) = Ready(j, p) /\ C \notin Ready(j, p)
      /\ \A q \in Queue : Waiting(r, q) = Waiting(j, q) /\ C \notin Waiting(j, q)
  BY <1>3, <1>5 DEF Ready, Waiting
<1>9. /\ \A x \in Thread : x # C => r.stat[x] = k.stat[x]
      /\ r.stat[C] = "RUNNING"
      /\ r.stat = [k.stat EXCEPT ![C] = "RUNNING"]
  BY <1>2, <1>3, <1>5
<1>10. LinksSound(r, S)
  <2>1. /\ \A p \in Prio : \A x \in Ready(r, p) : r.stat[x] = "READY" /\ r.prio[x] = p
        /\ \A q \in Queue : \A x \in Waiting(r, q) : r.stat[x] \notin {"READY", "RUNNING"}
        /\ \A q, w \in Queue : \A x \in Waiting(r, q) : x \in Waiting(r, w) => q = w
    BY <1>2, <1>3, <1>4, <1>5, <1>8, <1>9 DEF LinksSound
  <2>2. \A x \in Thread \ S : r.stat[x] = "READY" => x \in Ready(r, r.prio[x])
    BY <1>2, <1>3, <1>4, <1>5, <1>8, <1>9 DEF LinksSound
  <2>3. \A p \in Prio : p \in r.grp <=> Ready(r, p) # {}
    BY <1>4, <1>5, <1>8 DEF LinksSound
  <2>4. /\ \A x \in Thread : r.stat[x] = "RUNNING" => x = r.cur
        /\ \A x \in r.tmr : r.stat[x] = "SUSPEND"
    BY <1>1, <1>2, <1>3, <1>5, <1>9 DEF LinksSound
  <2> QED
    BY <2>1, <2>2, <2>3, <2>4 DEF LinksSound
<1>11. \A q \in Queue : Waiting(r, q) = Waiting(k, q)
  <2>1. \A q \in Queue : C \notin Waiting(k, q)
    BY <1>1 DEF LinksSound
  <2> QED
    BY <1>3, <1>8, <2>1
<1>12. KernelSound(r, S)
  BY <1>7, <1>10 DEF KernelSound
<1>13. /\ r.cur = k.cur /\ r.lock = k.lock /\ r.yld = k.yld
       /\ r.prio = k.prio /\ r.err = k.err /\ r.tmr = k.tmr
       /\ \A p \in Prio : Ready(r, p) = Ready(k, p) \ {C}
  BY <1>3, <1>5, <1>8
<1> QED
  BY <1>9, <1>11, <1>12, <1>13 DEF r, j

\* r is k after rt_schedule: the current thread may have changed, to the most
\* urgent one in a ready list, if the scheduler is not locked.
Scheduled(k, r) ==
  /\ r.lock = k.lock /\ r.prio = k.prio /\ r.err = k.err /\ r.tmr = k.tmr
  /\ \A q \in Queue : Waiting(r, q) = Waiting(k, q)
  /\ \A p \in Prio : Ready(r, p) \subseteq Ready(k, p) \cup {k.cur}
  /\ \A t \in Thread \ {k.cur, r.cur} : r.stat[t] = k.stat[t]
  /\ r.cur = k.cur => r.stat[k.cur] = k.stat[k.cur]
  /\ r.cur # k.cur => /\ k.lock = 0
                      /\ k.stat[r.cur] = "READY" /\ r.stat[r.cur] = "RUNNING"
                      /\ r.stat[k.cur] = DemotedStat(k)
                      /\ r.cur \in Ready(k, k.prio[r.cur])
  /\ k.lock = 0 /\ k.grp # {} => r.stat[r.cur] = "RUNNING"
  /\ k.lock = 0 /\ (k.grp = {} => k.stat[k.cur] = "RUNNING") =>
       \A p \in Prio : Ready(r, p) # {} => k.prio[r.cur] <= p

\* rt_schedule once the most urgent thread is known to be `to'.
LEMMA SwitchSound ==
  ASSUME NEW k, NEW S, KernelSound(k, S), k.stat[k.cur] # "READY", k.lock = 0,
         NEW to, to \in Ready(k, k.prio[to]), to \in Thread,
         \A p \in k.grp : k.prio[to] <= p,
         k.stat[k.cur] = "RUNNING" => k.prio[to] <= k.prio[k.cur]
  PROVE  KernelSound(SwitchTo(k, to), S) /\ Scheduled(k, SwitchTo(k, to))
<1> DEFINE i == Demote(k, to)
           r == SwitchTo(k, to)
           C == k.cur
<1>1. ListType(k) /\ LinksSound(k, S) /\ k \in KernelType
  BY DEF KernelSound, ListType
<1>2. /\ C \in Thread /\ k.stat \in [Thread -> Stat] /\ k.prio \in [Thread -> Prio]
  BY <1>1, KernelFields
<1>3. k.stat[to] = "READY" /\ to # C /\ k.prio[to] \in Prio
  BY <1>1, <1>2 DEF LinksSound
<1>4. /\ KernelSound(i, S)
      /\ i.cur = to /\ i.lock = k.lock /\ i.yld = k.yld
      /\ i.prio = k.prio /\ i.err = k.err /\ i.tmr = k.tmr
      /\ i.stat = [k.stat EXCEPT ![C] = DemotedStat(k)]
      /\ \A p \in Prio : Ready(i, p) \subseteq Ready(k, p) \cup {C}
      /\ \A q \in Queue : Waiting(i, q) = Waiting(k, q)
  BY <1>3, DemoteSound, SMTT(40)
<1>5. r = [RemoveThread(i, i.cur) EXCEPT !.stat[i.cur] = "RUNNING"]
  BY <1>4 DEF SwitchTo, Demote
<1> HIDE DEF i, r
<1>6. i.stat[i.cur] = "READY"
  BY <1>2, <1>3, <1>4
<1>7. /\ KernelSound(r, S)
      /\ r.cur = i.cur /\ r.lock = i.lock /\ r.yld = i.yld
      /\ r.prio = i.prio /\ r.err = i.err /\ r.tmr = i.tmr
      /\ r.stat = [i.stat EXCEPT ![i.cur] = "RUNNING"]
      /\ \A p \in Prio : Ready(r, p) = Ready(i, p) \ {i.cur}
      /\ \A q \in Queue : Waiting(r, q) = Waiting(i, q)
  BY <1>4, <1>5, <1>6, PromoteSound, ZenonT(40)
<1>8. /\ \A t \in Thread \ {C, to} : r.stat[t] = k.stat[t]
      /\ r.stat[to] = "RUNNING" /\ r.stat[C] = DemotedStat(k)
  BY <1>2, <1>3, <1>4, <1>7
<1>9. ASSUME NEW p \in Prio, Ready(r, p) # {} PROVE k.prio[to] <= p
  <2>1. PICK x \in Ready(r, p) : TRUE
    BY <1>9
  <2>2. CASE x = C
    <3>1. r.stat[C] = "READY" /\ r.prio[C] = p
      BY <1>7, <2>1, <2>2 DEF KernelSound, LinksSound
    <3>2. k.stat[C] = "RUNNING" /\ k.prio[C] = p
      BY <1>4, <1>7, <1>8, <3>1 DEF DemotedStat
    <3> QED
      BY <3>2
  <2>3. CASE x # C
    <3>1. x \in Ready(k, p)
      BY <1>4, <1>7, <2>1, <2>3
    <3>2. p \in k.grp
      BY <1>1, <3>1 DEF LinksSound
    <3> QED
      BY <3>2
  <2> QED
    BY <2>2, <2>3
<1>10. /\ \A p \in Prio : Ready(r, p) \subseteq Ready(k, p) \cup {C}
       /\ \A q \in Queue : Waiting(r, q) = Waiting(k, q)
       /\ r.lock = k.lock /\ r.prio = k.prio /\ r.err = k.err /\ r.tmr = k.tmr
       /\ r.cur = to
  BY <1>4, <1>7
<1>11. /\ r.cur # C => /\ k.stat[r.cur] = "READY" /\ r.stat[r.cur] = "RUNNING"
                       /\ r.stat[C] = DemotedStat(k)
                       /\ r.cur \in Ready(k, k.prio[r.cur])
       /\ r.stat[r.cur] = "RUNNING"
       /\ \A t \in Thread \ {C, r.cur} : r.stat[t] = k.stat[t]
       /\ \A p \in Prio : Ready(r, p) # {} => k.prio[r.cur] <= p
       /\ r.cur # C
  BY <1>3, <1>8, <1>9, <1>10
<1>12. Scheduled(k, r)
  BY <1>10, <1>11 DEF Scheduled
<1> QED
  BY <1>7, <1>12 DEF r

\* rt_schedule keeps the lists sound and gives the processor to the most
\* urgent thread in a ready list.
LEMMA ScheduleSound ==
  ASSUME NEW k, NEW S, KernelSound(k, S), k.stat[k.cur] # "READY"
  PROVE  KernelSound(Schedule(k), S) /\ Scheduled(k, Schedule(k))
<1> DEFINE C == k.cur
           c == ClearYield(k)
           H == HighestReadyPriority(k)
<1>1. ListType(k) /\ LinksSound(k, S) /\ k \in KernelType
  BY DEF KernelSound, ListType
<1>2. /\ C \in Thread /\ k.stat \in [Thread -> Stat] /\ k.prio \in [Thread -> Prio]
      /\ k.rdy \in [Prio -> Seq(Thread)] /\ k.grp \subseteq Prio
      /\ \A p \in Prio : Ready(k, p) \subseteq Thread
  BY <1>1, KernelFields
<1>3. /\ c \in KernelType
      /\ c.cur = k.cur /\ c.rdy = k.rdy /\ c.grp = k.grp /\ c.lock = k.lock
      /\ c.wait = k.wait /\ c.stat = k.stat /\ c.prio = k.prio
      /\ c.err = k.err /\ c.tmr = k.tmr
  BY <1>1 DEF KernelType, ClearYield
<1> HIDE DEF c
<1>4. KernelSound(c, S) /\ ListType(c)
  BY <1>3, SoundFields DEF KernelSound
<1>5. /\ \A p \in Prio : Ready(c, p) = Ready(k, p) /\ C \notin Ready(k, p)
      /\ \A q \in Queue : Waiting(c, q) = Waiting(k, q)
  BY <1>1, <1>3 DEF Ready, Waiting, LinksSound
<1>6. CASE k.lock # 0 \/ k.grp = {}
  <2>1. Schedule(k) = k
    BY <1>6 DEF Schedule
  <2>2. k.grp = {} => \A p \in Prio : Ready(k, p) = {}
    BY <1>1 DEF LinksSound
  <2>3. Scheduled(k, k)
    BY <1>6, <2>2 DEF Scheduled
  <2> QED
    BY <2>1, <2>3
<1>7. CASE ~(k.lock # 0 \/ k.grp = {}) /\ KeepsProcessor(k)
  <2> DEFINE j == RemoveThread(c, C)
             r == [j EXCEPT !.stat[C] = "RUNNING"]
  <2>1. Schedule(k) = r
    BY <1>7 DEF Schedule, c
  <2>2. k.stat[C] = "RUNNING" /\ k.prio[C] <= H
    <3>1. H \in Prio
      BY <1>1, <1>7, HighestIsLeast
    <3> QED
      BY <1>2, <1>7, <3>1, KernelAssumption DEF KeepsProcessor, Prio
  <2>3. /\ ListType(j)
        /\ j.cur = c.cur /\ j.lock = c.lock /\ j.stat = c.stat
        /\ j.yld = c.yld /\ j.prio = c.prio /\ j.err = c.err /\ j.tmr = c.tmr
        /\ \A p \in Prio : Ready(j, p) = Ready(c, p) \ {C}
        /\ \A q \in Queue : Waiting(j, q) = Waiting(c, q) \ {C}
    <3>1. C \in Thread /\ ListType(c)
      BY <1>2, <1>4
    <3> HIDE DEF C
    <3> QED
      BY ONLY <3>1, RemoveEffect, ZenonT(40)
  <2>4. KernelSound(j, S \cup {C})
    BY <1>2, <1>4, RemoveSound
  <2> HIDE DEF j
  <2>5. r = j
    BY <1>2, <1>3, <2>2, <2>3 DEF ListType, KernelType
  <2>6. KernelSound(j, S)
    BY <1>3, <2>2, <2>3, <2>4, SoundLess
  <2>7. \A q \in Queue : C \notin Waiting(k, q)
    BY <1>1, <2>2 DEF LinksSound
  <2>8. /\ \A q \in Queue : Waiting(j, q) = Waiting(k, q)
        /\ \A p \in Prio : Ready(j, p) = Ready(k, p)
    BY <1>5, <2>3, <2>7, ZenonT(40)
  <2>9. ASSUME NEW p \in Prio, Ready(k, p) # {} PROVE k.prio[C] <= p
    <3>1. p \in k.grp
      BY <1>1, <2>9 DEF LinksSound
    <3>2. H <= p /\ H \in Prio /\ k.prio[C] \in Prio
      BY <1>1, <1>2, <3>1, HighestIsLeast
    <3> QED
      BY <2>2, <3>2, KernelAssumption DEF Prio
  <2>10. Scheduled(k, j)
    BY <1>3, <2>2, <2>3, <2>8, <2>9 DEF Scheduled
  <2> QED
    BY <2>1, <2>5, <2>6, <2>10
<1>8. CASE ~(k.lock # 0 \/ k.grp = {}) /\ ~KeepsProcessor(k)
  <2> DEFINE to == Head(k.rdy[H])
  <2>1. Schedule(k) = SwitchTo(c, to)
    BY <1>8 DEF Schedule, c
  <2>2. H \in k.grp /\ H \in Prio /\ \A p \in k.grp : H <= p
    BY <1>1, <1>8, HighestIsLeast
  <2>3. Ready(k, H) # {}
    BY <1>1, <2>2 DEF LinksSound
  <2>4. to \in Ready(k, H)
    <3>1. k.rdy[H] \in Seq(Thread) /\ ToSet(k.rdy[H]) # {}
      BY <1>2, <2>2, <2>3 DEF Ready
    <3>2. k.rdy[H] # << >>
      BY <3>1, EmptyList
    <3> QED
      BY <3>1, <3>2, HeadInList DEF Ready
  <2>5. to \in Thread /\ k.prio[to] = H
    BY <1>1, <1>2, <2>2, <2>4 DEF LinksSound
  <2> HIDE DEF to
  <2>6. k.stat[C] = "RUNNING" => H <= k.prio[C]
    BY <1>2, <1>8, <2>2, KernelAssumption DEF KeepsProcessor, Prio
  <2>7. to \in Ready(c, c.prio[to])
    BY <1>3, <1>5, <2>2, <2>4, <2>5
  <2>8. /\ \A p \in c.grp : c.prio[to] <= p
        /\ c.stat[c.cur] = "RUNNING" => c.prio[to] <= c.prio[c.cur]
        /\ c.stat[c.cur] # "READY" /\ c.lock = 0
    BY <1>3, <1>8, <2>2, <2>5, <2>6
  <2>9. KernelSound(SwitchTo(c, to), S) /\ Scheduled(c, SwitchTo(c, to))
    BY <1>4, <2>5, <2>7, <2>8, SwitchSound
  <2> DEFINE r == SwitchTo(c, to)
  <2> HIDE DEF r
  <2>10. KernelSound(r, S) /\ Scheduled(c, r)
    BY <2>9 DEF r
  <2>11. DemotedStat(c) = DemotedStat(k)
    BY <1>3 DEF DemotedStat
  <2>12. k.prio[r.cur] \in Prio
    <3>1. r.cur \in Thread
      BY <2>10, KernelFields DEF KernelSound, ListType
    <3> QED
      BY <1>2, <3>1
  <2>13. Scheduled(k, r)
    BY <1>3, <1>5, <2>10, <2>11, <2>12 DEF Scheduled
  <2> QED
    BY <2>1, <2>10, <2>13 DEF r
<1> QED
  BY <1>6, <1>7, <1>8

\* rt_thread_yield, and the end of a time slice.
LEMMA YieldSound ==
  ASSUME NEW k, NEW S, KernelSound(k, S), k.stat[k.cur] # "READY"
  PROVE  KernelSound(YieldCurrent(k), S) /\ Scheduled(k, YieldCurrent(k))
<1> DEFINE y == [k EXCEPT !.yld = @ \cup {k.cur}]
<1>1. k \in KernelType
  BY DEF KernelSound, ListType
<1>2. /\ y \in KernelType
      /\ y.cur = k.cur /\ y.rdy = k.rdy /\ y.grp = k.grp /\ y.lock = k.lock
      /\ y.wait = k.wait /\ y.stat = k.stat /\ y.prio = k.prio
      /\ y.err = k.err /\ y.tmr = k.tmr
  BY <1>1 DEF KernelType
<1>3. YieldCurrent(k) = Schedule(y)
  BY DEF YieldCurrent
<1> HIDE DEF y
<1>4. KernelSound(y, S) /\ y.stat[y.cur] # "READY"
  BY <1>2, SoundFields
<1> DEFINE r == Schedule(y)
<1>5. KernelSound(r, S) /\ Scheduled(y, r)
  BY <1>4, ScheduleSound
<1> HIDE DEF r
<1>6. /\ \A p \in Prio : Ready(y, p) = Ready(k, p)
      /\ \A q \in Queue : Waiting(y, q) = Waiting(k, q)
      /\ DemotedStat(y) = DemotedStat(k)
  BY <1>2 DEF Ready, Waiting, DemotedStat
<1>7. k.prio[r.cur] \in Prio
  <2>1. r.cur \in Thread /\ k.prio \in [Thread -> Prio]
    BY <1>1, <1>5, KernelFields DEF KernelSound, ListType
  <2> QED
    BY <2>1
<1>8. Scheduled(k, r)
  BY <1>2, <1>5, <1>6, <1>7 DEF Scheduled
<1> QED
  BY <1>3, <1>5, <1>8 DEF r

\* current_priority of a thread in no ready list can be set.
LEMMA PrioritySound ==
  ASSUME NEW k, NEW S, KernelSound(k, S), NEW t \in Thread, NEW p \in Prio,
         \A q \in Prio : t \notin Ready(k, q), t \in S \/ k.stat[t] # "READY"
  PROVE  LET r == [k EXCEPT !.prio[t] = p]
         IN  /\ KernelSound(r, S)
             /\ r.cur = k.cur /\ r.lock = k.lock /\ r.yld = k.yld /\ r.grp = k.grp
             /\ r.prio = [k.prio EXCEPT ![t] = p] /\ r.stat = k.stat
             /\ r.err = k.err /\ r.tmr = k.tmr
             /\ \A q \in Prio : Ready(r, q) = Ready(k, q)
             /\ \A q \in Queue : Waiting(r, q) = Waiting(k, q)
<1> DEFINE r == [k EXCEPT !.prio[t] = p]
<1>1. ListType(k) /\ LinksSound(k, S) /\ k \in KernelType
  BY DEF KernelSound, ListType
<1>2. /\ k.stat \in [Thread -> Stat] /\ k.prio \in [Thread -> Prio]
      /\ \A q \in Prio : Ready(k, q) \subseteq Thread
  BY <1>1, KernelFields
<1>3. /\ r.cur = k.cur /\ r.rdy = k.rdy /\ r.grp = k.grp /\ r.lock = k.lock
      /\ r.wait = k.wait /\ r.stat = k.stat /\ r.yld = k.yld
      /\ r.prio = [k.prio EXCEPT ![t] = p] /\ r.err = k.err /\ r.tmr = k.tmr
  BY <1>1 DEF KernelType
<1>4. r \in KernelType
  <2>1. [k.prio EXCEPT ![t] = p] \in [Thread -> Prio]
    BY <1>2
  <2>2. r = [k EXCEPT !.prio = [k.prio EXCEPT ![t] = p]]
    BY <1>1 DEF KernelType
  <2> HIDE DEF r
  <2> QED
    BY <1>1, <2>1, <2>2 DEF KernelType
<1> HIDE DEF r
<1>5. ListType(r)
  BY <1>1, <1>3, <1>4 DEF ListType
<1>6. /\ \A q \in Prio : Ready(r, q) = Ready(k, q)
      /\ \A q \in Queue : Waiting(r, q) = Waiting(k, q)
  BY <1>3 DEF Ready, Waiting
<1>7. \A x \in Thread : x # t => r.prio[x] = k.prio[x]
  BY <1>2, <1>3
<1>8. LinksSound(r, S)
  <2>1. \A q \in Prio : \A x \in Ready(r, q) : r.stat[x] = "READY" /\ r.prio[x] = q
    BY <1>1, <1>2, <1>3, <1>6, <1>7 DEF LinksSound
  <2>2. \A x \in Thread \ S : r.stat[x] = "READY" => x \in Ready(r, r.prio[x])
    BY <1>1, <1>2, <1>3, <1>6, <1>7 DEF LinksSound
  <2>3. /\ \A q \in Queue : \A x \in Waiting(r, q) : r.stat[x] \notin {"READY", "RUNNING"}
        /\ \A q, w \in Queue : \A x \in Waiting(r, q) : x \in Waiting(r, w) => q = w
        /\ \A q \in Prio : q \in r.grp <=> Ready(r, q) # {}
        /\ \A x \in Thread : r.stat[x] = "RUNNING" => x = r.cur
        /\ \A x \in r.tmr : r.stat[x] = "SUSPEND"
    BY <1>1, <1>3, <1>6 DEF LinksSound
  <2> QED
    BY <2>1, <2>2, <2>3 DEF LinksSound
<1>9. KernelSound(r, S)
  BY <1>5, <1>8 DEF KernelSound
<1> QED
  BY <1>3, <1>6, <1>9 DEF r

\* rt_schedule_remove_thread of a thread that is in no suspension list.
LEMMA RemoveLists ==
  ASSUME NEW k, ListType(k), NEW t \in Thread, \A q \in Queue : t \notin Waiting(k, q)
  PROVE  RemoveThread(k, t).wait = k.wait
<1>1. k \in KernelType /\ k.wait \in [Queue -> Seq(Thread)]
  BY KernelFields DEF ListType
<1>2. Unlink(k, t) \in KernelType
  BY UnlinkEffect DEF ListType
<1>3. RemoveThread(k, t).wait = Unlink(k, t).wait
  BY <1>2 DEF RemoveThread, KernelType
<1>4. Unlink(k, t).wait = [q \in Queue |-> RemoveFirst(k.wait[q], t)]
  BY <1>1 DEF Unlink, KernelType
<1>5. \A q \in Queue : RemoveFirst(k.wait[q], t) = k.wait[q]
  BY <1>1, RemoveFirstAbsent DEF Waiting
<1> QED
  BY <1>1, <1>3, <1>4, <1>5

\* r is k with another current_priority of t.
Reprioritised(k, r, t, p) ==
  /\ r.cur = k.cur /\ r.lock = k.lock /\ r.yld = k.yld /\ r.stat = k.stat
  /\ r.tmr = k.tmr /\ r.prio = [k.prio EXCEPT ![t] = p]
  /\ r.err = k.err /\ r.wait = k.wait
  /\ \A q \in Prio : Ready(r, q) \subseteq Ready(k, q) \cup {t}
  /\ \A q \in Queue : Waiting(r, q) = Waiting(k, q)

\* RT_THREAD_CTRL_CHANGE_PRIORITY.
LEMMA ChangePrioritySound ==
  ASSUME NEW k, NEW S, KernelSound(k, S), k.stat[k.cur] # "READY",
         NEW t \in Thread, NEW p \in Prio
  PROVE  KernelSound(ChangePriority(k, t, p), S)
         /\ Reprioritised(k, ChangePriority(k, t, p), t, p)
<1> DEFINE r == ChangePriority(k, t, p)
<1>1. ListType(k) /\ LinksSound(k, S) /\ k \in KernelType
  BY DEF KernelSound, ListType
<1>2. /\ k.stat \in [Thread -> Stat] /\ k.cur \in Thread /\ k.prio \in [Thread -> Prio]
      /\ \A q \in Prio : Ready(k, q) \subseteq Thread
  BY <1>1, KernelFields
<1>3. CASE k.stat[t] # "READY"
  <2>1. r = [k EXCEPT !.prio[t] = p]
    BY <1>3 DEF ChangePriority
  <2>2. \A q \in Prio : t \notin Ready(k, q)
    BY <1>1, <1>3 DEF LinksSound
  <2> HIDE DEF r
  <2>3. /\ KernelSound(r, S)
        /\ r.cur = k.cur /\ r.lock = k.lock /\ r.yld = k.yld /\ r.grp = k.grp
        /\ r.prio = [k.prio EXCEPT ![t] = p] /\ r.stat = k.stat
        /\ r.err = k.err /\ r.tmr = k.tmr
        /\ \A q \in Prio : Ready(r, q) = Ready(k, q)
        /\ \A q \in Queue : Waiting(r, q) = Waiting(k, q)
    BY <1>3, <2>1, <2>2, PrioritySound
  <2>4. r.wait = k.wait
    BY <1>1, <2>1 DEF KernelType
  <2> QED
    BY <2>3, <2>4 DEF r, Reprioritised
<1>4. CASE k.stat[t] = "READY"
  <2> DEFINE j == RemoveThread(k, t)
             x == [j EXCEPT !.prio[t] = p]
             T == S \cup {t}
  <2>1. r = InsertThread(x, t) /\ t # k.cur
    BY <1>4 DEF ChangePriority
  <2>2. /\ j.cur = k.cur /\ j.lock = k.lock /\ j.stat = k.stat
        /\ j.yld = k.yld /\ j.prio = k.prio /\ j.err = k.err /\ j.tmr = k.tmr
        /\ \A q \in Prio : Ready(j, q) = Ready(k, q) \ {t}
        /\ \A q \in Queue : Waiting(j, q) = Waiting(k, q) \ {t}
    BY ONLY <1>1, t \in Thread, RemoveEffect, ZenonT(40)
  <2>3. KernelSound(j, T)
    BY RemoveSound
  <2> HIDE DEF j, r, T
  <2>4. t \in T /\ \A q \in Prio : t \notin Ready(j, q)
    BY <2>2 DEF T
  <2>5. /\ KernelSound(x, T)
        /\ x.cur = j.cur /\ x.lock = j.lock /\ x.yld = j.yld /\ x.grp = j.grp
        /\ x.prio = [j.prio EXCEPT ![t] = p] /\ x.stat = j.stat
        /\ x.err = j.err /\ x.tmr = j.tmr
        /\ \A q \in Prio : Ready(x, q) = Ready(j, q)
        /\ \A q \in Queue : Waiting(x, q) = Waiting(j, q)
    BY <2>3, <2>4, PrioritySound
  <2> HIDE DEF x
  <2>6. t \notin k.tmr /\ \A q \in Queue : t \notin Waiting(k, q)
    BY <1>1, <1>4 DEF LinksSound
  <2>7. TakenOut(x, x, t) /\ x.stat[x.cur] # "READY"
    <3>1. /\ \A q \in Prio : Ready(x, q) = Ready(x, q) \ {t}
          /\ \A q \in Queue : Waiting(x, q) = Waiting(x, q) \ {t}
          /\ x.tmr = x.tmr \ {t}
      BY <2>2, <2>5, <2>6
    <3> QED
      BY <2>2, <2>5, <3>1 DEF TakenOut, KernelSound
  <2>8. KernelSound(r, T \ {t}) /\ Woken(x, r, t)
    BY <2>1, <2>5, <2>7, WakeSound
  <2>9. KernelSound(r, S)
    BY <2>8, SoundMore DEF T
  <2>10. r.stat = k.stat
    <3>1. InsertedStat(x, t) = "READY"
      BY <2>1, <2>2, <2>5 DEF InsertedStat
    <3>2. r.stat = [k.stat EXCEPT ![t] = "READY"]
      BY <2>2, <2>5, <2>8, <3>1 DEF Woken
    <3> QED
      BY <1>2, <1>4, <3>2
  <2>11. /\ \A q \in Prio : Ready(r, q) \subseteq Ready(k, q) \cup {t}
         /\ \A q \in Queue : Waiting(r, q) = Waiting(k, q)
    <3>1. /\ \A q \in Prio : Ready(r, q) \subseteq Ready(x, q) \cup {t}
          /\ \A q \in Queue : Waiting(r, q) = Waiting(x, q) \ {t}
      BY <2>8 DEF Woken
    <3>2. ASSUME NEW q \in Queue PROVE Waiting(r, q) = Waiting(k, q)
      <4>1. Waiting(r, q) = Waiting(x, q) \ {t} /\ Waiting(x, q) = Waiting(j, q)
        BY <2>5, <3>1
      <4>2. Waiting(j, q) = Waiting(k, q) \ {t} /\ t \notin Waiting(k, q)
        BY <2>2, <2>6
      <4> QED
        BY ONLY <4>1, <4>2
    <3>3. ASSUME NEW q \in Prio PROVE Ready(r, q) \subseteq Ready(k, q) \cup {t}
      <4>1. Ready(r, q) \subseteq Ready(x, q) \cup {t} /\ Ready(x, q) = Ready(j, q)
        BY <2>5, <3>1
      <4>2. Ready(j, q) = Ready(k, q) \ {t}
        BY <2>2
      <4> QED
        BY ONLY <4>1, <4>2
    <3> QED
      BY <3>2, <3>3
  <2>12. /\ r.cur = k.cur /\ r.lock = k.lock /\ r.yld = k.yld
         /\ r.tmr = k.tmr /\ r.prio = [k.prio EXCEPT ![t] = p]
    BY <2>2, <2>5, <2>6, <2>8 DEF Woken
  <2>13. r.err = k.err /\ r.wait = k.wait
    <3>1. j.wait = k.wait
      BY <1>1, <2>6, RemoveLists DEF j
    <3>2. j \in KernelType /\ x \in KernelType
      BY <2>3, <2>5 DEF KernelSound, ListType
    <3>3. x.wait = j.wait
      BY <3>2 DEF x, KernelType
    <3>4. r.err = x.err /\ r.wait = x.wait
      BY <2>1, <3>2, InsertFields
    <3> QED
      BY <2>2, <2>5, <3>1, <3>3, <3>4
  <2> QED
    BY <2>9, <2>10, <2>11, <2>12, <2>13 DEF r, Reprioritised
<1> QED
  BY <1>3, <1>4

\* What the runs check of the lists and of the bitmap.
LEMMA SoundMatches ==
  ASSUME NEW k, NEW S, KernelSound(k, S)
  PROVE  ListsMatchStat(k, S) /\ BitmapExact(k)
<1>1. ListType(k) /\ LinksSound(k, S) /\ k \in KernelType
  BY DEF KernelSound, ListType
<1>2. /\ k.rdy \in [Prio -> Seq(Thread)] /\ k.wait \in [Queue -> Seq(Thread)]
      /\ k.prio \in [Thread -> Prio] /\ k.grp \subseteq Prio
  BY <1>1, KernelFields
<1>3. /\ \A p \in Prio : \A t : Contains(k.rdy[p], t) <=> t \in Ready(k, p)
      /\ \A q \in Queue : \A t : Contains(k.wait[q], t) <=> t \in Waiting(k, q)
  BY <1>2, ContainsToSet DEF Ready, Waiting
<1>4. BitmapExact(k)
  <2>1. ASSUME NEW p \in Prio PROVE k.rdy[p] # << >> <=> Ready(k, p) # {}
    <3>1. k.rdy[p] \in Seq(Thread)
      BY <1>2
    <3> QED
      BY <3>1, EmptyList DEF Ready
  <2>2. \A p \in Prio : p \in k.grp <=> Ready(k, p) # {}
    BY <1>1 DEF LinksSound
  <2> QED
    BY <1>2, <2>1, <2>2 DEF BitmapExact
<1>5. ASSUME NEW t \in Thread
      PROVE  /\ Cardinality(ListsOf(k, t)) <= 1
             /\ \A p \in Prio : Occurrences(k.rdy[p], t) <= 1
             /\ \A q \in Queue : Occurrences(k.wait[q], t) <= 1
             /\ \A p \in Prio :
                  Contains(k.rdy[p], t) => k.stat[t] = "READY" /\ p = k.prio[t]
             /\ k.stat[t] = "READY" /\ t \notin S => Contains(k.rdy[k.prio[t]], t)
  <2>1. ASSUME NEW x \in ListsOf(k, t), NEW y \in ListsOf(k, t) PROVE x = y
    <3>1. \A p \in Prio : t \in Ready(k, p) => k.stat[t] = "READY" /\ p = k.prio[t]
      BY <1>1 DEF LinksSound
    <3>2. \A q, r \in Queue :
            t \in Waiting(k, q) => k.stat[t] # "READY" /\ (t \in Waiting(k, r) => q = r)
      BY <1>1 DEF LinksSound
    <3>3. CASE k.stat[t] = "READY"
      <4>1. ASSUME NEW z \in ListsOf(k, t) PROVE z = <<"ready", k.prio[t]>>
        BY <1>3, <3>1, <3>2, <3>3 DEF ListsOf
      <4> QED
        BY <4>1
    <3>4. CASE k.stat[t] # "READY"
      <4>1. ASSUME NEW z \in ListsOf(k, t)
            PROVE  \E q \in Queue : t \in Waiting(k, q) /\ z = <<"wait", q>>
        BY <1>3, <3>1, <3>4 DEF ListsOf
      <4>2. PICK q \in Queue : t \in Waiting(k, q) /\ x = <<"wait", q>>
        BY <4>1
      <4>3. PICK r \in Queue : t \in Waiting(k, r) /\ y = <<"wait", r>>
        BY <4>1
      <4> QED
        BY <3>2, <4>2, <4>3
    <3> QED
      BY <3>3, <3>4
  <2>2. ASSUME NEW s, Distinct(s) PROVE Occurrences(s, t) <= 1
    <3>1. \A i, j \in {n \in DOMAIN s : s[n] = t} : i = j
      BY <2>2 DEF Distinct
    <3> QED
      BY <3>1, AtMostOne DEF Occurrences
  <2>3. /\ \A p \in Prio : Occurrences(k.rdy[p], t) <= 1
        /\ \A q \in Queue : Occurrences(k.wait[q], t) <= 1
    BY <1>1, <2>2 DEF ListType
  <2>4. /\ \A p \in Prio :
             Contains(k.rdy[p], t) => k.stat[t] = "READY" /\ p = k.prio[t]
        /\ k.stat[t] = "READY" /\ t \notin S => Contains(k.rdy[k.prio[t]], t)
    BY <1>1, <1>2, <1>3 DEF LinksSound
  <2> QED
    BY <2>1, <2>3, <2>4, AtMostOne
<1> QED
  BY <1>4, <1>5 DEF ListsMatchStat

\* A thread in no list may be given another state in which it is in none.
LEMMA QuietSound ==
  ASSUME NEW k, NEW S, KernelSound(k, S), NEW t \in Thread, Detached(k, t),
         NEW r \in KernelType, NEW v \in Stat \ {"READY", "RUNNING"}, NEW p \in Prio,
         r.cur = k.cur, r.rdy = k.rdy, r.grp = k.grp, r.wait = k.wait,
         r.stat = [k.stat EXCEPT ![t] = v], r.prio = [k.prio EXCEPT ![t] = p],
         r.tmr = k.tmr \ {t}
  PROVE  /\ KernelSound(r, S)
         /\ \A q \in Prio : Ready(r, q) = Ready(k, q)
         /\ \A q \in Queue : Waiting(r, q) = Waiting(k, q)
<1>1. ListType(k) /\ LinksSound(k, S) /\ k \in KernelType
  BY DEF KernelSound, ListType
<1>2. /\ k.stat \in [Thread -> Stat] /\ k.prio \in [Thread -> Prio] /\ k.tmr \subseteq Thread
      /\ \A q \in Prio : Ready(k, q) \subseteq Thread
      /\ \A q \in Queue : Waiting(k, q) \subseteq Thread
  BY <1>1, KernelFields
<1>3. /\ \A q \in Prio : Ready(r, q) = Ready(k, q)
      /\ \A q \in Queue : Waiting(r, q) = Waiting(k, q)
  BY DEF Ready, Waiting
<1>4. ListType(r)
  BY <1>1 DEF ListType
<1>5. /\ \A x \in Thread : x # t => r.stat[x] = k.stat[x] /\ r.prio[x] = k.prio[x]
      /\ r.stat[t] = v
  BY <1>2
<1>6. LinksSound(r, S)
  <2>1. \A q \in Prio : \A x \in Ready(r, q) : r.stat[x] = "READY" /\ r.prio[x] = q
    BY <1>1, <1>2, <1>3, <1>5 DEF LinksSound, Detached
  <2>2. /\ \A q \in Queue : \A x \in Waiting(r, q) : r.stat[x] \notin {"READY", "RUNNING"}
        /\ \A q, w \in Queue : \A x \in Waiting(r, q) : x \in Waiting(r, w) => q = w
    BY <1>1, <1>2, <1>3, <1>5 DEF LinksSound
  <2>3. \A x \in Thread \ S : r.stat[x] = "READY" => x \in Ready(r, r.prio[x])
    BY <1>1, <1>2, <1>3, <1>5 DEF LinksSound
  <2>4. /\ \A q \in Prio : q \in r.grp <=> Ready(r, q) # {}
        /\ \A x \in Thread : r.stat[x] = "RUNNING" => x = r.cur
        /\ \A x \in r.tmr : r.stat[x] = "SUSPEND"
    BY <1>1, <1>2, <1>3, <1>5 DEF LinksSound
  <2> QED
    BY <2>1, <2>2, <2>3, <2>4 DEF LinksSound
<1> QED
  BY <1>3, <1>4, <1>6 DEF KernelSound

-----------------------------------------------------------------------------
(***************************************************************************)
(* The suspension lists of the IPC objects                                 *)
(***************************************************************************)

\* rt_schedule_remove_thread leaves the lists of the others in order.
LEMMA RemoveOrder ==
  ASSUME NEW k, ListType(k), NEW t \in Thread, NEW q \in Queue, UrgentFirst(k, q)
  PROVE  UrgentFirst(RemoveThread(k, t), q)
<1>1. k \in KernelType
  BY DEF ListType
<1>2. Unlink(k, t) \in KernelType
  BY UnlinkEffect DEF ListType
<1>3. /\ RemoveThread(k, t).wait = Unlink(k, t).wait
      /\ RemoveThread(k, t).prio = Unlink(k, t).prio
  BY <1>2 DEF RemoveThread, KernelType
<1> QED
  BY <1>1, <1>2, <1>3, UnlinkOrder DEF UrgentFirst

\* A thread that is resumed leaves its list.
LEMMA ResumeOrder ==
  ASSUME NEW k, ListType(k), NEW t \in Thread, NEW q \in Queue, UrgentFirst(k, q)
  PROVE  UrgentFirst(ResumeThread(k, t), q)
<1> DEFINE u == Unlink(k, t)
           x == [u EXCEPT !.tmr = u.tmr \ {t}]
<1>1. u \in KernelType /\ k \in KernelType
  BY UnlinkEffect DEF ListType
<1>2. ResumeThread(k, t) = InsertThread(x, t)
  BY DEF ResumeThread
<1>3. UrgentFirst(u, q)
  BY <1>1, UnlinkOrder
<1> HIDE DEF u
<1>4. x \in KernelType /\ x.wait = u.wait /\ x.prio = u.prio
  BY <1>1 DEF KernelType
<1> HIDE DEF x
<1> QED
  BY <1>2, <1>3, <1>4, InsertFields DEF UrgentFirst

\* rt_schedule takes no thread out of a suspension list.
LEMMA ScheduleLists ==
  ASSUME NEW k, NEW S, KernelSound(k, S), k.stat[k.cur] # "READY"
  PROVE  Schedule(k).wait = k.wait
<1> DEFINE c == ClearYield(k)
           to == Head(k.rdy[HighestReadyPriority(k)])
<1>1. ListType(k) /\ LinksSound(k, S) /\ k \in KernelType
  BY DEF KernelSound, ListType
<1>2. /\ c \in KernelType
      /\ c.cur = k.cur /\ c.rdy = k.rdy /\ c.grp = k.grp /\ c.lock = k.lock
      /\ c.wait = k.wait /\ c.stat = k.stat /\ c.prio = k.prio /\ c.tmr = k.tmr
  BY <1>1 DEF ClearYield, KernelType
<1>3. ListType(c)
  BY <1>1, <1>2 DEF ListType
<1>4. k.cur \in Thread
  BY <1>1, KernelFields
<1>5. CASE k.lock # 0 \/ k.grp = {}
  BY <1>5 DEF Schedule
<1>6. CASE ~(k.lock # 0 \/ k.grp = {}) /\ KeepsProcessor(k)
  <2> DEFINE r == RemoveThread(c, k.cur)
  <2>1. Schedule(k) = [r EXCEPT !.stat[k.cur] = "RUNNING"]
    BY <1>6 DEF Schedule
  <2>2. \A q \in Queue : k.cur \notin Waiting(c, q)
    BY <1>1, <1>2, <1>6 DEF LinksSound, KeepsProcessor, Waiting
  <2>3. r.wait = k.wait /\ r \in KernelType
    <3>1. r.wait = c.wait /\ ListType(r)
      BY <1>3, <1>4, <2>2, RemoveLists, RemoveEffect
    <3> QED
      BY <1>2, <3>1 DEF ListType
  <2> HIDE DEF r
  <2>4. [r EXCEPT !.stat[k.cur] = "RUNNING"].wait = r.wait
    BY <2>3 DEF KernelType
  <2> QED
    BY <2>1, <2>3, <2>4
<1>7. CASE ~(k.lock # 0 \/ k.grp = {}) /\ ~KeepsProcessor(k)
  <2> DEFINE i == Demote(c, to)
             r == RemoveThread(i, to)
  <2>1. Schedule(k) = [r EXCEPT !.stat[to] = "RUNNING"]
    BY <1>2, <1>7 DEF Schedule, SwitchTo, Demote
  <2>2. to \in Thread /\ k.stat[to] = "READY"
    <3>1. /\ HighestReadyPriority(k) \in k.grp
          /\ HighestReadyPriority(k) \in Prio
      BY <1>1, <1>7, HighestIsLeast
    <3> DEFINE H == HighestReadyPriority(k)
    <3>2. k.rdy[H] \in Seq(Thread) /\ Ready(k, H) # {} /\ Ready(k, H) \subseteq Thread
      BY <1>1, <3>1, KernelFields DEF LinksSound
    <3>3. to \in Ready(k, H)
      BY <3>2, EmptyList, HeadInList DEF Ready
    <3> QED
      BY <1>1, <3>1, <3>2, <3>3 DEF LinksSound
  <2>3. KernelSound(c, S) /\ c.stat[c.cur] # "READY" /\ c.stat[to] = "READY"
    BY <1>2, <2>2, SoundFields
  <2> HIDE DEF to, c
  <2>4. KernelSound(i, S)
    BY <2>2, <2>3, DemoteSound
  <2>5. i.wait = c.wait
    <3> DEFINE s == [c EXCEPT !.cur = to]
    <3>1. s \in KernelType /\ s.wait = c.wait
      BY <1>2, <2>2 DEF KernelType
    <3>2. InsertThread(s, c.cur).wait = s.wait
      BY <1>2, <1>4, <3>1, InsertFields
    <3> QED
      BY <3>1, <3>2 DEF Demote
  <2>6. ListType(i) /\ \A q \in Queue : to \notin Waiting(i, q)
    <3>1. \A q \in Queue : to \notin Waiting(k, q)
      BY <1>1, <2>2 DEF LinksSound
    <3> QED
      BY <1>2, <2>4, <2>5, <3>1 DEF KernelSound, Waiting
  <2> HIDE DEF i
  <2>7. r.wait = k.wait /\ r \in KernelType
    <3>1. r.wait = i.wait /\ ListType(r)
      BY <2>2, <2>6, RemoveLists, RemoveEffect
    <3> QED
      BY <1>2, <2>5, <3>1 DEF ListType
  <2> HIDE DEF r
  <2>8. [r EXCEPT !.stat[to] = "RUNNING"].wait = r.wait
    BY <2>7 DEF KernelType
  <2> QED
    BY <2>1, <2>7, <2>8
<1> QED
  BY <1>5, <1>6, <1>7

\* So the lists stay in order.
LEMMA ScheduleOrder ==
  ASSUME NEW k, NEW S, KernelSound(k, S), k.stat[k.cur] # "READY",
         NEW q \in Queue, UrgentFirst(k, q)
  PROVE  UrgentFirst(Schedule(k), q)
BY ScheduleLists, ScheduleSound DEF UrgentFirst, Scheduled

\* A suspended thread that is in no list is put into a suspension list.
Enqueue(k, q, t, n) == [k EXCEPT !.wait[q] = InsertAt(@, n, t)]

LEMMA EnqueueSound ==
  ASSUME NEW k, NEW S, KernelSound(k, S), NEW t \in Thread, Detached(k, t),
         k.stat[t] = "SUSPEND", NEW q \in Queue, NEW n \in 1 .. Len(k.wait[q]) + 1
  PROVE  LET w == Enqueue(k, q, t, n)
         IN  /\ KernelSound(w, S)
             /\ w.cur = k.cur /\ w.lock = k.lock /\ w.stat = k.stat /\ w.yld = k.yld
             /\ w.prio = k.prio /\ w.err = k.err /\ w.tmr = k.tmr
             /\ w.wait = [k.wait EXCEPT ![q] = InsertAt(k.wait[q], n, t)]
             /\ Waiting(w, q) = Waiting(k, q) \cup {t}
             /\ \A r \in Queue \ {q} : Waiting(w, r) = Waiting(k, r)
             /\ \A p \in Prio : Ready(w, p) = Ready(k, p)
<1> DEFINE l == InsertAt(k.wait[q], n, t)
           w == Enqueue(k, q, t, n)
<1>1. ListType(k) /\ LinksSound(k, S) /\ k \in KernelType
  BY DEF KernelSound, ListType
<1>2. /\ k.wait \in [Queue -> Seq(Thread)] /\ k.wait[q] \in Seq(Thread)
      /\ Distinct(k.wait[q]) /\ t \notin ToSet(k.wait[q])
  BY <1>1, KernelFields DEF ListType, Detached, Waiting
<1>3. l \in Seq(Thread) /\ Distinct(l) /\ ToSet(l) = ToSet(k.wait[q]) \cup {t}
  BY <1>2, InsertAtList
<1>4. w = [k EXCEPT !.wait = [k.wait EXCEPT ![q] = l]]
  BY <1>1 DEF Enqueue, KernelType
<1> HIDE DEF l, w
<1>5. /\ w.cur = k.cur /\ w.rdy = k.rdy /\ w.grp = k.grp /\ w.lock = k.lock
      /\ w.wait = [k.wait EXCEPT ![q] = l] /\ w.stat = k.stat /\ w.yld = k.yld
      /\ w.prio = k.prio /\ w.err = k.err /\ w.tmr = k.tmr
      /\ w \in KernelType
  <2>1. [k.wait EXCEPT ![q] = l] \in [Queue -> Seq(Thread)]
    BY <1>2, <1>3
  <2> QED
    BY <1>1, <1>4, <2>1 DEF KernelType
<1>6. w.wait[q] = l /\ \A r \in Queue \ {q} : w.wait[r] = k.wait[r]
  BY <1>2, <1>5
<1>7. /\ Waiting(w, q) = Waiting(k, q) \cup {t}
      /\ \A r \in Queue \ {q} : Waiting(w, r) = Waiting(k, r)
      /\ \A p \in Prio : Ready(w, p) = Ready(k, p)
  BY <1>3, <1>5, <1>6 DEF Waiting, Ready
<1>8. ListType(w)
  BY <1>1, <1>3, <1>5, <1>6 DEF ListType
<1>9. LinksSound(w, S)
  <2>1. \A r \in Queue : \A x \in Waiting(w, r) : w.stat[x] \notin {"READY", "RUNNING"}
    BY <1>1, <1>5, <1>7 DEF LinksSound
  <2>2. \A r, z \in Queue : \A x \in Waiting(w, r) : x \in Waiting(w, z) => r = z
    BY <1>1, <1>7 DEF LinksSound, Detached
  <2>3. /\ \A p \in Prio : \A x \in Ready(w, p) : w.stat[x] = "READY" /\ w.prio[x] = p
        /\ \A x \in Thread \ S : w.stat[x] = "READY" => x \in Ready(w, w.prio[x])
    BY <1>1, <1>5 DEF LinksSound, Ready
  <2>4. /\ \A p \in Prio : p \in w.grp <=> Ready(w, p) # {}
        /\ \A x \in Thread : w.stat[x] = "RUNNING" => x = w.cur
        /\ \A x \in w.tmr : w.stat[x] = "SUSPEND"
    BY <1>1, <1>5 DEF LinksSound, Ready
  <2> QED
    BY <2>1, <2>2, <2>3, <2>4 DEF LinksSound
<1> QED
  BY <1>5, <1>7, <1>8, <1>9 DEF KernelSound, w, l

\* w is k with thread t suspended in list q.
Queued(k, w, q, t) ==
  /\ w.cur = k.cur /\ w.lock = k.lock /\ w.yld = k.yld /\ w.prio = k.prio
  /\ w.stat = [k.stat EXCEPT ![t] = "SUSPEND"]
  /\ w.err = [k.err EXCEPT ![t] = "EOK"]
  /\ w.tmr \ {t} = k.tmr \ {t}
  /\ Waiting(w, q) = Waiting(k, q) \cup {t}
  /\ \A r \in Queue \ {q} : Waiting(w, r) = Waiting(k, r) \ {t}

\* rt_timer_start for a thread that is suspended.
LEMMA TimerSound ==
  ASSUME NEW k, NEW S, KernelSound(k, S), NEW t \in Thread, k.stat[t] = "SUSPEND"
  PROVE  LET w == StartTimer(k, t)
         IN  /\ KernelSound(w, S)
             /\ w.cur = k.cur /\ w.lock = k.lock /\ w.wait = k.wait /\ w.stat = k.stat
             /\ w.yld = k.yld /\ w.prio = k.prio /\ w.err = k.err
             /\ w.tmr = k.tmr \cup {t}
<1> DEFINE w == StartTimer(k, t)
<1>1. ListType(k) /\ LinksSound(k, S) /\ k \in KernelType /\ k.tmr \subseteq Thread
  BY KernelFields DEF KernelSound, ListType
<1>2. /\ w.cur = k.cur /\ w.rdy = k.rdy /\ w.grp = k.grp /\ w.lock = k.lock
      /\ w.wait = k.wait /\ w.stat = k.stat /\ w.yld = k.yld
      /\ w.prio = k.prio /\ w.err = k.err /\ w.tmr = k.tmr \cup {t}
      /\ w \in KernelType
  BY <1>1 DEF KernelType, StartTimer
<1> HIDE DEF w
<1>3. KernelSound(w, S)
  BY <1>1, <1>2 DEF KernelSound, ListType, LinksSound, Ready, Waiting
<1> QED
  BY <1>2, <1>3 DEF w

\* What _ipc_list_suspend does to a thread, before it is put into a list.
SuspendFor(k, t) == SuspendThread([k EXCEPT !.err[t] = "EOK"], t)

\* _ipc_list_suspend with the thread at place n of the list, and the start of
\* the timer that may follow.
QueueAt(k, q, t, n, timed) ==
  LET x == Enqueue(SuspendFor(k, t), q, t, n)
  IN  IF timed THEN StartTimer(x, t) ELSE x

\* The list the thread is put into afterwards is in order.
LEMMA SuspendOrder ==
  ASSUME NEW k, KernelSound(k, {}), NEW t \in Thread, NEW q \in Queue
  PROVE  LET list == SuspendFor(k, t).wait[q]
         IN  list \in Seq(Thread) /\ (UrgentFirst(k, q) => InOrder(list, k.prio))
<1> DEFINE e == [k EXCEPT !.err[t] = "EOK"]
           r == RemoveThread(e, t)
           s == SuspendFor(k, t)
<1>1. k \in KernelType
  BY DEF KernelSound, ListType
<1>2. /\ e \in KernelType
      /\ e.cur = k.cur /\ e.rdy = k.rdy /\ e.grp = k.grp
      /\ e.wait = k.wait /\ e.stat = k.stat /\ e.prio = k.prio /\ e.tmr = k.tmr
  <2>1. [k.err EXCEPT ![t] = "EOK"] \in [Thread -> Error]
    BY <1>1, KernelFields DEF Error
  <2>2. e = [k EXCEPT !.err = [k.err EXCEPT ![t] = "EOK"]]
    BY <1>1 DEF KernelType
  <2> QED
    BY <1>1, <2>1, <2>2 DEF KernelType
<1>3. s = [r EXCEPT !.stat[t] = "SUSPEND", !.tmr = @ \ {t}]
  BY DEF SuspendThread, SuspendFor
<1> HIDE DEF e, s
<1>4. ListType(e) /\ (UrgentFirst(k, q) => UrgentFirst(e, q))
  BY <1>2, SoundFields DEF UrgentFirst, KernelSound
<1>5. r \in KernelType /\ r.prio = e.prio /\ (UrgentFirst(k, q) => UrgentFirst(r, q))
  BY <1>4, RemoveOrder, RemoveEffect DEF ListType
<1> HIDE DEF r
<1>6. s.wait = r.wait /\ r.wait[q] \in Seq(Thread)
  BY <1>3, <1>5 DEF KernelType
<1> QED
  BY <1>2, <1>5, <1>6 DEF UrgentFirst, s

\* The list stays in order if that is the place of the thread.
LEMMA QueueSound ==
  ASSUME NEW k, KernelSound(k, {}), NEW t \in Thread, NEW q \in Queue,
         NEW n \in 1 .. Len(SuspendFor(k, t).wait[q]) + 1, NEW timed \in BOOLEAN
  PROVE  LET list == SuspendFor(k, t).wait[q]
             w    == QueueAt(k, q, t, n, timed)
         IN  /\ KernelSound(w, {}) /\ Queued(k, w, q, t)
             /\ w.wait = [SuspendFor(k, t).wait EXCEPT ![q] = InsertAt(list, n, t)]
             /\ /\ UrgentFirst(k, q)
                /\ \A i \in 1 .. Len(list) : i < n => k.prio[list[i]] <= k.prio[t]
                /\ \A i \in 1 .. Len(list) : n <= i => k.prio[t] <= k.prio[list[i]]
                => UrgentFirst(w, q)
<1> DEFINE e == [k EXCEPT !.err[t] = "EOK"]
           s == SuspendFor(k, t)
           x == Enqueue(s, q, t, n)
           w == QueueAt(k, q, t, n, timed)
<1>1. k \in KernelType
  BY DEF KernelSound, ListType
<1>2. /\ e \in KernelType
      /\ e.cur = k.cur /\ e.rdy = k.rdy /\ e.grp = k.grp /\ e.lock = k.lock
      /\ e.wait = k.wait /\ e.stat = k.stat /\ e.yld = k.yld /\ e.prio = k.prio
      /\ e.err = [k.err EXCEPT ![t] = "EOK"] /\ e.tmr = k.tmr
  <2>1. [k.err EXCEPT ![t] = "EOK"] \in [Thread -> Error]
    BY <1>1, KernelFields DEF Error
  <2>2. e = [k EXCEPT !.err = [k.err EXCEPT ![t] = "EOK"]]
    BY <1>1 DEF KernelType
  <2> QED
    BY <1>1, <2>1, <2>2 DEF KernelType
<1>3. s = SuspendThread(e, t)
  BY DEF SuspendFor
<1> HIDE DEF e, s
<1>4. KernelSound(e, {})
  BY <1>2, SoundFields
<1>5. /\ KernelSound(s, {}) /\ Detached(s, t)
      /\ s.cur = e.cur /\ s.lock = e.lock
      /\ s.yld = e.yld /\ s.prio = e.prio /\ s.err = e.err
      /\ s.stat = [e.stat EXCEPT ![t] = "SUSPEND"]
      /\ s.tmr = e.tmr \ {t}
      /\ \A r \in Queue : Waiting(s, r) = Waiting(e, r) \ {t}
  BY <1>3, <1>4, SuspendSound
<1>6. s.stat[t] = "SUSPEND" /\ s \in KernelType
  <2>1. e.stat \in [Thread -> Stat]
    BY <1>2, KernelFields
  <2> QED
    BY <1>5, <2>1 DEF KernelSound, ListType
<1>7. /\ KernelSound(x, {})
      /\ x.cur = s.cur /\ x.lock = s.lock /\ x.stat = s.stat /\ x.yld = s.yld
      /\ x.prio = s.prio /\ x.err = s.err /\ x.tmr = s.tmr
      /\ x.wait = [s.wait EXCEPT ![q] = InsertAt(s.wait[q], n, t)]
      /\ Waiting(x, q) = Waiting(s, q) \cup {t}
      /\ \A r \in Queue \ {q} : Waiting(x, r) = Waiting(s, r)
  <2>1. /\ KernelSound(s, {}) /\ Detached(s, t) /\ s.stat[t] = "SUSPEND"
        /\ n \in 1 .. Len(s.wait[q]) + 1
    BY <1>5, <1>6 DEF s
  <2> HIDE DEF x
  <2> QED
    BY <2>1, EnqueueSound DEF x
<1>8. w = IF timed THEN StartTimer(x, t) ELSE x
  BY DEF QueueAt, s
<1> HIDE DEF x, w
<1>9. /\ KernelSound(w, {})
      /\ w.cur = x.cur /\ w.lock = x.lock /\ w.wait = x.wait /\ w.stat = x.stat
      /\ w.yld = x.yld /\ w.prio = x.prio /\ w.err = x.err
      /\ w.tmr = x.tmr \/ w.tmr = x.tmr \cup {t}
  <2>1. CASE timed
    BY <1>6, <1>7, <1>8, <2>1, TimerSound
  <2>2. CASE ~timed
    BY <1>7, <1>8, <2>2
  <2> QED
    BY <2>1, <2>2
<1>10. Queued(k, w, q, t)
  <2>1. \A r \in Queue : Waiting(w, r) = Waiting(x, r) /\ Waiting(e, r) = Waiting(k, r)
    BY <1>2, <1>9 DEF Waiting
  <2>2. Waiting(w, q) = Waiting(k, q) \cup {t}
    BY <1>5, <1>7, <2>1
  <2> QED
    BY <1>2, <1>5, <1>7, <1>9, <2>1, <2>2 DEF Queued
<1>11. /\ s.wait \in [Queue -> Seq(Thread)] /\ k.prio \in [Thread -> Int]
       /\ UrgentFirst(k, q) => InOrder(s.wait[q], k.prio)
  BY <1>1, <1>6, KernelFields, KernelAssumption, SuspendOrder DEF Prio, s
<1>12. ASSUME UrgentFirst(k, q),
              \A i \in 1 .. Len(s.wait[q]) : i < n => k.prio[s.wait[q][i]] <= k.prio[t],
              \A i \in 1 .. Len(s.wait[q]) : n <= i => k.prio[t] <= k.prio[s.wait[q][i]]
       PROVE  UrgentFirst(w, q)
  <2>1. InOrder(InsertAt(s.wait[q], n, t), k.prio)
    BY <1>11, <1>12, InsertAtOrder DEF s
  <2>2. w.wait[q] = InsertAt(s.wait[q], n, t) /\ w.prio = k.prio
    BY <1>2, <1>5, <1>7, <1>9, <1>11
  <2> QED
    BY <2>1, <2>2 DEF UrgentFirst
<1>13. w.wait = [s.wait EXCEPT ![q] = InsertAt(s.wait[q], n, t)]
  BY <1>7, <1>9
<1> QED
  BY <1>9, <1>10, <1>12, <1>13 DEF w, s

\* One round of the loop of _ipc_list_resume_all.
WakeFirst(k, q) ==
  LET t == Head(k.wait[q]) IN ResumeThread([k EXCEPT !.err[t] = "ERROR"], t)

\* r is k with the threads in W resumed with an error.
AllWoken(k, r, W) ==
  /\ r.cur = k.cur /\ r.lock = k.lock /\ r.yld = k.yld /\ r.prio = k.prio
  /\ r.tmr = k.tmr \ W
  /\ \A t \in W : r.stat[t] = InsertedStat(k, t) /\ r.err[t] = "ERROR"
  /\ \A t \in Thread \ W : r.stat[t] = k.stat[t] /\ r.err[t] = k.err[t]
  /\ \A q \in Queue : Waiting(r, q) = Waiting(k, q) \ W

\* What one round does.
LEMMA WakeFirstSound ==
  ASSUME NEW k, KernelSound(k, {}), k.stat[k.cur] # "READY",
         NEW q \in Queue, k.wait[q] # << >>
  PROVE  LET t == Head(k.wait[q])
             r == WakeFirst(k, q)
         IN  /\ KernelSound(r, {}) /\ AllWoken(k, r, {t}) /\ r.stat[r.cur] # "READY"
             /\ t \in Waiting(k, q)
             /\ Len(r.wait[q]) = Len(k.wait[q]) - 1
             /\ \A z \in Queue : UrgentFirst(k, z) => UrgentFirst(r, z)
<1> DEFINE t == Head(k.wait[q])
           e == [k EXCEPT !.err[t] = "ERROR"]
           r == WakeFirst(k, q)
<1>1. k \in KernelType /\ ListType(k)
  BY DEF KernelSound, ListType
<1>2. /\ k.wait[q] \in Seq(Thread) /\ Distinct(k.wait[q]) /\ k.cur \in Thread
      /\ k.stat \in [Thread -> Stat] /\ k.err \in [Thread -> Error]
  BY <1>1, KernelFields DEF ListType
<1>3. t \in Waiting(k, q) /\ t \in Thread
  BY <1>2, HeadInList DEF Waiting
<1>4. r = ResumeThread(e, t)
  BY DEF WakeFirst
<1> HIDE DEF t, r
<1>5. /\ e \in KernelType
      /\ e.cur = k.cur /\ e.rdy = k.rdy /\ e.grp = k.grp /\ e.lock = k.lock
      /\ e.wait = k.wait /\ e.stat = k.stat /\ e.yld = k.yld /\ e.prio = k.prio
      /\ e.err = [k.err EXCEPT ![t] = "ERROR"] /\ e.tmr = k.tmr
  <2>1. [k.err EXCEPT ![t] = "ERROR"] \in [Thread -> Error]
    BY <1>2 DEF Error
  <2>2. e = [k EXCEPT !.err = [k.err EXCEPT ![t] = "ERROR"]]
    BY <1>1 DEF KernelType
  <2> QED
    BY <1>1, <2>1, <2>2 DEF KernelType
<1> HIDE DEF e
<1>6. KernelSound(e, {}) /\ e.stat[e.cur] # "READY" /\ ListType(e)
  BY <1>5, SoundFields DEF KernelSound
<1>7. KernelSound(r, {}) /\ Woken(e, r, t) /\ r.err = e.err
  <2>1. {} \ {t} = {}
    OBVIOUS
  <2>2. KernelSound(r, {} \ {t}) /\ Woken(e, r, t) /\ r.err = e.err
    BY <1>3, <1>4, <1>6, ResumeSound
  <2> QED
    BY <2>1, <2>2
<1>8. /\ \A z \in Queue : Waiting(e, z) = Waiting(k, z)
      /\ InsertedStat(e, t) = InsertedStat(k, t)
  BY <1>5 DEF Waiting, InsertedStat
<1>9. r.stat = [k.stat EXCEPT ![t] = InsertedStat(k, t)]
  BY <1>5, <1>7, <1>8 DEF Woken
<1>10. /\ r.stat[t] = InsertedStat(k, t) /\ r.err[t] = "ERROR"
       /\ \A x \in Thread \ {t} : r.stat[x] = k.stat[x] /\ r.err[x] = k.err[x]
  BY <1>2, <1>3, <1>5, <1>7, <1>9
<1>11. AllWoken(k, r, {t})
  BY <1>5, <1>7, <1>8, <1>10 DEF AllWoken, Woken
<1>12. r.stat[r.cur] # "READY"
  BY <1>2, <1>10, <1>11 DEF AllWoken, InsertedStat
<1>13. Len(r.wait[q]) = Len(k.wait[q]) - 1
  <2> DEFINE u == Unlink(e, t)
             x == [u EXCEPT !.tmr = u.tmr \ {t}]
  <2>1. u \in KernelType /\ u.wait = [z \in Queue |-> RemoveFirst(e.wait[z], t)]
    <3>1. u \in KernelType
      BY <1>3, <1>6, UnlinkEffect DEF ListType
    <3> QED
      BY <1>5, <3>1, Zenon DEF Unlink, KernelType
  <2>2. r = InsertThread(x, t)
    BY <1>4 DEF ResumeThread
  <2> HIDE DEF u
  <2>3. x \in KernelType /\ x.wait = u.wait
    BY <2>1 DEF KernelType
  <2> HIDE DEF x
  <2>4. r.wait[q] = RemoveFirst(k.wait[q], t)
    BY <1>3, <1>5, <2>1, <2>2, <2>3, InsertFields
  <2> QED
    BY <1>2, <1>3, <2>4, RemoveFirstList DEF Waiting
<1>14. \A z \in Queue : UrgentFirst(k, z) => UrgentFirst(r, z)
  <2>1. \A z \in Queue : UrgentFirst(k, z) => UrgentFirst(e, z)
    BY <1>5 DEF UrgentFirst
  <2> QED
    BY <1>3, <1>4, <1>6, <2>1, ResumeOrder
<1> QED
  BY <1>3, <1>7, <1>11, <1>12, <1>13, <1>14 DEF r, t

\* f[i] is k after i of n rounds.
Rounds(f, k, q, n) ==
  f = [i \in 0 .. n |-> IF i = 0 THEN k ELSE WakeFirst(f[i - 1], q)]

\* The rounds of the loop exist, whatever n is: the least n for which they did
\* not would be one more than a number for which they do.
LEMMA RoundsExist ==
  ASSUME NEW k, NEW q, NEW n \in Nat
  PROVE  \E f : Rounds(f, k, q, n)
<1> DEFINE Some(m) == \E f : Rounds(f, k, q, m)
           T == {m \in 0 .. n : ~Some(m)}
<1>1. SUFFICES ASSUME ~Some(n) PROVE FALSE
  OBVIOUS
<1>2. Some(0)
  <2>1. Rounds([i \in 0 .. 0 |-> k], k, q, 0)
    BY DEF Rounds
  <2> QED
    BY <2>1
<1> HIDE DEF Some
<1>3. T \in SUBSET Nat /\ n \in T
  BY <1>1
<1> DEFINE m == Min(T)
<1>4. m \in T /\ \A x \in T : m <= x
  BY <1>3, MinIsLeast
<1>5. m # 0
  BY <1>4, <1>2
<1> HIDE DEF m
<1>6. m - 1 \in 0 .. n /\ m - 1 \notin T /\ m \in 0 .. n
  BY <1>4, <1>5
<1>7. PICK f : Rounds(f, k, q, m - 1)
  BY <1>6 DEF Some
<1> DEFINE g == [i \in 0 .. m |-> IF i = m THEN WakeFirst(f[m - 1], q) ELSE f[i]]
<1>8. ASSUME NEW i \in 0 .. m
      PROVE  g[i] = IF i = 0 THEN k ELSE WakeFirst(g[i - 1], q)
  <2>1. CASE i = m
    <3>1. g[m] = WakeFirst(f[m - 1], q) /\ g[m - 1] = f[m - 1]
      BY <1>5, <1>6
    <3> QED
      BY <2>1, <3>1, <1>5
  <2>2. CASE i # m /\ i # 0
    <3>1. i \in 0 .. m - 1 /\ i - 1 \in 0 .. m - 1
      BY <2>2, <1>6
    <3>2. g[i] = f[i] /\ g[i - 1] = f[i - 1]
      BY <3>1, <1>6
    <3>3. f[i] = WakeFirst(f[i - 1], q)
      BY <1>7, <3>1, <2>2 DEF Rounds
    <3> QED
      BY <2>2, <3>2, <3>3
  <2>3. CASE i = 0 /\ i # m
    <3>1. f[0] = k
      BY <1>7, <1>6, <1>5 DEF Rounds
    <3> QED
      BY <3>1, <2>3, <1>6
  <2> QED
    BY <2>1, <2>2, <2>3
<1>9. Rounds(g, k, q, m)
  BY <1>8 DEF Rounds
<1> QED
  BY <1>4, <1>9 DEF Some

\* The whole loop: every thread of the list is resumed with an error, and
\* nothing happens to the others.
LEMMA WakeAllSound ==
  ASSUME NEW k, KernelSound(k, {}), k.stat[k.cur] # "READY", NEW q \in Queue, NEW f,
         Rounds(f, k, q, Len(k.wait[q]))
  PROVE  LET r == f[Len(k.wait[q])]
         IN  /\ KernelSound(r, {}) /\ AllWoken(k, r, Waiting(k, q))
             /\ r.stat[r.cur] # "READY" /\ r.wait[q] = << >>
             /\ \A z \in Queue : UrgentFirst(k, z) => UrgentFirst(r, z)
<1> DEFINE n == Len(k.wait[q])
           Done(i, W) == /\ KernelSound(f[i], {}) /\ AllWoken(k, f[i], W)
                         /\ f[i].stat[f[i].cur] # "READY"
                         /\ Len(f[i].wait[q]) = n - i
                         /\ \A z \in Queue : UrgentFirst(k, z) => UrgentFirst(f[i], z)
           Some(i) == \E W \in SUBSET Waiting(k, q) : Done(i, W)
           T == {i \in 0 .. n : ~Some(i)}
<1>1. /\ k \in KernelType /\ k.wait[q] \in Seq(Thread) /\ n \in Nat
      /\ Waiting(k, q) \subseteq Thread
  BY KernelFields DEF KernelSound, ListType
<1>2. f[0] = k /\ \A i \in 1 .. n : f[i] = WakeFirst(f[i - 1], q)
  BY <1>1, SMTT(40) DEF Rounds
<1>3. Some(0)
  <2>1. AllWoken(k, k, {})
    BY DEF AllWoken
  <2> QED
    BY <1>1, <1>2, <2>1
<1>4. ASSUME NEW i \in 1 .. n, Some(i - 1) PROVE Some(i)
  <2> DEFINE g == f[i - 1]
  <2>1. PICK W \in SUBSET Waiting(k, q) : Done(i - 1, W)
    BY <1>4
  <2>2. /\ KernelSound(g, {}) /\ AllWoken(k, g, W) /\ g.stat[g.cur] # "READY"
        /\ Len(g.wait[q]) = n - (i - 1)
        /\ \A z \in Queue : UrgentFirst(k, z) => UrgentFirst(g, z)
    BY <2>1
  <2> HIDE DEF g
  <2> DEFINE t == Head(g.wait[q])
             r == WakeFirst(g, q)
  <2>3. g.wait[q] # << >>
    BY <1>1, <1>4, <2>2
  <2>4. /\ KernelSound(r, {}) /\ AllWoken(g, r, {t}) /\ r.stat[r.cur] # "READY"
        /\ t \in Waiting(g, q)
        /\ Len(r.wait[q]) = Len(g.wait[q]) - 1
        /\ \A z \in Queue : UrgentFirst(g, z) => UrgentFirst(r, z)
    BY <2>2, <2>3, WakeFirstSound
  <2> HIDE DEF t, r
  <2>5. t \in Waiting(k, q) \ W /\ t \in Thread
    BY <1>1, <2>2, <2>4 DEF AllWoken
  <2>6. AllWoken(k, r, W \cup {t})
    <3>1. InsertedStat(g, t) = InsertedStat(k, t)
      BY <2>2 DEF AllWoken, InsertedStat
    <3>2. \A x \in W : x \in Thread \ {t} /\ InsertedStat(k, x) = g.stat[x] /\ g.err[x] = "ERROR"
      BY <1>1, <2>2, <2>5 DEF AllWoken
    <3>3. \A x \in W \cup {t} : r.stat[x] = InsertedStat(k, x) /\ r.err[x] = "ERROR"
      BY <2>4, <3>1, <3>2 DEF AllWoken
    <3>4. \A x \in Thread \ (W \cup {t}) : r.stat[x] = k.stat[x] /\ r.err[x] = k.err[x]
      BY <2>2, <2>4 DEF AllWoken
    <3>5. /\ \A z \in Queue : Waiting(r, z) = Waiting(k, z) \ (W \cup {t})
          /\ r.tmr = k.tmr \ (W \cup {t})
      BY <2>2, <2>4 DEF AllWoken
    <3> QED
      BY <2>2, <2>4, <3>3, <3>4, <3>5 DEF AllWoken
  <2>7. f[i] = r
    BY <1>2, <1>4 DEF r, g
  <2>8. /\ Len(r.wait[q]) = n - i
        /\ \A z \in Queue : UrgentFirst(k, z) => UrgentFirst(r, z)
    BY <1>1, <1>4, <2>2, <2>4
  <2>9. Done(i, W \cup {t})
    BY <2>4, <2>6, <2>7, <2>8
  <2> QED
    BY <2>1, <2>5, <2>9
<1> HIDE DEF Some
<1>5. Some(n)
  <2>1. SUFFICES ASSUME ~Some(n) PROVE FALSE
    OBVIOUS
  <2>2. T \in SUBSET Nat /\ n \in T
    BY <1>1, <2>1
  <2> DEFINE m == Min(T)
  <2>3. m \in T /\ \A x \in T : m <= x
    BY <2>2, MinIsLeast
  <2> HIDE DEF m
  <2>4. m # 0 /\ m \in 0 .. n
    BY <1>3, <2>3
  <2>5. m \in 1 .. n /\ m - 1 \in 0 .. n /\ m - 1 \notin T
    BY <1>1, <2>3, <2>4
  <2>6. Some(m - 1)
    BY <2>5
  <2>7. Some(m)
    BY <1>4, <2>5, <2>6, SMTT(40)
  <2> QED
    BY <2>3, <2>7
<1> DEFINE r == f[n]
<1>6. PICK W \in SUBSET Waiting(k, q) : Done(n, W)
  BY <1>5 DEF Some
<1>7. /\ KernelSound(r, {}) /\ AllWoken(k, r, W) /\ r.stat[r.cur] # "READY"
      /\ Len(r.wait[q]) = 0
      /\ \A z \in Queue : UrgentFirst(k, z) => UrgentFirst(r, z)
  BY <1>1, <1>6
<1> HIDE DEF r
<1>8. r.wait[q] = << >> /\ Waiting(r, q) = {}
  <2>1. r.wait[q] \in Seq(Thread)
    BY <1>7, KernelFields DEF KernelSound, ListType
  <2>2. r.wait[q] = << >>
    BY <1>7, <2>1
  <2> QED
    BY <2>1, <2>2, EmptyList DEF Waiting
<1>9. W = Waiting(k, q)
  BY <1>6, <1>7, <1>8 DEF AllWoken
<1> QED
  BY <1>7, <1>8, <1>9 DEF r

\* Threads with the priorities P are ready, and the idle thread runs.
Started(P) ==
  [cur  |-> Idle,
   rdy  |-> [p \in Prio |-> SetToSeq({t \in Thread \ {Idle} : P[t] = p})],
   grp  |-> {P[t] : t \in Thread \ {Idle}},
   lock |-> 0,
   wait |-> [q \in Queue |-> << >>],
   stat |-> [t \in Thread |-> IF t = Idle THEN "RUNNING" ELSE "READY"],
   yld  |-> {},
   prio |-> P,
   err  |-> [t \in Thread |-> "EOK"],
   tmr  |-> {}]

\* The first rt_schedule of the application.
LEMMA StartedSound ==
  ASSUME NEW P \in [Thread -> Prio], IsFiniteSet(Thread)
  PROVE  LET r == Schedule(Started(P))
         IN  /\ KernelSound(r, {})
             /\ r.lock = 0 /\ r.prio = P /\ r.tmr = {}
             /\ r.err = [t \in Thread |-> "EOK"]
             /\ r.stat[r.cur] = "RUNNING"
             /\ \A t \in Thread : r.stat[t] \in {"READY", "RUNNING"}
             /\ \A q \in Queue : r.wait[q] = << >>
<1> DEFINE k == Started(P)
           At(p) == {t \in Thread \ {Idle} : P[t] = p}
<1>1. /\ k.cur = Idle /\ k.rdy = [p \in Prio |-> SetToSeq(At(p))]
      /\ k.grp = {P[t] : t \in Thread \ {Idle}} /\ k.lock = 0
      /\ k.wait = [q \in Queue |-> << >>]
      /\ k.stat = [t \in Thread |-> IF t = Idle THEN "RUNNING" ELSE "READY"]
      /\ k.yld = {} /\ k.prio = P /\ k.err = [t \in Thread |-> "EOK"] /\ k.tmr = {}
  BY DEF Started
<1>2. ASSUME NEW p \in Prio
      PROVE  /\ SetToSeq(At(p)) \in Seq(Thread) /\ Distinct(SetToSeq(At(p)))
             /\ ToSet(SetToSeq(At(p))) = At(p)
  <2>1. At(p) \in SUBSET Thread
    OBVIOUS
  <2>2. IsFiniteSet(At(p))
    BY <2>1, FS_Subset
  <2>3. /\ SetToSeq(At(p)) \in Seq(At(p)) /\ Distinct(SetToSeq(At(p)))
        /\ ToSet(SetToSeq(At(p))) = At(p)
    BY <2>2, SetToSeqList
  <2> HIDE DEF At
  <2> QED
    BY <2>1, <2>3
<1>3. \A p \in Prio : \A t : t \in At(p) <=> t \in Thread \ {Idle} /\ P[t] = p
  OBVIOUS
<1> HIDE DEF At
<1>4. k \in KernelType
  <2>1. [p \in Prio |-> SetToSeq(At(p))] \in [Prio -> Seq(Thread)]
    BY <1>2
  <2>2. {P[t] : t \in Thread \ {Idle}} \in SUBSET Prio
    OBVIOUS
  <2>3. [q \in Queue |-> << >>] \in [Queue -> Seq(Thread)]
    OBVIOUS
  <2>4. [t \in Thread |-> IF t = Idle THEN "RUNNING" ELSE "READY"] \in [Thread -> Stat]
    BY DEF Stat
  <2>5. [t \in Thread |-> "EOK"] \in [Thread -> Error]
    BY DEF Error
  <2> QED
    BY <2>1, <2>2, <2>3, <2>4, <2>5, KernelAssumption DEF KernelType, Started, At
<1> HIDE DEF k
<1>5. /\ \A p \in Prio : Ready(k, p) = At(p) /\ Distinct(k.rdy[p])
      /\ \A q \in Queue : k.wait[q] = << >> /\ Waiting(k, q) = {} /\ Distinct(k.wait[q])
  <2>1. \A p \in Prio : k.rdy[p] = SetToSeq(At(p))
    BY <1>1
  <2>2. \A q \in Queue : k.wait[q] = << >>
    BY <1>1
  <2>3. ToSet(<< >>) = {} /\ Distinct(<< >>)
    BY DEF ToSet, Distinct
  <2> QED
    BY <1>2, <2>1, <2>2, <2>3 DEF Ready, Waiting
<1>6. \A t \in Thread : k.stat[t] = IF t = Idle THEN "RUNNING" ELSE "READY"
  BY <1>1
<1>7. LinksSound(k, {})
  <2>1. \A p \in Prio : \A t \in Ready(k, p) : k.stat[t] = "READY" /\ k.prio[t] = p
    BY <1>1, <1>3, <1>5, <1>6
  <2>2. \A t \in Thread \ {} : k.stat[t] = "READY" => t \in Ready(k, k.prio[t])
    BY <1>1, <1>3, <1>5, <1>6
  <2>3. \A p \in Prio : p \in k.grp <=> Ready(k, p) # {}
    BY <1>1, <1>3, <1>5
  <2>4. \A t \in Thread : k.stat[t] = "RUNNING" => t = k.cur
    BY <1>1, <1>6
  <2> QED
    BY <1>1, <1>5, <2>1, <2>2, <2>3, <2>4 DEF LinksSound
<1>8. KernelSound(k, {}) /\ k.stat[k.cur] = "RUNNING"
  BY <1>1, <1>4, <1>5, <1>6, <1>7, KernelAssumption DEF KernelSound, ListType
<1> DEFINE r == Schedule(k)
<1>9. KernelSound(r, {}) /\ Scheduled(k, r)
  BY <1>8, ScheduleSound
<1> HIDE DEF r
<1>10. r.cur \in Thread /\ k.cur \in Thread /\ r.wait \in [Queue -> Seq(Thread)]
       /\ r.err = k.err
  BY <1>4, <1>9, KernelFields DEF KernelSound, ListType, Scheduled
<1>11. r.stat[r.cur] = "RUNNING"
  BY <1>8, <1>9 DEF Scheduled
<1>12. \A t \in Thread : r.stat[t] \in {"READY", "RUNNING"}
  BY <1>6, <1>8, <1>9, <1>10, <1>11 DEF Scheduled, DemotedStat
<1>13. ASSUME NEW q \in Queue PROVE r.wait[q] = << >>
  <2>1. Waiting(r, q) = {} /\ r.wait[q] \in Seq(Thread)
    BY <1>5, <1>9, <1>10 DEF Scheduled
  <2> QED
    BY <2>1, EmptyList DEF Waiting
<1> QED
  BY <1>1, <1>9, <1>10, <1>11, <1>12, <1>13 DEF Scheduled, r, k

-----------------------------------------------------------------------------
(***************************************************************************)
(* The kernel between two steps of a program that uses IPC objects.         *)
(***************************************************************************)

\* The lists are sound, the scheduler is not locked, no thread has ended, the
\* idle thread never waits, and a current thread that is not RUNNING has
\* suspended itself and is about to call rt_schedule.
Sane(x) ==
  /\ KernelSound(x, {})
  /\ x.lock = 0
  /\ \A t \in Thread : x.stat[t] \in {"READY", "RUNNING", "SUSPEND"}
  /\ x.stat[Idle] # "SUSPEND"
  /\ x.stat[x.cur] # "READY"

\* The threads that wait for something.
Suspended(x) == {t \in Thread : x.stat[t] = "SUSPEND"}

LEMMA SaneFields ==
  ASSUME NEW x, Sane(x)
  PROVE  /\ x \in KernelType /\ x.cur \in Thread
         /\ x.wait \in [Queue -> Seq(Thread)] /\ x.stat \in [Thread -> Stat]
         /\ x.prio \in [Thread -> Prio] /\ x.err \in [Thread -> Error]
         /\ x.tmr \subseteq Suspended(x)
         /\ x.stat[x.cur] \in {"RUNNING", "SUSPEND"}
         /\ \A q \in Queue : /\ Waiting(x, q) \subseteq Suspended(x)
                             /\ (x.wait[q] = << >>) <=> (Waiting(x, q) = {})
         /\ \A q, r \in Queue : \A t \in Waiting(x, q) : t \in Waiting(x, r) => q = r
<1>1. x \in KernelType
  BY DEF Sane, KernelSound, ListType
<1>2. /\ x.wait \in [Queue -> Seq(Thread)] /\ x.cur \in Thread /\ x.tmr \subseteq Thread
      /\ x.stat \in [Thread -> Stat] /\ x.prio \in [Thread -> Prio]
      /\ x.err \in [Thread -> Error] /\ \A q \in Queue : Waiting(x, q) \subseteq Thread
  BY <1>1, KernelFields
<1>3. LinksSound(x, {})
  BY DEF Sane, KernelSound
<1>4. x.tmr \subseteq Suspended(x)
  BY <1>2, <1>3 DEF LinksSound, Suspended
<1>5. ASSUME NEW q \in Queue
      PROVE  /\ Waiting(x, q) \subseteq Suspended(x)
             /\ (x.wait[q] = << >>) <=> (Waiting(x, q) = {})
  <2>1. Waiting(x, q) \subseteq Suspended(x)
    BY <1>2, <1>3 DEF LinksSound, Suspended, Sane
  <2>2. x.wait[q] \in Seq(Thread)
    BY <1>2
  <2> QED
    BY <2>1, <2>2, EmptyList DEF Waiting
<1>6. x.stat[x.cur] \in {"RUNNING", "SUSPEND"}
  BY <1>2 DEF Sane
<1> QED
  BY <1>1, <1>2, <1>3, <1>4, <1>5, <1>6 DEF LinksSound

\* r is x with another current thread, or with the same.
Switched(x, r) ==
  /\ r.stat[r.cur] = "RUNNING"
  /\ r.wait = x.wait /\ r.prio = x.prio /\ r.err = x.err /\ r.tmr = x.tmr
  /\ Suspended(r) = Suspended(x)

\* rt_schedule puts a thread on the processor that can run.
LEMMA ScheduleSane ==
  ASSUME NEW x, Sane(x)
  PROVE  Sane(Schedule(x)) /\ Switched(x, Schedule(x))
<1> DEFINE r == Schedule(x)
<1>1. KernelSound(x, {}) /\ x.stat[x.cur] # "READY" /\ x.lock = 0
  BY DEF Sane
<1>2. KernelSound(r, {}) /\ Scheduled(x, r) /\ r.wait = x.wait
  BY <1>1, ScheduleSound, ScheduleLists
<1> HIDE DEF r
<1>3. x.cur \in Thread /\ r.cur \in Thread /\ x.stat \in [Thread -> Stat]
  <2>1. r \in KernelType
    BY <1>2 DEF KernelSound, ListType
  <2> QED
    BY <2>1, SaneFields, KernelFields
<1>4. r.stat[r.cur] = "RUNNING"
  <2>1. CASE x.grp # {}
    BY <1>1, <1>2, <2>1 DEF Scheduled
  <2>2. CASE x.grp = {}
    <3>1. r = x
      BY <2>2 DEF Schedule, r
    <3>2. x.stat[Idle] # "READY"
      <4>1. x.prio[Idle] \in Prio
        BY KernelAssumption, SaneFields
      <4>2. Ready(x, x.prio[Idle]) = {}
        BY <1>1, <2>2, <4>1 DEF KernelSound, LinksSound
      <4> QED
        BY <1>1, <4>2, KernelAssumption DEF KernelSound, LinksSound
    <3>3. x.stat[Idle] = "RUNNING"
      BY <3>2, KernelAssumption DEF Sane
    <3>4. Idle = x.cur
      BY <1>1, <3>3, KernelAssumption DEF KernelSound, LinksSound
    <3> QED
      BY <3>1, <3>3, <3>4
  <2> QED
    BY <2>1, <2>2
<1>5. /\ \A t \in Thread \ {x.cur, r.cur} : r.stat[t] = x.stat[t]
      /\ r.cur # x.cur => x.stat[r.cur] = "READY" /\ r.stat[x.cur] = DemotedStat(x)
      /\ r.cur = x.cur => r.stat[x.cur] = x.stat[x.cur]
      /\ r.lock = 0 /\ r.prio = x.prio /\ r.err = x.err /\ r.tmr = x.tmr
  BY <1>1, <1>2 DEF Scheduled
<1>6. \A t \in Thread : r.stat[t] \in {"READY", "RUNNING", "SUSPEND"}
                        /\ (r.stat[t] = "SUSPEND" <=> x.stat[t] = "SUSPEND")
  BY <1>3, <1>4, <1>5 DEF Sane, DemotedStat
<1>7. Sane(r)
  BY <1>2, <1>4, <1>5, <1>6, KernelAssumption DEF Sane
<1>8. Switched(x, r)
  BY <1>2, <1>4, <1>5, <1>6 DEF Switched, Suspended
<1> QED
  BY <1>7, <1>8 DEF r

\* The end of a time slice.
LEMMA YieldSane ==
  ASSUME NEW x, Sane(x)
  PROVE  Sane(YieldCurrent(x)) /\ Switched(x, YieldCurrent(x))
<1> DEFINE y == [x EXCEPT !.yld = @ \cup {x.cur}]
<1>1. x \in KernelType
  BY SaneFields
<1>2. /\ y \in KernelType
      /\ y.cur = x.cur /\ y.rdy = x.rdy /\ y.grp = x.grp /\ y.lock = x.lock
      /\ y.wait = x.wait /\ y.stat = x.stat /\ y.prio = x.prio
      /\ y.err = x.err /\ y.tmr = x.tmr
  BY <1>1 DEF KernelType
<1>3. YieldCurrent(x) = Schedule(y)
  BY DEF YieldCurrent
<1> HIDE DEF y
<1>4. KernelSound(y, {})
  BY <1>2, SoundFields DEF Sane
<1>5. Sane(y) /\ Suspended(y) = Suspended(x)
  BY <1>2, <1>4 DEF Sane, Suspended
<1>6. Sane(Schedule(y)) /\ Switched(y, Schedule(y))
  BY <1>5, ScheduleSane
<1> QED
  BY <1>2, <1>3, <1>5, <1>6 DEF Switched

\* thread->error is written.
LEMMA ErrorSane ==
  ASSUME NEW x, Sane(x), NEW t \in Thread, NEW v \in Error
  PROVE  LET r == [x EXCEPT !.err[t] = v]
         IN  /\ Sane(r) /\ r.cur = x.cur /\ r.wait = x.wait /\ r.stat = x.stat
             /\ r.prio = x.prio /\ r.tmr = x.tmr /\ Suspended(r) = Suspended(x)
             /\ r.err = [x.err EXCEPT ![t] = v]
<1> DEFINE r == [x EXCEPT !.err[t] = v]
<1>1. x \in KernelType /\ x.err \in [Thread -> Error]
  BY SaneFields
<1>2. [x.err EXCEPT ![t] = v] \in [Thread -> Error]
  BY <1>1
<1>3. r = [x EXCEPT !.err = [x.err EXCEPT ![t] = v]]
  BY <1>1 DEF KernelType
<1>4. /\ r \in KernelType
      /\ r.cur = x.cur /\ r.rdy = x.rdy /\ r.grp = x.grp /\ r.lock = x.lock
      /\ r.wait = x.wait /\ r.stat = x.stat /\ r.prio = x.prio
      /\ r.err = [x.err EXCEPT ![t] = v] /\ r.tmr = x.tmr
  BY <1>1, <1>2, <1>3 DEF KernelType
<1> HIDE DEF r
<1>5. KernelSound(r, {})
  BY <1>4, SoundFields DEF Sane
<1>6. Sane(r) /\ Suspended(r) = Suspended(x)
  BY <1>4, <1>5 DEF Sane, Suspended
<1> QED
  BY <1>4, <1>6 DEF r

\* r is x with the waiting threads of W made ready.
Roused(x, r, W) ==
  /\ r.cur = x.cur /\ r.prio = x.prio /\ r.tmr = x.tmr \ W
  /\ Suspended(r) = Suspended(x) \ W
  /\ \A q \in Queue : Waiting(r, q) = Waiting(x, q) \ W
  /\ r.stat[r.cur] = "SUSPEND" => x.stat[x.cur] = "SUSPEND"

\* The effect on stat.
RousedStat(x, r, W) ==
  /\ W \subseteq Suspended(x)
  /\ r.cur = x.cur /\ r.lock = x.lock
  /\ \A t \in W : r.stat[t] = InsertedStat(x, t)
  /\ \A t \in Thread \ W : r.stat[t] = x.stat[t]

\* Threads that were suspended are made ready, or RUNNING if it is the current
\* one: what follows from the effect on their stat.
LEMMA RousedSane ==
  ASSUME NEW x, Sane(x), NEW W, NEW r, KernelSound(r, {}), RousedStat(x, r, W)
  PROVE  /\ Sane(r) /\ Suspended(r) = Suspended(x) \ W
         /\ r.stat[r.cur] = "SUSPEND" => x.stat[x.cur] = "SUSPEND"
<1>1. x.cur \in Thread /\ W \subseteq Thread
  BY SaneFields DEF Suspended, RousedStat
<1>2. \A t \in Thread : /\ r.stat[t] \in {"READY", "RUNNING", "SUSPEND"}
                        /\ r.stat[t] = "SUSPEND" <=> x.stat[t] = "SUSPEND" /\ t \notin W
  BY <1>1 DEF Sane, InsertedStat, RousedStat
<1>3. r.stat[r.cur] # "READY" /\ (r.stat[r.cur] = "SUSPEND" => x.stat[x.cur] = "SUSPEND")
  BY <1>1 DEF Sane, InsertedStat, RousedStat
<1> QED
  BY <1>2, <1>3, KernelAssumption DEF Sane, Suspended, RousedStat

\* rt_thread_resume of a thread that waits.
LEMMA ResumeSane ==
  ASSUME NEW x, Sane(x), NEW t \in Suspended(x)
  PROVE  LET r == ResumeThread(x, t)
         IN  /\ Sane(r) /\ Roused(x, r, {t}) /\ r.err = x.err
             /\ r.wait = [q \in Queue |-> RemoveFirst(x.wait[q], t)]
<1> DEFINE r == ResumeThread(x, t)
<1>1. /\ KernelSound(x, {}) /\ x.stat[x.cur] # "READY" /\ t \in Thread /\ ListType(x)
      /\ x.stat \in [Thread -> Stat] /\ x.cur \in Thread /\ x \in KernelType
  BY SaneFields DEF Sane, Suspended, KernelSound
<1>2. KernelSound(r, {}) /\ Woken(x, r, t) /\ r.err = x.err
  <2>1. KernelSound(r, {} \ {t}) /\ Woken(x, r, t) /\ r.err = x.err
    BY <1>1, ResumeSound
  <2>2. {} \ {t} = {}
    OBVIOUS
  <2> QED
    BY <2>1, <2>2
<1>3. r.wait = [q \in Queue |-> RemoveFirst(x.wait[q], t)]
  <2> DEFINE u == Unlink(x, t)
             y == [u EXCEPT !.tmr = u.tmr \ {t}]
  <2>1. u \in KernelType
    BY <1>1, UnlinkEffect DEF ListType
  <2>2. u.wait = [q \in Queue |-> RemoveFirst(x.wait[q], t)]
    BY <1>1 DEF Unlink, KernelType
  <2>3. r = InsertThread(y, t)
    BY DEF ResumeThread
  <2> HIDE DEF u
  <2>4. y \in KernelType /\ y.wait = u.wait
    BY <2>1 DEF KernelType
  <2> HIDE DEF y, r
  <2> QED
    BY <1>1, <2>2, <2>3, <2>4, InsertFields
<1> HIDE DEF r
<1>4. /\ r.cur = x.cur /\ r.lock = x.lock /\ r.prio = x.prio /\ r.tmr = x.tmr \ {t}
      /\ r.stat = [x.stat EXCEPT ![t] = InsertedStat(x, t)]
      /\ \A q \in Queue : Waiting(r, q) = Waiting(x, q) \ {t}
  BY <1>2 DEF Woken
<1>5. /\ \A u \in {t} : r.stat[u] = InsertedStat(x, u)
      /\ \A u \in Thread \ {t} : r.stat[u] = x.stat[u]
  BY <1>1, <1>4
<1>6. /\ Sane(r) /\ Suspended(r) = Suspended(x) \ {t}
      /\ r.stat[r.cur] = "SUSPEND" => x.stat[x.cur] = "SUSPEND"
  <2>1. RousedStat(x, r, {t})
    BY <1>4, <1>5 DEF RousedStat
  <2> QED
    BY <1>2, <2>1, RousedSane
<1> QED
  BY <1>2, <1>3, <1>4, <1>6 DEF Roused, r

\* The timeout of a thread that waits, rt_schedule included.
LEMMA TimeoutSane ==
  ASSUME NEW x, Sane(x), NEW t \in x.tmr
  PROVE  LET r == ThreadTimeout(x, t)
         IN  /\ Sane(r) /\ r.stat[r.cur] = "RUNNING"
             /\ t \in Suspended(x) /\ Suspended(r) = Suspended(x) \ {t}
             /\ r.prio = x.prio /\ r.tmr = x.tmr \ {t}
             /\ r.err = [x.err EXCEPT ![t] = "ETIMEOUT"]
             /\ r.wait = [q \in Queue |-> RemoveFirst(x.wait[q], t)]
             /\ \A q \in Queue : Waiting(r, q) = Waiting(x, q) \ {t}
<1> DEFINE r == ThreadTimeout(x, t)
<1>1. /\ KernelSound(x, {}) /\ x.stat[x.cur] # "READY" /\ t \in Thread
      /\ x.stat \in [Thread -> Stat] /\ x.cur \in Thread /\ t \in Suspended(x)
  BY SaneFields DEF Sane, Suspended
<1>2. PICK i : /\ ThreadTimeout(x, t) = Schedule(i)
               /\ KernelSound(i, {} \ {t}) /\ Woken(x, i, t)
               /\ i.err = [x.err EXCEPT ![t] = "ETIMEOUT"]
               /\ i.wait = [q \in Queue |-> RemoveFirst(x.wait[q], t)]
               /\ \A q \in Queue : UrgentFirst(x, q) => UrgentFirst(i, q)
  BY <1>1, TimeoutSound
<1>3. /\ i.cur = x.cur /\ i.lock = x.lock /\ i.prio = x.prio /\ i.tmr = x.tmr \ {t}
      /\ i.stat = [x.stat EXCEPT ![t] = InsertedStat(x, t)]
      /\ \A q \in Queue : Waiting(i, q) = Waiting(x, q) \ {t}
  BY <1>2 DEF Woken
<1>4. KernelSound(i, {})
  <2>1. {} \ {t} = {}
    OBVIOUS
  <2> QED
    BY <1>2, <2>1
<1>5. /\ \A u \in {t} : i.stat[u] = InsertedStat(x, u)
      /\ \A u \in Thread \ {t} : i.stat[u] = x.stat[u]
  BY <1>1, <1>3
<1>6. Sane(i) /\ Suspended(i) = Suspended(x) \ {t}
  <2>1. RousedStat(x, i, {t})
    BY <1>1, <1>3, <1>5 DEF RousedStat
  <2> QED
    BY <1>4, <2>1, RousedSane
<1>7. Sane(r) /\ Switched(i, r)
  BY <1>2, <1>6, ScheduleSane
<1> HIDE DEF r
<1>8. \A q \in Queue : Waiting(r, q) = Waiting(x, q) \ {t}
  BY <1>3, <1>7 DEF Switched, Waiting
<1> QED
  BY <1>1, <1>2, <1>3, <1>6, <1>7, <1>8 DEF Switched, r

\* _ipc_list_resume_all: every thread of the list returns with an error.
LEMMA WakeAllSane ==
  ASSUME NEW x, Sane(x), NEW q \in Queue, NEW f, Rounds(f, x, q, Len(x.wait[q]))
  PROVE  LET r == f[Len(x.wait[q])]
         IN  /\ Sane(r) /\ Roused(x, r, Waiting(x, q))
             /\ \A t \in Waiting(x, q) : r.err[t] = "ERROR"
             /\ \A t \in Thread \ Waiting(x, q) : r.err[t] = x.err[t]
             /\ \A z \in Queue : UrgentFirst(x, z) => UrgentFirst(r, z)
<1> DEFINE r == f[Len(x.wait[q])]
           W == Waiting(x, q)
<1>1. KernelSound(x, {}) /\ x.stat[x.cur] # "READY" /\ W \subseteq Suspended(x)
  BY SaneFields DEF Sane
<1>2. /\ KernelSound(r, {}) /\ AllWoken(x, r, W)
      /\ \A z \in Queue : UrgentFirst(x, z) => UrgentFirst(r, z)
  BY <1>1, WakeAllSound
<1> HIDE DEF r, W
<1>3. /\ r.cur = x.cur /\ r.lock = x.lock /\ r.prio = x.prio /\ r.tmr = x.tmr \ W
      /\ \A t \in W : r.stat[t] = InsertedStat(x, t) /\ r.err[t] = "ERROR"
      /\ \A t \in Thread \ W : r.stat[t] = x.stat[t] /\ r.err[t] = x.err[t]
      /\ \A z \in Queue : Waiting(r, z) = Waiting(x, z) \ W
  BY <1>2 DEF AllWoken
<1>4. /\ Sane(r) /\ Suspended(r) = Suspended(x) \ W
      /\ r.stat[r.cur] = "SUSPEND" => x.stat[x.cur] = "SUSPEND"
  <2>1. RousedStat(x, r, W)
    BY <1>1, <1>3 DEF RousedStat
  <2> QED
    BY <1>2, <2>1, RousedSane
<1>5. Roused(x, r, W)
  BY <1>3, <1>4 DEF Roused
<1> QED
  BY <1>2, <1>3, <1>4, <1>5 DEF r, W

\* A thread that runs is in no list, so rt_thread_suspend takes it out of none.
LEMMA SuspendLists ==
  ASSUME NEW k, KernelSound(k, {}), NEW t \in Thread, \A q \in Queue : t \notin Waiting(k, q)
  PROVE  SuspendFor(k, t).wait = k.wait
<1> DEFINE e == [k EXCEPT !.err[t] = "EOK"]
           r == RemoveThread(e, t)
           s == SuspendFor(k, t)
<1>1. k \in KernelType
  BY DEF KernelSound, ListType
<1>2. /\ e \in KernelType
      /\ e.cur = k.cur /\ e.rdy = k.rdy /\ e.grp = k.grp
      /\ e.wait = k.wait /\ e.stat = k.stat /\ e.prio = k.prio /\ e.tmr = k.tmr
  <2>1. [k.err EXCEPT ![t] = "EOK"] \in [Thread -> Error]
    BY <1>1, KernelFields DEF Error
  <2>2. e = [k EXCEPT !.err = [k.err EXCEPT ![t] = "EOK"]]
    BY <1>1 DEF KernelType
  <2> QED
    BY <1>1, <2>1, <2>2 DEF KernelType
<1>3. s = [r EXCEPT !.stat[t] = "SUSPEND", !.tmr = @ \ {t}]
  BY DEF SuspendThread, SuspendFor
<1> HIDE DEF e, s
<1>4. ListType(e) /\ \A q \in Queue : t \notin Waiting(e, q)
  BY <1>2, SoundFields DEF KernelSound, Waiting
<1>5. r.wait = e.wait /\ ListType(r)
  BY <1>4, RemoveLists, RemoveEffect
<1>6. r \in KernelType
  BY <1>5 DEF ListType
<1> HIDE DEF r
<1>7. s.wait = r.wait
  BY <1>3, <1>6 DEF KernelType
<1> QED
  BY <1>2, <1>5, <1>7 DEF s

\* w is x with the current thread suspended at place n of list q.
QueuedAt(x, w, q, n) ==
  /\ w.cur = x.cur /\ w.prio = x.prio /\ w.tmr \ {x.cur} = x.tmr \ {x.cur}
  /\ w.stat[w.cur] = "SUSPEND" /\ Suspended(w) = Suspended(x) \cup {x.cur}
  /\ w.err = [x.err EXCEPT ![x.cur] = "EOK"]
  /\ w.wait = [x.wait EXCEPT ![q] = InsertAt(x.wait[q], n, x.cur)]
  /\ Waiting(w, q) = Waiting(x, q) \cup {x.cur}
  /\ \A r \in Queue \ {q} : Waiting(w, r) = Waiting(x, r)

\* The current thread waits: _ipc_list_suspend, and rt_timer_start.
LEMMA QueueSane ==
  ASSUME NEW x, Sane(x), x.stat[x.cur] = "RUNNING", x.cur # Idle, NEW q \in Queue,
         NEW n \in 1 .. Len(x.wait[q]) + 1, NEW timed \in BOOLEAN
  PROVE  /\ SuspendFor(x, x.cur).wait = x.wait
         /\ Sane(QueueAt(x, q, x.cur, n, timed))
         /\ QueuedAt(x, QueueAt(x, q, x.cur, n, timed), q, n)
<1> DEFINE t == x.cur
           w == QueueAt(x, q, t, n, timed)
<1>1. /\ KernelSound(x, {}) /\ t \in Thread /\ x.stat \in [Thread -> Stat]
      /\ \A r \in Queue : t \notin Waiting(x, r)
  BY SaneFields DEF Sane, Suspended
<1>2. SuspendFor(x, t).wait = x.wait
  BY <1>1, SuspendLists
<1>3. /\ KernelSound(w, {}) /\ Queued(x, w, q, t)
      /\ w.wait = [x.wait EXCEPT ![q] = InsertAt(x.wait[q], n, t)]
  <2>1. n \in 1 .. Len(SuspendFor(x, t).wait[q]) + 1
    BY <1>2
  <2>2. KernelSound(x, {}) /\ t \in Thread /\ timed \in BOOLEAN
    BY <1>1
  <2> HIDE DEF t, w
  <2>3. /\ KernelSound(w, {}) /\ Queued(x, w, q, t)
        /\ w.wait = [SuspendFor(x, t).wait EXCEPT ![q] = InsertAt(SuspendFor(x, t).wait[q], n, t)]
    BY <2>1, <2>2, QueueSound, SMTT(40) DEF w
  <2> QED
    BY <1>2, <2>3
<1> HIDE DEF w
<1>4. /\ w.cur = x.cur /\ w.lock = x.lock /\ w.prio = x.prio /\ w.tmr \ {t} = x.tmr \ {t}
      /\ w.stat = [x.stat EXCEPT ![t] = "SUSPEND"]
      /\ w.err = [x.err EXCEPT ![t] = "EOK"]
      /\ Waiting(w, q) = Waiting(x, q) \cup {t}
      /\ \A r \in Queue \ {q} : Waiting(w, r) = Waiting(x, r)
  <2>1. \A r \in Queue \ {q} : Waiting(w, r) = Waiting(x, r) \ {t}
    BY <1>3 DEF Queued
  <2>2. \A r \in Queue \ {q} : Waiting(w, r) = Waiting(x, r)
    BY ONLY <1>1, <2>1
  <2> QED
    BY <1>3, <2>2 DEF Queued
<1>5. w.stat[t] = "SUSPEND" /\ \A u \in Thread \ {t} : w.stat[u] = x.stat[u]
  BY <1>1, <1>4
<1>6. Suspended(w) = Suspended(x) \cup {t}
  BY <1>1, <1>5 DEF Suspended
<1>7. Sane(w)
  BY <1>1, <1>3, <1>4, <1>5, KernelAssumption DEF Sane
<1> QED
  BY <1>2, <1>3, <1>4, <1>5, <1>6, <1>7 DEF QueuedAt, w

\* The place of a thread in a list ordered by priority: before the first
\* thread that is less urgent.
UrgentPlace(list, prio, t) ==
  LET less == {i \in DOMAIN list : prio[t] < prio[list[i]]}
  IN  IF less = {} THEN Len(list) + 1 ELSE Min(less)

LEMMA UrgentPlaceIs ==
  ASSUME NEW list \in Seq(Thread), NEW prio \in [Thread -> Prio], NEW t \in Thread
  PROVE  LET n == UrgentPlace(list, prio, t)
         IN  /\ n \in 1 .. Len(list) + 1
             /\ \A i \in 1 .. Len(list) : i < n => prio[list[i]] <= prio[t]
             /\ n \in 1 .. Len(list) => prio[t] < prio[list[n]]
<1> DEFINE n == UrgentPlace(list, prio, t)
           less == {i \in DOMAIN list : prio[t] < prio[list[i]]}
<1>1. /\ prio \in [Thread -> Int] /\ Len(list) \in Nat /\ DOMAIN list = 1 .. Len(list)
      /\ \A i \in 1 .. Len(list) : list[i] \in Thread /\ prio[list[i]] \in Int
      /\ prio[t] \in Int
  BY KernelAssumption DEF Prio
<1>2. CASE less = {}
  <2>1. n = Len(list) + 1
    BY <1>2 DEF UrgentPlace
  <2>2. \A i \in 1 .. Len(list) : prio[list[i]] <= prio[t]
    BY <1>1, <1>2
  <2> HIDE DEF n
  <2> QED
    BY <1>1, <2>1, <2>2 DEF n
<1>3. CASE less # {}
  <2>1. less \in SUBSET Nat
    BY <1>1
  <2>2. n \in less /\ \A i \in less : n <= i
    BY <1>3, <2>1, MinIsLeast DEF UrgentPlace
  <2> HIDE DEF n
  <2>3. n \in 1 .. Len(list) /\ prio[t] < prio[list[n]]
    BY <1>1, <2>2
  <2>4. \A i \in 1 .. Len(list) : i < n => prio[list[i]] <= prio[t]
    BY <1>1, <2>2, <2>3
  <2> QED
    BY <1>1, <2>3, <2>4 DEF n
<1> QED
  BY <1>2, <1>3

\* RT_THREAD_CTRL_CHANGE_PRIORITY of any thread.
LEMMA PrioritySane ==
  ASSUME NEW x, Sane(x), NEW t \in Thread, NEW p \in Prio
  PROVE  LET r == ChangePriority(x, t, p)
         IN  /\ Sane(r) /\ r.cur = x.cur /\ r.wait = x.wait /\ r.stat = x.stat
             /\ r.tmr = x.tmr /\ r.err = x.err /\ Suspended(r) = Suspended(x)
             /\ r.prio = [x.prio EXCEPT ![t] = p]
<1> DEFINE r == ChangePriority(x, t, p)
<1>1. KernelSound(x, {}) /\ x.stat[x.cur] # "READY"
  BY DEF Sane
<1>2. KernelSound(r, {}) /\ Reprioritised(x, r, t, p)
  BY <1>1, ChangePrioritySound
<1> HIDE DEF r
<1>3. /\ r.cur = x.cur /\ r.wait = x.wait /\ r.stat = x.stat /\ r.lock = x.lock
      /\ r.tmr = x.tmr /\ r.err = x.err /\ r.prio = [x.prio EXCEPT ![t] = p]
  BY <1>2 DEF Reprioritised
<1>4. Sane(r) /\ Suspended(r) = Suspended(x)
  BY <1>2, <1>3 DEF Sane, Suspended
<1> QED
  BY <1>3, <1>4 DEF r

\* rt_thread_sleep: the current thread waits for its timer in no list.
LEMMA SleepSane ==
  ASSUME NEW x, Sane(x), x.stat[x.cur] = "RUNNING", x.cur # Idle
  PROVE  LET r == Schedule(StartTimer(SuspendThread(x, x.cur), x.cur))
         IN  /\ Sane(r) /\ r.stat[r.cur] = "RUNNING"
             /\ r.wait = x.wait /\ r.prio = x.prio /\ r.err = x.err
             /\ r.tmr = x.tmr \cup {x.cur}
             /\ Suspended(r) = Suspended(x) \cup {x.cur}
<1> DEFINE t == x.cur
           s == SuspendThread(x, t)
           w == StartTimer(s, t)
           r == Schedule(w)
<1>1. /\ KernelSound(x, {}) /\ ListType(x) /\ t \in Thread /\ x.stat \in [Thread -> Stat]
      /\ \A q \in Queue : t \notin Waiting(x, q)
  BY SaneFields DEF Sane, Suspended, KernelSound
<1>2. /\ KernelSound(s, {}) /\ s.cur = x.cur /\ s.lock = x.lock /\ s.prio = x.prio
      /\ s.err = x.err /\ s.stat = [x.stat EXCEPT ![t] = "SUSPEND"]
      /\ s.tmr = x.tmr \ {t}
  BY <1>1, SuspendSound
<1>3. s.wait = x.wait
  <2> DEFINE j == RemoveThread(x, t)
  <2>1. j.wait = x.wait /\ ListType(j)
    BY <1>1, RemoveLists, RemoveEffect
  <2>2. s = [j EXCEPT !.stat[t] = "SUSPEND", !.tmr = @ \ {t}]
    BY DEF SuspendThread
  <2>3. j \in KernelType
    BY <2>1 DEF ListType
  <2> HIDE DEF j, s
  <2>4. s.wait = j.wait
    BY <2>2, <2>3 DEF KernelType
  <2> QED
    BY <2>1, <2>4
<1> HIDE DEF s
<1>4. s.stat[t] = "SUSPEND" /\ \A u \in Thread \ {t} : s.stat[u] = x.stat[u]
  BY <1>1, <1>2
<1>5. /\ KernelSound(w, {})
      /\ w.cur = s.cur /\ w.lock = s.lock /\ w.wait = s.wait /\ w.stat = s.stat
      /\ w.prio = s.prio /\ w.err = s.err /\ w.tmr = s.tmr \cup {t}
  BY <1>1, <1>2, <1>4, TimerSound
<1> HIDE DEF w
<1>6. Sane(w) /\ Suspended(w) = Suspended(x) \cup {t}
  <2>1. Suspended(w) = Suspended(x) \cup {t}
    BY <1>1, <1>4, <1>5 DEF Suspended
  <2> QED
    BY <1>1, <1>2, <1>4, <1>5, <2>1, KernelAssumption DEF Sane
<1>7. Sane(r) /\ Switched(w, r)
  BY <1>6, ScheduleSane
<1> HIDE DEF r
<1>8. r.tmr = x.tmr \cup {t}
  BY <1>2, <1>5, <1>7 DEF Switched
<1> QED
  BY <1>2, <1>3, <1>5, <1>6, <1>7, <1>8 DEF Switched, r, w, s

\* The first rt_schedule of the application leaves nobody waiting.
LEMMA StartedSane ==
  ASSUME NEW P \in [Thread -> Prio], IsFiniteSet(Thread)
  PROVE  LET r == Schedule(Started(P))
         IN  /\ Sane(r) /\ Suspended(r) = {} /\ r.prio = P /\ r.tmr = {}
             /\ r.err = [t \in Thread |-> "EOK"]
             /\ r.stat[r.cur] = "RUNNING"
             /\ \A q \in Queue : r.wait[q] = << >> /\ Waiting(r, q) = {}
<1> DEFINE r == Schedule(Started(P))
<1>1. /\ KernelSound(r, {})
      /\ r.lock = 0 /\ r.prio = P /\ r.tmr = {}
      /\ r.err = [t \in Thread |-> "EOK"]
      /\ r.stat[r.cur] = "RUNNING"
      /\ \A t \in Thread : r.stat[t] \in {"READY", "RUNNING"}
      /\ \A q \in Queue : r.wait[q] = << >>
  BY StartedSound
<1> HIDE DEF r
<1>2. Sane(r) /\ Suspended(r) = {}
  BY <1>1, KernelAssumption DEF Sane, Suspended
<1>3. \A q \in Queue : Waiting(r, q) = {}
  BY <1>1, <1>2, SaneFields
<1> QED
  BY <1>1, <1>2, <1>3 DEF r
=============================================================================
