------------------------------ MODULE ListLemmas ------------------------------
(***************************************************************************)
(* What the list operations of libs/list.c do to the elements of a list,   *)
(* stated for the operators of module KernelLists, and facts about sets of *)
(* numbers and positions in a ring that several proofs need.               *)
(***************************************************************************)
EXTENDS KernelLists, FiniteSetTheorems, SequenceTheorems, WellFoundedInduction, TLAPS

\* Taking out the k-th element keeps the others, in their order.
LEMMA RemoveAtElements ==
  ASSUME NEW S, NEW s \in Seq(S), NEW k \in 1 .. Len(s)
  PROVE  /\ RemoveAt(s, k) \in Seq(S)
         /\ Len(RemoveAt(s, k)) = Len(s) - 1
         /\ \A i \in 1 .. Len(s) - 1 :
              RemoveAt(s, k)[i] = IF i < k THEN s[i] ELSE s[i + 1]
<1>. DEFINE a == SubSeq(s, 1, k-1)
            b == SubSeq(s, k+1, Len(s))
<1>1. /\ a \in Seq(S) /\ Len(a) = k - 1
      /\ \A i \in 1 .. k-1 : a[i] = s[i]
  BY SubSeqProperties, ElementOfSeq
<1>2. /\ b \in Seq(S) /\ Len(b) = Len(s) - k
      /\ \A i \in 1 .. Len(s)-k : b[i] = s[k+i]
  <2>1. \A i \in k+1 .. Len(s) : s[i] \in S
    BY ElementOfSeq
  <2>2. Len(s) \in Nat
    BY LenProperties
  <2>. QED
    BY <2>1, <2>2, SubSeqProperties
<1>. HIDE DEF a, b
<1>3. /\ a \o b \in Seq(S)
      /\ Len(a \o b) = Len(a) + Len(b)
      /\ \A i \in 1 .. Len(a) + Len(b) :
           (a \o b)[i] = IF i <= Len(a) THEN a[i] ELSE b[i - Len(a)]
  BY <1>1, <1>2, ConcatProperties
<1>4. RemoveAt(s, k) = a \o b
  BY DEF RemoveAt, a, b
<1>5. Len(s) \in Nat
  BY LenProperties
<1>6. ASSUME NEW i \in 1 .. Len(s) - 1
      PROVE  RemoveAt(s, k)[i] = IF i < k THEN s[i] ELSE s[i + 1]
  <2>1. CASE i < k
    BY <2>1, <1>1, <1>2, <1>3, <1>4, <1>5
  <2>2. CASE i >= k
    <3>1. i - Len(a) \in 1 .. Len(s) - k
      BY <2>2, <1>1, <1>5
    <3>2. b[i - Len(a)] = s[i + 1]
      BY <3>1, <1>1, <1>2
    <3>. QED
      BY <2>2, <3>2, <1>1, <1>2, <1>3, <1>4, <1>5
  <2>. QED
    BY <2>1, <2>2
<1>. QED
  BY <1>1, <1>2, <1>3, <1>4, <1>5, <1>6

\* unlink takes out one occurrence of e, if there is one.
LEMMA UnlinkIsRemoveAt ==
  ASSUME NEW S, NEW s \in Seq(S), NEW e
  PROVE  \/ ~Contains(s, e) /\ unlink(s, e) = s
         \/ \E k \in 1 .. Len(s) : s[k] = e /\ unlink(s, e) = RemoveAt(s, k)
<1>1. DOMAIN s = 1 .. Len(s)
  BY LenProperties
<1>. QED
  BY <1>1 DEF Contains, unlink

\* list_del on a list: a sequence again, and nothing is added to it.
LEMMA UnlinkElements ==
  ASSUME NEW S, NEW s \in Seq(S), NEW e
  PROVE  /\ unlink(s, e) \in Seq(S)
         /\ \A x : Contains(unlink(s, e), x) => Contains(s, x)
         /\ \A x : Contains(s, x) /\ x # e => Contains(unlink(s, e), x)
<1>1. CASE ~Contains(s, e) /\ unlink(s, e) = s
  BY <1>1
<1>2. ASSUME NEW k \in 1 .. Len(s), s[k] = e, unlink(s, e) = RemoveAt(s, k)
      PROVE  /\ unlink(s, e) \in Seq(S)
             /\ \A x : Contains(unlink(s, e), x) => Contains(s, x)
             /\ \A x : Contains(s, x) /\ x # e => Contains(unlink(s, e), x)
  <2>. DEFINE r == RemoveAt(s, k)
  <2>1. Len(s) \in Nat
    BY LenProperties
  <2>2. /\ r \in Seq(S)
        /\ Len(r) = Len(s) - 1
        /\ \A i \in 1 .. Len(s) - 1 : r[i] = IF i < k THEN s[i] ELSE s[i + 1]
    BY RemoveAtElements
  <2>. HIDE DEF r
  <2>3. ASSUME NEW x, Contains(r, x) PROVE Contains(s, x)
    <3>1. PICK i \in 1 .. Len(s) - 1 : r[i] = x
      BY <2>2, <2>3 DEF Contains
    <3>2. i \in 1 .. Len(s) /\ i + 1 \in 1 .. Len(s)
      BY <2>1
    <3>. QED
      BY <3>1, <3>2, <2>2 DEF Contains
  <2>4. ASSUME NEW x, Contains(s, x), x # e PROVE Contains(r, x)
    <3>1. PICK j \in 1 .. Len(s) : s[j] = x
      BY <2>4 DEF Contains
    <3>2. j # k
      BY <3>1, <2>4, <1>2
    <3>3. CASE j < k
      <4>1. j \in 1 .. Len(s) - 1
        BY <3>3, <2>1
      <4>. QED
        BY <4>1, <3>1, <3>3, <2>2 DEF Contains
    <3>4. CASE j > k
      <4>1. j - 1 \in 1 .. Len(s) - 1 /\ ~(j - 1 < k) /\ (j - 1) + 1 = j
        BY <3>4, <2>1
      <4>2. r[j - 1] = s[j]
        BY <4>1, <2>2
      <4>. QED
        BY <4>1, <4>2, <3>1, <2>2 DEF Contains
    <3>. QED
      BY <3>2, <3>3, <3>4, <2>1
  <2>. QED
    BY <1>2, <2>2, <2>3, <2>4 DEF r
<1>. QED
  BY <1>1, <1>2, UnlinkIsRemoveAt

\* list_del on a list without repetition: e is gone, and no repetition appears.
LEMMA UnlinkInjective ==
  ASSUME NEW S, NEW s \in Seq(S), NEW e, IsInjective(s)
  PROVE  /\ IsInjective(unlink(s, e))
         /\ ~Contains(unlink(s, e), e)
<1>1. CASE ~Contains(s, e) /\ unlink(s, e) = s
  BY <1>1
<1>2. ASSUME NEW k \in 1 .. Len(s), s[k] = e, unlink(s, e) = RemoveAt(s, k)
      PROVE  /\ IsInjective(unlink(s, e))
             /\ ~Contains(unlink(s, e), e)
  <2>. DEFINE r == RemoveAt(s, k)
              f(i) == IF i < k THEN i ELSE i + 1
  <2>1. Len(s) \in Nat /\ DOMAIN s = 1 .. Len(s)
    BY LenProperties
  <2>2. /\ r \in Seq(S)
        /\ Len(r) = Len(s) - 1
        /\ \A i \in 1 .. Len(s) - 1 : r[i] = s[f(i)]
    BY RemoveAtElements
  <2>3. DOMAIN r = 1 .. Len(s) - 1
    BY <2>2, LenProperties
  <2>. HIDE DEF r
  <2>4. ASSUME NEW i \in 1 .. Len(s) - 1
        PROVE  f(i) \in 1 .. Len(s) /\ f(i) # k
    BY <2>1
  <2>5. ASSUME NEW i \in 1 .. Len(s) - 1, NEW j \in 1 .. Len(s) - 1, f(i) = f(j)
        PROVE  i = j
    BY <2>5, <2>1
  <2>. HIDE DEF f
  <2>6. IsInjective(r)
    BY <2>1, <2>2, <2>3, <2>4, <2>5 DEF IsInjective
  <2>7. ~Contains(r, e)
    BY <1>2, <2>1, <2>2, <2>4 DEF IsInjective, Contains
  <2>. QED
    BY <1>2, <2>6, <2>7 DEF r
<1>. QED
  BY <1>1, <1>2, UnlinkIsRemoveAt

\* list_add_tail on a list.
LEMMA AppendElements ==
  ASSUME NEW S, NEW s \in Seq(S), NEW e \in S
  PROVE  /\ Append(s, e) \in Seq(S)
         /\ \A x : Contains(Append(s, e), x) <=> Contains(s, x) \/ x = e
         /\ IsInjective(s) /\ ~Contains(s, e) => IsInjective(Append(s, e))
<1>. DEFINE r == Append(s, e)
<1>1. /\ r \in Seq(S)
      /\ Len(r) = Len(s) + 1
      /\ \A i \in 1 .. Len(s) : r[i] = s[i]
      /\ r[Len(s) + 1] = e
  BY AppendProperties
<1>2. Len(s) \in Nat /\ DOMAIN s = 1 .. Len(s)
  BY LenProperties
<1>3. DOMAIN r = 1 .. Len(s) + 1
  BY <1>1, LenProperties
<1>. HIDE DEF r
<1>4. ASSUME NEW x PROVE Contains(r, x) <=> Contains(s, x) \/ x = e
  <2>1. ASSUME Contains(r, x) PROVE Contains(s, x) \/ x = e
    <3>1. PICK i \in 1 .. Len(s) + 1 : r[i] = x
      BY <2>1, <1>1 DEF Contains
    <3>2. i \in 1 .. Len(s) \/ i = Len(s) + 1
      BY <1>2
    <3>. QED
      BY <3>1, <3>2, <1>1 DEF Contains
  <2>2. ASSUME Contains(s, x) PROVE Contains(r, x)
    <3>1. PICK i \in 1 .. Len(s) : s[i] = x
      BY <2>2 DEF Contains
    <3>2. i \in 1 .. Len(s) + 1
      BY <1>2
    <3>. QED
      BY <3>1, <3>2, <1>1 DEF Contains
  <2>3. ASSUME x = e PROVE Contains(r, x)
    <3>1. Len(s) + 1 \in 1 .. Len(s) + 1
      BY <1>2
    <3>. QED
      BY <2>3, <3>1, <1>1 DEF Contains
  <2>. QED
    BY <2>1, <2>2, <2>3
<1>5. ASSUME IsInjective(s), ~Contains(s, e) PROVE IsInjective(r)
  <2>1. ASSUME NEW i \in 1 .. Len(s) + 1, NEW j \in 1 .. Len(s) + 1, r[i] = r[j]
        PROVE  i = j
    <3>1. (i \in 1 .. Len(s) \/ i = Len(s) + 1) /\ (j \in 1 .. Len(s) \/ j = Len(s) + 1)
      BY <1>2
    <3>2. CASE i \in 1 .. Len(s) /\ j \in 1 .. Len(s)
      BY <3>2, <2>1, <1>1, <1>2, <1>5 DEF IsInjective
    <3>3. CASE i \in 1 .. Len(s) /\ j = Len(s) + 1
      BY <3>3, <2>1, <1>1, <1>5 DEF Contains
    <3>4. CASE i = Len(s) + 1 /\ j \in 1 .. Len(s)
      BY <3>4, <2>1, <1>1, <1>5 DEF Contains
    <3>. QED
      BY <3>1, <3>2, <3>3, <3>4
  <2>. QED
    BY <2>1, <1>3 DEF IsInjective
<1>. QED
  BY <1>1, <1>4, <1>5 DEF r

\* unblock_list on the two lists it works on.
LEMMA ConcatElements ==
  ASSUME NEW S, NEW s \in Seq(S), NEW t \in Seq(S)
  PROVE  /\ s \o t \in Seq(S)
         /\ \A x : Contains(s \o t, x) <=> Contains(s, x) \/ Contains(t, x)
         /\ /\ IsInjective(s) /\ IsInjective(t)
            /\ \A x : ~(Contains(s, x) /\ Contains(t, x))
            => IsInjective(s \o t)
<1>. DEFINE r == s \o t
<1>1. /\ r \in Seq(S)
      /\ Len(r) = Len(s) + Len(t)
      /\ \A i \in 1 .. Len(s) + Len(t) :
           r[i] = IF i <= Len(s) THEN s[i] ELSE t[i - Len(s)]
  BY ConcatProperties
<1>2. /\ Len(s) \in Nat /\ DOMAIN s = 1 .. Len(s)
      /\ Len(t) \in Nat /\ DOMAIN t = 1 .. Len(t)
  BY LenProperties
<1>3. DOMAIN r = 1 .. Len(s) + Len(t)
  BY <1>1, LenProperties
<1>. HIDE DEF r
<1>4. ASSUME NEW i \in 1 .. Len(s) + Len(t)
      PROVE  \/ i \in 1 .. Len(s) /\ r[i] = s[i]
             \/ i - Len(s) \in 1 .. Len(t) /\ r[i] = t[i - Len(s)]
  <2>1. CASE i <= Len(s)
    BY <2>1, <1>1, <1>2
  <2>2. CASE i > Len(s)
    BY <2>2, <1>1, <1>2
  <2>. QED
    BY <2>1, <2>2, <1>2
<1>5. ASSUME NEW x PROVE Contains(r, x) <=> Contains(s, x) \/ Contains(t, x)
  <2>1. ASSUME Contains(r, x) PROVE Contains(s, x) \/ Contains(t, x)
    BY <2>1, <1>1, <1>4 DEF Contains
  <2>2. ASSUME Contains(s, x) PROVE Contains(r, x)
    <3>1. PICK i \in 1 .. Len(s) : s[i] = x
      BY <2>2 DEF Contains
    <3>2. i \in 1 .. Len(s) + Len(t) /\ i <= Len(s)
      BY <1>2
    <3>. QED
      BY <3>1, <3>2, <1>1 DEF Contains
  <2>3. ASSUME Contains(t, x) PROVE Contains(r, x)
    <3>1. PICK i \in 1 .. Len(t) : t[i] = x
      BY <2>3 DEF Contains
    <3>2. /\ i + Len(s) \in 1 .. Len(s) + Len(t)
          /\ ~(i + Len(s) <= Len(s))
          /\ (i + Len(s)) - Len(s) = i
      BY <1>2
    <3>3. r[i + Len(s)] = t[i]
      BY <3>2, <1>1
    <3>. QED
      BY <3>1, <3>2, <3>3, <1>1 DEF Contains
  <2>. QED
    BY <2>1, <2>2, <2>3
<1>6. ASSUME IsInjective(s), IsInjective(t),
             \A x : ~(Contains(s, x) /\ Contains(t, x))
      PROVE  IsInjective(r)
  <2>1. ASSUME NEW i \in 1 .. Len(s) + Len(t), NEW j \in 1 .. Len(s) + Len(t),
               r[i] = r[j]
        PROVE  i = j
    <3>1. CASE i \in 1 .. Len(s) /\ r[i] = s[i] /\ j \in 1 .. Len(s) /\ r[j] = s[j]
      BY <3>1, <2>1, <1>2, <1>6 DEF IsInjective
    <3>2. CASE /\ i - Len(s) \in 1 .. Len(t) /\ r[i] = t[i - Len(s)]
               /\ j - Len(s) \in 1 .. Len(t) /\ r[j] = t[j - Len(s)]
      <4>1. i - Len(s) = j - Len(s)
        BY <3>2, <2>1, <1>2, <1>6 DEF IsInjective
      <4>. QED
        BY <4>1, <1>2
    <3>3. CASE /\ i \in 1 .. Len(s) /\ r[i] = s[i]
               /\ j - Len(s) \in 1 .. Len(t) /\ r[j] = t[j - Len(s)]
      <4>1. Contains(s, r[i]) /\ Contains(t, r[i])
        BY <3>3, <2>1 DEF Contains
      <4>. QED
        BY <4>1, <1>6
    <3>4. CASE /\ j \in 1 .. Len(s) /\ r[j] = s[j]
               /\ i - Len(s) \in 1 .. Len(t) /\ r[i] = t[i - Len(s)]
      <4>1. Contains(s, r[i]) /\ Contains(t, r[i])
        BY <3>4, <2>1 DEF Contains
      <4>. QED
        BY <4>1, <1>6
    <3>. QED
      BY <1>4, <3>1, <3>2, <3>3, <3>4
  <2>. QED
    BY <2>1, <1>3 DEF IsInjective
<1>. QED
  BY <1>1, <1>5, <1>6 DEF r

-----------------------------------------------------------------------------
(* The order of a list.                                                     *)

\* x is somewhere before y in list s.
Precedes(s, x, y) == \E i, j \in DOMAIN s : i < j /\ s[i] = x /\ s[j] = y

\* list_del leaves the others in their order.
LEMMA UnlinkOrder ==
  ASSUME NEW S, NEW s \in Seq(S), NEW e, NEW x, NEW y, x # e, y # e, Precedes(s, x, y)
  PROVE  Precedes(unlink(s, e), x, y)
<1>1. CASE unlink(s, e) = s
  BY <1>1
<1>2. ASSUME NEW k \in 1 .. Len(s), s[k] = e, unlink(s, e) = RemoveAt(s, k)
      PROVE  Precedes(unlink(s, e), x, y)
  <2>. DEFINE r == RemoveAt(s, k)
              n == Len(s)
              To(i) == IF i < k THEN i ELSE i - 1
  <2>1. n \in Nat /\ DOMAIN s = 1 .. n
    BY LenProperties
  <2>2. /\ r \in Seq(S) /\ Len(r) = n - 1
        /\ \A i \in 1 .. n - 1 : r[i] = IF i < k THEN s[i] ELSE s[i + 1]
    BY RemoveAtElements
  <2>3. DOMAIN r = 1 .. n - 1
    BY <2>2, LenProperties
  <2>4. k \in 1 .. n
    OBVIOUS
  <2>5. PICK i \in 1 .. n, j \in 1 .. n : i < j /\ s[i] = x /\ s[j] = y
    BY <2>1 DEF Precedes
  <2>. HIDE DEF r, n
  <2>6. i # k /\ j # k
    BY <1>2, <2>5
  <2>7. /\ To(i) \in 1 .. n - 1 /\ To(j) \in 1 .. n - 1 /\ To(i) < To(j)
        /\ IF i < k THEN To(i) < k /\ To(i) = i ELSE ~(To(i) < k) /\ To(i) + 1 = i
        /\ IF j < k THEN To(j) < k /\ To(j) = j ELSE ~(To(j) < k) /\ To(j) + 1 = j
    BY <2>1, <2>4, <2>5, <2>6
  <2>. HIDE DEF To
  <2>8. r[To(i)] = s[i] /\ r[To(j)] = s[j]
    BY <2>2, <2>7
  <2>9. Precedes(r, x, y)
    BY <2>3, <2>5, <2>7, <2>8 DEF Precedes
  <2>. QED
    BY <1>2, <2>9 DEF r
<1>. QED
  BY <1>1, <1>2, UnlinkIsRemoveAt

\* What comes behind a list does not change its order.
LEMMA AppendOrder ==
  ASSUME NEW S, NEW s \in Seq(S), NEW e \in S, NEW x, NEW y, Precedes(s, x, y)
  PROVE  Precedes(Append(s, e), x, y)
<1>. DEFINE r == Append(s, e)
<1>1. r \in Seq(S) /\ Len(r) = Len(s) + 1 /\ \A i \in 1 .. Len(s) : r[i] = s[i]
  BY AppendProperties
<1>2. Len(s) \in Nat /\ DOMAIN s = 1 .. Len(s) /\ DOMAIN r = 1 .. Len(s) + 1
  BY <1>1, LenProperties
<1>3. \A i \in DOMAIN s : i \in DOMAIN r /\ r[i] = s[i]
  BY <1>1, <1>2
<1>. QED
  BY <1>3 DEF Precedes

LEMMA ConcatOrder ==
  ASSUME NEW S, NEW s \in Seq(S), NEW t \in Seq(S), NEW x, NEW y, Precedes(s, x, y)
  PROVE  Precedes(s \o t, x, y)
<1>. DEFINE r == s \o t
<1>1. r \in Seq(S) /\ Len(r) = Len(s) + Len(t) /\ \A i \in 1 .. Len(s) : r[i] = s[i]
  BY ConcatProperties
<1>2. /\ Len(s) \in Nat /\ Len(t) \in Nat
      /\ DOMAIN s = 1 .. Len(s) /\ DOMAIN r = 1 .. Len(s) + Len(t)
  BY <1>1, LenProperties
<1>3. \A i \in DOMAIN s : i \in DOMAIN r /\ r[i] = s[i]
  BY <1>1, <1>2
<1>. QED
  BY <1>3 DEF Precedes

\* Induction, for a set of numbers.
LEMMA Induction ==
  ASSUME NEW X, 0 \in X, \A n \in Nat : n \in X => n + 1 \in X
  PROVE  Nat \subseteq X
<1>. DEFINE Less == {ss \in Nat \X Nat : ss[1] < ss[2]}
            Out == Nat \ X
<1>1. IsWellFoundedOn(Less, Nat)
  BY NatLessThanWellFounded, Zenon DEF OpToRel
<1>. HIDE DEF Less
<1>2. SUFFICES ASSUME Out # {} PROVE FALSE
  OBVIOUS
<1>3. PICK z \in Out : \A y \in Out : ~(<<y, z>> \in Less)
  BY <1>1, <1>2, WFMin
<1>4. z \in Nat /\ z # 0 /\ z - 1 \in Nat /\ z = (z - 1) + 1
  BY <1>3
<1>5. <<z - 1, z>> \in Less
  BY <1>4 DEF Less
<1>6. z - 1 \in X
  BY <1>3, <1>4, <1>5
<1>. QED
  BY <1>3, <1>4, <1>6

\* f[i] is what is left of the first i elements.
LeftOf(f, s, P) ==
  /\ f[0] = <<>>
  /\ \A i \in 1 .. Len(s) :
       f[i] = IF s[i] \in P THEN f[i - 1] ELSE Append(f[i - 1], s[i])

LEMMA LeavingStep ==
  ASSUME NEW S, NEW s \in Seq(S), NEW P
  PROVE  \E f \in [0 .. Len(s) -> Seq(S)] : LeftOf(f, s, P) /\ Leaving(s, P) = f[Len(s)]
<1>. DEFINE After(f, i) == IF i = 0 THEN <<>>
                          ELSE IF s[i] \in P THEN f[i - 1] ELSE Append(f[i - 1], s[i])
            Filled(f, n) == f \in [0 .. n -> Seq(S)] /\ \A i \in 0 .. n : f[i] = After(f, i)
            X == {n \in Nat : n <= Len(s) => \E f : Filled(f, n)}
<1>0. Len(s) \in Nat /\ \A i \in 1 .. Len(s) : s[i] \in S
  BY LenProperties, ElementOfSeq
<1>1. 0 \in X
  <2>. DEFINE f == [i \in 0 .. 0 |-> <<>>]
  <2>1. f \in [0 .. 0 -> Seq(S)]
    BY EmptySeq
  <2>2. \A i \in 0 .. 0 : f[i] = After(f, i)
    OBVIOUS
  <2>3. Filled(f, 0)
    BY <2>1, <2>2
  <2>. HIDE DEF Filled
  <2>. QED
    BY <2>3
<1>2. ASSUME NEW n \in Nat, n \in X PROVE n + 1 \in X
  <2>. SUFFICES ASSUME n + 1 <= Len(s) PROVE \E g : Filled(g, n + 1)
    <3>. HIDE DEF Filled
    <3>. QED
      OBVIOUS
  <2>0. \E f : Filled(f, n)
    <3>. HIDE DEF Filled
    <3>. QED
      BY <1>0, <1>2
  <2>1. PICK f : Filled(f, n)
    BY <2>0
  <2>2. n \in 0 .. n /\ f[n] \in Seq(S) /\ s[n + 1] \in S
    BY <1>0, <2>1
  <2>. DEFINE last == IF s[n + 1] \in P THEN f[n] ELSE Append(f[n], s[n + 1])
              g == [i \in 0 .. n + 1 |-> IF i = n + 1 THEN last ELSE f[i]]
  <2>3. last \in Seq(S)
    BY <2>2, AppendProperties
  <2>. HIDE DEF last
  <2>4. g \in [0 .. n + 1 -> Seq(S)]
    BY <2>1, <2>3
  <2>5. ASSUME NEW i \in 0 .. n + 1 PROVE g[i] = After(g, i)
    <3>1. CASE i = n + 1
      <4>1. i # 0 /\ i - 1 = n /\ n \in 0 .. n + 1 /\ n # n + 1
        BY <3>1
      <4>2. g[i] = last /\ g[i - 1] = f[n]
        BY <3>1, <4>1
      <4>. QED
        BY <3>1, <4>1, <4>2 DEF last
    <3>2. CASE i \in 0 .. n
      <4>1. g[i] = f[i]
        BY <3>2
      <4>2. f[i] = After(f, i)
        BY <2>1, <3>2
      <4>3. i # 0 => i - 1 \in 0 .. n /\ i - 1 \in 0 .. n + 1 /\ i - 1 # n + 1
        BY <3>2
      <4>4. i # 0 => g[i - 1] = f[i - 1]
        BY <4>3
      <4>. HIDE DEF g
      <4>. QED
        BY <4>1, <4>2, <4>4
    <3>. QED
      BY <3>1, <3>2
  <2>6. Filled(g, n + 1)
    BY <2>4, <2>5
  <2>. HIDE DEF Filled
  <2>. QED
    BY <2>6
<1>3. Nat \subseteq X
  <2>. HIDE DEF X
  <2>. QED
    BY <1>1, <1>2, Induction
<1>20. \E f : Filled(f, Len(s))
  <2>. HIDE DEF Filled
  <2>. QED
    BY <1>0, <1>3
<1>4. PICK f : Filled(f, Len(s))
  BY <1>20
<1>. DEFINE IsLeft(g) == g = [i \in 0 .. Len(s) |->
               IF i = 0 THEN <<>>
               ELSE IF s[i] \in P THEN g[i - 1] ELSE Append(g[i - 1], s[i])]
            left == CHOOSE g : IsLeft(g)
<1>5. IsLeft(f)
  BY <1>4
<1>6. Leaving(s, P) = left[Len(s)]
  BY Zenon DEF Leaving
<1>7. IsLeft(left)
  <2>. HIDE DEF IsLeft
  <2>. QED
    BY <1>5
<1>8. \A i \in 0 .. Len(s) :
        left[i] = IF i = 0 THEN <<>>
                  ELSE IF s[i] \in P THEN left[i - 1] ELSE Append(left[i - 1], s[i])
  BY <1>7
<1>. HIDE DEF left
<1>. DEFINE Y == {n \in Nat : n <= Len(s) => left[n] = f[n]}
<1>9. 0 \in Y
  BY <1>0, <1>4, <1>8
<1>10. ASSUME NEW n \in Nat, n \in Y PROVE n + 1 \in Y
  <2>. SUFFICES ASSUME n + 1 <= Len(s) PROVE left[n + 1] = f[n + 1]
    OBVIOUS
  <2>1. n + 1 \in 0 .. Len(s) /\ n + 1 # 0 /\ (n + 1) - 1 = n /\ left[n] = f[n]
    BY <1>0, <1>10
  <2>. QED
    BY <2>1, <1>4, <1>8
<1>11. Nat \subseteq Y
  <2>. HIDE DEF Y
  <2>. QED
    BY <1>9, <1>10, Induction
<1>12. left[Len(s)] = f[Len(s)]
  BY <1>0, <1>11
<1>13. f[0] = <<>>
  BY <1>0, <1>4
<1>14. ASSUME NEW i \in 1 .. Len(s)
       PROVE  f[i] = IF s[i] \in P THEN f[i - 1] ELSE Append(f[i - 1], s[i])
  <2>1. i \in 0 .. Len(s) /\ i # 0
    OBVIOUS
  <2>. QED
    BY <1>4, <2>1
<1>15. f \in [0 .. Len(s) -> Seq(S)]
  BY <1>4
<1>16. LeftOf(f, s, P) /\ Leaving(s, P) = f[Len(s)]
  BY <1>6, <1>12, <1>13, <1>14 DEF LeftOf
<1>. QED
  BY <1>15, <1>16

\* The others stay, in their order.
LEMMA LeavingElements ==
  ASSUME NEW S, NEW s \in Seq(S), NEW P
  PROVE  /\ Leaving(s, P) \in Seq(S)
         /\ \A x : Contains(Leaving(s, P), x) <=> Contains(s, x) /\ x \notin P
         /\ IsInjective(s) => IsInjective(Leaving(s, P))
         /\ s = <<>> => Leaving(s, P) = <<>>
<1>0. Len(s) \in Nat /\ DOMAIN s = 1 .. Len(s) /\ \A i \in 1 .. Len(s) : s[i] \in S
  BY LenProperties, ElementOfSeq
<1>9. PICK f \in [0 .. Len(s) -> Seq(S)] : LeftOf(f, s, P) /\ Leaving(s, P) = f[Len(s)]
  BY LeavingStep
<1>1. /\ f[0] = <<>>
      /\ \A i \in 1 .. Len(s) :
           f[i] = IF s[i] \in P THEN f[i - 1] ELSE Append(f[i - 1], s[i])
      /\ Leaving(s, P) = f[Len(s)]
  BY <1>9 DEF LeftOf
<1>. DEFINE Has(n) == \A x : Contains(f[n], x)
                               <=> x \notin P /\ \E j \in 1 .. n : s[j] = x
            Good(n) == Has(n) /\ (IsInjective(s) => IsInjective(f[n]))
            X == {n \in Nat : n <= Len(s) => Good(n)}
<1>2. Good(0)
  <2>1. f[0] = <<>> /\ Len(<<>>) = 0 /\ DOMAIN <<>> = {}
    BY <1>1
  <2>2. \A x : ~Contains(<<>>, x)
    BY <2>1 DEF Contains
  <2>3. IsInjective(<<>>)
    BY <2>1 DEF IsInjective
  <2>. QED
    BY <2>1, <2>2, <2>3
<1>3. ASSUME NEW n \in Nat, n + 1 <= Len(s), Good(n) PROVE Good(n + 1)
  <2>1. /\ n + 1 \in 1 .. Len(s) /\ (n + 1) - 1 = n /\ n \in 0 .. Len(s)
        /\ f[n] \in Seq(S) /\ s[n + 1] \in S
    BY <1>0, <1>3, SMTT(60)
  <2>2. f[n + 1] = IF s[n + 1] \in P THEN f[n] ELSE Append(f[n], s[n + 1])
    BY <1>1, <2>1
  <2>3. \A x : (\E j \in 1 .. n + 1 : s[j] = x)
                 <=> (\E j \in 1 .. n : s[j] = x) \/ x = s[n + 1]
    <3>1. \A j : j \in 1 .. n + 1 <=> j \in 1 .. n \/ j = n + 1
      OBVIOUS
    <3>. QED
      BY <3>1, Zenon
  <2>4. CASE s[n + 1] \in P
    BY <1>3, <2>2, <2>3, <2>4
  <2>5. CASE s[n + 1] \notin P
    <3>1. f[n + 1] = Append(f[n], s[n + 1])
      BY <2>2, <2>5
    <3>2. /\ \A x : Contains(Append(f[n], s[n + 1]), x)
                     <=> Contains(f[n], x) \/ x = s[n + 1]
          /\ IsInjective(f[n]) /\ ~Contains(f[n], s[n + 1])
               => IsInjective(Append(f[n], s[n + 1]))
      BY <2>1, AppendElements
    <3>3. Has(n + 1)
      BY <1>3, <2>3, <2>5, <3>1, <3>2
    <3>4. ASSUME IsInjective(s) PROVE ~Contains(f[n], s[n + 1])
      <4>1. ASSUME NEW j \in 1 .. n PROVE s[j] # s[n + 1]
        <5>1. j \in 1 .. Len(s) /\ j # n + 1
          BY <2>1
        <5>. QED
          BY <5>1, <2>1, <1>0, <3>4 DEF IsInjective
      <4>. QED
        BY <4>1, <1>3
    <3>. QED
      BY <1>3, <3>1, <3>2, <3>3, <3>4
  <2>. QED
    BY <2>4, <2>5
<1>4. Nat \subseteq X
  <2>. HIDE DEF Good
  <2>1. 0 \in X
    BY <1>2
  <2>2. ASSUME NEW n \in Nat, n \in X PROVE n + 1 \in X
    <3>1. n + 1 <= Len(s) => n <= Len(s)
      BY <1>0
    <3>. QED
      BY <1>3, <2>2, <3>1
  <2>. HIDE DEF X
  <2>. QED
    BY <2>1, <2>2, Induction
<1>5. Good(Len(s))
  <2>. HIDE DEF Good
  <2>. QED
    BY <1>0, <1>4
<1>6. \A x : (\E j \in 1 .. Len(s) : s[j] = x) <=> Contains(s, x)
  BY DEF Contains
<1>7. Leaving(s, P) \in Seq(S)
  BY <1>0, <1>1
<1>8. s = <<>> => Leaving(s, P) = <<>>
  BY <1>1
<1>. QED
  BY <1>1, <1>5, <1>6, <1>7, <1>8

\* A list that has none of them stays as it is.
LEMMA LeavingNone ==
  ASSUME NEW S, NEW s \in Seq(S), NEW P, \A x \in P : ~Contains(s, x)
  PROVE  Leaving(s, P) = s
<1>0. Len(s) \in Nat /\ DOMAIN s = 1 .. Len(s) /\ \A i \in 1 .. Len(s) : s[i] \in S
  BY LenProperties, ElementOfSeq
<1>1. PICK f \in [0 .. Len(s) -> Seq(S)] : LeftOf(f, s, P) /\ Leaving(s, P) = f[Len(s)]
  BY LeavingStep
<1>2. \A i \in 1 .. Len(s) : s[i] \notin P
  BY DEF Contains
<1>3. f[0] = <<>> /\ \A i \in 1 .. Len(s) : f[i] = Append(f[i - 1], s[i])
  BY <1>1, <1>2 DEF LeftOf
<1>. DEFINE Same(n) == Len(f[n]) = n /\ \A j \in 1 .. n : f[n][j] = s[j]
            X == {n \in Nat : n <= Len(s) => Same(n)}
<1>4. Same(0)
  BY <1>3
<1>5. ASSUME NEW n \in Nat, n + 1 <= Len(s), Same(n) PROVE Same(n + 1)
  <2>1. /\ n + 1 \in 1 .. Len(s) /\ (n + 1) - 1 = n /\ n \in 0 .. Len(s)
        /\ f[n] \in Seq(S) /\ s[n + 1] \in S
    BY <1>0, <1>5
  <2>2. f[n + 1] = Append(f[n], s[n + 1])
    BY <1>3, <2>1
  <2>3. /\ Len(Append(f[n], s[n + 1])) = Len(f[n]) + 1
        /\ \A i \in 1 .. Len(f[n]) : Append(f[n], s[n + 1])[i] = f[n][i]
        /\ Append(f[n], s[n + 1])[Len(f[n]) + 1] = s[n + 1]
    BY <2>1, AppendProperties
  <2>. QED
    BY <1>5, <2>2, <2>3
<1>6. Nat \subseteq X
  <2>. HIDE DEF Same
  <2>1. 0 \in X
    BY <1>4
  <2>2. ASSUME NEW n \in Nat, n \in X PROVE n + 1 \in X
    <3>1. n + 1 <= Len(s) => n <= Len(s)
      BY <1>0
    <3>. QED
      BY <1>5, <2>2, <3>1
  <2>. HIDE DEF X
  <2>. QED
    BY <2>1, <2>2, Induction
<1>7. Same(Len(s))
  <2>. HIDE DEF Same
  <2>. QED
    BY <1>0, <1>6
<1>8. f[Len(s)] \in Seq(S) /\ Len(s) \in 0 .. Len(s)
  BY <1>0
<1>9. f[Len(s)] = s
  BY <1>7, <1>8, SeqEqual
<1>. QED
  BY <1>1, <1>9

\* What do_unblock takes from a queue, and what it leaves.
LEMMA RestElements ==
  ASSUME NEW S, NEW s \in Seq(S)
  PROVE  /\ Rest(s) \in Seq(S)
         /\ First(s) \subseteq S
         /\ \A x : Contains(s, x) <=> x \in First(s) \/ Contains(Rest(s), x)
         /\ IsInjective(s) => /\ IsInjective(Rest(s))
                              /\ \A x \in First(s) : ~Contains(Rest(s), x)
         /\ s # <<>> => \E x \in S : First(s) = {x}
<1>1. CASE s = <<>>
  BY <1>1 DEF Rest, First, Contains, IsInjective
<1>2. CASE s # <<>>
  <2>0. /\ Len(s) \in Nat \ {0} /\ DOMAIN s = 1 .. Len(s)
        /\ \A i \in 1 .. Len(s) : s[i] \in S
    BY <1>2, LenProperties, ElementOfSeq, EmptySeq
  <2>1. /\ Tail(s) \in Seq(S) /\ Len(Tail(s)) = Len(s) - 1
        /\ \A i \in 1 .. Len(Tail(s)) : Tail(s)[i] = s[i + 1]
        /\ Head(s) = s[1] /\ s[1] \in S
    BY <1>2, <2>0, HeadTailProperties
  <2>. DEFINE r == Tail(s)
  <2>2. Rest(s) = r /\ First(s) = {s[1]}
    BY <1>2, <2>1 DEF Rest, First
  <2>3. DOMAIN r = 1 .. Len(s) - 1 /\ \A i \in 1 .. Len(s) - 1 : r[i] = s[i + 1]
    BY <2>1, LenProperties
  <2>4. Len(r) = Len(s) - 1
    BY <2>1
  <2>. HIDE DEF r
  <2>5. ASSUME NEW x PROVE Contains(s, x) <=> x = s[1] \/ Contains(r, x)
    <3>1. ASSUME NEW i \in 1 .. Len(s), i # 1 PROVE Contains(r, s[i])
      <4>1. i - 1 \in 1 .. Len(s) - 1 /\ r[i - 1] = s[i]
        BY <2>0, <2>3, <3>1
      <4>. QED
        BY <4>1, <2>4 DEF Contains
    <3>2. ASSUME NEW i \in 1 .. Len(s) - 1 PROVE Contains(s, r[i])
      <4>1. i + 1 \in 1 .. Len(s) /\ r[i] = s[i + 1]
        BY <2>0, <2>3
      <4>. QED
        BY <4>1 DEF Contains
    <3>3. Contains(s, s[1])
      BY <2>0 DEF Contains
    <3>. QED
      BY <3>1, <3>2, <3>3, <2>4 DEF Contains
  <2>6. ASSUME IsInjective(s)
        PROVE  IsInjective(r) /\ ~Contains(r, s[1])
    <3>1. ASSUME NEW i \in 1 .. Len(s) - 1 PROVE r[i] # s[1]
      <4>1. i + 1 \in 1 .. Len(s) /\ i + 1 # 1 /\ r[i] = s[i + 1] /\ 1 \in 1 .. Len(s)
        BY <2>0, <2>3
      <4>. QED
        BY <4>1, <2>0, <2>6 DEF IsInjective
    <3>2. ASSUME NEW i \in 1 .. Len(s) - 1, NEW j \in 1 .. Len(s) - 1, r[i] = r[j]
          PROVE  i = j
      <4>1. /\ i + 1 \in 1 .. Len(s) /\ j + 1 \in 1 .. Len(s)
            /\ s[i + 1] = s[j + 1]
        BY <2>0, <2>3, <3>2
      <4>2. i + 1 = j + 1
        BY <4>1, <2>0, <2>6 DEF IsInjective
      <4>. QED
        BY <4>2
    <3>. QED
      BY <3>1, <3>2, <2>3, <2>4 DEF IsInjective, Contains
  <2>. QED
    BY <2>1, <2>2, <2>5, <2>6 DEF r
<1>. QED
  BY <1>1, <1>2

\* The elements of a list, as a set.
LEMMA SetOfElements ==
  ASSUME NEW S, NEW s \in Seq(S)
  PROVE  /\ ToSet(s) \subseteq S
         /\ \A x : x \in ToSet(s) <=> Contains(s, x)
         /\ ToSet(s) = {} <=> s = <<>>
<1>1. Len(s) \in Nat /\ DOMAIN s = 1 .. Len(s) /\ \A i \in 1 .. Len(s) : s[i] \in S
  BY LenProperties, ElementOfSeq
<1>2. \A x : x \in ToSet(s) <=> \E i \in 1 .. Len(s) : s[i] = x
  BY <1>1, Zenon DEF ToSet
<1>3. ASSUME s # <<>> PROVE ToSet(s) # {}
  <2>1. 1 \in 1 .. Len(s)
    BY <1>1, <1>3, EmptySeq, LenProperties
  <2>. QED
    BY <1>2, <2>1
<1>4. ToSet(<<>>) = {}
  BY DEF ToSet
<1>. QED
  BY <1>1, <1>2, <1>3, <1>4 DEF Contains

\* An order of the elements of a finite set lists them all.
LEMMA OrderListsAll ==
  ASSUME NEW S, IsFiniteSet(S), NEW order \in SetToSeqs(S)
  PROVE  order \in Seq(S) /\ ToSet(order) = S
<1>. DEFINE n == Cardinality(S)
<1>1. n \in Nat
  BY FS_CardinalityType
<1>2. order \in [1 .. n -> S] /\ \A i, j \in 1 .. n : i # j => order[i] # order[j]
  BY Zenon DEF SetToSeqs
<1>. HIDE DEF n
<1>3. order \in Injection(1 .. n, S)
  BY <1>2 DEF Injection, IsInjective
<1>4. Cardinality(1 .. n) = n
  <2>1. 1 \in Int /\ n \in Int
    BY <1>1
  <2>2. Cardinality(1 .. n) = IF 1 > n THEN 0 ELSE n - 1 + 1
    BY <2>1, FS_Interval
  <2>. QED
    BY <1>1, <2>2
<1>5. order \in Surjection(1 .. n, S)
  BY <1>3, <1>4, FS_Injection DEF n
<1>6. order \in Seq(S) /\ DOMAIN order = 1 .. n
  BY <1>1, <1>2
<1>7. \A x \in S : \E i \in 1 .. n : order[i] = x
  BY <1>5 DEF Surjection
<1>. QED
  BY <1>2, <1>6, <1>7, ZenonT(60) DEF ToSet

\* A set of numbers has a least one.
LEMMA LeastElement ==
  ASSUME NEW S \in SUBSET Nat, S # {}
  PROVE  Min(S) \in S /\ \A y \in S : Min(S) <= y
<1>. DEFINE Less == {ss \in Nat \X Nat : ss[1] < ss[2]}
<1>1. IsWellFoundedOn(Less, Nat)
  BY NatLessThanWellFounded, Zenon DEF OpToRel
<1>. HIDE DEF Less
<1>2. PICK z \in S : \A y \in S : ~(<<y, z>> \in Less)
  BY <1>1, WFMin
<1>3. ASSUME NEW y \in S PROVE z <= y
  <2>1. y \in Nat /\ z \in Nat /\ ~(<<y, z>> \in Less)
    BY <1>2
  <2>2. <<y, z>> \in Nat \X Nat /\ (y < z => <<y, z>> \in Less)
    BY <2>1 DEF Less
  <2>. QED
    BY <2>1, <2>2
<1>. QED
  BY <1>3 DEF Min

\* A position in a ring of n entries that is counted on at most once around.
LEMMA RingIndex ==
  \A n \in Nat \ {0} : \A x \in Nat :
    x < n + n => (x % n) = IF x < n THEN x ELSE x - n
<1>. SUFFICES ASSUME NEW n \in Nat \ {0}, NEW x \in Nat, x < n + n
     PROVE  (x % n) = IF x < n THEN x ELSE x - n
  OBVIOUS
<1>1. CASE x < n
  BY <1>1
<1>2. CASE ~(x < n)
  <2>1. x - n \in Nat /\ x - n < n
    BY <1>2
  <2>2. (x % n) = ((x - n) % n)
    OBVIOUS
  <2>. QED
    BY <1>2, <2>1, <2>2
<1>. QED
  BY <1>1, <1>2
=============================================================================
