------------------------------ MODULE StreamProof ------------------------------
(***************************************************************************)
(* RecvStreamInv is an invariant of module RecvStream, for a file of any   *)
(* size that is cut into any segments, and however the network loses,      *)
(* repeats and reorders them.                                              *)
(***************************************************************************)
EXTENDS StreamInv, ListLemmas

(* The list of empty spaces.                                                *)

\* Byte i is in one of the spaces.
Wants(spaces, i) == \E x \in Spaces : Contains(spaces, x) /\ x.base <= i /\ i < x.base + x.size

\* Some space has all of the n bytes from b.
HasWhole(spaces, b, n) ==
  \E x \in Spaces : Contains(spaces, x) /\ x.base <= b /\ b + n <= x.base + x.size

LEMMA WholeIs ==
  ASSUME NEW spaces \in Seq(Spaces), NEW b, NEW n
  PROVE  Whole(spaces, b, n) <=> HasWhole(spaces, b, n)
BY ElementOfSeq DEF Whole, HasWhole, Contains

LEMMA MissingIs ==
  ASSUME empty_buf \in Seq(Spaces), NEW i \in Nat
  PROVE  i \in Missing <=> Wants(empty_buf, i)
<1>1. /\ DOMAIN empty_buf = 1 .. Len(empty_buf)
      /\ \A k \in 1 .. Len(empty_buf) : empty_buf[k] \in Spaces
  BY LenProperties, ElementOfSeq
<1>2. \A x \in Spaces : i \in Span(x) <=> x.base <= i /\ i < x.base + x.size
  BY DEF Span, Spaces
<1>3. i \in Missing <=> \E k \in 1 .. Len(empty_buf) : i \in Span(empty_buf[k])
  BY <1>1 DEF Missing
<1>. QED
  BY <1>1, <1>2, <1>3 DEF Wants, Contains

LEMMA SpaceElements ==
  ASSUME NEW b \in Nat, NEW e \in Nat, b <= e
  PROVE  /\ Space(b, e) \in Seq(Spaces) /\ InOrder(Space(b, e))
         /\ \A x \in Spaces : Contains(Space(b, e), x) <=> b < e /\ x.base = b /\ x.size = e - b
<1>1. CASE b = e
  <2>1. Space(b, e) = <<>>
    BY <1>1 DEF Space
  <2>. QED
    BY <1>1, <2>1 DEF InOrder, Contains
<1>2. CASE b # e
  <2>. DEFINE y == [base |-> b, size |-> e - b]
  <2>1. Space(b, e) = <<y>> /\ y \in Spaces /\ y.size > 0
    BY <1>2 DEF Space, Spaces
  <2>2. \A x \in Spaces : x = y <=> x.base = b /\ x.size = e - b
    BY DEF Spaces
  <2>. HIDE DEF y
  <2>3. <<y>> \in Seq(Spaces) /\ Len(<<y>>) = 1 /\ <<y>>[1] = y
    BY <2>1
  <2>4. InOrder(<<y>>)
    BY <2>1, <2>3 DEF InOrder
  <2>5. \A x : Contains(<<y>>, x) <=> x = y
    BY <2>3 DEF Contains
  <2>. QED
    BY <1>2, <2>1, <2>2, <2>3, <2>4, <2>5
<1>. QED
  BY <1>1, <1>2

\* One list of spaces behind another.
LEMMA InOrderConcat ==
  ASSUME NEW a \in Seq(Spaces), NEW b \in Seq(Spaces), InOrder(a), InOrder(b),
         \A x, y \in Spaces : Contains(a, x) /\ Contains(b, y) => x.base + x.size <= y.base
  PROVE  a \o b \in Seq(Spaces) /\ InOrder(a \o b)
<1>. DEFINE c == a \o b
<1>1. /\ c \in Seq(Spaces) /\ Len(c) = Len(a) + Len(b)
      /\ \A i \in 1 .. Len(a) + Len(b) :
           c[i] = IF i <= Len(a) THEN a[i] ELSE b[i - Len(a)]
      /\ Len(a) \in Nat /\ Len(b) \in Nat
  BY ConcatProperties, LenProperties
<1>2. /\ \A i \in 1 .. Len(a) : a[i] \in Spaces /\ Contains(a, a[i])
      /\ \A i \in 1 .. Len(b) : b[i] \in Spaces /\ Contains(b, b[i])
  BY ElementOfSeq DEF Contains
<1>. HIDE DEF c
<1>3. ASSUME NEW i \in 1 .. Len(c)
      PROVE  \/ i \in 1 .. Len(a) /\ c[i] = a[i]
             \/ /\ i > Len(a) /\ i - Len(a) \in 1 .. Len(b)
                /\ c[i] = b[i - Len(a)]
  <2>1. c[i] = IF i <= Len(a) THEN a[i] ELSE b[i - Len(a)]
    BY <1>1
  <2>. QED
    BY <1>1, <2>1
<1>4. ASSUME NEW i \in 1 .. Len(c) PROVE c[i].size > 0
  BY <1>3 DEF InOrder
<1>5. ASSUME NEW i \in 1 .. Len(c), NEW j \in 1 .. Len(c), i < j
      PROVE  c[i].base + c[i].size <= c[j].base
  <2>1. CASE i \in 1 .. Len(a) /\ c[i] = a[i]
    <3>1. CASE j \in 1 .. Len(a) /\ c[j] = a[j]
      BY <1>5, <2>1, <3>1 DEF InOrder
    <3>2. CASE j - Len(a) \in 1 .. Len(b) /\ c[j] = b[j - Len(a)]
      BY <1>2, <2>1, <3>2
    <3>. QED
      BY <1>3, <3>1, <3>2
  <2>2. CASE i > Len(a) /\ i - Len(a) \in 1 .. Len(b) /\ c[i] = b[i - Len(a)]
    <3>1. j - Len(a) \in 1 .. Len(b) /\ c[j] = b[j - Len(a)] /\ i - Len(a) < j - Len(a)
      BY <1>1, <1>3, <1>5, <2>2
    <3>. QED
      BY <2>2, <3>1 DEF InOrder
  <2>. QED
    BY <1>3, <2>1, <2>2
<1>. QED
  BY <1>1, <1>4, <1>5 DEF InOrder, c

\* A part of a list.
LEMMA PartElements ==
  ASSUME NEW s \in Seq(Spaces), InOrder(s), NEW m \in 1 .. Len(s) + 1, NEW n \in 0 .. Len(s)
  PROVE  /\ SubSeq(s, m, n) \in Seq(Spaces) /\ InOrder(SubSeq(s, m, n))
         /\ \A x : Contains(SubSeq(s, m, n), x) <=> \E i \in m .. n : x = s[i]
<1>. DEFINE r == SubSeq(s, m, n)
<1>0. Len(s) \in Nat /\ \A i \in 1 .. Len(s) : s[i] \in Spaces
  BY LenProperties, ElementOfSeq
<1>1. m \in Int /\ n \in Int /\ \A i \in m .. n : i \in 1 .. Len(s) /\ s[i] \in Spaces
  BY <1>0
<1>2. /\ r \in Seq(Spaces) /\ Len(r) = IF m <= n THEN n - m + 1 ELSE 0
      /\ \A i \in 1 .. n - m + 1 : r[i] = s[m + i - 1]
  BY <1>1, SubSeqProperties
<1>. HIDE DEF r
<1>3. ASSUME NEW i \in 1 .. Len(r)
      PROVE  m + i - 1 \in m .. n /\ m + i - 1 \in 1 .. Len(s) /\ r[i] = s[m + i - 1]
  BY <1>0, <1>1, <1>2
<1>4. ASSUME NEW j \in m .. n
      PROVE  j - m + 1 \in 1 .. Len(r) /\ r[j - m + 1] = s[j]
  <2>1. j - m + 1 \in 1 .. n - m + 1 /\ m + (j - m + 1) - 1 = j /\ m <= n
    BY <1>1
  <2>. QED
    BY <1>2, <2>1
<1>5. ASSUME NEW i \in 1 .. Len(r), NEW j \in 1 .. Len(r), i < j
      PROVE  r[i].size > 0 /\ r[i].base + r[i].size <= r[j].base
  <2>1. m + i - 1 < m + j - 1
    BY <1>0, <1>2, <1>5
  <2>. QED
    BY <1>3, <2>1 DEF InOrder
<1>6. InOrder(r)
  <2>1. ASSUME NEW i \in 1 .. Len(r) PROVE r[i].size > 0
    BY <1>3 DEF InOrder
  <2>. QED
    BY <1>5, <2>1 DEF InOrder
<1>7. \A x : Contains(r, x) <=> \E i \in m .. n : x = s[i]
  BY <1>3, <1>4 DEF Contains
<1>. QED
  BY <1>2, <1>6, <1>7 DEF r

\* Where the walk along the list stops.
LEMMA SpaceAtIs ==
  ASSUME NEW s \in Seq(Spaces), NEW offset \in Nat
  PROVE  LET k == SpaceAt(s, offset)
         IN /\ k \in 0 .. Len(s)
            /\ \A i \in 1 .. k : s[i].base <= offset
            /\ k < Len(s) => s[k + 1].base > offset
<1>. DEFINE Stop(k) == /\ \A i \in 1 .. k : s[i].base <= offset
                       /\ k < Len(s) => s[k + 1].base > offset
            Ends == {k \in 0 .. Len(s) : k < Len(s) => s[k + 1].base > offset}
<1>1. Len(s) \in Nat /\ \A i \in 1 .. Len(s) : s[i] \in Spaces
  BY LenProperties, ElementOfSeq
<1>2. Ends \in SUBSET Nat /\ Len(s) \in Ends
  BY <1>1
<1>3. PICK k \in Ends : \A j \in Ends : k <= j
  BY <1>2, LeastElement
<1>4. ASSUME NEW i \in 1 .. k PROVE s[i].base <= offset
  <2>1. /\ i - 1 \in 0 .. Len(s) /\ i - 1 < Len(s) /\ (i - 1) + 1 = i
        /\ i \in 1 .. Len(s) /\ ~(k <= i - 1)
    BY <1>1, <1>3
  <2>2. ~(s[i].base > offset)
    BY <1>3, <2>1
  <2>3. s[i].base \in Nat
    BY <1>1, <2>1 DEF Spaces
  <2>. QED
    BY <2>2, <2>3
<1>5. k \in 0 .. Len(s) /\ Stop(k)
  BY <1>3, <1>4
<1>. QED
  BY <1>5 DEF SpaceAt

\* The last space that begins at offset or before is the one that has the byte at offset,
\* if one has it.
LEMMA SpaceAtHolds ==
  ASSUME NEW s \in Seq(Spaces), InOrder(s), NEW offset \in Nat, NEW j \in 1 .. Len(s),
         s[j].base <= offset, offset < s[j].base + s[j].size
  PROVE  SpaceAt(s, offset) = j
<1>. DEFINE k == SpaceAt(s, offset)
<1>1. /\ k \in 0 .. Len(s) /\ \A i \in 1 .. k : s[i].base <= offset
      /\ k < Len(s) => s[k + 1].base > offset
  BY SpaceAtIs
<1>. HIDE DEF k
<1>2. Len(s) \in Nat /\ \A i \in 1 .. Len(s) : s[i].base \in Nat /\ s[i].size \in Nat
  <2>1. Len(s) \in Nat /\ \A i \in 1 .. Len(s) : s[i] \in Spaces
    BY LenProperties, ElementOfSeq
  <2>2. \A x \in Spaces : x.base \in Nat /\ x.size \in Nat
    BY DEF Spaces
  <2>. QED
    BY <2>1, <2>2
<1>3. CASE k < j
  <2>1. k + 1 \in 1 .. Len(s) /\ s[k + 1].base > offset
    BY <1>1, <1>2, <1>3
  <2>2. CASE k + 1 = j
    BY <1>2, <2>1, <2>2
  <2>3. CASE k + 1 < j
    <3>1. s[k + 1].base + s[k + 1].size <= s[j].base
      BY <2>1, <2>3 DEF InOrder
    <3>. QED
      BY <1>2, <2>1, <3>1
  <2>. QED
    BY <1>1, <1>3, <2>2, <2>3
<1>4. CASE j < k
  <2>1. k \in 1 .. Len(s) /\ k \in 1 .. k /\ s[k].base <= offset
    BY <1>1, <1>2, <1>4
  <2>2. s[j].base + s[j].size <= s[k].base
    BY <1>4, <2>1 DEF InOrder
  <2>. QED
    BY <1>2, <2>1, <2>2
<1>. QED
  BY <1>1, <1>2, <1>3, <1>4 DEF k

\* What occupy_space does to a list.
LEMMA OccupySpace ==
  ASSUME NEW s \in Seq(Spaces), InOrder(s), NEW offset \in Nat, NEW size \in Nat \ {0}
  PROVE  LET out == occupy_space(s, offset, size)
         IN /\ out \in Seq(Spaces) /\ InOrder(out)
            /\ HasWhole(s, offset, size) =>
                 \A i \in Nat : Wants(out, i) <=> Wants(s, i) /\ ~(offset <= i /\ i < offset + size)
            /\ ~HasWhole(s, offset, size) => out = s
            /\ \A b, n \in Nat : /\ HasWhole(s, b, n) /\ n > 0
                                 /\ b + n <= offset \/ offset + size <= b
                                 => HasWhole(out, b, n)
<1>. DEFINE k   == SpaceAt(s, offset)
            out == occupy_space(s, offset, size)
            end == s[k].base + s[k].size
            A == SubSeq(s, 1, k - 1)
            L == Space(s[k].base, offset)
            R == Space(offset + size, end)
            B == SubSeq(s, k + 1, Len(s))
<1>0. /\ k \in 0 .. Len(s) /\ \A i \in 1 .. k : s[i].base <= offset
      /\ k < Len(s) => s[k + 1].base > offset
  BY SpaceAtIs
<1>1. /\ Len(s) \in Nat /\ \A i \in 1 .. Len(s) : s[i] \in Spaces
  BY LenProperties, ElementOfSeq
<1>2. \A x \in Spaces : x.base \in Nat /\ x.size \in Nat
  BY DEF Spaces
<1>3. out = IF k = 0 \/ end < offset + size THEN s ELSE A \o (L \o R) \o B
  BY DEF occupy_space
<1>. HIDE DEF out, k
<1>4. CASE k = 0 \/ end < offset + size
  <2>1. ~HasWhole(s, offset, size)
    <3>. SUFFICES ASSUME NEW j \in 1 .. Len(s), s[j].base <= offset,
                         offset + size <= s[j].base + s[j].size
         PROVE  FALSE
      BY DEF HasWhole, Contains
    <3>1. k = j
      <4>1. offset < s[j].base + s[j].size
        BY <1>1, <1>2
      <4>. QED
        BY <4>1, SpaceAtHolds DEF k
    <3>2. s[j].base \in Nat /\ s[j].size \in Nat
      BY <1>1, <1>2
    <3>. QED
      BY <1>4, <3>1, <3>2
  <2>. QED
    BY <1>3, <1>4, <2>1 DEF out
<1>5. CASE k # 0 /\ ~(end < offset + size)
  <2>1. /\ k \in 1 .. Len(s) /\ s[k] \in Spaces /\ s[k].base \in Nat /\ s[k].size \in Nat
        /\ s[k].base <= offset /\ offset + size <= end /\ end \in Nat /\ s[k].base <= end
    BY <1>0, <1>1, <1>2, <1>5
  <2>2. HasWhole(s, offset, size)
    BY <2>1 DEF HasWhole, Contains
  <2>3. /\ A \in Seq(Spaces) /\ InOrder(A)
        /\ \A x : Contains(A, x) <=> \E i \in 1 .. k - 1 : x = s[i]
    <3>1. 1 \in 1 .. Len(s) + 1 /\ k - 1 \in 0 .. Len(s)
      BY <1>1, <2>1
    <3>. QED
      BY <3>1, PartElements
  <2>4. /\ B \in Seq(Spaces) /\ InOrder(B)
        /\ \A x : Contains(B, x) <=> \E i \in k + 1 .. Len(s) : x = s[i]
    <3>1. k + 1 \in 1 .. Len(s) + 1 /\ Len(s) \in 0 .. Len(s)
      BY <1>1, <2>1
    <3>. QED
      BY <3>1, PartElements
  <2>5. /\ L \in Seq(Spaces) /\ InOrder(L)
        /\ \A x \in Spaces : Contains(L, x)
             <=> s[k].base < offset /\ x.base = s[k].base /\ x.size = offset - s[k].base
    BY <2>1, SpaceElements
  <2>6. /\ R \in Seq(Spaces) /\ InOrder(R)
        /\ \A x \in Spaces : Contains(R, x)
             <=> /\ offset + size < end /\ x.base = offset + size
                 /\ x.size = end - (offset + size)
    <3>1. offset + size \in Nat /\ end \in Nat /\ offset + size <= end
      BY <2>1
    <3>. HIDE DEF end
    <3>. QED
      BY <3>1, SpaceElements
  <2>. DEFINE M == L \o R
  <2>. HIDE DEF A, B, L, R
  <2>7. /\ M \in Seq(Spaces) /\ InOrder(M)
        /\ \A x : Contains(M, x) <=> Contains(L, x) \/ Contains(R, x)
    <3>1. \A x, y \in Spaces : Contains(L, x) /\ Contains(R, y) => x.base + x.size <= y.base
      BY <1>2, <2>1, <2>5, <2>6
    <3>. QED
      BY <2>5, <2>6, <3>1, InOrderConcat, ConcatElements
  <2>8. \A x \in Spaces : Contains(M, x) =>
          /\ s[k].base <= x.base /\ x.base + x.size <= end
          /\ x.base + x.size <= offset \/ offset + size <= x.base
    BY <1>2, <2>1, <2>5, <2>6, <2>7, SMTT(60)
  <2>. HIDE DEF M
  <2>9. /\ \A i \in 1 .. k - 1 : i \in 1 .. Len(s) /\ s[i].base + s[i].size <= s[k].base
        /\ \A i \in k + 1 .. Len(s) : i \in 1 .. Len(s) /\ end <= s[i].base
    <3>1. ASSUME NEW i \in 1 .. k - 1
          PROVE  i \in 1 .. Len(s) /\ s[i].base + s[i].size <= s[k].base
      <4>1. i \in 1 .. Len(s) /\ i < k
        BY <1>1, <2>1
      <4>. QED
        BY <2>1, <4>1 DEF InOrder
    <3>2. ASSUME NEW i \in k + 1 .. Len(s) PROVE i \in 1 .. Len(s) /\ end <= s[i].base
      <4>1. i \in 1 .. Len(s) /\ k < i
        BY <1>1, <2>1
      <4>. QED
        BY <2>1, <4>1 DEF InOrder
    <3>. QED
      BY <3>1, <3>2
  <2>10. /\ A \o M \in Seq(Spaces) /\ InOrder(A \o M)
         /\ \A x : Contains(A \o M, x) <=> Contains(A, x) \/ Contains(M, x)
    <3>1. \A x, y \in Spaces : Contains(A, x) /\ Contains(M, y) => x.base + x.size <= y.base
      <4>. SUFFICES ASSUME NEW y \in Spaces, Contains(M, y), NEW i \in 1 .. k - 1
           PROVE  s[i].base + s[i].size <= y.base
        BY <2>3
      <4>1. s[i].base \in Nat /\ s[i].size \in Nat /\ y.base \in Nat
        BY <1>1, <1>2, <2>9
      <4>. QED
        BY <2>1, <2>8, <2>9, <4>1, SMTT(60)
    <3>. QED
      BY <2>3, <2>7, <3>1, InOrderConcat, ConcatElements
  <2>11. /\ (A \o M) \o B \in Seq(Spaces) /\ InOrder((A \o M) \o B)
         /\ \A x : Contains((A \o M) \o B, x) <=> Contains(A \o M, x) \/ Contains(B, x)
    <3>1. \A x, y \in Spaces : Contains(A \o M, x) /\ Contains(B, y) => x.base + x.size <= y.base
      <4>. SUFFICES ASSUME NEW x \in Spaces, Contains(A \o M, x), NEW i \in k + 1 .. Len(s)
           PROVE  x.base + x.size <= s[i].base
        BY <2>4
      <4>1. s[i].base \in Nat /\ end <= s[i].base /\ x.base \in Nat /\ x.size \in Nat
        BY <1>1, <1>2, <2>9
      <4>2. CASE Contains(A, x)
        <5>1. PICK j \in 1 .. k - 1 : x = s[j]
          BY <2>3, <4>2
        <5>2. x.base + x.size <= s[k].base
          BY <2>9, <5>1
        <5>. HIDE DEF end
        <5>3. /\ x.base + x.size \in Nat /\ s[k].base \in Nat /\ end \in Nat /\ s[i].base \in Nat
              /\ s[k].base <= end /\ end <= s[i].base
          BY <2>1, <4>1
        <5>. DEFINE z == x.base + x.size
        <5>. HIDE DEF z
        <5>4. z <= s[k].base /\ z \in Nat
          BY <5>2, <5>3 DEF z
        <5>5. z <= s[i].base
          BY <5>3, <5>4
        <5>. QED
          BY <5>5 DEF z
      <4>3. CASE Contains(M, x)
        BY <2>1, <2>8, <4>1, <4>3
      <4>. QED
        BY <2>10, <4>2, <4>3
    <3>. QED
      BY <2>4, <2>10, <3>1, InOrderConcat, ConcatElements
  <2>12. out = (A \o M) \o B
    BY <1>3, <1>5 DEF M
  <2>13. \A x : Contains(out, x)
           <=> Contains(M, x) \/ \E i \in 1 .. Len(s) : i # k /\ x = s[i]
    <3>1. \A i : i \in 1 .. Len(s) /\ i # k <=> i \in 1 .. k - 1 \/ i \in k + 1 .. Len(s)
      BY <1>1, <2>1
    <3>. QED
      BY <2>3, <2>4, <2>10, <2>11, <2>12, <3>1, Zenon
  <2>14. ASSUME NEW i \in Nat
         PROVE  (\E x \in Spaces : Contains(M, x) /\ x.base <= i /\ i < x.base + x.size)
                  <=> s[k].base <= i /\ i < end /\ ~(offset <= i /\ i < offset + size)
    <3>1. ASSUME s[k].base <= i, i < offset
          PROVE  \E x \in Spaces : Contains(M, x) /\ x.base <= i /\ i < x.base + x.size
      <4>. DEFINE x == [base |-> s[k].base, size |-> offset - s[k].base]
      <4>1. x \in Spaces /\ x.base = s[k].base /\ x.size = offset - s[k].base
        BY <2>1 DEF Spaces
      <4>. HIDE DEF x
      <4>2. Contains(M, x) /\ x.base <= i /\ i < x.base + x.size
        BY <2>1, <2>5, <2>7, <3>1, <4>1
      <4>. QED
        BY <4>1, <4>2
    <3>2. ASSUME offset + size <= i, i < end
          PROVE  \E x \in Spaces : Contains(M, x) /\ x.base <= i /\ i < x.base + x.size
      <4>. DEFINE x == [base |-> offset + size, size |-> end - (offset + size)]
      <4>1. x \in Spaces /\ x.base = offset + size /\ x.size = end - (offset + size)
        <5>. HIDE DEF end
        <5>. QED
          BY <2>1 DEF Spaces
      <4>. HIDE DEF x, end
      <4>2. Contains(M, x) /\ x.base <= i /\ i < x.base + x.size
        BY <2>1, <2>6, <2>7, <3>2, <4>1
      <4>. QED
        BY <4>1, <4>2
    <3>3. ASSUME NEW x \in Spaces, Contains(M, x), x.base <= i, i < x.base + x.size
          PROVE  s[k].base <= i /\ i < end /\ ~(offset <= i /\ i < offset + size)
      <4>. HIDE DEF end
      <4>1. /\ s[k].base <= x.base /\ x.base + x.size <= end
            /\ x.base + x.size <= offset \/ offset + size <= x.base
            /\ x.base \in Nat /\ x.size \in Nat
        BY <1>2, <2>8, <3>3
      <4>. QED
        BY <2>1, <3>3, <4>1
    <3>. HIDE DEF end
    <3>. QED
      BY <2>1, <3>1, <3>2, <3>3
  <2>15. ASSUME NEW i \in Nat
         PROVE  Wants(out, i) <=> Wants(s, i) /\ ~(offset <= i /\ i < offset + size)
    <3>1. \A j \in 1 .. Len(s) : j # k /\ s[j].base <= i /\ i < s[j].base + s[j].size
            => ~(offset <= i /\ i < offset + size)
      <4>. SUFFICES ASSUME NEW j \in 1 .. Len(s), j # k, s[j].base <= i,
                           i < s[j].base + s[j].size
           PROVE  ~(offset <= i /\ i < offset + size)
        OBVIOUS
      <4>1. j \in 1 .. k - 1 \/ j \in k + 1 .. Len(s)
        BY <1>1, <2>1
      <4>2. s[j].base \in Nat /\ s[j].size \in Nat
        BY <1>1, <1>2
      <4>3. CASE j \in 1 .. k - 1
        <5>1. s[j].base + s[j].size <= s[k].base
          BY <2>9, <4>3
        <5>. QED
          BY <2>1, <4>2, <5>1
      <4>4. CASE j \in k + 1 .. Len(s)
        <5>1. end <= s[j].base
          BY <2>9, <4>4
        <5>. HIDE DEF end
        <5>. QED
          BY <2>1, <4>2, <5>1
      <4>. QED
        BY <4>1, <4>3, <4>4
    <3>2. Wants(s, i) <=> \E j \in 1 .. Len(s) : s[j].base <= i /\ i < s[j].base + s[j].size
      BY <1>1 DEF Wants, Contains
    <3>3. Wants(out, i)
            <=> \/ \E x \in Spaces : Contains(M, x) /\ x.base <= i /\ i < x.base + x.size
                \/ \E j \in 1 .. Len(s) : j # k /\ s[j].base <= i /\ i < s[j].base + s[j].size
      BY <1>1, <2>13 DEF Wants
    <3>. QED
      BY <2>1, <2>14, <3>1, <3>2, <3>3
  <2>16. ASSUME NEW b \in Nat, NEW n \in Nat, HasWhole(s, b, n), n > 0,
                b + n <= offset \/ offset + size <= b
         PROVE  HasWhole(out, b, n)
    <3>1. PICK j \in 1 .. Len(s) : s[j].base <= b /\ b + n <= s[j].base + s[j].size
      BY <2>16 DEF HasWhole, Contains
    <3>2. CASE j # k
      BY <1>1, <2>13, <3>1, <3>2 DEF HasWhole
    <3>3. CASE j = k /\ b + n <= offset
      <4>. DEFINE x == [base |-> s[k].base, size |-> offset - s[k].base]
      <4>1. x \in Spaces /\ x.base = s[k].base /\ x.size = offset - s[k].base
        BY <2>1 DEF Spaces
      <4>. HIDE DEF x
      <4>2. Contains(out, x) /\ x.base <= b /\ b + n <= x.base + x.size
        BY <2>1, <2>5, <2>7, <2>13, <2>16, <3>1, <3>3, <4>1
      <4>. QED
        BY <4>1, <4>2 DEF HasWhole
    <3>4. CASE j = k /\ offset + size <= b
      <4>. DEFINE x == [base |-> offset + size, size |-> end - (offset + size)]
      <4>0. b + n <= end
        BY <3>1, <3>4
      <4>. HIDE DEF end
      <4>1. x \in Spaces /\ x.base = offset + size /\ x.size = end - (offset + size)
        BY <2>1 DEF Spaces
      <4>. HIDE DEF x
      <4>2. Contains(out, x) /\ x.base <= b /\ b + n <= x.base + x.size
        BY <2>1, <2>6, <2>7, <2>13, <2>16, <3>4, <4>0, <4>1
      <4>. QED
        BY <4>1, <4>2 DEF HasWhole
    <3>. QED
      BY <2>16, <3>2, <3>3, <3>4
  <2>. QED
    BY <2>2, <2>11, <2>12, <2>15, <2>16 DEF out
<1>. QED
  BY <1>4, <1>5

-----------------------------------------------------------------------------
(* What a call still wants.                                                 *)

InSegment(s, i) == s.seq <= i /\ i < s.seq + s.len

\* The list sp of a call that knows the size ds, or not: SpacesFit says it of empty_buf.
ListOK(sp, ds) ==
  /\ sp \in Seq(Spaces) /\ InOrder(sp)
  /\ \A i \in Nat : Wants(sp, i) => i < max_bytes /\ (ds # -1 => i < Size)
  /\ Size <= max_bytes =>
       /\ \A s \in Segments : \/ HasWhole(sp, s.seq, s.len)
                              \/ \A i \in Nat : InSegment(s, i) => ~Wants(sp, i)
       /\ ds = -1 /\ Size < max_bytes => HasWhole(sp, Size, max_bytes - Size)

\* Bytes of the buffer buf are there when sp does not want them.
CopiedAs(sp, buf) ==
  \A i \in Bytes : i < max_bytes => /\ ~Wants(sp, i) => buf[i] # None
                                    /\ Wants(sp, i) /\ Size <= max_bytes => buf[i] = None

LEMMA Constants ==
  /\ Size \in Nat \ {0} /\ None \notin Int /\ None # -1 /\ None # 0 /\ Size # -1
  /\ BufferSizes \subseteq Nat \ {0} /\ None \notin Segments
  /\ \A s \in Segments : /\ s.seq \in Nat /\ s.len \in Nat \ {0} /\ s.seq + s.len <= Size
                         /\ \A i : i \in s.seq .. s.seq + s.len - 1 <=> i \in Nat /\ InSegment(s, i)
  /\ \A s, r \in Segments : s = r \/ s.seq + s.len <= r.seq \/ r.seq + r.len <= s.seq
<1>1. \A s \in Segments : s.seq \in Nat /\ s.len \in Nat \ {0} /\ s.seq + s.len <= Size
  BY SegmentsAssumption
<1>2. ASSUME NEW s \in Segments, NEW i
      PROVE  i \in s.seq .. s.seq + s.len - 1 <=> i \in Nat /\ InSegment(s, i)
  <2>1. s.seq \in Nat /\ s.len \in Nat
    BY <1>1
  <2>. QED
    BY <2>1 DEF InSegment
<1>3. /\ Size \in Nat \ {0} /\ None \notin Int /\ None \notin Segments
      /\ BufferSizes \subseteq Nat \ {0}
      /\ \A s, r \in Segments : s = r \/ s.seq + s.len <= r.seq \/ r.seq + r.len <= s.seq
  BY SegmentsAssumption
<1>4. -1 \in Int /\ 0 \in Int
  OBVIOUS
<1>5. None # -1 /\ None # 0 /\ Size # -1
  BY <1>3, <1>4
<1>. QED
  BY <1>1, <1>2, <1>3, <1>5

LEMMA MissingLimit ==
  StreamTypeOK =>
    (Missing \subseteq 0 .. Limit - 1 <=> \A i \in Nat : Wants(empty_buf, i) => i < Limit)
<1>. SUFFICES ASSUME StreamTypeOK
     PROVE  Missing \subseteq 0 .. Limit - 1 <=> \A i \in Nat : Wants(empty_buf, i) => i < Limit
  OBVIOUS
<1>1. /\ empty_buf \in Seq(Spaces) /\ DOMAIN empty_buf = 1 .. Len(empty_buf)
      /\ \A k \in 1 .. Len(empty_buf) : empty_buf[k] \in Spaces
  BY LenProperties, ElementOfSeq DEF StreamTypeOK
<1>2. Limit \in Nat
  BY Constants DEF StreamTypeOK, Limit
<1>3. \A x \in Spaces : Span(x) \subseteq Nat
  BY DEF Span, Spaces
<1>4. Missing \subseteq Nat
  BY <1>1, <1>3 DEF Missing
<1>5. \A i \in Nat : i \in Missing <=> Wants(empty_buf, i)
  BY <1>1, MissingIs
<1>. HIDE DEF Missing, Limit
<1>6. \A i \in Nat : i \in 0 .. Limit - 1 <=> i < Limit
  BY <1>2
<1>. QED
  BY <1>4, <1>5, <1>6

LEMMA ListMeans ==
  StreamTypeOK /\ pc # "user" /\ result # -1 /\ (data_size # -1 => Size <= max_bytes) =>
    /\ SpacesFit <=> ListOK(empty_buf, data_size)
    /\ Copied <=> CopiedAs(empty_buf, buffer)
<1>. SUFFICES ASSUME StreamTypeOK, pc # "user", result # -1,
                     data_size # -1 => Size <= max_bytes
     PROVE  /\ SpacesFit <=> ListOK(empty_buf, data_size)
            /\ Copied <=> CopiedAs(empty_buf, buffer)
  OBVIOUS
<1>1. /\ empty_buf \in Seq(Spaces) /\ max_bytes \in Nat /\ Size \in Nat
      /\ data_size \in {-1, Size}
  BY Constants DEF StreamTypeOK
<1>2. \A i \in Nat : i \in Missing <=> Wants(empty_buf, i)
  BY <1>1, MissingIs
<1>3. \A b, n : Whole(empty_buf, b, n) <=> HasWhole(empty_buf, b, n)
  BY <1>1, WholeIs
<1>4. Limit = IF data_size # -1 THEN Size ELSE max_bytes
  BY DEF Limit
<1>5. Missing \subseteq 0 .. Limit - 1
        <=> \A i \in Nat : Wants(empty_buf, i) => i < max_bytes /\ (data_size # -1 => i < Size)
  <2>1. \A i \in Nat : i < Limit <=> i < max_bytes /\ (data_size # -1 => i < Size)
    BY <1>1, <1>4
  <2>. QED
    BY <2>1, MissingLimit
<1>6. ASSUME NEW s \in Segments
      PROVE  (\A i \in s.seq .. s.seq + s.len - 1 : i \notin Missing)
               <=> \A i \in Nat : InSegment(s, i) => ~Wants(empty_buf, i)
  BY <1>2, Constants
<1>. HIDE DEF Missing
<1>7. SpacesFit <=> ListOK(empty_buf, data_size)
  BY <1>1, <1>3, <1>5, <1>6, Zenon DEF SpacesFit, ListOK
<1>8. Copied <=> CopiedAs(empty_buf, buffer)
  <2>1. \A i \in Bytes : i \in Nat
    BY DEF Bytes
  <2>. QED
    BY <1>2, <2>1, Zenon DEF Copied, CopiedAs
<1>. QED
  BY <1>7, <1>8

LEMMA ListMeansNext ==
  StreamTypeOK' /\ pc' # "user" /\ result' # -1 /\ (data_size' # -1 => Size <= max_bytes')
    /\ max_bytes' = max_bytes =>
    /\ SpacesFit' <=> ListOK(empty_buf', data_size')
    /\ Copied' <=> CopiedAs(empty_buf', buffer')
<1>1. (StreamTypeOK /\ pc # "user" /\ result # -1 /\ (data_size # -1 => Size <= max_bytes) =>
        /\ SpacesFit <=> ListOK(empty_buf, data_size)
        /\ Copied <=> CopiedAs(empty_buf, buffer))'
  BY ListMeans, PTL
<1>2. ASSUME max_bytes' = max_bytes
      PROVE  /\ ListOK(empty_buf, data_size)' <=> ListOK(empty_buf', data_size')
             /\ CopiedAs(empty_buf, buffer)' <=> CopiedAs(empty_buf', buffer')
  BY <1>2 DEF ListOK, CopiedAs
<1>. QED
  BY <1>1, <1>2

\* A segment is taken off the list.
LEMMA SegmentTaken ==
  ASSUME NEW sp, NEW ds \in {-1, Size}, ListOK(sp, ds), max_bytes \in Nat, NEW s \in Segments
  PROVE  LET out == occupy_space(sp, s.seq, s.len)
         IN /\ ListOK(out, ds)
            /\ \A i \in Nat : /\ ~Wants(out, i) => ~Wants(sp, i) \/ InSegment(s, i)
                              /\ Wants(out, i) => Wants(sp, i)
                              /\ Wants(out, i) /\ Size <= max_bytes => ~InSegment(s, i)
<1>. DEFINE out == occupy_space(sp, s.seq, s.len)
<1>1. /\ s.seq \in Nat /\ s.len \in Nat \ {0} /\ s.seq + s.len <= Size /\ Size \in Nat
      /\ sp \in Seq(Spaces) /\ InOrder(sp)
      /\ \A i \in Nat : Wants(sp, i) => i < max_bytes /\ (ds # -1 => i < Size)
  BY Constants DEF ListOK
<1>2. /\ out \in Seq(Spaces) /\ InOrder(out)
      /\ HasWhole(sp, s.seq, s.len) =>
           \A i \in Nat : Wants(out, i) <=> Wants(sp, i) /\ ~(s.seq <= i /\ i < s.seq + s.len)
      /\ ~HasWhole(sp, s.seq, s.len) => out = sp
      /\ \A b, n \in Nat : /\ HasWhole(sp, b, n) /\ n > 0
                           /\ b + n <= s.seq \/ s.seq + s.len <= b
                           => HasWhole(out, b, n)
  BY <1>1, OccupySpace
<1>. HIDE DEF out
<1>3. \A i \in Nat : /\ Wants(out, i) => Wants(sp, i)
                     /\ ~Wants(out, i) => ~Wants(sp, i) \/ InSegment(s, i)
  BY <1>2 DEF InSegment
<1>4. ASSUME Size <= max_bytes, NEW i \in Nat, InSegment(s, i) PROVE ~Wants(out, i)
  <2>1. CASE HasWhole(sp, s.seq, s.len)
    BY <1>2, <1>4, <2>1 DEF InSegment
  <2>2. CASE ~HasWhole(sp, s.seq, s.len)
    BY <1>2, <1>4, <2>2 DEF ListOK
  <2>. QED
    BY <2>1, <2>2
<1>5. ASSUME Size <= max_bytes, NEW r \in Segments
      PROVE  \/ HasWhole(out, r.seq, r.len)
             \/ \A i \in Nat : InSegment(r, i) => ~Wants(out, i)
  <2>1. CASE r = s
    BY <1>4, <1>5, <2>1
  <2>2. CASE r # s
    <3>1. r.seq \in Nat /\ r.len \in Nat /\ r.len > 0
      BY Constants
    <3>2. r.seq + r.len <= s.seq \/ s.seq + s.len <= r.seq
      BY <2>2, Constants
    <3>3. HasWhole(sp, r.seq, r.len) => HasWhole(out, r.seq, r.len)
      BY <1>2, <3>1, <3>2
    <3>4. \/ HasWhole(sp, r.seq, r.len)
          \/ \A i \in Nat : InSegment(r, i) => ~Wants(sp, i)
      BY <1>5 DEF ListOK
    <3>. QED
      BY <1>3, <3>3, <3>4
  <2>. QED
    BY <2>1, <2>2
<1>6. ASSUME ds = -1, Size < max_bytes PROVE HasWhole(out, Size, max_bytes - Size)
  <2>1. HasWhole(sp, Size, max_bytes - Size)
    BY <1>1, <1>6 DEF ListOK
  <2>2. max_bytes - Size \in Nat /\ max_bytes - Size > 0
    BY <1>1, <1>6
  <2>. QED
    BY <1>1, <1>2, <2>1, <2>2
<1>7. \A i \in Nat : Wants(out, i) => i < max_bytes /\ (ds # -1 => i < Size)
  BY <1>1, <1>3
<1>8. ListOK(out, ds)
  BY <1>2, <1>5, <1>6, <1>7, Zenon DEF ListOK
<1>. QED
  BY <1>3, <1>4, <1>8, Zenon DEF out

\* When the size is known, the bytes behind the file are.
LEMMA TailTaken ==
  ASSUME NEW sp, ListOK(sp, -1), max_bytes \in Nat, Size <= max_bytes
  PROVE  LET out == occupy_space(sp, Size, max_bytes - Size)
         IN ListOK(out, Size) /\ \A i \in Nat : i < Size => (Wants(out, i) <=> Wants(sp, i))
<1>. DEFINE out == occupy_space(sp, Size, max_bytes - Size)
<1>1. /\ Size \in Nat /\ Size # -1 /\ sp \in Seq(Spaces) /\ InOrder(sp)
      /\ \A i \in Nat : Wants(sp, i) => i < max_bytes
      /\ \A s \in Segments : \/ HasWhole(sp, s.seq, s.len)
                             \/ \A i \in Nat : InSegment(s, i) => ~Wants(sp, i)
      /\ Size < max_bytes => HasWhole(sp, Size, max_bytes - Size)
  BY Constants DEF ListOK
<1>2. CASE Size = max_bytes
  <2>1. out = sp
    BY <1>1, <1>2 DEF occupy_space
  <2>. QED
    BY <1>1, <1>2, <2>1 DEF ListOK
<1>3. CASE Size < max_bytes
  <2>0. max_bytes - Size \in Nat \ {0} /\ Size + (max_bytes - Size) = max_bytes
    BY <1>1, <1>3
  <2>. DEFINE size == max_bytes - Size
  <2>1. /\ out \in Seq(Spaces) /\ InOrder(out)
        /\ HasWhole(sp, Size, size) =>
             \A i \in Nat : Wants(out, i) <=> Wants(sp, i) /\ ~(Size <= i /\ i < Size + size)
        /\ \A b, n \in Nat : /\ HasWhole(sp, b, n) /\ n > 0
                             /\ b + n <= Size \/ Size + size <= b
                             => HasWhole(out, b, n)
    <3>. HIDE DEF size
    <3>1. size \in Nat \ {0} /\ out = occupy_space(sp, Size, size)
      BY <2>0 DEF size
    <3>. HIDE DEF out
    <3>. QED
      BY <1>1, <3>1, OccupySpace
  <2>. HIDE DEF out, size
  <2>2. \A i \in Nat : Wants(out, i) <=> Wants(sp, i) /\ ~(Size <= i /\ i < Size + size)
    BY <1>1, <1>3, <2>1 DEF size
  <2>3. \A i \in Nat : Wants(out, i) => i < Size /\ i < max_bytes /\ Wants(sp, i)
    BY <1>1, <1>3, <2>0, <2>2 DEF size
  <2>4. \A i \in Nat : i < Size => (Wants(out, i) <=> Wants(sp, i))
    BY <1>1, <2>2
  <2>5. ASSUME NEW r \in Segments
        PROVE  \/ HasWhole(out, r.seq, r.len)
               \/ \A i \in Nat : InSegment(r, i) => ~Wants(out, i)
    <3>1. r.seq \in Nat /\ r.len \in Nat /\ r.len > 0 /\ r.seq + r.len <= Size
      BY Constants
    <3>. QED
      BY <1>1, <2>1, <2>3, <3>1
  <2>6. ListOK(out, Size)
    BY <1>1, <2>1, <2>3, <2>5, Zenon DEF ListOK
  <2>. QED
    BY <2>4, <2>6 DEF out
<1>. QED
  BY <1>1, <1>2, <1>3

-----------------------------------------------------------------------------
(* The steps.                                                               *)

CopiedBefore(n, buf) == \A i \in 0 .. n - 1 : buf[i] # None

\* The responses rp name nothing behind a byte that is missing in the buffer buf.
Answers == 0 .. Size \cup {None}
AnswersOK(rp, buf) ==
  /\ rp \in [{"ACK", "RSD"} -> Answers]
  /\ \A type \in {"ACK", "RSD"} : rp[type] # None => CopiedBefore(rp[type], buf)

LEMMA AnswersMean ==
  /\ StreamTypeOK => (ResponseCovered <=> AnswersOK(resp, buffer))
  /\ StreamTypeOK' => (ResponseCovered' <=> AnswersOK(resp', buffer'))
<1>1. StreamTypeOK => (ResponseCovered <=> AnswersOK(resp, buffer))
  <2>. SUFFICES ASSUME StreamTypeOK PROVE ResponseCovered <=> AnswersOK(resp, buffer)
    OBVIOUS
  <2>1. resp \in [{"ACK", "RSD"} -> Answers] /\ DOMAIN resp = {"ACK", "RSD"}
    BY DEF StreamTypeOK, Answers
  <2>. QED
    BY <2>1, Zenon DEF ResponseCovered, AnswersOK, CopiedBefore
<1>2. (StreamTypeOK => (ResponseCovered <=> AnswersOK(resp, buffer)))'
  BY <1>1, PTL
<1>. QED
  BY <1>1, <1>2 DEF AnswersOK, CopiedBefore

\* A new answer that is right.
LEMMA AnswerGiven ==
  ASSUME NEW rp, NEW buf, AnswersOK(rp, buf), NEW type \in {"ACK", "RSD"},
         NEW n \in 0 .. Size, CopiedBefore(n, buf)
  PROVE  AnswersOK([rp EXCEPT ![type] = n], buf)
BY DEF AnswersOK, Answers

\* While the call runs, no byte before the first of the spaces is missing.
LEMMA FirstSpace ==
  ASSUME StreamTypeOK, ListOK(empty_buf, data_size), CopiedAs(empty_buf, buffer),
         data_size # -1, empty_buf # <<>>
  PROVE  Head(empty_buf).base \in 0 .. Size /\ CopiedBefore(Head(empty_buf).base, buffer)
<1>. DEFINE h == Head(empty_buf).base
<1>1. /\ empty_buf \in Seq(Spaces) /\ InOrder(empty_buf) /\ Size \in Nat
      /\ Len(empty_buf) \in Nat \ {0} /\ Head(empty_buf) = empty_buf[1]
      /\ \A k \in 1 .. Len(empty_buf) : empty_buf[k] \in Spaces
  BY Constants, LenProperties, ElementOfSeq, EmptySeq DEF ListOK
<1>2. /\ \A x \in Spaces : x.base \in Nat /\ x.size \in Nat
      /\ 1 \in 1 .. Len(empty_buf)
  BY <1>1 DEF Spaces
<1>3. h \in Nat /\ empty_buf[1].size > 0 /\ h = empty_buf[1].base /\ empty_buf[1].size \in Nat
  BY <1>1, <1>2 DEF InOrder
<1>. HIDE DEF h
<1>4. Wants(empty_buf, h)
  BY <1>1, <1>2, <1>3 DEF Wants, Contains
<1>5. h < Size /\ h < max_bytes
  BY <1>3, <1>4 DEF ListOK
<1>6. ASSUME NEW i \in Nat, i < h PROVE ~Wants(empty_buf, i)
  <2>. SUFFICES ASSUME NEW k \in 1 .. Len(empty_buf), empty_buf[k].base <= i PROVE FALSE
    BY DEF Wants, Contains
  <2>1. CASE k = 1
    BY <1>3, <1>6, <2>1
  <2>2. CASE k # 1
    <3>1. 1 < k /\ empty_buf[1].base + empty_buf[1].size <= empty_buf[k].base
      BY <1>1, <1>2, <2>2 DEF InOrder
    <3>2. empty_buf[k].base \in Nat
      BY <1>1, <1>2
    <3>. QED
      BY <1>3, <1>6, <3>1, <3>2
  <2>. QED
    BY <2>1, <2>2
<1>7. max_bytes \in Nat
  BY Constants DEF StreamTypeOK
<1>8. ASSUME NEW i \in 0 .. h - 1 PROVE buffer[i] # None
  <2>1. i \in Bytes /\ i \in Nat /\ i < h /\ i < max_bytes
    BY <1>1, <1>3, <1>5, <1>7 DEF Bytes
  <2>. QED
    BY <1>6, <2>1 DEF CopiedAs
<1>. QED
  BY <1>1, <1>3, <1>5, <1>8 DEF CopiedBefore, h

\* A step that leaves the call's variables alone.
LEMMA CallUnchanged ==
  ASSUME RecvStreamInv, UNCHANGED callVars,
         \/ pc' = pc
         \/ pc \in {"poll", "blocked", "ready"} /\ pc' \in {"poll", "blocked", "ready"},
         rx_ring' \in Seq(Segments \cup {None}), net' \subseteq Segments,
         AnswersOK(resp', buffer)
  PROVE  RecvStreamInv'
<1>1. /\ StreamTypeOK /\ CallOK /\ SpacesFit /\ Copied /\ DataIntact
  BY DEF RecvStreamInv
<1>2. UNCHANGED <<max_bytes, data_size, first_recv, empty_buf, buffer, result, repeated>>
  BY DEF callVars
<1>3. StreamTypeOK'
  BY <1>1, <1>2 DEF StreamTypeOK, AnswersOK, Answers
<1>4. CallOK'
  BY <1>1, <1>2 DEF CallOK
<1>5. pc' = "user" <=> pc = "user"
  OBVIOUS
<1>6. SpacesFit'
  BY <1>1, <1>2, <1>5 DEF SpacesFit, Missing, Limit
<1>7. Copied'
  BY <1>1, <1>2, <1>5 DEF Copied, Missing
<1>8. DataIntact'
  BY <1>1, <1>2 DEF DataIntact
<1>9. ResponseCovered'
  BY <1>2, <1>3, AnswersMean
<1>. QED
  BY <1>3, <1>4, <1>6, <1>7, <1>8, <1>9 DEF RecvStreamInv

\* A running call knows its list.
LEMMA Running ==
  ASSUME RecvStreamInv, pc \in {"poll", "blocked", "ready"}
  PROVE  /\ StreamTypeOK /\ CallOK /\ DataIntact /\ AnswersOK(resp, buffer) /\ result = None
         /\ ListOK(empty_buf, data_size) /\ CopiedAs(empty_buf, buffer)
         /\ data_size # -1 => empty_buf # <<>> /\ Size <= max_bytes
<1>1. /\ StreamTypeOK /\ CallOK /\ SpacesFit /\ Copied /\ DataIntact /\ ResponseCovered
  BY DEF RecvStreamInv
<1>2. result = None /\ pc # "user" /\ result # -1
  BY <1>1, Constants DEF CallOK
<1>3. data_size # -1 => empty_buf # <<>> /\ Size <= max_bytes
  BY <1>1, <1>2 DEF CallOK
<1>4. ListOK(empty_buf, data_size) /\ CopiedAs(empty_buf, buffer)
  BY <1>1, <1>2, <1>3, ListMeans
<1>. QED
  BY <1>1, <1>2, <1>3, <1>4, AnswersMean

LEMMA ResponseKeeps ==
  ASSUME RecvStreamInv, pc \in {"poll", "blocked", "ready"}, NEW type \in {"ACK", "RSD"},
         send_resp_pkt(type)
  PROVE  AnswersOK(resp', buffer)
<1>1. /\ StreamTypeOK /\ AnswersOK(resp, buffer)
      /\ ListOK(empty_buf, data_size) /\ CopiedAs(empty_buf, buffer)
      /\ data_size # -1 => empty_buf # <<>>
  BY Running
<1>2. CASE first_recv
  BY <1>1, <1>2 DEF send_resp_pkt
<1>3. CASE ~first_recv /\ data_size = -1
  <2>1. resp' = [resp EXCEPT ![type] = 0]
    BY <1>3 DEF send_resp_pkt
  <2>2. 0 \in 0 .. Size /\ CopiedBefore(0, buffer)
    BY Constants DEF CopiedBefore
  <2>. QED
    BY <1>1, <2>1, <2>2, AnswerGiven
<1>4. CASE ~first_recv /\ data_size # -1
  <2>1. resp' = [resp EXCEPT ![type] = Head(empty_buf).base]
    BY <1>4 DEF send_resp_pkt
  <2>2. Head(empty_buf).base \in 0 .. Size /\ CopiedBefore(Head(empty_buf).base, buffer)
    BY <1>1, <1>4, FirstSpace
  <2>. QED
    BY <1>1, <2>1, <2>2, AnswerGiven
<1>. QED
  BY <1>2, <1>3, <1>4

\* The call begins: all of the buffer is empty.
LEMMA CallKeeps ==
  ASSUME RecvStreamInv, NEW n \in BufferSizes, call(n)
  PROVE  RecvStreamInv'
<1>1. /\ StreamTypeOK /\ CallOK /\ DataIntact /\ ResponseCovered
  BY DEF RecvStreamInv
<1>2. /\ pc = "user" /\ n = max_bytes /\ pc' = "poll"
      /\ empty_buf' = <<[base |-> 0, size |-> n]>>
      /\ UNCHANGED <<max_bytes, data_size, first_recv, buffer, result, repeated,
                     rx_ring, ims, net, resp>>
  BY DEF call, cardVars
<1>3. /\ n \in Nat \ {0} /\ data_size = -1 /\ result = None
      /\ \A i \in Bytes : buffer[i] = None
  BY <1>1, <1>2, Constants DEF CallOK
<1>. DEFINE sp == Space(0, n)
<1>4. empty_buf' = sp
  BY <1>2, <1>3 DEF Space
<1>5. /\ sp \in Seq(Spaces) /\ InOrder(sp)
      /\ \A x \in Spaces : Contains(sp, x) <=> 0 < n /\ x.base = 0 /\ x.size = n - 0
  <2>1. 0 \in Nat /\ n \in Nat /\ 0 <= n
    BY <1>3
  <2>. QED
    BY <2>1, SpaceElements
<1>. HIDE DEF sp
<1>6. \E x \in Spaces : Contains(sp, x) /\ x.base = 0 /\ x.size = n
  <2>. DEFINE x == [base |-> 0, size |-> n]
  <2>1. x \in Spaces /\ x.base = 0 /\ x.size = n
    BY <1>3 DEF Spaces
  <2>. HIDE DEF x
  <2>. QED
    BY <1>3, <1>5, <2>1
<1>7. /\ \A i \in Nat : Wants(sp, i) <=> i < n
      /\ \A b \in Nat, k \in Nat : b + k <= n => HasWhole(sp, b, k)
  BY <1>3, <1>5, <1>6 DEF Wants, HasWhole
<1>8. StreamTypeOK'
  BY <1>1, <1>2, <1>4, <1>5 DEF StreamTypeOK
<1>9. CallOK'
  BY <1>1, <1>2, <1>3, Constants DEF CallOK
<1>10. ListOK(empty_buf', data_size')
  <2>1. ASSUME Size <= max_bytes, NEW s \in Segments PROVE HasWhole(sp, s.seq, s.len)
    BY <1>2, <1>3, <1>7, <2>1, Constants
  <2>2. Size < max_bytes => HasWhole(sp, Size, max_bytes - Size)
    BY <1>2, <1>3, <1>7, Constants
  <2>. QED
    BY <1>2, <1>3, <1>4, <1>5, <1>7, <2>1, <2>2 DEF ListOK
<1>11. CopiedAs(empty_buf', buffer')
  <2>1. \A i \in Bytes : i \in Nat
    BY DEF Bytes
  <2>. QED
    BY <1>2, <1>3, <1>4, <1>7, <2>1 DEF CopiedAs
<1>12. SpacesFit' /\ Copied'
  BY <1>2, <1>3, <1>8, <1>10, <1>11, Constants, ListMeansNext
<1>13. DataIntact'
  BY <1>1, <1>2 DEF DataIntact
<1>14. ResponseCovered'
  BY <1>1, <1>2, <1>8, AnswersMean
<1>. QED
  BY <1>8, <1>9, <1>12, <1>13, <1>14 DEF RecvStreamInv

\* A segment is copied.
LEMMA SegmentCopied ==
  ASSUME StreamTypeOK, NEW s \in Segments, NEW skip \in {0, HeaderLen}, CopySegment(s, skip)
  PROVE  /\ buffer' \in [Bytes -> Int \cup {None}]
         /\ \A i \in Bytes : /\ InSegment(s, i) => buffer'[i] # None
                             /\ ~InSegment(s, i) => buffer'[i] = buffer[i]
                             /\ InSegment(s, i) /\ (s.seq = 0 <=> skip = HeaderLen)
                                  => buffer'[i] = i
<1>. DEFINE first == IF s.seq = 0 THEN skip - HeaderLen ELSE s.seq + skip
<1>1. /\ buffer' = [i \in Bytes |-> IF i \in s.seq .. s.seq + s.len - 1
                                    THEN first + i - s.seq ELSE buffer[i]]
      /\ buffer \in [Bytes -> Int \cup {None}]
  BY DEF CopySegment, StreamTypeOK
<1>2. s.seq \in Nat /\ skip \in Int /\ HeaderLen = 4 /\ \A i \in Bytes : i \in Nat
  BY Constants DEF HeaderLen, Bytes
<1>3. first \in Int
  BY <1>2
<1>4. (s.seq = 0 <=> skip = HeaderLen) => first = s.seq
  BY <1>2
<1>. HIDE DEF first
<1>5. \A i \in Bytes : i \in s.seq .. s.seq + s.len - 1 <=> InSegment(s, i)
  BY <1>2, Constants
<1>6. \A i \in Bytes : first + i - s.seq \in Int /\ (first = s.seq => first + i - s.seq = i)
  BY <1>2, <1>3
<1>7. \A i \in Bytes : buffer'[i] = IF InSegment(s, i) THEN first + i - s.seq ELSE buffer[i]
  BY <1>1, <1>5
<1>8. buffer' \in [Bytes -> Int \cup {None}]
  <2>1. \A i \in Bytes : (IF i \in s.seq .. s.seq + s.len - 1
                          THEN first + i - s.seq ELSE buffer[i]) \in Int \cup {None}
    BY <1>1, <1>6
  <2>. QED
    BY <1>1, <2>1
<1>. QED
  BY <1>4, <1>6, <1>7, <1>8, Constants

\* A packet with a segment is polled, and the file fits.
LEMMA SegmentKeeps ==
  ASSUME RecvStreamInv, pc = "poll", NEW s \in Segments, NEW skip \in {0, HeaderLen},
         CopySegment(s, skip), Finish, max_bytes' = max_bytes, net' = net,
         rx_ring' \in Seq(Segments \cup {None}), first_recv' = FALSE, repeated' \in BOOLEAN,
         ~repeated' => ~repeated /\ (s.seq = 0 <=> skip = HeaderLen),
         data_size' \in {-1, Size}, data_size' # -1 => Size <= max_bytes,
         ListOK(empty_buf', data_size'),
         \A i \in Bytes : /\ ~Wants(empty_buf', i) => ~Wants(empty_buf, i) \/ InSegment(s, i)
                          /\ Wants(empty_buf', i) => Wants(empty_buf, i)
                          /\ Wants(empty_buf', i) /\ Size <= max_bytes => ~InSegment(s, i)
  PROVE  RecvStreamInv'
<1>1. /\ StreamTypeOK /\ CallOK /\ DataIntact /\ AnswersOK(resp, buffer) /\ result = None
      /\ ListOK(empty_buf, data_size) /\ CopiedAs(empty_buf, buffer)
  BY Running
<1>2. /\ buffer' \in [Bytes -> Int \cup {None}]
      /\ \A i \in Bytes : /\ InSegment(s, i) => buffer'[i] # None
                          /\ ~InSegment(s, i) => buffer'[i] = buffer[i]
                          /\ InSegment(s, i) /\ (s.seq = 0 <=> skip = HeaderLen)
                               => buffer'[i] = i
  BY <1>1, SegmentCopied
<1>3. CopiedAs(empty_buf', buffer')
  <2>. SUFFICES ASSUME NEW i \in Bytes, i < max_bytes
       PROVE  /\ ~Wants(empty_buf', i) => buffer'[i] # None
              /\ Wants(empty_buf', i) /\ Size <= max_bytes => buffer'[i] = None
    BY DEF CopiedAs
  <2>1. /\ ~Wants(empty_buf, i) => buffer[i] # None
        /\ Wants(empty_buf, i) /\ Size <= max_bytes => buffer[i] = None
    BY <1>1 DEF CopiedAs
  <2>. QED
    BY <1>2, <2>1
<1>4. DataIntact'
  BY <1>1, <1>2 DEF DataIntact
<1>5. AnswersOK(resp, buffer')
  <2>. SUFFICES ASSUME NEW type \in {"ACK", "RSD"}, resp[type] # None,
                       NEW i \in 0 .. resp[type] - 1
       PROVE  buffer'[i] # None
    BY <1>1 DEF AnswersOK, CopiedBefore
  <2>1. resp[type] \in 0 .. Size /\ buffer[i] # None
    BY <1>1 DEF AnswersOK, Answers, CopiedBefore
  <2>2. i \in Bytes
    BY <2>1, Constants DEF Bytes
  <2>. QED
    BY <1>2, <2>1, <2>2
<1>6. CASE data_size' # -1 /\ empty_buf' = <<>>
  <2>1. /\ pc' = "done" /\ result' = 0 /\ resp' = [resp EXCEPT !.ACK = data_size']
        /\ data_size' = Size
    BY <1>6 DEF Finish
  <2>2. CopiedBefore(Size, buffer')
    <3>. SUFFICES ASSUME NEW i \in 0 .. Size - 1 PROVE buffer'[i] # None
      BY DEF CopiedBefore
    <3>1. i \in Bytes /\ i < max_bytes
      BY <1>1, <1>6, Constants DEF Bytes, StreamTypeOK
    <3>2. ~Wants(empty_buf', i)
      BY <1>6 DEF Wants, Contains
    <3>. QED
      BY <1>3, <3>1, <3>2 DEF CopiedAs
  <2>3. AnswersOK(resp', buffer')
    <3>1. Size \in 0 .. Size
      BY Constants
    <3>. QED
      BY <1>5, <2>1, <2>2, <3>1, AnswerGiven
  <2>4. StreamTypeOK'
    BY <1>1, <1>2, <2>1, <2>3 DEF StreamTypeOK, ListOK, AnswersOK, Answers
  <2>5. CallOK'
    BY <1>6, <2>1, Constants DEF CallOK
  <2>6. SpacesFit' /\ Copied'
    <3>1. result' # -1
      BY <2>1
    <3>. QED
      BY <1>3, <2>1, <2>4, <3>1, ListMeansNext
  <2>. QED
    BY <1>4, <2>3, <2>4, <2>5, <2>6, AnswersMean DEF RecvStreamInv
<1>7. CASE ~(data_size' # -1 /\ empty_buf' = <<>>)
  <2>1. UNCHANGED <<pc, result, resp>>
    BY <1>7 DEF Finish
  <2>3. AnswersOK(resp', buffer')
    BY <1>5, <2>1
  <2>4. StreamTypeOK'
    BY <1>1, <1>2, <2>1, <2>3 DEF StreamTypeOK, ListOK, AnswersOK, Answers
  <2>5. CallOK'
    BY <1>1, <1>7, <2>1, Constants DEF CallOK
  <2>6. SpacesFit' /\ Copied'
    BY <1>1, <1>3, <2>1, <2>4, Constants, ListMeansNext
  <2>. QED
    BY <1>4, <2>3, <2>4, <2>5, <2>6, AnswersMean DEF RecvStreamInv
<1>. QED
  BY <1>6, <1>7

LEMMA PollKeeps ==
  ASSUME RecvStreamInv, Poll
  PROVE  RecvStreamInv'
<1>1. /\ StreamTypeOK /\ CallOK /\ DataIntact /\ AnswersOK(resp, buffer) /\ result = None
      /\ ListOK(empty_buf, data_size) /\ CopiedAs(empty_buf, buffer)
      /\ data_size # -1 => empty_buf # <<>> /\ Size <= max_bytes
      /\ pc = "poll"
  BY Running DEF Poll
<1>2. /\ rx_ring # <<>> /\ rx_ring' = Tail(rx_ring) /\ net' = net
      /\ rx_ring \in Seq(Segments \cup {None}) /\ max_bytes \in Nat
      /\ data_size \in {-1, Size} /\ repeated \in BOOLEAN
  BY <1>1, Constants DEF Poll, StreamTypeOK
<1>3. Head(rx_ring) \in Segments \cup {None} /\ rx_ring' \in Seq(Segments \cup {None})
  BY <1>2, HeadTailProperties
<1>4. CASE Head(rx_ring) = None
  <2>1. UNCHANGED <<pc, callVars, resp>>
    BY <1>4 DEF Poll
  <2>2. AnswersOK(resp', buffer) /\ net' \subseteq Segments
    BY <1>1, <1>2, <2>1 DEF StreamTypeOK
  <2>. QED
    BY <1>3, <2>1, <2>2, CallUnchanged
<1>5. ASSUME NEW s \in Segments, s = Head(rx_ring), s # None
      PROVE  RecvStreamInv'
  <2>. DEFINE one == occupy_space(empty_buf, s.seq, s.len)
  <2>0. (PollFirst(s) \/ PollOther(s)) /\ max_bytes' = max_bytes
    BY <1>5 DEF Poll
  <2>1. /\ ListOK(one, data_size)
        /\ \A i \in Nat : /\ ~Wants(one, i) => ~Wants(empty_buf, i) \/ InSegment(s, i)
                          /\ Wants(one, i) => Wants(empty_buf, i)
                          /\ Wants(one, i) /\ Size <= max_bytes => ~InSegment(s, i)
    BY <1>1, <1>2, SegmentTaken
  <2>. HIDE DEF one
  <2>2. \A i \in Bytes : i \in Nat /\ i < Size
    BY Constants DEF Bytes
  <2>3. CASE PollOther(s)
    <3>1. /\ s.seq # 0 \/ data_size # -1
          /\ empty_buf' = one
          /\ CopySegment(s, 0) /\ Finish
          /\ repeated' = (repeated \/ s.seq = 0)
          /\ first_recv' = FALSE /\ data_size' = data_size
      BY <2>3 DEF PollOther, one
    <3>2. repeated' \in BOOLEAN /\ (~repeated' => ~repeated /\ s.seq # 0) /\ 0 # HeaderLen
      <4>. DEFINE again == repeated \/ s.seq = 0
      <4>1. again \in BOOLEAN /\ (~again => ~repeated /\ s.seq # 0)
        OBVIOUS
      <4>2. repeated' = again
        BY <3>1
      <4>3. 0 # HeaderLen
        BY DEF HeaderLen
      <4>. QED
        BY <4>1, <4>2, <4>3, Zenon
    <3>. QED
      BY <1>1, <1>2, <1>3, <2>0, <2>1, <2>2, <3>1, <3>2, SegmentKeeps
  <2>4. CASE PollFirst(s) /\ Size > max_bytes
    <3>1. /\ data_size = -1 /\ data_size' = Size /\ first_recv' = FALSE
          /\ pc' = "done" /\ result' = -1
          /\ UNCHANGED <<empty_buf, buffer, resp, repeated>>
      BY <1>2, <2>4, Constants DEF PollFirst, TooSmall
    <3>2. StreamTypeOK'
      BY <1>1, <1>2, <1>3, <2>0, <3>1 DEF StreamTypeOK
    <3>3. CallOK'
      BY <2>0, <2>4, <3>1 DEF CallOK
    <3>4. SpacesFit /\ Copied /\ Limit = max_bytes
      BY <1>1, <3>1 DEF RecvStreamInv, Limit
    <3>5. SpacesFit'
      <4>1. Limit' = max_bytes /\ Missing' = Missing
        BY <2>0, <3>1 DEF Limit, Missing
      <4>2. ~(Size <= max_bytes)
        BY <1>2, <2>4, Constants
      <4>. HIDE DEF Limit, Missing
      <4>. QED
        BY <2>0, <3>1, <3>4, <4>1, <4>2 DEF SpacesFit
    <3>6. Copied'
      BY <1>1, <2>0, <3>1, <3>4 DEF Copied, Missing
    <3>7. DataIntact' /\ ResponseCovered'
      BY <1>1, <3>1, <3>2, AnswersMean DEF DataIntact
    <3>. QED
      BY <3>2, <3>3, <3>5, <3>6, <3>7 DEF RecvStreamInv
  <2>5. CASE PollFirst(s) /\ ~(Size > max_bytes)
    <3>. DEFINE two == occupy_space(one, Size, max_bytes - Size)
    <3>0. Size <= max_bytes
      BY <1>2, <2>5, Constants
    <3>1. /\ s.seq = 0 /\ data_size = -1 /\ data_size' = Size /\ first_recv' = FALSE
          /\ empty_buf' = two
          /\ CopySegment(s, HeaderLen) /\ Finish /\ repeated' = repeated
      BY <2>5 DEF PollFirst, TooSmall, one
    <3>2. /\ ListOK(two, Size)
          /\ \A i \in Nat : i < Size => (Wants(two, i) <=> Wants(one, i))
      BY <1>2, <2>1, <3>0, <3>1, TailTaken
    <3>. HIDE DEF two
    <3>3. \A i \in Bytes : Wants(two, i) <=> Wants(one, i)
      BY <2>2, <3>2
    <3>. QED
      BY <1>1, <1>2, <1>3, <2>0, <2>1, <2>2, <3>0, <3>1, <3>2, <3>3, SegmentKeeps
  <2>. QED
    BY <2>0, <2>3, <2>4, <2>5
<1>. QED
  BY <1>3, <1>4, <1>5

\* The card has room for one more packet.
LEMMA IntoRingKeeps ==
  ASSUME RecvStreamInv, NEW p \in Segments \cup {None}, IntoRing(p), net' \subseteq Segments
  PROVE  RecvStreamInv'
<1>1. UNCHANGED <<pc, callVars, resp>> /\ rx_ring' = Append(rx_ring, p)
  BY DEF IntoRing
<1>2. rx_ring \in Seq(Segments \cup {None}) /\ AnswersOK(resp, buffer)
  BY AnswersMean DEF RecvStreamInv, StreamTypeOK
<1>3. rx_ring' \in Seq(Segments \cup {None})
  BY <1>1, <1>2, AppendElements
<1>. QED
  BY <1>1, <1>2, <1>3, CallUnchanged

LEMMA StreamStart == StreamInit => RecvStreamInv
<1>. SUFFICES ASSUME StreamInit PROVE RecvStreamInv
  OBVIOUS
<1>1. /\ pc = "user" /\ max_bytes \in BufferSizes /\ data_size = -1 /\ first_recv = TRUE
      /\ empty_buf = <<>> /\ buffer = [i \in Bytes |-> None] /\ result = None
      /\ rx_ring = <<>> /\ net = Segments /\ resp = [ACK |-> None, RSD |-> None]
      /\ repeated = FALSE
  BY DEF StreamInit
<1>2. <<>> \in Seq(Spaces) /\ <<>> \in Seq(Segments \cup {None}) /\ InOrder(<<>>)
  BY DEF InOrder
<1>3. resp \in [{"ACK", "RSD"} -> 0 .. Size \cup {None}] /\ resp["ACK"] = None /\ resp["RSD"] = None
  BY <1>1
<1>4. StreamTypeOK
  BY <1>1, <1>2, <1>3 DEF StreamTypeOK
<1>5. CallOK
  BY <1>1, Constants DEF CallOK
<1>6. Missing = {}
  BY <1>1 DEF Missing
<1>7. SpacesFit /\ Copied /\ DataIntact
  BY <1>1, <1>2, <1>6 DEF SpacesFit, Copied, DataIntact
<1>8. ResponseCovered
  BY <1>3, <1>4, AnswersMean DEF AnswersOK, Answers
<1>. QED
  BY <1>4, <1>5, <1>7, <1>8 DEF RecvStreamInv

LEMMA StreamStep == RecvStreamInv /\ [StreamNext]_vars => RecvStreamInv'
<1>. SUFFICES ASSUME RecvStreamInv, [StreamNext]_vars PROVE RecvStreamInv'
  OBVIOUS
<1>0. /\ rx_ring \in Seq(Segments \cup {None}) /\ net \subseteq Segments
      /\ AnswersOK(resp, buffer)
  BY AnswersMean DEF RecvStreamInv, StreamTypeOK
<1>1. ASSUME UNCHANGED callVars,
             \/ pc' = pc
             \/ pc \in {"poll", "blocked", "ready"} /\ pc' \in {"poll", "blocked", "ready"},
             \/ rx_ring' = rx_ring
             \/ rx_ring' = <<>>
             \/ rx_ring # <<>> /\ rx_ring' = Tail(rx_ring),
             net' \subseteq Segments, AnswersOK(resp', buffer)
      PROVE  RecvStreamInv'
  <2>1. rx_ring' \in Seq(Segments \cup {None})
    <3>1. rx_ring # <<>> => Tail(rx_ring) \in Seq(Segments \cup {None})
      BY <1>0, HeadTailProperties
    <3>2. <<>> \in Seq(Segments \cup {None})
      OBVIOUS
    <3>. QED
      BY <1>0, <1>1, <3>1, <3>2, Zenon
  <2>. QED
    BY <1>1, <2>1, CallUnchanged
<1>2. CASE UNCHANGED vars
  BY <1>0, <1>1, <1>2 DEF vars, cardVars
<1>3. ASSUME NEW n \in BufferSizes, call(n) PROVE RecvStreamInv'
  BY <1>3, CallKeeps
<1>4. CASE Poll
  BY <1>4, PollKeeps
<1>5. CASE PollNone
  <2>1. /\ pc = "poll" /\ pc' = "blocked" /\ UNCHANGED <<callVars, rx_ring, net>>
        /\ IF data_size # -1 THEN send_resp_pkt("ACK") ELSE UNCHANGED resp
    BY <1>5 DEF PollNone
  <2>2. AnswersOK(resp', buffer)
    BY <1>0, <2>1, ResponseKeeps
  <2>. QED
    BY <1>0, <1>1, <2>1, <2>2
<1>6. CASE Resume
  <2>1. /\ pc = "ready" /\ pc' = "poll" /\ UNCHANGED <<callVars, rx_ring, net>>
        /\ IF rx_ring = <<>> THEN send_resp_pkt("RSD") ELSE UNCHANGED resp
    BY <1>6 DEF Resume, cardVars
  <2>2. AnswersOK(resp', buffer)
    BY <1>0, <2>1, ResponseKeeps
  <2>. QED
    BY <1>0, <1>1, <2>1, <2>2
<1>7. CASE check_recv_stream
  BY <1>0, <1>1, <1>7 DEF check_recv_stream, cardVars
<1>8. CASE e1000_handle_rxdmt0
  BY <1>0, <1>1, <1>8 DEF e1000_handle_rxdmt0
<1>9. CASE OtherReceiver
  BY <1>0, <1>1, <1>9 DEF OtherReceiver
<1>10. ASSUME NEW s \in Segments, Lose(s) PROVE RecvStreamInv'
  BY <1>0, <1>1, <1>10 DEF Lose, cardVars
<1>11. ASSUME NEW s \in Segments, Arrive(s) PROVE RecvStreamInv'
  <2>1. net' \subseteq Segments /\ IntoRing(s)
    BY <1>0, <1>11 DEF Arrive
  <2>. QED
    BY <2>1, IntoRingKeeps
<1>12. ASSUME NEW p \in Segments \cup {None}, ArriveStrange(p) PROVE RecvStreamInv'
  <2>1. net' \subseteq Segments /\ IntoRing(p)
    BY <1>0, <1>12 DEF ArriveStrange
  <2>. QED
    BY <2>1, IntoRingKeeps
<1>13. CASE LoseResponse \/ Resend
  <2>1. /\ UNCHANGED <<pc, callVars, rx_ring>> /\ resp' = [resp EXCEPT !.RSD = None]
        /\ net' \subseteq Segments
    BY <1>0, <1>13 DEF LoseResponse, Resend, cardVars
  <2>2. AnswersOK(resp', buffer)
    BY <1>0, <2>1 DEF AnswersOK, Answers
  <2>. QED
    BY <1>1, <2>1, <2>2
<1>. QED
  BY <1>2, <1>3, <1>4, <1>5, <1>6, <1>7, <1>8, <1>9, <1>10, <1>11, <1>12, <1>13
     DEF StreamNext, Kernel, Network, do_net_recv_stream

-----------------------------------------------------------------------------
(* What follows.                                                            *)

\* RecvStreamInv holds in every state of a call of do_net_recv_stream.
THEOREM StreamInvariant == StreamSpec => []RecvStreamInv
<1>. QED
  BY StreamStart, StreamStep, PTL DEF StreamSpec

\* occupy_space: the list of spaces is in order and says exactly what is missing.
THEOREM SpacesStayExact == StreamSpec => []SpacesExact
<1>1. RecvStreamInv => SpacesExact
  <2>. SUFFICES ASSUME RecvStreamInv PROVE SpacesExact
    OBVIOUS
  <2>1. DOMAIN empty_buf = 1 .. Len(empty_buf)
    BY LenProperties DEF RecvStreamInv, StreamTypeOK
  <2>. QED
    BY <2>1 DEF RecvStreamInv, SpacesFit, InOrder, Copied, SpacesExact
<1>. QED
  BY StreamInvariant, <1>1, PTL

\* do_net_recv_stream copies each byte to its place, unless the first segment comes again.
THEOREM DataStaysIntact == StreamSpec => []DataIntact
<1>1. RecvStreamInv => DataIntact
  BY DEF RecvStreamInv
<1>. QED
  BY StreamInvariant, <1>1, PTL

\* send_resp_pkt never names a byte behind one that is missing.
THEOREM ResponsesAreCovered == StreamSpec => []ResponseCovered
<1>1. RecvStreamInv => ResponseCovered
  BY DEF RecvStreamInv
<1>. QED
  BY StreamInvariant, <1>1, PTL

\* do_net_recv_stream returns 0 only when all of the file is in the buffer.
THEOREM WholeIsReturned == StreamSpec => []ReturnsWhole
<1>1. RecvStreamInv => ReturnsWhole
  <2>. SUFFICES ASSUME RecvStreamInv PROVE ReturnsWhole
    OBVIOUS
  <2>1. StreamTypeOK /\ CallOK /\ Copied
    BY DEF RecvStreamInv
  <2>2. result = -1 => Size > max_bytes
    BY <2>1 DEF CallOK
  <2>3. ASSUME result = 0
        PROVE  Size <= max_bytes /\ \A i \in Bytes : buffer[i] # None
    <3>1. Size <= max_bytes /\ empty_buf = <<>> /\ pc # "user"
      BY <2>1, <2>3, Constants DEF CallOK
    <3>2. Missing = {} /\ max_bytes \in Nat
      BY <2>1, <3>1, Constants DEF Missing, StreamTypeOK
    <3>3. \A i \in Bytes : i < max_bytes
      BY <3>1, <3>2, Constants DEF Bytes
    <3>. QED
      BY <2>1, <3>1, <3>2, <3>3 DEF Copied
  <2>. QED
    BY <2>2, <2>3 DEF ReturnsWhole
<1>. QED
  BY StreamInvariant, <1>1, PTL
=============================================================================
