----------------------------- MODULE PagingProof -----------------------------
(***************************************************************************)
(* That PageInv is an inductive invariant of PagingSpec, and with it       *)
(* ZoneExact, SharedIsForked, KernelStackApart, PrivateMemory and          *)
(* SwapsOnlyOrphans of modules Buddy and Paging: the zone first, down to   *)
(* what powers of two do to alignment, then one lemma per operation.       *)
(***************************************************************************)
EXTENDS PagingInv, FiniteSetTheorems, FunctionTheorems, WellFoundedInduction, TLAPS

-----------------------------------------------------------------------------
(* Powers of two.  2^n is known to the provers only as the number of       *)
(* subsets of a set of n elements.                                         *)

LEMMA SubsetsOfInterval ==
  ASSUME NEW a \in Int, NEW b \in Int, NEW n \in Nat, b - a + 1 = n
  PROVE  /\ IsFiniteSet(SUBSET (a .. b))
         /\ Cardinality(SUBSET (a .. b)) = 2 ^ n
<1>1. IsFiniteSet(a .. b) /\ Cardinality(a .. b) = IF a > b THEN 0 ELSE b - a + 1
  BY FS_Interval
<1>2. Cardinality(a .. b) = n
  BY <1>1
<1>. QED
  BY <1>1, <1>2, FS_SUBSET

LEMMA PowerPositive ==
  ASSUME NEW n \in Nat
  PROVE  2 ^ n \in Nat \ {0}
<1>. DEFINE S == SUBSET (1 .. n)
<1>1. IsFiniteSet(S) /\ Cardinality(S) = 2 ^ n
  <2>1. 1 \in Int /\ n \in Int /\ n - 1 + 1 = n
    OBVIOUS
  <2>. QED
    BY <2>1, SubsetsOfInterval
<1>2. {} \in S
  OBVIOUS
<1>. HIDE DEF S
<1>3. Cardinality(S) \in Nat /\ Cardinality(S) # 0
  BY <1>1, <1>2, FS_CardinalityType, FS_EmptySet
<1>. QED
  BY <1>1, <1>3

LEMMA PowerSum ==
  ASSUME NEW a \in Nat, NEW b \in Nat
  PROVE  2 ^ (a + b) = (2 ^ a) * (2 ^ b)
<1>. DEFINE S == SUBSET (1 .. a)
            T == SUBSET (a + 1 .. a + b)
            U == SUBSET (1 .. a + b)
            f == [p \in S \X T |-> p[1] \cup p[2]]
<1>1. /\ IsFiniteSet(S) /\ Cardinality(S) = 2 ^ a
      /\ IsFiniteSet(T) /\ Cardinality(T) = 2 ^ b
      /\ IsFiniteSet(U) /\ Cardinality(U) = 2 ^ (a + b)
  <2>1. 1 \in Int /\ a \in Int /\ a - 1 + 1 = a
    OBVIOUS
  <2>2. a + 1 \in Int /\ a + b \in Int /\ (a + b) - (a + 1) + 1 = b
    OBVIOUS
  <2>3. a + b \in Nat /\ (a + b) - 1 + 1 = a + b
    OBVIOUS
  <2>4. IsFiniteSet(S) /\ Cardinality(S) = 2 ^ a
    BY <2>1, SubsetsOfInterval
  <2>5. IsFiniteSet(T) /\ Cardinality(T) = 2 ^ b
    BY <2>2, SubsetsOfInterval
  <2>6. IsFiniteSet(U) /\ Cardinality(U) = 2 ^ (a + b)
    BY <2>1, <2>2, <2>3, SubsetsOfInterval
  <2>. QED
    BY <2>4, <2>5, <2>6
<1>2. f \in Bijection(S \X T, U)
  <2>1. f \in [S \X T -> U]
    <3>1. ASSUME NEW p \in S \X T PROVE p[1] \cup p[2] \in U
      <4>1. p[1] \subseteq 1 .. a /\ p[2] \subseteq a + 1 .. a + b
        OBVIOUS
      <4>. QED
        BY <4>1
    <3>. QED
      BY <3>1
  <2>2. ASSUME NEW p \in S \X T, NEW q \in S \X T, f[p] = f[q]
        PROVE  p = q
    <3>1. p[1] \cup p[2] = q[1] \cup q[2]
      BY <2>2
    <3>2. ASSUME NEW r \in S \X T PROVE r[1] = (r[1] \cup r[2]) \cap (1 .. a)
                                     /\ r[2] = (r[1] \cup r[2]) \cap (a + 1 .. a + b)
      <4>1. r[1] \subseteq 1 .. a /\ r[2] \subseteq a + 1 .. a + b
        OBVIOUS
      <4>2. (1 .. a) \cap (a + 1 .. a + b) = {}
        OBVIOUS
      <4>. QED
        BY <4>1, <4>2
    <3>3. p[1] = q[1] /\ p[2] = q[2]
      BY <3>1, <3>2, SMTT(60)
    <3>. QED
      BY <3>3
  <2>3. ASSUME NEW u \in U PROVE \E p \in S \X T : f[p] = u
    <3>. DEFINE s == u \cap (1 .. a)
                t == u \cap (a + 1 .. a + b)
    <3>1. <<s, t>> \in S \X T
      OBVIOUS
    <3>2. \A i \in u : i \in 1 .. a \/ i \in a + 1 .. a + b
      OBVIOUS
    <3>3. s \cup t = u
      BY <3>2
    <3>. QED
      BY <3>1, <3>3
  <2>. QED
    BY <2>1, <2>2, <2>3 DEF Bijection, Injection, Surjection, IsInjective
<1>. HIDE DEF S, T, U, f
<1>3. IsFiniteSet(S \X T) /\ Cardinality(S \X T) = (2 ^ a) * (2 ^ b)
  BY <1>1, FS_Product
<1>4. ExistsBijection(S \X T, U)
  BY <1>2 DEF ExistsBijection
<1>. QED
  BY <1>1, <1>3, <1>4, FS_Bijection

LEMMA PowerSplit ==
  ASSUME NEW a \in Nat, NEW b \in Nat, a <= b
  PROVE  /\ b - a \in Nat
         /\ 2 ^ b = (2 ^ a) * (2 ^ (b - a))
<1>1. b - a \in Nat /\ a + (b - a) = b
  OBVIOUS
<1>. QED
  BY <1>1, PowerSum

\* 2^o grows, and it at least doubles from one order to the next.
LEMMA PowerGrows ==
  ASSUME NEW a \in Nat, NEW b \in Nat
  PROVE  /\ a <= b => 2 ^ a <= 2 ^ b
         /\ a < b => 2 ^ a + 2 ^ a <= 2 ^ b
<1>1. ASSUME NEW i \in Nat, NEW j \in Nat, i <= j PROVE 2 ^ i <= 2 ^ j
  <2>. DEFINE x == 2 ^ i
              y == 2 ^ (j - i)
  <2>1. j - i \in Nat /\ 2 ^ j = x * y
    BY <1>1, PowerSplit
  <2>2. x \in Nat \ {0} /\ y \in Nat \ {0}
    BY <2>1, PowerPositive
  <2>. HIDE DEF x, y
  <2>3. x * y >= x
    BY <2>2
  <2>. QED
    BY <2>1, <2>3 DEF x
<1>2. 2 ^ 1 = 2
  <2>1. 1 \in Int /\ 1 - 1 + 1 = 1 /\ 1 \in Nat
    OBVIOUS
  <2>2. Cardinality(SUBSET (1 .. 1)) = 2 ^ 1
    BY <2>1, SubsetsOfInterval
  <2>3. SUBSET (1 .. 1) = {{}, {1}}
    OBVIOUS
  <2>4. {} # {1}
    OBVIOUS
  <2>. QED
    BY <2>2, <2>3, <2>4, FS_AddElement, FS_EmptySet
<1>3. 2 ^ (a + 1) = 2 ^ a + 2 ^ a
  <2>1. 2 ^ a \in Nat /\ 1 \in Nat
    BY PowerPositive
  <2>2. 2 ^ (a + 1) = (2 ^ a) * (2 ^ 1)
    BY <2>1, PowerSum
  <2>. DEFINE x == 2 ^ a
  <2>3. 2 ^ (a + 1) = x * 2
    BY <2>2, <1>2
  <2>. HIDE DEF x
  <2>4. x * 2 = x + x
    BY <2>1 DEF x
  <2>. QED
    BY <2>3, <2>4 DEF x
<1>4. ASSUME a <= b PROVE 2 ^ a <= 2 ^ b
  BY <1>1, <1>4
<1>5. ASSUME a < b PROVE 2 ^ a + 2 ^ a <= 2 ^ b
  <2>1. a + 1 \in Nat /\ a + 1 <= b
    BY <1>5
  <2>2. 2 ^ (a + 1) <= 2 ^ b
    BY <2>1, <1>1
  <2>. QED
    BY <2>2, <1>3
<1>. QED
  BY <1>4, <1>5

\* What % says of multiples.
LEMMA Multiples ==
  ASSUME NEW n \in Nat \ {0}, NEW x \in Nat
  PROVE  /\ (n * x) % n = 0
         /\ x % n = 0 => \E q \in Nat : x = n * q
<1>1. (n * x) % n = 0
  OBVIOUS
<1>2. x % n = 0 => \E q \in Nat : x = n * q
  <2>1. x \div n \in Nat /\ x = n * (x \div n) + (x % n)
    OBVIOUS
  <2>. QED
    BY <2>1
<1>. QED
  BY <1>1, <1>2

LEMMA PowerMultiple ==
  ASSUME NEW a \in Nat, NEW b \in Nat, a <= b, NEW x \in Nat, x % 2 ^ b = 0
  PROVE  /\ x % 2 ^ a = 0
         /\ (x + 2 ^ a) % 2 ^ a = 0
<1>. DEFINE n == 2 ^ a
            m == 2 ^ (b - a)
<1>1. b - a \in Nat /\ 2 ^ b = n * m
  BY PowerSplit
<1>2. n \in Nat \ {0} /\ m \in Nat \ {0} /\ 2 ^ b \in Nat \ {0}
  BY <1>1, PowerPositive
<1>3. PICK q \in Nat : x = 2 ^ b * q
  BY <1>2, Multiples
<1>. HIDE DEF n, m
<1>4. m * q \in Nat /\ m * q + 1 \in Nat
  BY <1>2, <1>3
<1>5. x = n * (m * q)
  BY <1>1, <1>2, <1>3
<1>6. x + n = n * (m * q + 1)
  BY <1>2, <1>4, <1>5
<1>. QED
  BY <1>2, <1>4, <1>5, <1>6, Multiples DEF n

-----------------------------------------------------------------------------
(* The zone.                                                               *)

\* A set of numbers that is not empty has a first one, so alloc_page takes a
\* block that is free.
LEMMA FirstIsMember ==
  ASSUME NEW S \in SUBSET Nat, S # {}
  PROVE  Min(S) \in S
<1>. DEFINE Less == {ss \in Nat \X Nat : ss[1] < ss[2]}
<1>1. IsWellFoundedOn(Less, Nat)
  BY NatLessThanWellFounded, Zenon DEF OpToRel
<1>. HIDE DEF Less
<1>2. PICK z \in S : \A y \in S : ~(<<y, z>> \in Less)
  BY <1>1, WFMin
<1>3. ASSUME NEW y \in S PROVE z <= y
  <2>1. y \in Nat /\ z \in Nat /\ ~(<<y, z>> \in Less)
    BY <1>2
  <2>2. <<y, z>> \in Nat \X Nat /\ (y < z => <<y, z>> \in Less)
    BY <2>1 DEF Less
  <2>. QED
    BY <2>1, <2>2
<1>. QED
  BY <1>3 DEF Min

LEMMA ConstantsTyped ==
  /\ MAX_ORDER \in Nat \ {0}
  /\ \A o \in Orders : o \in Nat /\ 2 ^ o \in Nat \ {0}
  /\ Frames \subseteq Nat
<1>1. MAX_ORDER \in Nat \ {0}
  BY OrderAssumption
<1>2. \A o \in Orders : o \in Nat /\ 2 ^ o \in Nat \ {0}
  BY <1>1, PowerPositive DEF Orders
<1>3. ASSUME NEW b \in Blocks PROVE Block(b[1], b[2]) \subseteq Nat
  <2>1. b[1] \in Orders /\ b[2] \in Nat
    BY BlocksAssumption
  <2>2. 2 ^ b[1] \in Nat \ {0}
    BY <2>1, <1>2
  <2>. QED
    BY <2>1, <2>2 DEF Block
<1>. QED
  BY <1>1, <1>2, <1>3 DEF Frames

\* What alloc_page does to the zone: it cuts Block(k, f) from a free block.
LEMMA AllocPage ==
  ASSUME NEW k \in Orders, NEW f \in Nat, alloc_page(k, f),
         free_list \in [Orders -> SUBSET Nat]
  PROVE  \E order \in Orders :
           /\ k <= order /\ f \in free_list[order]
           /\ free_list' = split_block(k, order, f)
<1>1. PICK order \in k .. MAX_ORDER - 1 :
        /\ free_list[order] # {}
        /\ f = Min(free_list[order])
        /\ free_list' = split_block(k, order, f)
  BY DEF alloc_page
<1>2. order \in Orders /\ k <= order
  BY OrderAssumption DEF Orders
<1>. QED
  BY <1>1, <1>2, FirstIsMember

\* The halves that alloc_page splits off a block lie in it, aligned, and apart
\* from each other and from the pages handed out.
LEMMA SplitHalves ==
  ASSUME NEW k \in Nat, NEW o \in Nat, NEW order \in Nat, k <= o, o < order,
         NEW f \in Nat, f % 2 ^ order = 0
  PROVE  /\ (f + 2 ^ o) % 2 ^ o = 0
         /\ Block(o, f + 2 ^ o) \subseteq Block(order, f)
         /\ Block(o, f + 2 ^ o) \cap Block(k, f) = {}
         /\ \A q \in Nat : o < q => Block(o, f + 2 ^ o) \cap Block(q, f + 2 ^ q) = {}
<1>1. 2 ^ k \in Nat \ {0} /\ 2 ^ o \in Nat \ {0} /\ 2 ^ order \in Nat \ {0}
  BY PowerPositive
<1>2. 2 ^ k <= 2 ^ o /\ 2 ^ o + 2 ^ o <= 2 ^ order
  BY PowerGrows
<1>3. (f + 2 ^ o) % 2 ^ o = 0
  <2>1. o <= order
    OBVIOUS
  <2>. QED
    BY <2>1, PowerMultiple
<1>4. Block(o, f + 2 ^ o) \subseteq Block(order, f)
  BY <1>1, <1>2 DEF Block
<1>5. Block(o, f + 2 ^ o) \cap Block(k, f) = {}
  BY <1>1, <1>2 DEF Block
<1>6. ASSUME NEW q \in Nat, o < q
      PROVE  Block(o, f + 2 ^ o) \cap Block(q, f + 2 ^ q) = {}
  <2>1. 2 ^ q \in Nat \ {0} /\ 2 ^ o + 2 ^ o <= 2 ^ q
    BY <1>6, PowerPositive, PowerGrows
  <2>. QED
    BY <1>1, <2>1 DEF Block
<1>. QED
  BY <1>3, <1>4, <1>5, <1>6

LEMMA HeadOfBlock ==
  ASSUME NEW k \in Nat, NEW order \in Nat, k <= order, NEW f \in Nat
  PROVE  Block(k, f) \subseteq Block(order, f) /\ f \in Block(k, f)
<1>1. 2 ^ k \in Nat \ {0} /\ 2 ^ order \in Nat \ {0} /\ 2 ^ k <= 2 ^ order
  BY PowerPositive, PowerGrows
<1>. QED
  BY <1>1 DEF Block

\* alloc_page hands out pages without references and leaves the zone exact, if
\* only those pages get one.
LEMMA AllocKeepsZone ==
  ASSUME NEW k \in Orders, NEW f \in Nat, alloc_page(k, f),
         free_list \in [Orders -> SUBSET Nat], ZoneExact,
         \A g \in Frames \ Block(k, f) : ref_num[g] = 0 => ref_num'[g] = 0
  PROVE  /\ free_list' \in [Orders -> SUBSET Nat]
         /\ ZoneExact'
         /\ f \in Block(k, f) /\ Block(k, f) \subseteq Frames
         /\ \A g \in Block(k, f) : ref_num[g] = 0
<1>1. PICK order \in Orders :
        /\ k <= order /\ f \in free_list[order]
        /\ free_list' = split_block(k, order, f)
  BY AllocPage
<1>2. \A o \in Orders : o \in Nat /\ 2 ^ o \in Nat \ {0}
  BY ConstantsTyped
<1>3. f % 2 ^ order = 0 /\ \A i \in Block(order, f) : i \in Frames /\ ref_num[i] = 0
  BY <1>1 DEF ZoneExact
<1>4. f \in Block(k, f) /\ Block(k, f) \subseteq Block(order, f)
  BY <1>1, <1>2, HeadOfBlock
<1>5. free_list' \in [Orders -> SUBSET Nat]
  <2>1. \A o \in Orders : f + 2 ^ o \in Nat
    BY <1>2
  <2>. QED
    BY <1>1, <2>1 DEF split_block
<1>6. ASSUME NEW o \in Orders, NEW g \in free_list'[o]
      PROVE  \/ g \in free_list[o] /\ <<o, g>> # <<order, f>>
             \/ k <= o /\ o < order /\ g = f + 2 ^ o
  <2>1. CASE o = order
    <3>1. free_list'[o] = free_list[o] \ {f}
      BY <1>1, <1>2, <2>1 DEF split_block
    <3>. QED
      BY <1>6, <3>1
  <2>2. CASE o # order /\ k <= o /\ o < order
    <3>1. free_list'[o] = free_list[o] \cup {f + 2 ^ o}
      BY <1>1, <2>2 DEF split_block
    <3>. QED
      BY <1>6, <2>2, <3>1
  <2>3. CASE o # order /\ ~(k <= o /\ o < order)
    <3>1. free_list'[o] = free_list[o]
      BY <1>1, <2>3 DEF split_block
    <3>. QED
      BY <1>6, <2>3, <3>1
  <2>. QED
    BY <2>1, <2>2, <2>3
<1>7. ASSUME NEW o \in Orders, k <= o, o < order
      PROVE  /\ (f + 2 ^ o) % 2 ^ o = 0
             /\ Block(o, f + 2 ^ o) \subseteq Block(order, f)
             /\ Block(o, f + 2 ^ o) \cap Block(k, f) = {}
             /\ \A q \in Orders : o < q =>
                  Block(o, f + 2 ^ o) \cap Block(q, f + 2 ^ q) = {}
  BY <1>2, <1>3, <1>7, SplitHalves
<1>8. ASSUME NEW o \in Orders, NEW g \in free_list[o], <<o, g>> # <<order, f>>
      PROVE  Block(o, g) \cap Block(order, f) = {}
  BY <1>1, <1>8 DEF ZoneExact
<1>9. ASSUME NEW o \in Orders, NEW g \in free_list'[o]
      PROVE  g % 2 ^ o = 0 /\ \A i \in Block(o, g) : i \in Frames /\ ref_num'[i] = 0
  <2>1. CASE g \in free_list[o] /\ <<o, g>> # <<order, f>>
    <3>1. g % 2 ^ o = 0 /\ \A i \in Block(o, g) : i \in Frames /\ ref_num[i] = 0
      BY <2>1 DEF ZoneExact
    <3>2. Block(o, g) \cap Block(k, f) = {}
      BY <2>1, <1>4, <1>8
    <3>. QED
      BY <3>1, <3>2
  <2>2. CASE k <= o /\ o < order /\ g = f + 2 ^ o
    BY <2>2, <1>3, <1>7
  <2>. QED
    BY <1>6, <2>1, <2>2
<1>10. ASSUME NEW o \in Orders, NEW q \in Orders,
              NEW g \in free_list'[o], NEW h \in free_list'[q], <<o, g>> # <<q, h>>
       PROVE  Block(o, g) \cap Block(q, h) = {}
  <2>1. CASE g \in free_list[o] /\ <<o, g>> # <<order, f>>
    <3>1. CASE h \in free_list[q] /\ <<q, h>> # <<order, f>>
      BY <2>1, <3>1, <1>10 DEF ZoneExact
    <3>2. CASE k <= q /\ q < order /\ h = f + 2 ^ q
      BY <2>1, <3>2, <1>7, <1>8
    <3>. QED
      BY <1>6, <3>1, <3>2
  <2>2. CASE k <= o /\ o < order /\ g = f + 2 ^ o
    <3>1. CASE h \in free_list[q] /\ <<q, h>> # <<order, f>>
      BY <2>2, <3>1, <1>7, <1>8
    <3>2. CASE k <= q /\ q < order /\ h = f + 2 ^ q
      <4>1. o < q \/ q < o
        BY <2>2, <3>2, <1>2, <1>10
      <4>. QED
        BY <2>2, <3>2, <4>1, <1>7
    <3>. QED
      BY <1>6, <3>1, <3>2
  <2>. QED
    BY <1>6, <2>1, <2>2
<1>11. ZoneExact'
  BY <1>9, <1>10 DEF ZoneExact
<1>. QED
  BY <1>3, <1>4, <1>5, <1>11

-----------------------------------------------------------------------------
(* Page tables and reference numbers.                                      *)

LEMMA FiniteImage ==
  ASSUME NEW S, NEW f, IsFiniteSet(S)
  PROVE  /\ IsFiniteSet({f[x] : x \in S})
         /\ Cardinality({f[x] : x \in S}) <= Cardinality(S)
<1>. DEFINE g == [x \in S |-> f[x]]
<1>1. g \in Surjection(S, {f[x] : x \in S})
  BY DEF Surjection
<1>. QED
  BY <1>1, FS_Surjection

LEMMA EntriesFinite ==
  /\ IsFiniteSet(VAs) /\ IsFiniteSet(Pids \X VAs)
  /\ Loads \in Seq(VAs)
  /\ \A f : IsFiniteSet(MapsTo(f)) /\ Cardinality(MapsTo(f)) \in Nat
<1>1. Image \in Seq(VAs) /\ IsFiniteSet(Heap) /\ MaxPid \in Nat /\ Stack \in VAs
  BY PagingAssumption DEF VAs
<1>2. DOMAIN Image = 1 .. Len(Image) /\ Len(Image) \in Nat
  BY <1>1
<1>3. IsFiniteSet({Image[i] : i \in DOMAIN Image})
  <2>1. 1 \in Int /\ Len(Image) \in Int
    BY <1>2
  <2>2. IsFiniteSet(1 .. Len(Image))
    BY <2>1, FS_Interval
  <2>. QED
    BY <1>2, <2>2, FiniteImage
<1>4. IsFiniteSet(VAs)
  BY <1>1, <1>3, FS_Singleton, FS_Union DEF VAs
<1>5. IsFiniteSet(Pids \X VAs)
  <2>1. 1 \in Int /\ MaxPid \in Int
    BY <1>1
  <2>2. IsFiniteSet(Pids)
    BY <2>1, FS_Interval DEF Pids
  <2>. QED
    BY <1>4, <2>2, FS_Product
<1>6. Loads \in Seq(VAs)
  BY <1>1 DEF Loads
<1>7. \A f : MapsTo(f) \in SUBSET (Pids \X VAs)
  BY DEF MapsTo
<1>. QED
  BY <1>4, <1>5, <1>6, <1>7, FS_Subset, FS_CardinalityType

LEMMA MapsMember ==
  ASSUME NEW p \in Pids, NEW va \in VAs, NEW f
  PROVE  /\ <<p, va>> \in MapsTo(f) <=> Maps(p, va, f)
         /\ (<<p, va>> \in MapsTo(f))' <=> Maps(p, va, f)'
BY DEF MapsTo

LEMMA EntryTyped ==
  ASSUME PagingTypeOK, NEW p \in Pids, NEW va \in VAs, pte[p][va] # None
  PROVE  pte[p][va] \in PTEs /\ pte[p][va].pfn \in Frames
<1>1. pte[p][va] \in PTEs
  BY DEF PagingTypeOK
<1>. QED
  BY <1>1 DEF PTEs

\* A page without references is in no page table and in no kernel stack.
LEMMA UnreferredIsFree ==
  ASSUME PageInv, NEW g \in Frames, ref_num[g] = 0
  PROVE  /\ MapsTo(g) = {}
         /\ \A p \in Pids : g \notin kernel_stacks[p]
         /\ \A p \in Pids : \A va \in VAs : ~Maps(p, va, g)
<1>1. Cardinality(MapsTo(g)) = 0
  BY EntriesFinite DEF PageInv, References
<1>2. MapsTo(g) = {}
  BY <1>1, EntriesFinite, FS_EmptySet
<1>3. \A p \in Pids : g \notin kernel_stacks[p]
  BY DEF PageInv, StacksHeld
<1>. QED
  BY <1>2, <1>3, MapsMember

\* The frames of a new kernel stack were not in use, and each gets a reference.
LEMMA KernelStackAllocated ==
  ASSUME PageInv, NEW p \in Pids, NEW f \in Frames, NEW ref \in [Frames -> Nat],
         alloc_kernel_stack(p, f, ref),
         \A g \in Frames : ref[g] >= ref_num[g] /\ (ref_num[g] = 0 => ref[g] = 0)
  PROVE  /\ \A g \in Frames : ref_num'[g] >= ref[g]
         /\ ref_num' \in [Frames -> Nat]
         /\ free_list' \in [Orders -> SUBSET Nat]
         /\ kernel_stacks' \in [Pids -> SUBSET Frames]
         /\ ZoneExact' /\ StacksHeld'
         /\ (\A g \in Frames : MapsTo(g) = {} => MapsTo(g)' = {}) => KernelStackApart'
<1>. DEFINE k == KernelStackOrder
            B == Block(k, f)
<1>1. k \in Orders /\ f \in Nat
  BY ConstantsTyped DEF alloc_kernel_stack, alloc_page, Orders, KernelStackOrder
<1>2. /\ alloc_page(k, f)
      /\ ref_num' = [g \in Frames |-> ref[g] + IF g \in B THEN 1 ELSE 0]
      /\ kernel_stacks' = [kernel_stacks EXCEPT ![p] = @ \cup B]
  BY DEF alloc_kernel_stack, RefBlock
<1>. HIDE DEF k, B
<1>3. ref_num' \in [Frames -> Nat] /\ \A g \in Frames : ref_num'[g] >= ref[g]
  BY <1>2
<1>4. \A g \in Frames \ B : ref_num[g] = 0 => ref_num'[g] = 0
  BY <1>2
<1>5. /\ free_list' \in [Orders -> SUBSET Nat] /\ ZoneExact'
      /\ B \subseteq Frames /\ \A g \in B : ref_num[g] = 0
  BY <1>1, <1>2, <1>4, AllocKeepsZone DEF PageInv, PagingTypeOK, B
<1>6. kernel_stacks' \in [Pids -> SUBSET Frames]
  BY <1>2, <1>5 DEF PageInv, PagingTypeOK
<1>7. ASSUME NEW q \in Pids, NEW g \in kernel_stacks'[q] PROVE ref_num'[g] > 0
  <2>0. g \in Frames /\ ref[g] \in Nat /\ ref_num[g] \in Nat
    BY <1>6, <1>7 DEF PageInv, PagingTypeOK
  <2>1. CASE g \in B
    BY <2>0, <2>1, <1>2, <1>5
  <2>2. CASE g \in kernel_stacks[q]
    BY <2>0, <2>2, <1>3 DEF PageInv, StacksHeld
  <2>. QED
    BY <2>1, <2>2, <1>2, <1>7 DEF PageInv, PagingTypeOK
<1>8. StacksHeld'
  BY <1>7 DEF StacksHeld
<1>9. ASSUME NEW q \in Pids, NEW g \in kernel_stacks'[q]
      PROVE  MapsTo(g) = {} /\ \A r \in Pids \ {q} : g \notin kernel_stacks'[r]
  <2>1. CASE g \in B
    <3>1. MapsTo(g) = {} /\ \A r \in Pids : g \notin kernel_stacks[r]
      BY <1>5, <2>1, UnreferredIsFree
    <3>2. q = p
      BY <1>2, <1>9, <3>1 DEF PageInv, PagingTypeOK
    <3>. QED
      BY <1>2, <3>1, <3>2 DEF PageInv, PagingTypeOK
  <2>2. CASE g \notin B
    BY <1>2, <1>9, <2>2 DEF PageInv, KernelStackApart, PagingTypeOK
  <2>. QED
    BY <2>1, <2>2
<1>10. ASSUME \A g \in Frames : MapsTo(g) = {} => MapsTo(g)' = {}
       PROVE  KernelStackApart'
  BY <1>6, <1>9, <1>10 DEF KernelStackApart
<1>. QED
  BY <1>3, <1>5, <1>6, <1>8, <1>10

\* An assignment to one entry of a table of tables.
LEMMA TableUpdate ==
  ASSUME NEW A, NEW B, NEW T, NEW t \in [A -> [B -> T]],
         NEW a \in A, NEW b \in B, NEW x \in T,
         NEW u, u = [t EXCEPT ![a][b] = x]
  PROVE  /\ u \in [A -> [B -> T]] /\ u[a][b] = x
         /\ \A c \in A, d \in B : c # a \/ d # b => u[c][d] = t[c][d]
OBVIOUS

LEMMA PteUpdate ==
  ASSUME PagingTypeOK, NEW p \in Pids, NEW va \in VAs, NEW d \in PTEs,
         pte' = [pte EXCEPT ![p][va] = d]
  PROVE  /\ pte' \in [Pids -> [VAs -> PTEs \cup {None}]] /\ pte'[p][va] = d
         /\ \A q \in Pids, vb \in VAs : q # p \/ vb # va => pte'[q][vb] = pte[q][vb]
<1>1. pte \in [Pids -> [VAs -> PTEs \cup {None}]] /\ d \in PTEs \cup {None}
  BY DEF PagingTypeOK
<1>. QED
  BY <1>1, TableUpdate

-----------------------------------------------------------------------------
(* The steps.                                                              *)

\* A conjunct holds on where nothing that it speaks of changes.
LEMMA Untouched ==
  ASSUME PageInv
  PROVE  /\ UNCHANGED buddyVars => ZoneExact'
         /\ UNCHANGED pte => \A f : MapsTo(f)' = MapsTo(f)
         /\ UNCHANGED <<pte, alive, loading, coreVars>> => DeadHaveNothing'
         /\ UNCHANGED <<pte, ref_num>> => References'
         /\ UNCHANGED pte => UnforkedIsAlone'
         /\ UNCHANGED <<ref_num, kernel_stacks>> => StacksHeld'
         /\ UNCHANGED <<pte, kernel_stacks>> => KernelStackApart'
         /\ UNCHANGED <<pte, mem_info, alive, process_id>> => MemInfoValid'
         /\ fate' # "swapped" => SwapsOnlyOrphans'
         /\ fate = "ok" /\ UNCHANGED <<pte, alive, memVars>> => PrivateMemory'
<1>1. UNCHANGED buddyVars => ZoneExact'
  BY DEF PageInv, ZoneExact, buddyVars
<1>2. UNCHANGED pte => \A f : MapsTo(f)' = MapsTo(f)
  BY DEF MapsTo, Maps
<1>3. UNCHANGED <<pte, alive, loading, coreVars>> => DeadHaveNothing'
  BY DEF PageInv, DeadHaveNothing, coreVars
<1>4. UNCHANGED <<pte, ref_num>> => References'
  BY <1>2 DEF PageInv, References
<1>5. UNCHANGED pte => UnforkedIsAlone'
  BY <1>2 DEF PageInv, UnforkedIsAlone
<1>6. UNCHANGED <<ref_num, kernel_stacks>> => StacksHeld'
  BY DEF PageInv, StacksHeld
<1>7. UNCHANGED <<pte, kernel_stacks>> => KernelStackApart'
  BY <1>2 DEF PageInv, KernelStackApart
<1>8. UNCHANGED <<pte, mem_info, alive, process_id>> => MemInfoValid'
  BY DEF PageInv, MemInfoValid
<1>9. fate' # "swapped" => SwapsOnlyOrphans'
  BY DEF SwapsOnlyOrphans
<1>10. fate = "ok" /\ UNCHANGED <<pte, alive, memVars>> => PrivateMemory'
  BY DEF PageInv, PrivateMemory, memVars
<1>. QED
  BY <1>1, <1>2, <1>3, <1>4, <1>5, <1>6, <1>7, <1>8, <1>9, <1>10

LEMMA PagingStutters ==
  ASSUME PageInv, UNCHANGED vars
  PROVE  PageInv'
<1>. USE DEF vars, buddyVars, tableVars, coreVars, memVars
<1>1. PagingTypeOK'
  BY DEF PageInv, PagingTypeOK
<1>2. SwapsOnlyOrphans' /\ PrivateMemory'
  BY DEF PageInv, SwapsOnlyOrphans, PrivateMemory
<1>. QED
  BY <1>1, <1>2, Untouched DEF PageInv

LEMMA ExhaustedStep ==
  ASSUME PageInv, fate = "ok", NEW k, Exhausted(k)
  PROVE  PageInv'
<1>. USE DEF Exhausted, buddyVars, tableVars, coreVars, memVars
<1>1. PagingTypeOK'
  BY DEF PageInv, PagingTypeOK
<1>. QED
  BY <1>1, Untouched DEF PageInv

\* Too many entries of mem_info that are not valid: one of them is an orphan.
LEMMA CheckPageFullStep ==
  ASSUME PageInv, fate = "ok", NEW p \in alive, check_page_full(p)
  PROVE  PageInv'
<1>. USE DEF check_page_full, buddyVars, tableVars, coreVars, memVars
<1>1. PagingTypeOK'
  BY DEF PageInv, PagingTypeOK
<1>2. PICK m \in mem_info[p] : pte[m[1]][m[2]] = None
  <2>. DEFINE S == {m \in mem_info[p] : pte[m[1]][m[2]] = None}
  <2>0. S \in SUBSET (Pids \X VAs)
    BY DEF PageInv, PagingTypeOK
  <2>1. Cardinality(S) \in Nat /\ Cardinality(S) > PROC_MAX_PAGE_NUM
    BY <2>0, EntriesFinite, FS_Subset, FS_CardinalityType DEF get_pcb_page_num
  <2>2. S # {}
    <3>. HIDE DEF S
    <3>1. Cardinality(S) # 0
      BY <2>1, PagingAssumption
    <3>. QED
      BY <3>1, FS_EmptySet
  <2>. QED
    BY <2>2
<1>3. m[1] \notin alive
  BY <1>2 DEF PageInv, MemInfoValid, PagingTypeOK
<1>4. SwapsOnlyOrphans'
  BY <1>3 DEF SwapsOnlyOrphans
<1>. QED
  BY <1>1, <1>4, PagingStutters, Untouched DEF PageInv

LEMMA ExecStep ==
  ASSUME PageInv, fate = "ok", NEW c \in CPUs, do_exec(c)
  PROVE  PageInv'
<1>1. CASE Exhausted(KernelStackOrder)
  BY <1>1, ExhaustedStep
<1>2. ASSUME NEW f \in Frames,
             /\ alloc_kernel_stack(process_id, f, ref_num)
             /\ alive' = alive \cup {process_id}
             /\ process_id' = process_id + 1
             /\ loading' = <<process_id, 1>>
             /\ UNCHANGED <<pte, mem_info, child_t_num, coreVars, memVars, fate>>
      PROVE  PageInv'
  <2>. USE DEF coreVars, memVars
  <2>1. process_id \in Pids /\ process_id \notin alive /\ PagingTypeOK
    BY PagingAssumption, SMTT(60) DEF do_exec, Pids, PageInv, PagingTypeOK
  <2>2. /\ \A g \in Frames : ref_num'[g] >= ref_num[g]
        /\ ref_num' \in [Frames -> Nat]
        /\ free_list' \in [Orders -> SUBSET Nat]
        /\ kernel_stacks' \in [Pids -> SUBSET Frames]
        /\ ZoneExact' /\ StacksHeld'
        /\ (\A g \in Frames : MapsTo(g) = {} => MapsTo(g)' = {}) => KernelStackApart'
    <3>1. ref_num \in [Frames -> Nat] /\ \A g \in Frames : ref_num[g] >= ref_num[g]
      BY <2>1 DEF PagingTypeOK
    <3>. QED
      BY <1>2, <2>1, <3>1, KernelStackAllocated
  <2>3. PagingTypeOK'
    <3>1. process_id' \in 1 .. MaxPid + 1 /\ alive' \subseteq {p \in Pids : p < process_id'}
      <4>1. /\ process_id \in Int /\ 1 <= process_id /\ process_id <= MaxPid
            /\ MaxPid \in Int
        BY <2>1, PagingAssumption DEF Pids
      <4>2. \A p \in alive : p \in Pids /\ p \in Int /\ p < process_id
        BY <2>1 DEF PagingTypeOK, Pids
      <4>. QED
        BY <1>2, <2>1, <4>1, <4>2
    <3>2. loading' \in Pids \X DOMAIN Loads
      <4>1. Image \in Seq(VAs)
        BY PagingAssumption
      <4>2. 1 \in DOMAIN Loads
        BY <4>1 DEF Loads
      <4>. QED
        BY <1>2, <2>1, <4>2
    <3>. QED
      BY <1>2, <2>1, <2>2, <3>1, <3>2 DEF PagingTypeOK
  <2>4. DeadHaveNothing'
    BY <1>2, <2>1 DEF PageInv, DeadHaveNothing
  <2>5. References'
    <3>1. \A g \in Frames : MapsTo(g)' = MapsTo(g)
      BY <1>2, Untouched
    <3>. QED
      BY <2>1, <2>2, <3>1, EntriesFinite DEF PageInv, References, PagingTypeOK
  <2>6. KernelStackApart'
    <3>1. \A g : MapsTo(g)' = MapsTo(g)
      BY <1>2, Untouched
    <3>. QED
      BY <2>2, <3>1
  <2>7. MemInfoValid'
    BY <1>2, <2>1 DEF PageInv, MemInfoValid, PagingTypeOK, Pids
  <2>8. PrivateMemory'
    BY <1>2, <2>1 DEF PageInv, PrivateMemory, DeadHaveNothing, Empty
  <2>. QED
    BY <1>2, <2>2, <2>3, <2>4, <2>5, <2>6, <2>7, <2>8, Untouched DEF PageInv
<1>. QED
  BY <1>1, <1>2 DEF do_exec

LEMMA ThreadCreateStep ==
  ASSUME PageInv, fate = "ok", NEW c \in CPUs, do_thread_create(c)
  PROVE  PageInv'
<1>1. CASE Exhausted(KernelStackOrder)
  BY <1>1, ExhaustedStep
<1>2. ASSUME NEW f \in Frames,
             /\ alloc_kernel_stack(running[c], f, ref_num)
             /\ child_t_num' = [child_t_num EXCEPT ![running[c]] = @ + 1]
             /\ UNCHANGED <<process_id, alive, pte, mem_info, coreVars, memVars, loading, fate>>
      PROVE  PageInv'
  <2>. USE DEF coreVars, memVars
  <2>1. running[c] \in Pids /\ PagingTypeOK
    BY DEF do_thread_create, Calls, PageInv, PagingTypeOK
  <2>2. /\ \A g \in Frames : ref_num'[g] >= ref_num[g]
        /\ ref_num' \in [Frames -> Nat]
        /\ free_list' \in [Orders -> SUBSET Nat]
        /\ kernel_stacks' \in [Pids -> SUBSET Frames]
        /\ ZoneExact' /\ StacksHeld'
        /\ (\A g \in Frames : MapsTo(g) = {} => MapsTo(g)' = {}) => KernelStackApart'
    <3>1. ref_num \in [Frames -> Nat] /\ \A g \in Frames : ref_num[g] >= ref_num[g]
      BY <2>1 DEF PagingTypeOK
    <3>. QED
      BY <1>2, <2>1, <3>1, KernelStackAllocated
  <2>3. PagingTypeOK'
    BY <1>2, <2>1, <2>2 DEF PagingTypeOK
  <2>4. \A g : MapsTo(g)' = MapsTo(g)
    BY <1>2, Untouched
  <2>5. References'
    BY <2>1, <2>2, <2>4, EntriesFinite DEF PageInv, References, PagingTypeOK
  <2>6. KernelStackApart'
    BY <2>2, <2>4
  <2>. QED
    BY <1>2, <2>2, <2>3, <2>5, <2>6, Untouched DEF PageInv
<1>. QED
  BY <1>1, <1>2 DEF do_thread_create

\* A process that leaves: its entries go, its references stay.
LEMMA PcbClearStep ==
  ASSUME PageInv, fate = "ok", NEW c \in CPUs, NEW p \in Pids,
         loading = None, pcb_clear(c, p)
  PROVE  PageInv'
<1>. USE DEF pcb_clear, buddyVars
<1>1. PagingTypeOK /\ Empty \in [VAs -> PTEs \cup {None}]
  BY DEF PageInv, PagingTypeOK, Empty
<1>2. pte'[p] = Empty /\ \A q \in Pids \ {p} : pte'[q] = pte[q]
  BY <1>1 DEF PagingTypeOK
<1>3. PagingTypeOK'
  <2>1. Empty \in [VAs -> Frames \cup {None}] /\ Empty \in [VAs -> Contents \cup {None}]
    BY DEF Empty
  <2>. QED
    BY <1>1, <2>1 DEF PagingTypeOK
<1>4. \A g : MapsTo(g)' \in SUBSET MapsTo(g)
  <2>1. ASSUME NEW g, NEW q \in Pids, NEW va \in VAs, Maps(q, va, g)'
        PROVE  Maps(q, va, g)
    BY <1>1, <1>2, <2>1 DEF Maps, Empty
  <2>. QED
    BY <2>1 DEF MapsTo
<1>5. DeadHaveNothing'
  <2>1. \A d \in CPUs : running'[d] # 0 => running'[d] \in alive'
    BY <1>1 DEF PageInv, DeadHaveNothing, PagingTypeOK
  <2>2. \A d \in CPUs : running'[d] = 0 => tlb'[d] = Empty
    BY <1>1 DEF PageInv, DeadHaveNothing, PagingTypeOK, Pids
  <2>3. \A q \in Pids \ alive' : pte'[q] = Empty
    BY <1>2 DEF PageInv, DeadHaveNothing
  <2>. QED
    BY <2>1, <2>2, <2>3 DEF DeadHaveNothing
<1>6. References'
  <2>1. ASSUME NEW g \in Frames PROVE ref_num'[g] >= Cardinality(MapsTo(g)')
    <3>1. Cardinality(MapsTo(g)') \in Nat /\ Cardinality(MapsTo(g)') <= Cardinality(MapsTo(g))
      BY <1>4, EntriesFinite, FS_Subset, FS_CardinalityType
    <3>. QED
      BY <1>1, <3>1, EntriesFinite DEF PageInv, References, PagingTypeOK
  <2>. QED
    BY <2>1 DEF References
<1>7. UnforkedIsAlone'
  <2>1. ASSUME NEW q \in Pids, NEW va \in VAs, NEW e, e = pte'[q][va], e # None
        PROVE  /\ e.w = ~e.forked
               /\ ~e.forked => MapsTo(e.pfn)' = {<<q, va>>}
    <3>1. q # p /\ e = pte[q][va]
      BY <1>1, <1>2, <2>1 DEF Empty
    <3>2. /\ e.w = ~e.forked
          /\ ~e.forked => MapsTo(e.pfn) = {<<q, va>>}
      BY <2>1, <3>1 DEF PageInv, UnforkedIsAlone
    <3>3. <<q, va>> \in MapsTo(e.pfn)'
      BY <2>1, <3>1 DEF MapsTo, Maps
    <3>4. MapsTo(e.pfn)' \in SUBSET MapsTo(e.pfn)
      BY <1>4
    <3>. QED
      BY <3>2, <3>3, <3>4
  <2>. QED
    BY <2>1 DEF UnforkedIsAlone
<1>8. KernelStackApart'
  BY <1>4 DEF PageInv, KernelStackApart
<1>9. MemInfoValid'
  BY <1>1, <1>2 DEF PageInv, MemInfoValid, PagingTypeOK
<1>10. PrivateMemory'
  BY <1>1, <1>2 DEF PageInv, PrivateMemory, PagingTypeOK, Empty
<1>. QED
  BY <1>3, <1>5, <1>6, <1>7, <1>8, <1>9, <1>10, Untouched DEF PageInv

LEMMA SwitchStep ==
  ASSUME PageInv, fate = "ok", NEW c \in CPUs, switch_to_wrap(c)
  PROVE  PageInv'
<1>. USE DEF switch_to_wrap, buddyVars, tableVars, memVars
<1>1. PagingTypeOK'
  <2>1. Empty \in [VAs -> Frames \cup {None}]
    BY DEF Empty
  <2>. QED
    BY <2>1 DEF PageInv, PagingTypeOK
<1>2. DeadHaveNothing'
  BY DEF PageInv, PagingTypeOK, DeadHaveNothing
<1>. QED
  BY <1>1, <1>2, Untouched DEF PageInv

LEMMA TlbStep ==
  ASSUME PageInv, fate = "ok", NEW c \in CPUs, NEW va \in VAs,
         Walk(c, va) \/ Evict(c, va)
  PROVE  PageInv'
<1>. USE DEF Walk, Evict, buddyVars, tableVars, memVars
<1>1. PagingTypeOK'
  <2>1. CASE Walk(c, va)
    <3>1. pte[running[c]][va] \in PTEs
      BY <2>1 DEF PageInv, PagingTypeOK
    <3>2. pte[running[c]][va].pfn \in Frames
      BY <3>1 DEF PTEs
    <3>. QED
      BY <2>1, <3>2 DEF PageInv, PagingTypeOK
  <2>2. CASE Evict(c, va)
    BY <2>2 DEF PageInv, PagingTypeOK
  <2>. QED
    BY <2>1, <2>2
<1>2. DeadHaveNothing'
  <2>1. running[c] # 0
    BY DEF PageInv, PagingTypeOK, DeadHaveNothing, Empty
  <2>2. \A d \in CPUs \ {c} : tlb'[d] = tlb[d]
    BY DEF PageInv, PagingTypeOK
  <2>. QED
    BY <2>1, <2>2 DEF PageInv, DeadHaveNothing
<1>. QED
  BY <1>1, <1>2, Untouched DEF PageInv

\* A store through an entry that permits it meets no other entry of the frame.
LEMMA StoreStep ==
  ASSUME PageInv, fate = "ok", NEW c \in CPUs, NEW va \in VAs, NEW v \in Values,
         Store(c, va, v)
  PROVE  PageInv'
<1>. USE DEF Store, buddyVars, tableVars, coreVars
<1>. DEFINE p == running[c]
            f == tlb[c][va]
<1>1. p \in Pids /\ p \in alive /\ f \in Frames /\ PagingTypeOK
  BY DEF PageInv, PagingTypeOK, DeadHaveNothing, Empty
<1>2. PagingTypeOK'
  BY <1>1 DEF PagingTypeOK, Contents
<1>3. PrivateMemory'
  <2>1. SUFFICES ASSUME fate' # "leaked", NEW q \in alive, NEW vb \in VAs,
                        pte[q][vb] # None
                 PROVE  page'[pte[q][vb].pfn] = mem'[q][vb]
    BY DEF PrivateMemory
  <2>2. Maps(p, va, f) /\ pte[p][va].w
    BY <2>1
  <2>3. MapsTo(f) = {<<p, va>>} /\ pte[p][va].pfn = f
    BY <1>1, <2>2 DEF Maps, PageInv, UnforkedIsAlone
  <2>4. q \in Pids /\ pte[q][vb] \in PTEs /\ pte[q][vb].pfn \in Frames
    BY <1>1, <2>1 DEF PagingTypeOK, PTEs
  <2>5. page[pte[q][vb].pfn] = mem[q][vb]
    BY <2>1 DEF PageInv, PrivateMemory
  <2>6. CASE q = p /\ vb = va
    BY <1>1, <2>3, <2>6 DEF PagingTypeOK
  <2>7. CASE ~(q = p /\ vb = va)
    <3>1. pte[q][vb].pfn # f
      <4>1. <<q, vb>> # <<p, va>>
        BY <2>7
      <4>. QED
        BY <2>1, <2>3, <2>4, <4>1 DEF MapsTo, Maps
    <3>. QED
      BY <1>1, <2>4, <2>5, <2>7, <3>1 DEF PagingTypeOK
  <2>. QED
    BY <2>6, <2>7
<1>. QED
  BY <1>2, <1>3, Untouched DEF PageInv

\* One page handed out: it was not in use, and it gets a reference.
LEMMA PageAllocated ==
  ASSUME PageInv, NEW f \in Frames, NEW ref \in [Frames -> Nat],
         alloc_page(0, f), ref_num' = RefBlock(ref, 0, f),
         \A g \in Frames : ref_num[g] = 0 => ref[g] = 0
  PROVE  /\ ref_num[f] = 0 /\ ref_num'[f] = 1
         /\ \A g \in Frames \ {f} : ref_num'[g] = ref[g]
         /\ ref_num' \in [Frames -> Nat]
         /\ free_list' \in [Orders -> SUBSET Nat]
         /\ ZoneExact'
<1>1. 0 \in Orders /\ f \in Nat /\ ref[f] \in Nat
  BY ConstantsTyped DEF Orders
<1>2. Block(0, f) = {f}
  <2>1. 2 ^ 0 = 1
    <3>1. 1 \in Int /\ 0 \in Int /\ 0 \in Nat /\ 0 - 1 + 1 = 0 /\ 1 .. 0 = {}
      OBVIOUS
    <3>2. Cardinality(SUBSET (1 .. 0)) = 2 ^ 0
      BY <3>1, SubsetsOfInterval
    <3>3. SUBSET (1 .. 0) = {{}}
      BY <3>1
    <3>. QED
      BY <3>2, <3>3, FS_Singleton
  <2>. QED
    BY <1>1, <2>1 DEF Block
<1>3. ref_num' = [g \in Frames |-> ref[g] + IF g = f THEN 1 ELSE 0]
  BY <1>2 DEF RefBlock
<1>4. \A g \in Frames \ Block(0, f) : ref_num[g] = 0 => ref_num'[g] = 0
  BY <1>2, <1>3
<1>5. /\ free_list' \in [Orders -> SUBSET Nat] /\ ZoneExact'
      /\ ref_num[f] = 0
  BY <1>1, <1>2, <1>4, AllocKeepsZone DEF PageInv, PagingTypeOK
<1>. QED
  BY <1>1, <1>3, <1>5

\* A page is mapped: its frame was in no table, no stack and no TLB's reach.
LEMMA MapPageStep ==
  ASSUME PageInv, fate = "ok", NEW p \in alive, NEW va \in VAs, NEW f \in Frames,
         NEW pin \in BOOLEAN, NEW found \in Contents,
         alloc_page_helper(p, va, f, pin, found), UNCHANGED coreVars,
         page' = [page EXCEPT ![f] = found],
         loading' # None => loading' \in Pids \X DOMAIN Loads /\ loading'[1] \in alive
  PROVE  PageInv'
<1>. USE DEF alloc_page_helper, coreVars
<1>. DEFINE e == Pte(f, TRUE, FALSE, pin)
<1>1. PagingTypeOK /\ p \in Pids
  BY DEF PageInv, PagingTypeOK
<1>2. /\ ref_num[f] = 0 /\ ref_num'[f] = 1
      /\ \A g \in Frames \ {f} : ref_num'[g] = ref_num[g]
      /\ ref_num' \in [Frames -> Nat]
      /\ free_list' \in [Orders -> SUBSET Nat]
      /\ ZoneExact'
  BY <1>1, PageAllocated DEF PagingTypeOK
<1>3. e \in PTEs /\ e # None /\ e.pfn = f /\ e.w /\ ~e.forked
  <2>1. e \in PTEs /\ e.pfn = f
    BY DEF PTEs, Pte
  <2>2. e.w /\ ~e.forked
    BY Zenon DEF Pte
  <2>. QED
    BY <2>1, <2>2, PagingAssumption
<1>. HIDE DEF e
<1>4. pte' = [pte EXCEPT ![p][va] = e]
  BY DEF e
<1>5. /\ pte' \in [Pids -> [VAs -> PTEs \cup {None}]] /\ pte'[p][va] = e
      /\ \A q \in Pids, vb \in VAs : q # p \/ vb # va => pte'[q][vb] = pte[q][vb]
  <2>1. pte \in [Pids -> [VAs -> PTEs \cup {None}]] /\ e \in PTEs \cup {None}
    BY <1>1, <1>3 DEF PagingTypeOK
  <2>. HIDE DEF alloc_page_helper, coreVars
  <2>. QED
    BY <1>1, <1>4, <2>1, TableUpdate
<1>6. /\ mem'[p][va] = found
      /\ \A q \in Pids, vb \in VAs : q # p \/ vb # va => mem'[q][vb] = mem[q][vb]
      /\ mem' \in [Pids -> [VAs -> Contents \cup {None}]]
  <2>1. mem \in [Pids -> [VAs -> Contents \cup {None}]] /\ found \in Contents \cup {None}
    BY <1>1 DEF PagingTypeOK
  <2>. QED
    BY <1>1, <2>1, TableUpdate
<1>7. PagingTypeOK'
  <2>1. mem_info' \in [Pids -> SUBSET (Pids \X VAs)]
    BY <1>1 DEF PagingTypeOK
  <2>2. page' \in [Frames -> Contents]
    BY <1>1 DEF PagingTypeOK
  <2>3. UNCHANGED <<process_id, alive, kernel_stacks, child_t_num, running, tlb>>
    OBVIOUS
  <2>4. loading' # None => loading' \in Pids \X DOMAIN Loads
    OBVIOUS
  <2>. HIDE DEF alloc_page_helper, coreVars
  <2>. QED
    BY <1>1, <1>2, <1>5, <1>6, <2>1, <2>2, <2>3, <2>4 DEF PagingTypeOK
<1>8. MapsTo(f) = {} /\ MapsTo(f)' = {<<p, va>>}
  <2>1. MapsTo(f) = {}
    BY <1>2, UnreferredIsFree
  <2>2. ASSUME NEW q \in Pids, NEW vb \in VAs
        PROVE  Maps(q, vb, f)' <=> <<q, vb>> = <<p, va>>
    <3>1. ~Maps(q, vb, f)
      BY <1>2, UnreferredIsFree
    <3>. QED
      BY <1>3, <1>5, <3>1 DEF Maps
  <2>. QED
    BY <1>1, <2>1, <2>2 DEF MapsTo
<1>9. \A g \in Frames \ {f} : MapsTo(g)' = MapsTo(g)
  <2>1. ASSUME NEW g \in Frames \ {f}, NEW q \in Pids, NEW vb \in VAs
        PROVE  Maps(q, vb, g)' <=> Maps(q, vb, g)
    BY <1>1, <1>3, <1>5 DEF Maps
  <2>. QED
    BY <2>1 DEF MapsTo
<1>10. DeadHaveNothing'
  BY <1>1, <1>5 DEF PageInv, DeadHaveNothing, PagingTypeOK
<1>11. References'
  <2>1. ref_num'[f] >= Cardinality(MapsTo(f)')
    <3>1. Cardinality(MapsTo(f)') = 1
      BY <1>8, FS_Singleton
    <3>. QED
      BY <1>2, <3>1
  <2>. QED
    BY <1>2, <1>9, <2>1 DEF PageInv, References
<1>12. UnforkedIsAlone'
  <2>1. ASSUME NEW q \in Pids, NEW vb \in VAs, NEW d, d = pte'[q][vb], d # None
        PROVE  /\ d.w = ~d.forked
               /\ ~d.forked => MapsTo(d.pfn)' = {<<q, vb>>}
    <3>1. CASE q = p /\ vb = va
      BY <1>3, <1>5, <1>8, <2>1, <3>1, ZenonT(60)
    <3>2. CASE q # p \/ vb # va
      <4>1. d = pte[q][vb] /\ d \in PTEs /\ d.pfn \in Frames
        BY <1>1, <1>5, <2>1, <3>2, EntryTyped
      <4>2. d.pfn # f
        BY <1>2, <2>1, <4>1, UnreferredIsFree, ZenonT(60) DEF Maps
      <4>3. MapsTo(d.pfn)' = MapsTo(d.pfn)
        BY <1>9, <4>1, <4>2
      <4>. QED
        BY <2>1, <4>1, <4>3, ZenonT(60) DEF PageInv, UnforkedIsAlone
    <3>. QED
      BY <3>1, <3>2
  <2>. QED
    BY <2>1 DEF UnforkedIsAlone
<1>13. StacksHeld' /\ KernelStackApart'
  <2>1. ASSUME NEW q \in Pids, NEW g \in kernel_stacks[q] PROVE g \in Frames /\ g # f
    BY <1>1, <1>2, <2>1, UnreferredIsFree DEF PagingTypeOK
  <2>2. StacksHeld'
    BY <1>2, <2>1 DEF PageInv, StacksHeld
  <2>3. KernelStackApart'
    BY <1>9, <2>1 DEF PageInv, KernelStackApart
  <2>. QED
    BY <2>2, <2>3
<1>14. MemInfoValid'
  <2>1. ASSUME NEW q \in Pids, NEW m \in mem_info'[q]
        PROVE  m[1] < process_id /\ (m[1] \in alive => pte'[m[1]][m[2]] # None)
    <3>1. CASE m \in mem_info[q]
      <4>1. m \in Pids \X VAs
        BY <1>1, <3>1 DEF PagingTypeOK
      <4>2. m[1] < process_id /\ (m[1] \in alive => pte[m[1]][m[2]] # None)
        BY <3>1 DEF PageInv, MemInfoValid
      <4>. QED
        BY <1>3, <1>5, <4>1, <4>2
    <3>2. CASE m = <<p, va>>
      BY <1>1, <1>3, <1>5, <3>2 DEF PagingTypeOK
    <3>. QED
      BY <1>1, <2>1, <3>1, <3>2 DEF PagingTypeOK
  <2>. QED
    BY <2>1 DEF MemInfoValid
<1>15. PrivateMemory'
  <2>1. ASSUME NEW q \in alive, NEW vb \in VAs, pte'[q][vb] # None
        PROVE  page'[pte'[q][vb].pfn] = mem'[q][vb]
    <3>0. q \in Pids
      BY <1>1 DEF PagingTypeOK
    <3>1. CASE q = p /\ vb = va
      BY <1>1, <1>3, <1>5, <1>6, <3>1 DEF PagingTypeOK
    <3>2. CASE q # p \/ vb # va
      <4>1. pte'[q][vb] = pte[q][vb] /\ pte[q][vb] \in PTEs /\ pte[q][vb].pfn \in Frames
        BY <1>1, <1>5, <2>1, <3>0, <3>2, EntryTyped
      <4>2. pte[q][vb].pfn # f
        BY <1>2, <2>1, <3>0, <4>1, UnreferredIsFree DEF Maps
      <4>3. page[pte[q][vb].pfn] = mem[q][vb]
        BY <2>1, <4>1 DEF PageInv, PrivateMemory
      <4>. QED
        BY <1>1, <1>6, <3>0, <3>2, <4>1, <4>2, <4>3 DEF PagingTypeOK
    <3>. QED
      BY <3>1, <3>2
  <2>. QED
    BY <2>1 DEF PrivateMemory
<1>. QED
  BY <1>2, <1>7, <1>10, <1>11, <1>12, <1>13, <1>14, <1>15, Untouched DEF PageInv

LEMMA LoadPageStep ==
  ASSUME PageInv, fate = "ok", LoadPage
  PROVE  PageInv'
<1>. DEFINE p == loading[1]
            i == loading[2]
<1>1. /\ loading # None /\ loading \in Pids \X DOMAIN Loads
      /\ p \in alive /\ p \in Pids /\ i \in DOMAIN Loads
  BY DEF LoadPage, PageInv, PagingTypeOK, DeadHaveNothing
<1>2. CASE Exhausted(0)
  BY <1>2, ExhaustedStep
<1>3. ASSUME NEW f \in Frames,
             /\ alloc_page_helper(p, Loads[i], f, i \in DOMAIN Image, Program)
             /\ page' = [page EXCEPT ![f] = Program]
             /\ loading' = IF i = Len(Loads) THEN None ELSE <<p, i + 1>>
             /\ UNCHANGED coreVars
      PROVE  PageInv'
  <2>1. Loads[i] \in VAs
    BY <1>1, EntriesFinite
  <2>2. Program \in Contents /\ (i \in DOMAIN Image) \in BOOLEAN
    BY DEF Contents
  <2>3. loading' # None => loading' \in Pids \X DOMAIN Loads /\ loading'[1] \in alive
    BY <1>1, <1>3, EntriesFinite
  <2>. QED
    BY <1>1, <1>3, <2>1, <2>2, <2>3, MapPageStep
<1>. QED
  BY <1>2, <1>3 DEF LoadPage

LEMMA PageFaultStep ==
  ASSUME PageInv, fate = "ok", NEW c \in CPUs, NEW va \in VAs,
         handle_page_fault_rd(c, va)
  PROVE  PageInv'
<1>. DEFINE p == running[c]
<1>1. p \in alive /\ loading = None /\ page \in [Frames -> Contents]
  BY DEF handle_page_fault_rd, Calls, PageInv, PagingTypeOK, DeadHaveNothing
<1>2. CASE check_page_full(p)
  BY <1>1, <1>2, CheckPageFullStep
<1>3. CASE Exhausted(0)
  BY <1>3, ExhaustedStep
<1>4. ASSUME NEW f \in Frames,
             /\ alloc_page_helper(p, va, f, FALSE, page[f])
             /\ UNCHANGED <<coreVars, page, loading>>
      PROVE  PageInv'
  <2>1. page[f] \in Contents /\ FALSE \in BOOLEAN
    BY <1>1
  <2>2. page' = [page EXCEPT ![f] = page[f]]
    BY <1>1, <1>4
  <2>3. loading' # None => loading' \in Pids \X DOMAIN Loads /\ loading'[1] \in alive
    BY <1>1, <1>4
  <2>. QED
    BY <1>1, <1>4, <2>1, <2>2, <2>3, MapPageStep
<1>. QED
  BY <1>2, <1>3, <1>4 DEF handle_page_fault_rd

\* The two assignments of cow_try_eliminate to an entry.
LEMMA EntryUnforked ==
  ASSUME PagingTypeOK, NEW p \in Pids, NEW va \in VAs, pte[p][va] # None
  PROVE  [pte EXCEPT ![p][va].w = TRUE, ![p][va].forked = FALSE] =
           [pte EXCEPT ![p][va] = Pte(pte[p][va].pfn, TRUE, FALSE, pte[p][va].pin)]
<1>. DEFINE e == pte[p][va]
<1>1. e \in PTEs /\ pte \in [Pids -> [VAs -> PTEs \cup {None}]]
  BY EntryTyped DEF PagingTypeOK
<1>2. ASSUME NEW x \in PTEs PROVE x = Pte(x.pfn, x.w, x.forked, x.pin)
  BY DEF PTEs, Pte
<1>. DEFINE x == [[e EXCEPT !.w = TRUE] EXCEPT !.forked = FALSE]
<1>3. x \in PTEs /\ x.pfn = e.pfn /\ x.w = TRUE /\ x.forked = FALSE /\ x.pin = e.pin
  BY <1>1 DEF PTEs
<1>. HIDE DEF x, e
<1>4. x = Pte(e.pfn, TRUE, FALSE, e.pin)
  <2>1. x = Pte(x.pfn, x.w, x.forked, x.pin)
    BY <1>2, <1>3
  <2>. QED
    BY <1>3, <2>1, Zenon
<1>. QED
  BY <1>1, <1>4 DEF x, e

\* An entry of its own for frame f, and the entry of p that cow_check finds.
Ordinary(d, f) == d \in PTEs /\ d.pfn = f /\ d.w /\ ~d.forked
Forked(p, va, f) == Maps(p, va, f) /\ pte[p][va].forked

LEMMA OrdinaryEntry ==
  ASSUME NEW f \in Frames, NEW pin \in BOOLEAN
  PROVE  Ordinary(Pte(f, TRUE, FALSE, pin), f)
<1>1. Pte(f, TRUE, FALSE, pin) \in PTEs /\ Pte(f, TRUE, FALSE, pin).pfn = f
  BY DEF PTEs, Pte
<1>2. Pte(f, TRUE, FALSE, pin).w /\ ~Pte(f, TRUE, FALSE, pin).forked
  BY Zenon DEF Pte
<1>. QED
  BY <1>1, <1>2, Zenon DEF Ordinary

\* A table in which an entry of p became an ordinary one for frame f.
LEMMA EntryReplaced ==
  ASSUME PageInv, NEW p \in Pids, NEW va \in VAs, NEW f, NEW d, Ordinary(d, f),
         pte' = [pte EXCEPT ![p][va] = d]
  PROVE  /\ pte' \in [Pids -> [VAs -> PTEs \cup {None}]]
         /\ Maps(p, va, f)' /\ pte'[p][va].w /\ ~pte'[p][va].forked
         /\ \A g : Maps(p, va, g)' => g = f
         /\ \A q \in Pids, vb \in VAs : q # p \/ vb # va => pte'[q][vb] = pte[q][vb]
<1>1. d \in PTEs /\ PagingTypeOK
  BY DEF Ordinary, PageInv
<1>2. /\ pte' \in [Pids -> [VAs -> PTEs \cup {None}]] /\ pte'[p][va] = d
      /\ \A q \in Pids, vb \in VAs : q # p \/ vb # va => pte'[q][vb] = pte[q][vb]
  BY <1>1, PteUpdate, ZenonT(60)
<1>3. d # None /\ d.pfn = f
  BY PagingAssumption DEF Ordinary
<1>4. d.w /\ ~d.forked
  BY DEF Ordinary
<1>5. Maps(p, va, f)' /\ \A g : Maps(p, va, g)' => g = f
  BY <1>2, <1>3 DEF Maps
<1>6. pte'[p][va].w /\ ~pte'[p][va].forked
  BY <1>2, <1>4, Zenon
<1>. QED
  BY <1>2, <1>5, <1>6

\* The page is not shared any more: the entry becomes an ordinary one.
LEMMA CowEliminated ==
  ASSUME PageInv, fate = "ok", NEW p \in Pids, NEW va \in VAs, NEW f \in Frames,
         Forked(p, va, f), ~cow_try_eliminate(f), NEW d, Ordinary(d, f),
         pte' = [pte EXCEPT ![p][va] = d],
         UNCHANGED <<buddyVars, process_id, alive, kernel_stacks, mem_info, child_t_num,
                     coreVars, memVars, loading, fate>>
  PROVE  PageInv'
<1>1. PagingTypeOK /\ Maps(p, va, f) /\ pte[p][va] # None
  BY DEF PageInv, Forked, Maps
<1>2. /\ pte' \in [Pids -> [VAs -> PTEs \cup {None}]]
      /\ Maps(p, va, f)' /\ pte'[p][va].w /\ ~pte'[p][va].forked
      /\ \A q \in Pids, vb \in VAs : q # p \/ vb # va => pte'[q][vb] = pte[q][vb]
  BY EntryReplaced
<1>3. p \in alive
  BY <1>1 DEF PageInv, DeadHaveNothing, Empty
<1>4. pte[p][va] # None /\ pte[p][va].pfn = f /\ pte'[p][va] # None /\ pte'[p][va].pfn = f
  BY <1>1, <1>2 DEF Maps
<1>5. \A q \in Pids, vb \in VAs : pte'[q][vb] # None <=> pte[q][vb] # None
  BY <1>2, <1>4
<1>6. \A q \in Pids, vb \in VAs : pte[q][vb] # None => pte'[q][vb].pfn = pte[q][vb].pfn
  BY <1>2, <1>4
<1>7. \A g : MapsTo(g)' = MapsTo(g)
  <2>1. ASSUME NEW g, NEW q \in Pids, NEW vb \in VAs
        PROVE  Maps(q, vb, g)' <=> Maps(q, vb, g)
    BY <1>5, <1>6 DEF Maps
  <2>. QED
    BY <2>1 DEF MapsTo
<1>8. MapsTo(f) = {<<p, va>>}
  <2>1. <<p, va>> \in MapsTo(f)
    BY <1>1 DEF MapsTo
  <2>2. ref_num[f] >= Cardinality(MapsTo(f)) /\ ~(ref_num[f] > 1)
    BY <1>1 DEF PageInv, References, cow_try_eliminate
  <2>3. IsFiniteSet(MapsTo(f)) /\ Cardinality(MapsTo(f)) \in Nat /\ ref_num[f] \in Nat
    BY <1>1, EntriesFinite DEF PagingTypeOK
  <2>4. Cardinality(MapsTo(f)) # 0
    BY <2>1, <2>3, FS_EmptySet
  <2>5. Cardinality(MapsTo(f)) = 1
    BY <2>2, <2>3, <2>4
  <2>. QED
    BY <2>1, <2>3, <2>5, FS_Singleton
<1>9. PagingTypeOK'
  BY <1>1, <1>2 DEF PagingTypeOK, buddyVars, coreVars, memVars
<1>10. DeadHaveNothing'
  <2>1. \A q \in Pids \ alive : pte'[q] = pte[q]
    BY <1>1, <1>3 DEF PagingTypeOK
  <2>. QED
    BY <2>1 DEF PageInv, DeadHaveNothing, coreVars
<1>11. References' /\ KernelStackApart'
  BY <1>7 DEF PageInv, References, KernelStackApart, buddyVars
<1>12. UnforkedIsAlone'
  <2>1. ASSUME NEW q \in Pids, NEW vb \in VAs, q # p \/ vb # va, pte[q][vb] # None
        PROVE  /\ pte[q][vb].w = ~pte[q][vb].forked
               /\ ~pte[q][vb].forked => MapsTo(pte[q][vb].pfn) = {<<q, vb>>}
    BY <2>1 DEF PageInv, UnforkedIsAlone
  <2>2. ASSUME NEW q \in Pids, NEW vb \in VAs, NEW x, x = pte'[q][vb], x # None
        PROVE  /\ x.w = ~x.forked
               /\ ~x.forked => MapsTo(x.pfn)' = {<<q, vb>>}
    <3>1. CASE q = p /\ vb = va
      BY <1>2, <1>4, <1>7, <1>8, <2>2, <3>1
    <3>2. CASE q # p \/ vb # va
      BY <1>2, <1>7, <2>1, <2>2, <3>2
    <3>. QED
      BY <3>1, <3>2
  <2>. QED
    BY <2>2 DEF UnforkedIsAlone
<1>13. MemInfoValid'
  <2>1. \A q \in Pids : \A m \in mem_info[q] : m[1] \in Pids /\ m[2] \in VAs
    BY <1>1 DEF PagingTypeOK
  <2>. QED
    BY <1>5, <2>1 DEF PageInv, MemInfoValid
<1>14. PrivateMemory'
  <2>1. \A q \in alive : q \in Pids
    BY <1>1 DEF PagingTypeOK
  <2>. QED
    BY <1>5, <1>6, <2>1 DEF PageInv, PrivateMemory, memVars
<1>. QED
  BY <1>9, <1>10, <1>11, <1>12, <1>13, <1>14, Untouched DEF PageInv, buddyVars

\* The page is copied: the entry leaves the shared frame old for a fresh one.
LEMMA CowCopied ==
  ASSUME PageInv, fate = "ok", NEW p \in Pids, NEW va \in VAs, NEW old \in Frames,
         Forked(p, va, old), cow_try_eliminate(old),
         NEW f \in Frames, NEW d, Ordinary(d, f), alloc_page(0, f),
         ref_num' = RefBlock([ref_num EXCEPT ![old] = @ - 1], 0, f),
         page' = CopyPage(f, old),
         pte' = [pte EXCEPT ![p][va] = d],
         UNCHANGED <<process_id, alive, kernel_stacks, mem_info, child_t_num,
                     coreVars, mem, loading, fate>>
  PROVE  PageInv'
<1>1. PagingTypeOK /\ Maps(p, va, old) /\ pte[p][va] # None /\ pte[p][va].pfn = old
  BY DEF PageInv, Forked, Maps
<1>2. /\ pte' \in [Pids -> [VAs -> PTEs \cup {None}]]
      /\ Maps(p, va, f)' /\ pte'[p][va].w /\ ~pte'[p][va].forked
      /\ \A g : Maps(p, va, g)' => g = f
      /\ \A q \in Pids, vb \in VAs : q # p \/ vb # va => pte'[q][vb] = pte[q][vb]
  BY EntryReplaced
<1>3. p \in alive
  BY <1>1 DEF PageInv, DeadHaveNothing, Empty
<1>4. pte'[p][va] # None /\ pte'[p][va].pfn = f
  BY <1>2 DEF Maps
<1>5. /\ ref_num[f] = 0 /\ ref_num'[f] = 1 /\ f # old
      /\ ref_num'[old] = ref_num[old] - 1 /\ ref_num[old] > 1
      /\ \A g \in Frames \ {f, old} : ref_num'[g] = ref_num[g]
      /\ ref_num' \in [Frames -> Nat]
      /\ free_list' \in [Orders -> SUBSET Nat]
      /\ ZoneExact'
  <2>. DEFINE ref == [ref_num EXCEPT ![old] = @ - 1]
  <2>1. ref_num \in [Frames -> Nat] /\ ref_num[old] > 1
    BY <1>1 DEF PagingTypeOK, cow_try_eliminate
  <2>2. /\ ref \in [Frames -> Nat] /\ ref[old] = ref_num[old] - 1
        /\ \A g \in Frames \ {old} : ref[g] = ref_num[g]
    BY <2>1
  <2>. HIDE DEF ref
  <2>3. \A g \in Frames : ref_num[g] = 0 => ref[g] = 0
    BY <2>1, <2>2
  <2>4. ref_num' = RefBlock(ref, 0, f)
    BY DEF ref
  <2>5. /\ ref_num[f] = 0 /\ ref_num'[f] = 1
        /\ \A g \in Frames \ {f} : ref_num'[g] = ref[g]
        /\ ref_num' \in [Frames -> Nat]
        /\ free_list' \in [Orders -> SUBSET Nat]
        /\ ZoneExact'
    BY <2>2, <2>3, <2>4, PageAllocated
  <2>6. f # old
    BY <2>1, <2>5
  <2>. QED
    BY <2>1, <2>2, <2>5, <2>6
<1>6. page' = [page EXCEPT ![f] = page[old]] /\ page' \in [Frames -> Contents]
  BY <1>1 DEF CopyPage, PagingTypeOK
<1>7. PagingTypeOK'
  BY <1>1, <1>2, <1>5, <1>6 DEF PagingTypeOK, coreVars
<1>8. MapsTo(f)' = {<<p, va>>}
  <2>1. ASSUME NEW q \in Pids, NEW vb \in VAs
        PROVE  Maps(q, vb, f)' <=> q = p /\ vb = va
    <3>1. ~Maps(q, vb, f)
      BY <1>5, UnreferredIsFree
    <3>. QED
      BY <1>2, <3>1 DEF Maps
  <2>. QED
    BY <2>1 DEF MapsTo
<1>9. MapsTo(old)' = MapsTo(old) \ {<<p, va>>} /\ <<p, va>> \in MapsTo(old)
  <2>1. ASSUME NEW q \in Pids, NEW vb \in VAs
        PROVE  Maps(q, vb, old)' <=> Maps(q, vb, old) /\ <<q, vb>> # <<p, va>>
    <3>1. CASE q = p /\ vb = va
      BY <1>2, <1>5, <3>1
    <3>2. CASE q # p \/ vb # va
      BY <1>2, <3>2 DEF Maps
    <3>. QED
      BY <3>1, <3>2
  <2>. QED
    BY <1>1, <2>1 DEF MapsTo
<1>10. \A g \in Frames \ {f, old} : MapsTo(g)' = MapsTo(g)
  <2>1. ASSUME NEW g \in Frames \ {f, old}, NEW q \in Pids, NEW vb \in VAs
        PROVE  Maps(q, vb, g)' <=> Maps(q, vb, g)
    <3>1. CASE q = p /\ vb = va
      BY <1>1, <1>2, <3>1 DEF Maps
    <3>2. CASE q # p \/ vb # va
      BY <1>2, <3>2 DEF Maps
    <3>. QED
      BY <3>1, <3>2
  <2>. QED
    BY <2>1 DEF MapsTo
<1>11. DeadHaveNothing'
  <2>1. \A q \in Pids \ alive : pte'[q] = pte[q]
    BY <1>1, <1>3 DEF PagingTypeOK
  <2>. QED
    BY <2>1 DEF PageInv, DeadHaveNothing, coreVars
<1>12. References'
  <2>1. ref_num'[f] >= Cardinality(MapsTo(f)')
    <3>1. Cardinality(MapsTo(f)') = 1
      BY <1>8, FS_Singleton
    <3>. QED
      BY <1>5, <3>1
  <2>2. ref_num'[old] >= Cardinality(MapsTo(old)')
    <3>1. Cardinality(MapsTo(old)') = Cardinality(MapsTo(old)) - 1
      BY <1>9, EntriesFinite, FS_RemoveElement
    <3>. QED
      BY <1>1, <1>5, <3>1, EntriesFinite DEF PageInv, References, PagingTypeOK
  <2>3. \A g \in Frames \ {f, old} : ref_num'[g] >= Cardinality(MapsTo(g)')
    BY <1>5, <1>10 DEF PageInv, References
  <2>. QED
    BY <2>1, <2>2, <2>3 DEF References
<1>13. UnforkedIsAlone'
  <2>1. ASSUME NEW q \in Pids, NEW vb \in VAs, q # p \/ vb # va, pte[q][vb] # None
        PROVE  /\ pte[q][vb].w = ~pte[q][vb].forked
               /\ ~pte[q][vb].forked => MapsTo(pte[q][vb].pfn) = {<<q, vb>>}
               /\ pte[q][vb].pfn \in Frames /\ pte[q][vb].pfn # f
    <3>1. pte[q][vb].w = ~pte[q][vb].forked
      BY <2>1 DEF PageInv, UnforkedIsAlone
    <3>2. ~pte[q][vb].forked => MapsTo(pte[q][vb].pfn) = {<<q, vb>>}
      BY <2>1 DEF PageInv, UnforkedIsAlone
    <3>3. pte[q][vb].pfn \in Frames
      BY <1>1, <2>1, EntryTyped
    <3>4. pte[q][vb].pfn # f
      BY <1>5, <2>1, UnreferredIsFree DEF Maps
    <3>. QED
      BY <3>1, <3>2, <3>3, <3>4
  <2>2. ASSUME NEW q \in Pids, NEW vb \in VAs, NEW x, x = pte'[q][vb], x # None
        PROVE  /\ x.w = ~x.forked
               /\ ~x.forked => MapsTo(x.pfn)' = {<<q, vb>>}
    <3>1. CASE q = p /\ vb = va
      BY <1>2, <1>4, <1>8, <2>2, <3>1
    <3>2. CASE q # p \/ vb # va
      <4>1. /\ x.w = ~x.forked
            /\ ~x.forked => MapsTo(x.pfn) = {<<q, vb>>}
            /\ x.pfn \in Frames /\ x.pfn # f
        BY <1>2, <2>1, <2>2, <3>2
      <4>2. MapsTo(old) = {<<q, vb>>} => FALSE
        BY <1>9, <3>2
      <4>3. ~x.forked => MapsTo(x.pfn)' = MapsTo(x.pfn)
        BY <1>10, <4>1, <4>2
      <4>. QED
        BY <4>1, <4>3
    <3>. QED
      BY <3>1, <3>2
  <2>. QED
    BY <2>2 DEF UnforkedIsAlone
<1>14. StacksHeld' /\ KernelStackApart'
  <2>1. ASSUME NEW q \in Pids, NEW g \in kernel_stacks[q]
        PROVE  g \in Frames /\ g # f /\ g # old
    <3>1. g \in Frames
      BY <1>1 DEF PagingTypeOK
    <3>2. g # f
      BY <1>5, UnreferredIsFree
    <3>3. g # old
      BY <1>9 DEF PageInv, KernelStackApart
    <3>. QED
      BY <3>1, <3>2, <3>3
  <2>2. StacksHeld'
    BY <1>5, <2>1 DEF PageInv, StacksHeld
  <2>3. KernelStackApart'
    BY <1>10, <2>1 DEF PageInv, KernelStackApart
  <2>. QED
    BY <2>2, <2>3
<1>15. MemInfoValid'
  <2>1. \A q \in Pids : \A m \in mem_info[q] : m[1] \in Pids /\ m[2] \in VAs
    BY <1>1 DEF PagingTypeOK
  <2>2. \A q \in Pids, vb \in VAs : pte'[q][vb] # None <=> pte[q][vb] # None
    BY <1>1, <1>2, <1>4
  <2>. QED
    BY <2>1, <2>2 DEF PageInv, MemInfoValid
<1>16. PrivateMemory'
  <2>1. ASSUME NEW q \in alive, NEW vb \in VAs, pte'[q][vb] # None
        PROVE  page'[pte'[q][vb].pfn] = mem[q][vb]
    <3>0. q \in Pids
      BY <1>1 DEF PagingTypeOK
    <3>1. CASE q = p /\ vb = va
      <4>1. page'[pte'[q][vb].pfn] = page[old]
        BY <1>1, <1>4, <1>6, <3>1 DEF PagingTypeOK
      <4>2. page[old] = mem[p][va]
        BY <1>1, <1>3 DEF PageInv, PrivateMemory
      <4>. QED
        BY <3>1, <4>1, <4>2
    <3>2. CASE q # p \/ vb # va
      <4>1. pte'[q][vb] = pte[q][vb] /\ pte[q][vb] # None /\ pte[q][vb].pfn \in Frames
        BY <1>1, <1>2, <2>1, <3>0, <3>2, EntryTyped
      <4>2. pte[q][vb].pfn # f
        BY <1>5, <3>0, <4>1, UnreferredIsFree DEF Maps
      <4>3. page[pte[q][vb].pfn] = mem[q][vb]
        BY <4>1 DEF PageInv, PrivateMemory
      <4>. QED
        BY <1>1, <1>6, <4>1, <4>2, <4>3 DEF PagingTypeOK
    <3>. QED
      BY <3>1, <3>2
  <2>. QED
    BY <2>1 DEF PrivateMemory
<1>. QED
  BY <1>5, <1>7, <1>11, <1>12, <1>13, <1>14, <1>15, <1>16, Untouched DEF PageInv

LEMMA CowCheckStep ==
  ASSUME PageInv, fate = "ok", NEW c \in CPUs, NEW va \in VAs, cow_check(c, va)
  PROVE  PageInv'
<1>. DEFINE p == running[c]
            old == pte[p][va].pfn
            pin == pte[p][va].pin
<1>1. /\ p \in Pids /\ old \in Frames /\ pin \in BOOLEAN
      /\ PagingTypeOK /\ pte[p][va] # None /\ Forked(p, va, old)
  <2>1. p \in Pids /\ PagingTypeOK /\ pte[p][va] # None
    BY DEF cow_check, Calls, PageInv, PagingTypeOK
  <2>2. pte[p][va] \in PTEs /\ old \in Frames
    BY <2>1, EntryTyped
  <2>3. pin \in BOOLEAN
    BY <2>2 DEF PTEs
  <2>4. Forked(p, va, old)
    BY DEF cow_check, Forked, Maps
  <2>. QED
    BY <2>1, <2>2, <2>3, <2>4
<1>2. CASE Exhausted(0)
  BY <1>2, ExhaustedStep
<1>3. ASSUME cow_try_eliminate(old), NEW f \in Frames,
             /\ alloc_page(0, f)
             /\ ref_num' = RefBlock([ref_num EXCEPT ![old] = @ - 1], 0, f)
             /\ page' = CopyPage(f, old)
             /\ pte' = [pte EXCEPT ![p][va] = Pte(f, TRUE, FALSE, pin)]
             /\ UNCHANGED <<process_id, alive, kernel_stacks, mem_info, child_t_num,
                            coreVars, mem, loading, fate>>
      PROVE  PageInv'
  <2>1. Ordinary(Pte(f, TRUE, FALSE, pin), f)
    BY <1>1, OrdinaryEntry
  <2>. QED
    BY <1>1, <1>3, <2>1, CowCopied
<1>4. ASSUME ~cow_try_eliminate(old),
             /\ pte' = [pte EXCEPT ![p][va].w = TRUE, ![p][va].forked = FALSE]
             /\ UNCHANGED <<buddyVars, process_id, alive, kernel_stacks, mem_info,
                            child_t_num, coreVars, memVars, loading, fate>>
      PROVE  PageInv'
  <2>1. Ordinary(Pte(old, TRUE, FALSE, pin), old)
    BY <1>1, OrdinaryEntry
  <2>2. pte' = [pte EXCEPT ![p][va] = Pte(old, TRUE, FALSE, pin)]
    BY <1>1, <1>4, EntryUnforked
  <2>. QED
    BY <1>1, <1>4, <2>1, <2>2, CowEliminated
<1>. QED
  BY <1>2, <1>3, <1>4 DEF cow_check

\* What fork leaves in the tables of both: the same frames, to copy on write.
LEMMA ForkedTable ==
  ASSUME PagingTypeOK, NEW p \in Pids
  PROVE  /\ fork_copy_pgtable(p) \in [VAs -> PTEs \cup {None}]
         /\ \A va \in VAs : pte[p][va] = None => fork_copy_pgtable(p)[va] = None
         /\ \A va \in VAs : pte[p][va] # None =>
              /\ fork_copy_pgtable(p)[va] # None
              /\ fork_copy_pgtable(p)[va].pfn = pte[p][va].pfn
              /\ fork_copy_pgtable(p)[va].w = FALSE
              /\ fork_copy_pgtable(p)[va].forked = TRUE
<1>1. ASSUME NEW e \in PTEs
      PROVE  /\ [e EXCEPT !.forked = TRUE, !.w = FALSE] \in PTEs
             /\ [e EXCEPT !.forked = TRUE, !.w = FALSE].pfn = e.pfn
             /\ [e EXCEPT !.forked = TRUE, !.w = FALSE].w = FALSE
             /\ [e EXCEPT !.forked = TRUE, !.w = FALSE].forked = TRUE
  BY DEF PTEs
<1>2. ASSUME NEW va \in VAs, pte[p][va] # None
      PROVE  pte[p][va] \in PTEs
  BY <1>2, EntryTyped
<1>3. ASSUME NEW va \in VAs, pte[p][va] = None
      PROVE  fork_copy_pgtable(p)[va] = None
  BY <1>3 DEF fork_copy_pgtable
<1>4. ASSUME NEW va \in VAs, pte[p][va] # None
      PROVE  fork_copy_pgtable(p)[va] = [pte[p][va] EXCEPT !.forked = TRUE, !.w = FALSE]
  BY <1>4 DEF fork_copy_pgtable
<1>5. ASSUME NEW va \in VAs, pte[p][va] # None
      PROVE  /\ fork_copy_pgtable(p)[va] \in PTEs
             /\ fork_copy_pgtable(p)[va].pfn = pte[p][va].pfn
             /\ fork_copy_pgtable(p)[va].w = FALSE
             /\ fork_copy_pgtable(p)[va].forked = TRUE
  <2>. DEFINE e == pte[p][va]
              x == fork_copy_pgtable(p)[va]
  <2>1. e \in PTEs /\ x = [e EXCEPT !.forked = TRUE, !.w = FALSE]
    BY <1>2, <1>4, <1>5
  <2>. HIDE DEF e, x
  <2>2. x \in PTEs /\ x.pfn = e.pfn /\ x.w = FALSE /\ x.forked = TRUE
    BY <1>1, <2>1, Zenon
  <2>. QED
    BY <2>2 DEF e, x
<1>6. \A va \in VAs : fork_copy_pgtable(p)[va] \in PTEs \cup {None}
  BY <1>3, <1>5
<1>7. fork_copy_pgtable(p) = [va \in VAs |-> fork_copy_pgtable(p)[va]]
  BY DEF fork_copy_pgtable
<1>8. fork_copy_pgtable(p) \in [VAs -> PTEs \cup {None}]
  BY <1>6, <1>7
<1>. QED
  BY <1>3, <1>5, <1>8, PagingAssumption

\* The pages of process p that are in frame g, and the child's entries for them.
PagesIn(p, g) == {va \in VAs : Maps(p, va, g)}

LEMMA PagesInFinite ==
  ASSUME NEW p, NEW q, NEW g
  PROVE  /\ IsFiniteSet(PagesIn(p, g)) /\ Cardinality(PagesIn(p, g)) \in Nat
         /\ IsFiniteSet({q} \X PagesIn(p, g))
         /\ Cardinality({q} \X PagesIn(p, g)) = Cardinality(PagesIn(p, g))
<1>1. IsFiniteSet(PagesIn(p, g)) /\ Cardinality(PagesIn(p, g)) \in Nat
  <2>1. PagesIn(p, g) \in SUBSET VAs
    BY DEF PagesIn
  <2>. QED
    BY <2>1, EntriesFinite, FS_Subset, FS_CardinalityType
<1>2. IsFiniteSet({q}) /\ Cardinality({q}) = 1
  BY FS_Singleton
<1>3. /\ IsFiniteSet({q} \X PagesIn(p, g))
      /\ Cardinality({q} \X PagesIn(p, g)) = 1 * Cardinality(PagesIn(p, g))
  BY <1>1, <1>2, FS_Product
<1>. QED
  BY <1>1, <1>3

LEMMA ForkStep ==
  ASSUME PageInv, fate = "ok", NEW c \in CPUs, do_fork(c)
  PROVE  PageInv'
<1>. DEFINE p == running[c]
            q == process_id
            T == fork_copy_pgtable(p)
<1>1. /\ PagingTypeOK /\ p \in Pids /\ p \in alive
      /\ q \in Pids /\ q \notin alive /\ p # q /\ pte[q] = Empty
  <2>1. PagingTypeOK /\ p \in alive /\ q <= MaxPid
    BY DEF do_fork, Calls, PageInv, DeadHaveNothing
  <2>2. p \in Pids /\ p < q /\ q \in Pids /\ q \notin alive
    BY <2>1, PagingAssumption DEF PagingTypeOK, Pids
  <2>. QED
    BY <2>1, <2>2 DEF PageInv, DeadHaveNothing, Pids
<1>2. /\ T \in [VAs -> PTEs \cup {None}]
      /\ \A va \in VAs : pte[p][va] = None => T[va] = None
      /\ \A va \in VAs : pte[p][va] # None =>
           T[va] # None /\ T[va].pfn = pte[p][va].pfn /\ T[va].w = FALSE /\ T[va].forked = TRUE
  BY <1>1, ForkedTable
<1>3. CASE Exhausted(KernelStackOrder)
  BY <1>3, ExhaustedStep
<1>4. ASSUME NEW f \in Frames,
             /\ alloc_kernel_stack(q, f, cow_create(p))
             /\ pte' = [pte EXCEPT ![p] = fork_copy_pgtable(p), ![q] = fork_copy_pgtable(p)]
             /\ mem_info' = [mem_info EXCEPT ![q] = mem_info[p]]
             /\ mem' = [mem EXCEPT ![q] = mem[p]]
             /\ alive' = alive \cup {q} /\ process_id' = q + 1
             /\ UNCHANGED <<child_t_num, coreVars, page, loading, fate>>
      PROVE  PageInv'
  <2>. HIDE DEF p, q, T
  <2>1. /\ pte' \in [Pids -> [VAs -> PTEs \cup {None}]]
        /\ pte'[p] = T /\ pte'[q] = T /\ \A r \in Pids \ {p, q} : pte'[r] = pte[r]
    <3>1. pte \in [Pids -> [VAs -> PTEs \cup {None}]]
      BY <1>1 DEF PagingTypeOK
    <3>2. pte' = [pte EXCEPT ![p] = T, ![q] = T]
      BY <1>4 DEF T, q
    <3>. QED
      BY <1>1, <1>2, <3>1, <3>2
  <2>2. \A g : MapsTo(g)' = MapsTo(g) \cup ({q} \X PagesIn(p, g))
    <3>1. ASSUME NEW g, NEW r \in Pids, NEW va \in VAs
          PROVE  Maps(r, va, g)' <=> Maps(r, va, g) \/ (r = q /\ Maps(p, va, g))
      <4>1. CASE r = q
        <5>1. ~Maps(r, va, g)
          BY <1>1, <4>1 DEF Maps, Empty
        <5>. QED
          BY <1>2, <2>1, <4>1, <5>1 DEF Maps
      <4>2. CASE r = p
        BY <1>1, <1>2, <2>1, <4>2 DEF Maps
      <4>3. CASE r # p /\ r # q
        BY <2>1, <4>3 DEF Maps
      <4>. QED
        BY <4>1, <4>2, <4>3
    <3>2. ASSUME NEW g, NEW m
          PROVE  m \in MapsTo(g)' <=> m \in MapsTo(g) \/ m \in {q} \X PagesIn(p, g)
      <4>1. CASE m \in Pids \X VAs
        BY <3>1, <4>1 DEF MapsTo, PagesIn
      <4>2. CASE m \notin Pids \X VAs
        BY <1>1, <4>2 DEF MapsTo, PagesIn
      <4>. QED
        BY <4>1, <4>2
    <3>. QED
      BY <3>2
  <2>3. ASSUME NEW g, NEW va \in PagesIn(p, g) PROVE <<p, va>> \in MapsTo(g)
    BY <1>1, <2>3, MapsMember DEF PagesIn
  <2>4. /\ \A g \in Frames : ref_num'[g] >= cow_create(p)[g]
        /\ ref_num' \in [Frames -> Nat]
        /\ free_list' \in [Orders -> SUBSET Nat]
        /\ kernel_stacks' \in [Pids -> SUBSET Frames]
        /\ ZoneExact' /\ StacksHeld'
        /\ (\A g \in Frames : MapsTo(g) = {} => MapsTo(g)' = {}) => KernelStackApart'
    <3>1. \A g \in Frames : cow_create(p)[g] = ref_num[g] + Cardinality(PagesIn(p, g))
      BY DEF cow_create, PagesIn
    <3>2. cow_create(p) \in [Frames -> Nat]
      <4>1. \A g \in Frames : cow_create(p)[g] \in Nat
        <5>1. \A g \in Frames : ref_num[g] \in Nat
          BY <1>1 DEF PagingTypeOK
        <5>2. \A g \in Frames : Cardinality(PagesIn(p, g)) \in Nat
          BY PagesInFinite
        <5>. QED
          BY <3>1, <5>1, <5>2
      <4>2. cow_create(p) = [g \in Frames |-> cow_create(p)[g]]
        BY DEF cow_create
      <4>. QED
        BY <4>1, <4>2
    <3>3. ASSUME NEW g \in Frames
          PROVE  /\ cow_create(p)[g] >= ref_num[g]
                 /\ ref_num[g] = 0 => cow_create(p)[g] = 0
      <4>1. ref_num[g] \in Nat /\ Cardinality(PagesIn(p, g)) \in Nat
        BY <1>1, PagesInFinite DEF PagingTypeOK
      <4>2. ASSUME ref_num[g] = 0 PROVE Cardinality(PagesIn(p, g)) = 0
        <5>1. PagesIn(p, g) = {}
          BY <2>3, <4>2, UnreferredIsFree
        <5>. QED
          BY <5>1, FS_EmptySet
      <4>. QED
        BY <3>1, <4>1, <4>2
    <3>4. alloc_kernel_stack(q, f, cow_create(p))
      BY <1>4 DEF q
    <3>. QED
      BY <1>1, <3>2, <3>3, <3>4, KernelStackAllocated
  <2>5. PagingTypeOK'
    <3>1. process_id' \in 1 .. MaxPid + 1 /\ alive' \subseteq {r \in Pids : r < process_id'}
      <4>1. /\ q \in Int /\ 1 <= q /\ q <= MaxPid
            /\ MaxPid \in Int
        BY <1>1, PagingAssumption DEF Pids
      <4>2. \A r \in alive : r \in Pids /\ r \in Int /\ r < q
        BY <1>1 DEF PagingTypeOK, Pids, q
      <4>. QED
        BY <1>1, <1>4, <4>1, <4>2 DEF q
    <3>2. mem_info' \in [Pids -> SUBSET (Pids \X VAs)] /\ mem' \in [Pids -> [VAs -> Contents \cup {None}]]
      BY <1>1, <1>4 DEF PagingTypeOK, q
    <3>. QED
      BY <1>1, <1>4, <2>1, <2>4, <3>1, <3>2 DEF PagingTypeOK, coreVars
  <2>6. DeadHaveNothing'
    <3>1. \A r \in Pids \ alive' : pte'[r] = Empty
      BY <1>1, <1>4, <2>1 DEF PageInv, DeadHaveNothing, q
    <3>. QED
      BY <1>4, <3>1 DEF PageInv, DeadHaveNothing, coreVars, q
  <2>7. References'
    <3>1. ASSUME NEW g \in Frames PROVE ref_num'[g] >= Cardinality(MapsTo(g)')
      <4>. DEFINE A == MapsTo(g)
                  B == {q} \X PagesIn(p, g)
      <4>1. /\ IsFiniteSet(A) /\ IsFiniteSet(B)
            /\ Cardinality(A) \in Nat /\ Cardinality(B) \in Nat
            /\ Cardinality(B) = Cardinality(PagesIn(p, g))
        BY EntriesFinite, PagesInFinite
      <4>2. ref_num[g] >= Cardinality(A) /\ ref_num[g] \in Nat
        BY <1>1 DEF PageInv, References, PagingTypeOK
      <4>3. cow_create(p)[g] = ref_num[g] + Cardinality(B)
        BY <4>1 DEF cow_create, PagesIn
      <4>4. ref_num'[g] >= cow_create(p)[g] /\ ref_num'[g] \in Nat
        BY <2>4
      <4>5. Cardinality(MapsTo(g)') = Cardinality(A \cup B)
        BY <2>2
      <4>. HIDE DEF A, B
      <4>6. /\ Cardinality(A \cup B) = Cardinality(A) + Cardinality(B) - Cardinality(A \cap B)
            /\ Cardinality(A \cap B) \in Nat
        BY <4>1, FS_Union, FS_Intersection, FS_CardinalityType
      <4>. QED
        BY <4>1, <4>2, <4>3, <4>4, <4>5, <4>6
    <3>. QED
      BY <3>1 DEF References
  <2>8. UnforkedIsAlone'
    <3>1. ASSUME NEW r \in Pids, NEW vb \in VAs, NEW x, x = pte'[r][vb], x # None
          PROVE  /\ x.w = ~x.forked
                 /\ ~x.forked => MapsTo(x.pfn)' = {<<r, vb>>}
      <4>1. CASE r = p \/ r = q
        <5>1. x = T[vb] /\ pte[p][vb] # None
          BY <1>2, <2>1, <3>1, <4>1
        <5>2. x.w = FALSE /\ x.forked = TRUE
          BY <1>2, <5>1
        <5>. QED
          BY <5>2
      <4>2. CASE r # p /\ r # q
        <5>1. x = pte[r][vb]
          BY <2>1, <3>1, <4>2
        <5>2. /\ x.w = ~x.forked
              /\ ~x.forked => MapsTo(x.pfn) = {<<r, vb>>}
          BY <3>1, <5>1 DEF PageInv, UnforkedIsAlone
        <5>3. ASSUME MapsTo(x.pfn) = {<<r, vb>>}, NEW va \in PagesIn(p, x.pfn) PROVE FALSE
          <6>1. <<p, va>> \in {<<r, vb>>}
            BY <2>3, <5>3
          <6>. QED
            BY <4>2, <6>1
        <5>. QED
          BY <2>2, <5>2, <5>3
      <4>. QED
        BY <4>1, <4>2
    <3>. QED
      BY <3>1 DEF UnforkedIsAlone
  <2>9. KernelStackApart'
    <3>1. \A g \in Frames : MapsTo(g) = {} => MapsTo(g)' = {}
      BY <2>2, <2>3
    <3>. QED
      BY <2>4, <3>1
  <2>10. MemInfoValid'
    <3>1. ASSUME NEW r \in Pids, NEW m \in mem_info'[r]
          PROVE  m[1] < process_id' /\ (m[1] \in alive' => pte'[m[1]][m[2]] # None)
      <4>1. PICK s \in Pids : m \in mem_info[s]
        BY <1>1, <1>4, <3>1 DEF PagingTypeOK
      <4>2. m[1] \in Pids /\ m[2] \in VAs /\ q \in Nat /\ m[1] \in Nat
        BY <1>1, <4>1 DEF PagingTypeOK, Pids
      <4>3. m[1] < q /\ (m[1] \in alive => pte[m[1]][m[2]] # None)
        BY <4>1 DEF PageInv, MemInfoValid, q
      <4>4. pte[m[1]][m[2]] # None => pte'[m[1]][m[2]] # None
        BY <1>2, <2>1, <4>2, <4>3
      <4>. QED
        BY <1>4, <4>2, <4>3, <4>4 DEF q
    <3>. QED
      BY <3>1 DEF MemInfoValid
  <2>11. PrivateMemory'
    <3>1. ASSUME NEW r \in alive', NEW va \in VAs, pte'[r][va] # None
          PROVE  page[pte'[r][va].pfn] = mem'[r][va]
      <4>1. PICK s \in alive : /\ pte[s][va] # None /\ pte'[r][va].pfn = pte[s][va].pfn
                               /\ mem'[r][va] = mem[s][va]
        <5>1. r \in Pids /\ mem \in [Pids -> [VAs -> Contents \cup {None}]]
          BY <1>1, <2>5 DEF PagingTypeOK
        <5>2. CASE r = q
          <6>1. mem'[r] = mem[p]
            BY <1>1, <1>4, <5>1, <5>2 DEF q
          <6>. QED
            BY <1>1, <1>2, <2>1, <3>1, <5>2, <6>1
        <5>3. CASE r # q
          <6>1. mem'[r] = mem[r] /\ r \in alive
            BY <1>1, <1>4, <5>1, <5>3 DEF q
          <6>. QED
            BY <1>1, <1>2, <2>1, <3>1, <5>1, <5>3, <6>1
        <5>. QED
          BY <5>2, <5>3
      <4>. QED
        BY <4>1 DEF PageInv, PrivateMemory
    <3>. QED
      BY <1>4, <3>1 DEF PrivateMemory
  <2>. QED
    BY <1>4, <2>4, <2>5, <2>6, <2>7, <2>8, <2>9, <2>10, <2>11, Untouched DEF PageInv
<1>. QED
  BY <1>3, <1>4 DEF do_fork

-----------------------------------------------------------------------------
(* The theorems.                                                           *)

LEMMA PagingInitially == PagingInit => PageInv
<1>. SUFFICES ASSUME PagingInit PROVE PageInv
  OBVIOUS
<1>. USE DEF PagingInit, init_alloc
<1>1. PagingTypeOK
  <2>1. free_list \in [Orders -> SUBSET Nat] /\ ref_num \in [Frames -> Nat]
    BY ConstantsTyped
  <2>2. process_id \in 1 .. MaxPid + 1 /\ alive \subseteq {p \in Pids : p < process_id}
    BY PagingAssumption
  <2>3. /\ pte \in [Pids -> [VAs -> PTEs \cup {None}]]
        /\ tlb \in [CPUs -> [VAs -> Frames \cup {None}]]
        /\ mem \in [Pids -> [VAs -> Contents \cup {None}]]
    BY DEF Empty
  <2>4. page \in [Frames -> Contents]
    BY DEF Contents
  <2>. QED
    BY <2>1, <2>2, <2>3, <2>4 DEF PagingTypeOK
<1>2. ZoneExact
  <2>1. ASSUME NEW o \in Orders, NEW f \in free_list[o]
        PROVE  /\ f % 2 ^ o = 0
               /\ \A i \in Block(o, f) : i \in Frames /\ ref_num[i] = 0
    <3>1. <<o, f>> \in Blocks
      BY <2>1
    <3>2. f % 2 ^ o = 0
      BY <3>1, BlocksAssumption
    <3>3. Block(o, f) \subseteq Frames
      BY <3>1 DEF Frames
    <3>. QED
      BY <3>2, <3>3
  <2>2. ASSUME NEW o \in Orders, NEW q \in Orders,
               NEW f \in free_list[o], NEW g \in free_list[q], <<o, f>> # <<q, g>>
        PROVE  Block(o, f) \cap Block(q, g) = {}
    <3>1. <<o, f>> \in Blocks /\ <<q, g>> \in Blocks
      BY <2>2
    <3>. QED
      BY <2>2, <3>1, BlocksAssumption
  <2>. QED
    BY <2>1, <2>2 DEF ZoneExact
<1>3. \A f : MapsTo(f) = {}
  BY DEF MapsTo, Maps, Empty
<1>4. DeadHaveNothing
  BY DEF DeadHaveNothing
<1>5. References
  <2>1. ASSUME NEW f \in Frames PROVE ref_num[f] = 0 /\ Cardinality(MapsTo(f)) = 0
    BY <1>3, FS_EmptySet
  <2>. QED
    BY <2>1 DEF References
<1>6. UnforkedIsAlone /\ MemInfoValid
  BY DEF UnforkedIsAlone, MemInfoValid, Empty
<1>7. StacksHeld /\ KernelStackApart
  BY DEF StacksHeld, KernelStackApart
<1>8. SwapsOnlyOrphans /\ PrivateMemory
  BY DEF SwapsOnlyOrphans, PrivateMemory
<1>. QED
  BY <1>1, <1>2, <1>4, <1>5, <1>6, <1>7, <1>8 DEF PageInv

LEMMA PagingSteps == PageInv /\ [PagingNext]_vars => PageInv'
<1>. SUFFICES ASSUME PageInv, [PagingNext]_vars PROVE PageInv'
  OBVIOUS
<1>1. CASE UNCHANGED vars
  BY <1>1, PagingStutters
<1>2. CASE Ended
  BY <1>2, PagingStutters DEF Ended
<1>3. ASSUME fate = "ok", NEW c \in CPUs, do_exec(c) \/ do_fork(c) \/ do_thread_create(c)
      PROVE  PageInv'
  BY <1>3, ExecStep, ForkStep, ThreadCreateStep
<1>4. CASE fate = "ok" /\ LoadPage
  BY <1>4, LoadPageStep
<1>5. ASSUME fate = "ok", NEW c \in CPUs, do_exit(c) PROVE PageInv'
  <2>1. running[c] \in Pids
    BY <1>5 DEF do_exit, Calls, PageInv, PagingTypeOK
  <2>. QED
    BY <1>5, <2>1, PcbClearStep DEF do_exit, Calls
<1>6. ASSUME fate = "ok", NEW c \in CPUs, do_kill(c) PROVE PageInv'
  BY <1>6, PcbClearStep DEF do_kill, Calls
<1>7. ASSUME fate = "ok", NEW c \in CPUs, switch_to_wrap(c) PROVE PageInv'
  BY <1>7, SwitchStep
<1>8. ASSUME fate = "ok", NEW c \in CPUs, NEW va \in VAs,
             handle_page_fault_rd(c, va) \/ cow_check(c, va)
      PROVE  PageInv'
  BY <1>8, PageFaultStep, CowCheckStep
<1>9. ASSUME fate = "ok", NEW c \in CPUs, NEW va \in VAs, Walk(c, va) \/ Evict(c, va)
      PROVE  PageInv'
  BY <1>9, TlbStep
<1>10. ASSUME fate = "ok", NEW c \in CPUs, NEW va \in VAs, NEW v \in Values, Store(c, va, v)
       PROVE  PageInv'
  BY <1>10, StoreStep
<1>. QED
  BY <1>1, <1>2, <1>3, <1>4, <1>5, <1>6, <1>7, <1>8, <1>9, <1>10 DEF PagingNext

\* What page tables, references, pages and the zone are to each other, in every
\* reachable state: PageInv is inductive.
THEOREM PagingInvariant == PagingSpec => []PageInv
<1>. QED
  BY PagingInitially, PagingSteps, PTL DEF PagingSpec

\* An entry that is not marked is alone, so those of a frame with many are marked.
LEMMA ManyAreForked == PageInv => SharedIsForked
<1>. SUFFICES ASSUME PageInv, NEW f \in Frames
              PROVE  /\ ref_num[f] >= Cardinality(MapsTo(f))
                     /\ Cardinality(MapsTo(f)) > 1 =>
                          \A m \in MapsTo(f) : ~pte[m[1]][m[2]].w /\ pte[m[1]][m[2]].forked
  BY DEF SharedIsForked
<1>1. ref_num[f] >= Cardinality(MapsTo(f))
  BY DEF PageInv, References
<1>2. ASSUME Cardinality(MapsTo(f)) > 1, NEW m \in MapsTo(f)
      PROVE  ~pte[m[1]][m[2]].w /\ pte[m[1]][m[2]].forked
  <2>1. /\ m[1] \in Pids /\ m[2] \in VAs /\ m = <<m[1], m[2]>>
        /\ pte[m[1]][m[2]] # None /\ pte[m[1]][m[2]].pfn = f
    BY DEF MapsTo, Maps
  <2>2. /\ pte[m[1]][m[2]].w = ~pte[m[1]][m[2]].forked
        /\ ~pte[m[1]][m[2]].forked => MapsTo(f) = {m}
    BY <2>1 DEF PageInv, UnforkedIsAlone
  <2>3. MapsTo(f) # {m}
    <3>1. Cardinality({m}) = 1
      BY FS_Singleton
    <3>. QED
      BY <1>2, <3>1
  <2>. QED
    BY <2>2, <2>3
<1>. QED
  BY <1>1, <1>2

\* The zone of free pages stays exact: no page is handed out twice.
THEOREM ZoneStaysExact == PagingSpec => []ZoneExact
<1>1. PageInv => ZoneExact
  BY DEF PageInv
<1>. QED
  BY <1>1, PagingInvariant, PTL

\* A frame has no more entries than references, and of entries that share one all are
\* marked and none is writable, whatever fork, page faults and exits do.
THEOREM SharedStaysForked == PagingSpec => []SharedIsForked
BY PagingInvariant, ManyAreForked, PTL

\* No user page is ever in a kernel stack, and kernel stacks are apart.
THEOREM KernelStacksStayApart == PagingSpec => []KernelStackApart
<1>1. PageInv => KernelStackApart
  BY DEF PageInv
<1>. QED
  BY <1>1, PagingInvariant, PTL

\* Processes have their memory to themselves until a stale TLB entry is used.
THEOREM MemoryStaysPrivate == PagingSpec => []PrivateMemory
<1>1. PageInv => PrivateMemory
  BY DEF PageInv
<1>. QED
  BY <1>1, PagingInvariant, PTL

\* Pages are swapped out only where mem_info has orphans.
THEOREM OnlyOrphansSwap == PagingSpec => []SwapsOnlyOrphans
<1>1. PageInv => SwapsOnlyOrphans
  BY DEF PageInv
<1>. QED
  BY <1>1, PagingInvariant, PTL
=============================================================================
