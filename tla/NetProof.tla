------------------------------- MODULE NetProof -------------------------------
(***************************************************************************)
(* NetInv is an invariant of module Net, for any number of tasks and any   *)
(* length of the rings, however the steps of the card come between those   *)
(* of the kernel.                                                          *)
(***************************************************************************)
EXTENDS NetInv, ListLemmas

(* Positions in a ring of n descriptors.                                    *)

\* How far it is from a to b, and what follows a.
Ahead(n, a, b) == IF a <= b THEN b - a ELSE b - a + n
Next1(n, a)    == IF a + 1 < n THEN a + 1 ELSE 0

LEMMA TxModulo ==
  \A x \in Nat : x < TXDESCS + TXDESCS => (x % TXDESCS) = IF x < TXDESCS THEN x ELSE x - TXDESCS
BY RingIndex, RingsAssumption, Zenon

LEMMA RxModulo ==
  \A x \in Nat : x < RXDESCS + RXDESCS => (x % RXDESCS) = IF x < RXDESCS THEN x ELSE x - RXDESCS
<1>1. RXDESCS \in Nat \ {0}
  BY RingsAssumption
<1>. QED
  BY <1>1, RingIndex, Zenon

LEMMA TxIndex ==
  /\ \A i, j \in TxRing : ((j + TXDESCS - i) % TXDESCS) = Ahead(TXDESCS, i, j)
  /\ \A i \in TxRing : ((i + 1) % TXDESCS) = Next1(TXDESCS, i) /\ Next1(TXDESCS, i) \in TxRing
<1>1. TXDESCS \in Nat \ {0}
  BY RingsAssumption
<1>2. ASSUME NEW i \in TxRing, NEW j \in TxRing
      PROVE  ((j + TXDESCS - i) % TXDESCS) = Ahead(TXDESCS, i, j)
  <2>1. /\ j + TXDESCS - i \in Nat /\ j + TXDESCS - i < TXDESCS + TXDESCS
        /\ j + TXDESCS - i < TXDESCS <=> ~(i <= j)
    BY <1>1 DEF TxRing
  <2>2. ((j + TXDESCS - i) % TXDESCS) = IF j + TXDESCS - i < TXDESCS THEN j + TXDESCS - i
                                        ELSE (j + TXDESCS - i) - TXDESCS
    BY <1>1, <2>1, TxModulo
  <2>. QED
    BY <1>1, <2>1, <2>2 DEF Ahead, TxRing
<1>3. ASSUME NEW i \in TxRing
      PROVE  ((i + 1) % TXDESCS) = Next1(TXDESCS, i) /\ Next1(TXDESCS, i) \in TxRing
  <2>1. i + 1 \in Nat /\ i + 1 < TXDESCS + TXDESCS /\ i \in Nat /\ i < TXDESCS
    BY <1>1 DEF TxRing
  <2>2. ((i + 1) % TXDESCS) = IF i + 1 < TXDESCS THEN i + 1 ELSE (i + 1) - TXDESCS
    BY <1>1, <2>1, TxModulo
  <2>. QED
    BY <1>1, <2>1, <2>2 DEF Next1, TxRing
<1>. QED
  BY <1>2, <1>3

LEMMA RxIndex ==
  /\ \A i, j \in RxRing : ((j + RXDESCS - i) % RXDESCS) = Ahead(RXDESCS, i, j)
  /\ \A i, j \in RxRing : ((j + RXDESCS - 1 - i) % RXDESCS)
                            = IF i = j THEN RXDESCS - 1 ELSE Ahead(RXDESCS, i, j) - 1
  /\ \A i \in RxRing : ((i + 1) % RXDESCS) = Next1(RXDESCS, i) /\ Next1(RXDESCS, i) \in RxRing
<1>1. RXDESCS \in Nat /\ RXDESCS > 2
  BY RingsAssumption
<1>2. ASSUME NEW i \in RxRing, NEW j \in RxRing
      PROVE  /\ ((j + RXDESCS - i) % RXDESCS) = Ahead(RXDESCS, i, j)
             /\ ((j + RXDESCS - 1 - i) % RXDESCS)
                  = IF i = j THEN RXDESCS - 1 ELSE Ahead(RXDESCS, i, j) - 1
  <2>1. /\ j + RXDESCS - i \in Nat /\ j + RXDESCS - i < RXDESCS + RXDESCS
        /\ j + RXDESCS - i < RXDESCS <=> ~(i <= j)
        /\ j + RXDESCS - 1 - i \in Nat /\ j + RXDESCS - 1 - i < RXDESCS + RXDESCS
        /\ j + RXDESCS - 1 - i < RXDESCS <=> ~(i < j)
        /\ i \in Nat /\ j \in Nat
    BY <1>1 DEF RxRing
  <2>2. ((j + RXDESCS - i) % RXDESCS) = IF j + RXDESCS - i < RXDESCS THEN j + RXDESCS - i
                                        ELSE (j + RXDESCS - i) - RXDESCS
    BY <1>1, <2>1, RxModulo
  <2>3. ((j + RXDESCS - 1 - i) % RXDESCS)
          = IF j + RXDESCS - 1 - i < RXDESCS THEN j + RXDESCS - 1 - i
            ELSE (j + RXDESCS - 1 - i) - RXDESCS
    BY <1>1, <2>1, RxModulo
  <2>4. ((j + RXDESCS - i) % RXDESCS) = Ahead(RXDESCS, i, j)
    BY <1>1, <2>1, <2>2 DEF Ahead
  <2>5. ((j + RXDESCS - 1 - i) % RXDESCS)
          = IF i = j THEN RXDESCS - 1 ELSE Ahead(RXDESCS, i, j) - 1
    BY <1>1, <2>1, <2>3 DEF Ahead
  <2>. QED
    BY <2>4, <2>5
<1>3. ASSUME NEW i \in RxRing
      PROVE  ((i + 1) % RXDESCS) = Next1(RXDESCS, i) /\ Next1(RXDESCS, i) \in RxRing
  <2>1. i + 1 \in Nat /\ i + 1 < RXDESCS + RXDESCS /\ i \in Nat /\ i < RXDESCS
    BY <1>1 DEF RxRing
  <2>2. ((i + 1) % RXDESCS) = IF i + 1 < RXDESCS THEN i + 1 ELSE (i + 1) - RXDESCS
    BY <1>1, <2>1, RxModulo
  <2>. QED
    BY <1>1, <2>1, <2>2 DEF Next1, RxRing
<1>. QED
  BY <1>2, <1>3

-----------------------------------------------------------------------------
(* The transmit ring.                                                       *)

Pending == accepted - wire
TxInv   == TxTypeOK /\ TxPending /\ TxInOrder

LEMMA TxMeans ==
  TxTypeOK =>
    /\ TxInOrder <=> \A i \in TxRing :
                       IF Ahead(TXDESCS, tdh, i) < Pending
                       THEN ~tx_dd[i] /\ tx_pkt[i] = wire + Ahead(TXDESCS, tdh, i) + 1
                       ELSE tx_dd[i]
    /\ TxPending <=> /\ Pending \in Nat /\ Pending <= TXDESCS
                     /\ tdt = IF tdh + Pending < TXDESCS THEN tdh + Pending
                              ELSE tdh + Pending - TXDESCS
<1>. SUFFICES ASSUME TxTypeOK
     PROVE  /\ TxInOrder <=> \A i \in TxRing :
                       IF Ahead(TXDESCS, tdh, i) < Pending
                       THEN ~tx_dd[i] /\ tx_pkt[i] = wire + Ahead(TXDESCS, tdh, i) + 1
                       ELSE tx_dd[i]
            /\ TxPending <=> /\ Pending \in Nat /\ Pending <= TXDESCS
                     /\ tdt = IF tdh + Pending < TXDESCS THEN tdh + Pending
                              ELSE tdh + Pending - TXDESCS
  OBVIOUS
<1>1. \A i \in TxRing : ((i + TXDESCS - tdh) % TXDESCS) = Ahead(TXDESCS, tdh, i)
  BY TxIndex DEF TxTypeOK
<1>2. TxInOrder <=> \A i \in TxRing :
                      IF Ahead(TXDESCS, tdh, i) < Pending
                      THEN ~tx_dd[i] /\ tx_pkt[i] = wire + Ahead(TXDESCS, tdh, i) + 1
                      ELSE tx_dd[i]
  BY <1>1, Zenon DEF TxInOrder, Pending
<1>3. /\ TXDESCS \in Nat \ {0} /\ tdh \in Nat /\ tdh < TXDESCS
      /\ accepted \in Nat /\ wire \in Nat
  BY RingsAssumption DEF TxTypeOK, TxRing
<1>4. Pending \in Nat <=> wire <= accepted
  BY <1>3 DEF Pending
<1>5. ASSUME Pending \in Nat, Pending <= TXDESCS
      PROVE  ((tdh + (accepted - wire)) % TXDESCS)
               = IF tdh + Pending < TXDESCS THEN tdh + Pending ELSE tdh + Pending - TXDESCS
  <2>1. tdh + Pending \in Nat /\ tdh + Pending < TXDESCS + TXDESCS
    BY <1>3, <1>5
  <2>2. ((tdh + Pending) % TXDESCS)
          = IF tdh + Pending < TXDESCS THEN tdh + Pending ELSE tdh + Pending - TXDESCS
    BY <1>3, <1>5, <2>1, TxModulo
  <2>. QED
    BY <2>2 DEF Pending
<1>6. TxPending <=> /\ Pending \in Nat /\ Pending <= TXDESCS
                    /\ tdt = IF tdh + Pending < TXDESCS THEN tdh + Pending
                             ELSE tdh + Pending - TXDESCS
  BY <1>4, <1>5 DEF TxPending, Pending
<1>. QED
  BY <1>2, <1>6

LEMMA TxMeansNext ==
  TxTypeOK' =>
    /\ TxInOrder' <=> \A i \in TxRing :
                       IF Ahead(TXDESCS, tdh', i) < Pending'
                       THEN ~tx_dd'[i] /\ tx_pkt'[i] = wire' + Ahead(TXDESCS, tdh', i) + 1
                       ELSE tx_dd'[i]
    /\ TxPending' <=> /\ Pending' \in Nat /\ Pending' <= TXDESCS
                     /\ tdt' = IF tdh' + Pending' < TXDESCS THEN tdh' + Pending'
                               ELSE tdh' + Pending' - TXDESCS
<1>1. (TxTypeOK =>
    /\ TxInOrder <=> \A i \in TxRing :
                       IF Ahead(TXDESCS, tdh, i) < Pending
                       THEN ~tx_dd[i] /\ tx_pkt[i] = wire + Ahead(TXDESCS, tdh, i) + 1
                       ELSE tx_dd[i]
    /\ TxPending <=> /\ Pending \in Nat /\ Pending <= TXDESCS
                     /\ tdt = IF tdh + Pending < TXDESCS THEN tdh + Pending
                              ELSE tdh + Pending - TXDESCS)'
  BY TxMeans, PTL
<1>. QED
  BY <1>1 DEF Ahead, TxRing

\* The descriptor at the tail is not done just when the ring is full, and the head is at
\* the tail just when there is nothing to send or the ring is full.
LEMMA TxTail ==
  TxInv => /\ TXDESCS \in Nat /\ Pending \in Nat /\ Pending <= TXDESCS
           /\ tx_dd[tdt] <=> Pending < TXDESCS
           /\ tdh = tdt <=> Pending \in {0, TXDESCS}
<1>. SUFFICES ASSUME TxInv
     PROVE  /\ TXDESCS \in Nat /\ Pending \in Nat /\ Pending <= TXDESCS
            /\ tx_dd[tdt] <=> Pending < TXDESCS
            /\ tdh = tdt <=> Pending \in {0, TXDESCS}
  OBVIOUS
<1>1. /\ TXDESCS \in Nat \ {0} /\ tdh \in Nat /\ tdh < TXDESCS /\ tdt \in TxRing
      /\ tdt \in Nat /\ tdt < TXDESCS
  BY RingsAssumption DEF TxInv, TxTypeOK, TxRing
<1>2. /\ Pending \in Nat /\ Pending <= TXDESCS
      /\ tdt = IF tdh + Pending < TXDESCS THEN tdh + Pending ELSE tdh + Pending - TXDESCS
  BY TxMeans DEF TxInv
<1>3. IF Ahead(TXDESCS, tdh, tdt) < Pending
      THEN ~tx_dd[tdt] /\ tx_pkt[tdt] = wire + Ahead(TXDESCS, tdh, tdt) + 1
      ELSE tx_dd[tdt]
  BY <1>1, TxMeans DEF TxInv
<1>4. Ahead(TXDESCS, tdh, tdt) = IF Pending = TXDESCS THEN 0 ELSE Pending
  BY <1>1, <1>2 DEF Ahead
<1>. HIDE DEF Pending
<1>5. tx_dd[tdt] <=> Pending < TXDESCS
  BY <1>1, <1>2, <1>3, <1>4
<1>6. tdh = tdt <=> Pending \in {0, TXDESCS}
  BY <1>1, <1>2
<1>. QED
  BY <1>1, <1>2, <1>5, <1>6

\* The card sends a packet.
LEMMA TransmitKeeps ==
  ASSUME TxInv, Transmit
  PROVE  TxInv' /\ UNCHANGED <<tdt, rxVars, ims>> /\ (icr' = IF tdh' = tdt THEN icr \cup {"TXQE"} ELSE icr)
<1>1. /\ TXDESCS \in Nat \ {0} /\ tdh \in Nat /\ tdh < TXDESCS /\ tdh \in TxRing
      /\ accepted \in Nat /\ wire \in Nat /\ tx_pkt \in [TxRing -> Nat]
      /\ tx_dd \in [TxRing -> BOOLEAN] /\ TxTypeOK
  BY RingsAssumption DEF TxInv, TxTypeOK, TxRing
<1>2. /\ Pending \in Nat /\ Pending <= TXDESCS
      /\ tdt = IF tdh + Pending < TXDESCS THEN tdh + Pending ELSE tdh + Pending - TXDESCS
      /\ \A i \in TxRing : IF Ahead(TXDESCS, tdh, i) < Pending
                           THEN ~tx_dd[i] /\ tx_pkt[i] = wire + Ahead(TXDESCS, tdh, i) + 1
                           ELSE tx_dd[i]
  BY TxMeans DEF TxInv
<1>3. /\ tdh # tdt /\ tdh' = (tdh + 1) % TXDESCS
      /\ tx_dd' = [tx_dd EXCEPT ![tdh] = TRUE] /\ wire' = tx_pkt[tdh]
      /\ UNCHANGED <<tdt, tx_pkt, accepted, rxVars, ims>>
      /\ icr' = IF tdh' = tdt THEN icr \cup {"TXQE"} ELSE icr
  BY DEF Transmit
<1>4. tdh' = Next1(TXDESCS, tdh) /\ tdh' \in TxRing
  BY <1>1, <1>3, TxIndex
<1>5. Pending > 0 /\ Pending < TXDESCS
  BY <1>2, <1>3, TxTail, <1>1
<1>6. wire' = wire + 1
  <2>1. Ahead(TXDESCS, tdh, tdh) = 0
    BY <1>1 DEF Ahead
  <2>2. tx_pkt[tdh] = wire + 0 + 1
    BY <1>1, <1>2, <1>5, <2>1
  <2>. QED
    BY <1>1, <1>3, <2>2
<1>7. TxTypeOK'
  BY <1>1, <1>3, <1>4, <1>6 DEF TxTypeOK
<1>8. Pending' = Pending - 1
  BY <1>1, <1>3, <1>6 DEF Pending
<1>9. \A i \in TxRing : /\ tx_dd'[i] = IF i = tdh THEN TRUE ELSE tx_dd[i]
                        /\ tx_pkt'[i] = tx_pkt[i]
  BY <1>1, <1>3
<1>10. \A i \in TxRing : /\ Ahead(TXDESCS, tdh, i) \in Nat /\ Ahead(TXDESCS, tdh, i) < TXDESCS
                         /\ Ahead(TXDESCS, tdh', i) = IF i = tdh THEN TXDESCS - 1
                                                      ELSE Ahead(TXDESCS, tdh, i) - 1
                         /\ i # tdh => Ahead(TXDESCS, tdh, i) > 0
  BY <1>1, <1>4 DEF Ahead, Next1, TxRing
<1>11. tdt' = IF tdh' + Pending' < TXDESCS THEN tdh' + Pending' ELSE tdh' + Pending' - TXDESCS
  BY <1>1, <1>2, <1>3, <1>4, <1>5, <1>8 DEF Next1
<1>. HIDE DEF Pending
<1>12. ASSUME NEW i \in TxRing
       PROVE  IF Ahead(TXDESCS, tdh', i) < Pending'
              THEN ~tx_dd'[i] /\ tx_pkt'[i] = wire' + Ahead(TXDESCS, tdh', i) + 1
              ELSE tx_dd'[i]
  <2>1. CASE i = tdh
    <3>1. Ahead(TXDESCS, tdh', i) = TXDESCS - 1 /\ tx_dd'[i]
      BY <1>9, <1>10, <2>1
    <3>2. ~(TXDESCS - 1 < Pending')
      BY <1>1, <1>2, <1>5, <1>8
    <3>. QED
      BY <3>1, <3>2, Zenon
  <2>2. CASE i # tdh
    <3>. DEFINE a == Ahead(TXDESCS, tdh, i)
    <3>1. /\ Ahead(TXDESCS, tdh', i) = a - 1 /\ a \in Nat /\ a > 0
          /\ tx_dd'[i] = tx_dd[i] /\ tx_pkt'[i] = tx_pkt[i]
      BY <1>9, <1>10, <2>2
    <3>2. IF a < Pending THEN ~tx_dd[i] /\ tx_pkt[i] = wire + a + 1 ELSE tx_dd[i]
      BY <1>2
    <3>. HIDE DEF a
    <3>3. a - 1 < Pending' <=> a < Pending
      BY <1>2, <1>8, <3>1
    <3>4. wire' + (a - 1) + 1 = wire + a + 1
      BY <1>1, <1>6, <3>1
    <3>. QED
      BY <3>1, <3>2, <3>3, <3>4
  <2>. QED
    BY <2>1, <2>2
<1>13. Pending' \in Nat /\ Pending' <= TXDESCS
  BY <1>1, <1>2, <1>5, <1>8
<1>14. TxInOrder' /\ TxPending'
  BY <1>7, <1>11, <1>12, <1>13, TxMeansNext
<1>. QED
  BY <1>3, <1>7, <1>14 DEF TxInv

\* The driver puts a packet into the ring, unless that is full.
LEMMA TransmitsKeeps ==
  ASSUME TxInv, NEW ok \in BOOLEAN, e1000_transmit(ok)
  PROVE  /\ TxInv' /\ UNCHANGED tdh
         /\ ~ok => Pending = TXDESCS /\ UNCHANGED <<tdt, accepted, wire>>
         /\ Pending' = IF ok THEN Pending + 1 ELSE Pending
<1>1. /\ TXDESCS \in Nat \ {0} /\ tdh \in Nat /\ tdh < TXDESCS /\ tdt \in TxRing
      /\ accepted \in Nat /\ wire \in Nat /\ tx_pkt \in [TxRing -> Nat]
      /\ tx_dd \in [TxRing -> BOOLEAN] /\ TxTypeOK /\ tdh \in TxRing
  BY RingsAssumption DEF TxInv, TxTypeOK, TxRing
<1>2. /\ Pending \in Nat /\ Pending <= TXDESCS
      /\ tdt = IF tdh + Pending < TXDESCS THEN tdh + Pending ELSE tdh + Pending - TXDESCS
      /\ \A i \in TxRing : IF Ahead(TXDESCS, tdh, i) < Pending
                           THEN ~tx_dd[i] /\ tx_pkt[i] = wire + Ahead(TXDESCS, tdh, i) + 1
                           ELSE tx_dd[i]
  BY TxMeans DEF TxInv
<1>3. ok = tx_dd[tdt] /\ (tx_dd[tdt] <=> Pending < TXDESCS)
  BY TxTail DEF e1000_transmit
<1>4. CASE ~ok
  <2>1. UNCHANGED txVars
    BY <1>4 DEF e1000_transmit
  <2>2. Pending' = Pending
    BY <2>1 DEF txVars, Pending
  <2>3. Pending = TXDESCS
    BY <1>1, <1>2, <1>3, <1>4
  <2>4. TxInv'
    BY <2>1 DEF txVars, TxInv, TxTypeOK, TxPending, TxInOrder
  <2>. QED
    BY <1>4, <2>1, <2>2, <2>3, <2>4 DEF txVars
<1>5. CASE ok
  <2>1. /\ accepted' = accepted + 1
        /\ tx_pkt' = [tx_pkt EXCEPT ![tdt] = accepted']
        /\ tx_dd' = [tx_dd EXCEPT ![tdt] = FALSE]
        /\ tdt' = (tdt + 1) % TXDESCS
        /\ UNCHANGED <<tdh, wire>>
    BY <1>5 DEF e1000_transmit
  <2>2. tdt' = Next1(TXDESCS, tdt) /\ tdt' \in TxRing
    BY <1>1, <2>1, TxIndex
  <2>3. TxTypeOK'
    BY <1>1, <2>1, <2>2 DEF TxTypeOK
  <2>4. Pending' = Pending + 1 /\ Pending < TXDESCS /\ accepted = wire + Pending
    BY <1>1, <1>3, <1>5, <2>1 DEF Pending
  <2>5. \A i \in TxRing : /\ tx_dd'[i] = IF i = tdt THEN FALSE ELSE tx_dd[i]
                          /\ tx_pkt'[i] = IF i = tdt THEN accepted + 1 ELSE tx_pkt[i]
    BY <1>1, <2>1
  <2>6. \A i \in TxRing : /\ Ahead(TXDESCS, tdh, i) \in Nat
                          /\ Ahead(TXDESCS, tdh, i) = Pending <=> i = tdt
    BY <1>1, <1>2, <2>4 DEF Ahead, TxRing
  <2>7. tdt' = IF tdh' + Pending' < TXDESCS THEN tdh' + Pending' ELSE tdh' + Pending' - TXDESCS
    BY <1>1, <1>2, <2>1, <2>2, <2>4 DEF Next1
  <2>. HIDE DEF Pending
  <2>8. ASSUME NEW i \in TxRing
        PROVE  IF Ahead(TXDESCS, tdh', i) < Pending'
               THEN ~tx_dd'[i] /\ tx_pkt'[i] = wire' + Ahead(TXDESCS, tdh', i) + 1
               ELSE tx_dd'[i]
    <3>1. CASE i = tdt
      BY <1>1, <1>2, <2>1, <2>4, <2>5, <2>6, <3>1
    <3>2. CASE i # tdt
      BY <1>1, <1>2, <2>1, <2>4, <2>5, <2>6, <3>2
    <3>. QED
      BY <3>1, <3>2
  <2>9. Pending' \in Nat /\ Pending' <= TXDESCS
    BY <1>1, <1>2, <2>4
  <2>10. TxInOrder' /\ TxPending'
    BY <2>3, <2>7, <2>8, <2>9, TxMeansNext
  <2>. QED
    BY <1>5, <2>1, <2>3, <2>4, <2>10 DEF TxInv
<1>. QED
  BY <1>4, <1>5

-----------------------------------------------------------------------------
(* The receive ring.                                                        *)

Held            == RXDESCS - 1 - RxFree       \* the packets that the driver has
BehindHead(h, i) == IF i = h THEN RXDESCS - 1 ELSE Ahead(RXDESCS, i, h) - 1
RxInv           == RxTypeOK /\ RxInOrder

LEMMA RxMeans ==
  RxTypeOK =>
    /\ RxNext = Next1(RXDESCS, rdt) /\ RxNext \in RxRing
    /\ RxFree = Ahead(RXDESCS, rdh, rdt) /\ RxFree \in Nat /\ Held \in Nat
    /\ Held = Ahead(RXDESCS, RxNext, rdh)
    /\ RxInOrder <=>
         \/ rx_stale
         \/ /\ polled <= arrived - Held
            /\ \A i \in RxRing :
                 IF BehindHead(rdh, i) < Held
                 THEN rx_dd[i] /\ rx_pkt[i] = arrived - BehindHead(rdh, i)
                 ELSE ~rx_dd[i]
<1>. SUFFICES ASSUME RxTypeOK
     PROVE /\ RxNext = Next1(RXDESCS, rdt) /\ RxNext \in RxRing
           /\ RxFree = Ahead(RXDESCS, rdh, rdt) /\ RxFree \in Nat /\ Held \in Nat
           /\ Held = Ahead(RXDESCS, RxNext, rdh)
           /\ RxInOrder <=>
                \/ rx_stale
                \/ /\ polled <= arrived - Held
                   /\ \A i \in RxRing :
                        IF BehindHead(rdh, i) < Held
                        THEN rx_dd[i] /\ rx_pkt[i] = arrived - BehindHead(rdh, i)
                        ELSE ~rx_dd[i]
  OBVIOUS
<1>1. /\ RXDESCS \in Nat /\ RXDESCS > 2 /\ rdh \in RxRing /\ rdt \in RxRing
      /\ rdh \in Nat /\ rdt \in Nat /\ rdh < RXDESCS /\ rdt < RXDESCS
  BY RingsAssumption DEF RxTypeOK, RxRing
<1>2. RxNext = Next1(RXDESCS, rdt) /\ RxNext \in RxRing
  BY <1>1, RxIndex DEF RxNext
<1>3. RxFree = Ahead(RXDESCS, rdh, rdt)
  BY <1>1, RxIndex DEF RxFree
<1>4. RxFree \in Nat /\ Held \in Nat
  BY <1>1, <1>3 DEF Held, Ahead
<1>5. Held = Ahead(RXDESCS, RxNext, rdh)
  BY <1>1, <1>2, <1>3 DEF Held, Ahead, Next1
<1>6. ((rdh + RXDESCS - RxNext) % RXDESCS) = Held
  BY <1>1, <1>2, <1>5, RxIndex
<1>7. \A i \in RxRing : ((rdh + RXDESCS - 1 - i) % RXDESCS) = BehindHead(rdh, i)
  BY <1>1, RxIndex DEF BehindHead
<1>8. RxInOrder <=>
         \/ rx_stale
         \/ /\ polled <= arrived - Held
            /\ \A i \in RxRing :
                 IF BehindHead(rdh, i) < Held
                 THEN rx_dd[i] /\ rx_pkt[i] = arrived - BehindHead(rdh, i)
                 ELSE ~rx_dd[i]
  BY <1>6, <1>7, Zenon DEF RxInOrder
<1>. QED
  BY <1>2, <1>3, <1>4, <1>5, <1>8

LEMMA RxMeansNext ==
  RxTypeOK' =>
    /\ RxNext' = Next1(RXDESCS, rdt') /\ RxNext' \in RxRing
    /\ RxFree' = Ahead(RXDESCS, rdh', rdt') /\ RxFree' \in Nat /\ Held' \in Nat
    /\ Held' = Ahead(RXDESCS, RxNext', rdh')
    /\ RxInOrder' <=>
         \/ rx_stale'
         \/ /\ polled' <= arrived' - Held'
            /\ \A i \in RxRing :
                 IF BehindHead(rdh', i) < Held'
                 THEN rx_dd'[i] /\ rx_pkt'[i] = arrived' - BehindHead(rdh', i)
                 ELSE ~rx_dd'[i]
<1>1. (RxTypeOK =>
    /\ RxNext = Next1(RXDESCS, rdt) /\ RxNext \in RxRing
    /\ RxFree = Ahead(RXDESCS, rdh, rdt) /\ RxFree \in Nat /\ Held \in Nat
    /\ Held = Ahead(RXDESCS, RxNext, rdh)
    /\ RxInOrder <=>
         \/ rx_stale
         \/ /\ polled <= arrived - Held
            /\ \A i \in RxRing :
                 IF BehindHead(rdh, i) < Held
                 THEN rx_dd[i] /\ rx_pkt[i] = arrived - BehindHead(rdh, i)
                 ELSE ~rx_dd[i])'
  BY RxMeans, PTL
<1>. QED
  BY <1>1 DEF Ahead, RxRing, BehindHead, Next1

\* A packet arrives.
LEMMA ArriveKeeps ==
  ASSUME RxInv, Arrive
  PROVE  /\ RxInv' /\ UNCHANGED <<txVars, ims, rx_stale>>
         /\ RxFree \in Nat /\ RxFree' = RxFree - 1
         /\ \/ icr' = icr \cup {"RXDMT0"}
            \/ RxFree - 1 # RXDESCS \div 2 /\ icr' = icr
<1>1. /\ RXDESCS \in Nat /\ RXDESCS > 2 /\ rdh \in RxRing /\ rdt \in RxRing
      /\ rdh \in Nat /\ rdt \in Nat /\ rdh < RXDESCS /\ rdt < RXDESCS
      /\ rx_dd \in [RxRing -> BOOLEAN] /\ rx_pkt \in [RxRing -> Nat]
      /\ arrived \in Nat /\ polled \in Nat /\ RxTypeOK
  BY RingsAssumption DEF RxInv, RxTypeOK, RxRing
<1>2. /\ RxFree = Ahead(RXDESCS, rdh, rdt) /\ RxFree \in Nat /\ Held \in Nat
      /\ rx_stale \/ /\ polled <= arrived - Held
                     /\ \A i \in RxRing :
                          IF BehindHead(rdh, i) < Held
                          THEN rx_dd[i] /\ rx_pkt[i] = arrived - BehindHead(rdh, i)
                          ELSE ~rx_dd[i]
  BY RxMeans DEF RxInv
<1>3. /\ rdh # rdt /\ arrived' = arrived + 1
      /\ rx_pkt' = [rx_pkt EXCEPT ![rdh] = arrived']
      /\ rx_dd' = [rx_dd EXCEPT ![rdh] = TRUE]
      /\ rdh' = (rdh + 1) % RXDESCS
      /\ UNCHANGED <<rdt, polled, rx_stale, txVars, ims>>
  BY DEF Arrive
<1>4. rdh' = Next1(RXDESCS, rdh) /\ rdh' \in RxRing
  BY <1>1, <1>3, RxIndex
<1>5. RxTypeOK'
  BY <1>1, <1>3, <1>4 DEF RxInv, RxTypeOK
<1>6. RxFree' = RxFree - 1
  <2>1. RxFree' = Ahead(RXDESCS, rdh', rdt)
    BY <1>3, <1>5, RxMeansNext
  <2>. QED
    BY <1>1, <1>2, <1>3, <1>4, <2>1 DEF Ahead, Next1
<1>7. Held' = Held + 1
  BY <1>1, <1>2, <1>6 DEF Held
<1>8. \A i \in RxRing :
        /\ BehindHead(rdh, i) \in Nat
        /\ BehindHead(rdh', i) = IF i = rdh THEN 0 ELSE BehindHead(rdh, i) + 1
  BY <1>1, <1>4 DEF BehindHead, Ahead, Next1, RxRing
<1>9. \A i \in RxRing : /\ rx_dd'[i] <=> i = rdh \/ rx_dd[i]
                        /\ rx_pkt'[i] = IF i = rdh THEN arrived + 1 ELSE rx_pkt[i]
  BY <1>1, <1>3
<1>10. CASE rx_stale
  <2>1. RxInOrder'
    BY <1>3, <1>10 DEF RxInOrder
  <2>. QED
    BY <1>2, <1>3, <1>5, <1>6, <2>1 DEF RxInv, Arrive
<1>11. CASE ~rx_stale
  <2>. HIDE DEF Held
  <2>1. polled' <= arrived' - Held'
    BY <1>1, <1>2, <1>3, <1>7, <1>11
  <2>2. ASSUME NEW i \in RxRing
        PROVE  IF BehindHead(rdh', i) < Held'
               THEN rx_dd'[i] /\ rx_pkt'[i] = arrived' - BehindHead(rdh', i)
               ELSE ~rx_dd'[i]
    <3>1. CASE i = rdh
      <4>1. BehindHead(rdh', i) = 0 /\ rx_dd'[i] /\ rx_pkt'[i] = arrived + 1
        BY <1>8, <1>9, <3>1
      <4>2. 0 < Held' /\ arrived' - 0 = arrived + 1
        BY <1>1, <1>2, <1>3, <1>7
      <4>. QED
        BY <4>1, <4>2, Zenon
    <3>2. CASE i # rdh
      <4>. DEFINE a == BehindHead(rdh, i)
      <4>1. /\ BehindHead(rdh', i) = a + 1 /\ a \in Nat
            /\ rx_dd'[i] <=> rx_dd[i]
            /\ rx_pkt'[i] = rx_pkt[i]
        BY <1>8, <1>9, <3>2
      <4>2. IF a < Held THEN rx_dd[i] /\ rx_pkt[i] = arrived - a ELSE ~rx_dd[i]
        BY <1>2, <1>11
      <4>. HIDE DEF a
      <4>3. (a + 1 < Held' <=> a < Held) /\ arrived' - (a + 1) = arrived - a
        BY <1>1, <1>2, <1>3, <1>7, <4>1
      <4>. QED
        BY <4>1, <4>2, <4>3
    <3>. QED
      BY <3>1, <3>2
  <2>3. RxInOrder'
    BY <1>5, <2>1, <2>2, RxMeansNext
  <2>. QED
    BY <1>2, <1>3, <1>5, <1>6, <2>3 DEF RxInv, Arrive
<1>. QED
  BY <1>10, <1>11

\* The driver takes a packet out of the ring, if it has one.
LEMMA PollKeeps ==
  ASSUME RxInv, NEW ok \in BOOLEAN, e1000_poll(ok)
  PROVE  /\ RxInv' /\ UNCHANGED <<rdh, rx_stale>> /\ RxFree \in Nat
         /\ ~rx_stale => IF ok THEN RxFree' = RxFree + 1
                         ELSE RxFree = RXDESCS - 1 /\ RxFree' = RxFree
<1>1. /\ RXDESCS \in Nat /\ RXDESCS > 2 /\ rdh \in RxRing /\ rdt \in RxRing
      /\ rdh \in Nat /\ rdt \in Nat /\ rdh < RXDESCS /\ rdt < RXDESCS
      /\ rx_dd \in [RxRing -> BOOLEAN] /\ rx_pkt \in [RxRing -> Nat]
      /\ arrived \in Nat /\ polled \in Nat /\ RxTypeOK
  BY RingsAssumption DEF RxInv, RxTypeOK, RxRing
<1>2. /\ RxFree = Ahead(RXDESCS, rdh, rdt) /\ RxFree \in Nat /\ Held \in Nat
      /\ RxNext = Next1(RXDESCS, rdt) /\ RxNext \in RxRing
      /\ Held = Ahead(RXDESCS, RxNext, rdh)
      /\ rx_stale \/ /\ polled <= arrived - Held
                     /\ \A i \in RxRing :
                          IF BehindHead(rdh, i) < Held
                          THEN rx_dd[i] /\ rx_pkt[i] = arrived - BehindHead(rdh, i)
                          ELSE ~rx_dd[i]
  BY RxMeans DEF RxInv
<1>3. ok = rx_dd[RxNext]
  BY DEF e1000_poll
<1>4. \A i \in RxRing :
        /\ BehindHead(rdh, i) \in Nat
        /\ i = RxNext => BehindHead(rdh, i) = IF Held = 0 THEN RXDESCS - 1 ELSE Held - 1
        /\ i # RxNext => BehindHead(rdh, i) # Held - 1
  <2>. SUFFICES ASSUME NEW i \in RxRing
       PROVE  /\ BehindHead(rdh, i) \in Nat
              /\ i = RxNext => BehindHead(rdh, i) = IF Held = 0 THEN RXDESCS - 1 ELSE Held - 1
              /\ i # RxNext => BehindHead(rdh, i) # Held - 1
    OBVIOUS
  <2>1. /\ i \in Nat /\ i < RXDESCS /\ RxNext \in Nat /\ RxNext < RXDESCS
        /\ Held = IF RxNext <= rdh THEN rdh - RxNext ELSE rdh - RxNext + RXDESCS
    BY <1>1, <1>2 DEF RxRing, Ahead
  <2>. HIDE DEF Held
  <2>. QED
    BY <1>1, <2>1 DEF BehindHead, Ahead
<1>5. Held <= RXDESCS - 1
  BY <1>1, <1>2 DEF Held
<1>6. ~rx_stale => (rx_dd[RxNext] <=> Held > 0)
  <2>. HIDE DEF Held
  <2>1. ASSUME ~rx_stale PROVE rx_dd[RxNext] <=> Held > 0
    <3>1. IF BehindHead(rdh, RxNext) < Held THEN rx_dd[RxNext] ELSE ~rx_dd[RxNext]
      BY <1>2, <2>1
    <3>2. BehindHead(rdh, RxNext) < Held <=> Held > 0
      BY <1>1, <1>2, <1>4, <1>5
    <3>. QED
      BY <3>1, <3>2
  <2>. QED
    BY <2>1
<1>7. CASE ~ok
  <2>1. UNCHANGED rxVars
    BY <1>7 DEF e1000_poll
  <2>2. RxInv' /\ RxFree' = RxFree
    BY <2>1 DEF rxVars, RxInv, RxTypeOK, RxInOrder, RxFree, RxNext
  <2>3. ~rx_stale => RxFree = RXDESCS - 1
    BY <1>1, <1>2, <1>3, <1>6, <1>7 DEF Held
  <2>. QED
    BY <1>2, <1>7, <2>1, <2>2, <2>3 DEF rxVars
<1>8. CASE ok
  <2>1. /\ polled' = rx_pkt[RxNext]
        /\ rx_dd' = [rx_dd EXCEPT ![RxNext] = FALSE]
        /\ rdt' = RxNext
        /\ UNCHANGED <<rdh, rx_pkt, arrived, rx_stale>>
    BY <1>8 DEF e1000_poll
  <2>2. RxTypeOK'
    BY <1>1, <1>2, <2>1 DEF RxInv, RxTypeOK
  <2>3. CASE rx_stale
    <3>1. RxInOrder'
      BY <2>1, <2>3 DEF RxInOrder
    <3>. QED
      BY <1>2, <2>1, <2>2, <2>3, <3>1 DEF RxInv
  <2>4. CASE ~rx_stale
    <3>1. Held > 0
      BY <1>3, <1>6, <1>8, <2>4
    <3>2. RxFree' = RxFree + 1
      <4>1. RxFree' = Ahead(RXDESCS, rdh, RxNext)
        BY <2>1, <2>2, RxMeansNext
      <4>2. RxNext # rdh
        BY <1>1, <1>2, <3>1 DEF Ahead
      <4>. QED
        BY <1>1, <1>2, <4>1, <4>2 DEF Ahead, Next1
    <3>3. Held' = Held - 1
      BY <1>1, <1>2, <3>2 DEF Held
    <3>. HIDE DEF Held
    <3>4. polled' = arrived - (Held - 1)
      <4>1. BehindHead(rdh, RxNext) = Held - 1
        BY <1>2, <1>4, <3>1
      <4>2. rx_pkt[RxNext] = arrived - BehindHead(rdh, RxNext)
        BY <1>2, <1>3, <1>8, <2>4
      <4>. QED
        BY <2>1, <4>1, <4>2
    <3>5. polled' <= arrived' - Held'
      BY <1>1, <1>2, <2>1, <3>3, <3>4
    <3>6. \A i \in RxRing : rx_dd'[i] <=> i # RxNext /\ rx_dd[i]
      BY <1>1, <2>1
    <3>7. ASSUME NEW i \in RxRing
          PROVE  IF BehindHead(rdh', i) < Held'
                 THEN rx_dd'[i] /\ rx_pkt'[i] = arrived' - BehindHead(rdh', i)
                 ELSE ~rx_dd'[i]
      <4>0. rdh' = rdh /\ rx_pkt' = rx_pkt /\ arrived' = arrived
        BY <2>1
      <4>1. CASE i = RxNext
        <5>1. BehindHead(rdh, i) = Held - 1 /\ ~rx_dd'[i]
          <6>1. Held # 0 /\ ~rx_dd'[RxNext]
            BY <1>2, <3>1, <3>6
          <6>. QED
            BY <1>2, <1>4, <4>1, <6>1
        <5>2. ~(Held - 1 < Held')
          BY <1>2, <3>3
        <5>. QED
          BY <4>0, <5>1, <5>2
      <4>2. CASE i # RxNext
        <5>. DEFINE a == BehindHead(rdh, i)
        <5>1. a \in Nat /\ a # Held - 1 /\ (rx_dd'[i] <=> rx_dd[i])
          BY <1>4, <3>6, <4>2
        <5>2. IF a < Held THEN rx_dd[i] /\ rx_pkt[i] = arrived - a ELSE ~rx_dd[i]
          BY <1>2, <2>4
        <5>. HIDE DEF a
        <5>3. a < Held' <=> a < Held
          BY <1>2, <3>3, <5>1
        <5>4. IF a < Held' THEN rx_dd'[i] /\ rx_pkt'[i] = arrived' - a ELSE ~rx_dd'[i]
          BY <4>0, <5>1, <5>2, <5>3
        <5>. QED
          BY <4>0, <5>4 DEF a
      <4>. QED
        BY <4>1, <4>2
    <3>8. RxInOrder'
      BY <2>2, <3>5, <3>7, RxMeansNext
    <3>. QED
      BY <1>2, <1>8, <2>1, <2>2, <3>2, <3>8 DEF RxInv
  <2>. QED
    BY <2>3, <2>4
<1>. QED
  BY <1>7, <1>8

\* The driver drops packets.
LEMMA DropKeeps ==
  ASSUME RxInv, e1000_clear_recv_pkts
  PROVE  RxInv' /\ rx_stale'
<1>. DEFINE at(i)  == (rdt + 1 + i) % RXDESCS
            Stops  == {i \in 1 .. RXDESCS : i = RXDESCS \/ ~rx_dd[at(i)]}
            IsStop(i) == /\ i = RXDESCS \/ ~rx_dd[at(i)]
                         /\ \A j \in 1 .. i - 1 : rx_dd[at(j)]
            stop == CHOOSE i \in 1 .. RXDESCS : IsStop(i)
<1>1. /\ RXDESCS \in Nat \ {0} /\ rdh \in RxRing /\ rdt \in RxRing
      /\ rdt \in Nat
  BY RingsAssumption DEF RxInv, RxTypeOK, RxRing
<1>2. \E i \in 1 .. RXDESCS : IsStop(i)
  <2>1. Stops \in SUBSET Nat /\ RXDESCS \in Stops
    BY <1>1
  <2>2. PICK i \in Stops : \A j \in Stops : i <= j
    BY <2>1, LeastElement
  <2>3. \A j \in 1 .. i - 1 : rx_dd[at(j)]
    <3>. SUFFICES ASSUME NEW j \in 1 .. i - 1, ~rx_dd[at(j)] PROVE FALSE
      OBVIOUS
    <3>1. j \in Stops /\ j < i
      BY <1>1, <2>2
    <3>2. i <= j /\ i \in Nat /\ j \in Nat
      BY <1>1, <2>2, <3>1
    <3>. QED
      BY <3>1, <3>2
  <2>. QED
    BY <2>2, <2>3
<1>3. stop \in 1 .. RXDESCS
  BY <1>2
<1>4. /\ rx_dd' = [d \in RxRing |-> rx_dd[d] /\ \A i \in 1 .. stop - 1 : d # at(i)]
      /\ rdt' = (rdt + stop) % RXDESCS /\ rx_stale' = TRUE
      /\ UNCHANGED <<rdh, rx_pkt, arrived, polled>>
  BY DEF e1000_clear_recv_pkts
<1>. HIDE DEF stop
<1>5. rdt' \in RxRing
  BY <1>1, <1>3, <1>4 DEF RxRing
<1>6. rx_dd' \in [RxRing -> BOOLEAN]
  BY <1>4
<1>. QED
  BY <1>4, <1>5, <1>6 DEF RxInv, RxTypeOK, RxInOrder

-----------------------------------------------------------------------------
(* The queues.                                                              *)

\* Three queues that have, each once, the tasks that are blocked when w is where they are.
Apart(a, b, c, w) ==
  /\ a \in Seq(Tasks) /\ b \in Seq(Tasks) /\ c \in Seq(Tasks)
  /\ IsInjective(a) /\ IsInjective(b) /\ IsInjective(c)
  /\ \A u \in Tasks :
       /\ ~(Contains(a, u) /\ Contains(b, u))
       /\ ~(Contains(a, u) /\ Contains(c, u))
       /\ ~(Contains(b, u) /\ Contains(c, u))
       /\ w[u] = "blocked" <=> Contains(a, u) \/ Contains(b, u) \/ Contains(c, u)

\* Queue r is queue q without the tasks of P.
Shorter(r, q, P) ==
  /\ r \in Seq(Tasks) /\ IsInjective(r)
  /\ \A u \in Tasks : Contains(r, u) <=> Contains(q, u) /\ u \notin P

LEMMA ApartMeans ==
  /\ QueueTypeOK => (QueuesApart <=> Apart(send_queue, recv_queue, stream_queue, where))
  /\ QueueTypeOK' => (QueuesApart' <=> Apart(send_queue', recv_queue', stream_queue', where'))
<1>1. QueueTypeOK => (QueuesApart <=> Apart(send_queue, recv_queue, stream_queue, where))
  BY DEF QueueTypeOK, QueuesApart, Apart
<1>2. (QueueTypeOK => (QueuesApart <=> Apart(send_queue, recv_queue, stream_queue, where)))'
  BY <1>1, PTL
<1>. QED
  BY <1>1, <1>2 DEF Apart

\* A task joins the first of the queues.
LEMMA ApartJoined ==
  ASSUME NEW a, NEW b, NEW c, Apart(a, b, c, where), NEW t \in Tasks,
         where \in [Tasks -> Wheres], where[t] # "blocked",
         where' = [where EXCEPT ![t] = "blocked"]
  PROVE  Apart(Append(a, t), b, c, where')
<1>1. /\ a \in Seq(Tasks) /\ IsInjective(a)
      /\ ~Contains(a, t) /\ ~Contains(b, t) /\ ~Contains(c, t)
  BY DEF Apart
<1>2. /\ Append(a, t) \in Seq(Tasks) /\ IsInjective(Append(a, t))
      /\ \A x : Contains(Append(a, t), x) <=> Contains(a, x) \/ x = t
  BY <1>1, AppendElements
<1>3. \A u \in Tasks : where'[u] = IF u = t THEN "blocked" ELSE where[u]
  OBVIOUS
<1>. QED
  BY <1>1, <1>2, <1>3, SMT DEF Apart

\* The order of the queues does not matter.
LEMMA ApartTurned ==
  ASSUME NEW a, NEW b, NEW c, NEW w
  PROVE  Apart(a, b, c, w) <=> Apart(b, c, a, w)
BY DEF Apart

\* Tasks leave the queues.
LEMMA ApartShorter ==
  ASSUME NEW a, NEW b, NEW c, Apart(a, b, c, where), NEW P,
         NEW d, NEW e, NEW f, Shorter(d, a, P), Shorter(e, b, P), Shorter(f, c, P),
         \A u \in Tasks : where'[u] = "blocked" <=> where[u] = "blocked" /\ u \notin P
  PROVE  Apart(d, e, f, where')
BY SMT DEF Apart, Shorter

LEMMA ShorterCases ==
  ASSUME NEW q \in Seq(Tasks), IsInjective(q), NEW P
  PROVE  /\ (\A u \in Tasks : u \in P => ~Contains(q, u)) => Shorter(q, q, P)
         /\ ToSet(q) \subseteq P => Shorter(<<>>, q, P)
         /\ Shorter(Leaving(q, P), q, P)
         /\ \A t : P = {t} => Shorter(unlink(q, t), q, P)
<1>1. (\A u \in Tasks : u \in P => ~Contains(q, u)) => Shorter(q, q, P)
  BY DEF Shorter
<1>2. ASSUME ToSet(q) \subseteq P PROVE Shorter(<<>>, q, P)
  <2>1. <<>> \in Seq(Tasks) /\ IsInjective(<<>>) /\ \A u : ~Contains(<<>>, u)
    BY DEF IsInjective, Contains
  <2>2. \A u : Contains(q, u) => u \in P
    BY <1>2, SetOfElements
  <2>. QED
    BY <2>1, <2>2 DEF Shorter
<1>3. Shorter(Leaving(q, P), q, P)
  BY LeavingElements DEF Shorter
<1>4. ASSUME NEW t, P = {t} PROVE Shorter(unlink(q, t), q, P)
  <2>1. /\ unlink(q, t) \in Seq(Tasks) /\ IsInjective(unlink(q, t))
        /\ \A x : Contains(unlink(q, t), x) => Contains(q, x)
        /\ \A x : Contains(q, x) /\ x # t => Contains(unlink(q, t), x)
        /\ ~Contains(unlink(q, t), t)
    BY UnlinkElements, UnlinkInjective
  <2>. QED
    BY <1>4, <2>1 DEF Shorter
<1>. QED
  BY <1>1, <1>2, <1>3, <1>4

\* An empty queue stays empty.
LEMMA EmptyStays ==
  ASSUME NEW q \in Seq(Tasks), NEW P, NEW t
  PROVE  q = <<>> => Leaving(q, P) = <<>> /\ unlink(q, t) = <<>>
<1>1. q = <<>> => Leaving(q, P) = <<>>
  BY LeavingElements
<1>2. q = <<>> => unlink(q, t) = <<>>
  BY DEF unlink, Contains
<1>. QED
  BY <1>1, <1>2

LEMMA NoReceivers ==
  /\ QueueTypeOK => (Receivers = <<>> <=> recv_queue = <<>> /\ stream_queue = <<>>)
  /\ QueueTypeOK' => (Receivers' = <<>> <=> recv_queue' = <<>> /\ stream_queue' = <<>>)
<1>1. ASSUME NEW a \in Seq(Tasks), NEW b \in Seq(Tasks)
      PROVE  a \o b = <<>> <=> a = <<>> /\ b = <<>>
  <2>1. Len(a \o b) = Len(a) + Len(b) /\ a \o b \in Seq(Tasks)
    BY ConcatProperties
  <2>2. /\ Len(a) \in Nat /\ Len(b) \in Nat
        /\ (a = <<>> <=> Len(a) = 0) /\ (b = <<>> <=> Len(b) = 0)
        /\ (a \o b = <<>> <=> Len(a \o b) = 0)
    BY <2>1, LenProperties, EmptySeq
  <2>. HIDE DEF Receivers
  <2>. QED
    BY <2>1, <2>2
<1>2. QueueTypeOK => (Receivers = <<>> <=> recv_queue = <<>> /\ stream_queue = <<>>)
  BY <1>1, Zenon DEF QueueTypeOK, Receivers
<1>3. QueueTypeOK' => (Receivers' = <<>> <=> recv_queue' = <<>> /\ stream_queue' = <<>>)
  BY <1>1, Zenon DEF QueueTypeOK, Receivers
<1>. QED
  BY <1>2, <1>3

-----------------------------------------------------------------------------
(* Who waits will be woken.                                                 *)

\* The parts of the invariant.
LEMMA NetParts ==
  /\ NetInv <=> /\ TxInv /\ RxInv /\ QueueTypeOK /\ icr \subseteq Causes /\ ims \subseteq Causes
                /\ SendersServed /\ RxWaitersServed
                /\ Apart(send_queue, recv_queue, stream_queue, where)
  /\ NetInv' <=> /\ TxInv' /\ RxInv' /\ QueueTypeOK' /\ icr' \subseteq Causes
                 /\ ims' \subseteq Causes /\ SendersServed' /\ RxWaitersServed'
                 /\ Apart(send_queue', recv_queue', stream_queue', where')
BY ApartMeans DEF NetInv, NetTypeOK, TxInv, RxInv

\* The transmit ring as it is, or with one packet more if there was room.
LEMMA SendersStayServed ==
  ASSUME TxInv, SendersServed, send_resp_pkt \/ UNCHANGED txVars,
         ims \subseteq ims', UNCHANGED <<send_queue, icr>>
  PROVE  TxInv' /\ SendersServed'
<1>1. CASE UNCHANGED txVars
  BY <1>1 DEF txVars, TxInv, TxTypeOK, TxPending, TxInOrder, SendersServed, TxRing
<1>2. ASSUME NEW ok \in BOOLEAN, e1000_transmit(ok)
      PROVE  TxInv' /\ SendersServed'
  <2>1. /\ TxInv' /\ UNCHANGED tdh
        /\ ~ok => Pending = TXDESCS /\ UNCHANGED <<tdt, accepted, wire>>
        /\ Pending' = IF ok THEN Pending + 1 ELSE Pending
    BY <1>2, TransmitsKeeps
  <2>2. Pending \in Nat
    BY TxTail
  <2>3. (TxInv => /\ TXDESCS \in Nat /\ Pending \in Nat /\ Pending <= TXDESCS
                  /\ tx_dd[tdt] <=> Pending < TXDESCS
                  /\ tdh = tdt <=> Pending \in {0, TXDESCS})'
    BY TxTail, PTL
  <2>4. CASE ok
    <3>1. Pending' # 0
      BY <2>1, <2>2, <2>4
    <3>2. tdh' # tdt' \/ Pending' = TXDESCS
      BY <2>1, <2>3, <3>1
    <3>. QED
      BY <2>1, <3>2 DEF SendersServed, Pending
  <2>5. CASE ~ok
    BY <2>1, <2>5 DEF SendersServed
  <2>. QED
    BY <2>4, <2>5
<1>. QED
  BY <1>1, <1>2 DEF send_resp_pkt

\* Most of the ring is more than half of it.
LEMMA HalfRing ==
  RXDESCS \in Nat /\ RXDESCS \div 2 \in Nat /\ RXDESCS - 1 > RXDESCS \div 2
BY RingsAssumption

\* The receive ring as it is.
LEMMA RxSame ==
  ASSUME RxInv, UNCHANGED rxVars
  PROVE  RxInv' /\ RxFree' = RxFree /\ rx_stale' = rx_stale
BY DEF rxVars, RxInv, RxTypeOK, RxInOrder, RxFree, RxNext, RxRing

LEMMA TxSame ==
  ASSUME TxInv, UNCHANGED txVars
  PROVE  TxInv'
BY DEF txVars, TxInv, TxTypeOK, TxPending, TxInOrder, TxRing

LEMMA RxWaitersStayServed ==
  ASSUME RxWaitersServed, UNCHANGED rxVars, ims \subseteq ims', icr \subseteq icr',
         Receivers' # <<>> => Receivers # <<>>
  PROVE  RxWaitersServed'
<1>1. RxFree' = RxFree /\ rx_stale' = rx_stale
  BY DEF rxVars, RxFree
<1>. HIDE DEF RxFree, Receivers
<1>. QED
  BY <1>1 DEF RxWaitersServed

\* The driver looks for a packet: who waits after that either waited before, or
\* found none.
LEMMA ReceiversServed ==
  ASSUME RxInv, RxWaitersServed, NEW ok \in BOOLEAN, e1000_poll(ok),
         ims \subseteq ims', icr' = icr,
         Receivers' # <<>> => Receivers # <<>> \/ (~ok /\ "RXDMT0" \in ims')
  PROVE  RxInv' /\ RxWaitersServed'
<1>1. /\ RxInv' /\ UNCHANGED <<rdh, rx_stale>> /\ RxFree \in Nat
      /\ ~rx_stale => IF ok THEN RxFree' = RxFree + 1
                      ELSE RxFree = RXDESCS - 1 /\ RxFree' = RxFree
  BY PollKeeps
<1>2. /\ RXDESCS \in Nat /\ RXDESCS \div 2 \in Nat /\ RXDESCS - 1 > RXDESCS \div 2
  BY HalfRing
<1>3. ASSUME Receivers' # <<>>, ~rx_stale'
      PROVE  "RXDMT0" \in ims' /\ ("RXDMT0" \in icr' \/ RxFree' > RXDESCS \div 2)
  <2>0. ~rx_stale
    BY <1>1, <1>3
  <2>. DEFINE half == RXDESCS \div 2
  <2>1. CASE ok
    <3>1. "RXDMT0" \in ims /\ ("RXDMT0" \in icr \/ RxFree > half)
      BY <1>3, <2>0, <2>1 DEF RxWaitersServed
    <3>2. RxFree' = RxFree + 1
      BY <1>1, <2>0, <2>1
    <3>. HIDE DEF half
    <3>3. half \in Nat
      BY <1>2 DEF half
    <3>4. RxFree > half => RxFree' > half
      BY <1>1, <3>2, <3>3
    <3>. QED
      BY <3>1, <3>4 DEF half
  <2>2. CASE ~ok
    <3>1. RxFree' = RXDESCS - 1
      BY <1>1, <2>0, <2>2
    <3>2. "RXDMT0" \in ims'
      BY <1>3, <2>0, <2>2 DEF RxWaitersServed
    <3>. QED
      BY <1>2, <3>1, <3>2
  <2>. QED
    BY <2>1, <2>2
<1>4. RxWaitersServed'
  BY <1>3 DEF RxWaitersServed
<1>. QED
  BY <1>1, <1>4

-----------------------------------------------------------------------------
(* The steps.                                                               *)

\* A task that runs stays out of the queues.
LEMMA ApartRuns ==
  ASSUME QueueTypeOK, Apart(send_queue, recv_queue, stream_queue, where),
         UNCHANGED <<send_queue, recv_queue, stream_queue>>,
         NEW t \in Tasks, NEW x \in Wheres, where[t] # "blocked", x # "blocked",
         NEW f \in {"none", "send", "recv", "stream"} \X Nat,
         where' = [where EXCEPT ![t] = x], call' = [call EXCEPT ![t] = f]
  PROVE  QueueTypeOK' /\ Apart(send_queue', recv_queue', stream_queue', where')
<1>1. \A u \in Tasks : where'[u] = "blocked" <=> where[u] = "blocked"
  BY DEF QueueTypeOK
<1>2. QueueTypeOK'
  BY DEF QueueTypeOK
<1>. QED
  BY <1>1, <1>2 DEF Apart

\* A task is blocked and joins one of the queues.
LEMMA ApartBlocks ==
  ASSUME QueueTypeOK, Apart(send_queue, recv_queue, stream_queue, where),
         NEW t \in Tasks, where[t] # "blocked",
         NEW f \in {"none", "send", "recv", "stream"} \X Nat, Block(t, f),
         \/ send_queue' = Append(send_queue, t) /\ UNCHANGED <<recv_queue, stream_queue>>
         \/ recv_queue' = Append(recv_queue, t) /\ UNCHANGED <<send_queue, stream_queue>>
         \/ stream_queue' = Append(stream_queue, t) /\ UNCHANGED <<send_queue, recv_queue>>
  PROVE  QueueTypeOK' /\ Apart(send_queue', recv_queue', stream_queue', where')
<1>1. /\ where \in [Tasks -> Wheres] /\ where' = [where EXCEPT ![t] = "blocked"]
      /\ call' = [call EXCEPT ![t] = f]
      /\ send_queue \in Seq(Tasks) /\ recv_queue \in Seq(Tasks) /\ stream_queue \in Seq(Tasks)
  BY DEF QueueTypeOK, Block
<1>2. QueueTypeOK'
  <2>1. where' \in [Tasks -> Wheres]
    BY <1>1 DEF Wheres
  <2>2. call' \in [Tasks -> {"none", "send", "recv", "stream"} \X Nat]
    BY <1>1 DEF QueueTypeOK
  <2>3. /\ send_queue' \in Seq(Tasks) /\ recv_queue' \in Seq(Tasks)
        /\ stream_queue' \in Seq(Tasks)
    <3>1. \A q \in Seq(Tasks) : Append(q, t) \in Seq(Tasks)
      BY AppendElements
    <3>. QED
      BY <1>1, <3>1
  <2>. QED
    BY <2>1, <2>2, <2>3 DEF QueueTypeOK
<1>3. CASE send_queue' = Append(send_queue, t) /\ UNCHANGED <<recv_queue, stream_queue>>
  BY <1>1, <1>2, <1>3, ApartJoined
<1>4. CASE recv_queue' = Append(recv_queue, t) /\ UNCHANGED <<send_queue, stream_queue>>
  <2>1. Apart(recv_queue, stream_queue, send_queue, where)
    BY ApartTurned
  <2>2. Apart(recv_queue', stream_queue, send_queue, where')
    BY <1>1, <1>4, <2>1, ApartJoined
  <2>. QED
    BY <1>2, <1>4, <2>2, ApartTurned
<1>5. CASE stream_queue' = Append(stream_queue, t) /\ UNCHANGED <<send_queue, recv_queue>>
  <2>1. Apart(stream_queue, send_queue, recv_queue, where)
    BY ApartTurned
  <2>2. Apart(stream_queue', send_queue, recv_queue, where')
    BY <1>1, <1>5, <2>1, ApartJoined
  <2>. QED
    BY <1>2, <1>5, <2>2, ApartTurned
<1>. QED
  BY <1>3, <1>4, <1>5

LEMMA CardKeeps ==
  ASSUME NetInv, Card
  PROVE  NetInv'
<1>1. /\ TxInv /\ RxInv /\ QueueTypeOK /\ icr \subseteq Causes /\ ims \subseteq Causes
      /\ SendersServed /\ RxWaitersServed /\ Apart(send_queue, recv_queue, stream_queue, where)
  BY NetParts
<1>2. UNCHANGED <<where, call, send_queue, recv_queue, stream_queue>>
  BY DEF Card, queueVars
<1>3. QueueTypeOK' /\ Apart(send_queue', recv_queue', stream_queue', where')
  BY <1>1, <1>2 DEF QueueTypeOK
<1>4. Receivers' = Receivers
  BY <1>2 DEF Receivers
<1>5. CASE Transmit
  <2>1. /\ TxInv' /\ UNCHANGED <<tdt, rxVars, ims>>
        /\ icr' = IF tdh' = tdt THEN icr \cup {"TXQE"} ELSE icr
    BY <1>1, <1>5, TransmitKeeps
  <2>2. SendersServed'
    BY <1>1, <1>2, <2>1 DEF SendersServed
  <2>3. RxInv' /\ RxWaitersServed'
    <3>1. icr \subseteq icr'
      BY <2>1
    <3>. QED
      BY <1>1, <1>4, <2>1, <3>1, RxSame, RxWaitersStayServed
  <2>4. icr' \subseteq Causes /\ ims' \subseteq Causes
    BY <1>1, <2>1 DEF Causes
  <2>. QED
    BY <1>3, <2>1, <2>2, <2>3, <2>4, NetParts
<1>6. CASE Arrive
  <2>1. /\ RxInv' /\ UNCHANGED <<txVars, ims, rx_stale>>
        /\ RxFree \in Nat /\ RxFree' = RxFree - 1
        /\ \/ icr' = icr \cup {"RXDMT0"}
           \/ RxFree - 1 # RXDESCS \div 2 /\ icr' = icr
    BY <1>1, <1>6, ArriveKeeps
  <2>2. TxInv'
    BY <1>1, <2>1, TxSame
  <2>3. SendersServed'
    BY <1>1, <1>2, <2>1 DEF SendersServed, txVars
  <2>4. RxWaitersServed'
    <3>. DEFINE half == RXDESCS \div 2
    <3>1. half \in Nat
      BY HalfRing
    <3>. HIDE DEF half
    <3>2. RxFree > half /\ RxFree - 1 # half => RxFree' > half
      BY <2>1, <3>1
    <3>. HIDE DEF RxFree, Receivers
    <3>. QED
      BY <1>1, <1>4, <2>1, <3>2 DEF RxWaitersServed, half
  <2>5. icr' \subseteq Causes /\ ims' \subseteq Causes
    BY <1>1, <2>1 DEF Causes
  <2>. QED
    BY <1>3, <2>1, <2>2, <2>3, <2>4, <2>5, NetParts
<1>. QED
  BY <1>5, <1>6 DEF Card

LEMMA SendKeeps ==
  ASSUME NetInv, NEW t \in Tasks, do_net_send(t)
  PROVE  NetInv'
<1>1. /\ TxInv /\ RxInv /\ QueueTypeOK /\ icr \subseteq Causes /\ ims \subseteq Causes
      /\ SendersServed /\ RxWaitersServed /\ Apart(send_queue, recv_queue, stream_queue, where)
  BY NetParts
<1>2. where[t] # "blocked" /\ UNCHANGED <<recv_queue, stream_queue, rxVars, icr>>
  BY DEF do_net_send, InUser, Resumes
<1>3. Receivers' = Receivers
  BY <1>2 DEF Receivers
<1>4. ims \subseteq ims' => RxInv' /\ RxWaitersServed'
  BY <1>1, <1>2, <1>3, RxSame, RxWaitersStayServed
<1>5. CASE e1000_transmit(TRUE) /\ Return(t) /\ UNCHANGED <<send_queue, ims>>
  <2>1. TxInv' /\ SendersServed'
    <3>1. send_resp_pkt
      BY <1>5 DEF send_resp_pkt
    <3>. QED
      BY <1>1, <1>2, <1>5, <3>1, SendersStayServed
  <2>2. QueueTypeOK' /\ Apart(send_queue', recv_queue', stream_queue', where')
    BY <1>1, <1>2, <1>5, ApartRuns DEF Return, None, Wheres
  <2>. QED
    BY <1>1, <1>2, <1>4, <1>5, <2>1, <2>2, NetParts
<1>6. CASE /\ e1000_transmit(FALSE)
           /\ ims' = ims \cup {"TXQE"}
           /\ Block(t, <<"send", 1>>)
           /\ send_queue' = Append(send_queue, t)
  <2>1. TxInv' /\ Pending = TXDESCS /\ UNCHANGED <<accepted, wire>>
    BY <1>1, <1>6, TransmitsKeeps
  <2>2. SendersServed'
    BY <1>6, <2>1 DEF SendersServed, Pending
  <2>3. QueueTypeOK' /\ Apart(send_queue', recv_queue', stream_queue', where')
    BY <1>1, <1>2, <1>6, ApartBlocks
  <2>4. ims' \subseteq Causes /\ icr' \subseteq Causes
    BY <1>1, <1>2, <1>6 DEF Causes
  <2>. QED
    BY <1>4, <1>6, <2>1, <2>2, <2>3, <2>4, NetParts
<1>. QED
  BY <1>5, <1>6 DEF do_net_send

LEMMA EnterKeeps ==
  ASSUME NetInv, NEW t \in Tasks,
         (\E n \in PktNums : Enter(t, n)) \/ EnterStream(t)
  PROVE  NetInv'
<1>1. /\ TxInv /\ RxInv /\ QueueTypeOK /\ icr \subseteq Causes /\ ims \subseteq Causes
      /\ SendersServed /\ RxWaitersServed /\ Apart(send_queue, recv_queue, stream_queue, where)
  BY NetParts
<1>2. /\ where[t] # "blocked"
      /\ UNCHANGED <<send_queue, recv_queue, stream_queue, rxVars, icr, ims>>
      /\ where' = [where EXCEPT ![t] = "kernel"]
  BY DEF Enter, EnterStream, InUser, Resumes
<1>3. PICK f \in {"none", "send", "recv", "stream"} \X Nat : call' = [call EXCEPT ![t] = f]
  BY PktNumsAssumption DEF Enter, EnterStream
<1>4. send_resp_pkt \/ UNCHANGED txVars
  BY DEF Enter, EnterStream
<1>5. QueueTypeOK' /\ Apart(send_queue', recv_queue', stream_queue', where')
  BY <1>1, <1>2, <1>3, ApartRuns DEF Wheres
<1>6. TxInv' /\ SendersServed'
  BY <1>1, <1>2, <1>4, SendersStayServed
<1>7. RxInv' /\ RxWaitersServed'
  <2>1. Receivers' = Receivers
    BY <1>2 DEF Receivers
  <2>. QED
    BY <1>1, <1>2, <2>1, RxSame, RxWaitersStayServed
<1>. QED
  BY <1>1, <1>2, <1>5, <1>6, <1>7, NetParts

LEMMA RecvKeeps ==
  ASSUME NetInv, NEW t \in Tasks, NEW n \in PktNums, Poll(t, n)
  PROVE  NetInv'
<1>1. /\ TxInv /\ RxInv /\ QueueTypeOK /\ icr \subseteq Causes /\ ims \subseteq Causes
      /\ SendersServed /\ RxWaitersServed /\ Apart(send_queue, recv_queue, stream_queue, where)
  BY NetParts
<1>2. /\ where[t] = "kernel" /\ call[t] = <<"recv", n>> /\ n \in Nat
      /\ UNCHANGED <<send_queue, stream_queue, txVars, icr>>
  BY PktNumsAssumption DEF Poll
<1>3. ims \subseteq ims' => TxInv' /\ SendersServed'
  BY <1>1, <1>2, SendersStayServed
<1>4. CASE /\ e1000_poll(TRUE) /\ n > 1
           /\ call' = [call EXCEPT ![t] = <<"recv", n - 1>>]
           /\ UNCHANGED <<where, recv_queue, ims>>
  <2>1. Receivers' = Receivers
    BY <1>2, <1>4 DEF Receivers
  <2>2. RxInv' /\ RxWaitersServed'
    BY <1>1, <1>2, <1>4, <2>1, ReceiversServed
  <2>3. QueueTypeOK'
    <3>1. <<"recv", n - 1>> \in {"none", "send", "recv", "stream"} \X Nat
      BY <1>2, <1>4
    <3>. QED
      BY <1>1, <1>2, <1>4, <3>1 DEF QueueTypeOK
  <2>. QED
    BY <1>1, <1>2, <1>3, <1>4, <2>2, <2>3, NetParts
<1>5. CASE /\ e1000_poll(TRUE) /\ n = 1
           /\ ims' = ims \cup {"RXDMT0"}
           /\ Return(t)
           /\ UNCHANGED recv_queue
  <2>1. Receivers' = Receivers
    BY <1>2, <1>5 DEF Receivers
  <2>2. RxInv' /\ RxWaitersServed'
    BY <1>1, <1>2, <1>5, <2>1, ReceiversServed
  <2>3. QueueTypeOK' /\ Apart(send_queue', recv_queue', stream_queue', where')
    BY <1>1, <1>2, <1>5, ApartRuns DEF Return, None, Wheres
  <2>4. ims' \subseteq Causes /\ icr' \subseteq Causes
    BY <1>1, <1>2, <1>5 DEF Causes
  <2>. QED
    BY <1>3, <1>5, <2>2, <2>3, <2>4, NetParts
<1>6. CASE /\ e1000_poll(FALSE)
           /\ ims' = ims \cup {"RXDMT0"}
           /\ Block(t, <<"recv", n>>)
           /\ recv_queue' = Append(recv_queue, t)
  <2>1. RxInv' /\ RxWaitersServed'
    BY <1>1, <1>2, <1>6, ReceiversServed
  <2>2. QueueTypeOK' /\ Apart(send_queue', recv_queue', stream_queue', where')
    BY <1>1, <1>2, <1>6, ApartBlocks
  <2>3. ims' \subseteq Causes /\ icr' \subseteq Causes
    BY <1>1, <1>2, <1>6 DEF Causes
  <2>. QED
    BY <1>3, <1>6, <2>1, <2>2, <2>3, NetParts
<1>. QED
  BY <1>4, <1>5, <1>6 DEF Poll

LEMMA StreamKeeps ==
  ASSUME NetInv, NEW t \in Tasks, PollStream(t)
  PROVE  NetInv'
<1>1. /\ TxInv /\ RxInv /\ QueueTypeOK /\ icr \subseteq Causes /\ ims \subseteq Causes
      /\ SendersServed /\ RxWaitersServed /\ Apart(send_queue, recv_queue, stream_queue, where)
  BY NetParts
<1>2. where[t] = "kernel" /\ UNCHANGED <<send_queue, recv_queue, icr>>
  BY DEF PollStream
<1>3. ims \subseteq ims' /\ ims' \subseteq Causes /\ (send_resp_pkt \/ UNCHANGED txVars)
  BY <1>1 DEF PollStream, Causes
<1>4. TxInv' /\ SendersServed'
  BY <1>1, <1>2, <1>3, SendersStayServed
<1>5. CASE /\ e1000_poll(TRUE)
           /\ UNCHANGED <<where, call, stream_queue, ims, txVars>>
  <2>1. Receivers' = Receivers
    BY <1>2, <1>5 DEF Receivers
  <2>2. RxInv' /\ RxWaitersServed'
    BY <1>1, <1>2, <1>5, <2>1, ReceiversServed
  <2>3. QueueTypeOK'
    BY <1>1, <1>2, <1>5 DEF QueueTypeOK
  <2>. QED
    BY <1>1, <1>2, <1>4, <1>5, <2>2, <2>3, NetParts
<1>6. CASE e1000_poll(TRUE) /\ Return(t) /\ UNCHANGED stream_queue
  <2>1. Receivers' = Receivers
    BY <1>2, <1>6 DEF Receivers
  <2>2. RxInv' /\ RxWaitersServed'
    BY <1>1, <1>2, <1>3, <1>6, <2>1, ReceiversServed
  <2>3. QueueTypeOK' /\ Apart(send_queue', recv_queue', stream_queue', where')
    BY <1>1, <1>2, <1>6, ApartRuns DEF Return, None, Wheres
  <2>. QED
    BY <1>1, <1>2, <1>3, <1>4, <2>2, <2>3, NetParts
<1>7. CASE /\ e1000_poll(FALSE)
           /\ ims' = ims \cup {"RXDMT0"}
           /\ Block(t, <<"stream", 0>>)
           /\ stream_queue' = Append(stream_queue, t)
  <2>1. RxInv' /\ RxWaitersServed'
    BY <1>1, <1>2, <1>7, ReceiversServed
  <2>2. QueueTypeOK' /\ Apart(send_queue', recv_queue', stream_queue', where')
    BY <1>1, <1>2, <1>7, ApartBlocks
  <2>. QED
    BY <1>1, <1>2, <1>3, <1>4, <2>1, <2>2, NetParts
<1>. QED
  BY <1>5, <1>6, <1>7 DEF PollStream

LEMMA TimerKeeps ==
  ASSUME NetInv, NEW late \in SUBSET Tasks, check_recv_stream(late)
  PROVE  NetInv'
<1>1. /\ TxInv /\ RxInv /\ QueueTypeOK /\ icr \subseteq Causes /\ ims \subseteq Causes
      /\ SendersServed /\ RxWaitersServed /\ Apart(send_queue, recv_queue, stream_queue, where)
  BY NetParts
<1>2. /\ late \subseteq ToSet(stream_queue)
      /\ stream_queue' = Leaving(stream_queue, late)
      /\ where' = Unblock(late)
      /\ UNCHANGED <<call, send_queue, recv_queue, txVars, rxVars, icr, ims>>
  BY DEF check_recv_stream
<1>3. /\ send_queue \in Seq(Tasks) /\ recv_queue \in Seq(Tasks) /\ stream_queue \in Seq(Tasks)
      /\ IsInjective(send_queue) /\ IsInjective(recv_queue) /\ IsInjective(stream_queue)
      /\ \A u \in late : /\ Contains(stream_queue, u)
                         /\ ~Contains(send_queue, u) /\ ~Contains(recv_queue, u)
  BY <1>1, <1>2, SetOfElements DEF Apart
<1>4. /\ Shorter(send_queue', send_queue, late) /\ Shorter(recv_queue', recv_queue, late)
      /\ Shorter(stream_queue', stream_queue, late)
  BY <1>2, <1>3, ShorterCases
<1>5. /\ where' \in [Tasks -> Wheres]
      /\ \A u \in Tasks : where'[u] = "blocked" <=> where[u] = "blocked" /\ u \notin late
  BY <1>1, <1>2 DEF Unblock, QueueTypeOK, Wheres
<1>6. Apart(send_queue', recv_queue', stream_queue', where')
  BY <1>1, <1>4, <1>5, ApartShorter
<1>7. QueueTypeOK'
  BY <1>1, <1>2, <1>4, <1>5 DEF QueueTypeOK, Shorter
<1>8. TxInv' /\ SendersServed'
  BY <1>1, <1>2, SendersStayServed
<1>9. RxInv' /\ RxWaitersServed'
  <2>1. Receivers' # <<>> => Receivers # <<>>
    BY <1>1, <1>2, <1>3, <1>7, EmptyStays, NoReceivers
  <2>. QED
    BY <1>1, <1>2, <2>1, RxSame, RxWaitersStayServed
<1>. QED
  BY <1>1, <1>2, <1>6, <1>7, <1>8, <1>9, NetParts

LEMMA DeathKeeps ==
  ASSUME NetInv, NEW t \in Tasks, die(t)
  PROVE  NetInv'
<1>1. /\ TxInv /\ RxInv /\ QueueTypeOK /\ icr \subseteq Causes /\ ims \subseteq Causes
      /\ SendersServed /\ RxWaitersServed /\ Apart(send_queue, recv_queue, stream_queue, where)
  BY NetParts
<1>2. /\ where' = [where EXCEPT ![t] = "dead"] /\ call' = [call EXCEPT ![t] = None]
      /\ send_queue' = unlink(send_queue, t) /\ recv_queue' = unlink(recv_queue, t)
      /\ stream_queue' = unlink(stream_queue, t)
      /\ UNCHANGED <<txVars, rxVars, icr, ims>>
  BY DEF die
<1>3. /\ send_queue \in Seq(Tasks) /\ recv_queue \in Seq(Tasks) /\ stream_queue \in Seq(Tasks)
      /\ IsInjective(send_queue) /\ IsInjective(recv_queue) /\ IsInjective(stream_queue)
  BY <1>1 DEF Apart
<1>4. /\ Shorter(send_queue', send_queue, {t}) /\ Shorter(recv_queue', recv_queue, {t})
      /\ Shorter(stream_queue', stream_queue, {t})
  BY <1>2, <1>3, ShorterCases
<1>5. /\ where' \in [Tasks -> Wheres]
      /\ \A u \in Tasks : where'[u] = "blocked" <=> where[u] = "blocked" /\ u \notin {t}
  BY <1>1, <1>2 DEF QueueTypeOK, Wheres
<1>6. Apart(send_queue', recv_queue', stream_queue', where')
  BY <1>1, <1>4, <1>5, ApartShorter
<1>7. QueueTypeOK'
  <2>1. call' \in [Tasks -> {"none", "send", "recv", "stream"} \X Nat]
    BY <1>1, <1>2 DEF QueueTypeOK, None
  <2>. QED
    BY <1>4, <1>5, <2>1 DEF QueueTypeOK, Shorter
<1>8. send_queue' # <<>> => send_queue # <<>>
  BY <1>2, <1>3, EmptyStays
<1>9. TxInv' /\ SendersServed'
  BY <1>1, <1>2, <1>8, TxSame DEF SendersServed, txVars
<1>10. RxInv' /\ RxWaitersServed'
  <2>1. Receivers' # <<>> => Receivers # <<>>
    BY <1>1, <1>2, <1>3, <1>7, EmptyStays, NoReceivers
  <2>. QED
    BY <1>1, <1>2, <2>1, RxSame, RxWaitersStayServed
<1>. QED
  BY <1>1, <1>2, <1>6, <1>7, <1>9, <1>10, NetParts

\* An interrupt empties the queues whose cause it finds.
LEMMA InterruptKeeps ==
  ASSUME NetInv, net_handle_irq
  PROVE  NetInv'
<1>. DEFINE tx == "TXQE" \in icr
            rx == "RXDMT0" \in icr
            P  == (IF tx THEN ToSet(send_queue) ELSE {})
                    \cup (IF rx THEN ToSet(recv_queue) \cup ToSet(stream_queue) ELSE {})
<1>1. /\ TxInv /\ RxInv /\ QueueTypeOK /\ icr \subseteq Causes /\ ims \subseteq Causes
      /\ SendersServed /\ RxWaitersServed /\ Apart(send_queue, recv_queue, stream_queue, where)
  BY NetParts
<1>2. /\ icr' = {} /\ UNCHANGED <<call, txVars>>
      /\ send_queue' = IF tx THEN <<>> ELSE send_queue
      /\ recv_queue' = IF rx THEN <<>> ELSE recv_queue
      /\ stream_queue' = IF rx THEN <<>> ELSE stream_queue
      /\ \/ rx /\ Receivers = <<>> /\ e1000_clear_recv_pkts
         \/ ~(rx /\ Receivers = <<>>) /\ UNCHANGED rxVars
  BY DEF net_handle_irq, e1000_handle_txqe, e1000_handle_rxdmt0, clear_block_queue
<1>3. where' = Unblock(P)
  BY DEF net_handle_irq, clear_block_queue
<1>4. ims' = ims \ ({x \in {"TXQE"} : tx} \cup {x \in {"RXDMT0"} : rx /\ Receivers # <<>>})
  BY DEF net_handle_irq
<1>5. /\ send_queue \in Seq(Tasks) /\ recv_queue \in Seq(Tasks) /\ stream_queue \in Seq(Tasks)
      /\ IsInjective(send_queue) /\ IsInjective(recv_queue) /\ IsInjective(stream_queue)
      /\ \A u \in Tasks : /\ ~(Contains(send_queue, u) /\ Contains(recv_queue, u))
                          /\ ~(Contains(send_queue, u) /\ Contains(stream_queue, u))
  BY <1>1 DEF Apart
<1>6. /\ \A u : u \in ToSet(send_queue) <=> Contains(send_queue, u)
      /\ \A u : u \in ToSet(recv_queue) <=> Contains(recv_queue, u)
      /\ \A u : u \in ToSet(stream_queue) <=> Contains(stream_queue, u)
  BY <1>5, SetOfElements
<1>7. /\ ~tx => \A u \in Tasks : u \in P => ~Contains(send_queue, u)
      /\ ~rx => \A u \in Tasks : u \in P => ~Contains(recv_queue, u) /\ ~Contains(stream_queue, u)
      /\ tx => ToSet(send_queue) \subseteq P
      /\ rx => ToSet(recv_queue) \subseteq P /\ ToSet(stream_queue) \subseteq P
  BY <1>5, <1>6
<1>. HIDE DEF P
<1>8. /\ Shorter(send_queue', send_queue, P) /\ Shorter(recv_queue', recv_queue, P)
      /\ Shorter(stream_queue', stream_queue, P)
  <2>1. CASE tx
    BY <1>2, <1>5, <1>7, <2>1, ShorterCases
  <2>2. CASE ~tx
    BY <1>2, <1>5, <1>7, <2>2, ShorterCases
  <2>. QED
    BY <2>1, <2>2
<1>9. /\ where' \in [Tasks -> Wheres]
      /\ \A u \in Tasks : where'[u] = "blocked" <=> where[u] = "blocked" /\ u \notin P
  BY <1>1, <1>3 DEF Unblock, QueueTypeOK, Wheres
<1>10. Apart(send_queue', recv_queue', stream_queue', where')
  BY <1>1, <1>8, <1>9, ApartShorter
<1>11. QueueTypeOK'
  BY <1>1, <1>2, <1>8, <1>9 DEF QueueTypeOK, Shorter
<1>12. icr' \subseteq Causes /\ ims' \subseteq Causes
  BY <1>1, <1>2, <1>4
<1>13. TxInv'
  BY <1>1, <1>2, TxSame
<1>14. SendersServed'
  BY <1>1, <1>2, <1>4 DEF SendersServed, txVars
<1>15. RxInv' /\ RxWaitersServed'
  <2>1. CASE rx /\ Receivers = <<>>
    <3>1. RxInv' /\ rx_stale'
      BY <1>1, <1>2, <2>1, DropKeeps
    <3>. QED
      BY <3>1 DEF RxWaitersServed
  <2>2. CASE ~(rx /\ Receivers = <<>>)
    <3>1. RxInv' /\ RxFree' = RxFree /\ rx_stale' = rx_stale
      BY <1>1, <1>2, <2>2, RxSame
    <3>2. CASE rx
      <4>1. Receivers' = <<>>
        BY <1>2, <1>11, <3>2, NoReceivers
      <4>. QED
        BY <3>1, <4>1 DEF RxWaitersServed
    <3>3. CASE ~rx
      <4>1. Receivers' = Receivers
        BY <1>2, <3>3 DEF Receivers
      <4>2. "RXDMT0" \in ims => "RXDMT0" \in ims'
        BY <1>4, <3>3
      <4>. HIDE DEF RxFree, Receivers
      <4>. QED
        BY <1>1, <3>1, <3>3, <4>1, <4>2 DEF RxWaitersServed
    <3>. QED
      BY <3>2, <3>3
  <2>. QED
    BY <2>1, <2>2
<1>. QED
  BY <1>10, <1>11, <1>12, <1>13, <1>14, <1>15, NetParts

LEMMA NetStart == NetInit => NetInv
<1>. SUFFICES ASSUME NetInit PROVE NetInv
  OBVIOUS
<1>1. /\ where = [t \in Tasks |-> "user"] /\ call = [t \in Tasks |-> None]
      /\ send_queue = <<>> /\ recv_queue = <<>> /\ stream_queue = <<>>
      /\ tdh = 0 /\ tdt = 0
      /\ tx_dd = [i \in TxRing |-> TRUE] /\ tx_pkt = [i \in TxRing |-> 0]
      /\ rdh = 0 /\ rdt = RXDESCS - 1
      /\ rx_dd = [i \in RxRing |-> FALSE] /\ rx_pkt = [i \in RxRing |-> 0]
      /\ icr = {} /\ ims = {"RXDMT0"}
      /\ accepted = 0 /\ wire = 0 /\ arrived = 0 /\ polled = 0
      /\ rx_stale = FALSE
  BY DEF NetInit, e1000_init
<1>2. /\ TXDESCS \in Nat \ {0} /\ RXDESCS \in Nat /\ RXDESCS > 2
      /\ 0 \in TxRing /\ 0 \in RxRing /\ RXDESCS - 1 \in RxRing
  BY RingsAssumption DEF TxRing, RxRing
<1>3. TxTypeOK /\ RxTypeOK
  BY <1>1, <1>2 DEF TxTypeOK, RxTypeOK
<1>4. TxInv
  <2>1. Pending = 0
    BY <1>1 DEF Pending
  <2>2. \A i \in TxRing : ~(Ahead(TXDESCS, tdh, i) < Pending) /\ tx_dd[i]
    BY <1>1, <1>2, <2>1 DEF Ahead, TxRing
  <2>. HIDE DEF Pending
  <2>3. /\ Pending \in Nat /\ Pending <= TXDESCS
        /\ tdt = IF tdh + Pending < TXDESCS THEN tdh + Pending ELSE tdh + Pending - TXDESCS
    BY <1>1, <1>2, <2>1
  <2>4. TxPending /\ TxInOrder
    BY <1>3, <2>2, <2>3, TxMeans
  <2>. QED
    BY <1>3, <2>4 DEF TxInv
<1>5. RxInv
  <2>1. RxNext = 0
    BY <1>1, <1>2, <1>3, RxMeans DEF Next1
  <2>2. Held = 0
    BY <1>1, <1>3, <2>1, RxMeans DEF Ahead
  <2>3. \A i \in RxRing : BehindHead(rdh, i) \in Nat /\ ~rx_dd[i]
    BY <1>1, <1>2 DEF BehindHead, Ahead, RxRing
  <2>. HIDE DEF Held
  <2>4. polled <= arrived - Held /\ \A i \in RxRing : ~(BehindHead(rdh, i) < Held) /\ ~rx_dd[i]
    BY <1>1, <2>2, <2>3
  <2>5. RxInOrder
    BY <1>3, <2>4, RxMeans
  <2>. QED
    BY <1>3, <2>5 DEF RxInv
<1>6. /\ <<>> \in Seq(Tasks) /\ IsInjective(<<>>) /\ \A u : ~Contains(<<>>, u)
  BY DEF IsInjective, Contains
<1>7. QueueTypeOK
  BY <1>1, <1>6 DEF QueueTypeOK, Wheres, None
<1>8. Apart(send_queue, recv_queue, stream_queue, where)
  BY <1>1, <1>6 DEF Apart
<1>9. SendersServed /\ RxWaitersServed
  BY <1>1, <1>7, NoReceivers DEF SendersServed, RxWaitersServed
<1>10. icr \subseteq Causes /\ ims \subseteq Causes
  BY <1>1 DEF Causes
<1>. QED
  BY <1>4, <1>5, <1>7, <1>8, <1>9, <1>10, NetParts

LEMMA NetStep == NetInv /\ [NetNext]_netVars => NetInv'
<1>. SUFFICES ASSUME NetInv, [NetNext]_netVars PROVE NetInv'
  OBVIOUS
<1>1. CASE UNCHANGED netVars
  <2>1. /\ TxInv /\ RxInv /\ QueueTypeOK /\ icr \subseteq Causes /\ ims \subseteq Causes
        /\ SendersServed /\ RxWaitersServed
        /\ Apart(send_queue, recv_queue, stream_queue, where)
    BY NetParts
  <2>2. UNCHANGED <<where, call, send_queue, recv_queue, stream_queue, txVars, rxVars, icr, ims>>
    BY <1>1 DEF netVars, queueVars
  <2>3. TxInv' /\ SendersServed'
    BY <2>1, <2>2, SendersStayServed
  <2>4. Receivers' = Receivers
    BY <2>2 DEF Receivers
  <2>5. RxInv' /\ RxWaitersServed'
    BY <2>1, <2>2, <2>4, RxSame, RxWaitersStayServed
  <2>6. QueueTypeOK'
    BY <2>1, <2>2 DEF QueueTypeOK
  <2>. QED
    BY <2>1, <2>2, <2>3, <2>5, <2>6, NetParts
<1>2. CASE Card
  BY <1>2, CardKeeps
<1>3. CASE net_handle_irq
  BY <1>3, InterruptKeeps
<1>4. ASSUME NEW t \in Tasks, do_net_send(t) PROVE NetInv'
  BY <1>4, SendKeeps
<1>5. ASSUME NEW t \in Tasks, do_net_recv_stream(t) PROVE NetInv'
  BY <1>5, EnterKeeps, StreamKeeps DEF do_net_recv_stream
<1>6. ASSUME NEW t \in Tasks, die(t) PROVE NetInv'
  BY <1>6, DeathKeeps
<1>7. ASSUME NEW t \in Tasks, NEW n \in PktNums, do_net_recv(t, n) PROVE NetInv'
  BY <1>7, EnterKeeps, RecvKeeps DEF do_net_recv
<1>8. ASSUME NEW late \in SUBSET Tasks, check_recv_stream(late) PROVE NetInv'
  BY <1>8, TimerKeeps
<1>. QED
  BY <1>1, <1>2, <1>3, <1>4, <1>5, <1>6, <1>7, <1>8 DEF NetNext

-----------------------------------------------------------------------------
(* What follows.                                                            *)

\* NetInv holds in every state: a ring, the interrupts and the queues agree, whatever
\* the card does between the steps of do_net_send, do_net_recv and the handlers.
THEOREM NetInvariant == NetSpec => []NetInv
<1>. QED
  BY NetStart, NetStep, PTL DEF NetSpec

\* e1000_transmit and the card: every packet that was accepted is in the ring until it
\* is on the wire, once and in its turn, for a transmit ring of any length.
THEOREM SentInOrder == NetSpec => []TxInOrder
<1>1. NetInv => TxInOrder
  BY DEF NetInv
<1>. QED
  BY NetInvariant, <1>1, PTL

\* e1000_poll and the card: the driver's part of the receive ring holds the latest
\* packets, each once and in order, and none polled before, until the driver drops some.
THEOREM ReceivedInOrder == NetSpec => []RxInOrder
<1>1. NetInv => RxInOrder
  BY DEF NetInv
<1>. QED
  BY NetInvariant, <1>1, PTL

\* do_net_send and e1000_handle_txqe: a sender that waits has its interrupt enabled, and
\* pending or to come, unless all of the ring is filled.
THEOREM SendersAreServed == NetSpec => []SendersServed
<1>1. NetInv => SendersServed
  BY DEF NetInv
<1>. QED
  BY NetInvariant, <1>1, PTL

\* do_net_recv, do_net_recv_stream and e1000_handle_rxdmt0: a receiver that waits has
\* its interrupt enabled, and pending or to come, until the driver drops packets.
THEOREM ReceiversAreServed == NetSpec => []RxWaitersServed
<1>1. NetInv => RxWaitersServed
  BY DEF NetInv
<1>. QED
  BY NetInvariant, <1>1, PTL

\* The three queues have exactly the blocked tasks, each once.
THEOREM BlockedAreQueued == NetSpec => []BlockedQueued
<1>1. NetInv => BlockedQueued
  <2>. SUFFICES ASSUME NetInv PROVE BlockedQueued
    OBVIOUS
  <2>. DEFINE two == send_queue \o recv_queue
              waiting == two \o stream_queue
  <2>1. QueueTypeOK /\ Apart(send_queue, recv_queue, stream_queue, where)
    BY NetParts
  <2>2. /\ send_queue \in Seq(Tasks) /\ recv_queue \in Seq(Tasks) /\ stream_queue \in Seq(Tasks)
        /\ IsInjective(send_queue) /\ IsInjective(recv_queue) /\ IsInjective(stream_queue)
        /\ \A u : Contains(send_queue, u) => u \in Tasks
    BY <2>1, SetOfElements DEF Apart
  <2>3. \A u : /\ ~(Contains(send_queue, u) /\ Contains(recv_queue, u))
               /\ ~(Contains(send_queue, u) /\ Contains(stream_queue, u))
               /\ ~(Contains(recv_queue, u) /\ Contains(stream_queue, u))
    <3>1. \A u : Contains(recv_queue, u) => u \in Tasks
      BY <2>2, SetOfElements
    <3>. QED
      BY <2>1, <2>2, <3>1 DEF Apart
  <2>4. /\ two \in Seq(Tasks) /\ IsInjective(two)
        /\ \A x : Contains(two, x) <=> Contains(send_queue, x) \/ Contains(recv_queue, x)
    BY <2>2, <2>3, ConcatElements
  <2>. HIDE DEF two
  <2>5. /\ waiting \in Seq(Tasks) /\ IsInjective(waiting)
        /\ \A x : Contains(waiting, x) <=> Contains(two, x) \/ Contains(stream_queue, x)
    BY <2>2, <2>3, <2>4, ConcatElements
  <2>. HIDE DEF waiting
  <2>6. ToSet(waiting) \subseteq Tasks /\ \A x : x \in ToSet(waiting) <=> Contains(waiting, x)
    BY <2>5, SetOfElements
  <2>7. ToSet(waiting) = {t \in Tasks : where[t] = "blocked"}
    BY <2>1, <2>4, <2>5, <2>6 DEF Apart
  <2>. QED
    BY <2>5, <2>7 DEF BlockedQueued, waiting, two
<1>. QED
  BY NetInvariant, <1>1, PTL
=============================================================================
