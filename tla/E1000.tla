-------------------------------- MODULE E1000 --------------------------------
(***************************************************************************)
(* The descriptor rings that the driver (drivers/e1000.c) shares with the  *)
(* network card.  The card owns the descriptors from its head up to but    *)
(* not including the tail that the driver writes; it sets DD on those it   *)
(* is done with.  Packets are numbered in the order they enter a ring.     *)
(***************************************************************************)
EXTENDS Naturals, FiniteSets

CONSTANTS TXDESCS, RXDESCS,
          MaxSends, MaxArrivals         \* bounds: packets sent and received

\* There are descriptors; of the receive ring the driver keeps one, and the card
\* has more than half of the ring when all of the others are its own.
ASSUME RingsAssumption == TXDESCS \in Nat \ {0} /\ RXDESCS \in Nat \ 0 .. 2

VARIABLES
  tdh, tdt, tx_dd, tx_pkt,      \* registers, DD bits and buffers of the transmit ring
  rdh, rdt, rx_dd, rx_pkt,      \* the same of the receive ring
  icr, ims,                     \* interrupt causes and interrupts enabled
  accepted, wire,       \* history: packets e1000_transmit took; packets on the wire
  arrived, polled,      \* history: packets that arrived; the last one polled
  rx_stale      \* history: the driver has dropped packets, see e1000_clear_recv_pkts

txVars == <<tdh, tdt, tx_dd, tx_pkt, accepted, wire>>
rxVars == <<rdh, rdt, rx_dd, rx_pkt, arrived, polled, rx_stale>>

TxRing == 0 .. TXDESCS - 1
RxRing == 0 .. RXDESCS - 1

\* The next descriptor that the driver looks at, and how many the card has.
RxNext == (rdt + 1) % RXDESCS
RxFree == (rdt + RXDESCS - rdh) % RXDESCS

\* e1000_configure_tx and e1000_configure_rx.
e1000_init ==
  /\ tdh = 0 /\ tdt = 0
  /\ tx_dd = [i \in TxRing |-> TRUE]
  /\ tx_pkt = [i \in TxRing |-> 0]
  /\ rdh = 0 /\ rdt = RXDESCS - 1
  /\ rx_dd = [i \in RxRing |-> FALSE]
  /\ rx_pkt = [i \in RxRing |-> 0]
  /\ icr = {} /\ ims = {"RXDMT0"}
  /\ accepted = 0 /\ wire = 0 /\ arrived = 0 /\ polled = 0
  /\ rx_stale = FALSE

-----------------------------------------------------------------------------
\* The card.

\* It sends the packet at its head, and reports when it has no more to send.
Transmit ==
  /\ tdh # tdt
  /\ tdh' = (tdh + 1) % TXDESCS
  /\ tx_dd' = [tx_dd EXCEPT ![tdh] = TRUE]
  /\ wire' = tx_pkt[tdh]
  /\ icr' = IF tdh' = tdt THEN icr \cup {"TXQE"} ELSE icr
  /\ UNCHANGED <<tdt, tx_pkt, accepted, rxVars, ims>>

\* A packet arrives.  The card reports when half of the ring is left to it, and
\* may report again below that.
Arrive ==
  /\ arrived < MaxArrivals
  /\ rdh # rdt
  /\ arrived' = arrived + 1
  /\ rx_pkt' = [rx_pkt EXCEPT ![rdh] = arrived']
  /\ rx_dd' = [rx_dd EXCEPT ![rdh] = TRUE]
  /\ rdh' = (rdh + 1) % RXDESCS
  /\ \/ RxFree - 1 <= RXDESCS \div 2 /\ icr' = icr \cup {"RXDMT0"}
     \/ RxFree - 1 # RXDESCS \div 2 /\ icr' = icr
  /\ UNCHANGED <<rdt, polled, rx_stale, txVars, ims>>

-----------------------------------------------------------------------------
\* The driver.

\* Defect: the descriptor is written whether or not the card is done with it.
e1000_transmit_blind(ok) ==
  /\ ok = TRUE
  /\ accepted < MaxSends
  /\ accepted' = accepted + 1
  /\ tx_pkt' = [tx_pkt EXCEPT ![tdt] = accepted']
  /\ tx_dd' = [tx_dd EXCEPT ![tdt] = FALSE]
  /\ tdt' = (tdt + 1) % TXDESCS
  /\ UNCHANGED <<tdh, wire>>

\* Whether a packet was put into the ring: it was unless the descriptor at the
\* tail is not done.  All the descriptors may be filled, and then the card finds
\* its head at the tail and does not send them.
e1000_transmit(ok) ==
  /\ ok = tx_dd[tdt]
  /\ \/ ~ok /\ UNCHANGED txVars
     \/ /\ ok /\ accepted < MaxSends
        /\ accepted' = accepted + 1
        /\ tx_pkt' = [tx_pkt EXCEPT ![tdt] = accepted']
        /\ tx_dd' = [tx_dd EXCEPT ![tdt] = FALSE]
        /\ tdt' = (tdt + 1) % TXDESCS
        /\ UNCHANGED <<tdh, wire>>

\* Defect: the descriptor goes back to the card with its DD bit set.
e1000_poll_done(ok) ==
  /\ ok = rx_dd[RxNext]
  /\ \/ ~ok /\ UNCHANGED rxVars
     \/ /\ ok
        /\ polled' = rx_pkt[RxNext]
        /\ rdt' = RxNext
        /\ UNCHANGED <<rdh, rx_pkt, rx_dd, arrived, rx_stale>>

\* Whether a packet was taken out of the ring.
e1000_poll(ok) ==
  /\ ok = rx_dd[RxNext]
  /\ \/ ~ok /\ UNCHANGED rxVars
     \/ /\ ok
        /\ polled' = rx_pkt[RxNext]
        /\ rx_dd' = [rx_dd EXCEPT ![RxNext] = FALSE]
        /\ rdt' = RxNext
        /\ UNCHANGED <<rdh, rx_pkt, arrived, rx_stale>>

\* The packets are dropped from the second on: rdt_idx is already the next
\* descriptor, and the loop starts one behind it.  So the tail moves over one
\* descriptor that was not cleared: it goes back to the card with its DD bit set,
\* or, when there was nothing to drop, the tail meets the head.
e1000_clear_recv_pkts ==
  LET at(i)  == (rdt + 1 + i) % RXDESCS
      stop   == CHOOSE i \in 1 .. RXDESCS :
                  /\ i = RXDESCS \/ ~rx_dd[at(i)]
                  /\ \A j \in 1 .. i - 1 : rx_dd[at(j)]
  IN /\ rx_dd' = [d \in RxRing |-> rx_dd[d] /\ \A i \in 1 .. stop - 1 : d # at(i)]
     /\ rdt' = (rdt + stop) % RXDESCS
     /\ rx_stale' = TRUE
     /\ UNCHANGED <<rdh, rx_pkt, arrived, polled>>

-----------------------------------------------------------------------------

\* The transmit ring from the head on holds the packets that were accepted and
\* are not on the wire yet, each once and in order, also when it is full; the
\* other descriptors are done.
TxInOrder ==
  LET behind(i) == (i + TXDESCS - tdh) % TXDESCS
      pending   == accepted - wire
  IN \A i \in TxRing :
       IF behind(i) < pending THEN ~tx_dd[i] /\ tx_pkt[i] = wire + behind(i) + 1
       ELSE tx_dd[i]

\* Of the receive ring the driver's part holds the latest packets, each once, in
\* order and none of them polled before, and the card's part holds none; until
\* e1000_clear_recv_pkts moves the tail one too far.
RxInOrder ==
  LET before(i) == (rdh + RXDESCS - 1 - i) % RXDESCS
      waiting   == (rdh + RXDESCS - RxNext) % RXDESCS
  IN rx_stale \/
     /\ polled <= arrived - waiting
     /\ \A i \in RxRing :
          IF before(i) < waiting THEN rx_dd[i] /\ rx_pkt[i] = arrived - before(i)
          ELSE ~rx_dd[i]
=============================================================================
