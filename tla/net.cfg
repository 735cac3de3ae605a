\* Two processes that send and receive; a card with two and four descriptors.
CONSTANTS
  Tasks = {t1, t2}
  TXDESCS = 2
  RXDESCS = 4
  MaxSends = 5
  MaxArrivals = 6
  PktNums = {1, 2}
SPECIFICATION NetSpec
INVARIANTS TxInOrder RxInOrder  RxWaitersServed BlockedQueued
CHECK_DEADLOCK FALSE
