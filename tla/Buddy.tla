-------------------------------- MODULE Buddy --------------------------------
(***************************************************************************)
(* The zone of free pages (kernel/mm/page_alloc.c): for every order a list *)
(* of blocks of 2^order page frames, sorted by address, and the number of  *)
(* references to each frame that was allocated.  Blocks are only split:    *)
(* no path of the kernel frees a page (see the README).                    *)
(***************************************************************************)
EXTENDS Integers, FiniteSets, FiniteSetsExt

CONSTANTS
  MAX_ORDER,    \* orders are below it
  Blocks        \* the blocks that init_alloc puts into the zone: <<order, frame>>

ASSUME OrderAssumption == MAX_ORDER \in Nat \ {0}

Orders == 0 .. MAX_ORDER - 1
Block(order, node) == node .. node + 2 ^ order - 1
Frames == UNION {Block(b[1], b[2]) : b \in Blocks}

ASSUME BlocksAssumption ==
  /\ Blocks \subseteq Orders \X Nat
  /\ \A b \in Blocks : b[2] % 2 ^ b[1] = 0
  /\ \A a, b \in Blocks : a # b => Block(a[1], a[2]) \cap Block(b[1], b[2]) = {}

VARIABLES
  free_list,    \* for each order, the frames its free blocks begin at
  ref_num       \* for each frame its reference number, 0 if it has no node

buddyVars == <<free_list, ref_num>>

init_alloc ==
  /\ free_list = [o \in Orders |-> {f \in Frames : <<o, f>> \in Blocks}]
  /\ ref_num = [f \in Frames |-> 0]

-----------------------------------------------------------------------------

\* Defect: the half that is given away is put into its list and not taken out.
split_block_kept(k, order, node) ==
  [o \in Orders |->
     CASE o = order -> free_list[o] \ {node}
       [] k = o /\ o < order -> free_list[o] \cup {node, node + 2 ^ o}
       [] k < o /\ o < order -> free_list[o] \cup {node + 2 ^ o}
       [] OTHER -> free_list[o]]

\* The first 2^k pages of a block leave the zone.  The upper halves that are split
\* off on the way down go to the lists of their orders.
split_block(k, order, node) ==
  [o \in Orders |->
     CASE o = order -> free_list[o] \ {node}
       [] k <= o /\ o < order -> free_list[o] \cup {node + 2 ^ o}
       [] OTHER -> free_list[o]]

\* alloc_page finds no block large enough and returns NULL.
NoPages(k) == \A o \in k .. MAX_ORDER - 1 : free_list[o] = {}

\* alloc_page for 2^k pages gives those from frame f on: they are taken from the
\* first block of the lowest order that has one.
alloc_page(k, f) ==
  \E order \in k .. MAX_ORDER - 1 :
    /\ free_list[order] # {}
    /\ \A o \in k .. order - 1 : free_list[o] = {}
    /\ f = Min(free_list[order])
    /\ free_list' = split_block(k, order, f)

\* The free blocks are aligned and apart, and no frame of them has a reference:
\* no page is handed out twice.
ZoneExact ==
  /\ \A o \in Orders : \A f \in free_list[o] :
       /\ f % 2 ^ o = 0
       /\ \A i \in Block(o, f) : i \in Frames /\ ref_num[i] = 0
  /\ \A o, q \in Orders : \A f \in free_list[o] : \A g \in free_list[q] :
       <<o, f>> # <<q, g>> => Block(o, f) \cap Block(q, g) = {}
=============================================================================
