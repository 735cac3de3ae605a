------------------------------- MODULE MCPaging -------------------------------
(***************************************************************************)
(* A small memory: the page of the arguments and two pages that a program  *)
(* touches later.  The pages of the program itself are left out here: they *)
(* differ from that of the arguments only in that check_page_full does not *)
(* take them.  8 frames let two generations be forked and a page be copied *)
(* before memory is exhausted.                                             *)
(***************************************************************************)
EXTENDS Paging, TLC

CONSTANTS c1, c2, v1, v2, stack, data, more

MCImage == << >>
MCHeap == {data, more}
MCBlocks == {<<3, 0>>}
Symmetry == Permutations(CPUs) \cup Permutations(MCHeap)
=============================================================================
