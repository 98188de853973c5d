-------------------------- MODULE MCMemoryHandler --------------------------
(***************************************************************************)
(* A heap of a few small pages.  Sizes are below, at and above a page, and *)
(* TLC lets the allocator hand out the pages in any order.                 *)
(***************************************************************************)
EXTENDS MemoryHandlerProperties

SmallHeap == 0 .. 15
Sizes == {1, 3, 4, 5}
=============================================================================
