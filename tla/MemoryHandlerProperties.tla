---------------------- MODULE MemoryHandlerProperties ----------------------
(***************************************************************************)
(* What the memory handler promises to the owners of trace pointers.       *)
(***************************************************************************)
EXTENDS MemoryHandler

Blocks == [startAddr : Nat, size : Nat]
TracePointers == [startAddr : Nat, size : Nat \ {0}]

(* Type invariant; the block in use is one of the allocated ones.          *)
MemoryTypeOK ==
    /\ allocatedMemory \in Seq(Blocks)
    /\ written \in Seq(TracePointers)
    /\ cursor \in Nat
    /\ memory \in [Heap -> Nat]
    /\ currentPage \in Nat
    /\ allocatedMemory # <<>> => currentPage + 1 \in DOMAIN allocatedMemory
    /\ running \in BOOLEAN

(* A trace lies in one executable block from its first to its last byte:   *)
(* writeTrace never runs over the end of what allocateMemory got.          *)
Inside(trace, block) ==
    /\ block.startAddr <= trace.startAddr
    /\ trace.startAddr + trace.size <= block.startAddr + block.size

TracesInBlocks ==
    \A t \in DOMAIN written : \E k \in DOMAIN allocatedMemory :
        Inside(written[t], allocatedMemory[k])

(* The bytes of a trace stay what they were when its pointer was handed    *)
(* out, however many traces follow: linked exits jump to that address.     *)
TracesIntact ==
    \A t \in DOMAIN written :
        \A a \in Range(written[t].startAddr, written[t].size) :
            a \in Heap /\ memory[a] = t

-----------------------------------------------------------------------------
(* The inductive invariant: blocks do not overlap, and what is written of  *)
(* the block in use lies below the cursor.                                 *)
BlocksDisjoint ==
    \A j, k \in DOMAIN allocatedMemory :
        LET a == allocatedMemory[j]
            b == allocatedMemory[k]
        IN  j # k => a.startAddr + a.size <= b.startAddr \/ b.startAddr + b.size <= a.startAddr

BlocksInHeap ==
    \A k \in DOMAIN allocatedMemory :
        Range(allocatedMemory[k].startAddr, allocatedMemory[k].size) \subseteq Heap

CursorInBlock ==
    allocatedMemory # <<>> =>
        /\ CurrentMemory.startAddr <= cursor
        /\ cursor <= CurrentMemory.startAddr + CurrentMemory.size

BelowCursor ==
    \A t \in DOMAIN written :
        Inside(written[t], CurrentMemory) => written[t].startAddr + written[t].size <= cursor

MemoryInv ==
    /\ MemoryTypeOK /\ BlocksDisjoint /\ BlocksInHeap /\ CursorInBlock /\ BelowCursor
    /\ TracesInBlocks /\ TracesIntact
=============================================================================
