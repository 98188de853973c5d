--------------------------- MODULE MemoryHandler ---------------------------
(***************************************************************************)
(* The memory handler puts assembled traces one behind the other into      *)
(* blocks of executable memory, and gets a new block when a trace does not *)
(* fit behind the last one.  Memory is kept byte by byte, each byte as the *)
(* number of the trace that wrote it last.                                 *)
(***************************************************************************)
EXTENDS Integers, Sequences

CONSTANTS
    PageSize,     \* sysconf(_SC_PAGE_SIZE), a power of two
    Heap,         \* the addresses aligned_alloc may hand out
    TraceSizes    \* sizes of assembled traces; none is empty

ASSUME MemoryAssumption ==
    /\ PageSize \in Nat \ {0}
    /\ Heap \subseteq Nat
    /\ TraceSizes \subseteq Nat \ {0}

VARIABLES
    allocatedMemory,   \* sequence of Memory: [startAddr, size]
    cursor,            \* where the next byte goes
    currentPage,       \* index of the block in use, counted from 0
    memory,            \* [address -> number of the trace that wrote it, or 0]
    written,           \* the trace pointers handed out, with their sizes
    running            \* FALSE once the process is exiting

memoryVars == <<allocatedMemory, cursor, currentPage, memory, written, running>>

Range(startAddr, size) == startAddr .. startAddr + size - 1

(* cursor and currentPage have no initial value; nothing reads them before *)
(* there is a block.                                                       *)
Init ==
    /\ allocatedMemory = <<>> /\ written = <<>>
    /\ cursor = 0 /\ currentPage = 0
    /\ memory = [addr \in Heap |-> 0]
    /\ running = TRUE

CurrentMemory == allocatedMemory[currentPage + 1]

(* Mutant of AllocationNeeded: what the block already holds is forgotten.  *)
AllocationNeededIfLarge(traceSize) ==
    allocatedMemory # <<>> => CurrentMemory.size < traceSize

(* A difference of unsigned numbers in the code: it would wrap round if    *)
(* the cursor were ever beyond the block.                                  *)
AllocationNeeded(traceSize) ==
    allocatedMemory # <<>> =>
        CurrentMemory.size - (cursor - CurrentMemory.startAddr) < traceSize

(* Mutant of MemSize: rounded down.                                        *)
MemSizeDown(traceSize) == traceSize - (traceSize % PageSize)

MemSize(traceSize) ==
    IF traceSize % PageSize # 0
    THEN traceSize - (traceSize % PageSize) + PageSize
    ELSE traceSize

(* Mutant of NewPage: the index read after the push_back.                  *)
NewPageLate == Len(allocatedMemory) + 1

NewPage == Len(allocatedMemory)

(* aligned_alloc: any aligned block that no block in use overlaps.         *)
Free(addr, size) ==
    /\ addr % PageSize = 0
    /\ Range(addr, size) \subseteq Heap
    /\ \A k \in DOMAIN allocatedMemory :
         LET block == allocatedMemory[k]
         IN  addr + size <= block.startAddr \/ block.startAddr + block.size <= addr

(* The bytes of the trace go to addr and behind; its pointer is handed out.*)
Write(addr, traceSize) ==
    /\ cursor' = addr + traceSize
    /\ memory' = [a \in Heap |-> IF a \in Range(addr, traceSize)
                                 THEN Len(written) + 1 ELSE memory[a]]
    /\ written' = Append(written, [startAddr |-> addr, size |-> traceSize])
    /\ UNCHANGED running

(* writeTrace, without ...                                                 *)
WriteBehind(traceSize) ==
    /\ running /\ ~AllocationNeeded(traceSize)
    /\ Write(cursor, traceSize)
    /\ UNCHANGED <<allocatedMemory, currentPage>>

(* ... and with a call of allocateMemory.                                  *)
WriteToNewBlock(traceSize, addr) ==
    /\ running /\ AllocationNeeded(traceSize)
    /\ Free(addr, MemSize(traceSize))
    /\ allocatedMemory' =
          Append(allocatedMemory, [startAddr |-> addr, size |-> MemSize(traceSize)])
    /\ currentPage' = NewPage
    /\ Write(addr, traceSize)

(* aligned_alloc or mprotect fails, whenever the system has it so.         *)
AllocationFails(traceSize) ==
    /\ running /\ AllocationNeeded(traceSize)
    /\ running' = FALSE
    /\ UNCHANGED <<allocatedMemory, cursor, currentPage, memory, written>>

(* ~Compiler, after the run: the traces go with the object that has them.  *)
FreeTraces ==
    /\ running
    /\ allocatedMemory' = <<>> /\ written' = <<>>
    /\ running' = FALSE
    /\ UNCHANGED <<cursor, currentPage, memory>>

Next ==
    \/ \E traceSize \in TraceSizes :
         \/ WriteBehind(traceSize)
         \/ \E addr \in Heap : WriteToNewBlock(traceSize, addr)
         \/ AllocationFails(traceSize)
    \/ FreeTraces

Spec == Init /\ [][Next]_memoryVars
=============================================================================
