------------------------ MODULE MemoryHandlerProofs ------------------------
(***************************************************************************)
(* Traces keep their memory to themselves, for every page size, every heap *)
(* and any number of traces of any sizes.                                  *)
(***************************************************************************)
EXTENDS MemoryHandlerProperties, TLAPS

(* Rounding up to whole pages never makes a block too small.               *)
LEMMA MemSizeFits ==
    ASSUME NEW traceSize \in TraceSizes
    PROVE  MemSize(traceSize) \in Nat /\ traceSize <= MemSize(traceSize)
<1>1. traceSize \in Nat /\ PageSize \in Nat \ {0}
  BY MemoryAssumption
<1>2. traceSize % PageSize \in 0 .. PageSize - 1 /\ traceSize % PageSize <= traceSize
  BY <1>1
<1> QED
  BY <1>1, <1>2 DEF MemSize

LEMMA PartsTyped ==
    ASSUME MemoryTypeOK
    PROVE  /\ \A t \in DOMAIN written :
                written[t].startAddr \in Nat /\ written[t].size \in Nat \ {0}
           /\ \A k \in DOMAIN allocatedMemory :
                allocatedMemory[k].startAddr \in Nat /\ allocatedMemory[k].size \in Nat
<1>1. \A t \in DOMAIN written : written[t] \in TracePointers
  BY DEF MemoryTypeOK
<1>2. \A k \in DOMAIN allocatedMemory : allocatedMemory[k] \in Blocks
  BY DEF MemoryTypeOK
<1> QED
  BY <1>1, <1>2 DEF TracePointers, Blocks

LEMMA InitMemory == Init => MemoryInv
BY MemoryAssumption DEF Init, MemoryInv, MemoryTypeOK, BlocksDisjoint, BlocksInHeap,
   CursorInBlock, BelowCursor, TracesInBlocks, TracesIntact

(* Where the next trace goes it disturbs nobody: a trace of the same block *)
(* ends below the cursor, and one of another block does not come near.     *)
LEMMA WriteKeeps ==
    ASSUME NEW traceSize \in TraceSizes, NEW addr \in Nat,
           MemoryTypeOK, TracesIntact, TracesInBlocks, Write(addr, traceSize),
           Range(addr, traceSize) \subseteq Heap,
           \A t \in DOMAIN written :
               \/ written[t].startAddr + written[t].size <= addr
               \/ addr + traceSize <= written[t].startAddr,
           \A k \in DOMAIN allocatedMemory :
               k \in DOMAIN allocatedMemory' /\ allocatedMemory'[k] = allocatedMemory[k],
           \E k \in DOMAIN allocatedMemory' :
               Inside([startAddr |-> addr, size |-> traceSize], allocatedMemory'[k])
    PROVE  /\ TracesIntact' /\ TracesInBlocks'
           /\ written' \in Seq(TracePointers)
           /\ memory' \in [Heap -> Nat] /\ cursor' \in Nat
<1> DEFINE trace == [startAddr |-> addr, size |-> traceSize]
           new == Len(written) + 1
<1>1. traceSize \in Nat \ {0}
  BY MemoryAssumption
<1>2. trace \in TracePointers
      /\ written \in Seq(TracePointers)
      /\ memory \in [Heap -> Nat]
  BY <1>1 DEF MemoryTypeOK, TracePointers
<1>3. written' = Append(written, trace) /\ cursor' = addr + traceSize
      /\ memory' = [a \in Heap |-> IF a \in Range(addr, traceSize) THEN new ELSE memory[a]]
  BY DEF Write
<1>4. /\ DOMAIN written' = DOMAIN written \cup {new}
      /\ written'[new] = trace
      /\ \A t \in DOMAIN written : written'[t] = written[t] /\ t # new
      /\ written' \in Seq(TracePointers)
  BY <1>2, <1>3
<1>5. memory' \in [Heap -> Nat] /\ cursor' \in Nat
  BY <1>1, <1>2, <1>3
<1>6. TracesIntact'
  <2> SUFFICES ASSUME NEW t \in DOMAIN written',
                      NEW a \in Range(written'[t].startAddr, written'[t].size)
               PROVE  a \in Heap /\ memory'[a] = t
    BY DEF TracesIntact
  <2>1. CASE t = new
    BY <1>3, <1>4, <2>1
  <2>2. CASE t # new
    <3>1. t \in DOMAIN written /\ written'[t] = written[t]
      BY <1>4, <2>2
    <3>2. written[t].startAddr \in Nat /\ written[t].size \in Nat
      BY <3>1, PartsTyped
    <3>3. a \in Range(written[t].startAddr, written[t].size)
      BY <3>1
    <3>4. a \notin Range(addr, traceSize)
      BY <1>1, <3>1, <3>2, <3>3 DEF Range
    <3>5. a \in Heap /\ memory[a] = t
      BY <3>1, <3>3 DEF TracesIntact
    <3> QED
      BY <1>3, <3>4, <3>5
  <2> QED
    BY <2>1, <2>2
<1>7. TracesInBlocks'
  BY <1>4 DEF TracesInBlocks, Inside
<1> QED
  BY <1>4, <1>5, <1>6, <1>7

LEMMA WriteBehindKeeps ==
    ASSUME MemoryInv, NEW traceSize \in TraceSizes, WriteBehind(traceSize)
    PROVE  MemoryInv'
<1> USE DEF WriteBehind
<1> DEFINE trace == [startAddr |-> cursor, size |-> traceSize]
           block == CurrentMemory
<1>1. traceSize \in Nat \ {0} /\ cursor \in Nat
  BY MemoryAssumption DEF MemoryInv, MemoryTypeOK
<1>2. currentPage + 1 \in DOMAIN allocatedMemory
  BY DEF AllocationNeeded, MemoryInv, MemoryTypeOK
<1>3. block.startAddr \in Nat /\ block.size \in Nat
  BY <1>2, PartsTyped DEF CurrentMemory, MemoryInv
<1>4. /\ block.startAddr <= cursor
      /\ cursor + traceSize <= block.startAddr + block.size
  BY <1>1, <1>2, <1>3 DEF AllocationNeeded, MemoryInv, CursorInBlock
<1>5. Inside(trace, block)
  BY <1>1, <1>4 DEF Inside
<1>6. Range(cursor, traceSize) \subseteq Heap
  <2>1. Range(block.startAddr, block.size) \subseteq Heap
    BY <1>2 DEF CurrentMemory, MemoryInv, BlocksInHeap
  <2>2. Range(cursor, traceSize) \subseteq Range(block.startAddr, block.size)
    BY <1>1, <1>3, <1>4 DEF Range
  <2> QED
    BY <2>1, <2>2
<1>7. \A t \in DOMAIN written :
          \/ written[t].startAddr + written[t].size <= cursor
          \/ cursor + traceSize <= written[t].startAddr
  <2> SUFFICES ASSUME NEW t \in DOMAIN written
               PROVE  \/ written[t].startAddr + written[t].size <= cursor
                      \/ cursor + traceSize <= written[t].startAddr
    OBVIOUS
  <2>1. written[t].startAddr \in Nat /\ written[t].size \in Nat
    BY PartsTyped DEF MemoryInv
  <2>2. PICK k \in DOMAIN allocatedMemory : Inside(written[t], allocatedMemory[k])
    BY DEF MemoryInv, TracesInBlocks
  <2>3. allocatedMemory[k].startAddr \in Nat /\ allocatedMemory[k].size \in Nat
    BY PartsTyped DEF MemoryInv
  <2>4. CASE k = currentPage + 1
    BY <2>2, <2>4 DEF CurrentMemory, MemoryInv, BelowCursor
  <2>5. CASE k # currentPage + 1
    <3>1. \/ allocatedMemory[k].startAddr + allocatedMemory[k].size <= block.startAddr
          \/ block.startAddr + block.size <= allocatedMemory[k].startAddr
      BY <1>2, <2>5 DEF CurrentMemory, MemoryInv, BlocksDisjoint
    <3> QED
      BY <1>1, <1>3, <1>4, <2>1, <2>2, <2>3, <3>1 DEF Inside
  <2> QED
    BY <2>4, <2>5
<1>8. /\ TracesIntact' /\ TracesInBlocks'
      /\ written' \in Seq(TracePointers)
      /\ memory' \in [Heap -> Nat] /\ cursor' \in Nat
  <2>1. \E k \in DOMAIN allocatedMemory' : Inside(trace, allocatedMemory'[k])
    BY <1>2, <1>5 DEF CurrentMemory
  <2> QED
    BY <1>1, <1>6, <1>7, <2>1, WriteKeeps DEF MemoryInv
<1>9. MemoryTypeOK'
  BY <1>8 DEF MemoryInv, MemoryTypeOK, Write
<1>10. BlocksDisjoint' /\ BlocksInHeap'
  BY DEF MemoryInv, BlocksDisjoint, BlocksInHeap
<1>11. CursorInBlock'
  BY <1>1, <1>2, <1>3, <1>4 DEF CursorInBlock, CurrentMemory, Write
<1>12. BelowCursor'
  <2> SUFFICES ASSUME NEW t \in DOMAIN written', Inside(written'[t], block)
               PROVE  written'[t].startAddr + written'[t].size <= cursor'
    BY DEF BelowCursor, CurrentMemory
  <2>1. written' = Append(written, trace) /\ cursor' = cursor + traceSize
    BY DEF Write
  <2>2. CASE t = Len(written) + 1
    <3>1. written'[t] = trace
      BY <2>1, <2>2 DEF MemoryInv, MemoryTypeOK
    <3> QED
      BY <1>1, <2>1, <3>1
  <2>3. CASE t # Len(written) + 1
    <3>1. t \in DOMAIN written /\ written'[t] = written[t]
      BY <2>1, <2>3 DEF MemoryInv, MemoryTypeOK
    <3>2. written[t].startAddr + written[t].size <= cursor
      BY <3>1 DEF MemoryInv, BelowCursor
    <3>3. written[t].startAddr \in Nat /\ written[t].size \in Nat
      BY <3>1, PartsTyped DEF MemoryInv
    <3> QED
      BY <1>1, <2>1, <3>1, <3>2, <3>3
  <2> QED
    BY <2>2, <2>3
<1> QED
  BY <1>8, <1>9, <1>10, <1>11, <1>12 DEF MemoryInv

LEMMA WriteToNewBlockKeeps ==
    ASSUME MemoryInv, NEW traceSize \in TraceSizes, NEW addr \in Heap,
           WriteToNewBlock(traceSize, addr)
    PROVE  MemoryInv'
<1> USE DEF WriteToNewBlock, NewPage
<1> DEFINE trace == [startAddr |-> addr, size |-> traceSize]
           size == MemSize(traceSize)
           block == [startAddr |-> addr, size |-> size]
           old == DOMAIN allocatedMemory
           new == Len(allocatedMemory) + 1
<1>1. traceSize \in Nat \ {0} /\ addr \in Nat
  BY MemoryAssumption
<1>2. size \in Nat /\ traceSize <= size
  BY MemSizeFits
<1> HIDE DEF size
<1>3. allocatedMemory \in Seq(Blocks) /\ block \in Blocks
  BY <1>1, <1>2 DEF MemoryInv, MemoryTypeOK, Blocks
<1>4. /\ allocatedMemory' \in Seq(Blocks)
      /\ DOMAIN allocatedMemory' = old \cup {new}
      /\ allocatedMemory'[new] = block
      /\ \A k \in old : allocatedMemory'[k] = allocatedMemory[k] /\ k # new
  BY <1>3 DEF size
<1>5. currentPage' \in Nat /\ currentPage' + 1 = new
  BY <1>3
<1>6. CurrentMemory' = block
  BY <1>4, <1>5 DEF CurrentMemory
<1>7. /\ Range(addr, size) \subseteq Heap
      /\ \A k \in old :
           \/ addr + size <= allocatedMemory[k].startAddr
           \/ allocatedMemory[k].startAddr + allocatedMemory[k].size <= addr
  BY DEF Free, size
<1>8. \A t \in DOMAIN written :
          \/ written[t].startAddr + written[t].size <= addr
          \/ addr + size <= written[t].startAddr
  <2> SUFFICES ASSUME NEW t \in DOMAIN written
               PROVE  \/ written[t].startAddr + written[t].size <= addr
                      \/ addr + size <= written[t].startAddr
    OBVIOUS
  <2>1. written[t].startAddr \in Nat /\ written[t].size \in Nat
    BY PartsTyped DEF MemoryInv
  <2>2. PICK k \in old : Inside(written[t], allocatedMemory[k])
    BY DEF MemoryInv, TracesInBlocks
  <2>3. allocatedMemory[k].startAddr \in Nat /\ allocatedMemory[k].size \in Nat
    BY PartsTyped DEF MemoryInv
  <2> QED
    BY <1>1, <1>2, <1>7, <2>1, <2>2, <2>3 DEF Inside
<1>9. Inside(trace, block)
  BY <1>1, <1>2 DEF Inside
<1>10. /\ TracesIntact' /\ TracesInBlocks'
       /\ written' \in Seq(TracePointers)
       /\ memory' \in [Heap -> Nat] /\ cursor' \in Nat
  <2>1. Range(addr, traceSize) \subseteq Heap
    BY <1>1, <1>2, <1>7 DEF Range
  <2>2. \A t \in DOMAIN written :
            \/ written[t].startAddr + written[t].size <= addr
            \/ addr + traceSize <= written[t].startAddr
    <3>1. \A t \in DOMAIN written : written[t].startAddr \in Nat
      BY PartsTyped DEF MemoryInv
    <3> QED
      BY <1>1, <1>2, <1>8, <3>1
  <2>3. \E k \in DOMAIN allocatedMemory' : Inside(trace, allocatedMemory'[k])
    BY <1>4, <1>9
  <2>4. \A k \in DOMAIN allocatedMemory :
            k \in DOMAIN allocatedMemory' /\ allocatedMemory'[k] = allocatedMemory[k]
    BY <1>4
  <2> QED
    BY <1>1, <2>1, <2>2, <2>3, <2>4, WriteKeeps DEF MemoryInv
<1>11. MemoryTypeOK'
  BY <1>4, <1>5, <1>10 DEF MemoryInv, MemoryTypeOK, Write
<1>12. BlocksDisjoint'
  <2> SUFFICES ASSUME NEW j \in DOMAIN allocatedMemory', NEW k \in DOMAIN allocatedMemory',
                      j # k
               PROVE  LET a == allocatedMemory'[j]
                          b == allocatedMemory'[k]
                      IN  \/ a.startAddr + a.size <= b.startAddr
                          \/ b.startAddr + b.size <= a.startAddr
    BY DEF BlocksDisjoint
  <2>1. CASE j \in old /\ k \in old
    BY <1>4, <2>1 DEF MemoryInv, BlocksDisjoint
  <2>2. CASE j = new \/ k = new
    BY <1>4, <1>7, <2>2
  <2> QED
    BY <1>4, <2>1, <2>2
<1>13. BlocksInHeap'
  BY <1>4, <1>7 DEF MemoryInv, BlocksInHeap
<1>14. CursorInBlock'
  BY <1>1, <1>2, <1>6 DEF CursorInBlock, Write
<1>15. BelowCursor'
  <2> SUFFICES ASSUME NEW t \in DOMAIN written', Inside(written'[t], block)
               PROVE  written'[t].startAddr + written'[t].size <= cursor'
    BY <1>6 DEF BelowCursor
  <2>1. written' = Append(written, trace) /\ cursor' = addr + traceSize
    BY DEF Write
  <2>2. CASE t = Len(written) + 1
    <3>1. written'[t] = trace
      BY <2>1, <2>2 DEF MemoryInv, MemoryTypeOK
    <3> QED
      BY <1>1, <2>1, <3>1
  <2>3. CASE t # Len(written) + 1
    <3>1. t \in DOMAIN written /\ written'[t] = written[t]
      BY <2>1, <2>3 DEF MemoryInv, MemoryTypeOK
    <3>2. written[t].startAddr \in Nat /\ written[t].size \in Nat \ {0}
      BY <3>1, PartsTyped DEF MemoryInv
    <3> QED
      BY <1>1, <1>2, <1>8, <3>1, <3>2 DEF Inside
  <2> QED
    BY <2>2, <2>3
<1> QED
  BY <1>10, <1>11, <1>12, <1>13, <1>14, <1>15 DEF MemoryInv

LEMMA MemoryNextKeeps == MemoryInv /\ [Next]_memoryVars => MemoryInv'
<1> SUFFICES ASSUME MemoryInv, [Next]_memoryVars PROVE MemoryInv'
  OBVIOUS
<1>1. ASSUME NEW traceSize \in TraceSizes, WriteBehind(traceSize) PROVE MemoryInv'
  BY <1>1, WriteBehindKeeps
<1>2. ASSUME NEW traceSize \in TraceSizes, NEW addr \in Heap,
             WriteToNewBlock(traceSize, addr)
      PROVE  MemoryInv'
  BY <1>2, WriteToNewBlockKeeps
<1>3. ASSUME UNCHANGED <<allocatedMemory, cursor, currentPage, memory, written>>,
             running' \in BOOLEAN
      PROVE  MemoryInv'
  BY <1>3 DEF MemoryInv, MemoryTypeOK, BlocksDisjoint, BlocksInHeap, CursorInBlock,
              BelowCursor, TracesInBlocks, TracesIntact, CurrentMemory
<1>4. CASE FreeTraces
  <2>1. running' \in BOOLEAN
    BY <1>4 DEF FreeTraces
  <2>2. allocatedMemory' = <<>> /\ written' = <<>>
        /\ UNCHANGED <<cursor, currentPage, memory>>
    BY <1>4 DEF FreeTraces
  <2>3. MemoryTypeOK'
    BY <2>1, <2>2 DEF MemoryInv, MemoryTypeOK
  <2> QED
    BY <2>2, <2>3 DEF MemoryInv, BlocksDisjoint, BlocksInHeap, CursorInBlock,
                      BelowCursor, TracesInBlocks, TracesIntact
<1>5. ASSUME NEW traceSize \in TraceSizes, AllocationFails(traceSize) PROVE MemoryInv'
  BY <1>3, <1>5 DEF AllocationFails
<1>6. CASE UNCHANGED memoryVars
  BY <1>3, <1>6 DEF memoryVars, MemoryInv, MemoryTypeOK
<1> QED
  BY <1>1, <1>2, <1>4, <1>5, <1>6 DEF Next

(* The invariant the theorems below follow from: disjoint blocks, and the  *)
(* cursor above everything written to the block in use.                    *)
THEOREM MemoryInvariance == Spec => []MemoryInv
BY InitMemory, MemoryNextKeeps, PTL DEF Spec

(* The fields of the memory handler keep their meaning: the page in use is *)
(* one of the allocated blocks.                                            *)
THEOREM MemoryTypeCorrect == Spec => []MemoryTypeOK
<1>1. MemoryInv => MemoryTypeOK
  BY DEF MemoryInv
<1> QED
  BY <1>1, MemoryInvariance, PTL

(* writeTrace never runs over the end of a block.                          *)
THEOREM TracesStayInBlocks == Spec => []TracesInBlocks
<1>1. MemoryInv => TracesInBlocks
  BY DEF MemoryInv
<1> QED
  BY <1>1, MemoryInvariance, PTL

(* No trace is ever written over.                                          *)
THEOREM TracesStayIntact == Spec => []TracesIntact
<1>1. MemoryInv => TracesIntact
  BY DEF MemoryInv
<1> QED
  BY <1>1, MemoryInvariance, PTL
=============================================================================
