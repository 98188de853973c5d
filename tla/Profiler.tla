------------------------------ MODULE Profiler ------------------------------
(***************************************************************************)
(* The profiler counts how often control moves backwards inside a method,  *)
(* and how often native code hands a pc back.  A pc counted more than      *)
(* HotThreshold times is hot.                                              *)
(***************************************************************************)
EXTENDS Bytecode

CONSTANT HotThreshold   \* Profiler::hotThreshold

ASSUME ProfilerAssumption == HotThreshold \in Nat

VARIABLES
    lastPc,      \* the pc counted last
    loopRecord   \* [pc -> count]; a pc the map does not contain counts 0

profilerVars == <<lastPc, loopRecord>>

(* Only isHot reads a count, so counting stops one above the threshold.    *)
Increment(count) == IF count > HotThreshold THEN count ELSE count + 1

InitProfiler ==
    /\ lastPc \in UninitPcs
    /\ loopRecord = [pc \in Pcs |-> 0]

BackwardTo(pc) == pc.m = lastPc.m /\ pc.i < lastPc.i

(* Mutant of CountVisitFor: lastPc is not kept up to date.                 *)
CountVisitForStale(pc) ==
    /\ loopRecord' = IF BackwardTo(pc)
                     THEN [loopRecord EXCEPT ![pc] = Increment(@)]
                     ELSE loopRecord
    /\ UNCHANGED lastPc

CountVisitFor(pc) ==
    /\ loopRecord' = IF BackwardTo(pc)
                     THEN [loopRecord EXCEPT ![pc] = Increment(@)]
                     ELSE loopRecord
    /\ lastPc' = pc

CountSideExitFor(pc) ==
    /\ loopRecord' = [loopRecord EXCEPT ![pc] = Increment(@)]
    /\ lastPc' = pc

(* Mutant of IsHot: off by one at the threshold.                           *)
IsHotEarly(counts, pc) == counts[pc] >= HotThreshold

(* counts is loopRecord, or loopRecord' for the test after the increment.  *)
IsHot(counts, pc) == counts[pc] > HotThreshold
=============================================================================
