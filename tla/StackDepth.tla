------------------------------ MODULE StackDepth ------------------------------
(***************************************************************************)
(* The operand stack of the byte code against the one compile() keeps: the *)
(* invariants behind NeverUnderflows.  Only how deep a stack is counts.    *)
(***************************************************************************)
EXTENDS RecordingInvariants

(* What the instructions that can be part of a trace take off the operand  *)
(* stack and put on it when they are interpreted.                          *)
Comparisons == {"IF_ICMPEQ", "IF_ICMPNE", "IF_ICMPLT", "IF_ICMPGE", "IF_ICMPGT", "IF_ICMPLE"}
Operations == {"IADD", "ISUB", "IMUL", "IDIV", "IREM"}
Constants == {"ICONST_n", "FCONST_n", "BIPUSH", "SIPUSH", "LDC"}
IntLoads == {"ILOAD", "ILOAD_n"}
IntStores == {"ISTORE", "ISTORE_n"}

Tracked ==
    Branches \cup Operations \cup Constants \cup IntLoads \cup IntStores \cup {"IINC", "GOTO"}

Consumed(mn) ==
    CASE mn \in Comparisons \cup Operations -> 2
      [] mn \in (Branches \ Comparisons) \cup IntStores -> 1
      [] OTHER -> 0

Produced(mn) == IF mn \in Operations \cup Constants \cup IntLoads THEN 1 ELSE 0

Leads(pc) ==
    CASE Mnemonic(pc) \in Branches -> {Target(pc), After(pc)}
      [] Mnemonic(pc) = "GOTO" -> {Target(pc)}
      [] OTHER -> {After(pc)}

(* What the verifier of the JVM makes sure of: the stack is as deep at an  *)
(* instruction on every way to it, and never too shallow for it.           *)
DepthAfter(d, pc) == d[pc] - Consumed(Mnemonic(pc)) + Produced(Mnemonic(pc))

Verified(d) ==
    /\ d \in [Pcs -> Nat]
    /\ \A pc \in Pcs : Mnemonic(pc) \in Tracked =>
            /\ d[pc] >= Consumed(Mnemonic(pc))
            /\ \A next \in Leads(pc) : d[next] = DepthAfter(d, pc)

(* What is compiled starts between two statements.                         *)
StartsEmpty(d) == phase = "compile" => d[traceStart] = 0

-----------------------------------------------------------------------------
(* How deep the stack is where the recording goes on.                      *)
GoesOnAt(d, depth) ==
    IF recordedTrace = <<>>
    THEN traceStart \in Pcs => d[traceStart] = depth
    ELSE Mnemonic(LastEntry.pc) \in Tracked => DepthAfter(d, LastEntry.pc) = depth

RecordingBalanced(d) ==
    recording =>
        /\ phase \in {"check", "dispatch", "execute"} /\ frames # <<>> => GoesOnAt(d, d[Top])
        /\ phase = "native" => GoesOnAt(d, 0)

EntriesBalanced(d) ==
    /\ recordedTrace # <<>> /\ traceStart \in Pcs => d[recordedTrace[1].pc] = d[traceStart]
    /\ \A k \in 1 .. Len(recordedTrace) - 1 :
        Mnemonic(recordedTrace[k].pc) \in Tracked =>
            d[recordedTrace[k + 1].pc] = DepthAfter(d, recordedTrace[k].pc)

(* Traces start, and are left, with nothing on the stack.                  *)
TracesBalanced(d) ==
    \A pc \in DOMAIN traces :
        d[pc] = 0 /\ \A k \in DOMAIN traces[pc].stubs : d[traces[pc].stubs[k].label] = 0

(* compile()'s stack is as deep as the byte code's.                        *)
OperandsBalanced(d) ==
    phase = "compile" =>
        /\ \A k \in DOMAIN bailoutCode : d[bailoutCode[k].label] = 0
        /\ Len(nativeTrace) < Len(recordedTrace) => Len(operandStack) = d[NextEntry.pc]

DepthInv(d) ==
    RecordingBalanced(d) /\ EntriesBalanced(d) /\ TracesBalanced(d) /\ OperandsBalanced(d)
=============================================================================
