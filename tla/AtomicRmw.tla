----------------------------- MODULE AtomicRmw ------------------------------
(***************************************************************************)
(* Read-modify-write instructions of several engines, each on a thread of  *)
(* its own, on one memory operand they share: cpu_atomic_rmw_memory,       *)
(* cpu_atomic_compare_exchange_memory (cpu/memory.hpp) and the handlers    *)
(* that use them, beside the handlers that read and then write.            *)
(***************************************************************************)
EXTENDS Integers

CONSTANTS
  Threads,     \* engines
  Modulus,     \* 2^operand_size
  RmwOps,      \* INC, DEC, NEG, NOT, OR, XOR, BTx, XADD with LOCK, and XCHG
  Callback,    \* [RmwOps -> [0..Modulus-1 -> Int]]: their cpu_atomic_rmw_callback
  CmpOps,      \* LOCK CMPXCHG
  Accumulator, Source,  \* [CmpOps -> 0..Modulus-1]: the registers they use
  PlainOps,    \* without LOCK; ADD, SUB, AND, ADC, SBB, CMPXCHG8B/16B even with it
  PlainResult, \* [PlainOps -> [0..Modulus-1 -> Int]]
  MaxOps       \* bound on the instructions a thread executes

Values == 0..Modulus-1
Ops    == RmwOps \cup CmpOps \cup PlainOps

ASSUME AtomicAssumption ==
  /\ Modulus \in Nat \ {0} /\ MaxOps \in Nat
  /\ Callback \in [RmwOps -> [Values -> Int]]
  /\ Accumulator \in [CmpOps -> Values] /\ Source \in [CmpOps -> Values]
  /\ PlainResult \in [PlainOps -> [Values -> Int]]
  /\ RmwOps \cap CmpOps = {} /\ PlainOps \cap (RmwOps \cup CmpOps) = {}
  /\ "none" \notin Ops

VARIABLES
  cell,     \* the operand
  pc,       \* [Threads -> where the handler is]
  op,       \* [Threads -> the instruction, or "none"]
  current,  \* [Threads -> current_value of the loop, expected_value of a CMPXCHG]
  old,      \* [Threads -> *old_value_out, *previous_value]
  count     \* [Threads -> instructions started]

vars == <<cell, pc, op, current, old, count>>

Init ==
  /\ cell \in Values
  /\ pc = [t \in Threads |-> "idle"] /\ op = [t \in Threads |-> "none"]
  /\ current = [t \in Threads |-> 0] /\ old = [t \in Threads |-> 0]
  /\ count = [t \in Threads |-> 0]

\* A handler starts: a locked CMPXCHG goes straight to its compare-exchange, everything
\* else reads the operand first.
Start(t, o) ==
  /\ pc[t] = "idle" /\ count[t] < MaxOps
  /\ op' = [op EXCEPT ![t] = o]
  /\ pc' = [pc EXCEPT ![t] = IF o \in CmpOps THEN "cas" ELSE "read"]
  /\ current' = [current EXCEPT ![t] = IF o \in CmpOps THEN Accumulator[o] ELSE @]
  /\ count' = [count EXCEPT ![t] = @ + 1]
  /\ UNCHANGED <<cell, old>>

\* read_memory_operand_checked; the value under mask.
Read(t) ==
  /\ pc[t] = "read"
  /\ current' = [current EXCEPT ![t] = cell]
  /\ pc' = [pc EXCEPT ![t] = IF op[t] \in PlainOps THEN "write" ELSE "cas"]
  /\ UNCHANGED <<cell, op, old, count>>

Finish(t) == pc' = [pc EXCEPT ![t] = "idle"] /\ op' = [op EXCEPT ![t] = "none"]

\* desired_value & mask
Desired(t) == IF op[t] \in CmpOps THEN Source[op[t]]
              ELSE Callback[op[t]][current[t]] % Modulus

CompareExchange_Blind(t) ==  \* mutant: a plain store instead of the compare-exchange
  /\ pc[t] = "cas"
  /\ cell' = Desired(t) /\ old' = [old EXCEPT ![t] = current[t]]
  /\ Finish(t) /\ UNCHANGED <<current, count>>

CompareExchange_NoReload(t) ==  \* mutant: a retry keeps the old expected value
  /\ pc[t] = "cas"
  /\ IF cell = current[t]
     THEN cell' = Desired(t) /\ old' = [old EXCEPT ![t] = current[t]] /\ Finish(t)
     ELSE UNCHANGED <<cell, old, pc, op>>
  /\ UNCHANGED <<current, count>>

CompareExchange_KeepWidth(t) ==  \* mutant: the result is not masked to the operand size
  /\ pc[t] = "cas"
  /\ \/ /\ cell = current[t]
        /\ cell' = IF op[t] \in CmpOps THEN Desired(t) ELSE Callback[op[t]][current[t]]
        /\ old' = [old EXCEPT ![t] = current[t]]
        /\ Finish(t) /\ UNCHANGED current
     \/ /\ cell # current[t] /\ op[t] \in RmwOps
        /\ current' = [current EXCEPT ![t] = cell]
        /\ UNCHANGED <<cell, old, pc, op>>
     \/ /\ cell # current[t] /\ op[t] \in CmpOps
        /\ old' = [old EXCEPT ![t] = cell]
        /\ Finish(t) /\ UNCHANGED <<cell, current>>
  /\ UNCHANGED count

\* _InterlockedCompareExchange, and what its callers make of the result: the loop takes
\* the observed value and tries again, CMPXCHG is done either way.
CompareExchange(t) ==
  /\ pc[t] = "cas"
  /\ \/ /\ cell = current[t]
        /\ cell' = Desired(t) /\ old' = [old EXCEPT ![t] = current[t]]
        /\ Finish(t) /\ UNCHANGED current
     \/ /\ cell # current[t] /\ op[t] \in RmwOps
        /\ current' = [current EXCEPT ![t] = cell]
        /\ UNCHANGED <<cell, old, pc, op>>
     \/ /\ cell # current[t] /\ op[t] \in CmpOps
        /\ old' = [old EXCEPT ![t] = cell]
        /\ Finish(t) /\ UNCHANGED <<cell, current>>
  /\ UNCHANGED count

\* The write of a handler that is not atomic.
Write(t) ==
  /\ pc[t] = "write"
  /\ cell' = PlainResult[op[t]][current[t]] % Modulus
  /\ Finish(t) /\ UNCHANGED <<current, old, count>>

\* The read, the write pointer of a compare-exchange or the write faults; an engine's
\* mapping may change between two tries.
Faults(t) ==
  /\ pc[t] # "idle"
  /\ Finish(t) /\ UNCHANGED <<cell, current, old, count>>

\* Steps of a thread once an instruction has started.
Step(t) == Read(t) \/ CompareExchange(t) \/ Write(t)

\* Every thread has used up its budget of instructions and the system rests.
Done ==
  /\ \A t \in Threads : pc[t] = "idle" /\ count[t] = MaxOps
  /\ UNCHANGED vars

Next == (\E t \in Threads : Step(t) \/ Faults(t) \/ \E o \in Ops : Start(t, o)) \/ Done

Spec == Init /\ [][Next]_vars

\* Every thread is scheduled; nothing obliges an access to fault.
FairSpec == Spec /\ \A t \in Threads : WF_vars(Step(t))

-----------------------------------------------------------------------------
(* Properties                                                              *)

\* The operand and every value a handler holds fit the operand size, whatever the
\* callback computed; a handler is at a step its instruction has.
TypeOK ==
  /\ cell \in Values /\ current \in [Threads -> Values] /\ old \in [Threads -> Values]
  /\ pc \in [Threads -> {"idle", "read", "cas", "write"}]
  /\ op \in [Threads -> Ops \cup {"none"}]
  /\ count \in [Threads -> 0..MaxOps]
  /\ \A t \in Threads :
       /\ pc[t] = "idle" <=> op[t] = "none"
       /\ pc[t] = "read" => op[t] \in RmwOps \cup PlainOps
       /\ pc[t] = "cas" => op[t] \in RmwOps \cup CmpOps
       /\ pc[t] = "write" => op[t] \in PlainOps

\* What a locked instruction does to the operand.
Effect(o, v) == IF o \in CmpOps THEN (IF v = Accumulator[o] THEN Source[o] ELSE v)
                ELSE Callback[o][v] % Modulus

Cell == INSTANCE AtomicCell WITH Values <- Values, Locked <- RmwOps \cup CmpOps,
          Plain <- PlainOps, busy <- op

\* memory.hpp, cpu_atomic_rmw_memory: whatever other engines do between the read and the
\* compare-exchange, a locked instruction takes effect at one instant on the value it
\* reports, or faults without effect.
ImplementsCell == Cell!Spec

\* memory.hpp, the for (;;) of cpu_atomic_rmw_memory: the loop ends, because another
\* thread's success is the only thing that can make a try fail.
RmwEnds == \A t \in Threads : pc[t] # "idle" ~> pc[t] = "idle"

=============================================================================
