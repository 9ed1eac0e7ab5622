--------------------------- MODULE AtomicRmwProofs --------------------------
(***************************************************************************)
(* The compare-exchange loop is atomic for every number of engines, every  *)
(* operand size and every callback.  The inductive invariant is TypeOK,    *)
(* which ties the instruction a thread executes to the step it is at (the  *)
(* compare-exchange belongs to a locked one), and ExpectedOK.              *)
(***************************************************************************)
EXTENDS AtomicRmw, TLAPS

\* A remainder modulo the operand size is a value of that size.
LEMMA Masked == \A n \in Int : n % Modulus \in Values
BY AtomicAssumption DEF Values

\* A CMPXCHG at its compare-exchange expects what the accumulator holds.
ExpectedOK == \A t \in Threads :
  pc[t] = "cas" /\ op[t] \in CmpOps => current[t] = Accumulator[op[t]]

\* Init establishes the type invariant.
LEMMA InitType == Init => TypeOK
BY AtomicAssumption DEF Init, TypeOK, Values, Ops

\* Desired is a value of the operand size.
LEMMA DesiredValue == ASSUME TypeOK, NEW t \in Threads, pc[t] = "cas"
                      PROVE  Desired(t) \in Values
<1>1. op[t] \in RmwOps \cup CmpOps /\ current[t] \in Values
  BY DEF TypeOK
<1>2. CASE op[t] \in CmpOps
  BY <1>2, AtomicAssumption DEF Desired
<1>3. CASE op[t] \in RmwOps /\ op[t] \notin CmpOps
  <2>1. Callback[op[t]][current[t]] \in Int
    BY <1>1, <1>3, AtomicAssumption
  <2> QED  BY <2>1, <1>3, Masked DEF Desired
<1> QED  BY <1>1, <1>2, <1>3

\* Every step preserves the type invariant.
LEMMA NextType == TypeOK /\ [Next]_vars => TypeOK'
<1> SUFFICES ASSUME TypeOK, [Next]_vars PROVE TypeOK'
  OBVIOUS
<1> USE AtomicAssumption DEF Finish
<1>1. CASE UNCHANGED vars
  BY <1>1 DEF TypeOK, vars
<1>2. ASSUME NEW t \in Threads, NEW o \in Ops, Start(t, o)  PROVE TypeOK'
  BY <1>2 DEF Start, TypeOK, Ops
<1>3. ASSUME NEW t \in Threads, Read(t)  PROVE TypeOK'
  BY <1>3 DEF Read, TypeOK, Ops
<1>4. ASSUME NEW t \in Threads, CompareExchange(t)  PROVE TypeOK'
  <2>1. Desired(t) \in Values
    BY <1>4, DesiredValue DEF CompareExchange
  <2>2. cell' \in Values /\ count' \in [Threads -> 0..MaxOps]
    BY <1>4, <2>1 DEF CompareExchange, TypeOK
  <2>3. current' \in [Threads -> Values]
    BY <1>4 DEF CompareExchange, TypeOK
  <2>4. old' \in [Threads -> Values]
    BY <1>4 DEF CompareExchange, TypeOK
  <2>5. CASE Finish(t)
    BY <2>2, <2>3, <2>4, <2>5 DEF TypeOK
  <2>6. CASE UNCHANGED <<pc, op>>
    BY <2>2, <2>3, <2>4, <2>6 DEF TypeOK
  <2> QED  BY <1>4, <2>5, <2>6 DEF CompareExchange
<1>5. ASSUME NEW t \in Threads, Write(t)  PROVE TypeOK'
  <2>1. PlainResult[op[t]][current[t]] \in Int
    BY <1>5 DEF Write, TypeOK
  <2>2. cell' \in Values
    BY <1>5, <2>1, Masked DEF Write
  <2> QED  BY <1>5, <2>2 DEF Write, TypeOK
<1>6. ASSUME NEW t \in Threads, Faults(t)  PROVE TypeOK'
  BY <1>6 DEF Faults, TypeOK
<1>7. CASE Done
  BY <1>1, <1>7 DEF Done
<1> QED
  BY <1>1, <1>2, <1>3, <1>4, <1>5, <1>6, <1>7 DEF Next, Step

\* memory.hpp: the operand and the values of the retry loop never exceed the operand
\* size, and a compare-exchange always belongs to an instruction that asked for one.
THEOREM TypeCorrect == Spec => []TypeOK
BY InitType, NextType, PTL DEF Spec

\* Init establishes what a CMPXCHG expects.
LEMMA InitExpected == Init => ExpectedOK
BY DEF Init, ExpectedOK

\* Every step preserves it: only a step of the thread itself changes its expectation, and
\* the retry that does belongs to the other instructions.
LEMMA NextExpected == TypeOK /\ ExpectedOK /\ [Next]_vars => ExpectedOK'
<1> SUFFICES ASSUME TypeOK, ExpectedOK, [Next]_vars PROVE ExpectedOK'
  OBVIOUS
<1> USE AtomicAssumption DEF Finish, ExpectedOK, TypeOK
<1>1. CASE UNCHANGED vars
  BY <1>1 DEF vars
<1>2. ASSUME NEW t \in Threads, NEW o \in Ops, Start(t, o)  PROVE ExpectedOK'
  BY <1>2 DEF Start, Ops
<1>3. ASSUME NEW t \in Threads, Read(t)  PROVE ExpectedOK'
  <2>1. op[t] \notin CmpOps
    BY <1>3 DEF Read
  <2> SUFFICES ASSUME NEW s \in Threads, pc'[s] = "cas", op'[s] \in CmpOps
               PROVE  current'[s] = Accumulator[op'[s]]
    OBVIOUS
  <2>2. s # t /\ pc[s] = "cas" /\ op'[s] = op[s] /\ current'[s] = current[s]
    BY <1>3, <2>1 DEF Read
  <2> QED  BY <2>2
<1>4. ASSUME NEW t \in Threads, CompareExchange(t)  PROVE ExpectedOK'
  <2> SUFFICES ASSUME NEW s \in Threads, pc'[s] = "cas", op'[s] \in CmpOps
               PROVE  current'[s] = Accumulator[op'[s]]
    OBVIOUS
  <2>1. CASE s # t
    BY <1>4, <2>1 DEF CompareExchange
  <2>2. CASE s = t
    BY <1>4, <2>2 DEF CompareExchange
  <2> QED  BY <2>1, <2>2
<1>5. ASSUME NEW t \in Threads, Write(t)  PROVE ExpectedOK'
  BY <1>5 DEF Write
<1>6. ASSUME NEW t \in Threads, Faults(t)  PROVE ExpectedOK'
  BY <1>6 DEF Faults
<1>7. CASE Done
  BY <1>1, <1>7 DEF Done
<1> QED
  BY <1>1, <1>2, <1>3, <1>4, <1>5, <1>6, <1>7 DEF Next, Step

\* The initial states are initial states of the atomic cell.
LEMMA InitRefines == Init => Cell!Init
BY AtomicAssumption DEF Init, Cell!Init, Values

\* A step of an engine is a step of the atomic cell or leaves it alone.
LEMMA NextRefines == TypeOK /\ ExpectedOK /\ [Next]_vars => [Cell!Next]_Cell!vars
<1> SUFFICES ASSUME TypeOK, ExpectedOK, [Next]_vars PROVE [Cell!Next]_Cell!vars
  OBVIOUS
<1> USE DEF Cell!vars
<1>1. CASE UNCHANGED vars
  BY <1>1 DEF vars
<1>2. ASSUME NEW t \in Threads, NEW o \in Ops, Start(t, o)  PROVE Cell!Next
  <2>1. Cell!Begin(t, o)
    BY <1>2 DEF Start, Cell!Begin, TypeOK
  <2> QED  BY <2>1 DEF Cell!Next, Ops
<1>3. ASSUME NEW t \in Threads, Read(t)  PROVE UNCHANGED <<cell, op, old>>
  BY <1>3 DEF Read
<1>4. ASSUME NEW t \in Threads, CompareExchange(t)  PROVE [Cell!Next]_Cell!vars
  <2>1. op[t] \in RmwOps \cup CmpOps
    BY <1>4 DEF CompareExchange, TypeOK
  <2>2. CASE cell = current[t]
    <3>1. Desired(t) = Effect(op[t], cell)
      BY <1>4, <2>1, <2>2 DEF Desired, Effect, ExpectedOK, CompareExchange
    <3>2. Cell!Apply(t)
      BY <1>4, <2>1, <2>2, <3>1 DEF CompareExchange, Cell!Apply, Finish
    <3> QED  BY <3>2 DEF Cell!Next
  <2>3. CASE cell # current[t] /\ op[t] \in RmwOps
    BY <1>4, <2>3, AtomicAssumption DEF CompareExchange
  <2>4. CASE cell # current[t] /\ op[t] \in CmpOps
    <3>1. old' = [old EXCEPT ![t] = cell] /\ cell' = cell /\ Finish(t)
      BY <1>4, <2>4, AtomicAssumption DEF CompareExchange
    <3>2. Effect(op[t], cell) = cell
      BY <1>4, <2>4 DEF Effect, CompareExchange, ExpectedOK
    <3>3. Cell!Apply(t)
      BY <2>4, <3>1, <3>2 DEF Cell!Apply, Finish
    <3> QED  BY <3>3 DEF Cell!Next
  <2> QED  BY <2>1, <2>2, <2>3, <2>4
<1>5. ASSUME NEW t \in Threads, Write(t)  PROVE Cell!Next
  <2>1. PlainResult[op[t]][current[t]] \in Int
    BY <1>5, AtomicAssumption DEF Write, TypeOK
  <2>2. cell' \in Values
    BY <1>5, <2>1, Masked DEF Write
  <2>3. Cell!Store(t)
    BY <1>5, <2>2 DEF Write, Cell!Store, TypeOK, Finish
  <2> QED  BY <2>3 DEF Cell!Next
<1>6. ASSUME NEW t \in Threads, Faults(t)  PROVE Cell!Next
  <2>1. Cell!Fault(t)
    BY <1>6 DEF Faults, Cell!Fault, TypeOK, Finish
  <2> QED  BY <2>1 DEF Cell!Next
<1>7. CASE Done
  BY <1>1, <1>7 DEF Done
<1> QED
  BY <1>1, <1>2, <1>3, <1>4, <1>5, <1>6, <1>7 DEF Next, Step

\* memory.hpp: for any number of engines a locked instruction is atomic.
THEOREM Atomicity == Spec => ImplementsCell
BY InitType, NextType, InitExpected, NextExpected, InitRefines, NextRefines, PTL
   DEF Spec, ImplementsCell, Cell!Spec

=============================================================================
