---------------------------- MODULE MCAtomicRmw -----------------------------
(***************************************************************************)
(* Instances of AtomicRmw for TLC: two-bit operands.                       *)
(***************************************************************************)
EXTENDS AtomicRmw

CallbackTable ==
  [o \in RmwOps |-> [v \in Values |-> CASE o = "inc" -> v + 1
                                        [] o = "neg" -> 0 - v
                                        [] OTHER -> 2]]   \* XCHG with 2
AccumulatorTable == [o \in CmpOps |-> 1]
SourceTable      == [o \in CmpOps |-> 3]
PlainTable       == [o \in PlainOps |-> [v \in Values |-> v + 1]]

=============================================================================
