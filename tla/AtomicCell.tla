----------------------------- MODULE AtomicCell -----------------------------
(***************************************************************************)
(* What locked instructions of several engines promise on a memory operand *)
(* they share: each takes effect at one instant between its start and its  *)
(* end, and returns the value it found there, or faults and has no effect. *)
(* Instructions without the promise store at some instant as well, but     *)
(* what they store may be out of date.                                     *)
(***************************************************************************)
EXTENDS Integers

CONSTANTS
  Threads,   \* engines, one thread each
  Values,    \* values of the operand
  Locked,    \* instructions that are atomic
  Plain,     \* instructions that are not
  Effect(_, _)  \* Effect(op, v): what a locked instruction turns v into

VARIABLES
  cell,      \* the operand in shared memory
  busy,      \* [Threads -> the instruction being executed or "none"]
  old        \* [Threads -> the value the last locked instruction found]

vars == <<cell, busy, old>>

Init == cell \in Values /\ busy = [t \in Threads |-> "none"] /\ old \in [Threads -> Values]

\* An instruction starts.
Begin(t, op) ==
  /\ busy[t] = "none" /\ busy' = [busy EXCEPT ![t] = op]
  /\ UNCHANGED <<cell, old>>

\* A locked instruction takes effect.
Apply(t) ==
  /\ busy[t] \in Locked
  /\ cell' = Effect(busy[t], cell)
  /\ old' = [old EXCEPT ![t] = cell]
  /\ busy' = [busy EXCEPT ![t] = "none"]

\* Another instruction stores.
Store(t) ==
  /\ busy[t] \in Plain /\ cell' \in Values
  /\ busy' = [busy EXCEPT ![t] = "none"] /\ UNCHANGED old

\* An instruction faults.
Fault(t) ==
  /\ busy[t] # "none" /\ busy' = [busy EXCEPT ![t] = "none"]
  /\ UNCHANGED <<cell, old>>

Next == \E t \in Threads :
          \/ \E op \in Locked \cup Plain : Begin(t, op)
          \/ Apply(t) \/ Store(t) \/ Fault(t)

Spec == Init /\ [][Next]_vars

=============================================================================
