------------------------------ MODULE MCHooks -------------------------------
(***************************************************************************)
(* An instance of Hooks for TLC.                                           *)
(***************************************************************************)
EXTENDS Hooks

\* Everywhere, and from an address on.
HookRanges == {<<0, 0>>, <<2, 0>>}

\* Callbacks of memory and invalid-access hooks add and delete hooks.  Those of code
\* hooks only delete: the early-out of their walk counts hooks that are added behind it.
Callbacks == [t \in Types |-> IF t \in CodeTypes THEN {"del"} ELSE {"add", "del"}]

=============================================================================
