------------------------------- MODULE Hooks --------------------------------
(***************************************************************************)
(* The hook table and the escape list of one engine (cpueaxh.cpp): adding  *)
(* and deleting, the per-type counts, the index of escapes by instruction, *)
(* and the three walks of the table that call hooks, during which the      *)
(* callbacks add and delete hooks themselves.                              *)
(*                                                                         *)
(* A callback is identified by its handle.  Addresses are small numbers;   *)
(* 0 keeps its meaning of "not given" in a range.                          *)
(***************************************************************************)
EXTENDS Integers, Sequences, FiniteSets, SequencesExt

CONSTANTS
  MaxHooks,      \* CPUEAXH_MAX_HOOKS
  CodeTypes,     \* CODE_PRE and CODE_POST
  MemTypes,      \* MEM_READ, MEM_WRITE, MEM_FETCH
  InvalidTypes,  \* the _UNMAPPED and _PROT types
  EscapeIds,     \* cpueaxh_escape_insn_id without NONE
  MaxEscapes,    \* bound on the escape list, at most the 255 an index byte can name
  Addresses,     \* addresses at which hooks are dispatched
  Ranges,        \* <<begin, end>> pairs that hooks and escapes are added with
  MaxHandle,     \* bound on next_hook
  Reentrant      \* [Types -> SUBSET {"add", "del"}]: what the callbacks of a type call

Types   == CodeTypes \cup MemTypes \cup InvalidTypes
Slots   == 1..MaxHooks
Handles == 1..MaxHandle

ASSUME HooksAssumption ==
  /\ MaxHooks \in Nat \ {0} /\ MaxEscapes \in Nat /\ MaxHandle \in Nat
  /\ CodeTypes \cap (MemTypes \cup InvalidTypes) = {} /\ MemTypes \cap InvalidTypes = {}
  /\ Addresses \subseteq Nat /\ Ranges \subseteq Nat \X Nat
  /\ Reentrant \in [Types -> SUBSET {"add", "del"}]

VARIABLES
  hooks,    \* [Slots -> entry or Free]
  counts,   \* hook_type_counts
  escapes,  \* the escape entries in order
  index,    \* escape_index_by_id: 0 or the position of the entry
  next,     \* next_hook
  walk      \* the walk in progress, with the hooks due at its start, the hooks
            \*   deleted since, and the hooks called so far

vars == <<hooks, counts, escapes, index, next, walk>>

Free == [used |-> FALSE]
NoWalk == [pc |-> "none"]

Init ==
  /\ hooks = [s \in Slots |-> Free] /\ counts = [t \in Types |-> 0]
  /\ escapes = <<>> /\ index = [i \in EscapeIds |-> 0]
  /\ next = 1 /\ walk = NoWalk

-----------------------------------------------------------------------------
(* Operators                                                               *)

\* cpueaxh_range_contains
RangeContains(range, a) ==
  \/ range = <<0, 0>>
  \/ range[2] = 0 /\ a >= range[1]
  \/ range[2] # 0 /\ a >= range[1] /\ a <= range[2]

UsedSlots    == {s \in Slots : hooks[s].used}
OfType(t)    == {s \in UsedSlots : hooks[s].type = t}
HookHandles  == {hooks[s].handle : s \in UsedSlots}
EscHandles   == {escapes[i].handle : i \in DOMAIN escapes}

\* cpueaxh_rebuild_escape_index: the last entry of an id wins.
RebuiltIndex(list) ==
  [i \in EscapeIds |->
     LET at == {k \in DOMAIN list : list[k].id = i}
     IN  IF at = {} THEN 0 ELSE CHOOSE k \in at : \A j \in at : j <= k]

\* cpueaxh_lookup_escape_entry: the position of the entry, 0 for none.
LookupEscape(i) ==
  IF index[i] # 0 /\ index[i] <= Len(escapes) /\ escapes[index[i]].id = i
  THEN index[i] ELSE 0

\* What cpueaxh_try_dispatch_escape calls for an instruction at an address.
EscapeCallback(i, a) ==
  IF LookupEscape(i) # 0 /\ RangeContains(escapes[LookupEscape(i)].range, a)
  THEN {escapes[LookupEscape(i)].handle} ELSE {}

-----------------------------------------------------------------------------
(* Calls of the host, between walks and from the callback that is running  *)

HostRuns(call) == walk.pc # "scan" /\ (walk.pc = "call" => call \in Reentrant[walk.type])

\* cpueaxh_hook_add: the first free slot; without one the call fails.
HookAdd(t, range) ==
  /\ HostRuns("add") /\ next <= MaxHandle
  /\ \E s \in Slots \ UsedSlots :
       /\ \A r \in Slots \ UsedSlots : s <= r
       /\ hooks' = [hooks EXCEPT ![s] = [used |-> TRUE, handle |-> next, type |-> t,
                                         range |-> range]]
  /\ counts' = [counts EXCEPT ![t] = @ + 1]
  /\ next' = next + 1
  /\ UNCHANGED <<escapes, index, walk>>

\* A deleted handle is remembered for the walk in progress.
Gone(h) == IF walk.pc = "none" THEN walk ELSE [walk EXCEPT !.gone = @ \cup {h}]

HookDel_StillUsed(h) ==  \* mutant: the slot is not cleared
  /\ HostRuns("del")
  /\ \E s \in UsedSlots : hooks[s].handle = h /\ counts' = [counts EXCEPT ![hooks[s].type] =
                                                             IF @ > 1 THEN @ - 1 ELSE 0]
  /\ walk' = Gone(h)
  /\ UNCHANGED <<hooks, escapes, index, next>>

\* cpueaxh_hook_del of a hook: the count goes down and the slot is zeroed.
HookDel(h) ==
  /\ HostRuns("del")
  /\ \E s \in UsedSlots :
       /\ hooks[s].handle = h
       /\ hooks' = [hooks EXCEPT ![s] = Free]
       /\ counts' = [counts EXCEPT ![hooks[s].type] = IF @ > 1 THEN @ - 1 ELSE 0]
  /\ walk' = Gone(h)
  /\ UNCHANGED <<escapes, index, next>>

\* cpueaxh_escape_add; a second entry for an instruction is refused, and so is one the
\* list cannot grow for.
EscapeAdd(i, range) ==
  /\ HostRuns("add") /\ next <= MaxHandle /\ Len(escapes) < MaxEscapes
  /\ LookupEscape(i) = 0
  /\ escapes' = Append(escapes, [handle |-> next, id |-> i, range |-> range])
  /\ index' = RebuiltIndex(escapes')
  /\ next' = next + 1
  /\ UNCHANGED <<hooks, counts, walk>>

EscapeDel_NoRebuild(h) ==  \* mutant: the index is not rebuilt after the memmove
  /\ HostRuns("del") /\ h \notin HookHandles
  /\ \E k \in DOMAIN escapes :
       /\ escapes[k].handle = h
       /\ escapes' = RemoveAt(escapes, k)
       /\ index' = [index EXCEPT ![escapes[k].id] = 0]
  /\ UNCHANGED <<hooks, counts, next, walk>>

\* cpueaxh_hook_del and cpueaxh_escape_del of an escape: later entries move down.
EscapeDel(h) ==
  /\ HostRuns("del") /\ h \notin HookHandles
  /\ \E k \in DOMAIN escapes :
       /\ escapes[k].handle = h
       /\ escapes' = RemoveAt(escapes, k)
       /\ index' = RebuiltIndex(escapes')
  /\ UNCHANGED <<hooks, counts, next, walk>>

-----------------------------------------------------------------------------
(* The walks: cpueaxh_dispatch_code_hooks, cpu_notify_memory_hook and      *)
(* cpu_notify_invalid_memory_hook.                                         *)

Matches(t, a) == {s \in OfType(t) : RangeContains(hooks[s].range, a)}

\* The early return when no hook of the type is counted.
SkipWalk(t) ==
  /\ walk.pc = "none" /\ counts[t] = 0
  /\ UNCHANGED vars

BeginWalk(t, a) ==
  /\ walk.pc = "none" /\ counts[t] # 0
  /\ walk' = [pc |-> "scan", type |-> t, address |-> a, slot |-> 1,
              remaining |-> IF t \in CodeTypes THEN counts[t] ELSE 0, handled |-> FALSE,
              due |-> {hooks[s].handle : s \in Matches(t, a)}, gone |-> {}, called |-> <<>>]
  /\ UNCHANGED <<hooks, counts, escapes, index, next>>

WalkOver_LastSlot ==  \* mutant: the last slot is never looked at
  walk.slot >= MaxHooks \/ (walk.type \in CodeTypes /\ walk.remaining = 0)

\* Only the walk for code hooks stops early.
WalkOver == walk.slot > MaxHooks \/ (walk.type \in CodeTypes /\ walk.remaining = 0)

\* A code hook is counted off whether or not its range matches.
CountedOff == IF walk.type \in CodeTypes THEN walk.remaining - 1 ELSE walk.remaining

Visit_NoAdvance ==  \* mutant: a free slot or one of another type is not passed
  /\ walk.pc = "scan" /\ ~WalkOver
  /\ walk' = IF walk.slot \notin Matches(walk.type, walk.address) THEN walk
             ELSE [walk EXCEPT !.pc = "call", !.remaining = CountedOff,
                                !.called = Append(@, hooks[walk.slot].handle)]
  /\ UNCHANGED <<hooks, counts, escapes, index, next>>

\* One slot: call the hook there, or go on.
Visit ==
  /\ walk.pc = "scan" /\ ~WalkOver
  /\ LET s == walk.slot
     IN  \/ /\ s \notin OfType(walk.type)
            /\ walk' = [walk EXCEPT !.slot = @ + 1]
         \/ /\ s \in OfType(walk.type) \ Matches(walk.type, walk.address)
            /\ walk' = [walk EXCEPT !.slot = @ + 1, !.remaining = CountedOff]
         \/ /\ s \in Matches(walk.type, walk.address)
            /\ walk' = [walk EXCEPT !.pc = "call", !.remaining = CountedOff,
                                    !.called = Append(@, hooks[s].handle)]
  /\ UNCHANGED <<hooks, counts, escapes, index, next>>

\* The callback returns; one of an invalid-access hook says whether it handled it.
CallbackReturn(handled) ==
  /\ walk.pc = "call" /\ (handled => walk.type \in InvalidTypes)
  /\ walk' = [walk EXCEPT !.pc = "scan", !.slot = @ + 1, !.handled = @ \/ handled]
  /\ UNCHANGED <<hooks, counts, escapes, index, next>>

EndWalk ==
  /\ walk.pc = "scan" /\ WalkOver
  /\ walk' = NoWalk
  /\ UNCHANGED <<hooks, counts, escapes, index, next>>

WalkNext == Visit \/ EndWalk \/ \E handled \in BOOLEAN : CallbackReturn(handled)

Next ==
  \/ \E t \in Types, range \in Ranges : HookAdd(t, range)
  \/ \E i \in EscapeIds, range \in Ranges : EscapeAdd(i, range)
  \/ \E h \in Handles : HookDel(h) \/ EscapeDel(h)
  \/ \E t \in Types : SkipWalk(t) \/ \E a \in Addresses : BeginWalk(t, a)
  \/ WalkNext

Spec == Init /\ [][Next]_vars

\* The engine's thread keeps walking and callbacks return.
FairSpec == Spec /\ WF_vars(WalkNext)

-----------------------------------------------------------------------------
(* Properties                                                              *)

HookEntries == {Free} \cup [used : {TRUE}, handle : Handles, type : Types, range : Ranges]
EscEntries  == [handle : Handles, id : EscapeIds, range : Ranges]
Walks == {NoWalk} \cup
  [pc : {"scan", "call"}, type : Types, address : Addresses, slot : 1..MaxHooks+1,
   remaining : Int, handled : BOOLEAN, due : SUBSET Handles, gone : SUBSET Handles,
   called : Seq(Handles)]

\* Slots, counts, entries and the walk have their types; in particular the walk of a
\* callback that is running stands on a slot of the table.
TypeOK ==
  /\ hooks \in [Slots -> HookEntries] /\ counts \in [Types -> Nat]
  /\ escapes \in Seq(EscEntries) /\ index \in [EscapeIds -> Nat]
  /\ next \in 1..MaxHandle+1 /\ walk \in Walks
  /\ walk.pc = "call" => walk.slot \in Slots

\* cpueaxh_adjust_hook_type_count: the count that lets a dispatch return at once is the
\* number of registered hooks of the type, so no registered hook is skipped by it.
CountsExact == \A t \in Types : counts[t] = Cardinality(OfType(t))

\* cpueaxh_hook_add, cpueaxh_escape_add: a handle names one hook or one escape for the
\* life of the engine, so that hook_del and escape_del, which share their code, never
\* delete the wrong one.
HandlesUnique ==
  /\ \A r, s \in UsedSlots : hooks[r].handle = hooks[s].handle => r = s
  /\ \A j, k \in DOMAIN escapes : escapes[j].handle = escapes[k].handle => j = k
  /\ HookHandles \cap EscHandles = {}
  /\ \A h \in HookHandles \cup EscHandles : h < next

\* cpueaxh_lookup_escape_entry: through all the moves of the list, the index finds the
\* one entry of an instruction, and its callback is called within its range only.
EscapeIndexExact ==
  \A i \in EscapeIds, a \in Addresses :
    EscapeCallback(i, a) =
      {escapes[k].handle : k \in {j \in DOMAIN escapes :
                                  escapes[j].id = i /\ RangeContains(escapes[j].range, a)}}

\* cpueaxh_hook_add to cpueaxh_escape_del: the tables, their counts, their handles and
\* the escape index agree after every call, also after those a callback makes.
TableSound == TypeOK /\ CountsExact /\ HandlesUnique /\ EscapeIndexExact

\* cpueaxh_hook_del: once it has returned the callback is never called again, also by
\* the walk during which it was deleted.
NotCalledOnceDeleted ==
  [][walk.pc = "scan" /\ walk'.pc = "call" => Last(walk'.called) \notin walk.gone]_vars

CalledIn(w) == {w.called[k] : k \in DOMAIN w.called}

\* cpueaxh_dispatch_code_hooks and the notify functions: a walk calls every hook that
\* was registered for the address when it began and was not deleted meanwhile, each
\* hook once.
WalkComplete ==
  [][walk.pc = "scan" /\ walk'.pc = "none" =>
       /\ walk.due \ walk.gone \subseteq CalledIn(walk)
       /\ IsInjective(walk.called)]_vars

\* cpueaxh_dispatch_code_hooks and the notify functions: a walk ends although the
\* callbacks it runs add hooks behind it and before it.
WalkEnds == walk.pc # "none" ~> walk.pc = "none"

=============================================================================
