------------------------------- MODULE Engine -------------------------------
(***************************************************************************)
(* The execution loop of one engine: cpueaxh_emu_start (cpueaxh.cpp), the  *)
(* instruction step of cpu/executor.hpp, the decoded-instruction cache of  *)
(* cpu/inst_cache.hpp and the snapshots of cpu/def.h, together with the    *)
(* API calls a host makes between runs and from inside its callbacks.      *)
(*                                                                         *)
(* Data is abstracted as follows.  Code memory holds one code unit per     *)
(* address; an instruction takes one or two units and the prefetch window  *)
(* (MAX_INST_FETCH) is two, so that each unit may lie on a page of its own *)
(* and a prefetch may fail, and call hooks, between two units.  The        *)
(* general registers and flags are one counter (gpr), the vector state     *)
(* another (vec), and the mode bits that key the cache are the L bit of CS *)
(* (cs).  Address 0 keeps its meaning of "not given" in emu_start and      *)
(* "empty slot" in the cache.                                              *)
(***************************************************************************)
EXTENDS Integers, Sequences, FiniteSets

CONSTANTS
  NAddrs,        \* code addresses are 1..NAddrs
  CacheSlots,    \* CPU_INST_CACHE_SIZE
  Setups,        \* the systems to start from: the code mapped, which of it is
                 \*   executable, the hook types and escape classes registered, and
                 \*   calls, [Sites -> SUBSET CallKinds]: what the host calls where,
                 \*   and the begins, untils and counts it passes to emu_start
  HookChoices,   \* hook types the host adds and deletes
  StoreCells,    \* addresses a guest store or cpueaxh_mem_write may target
  StoreOps,      \* code units such a write may put there
  Attempts,      \* times a fetch of a unit is tried that hooks say they repaired: 4
  MaxCalls       \* bound on the number of state-changing host calls

Addrs     == 1..NAddrs
Rips      == 0..NAddrs+2
GprMod    == 3
Modes     == {"long", "compat"}
\* FETCH_INVALID stands for MEM_FETCH_UNMAPPED and MEM_FETCH_PROT.
HookTypes == {"PRE", "POST", "MEM_FETCH", "MEM_WRITE", "FETCH_INVALID"}
Sites     == {"idle", "pre", "post", "invalid", "fetch", "write", "escape"}
CallKinds == {"rip", "cs", "context", "mem_write", "protect", "hooks", "escapes",
              "raise", "clear"}
Faults    == {"ud", "bp", "gp", "pf_exec", "pf_data", "host"}
Results   == {"none", "ok", "callback_error"} \cup Faults

-----------------------------------------------------------------------------
(* Decoding (cpu/decoder.hpp): one opcode per shape the executor treats    *)
(* differently.  "operand" is the second unit of a two-unit instruction.   *)

\* scalar ALU, register form; LEA, which has no execute_*_fast wrapper; a memory
\* operand; XADD m, r; REP string; SSE; JMP; far JMP; store; 0x40 (REX in 64-bit
\* mode, INC in compatibility mode); CPUID; INT3; RDSSP; 0F 1E NOP; undefined.
Opcodes == {"alu", "lea", "mem", "xadd", "rep", "sse", "jmp", "far", "store", "x40",
            "cpuid", "int3", "rdssp", "nop1e", "undef", "operand"}

Size(op) == IF op = "mem" THEN 2 ELSE 1

\* cpueaxh_classify_escape_instruction
EscapeClasses == {"cpuid", "int3", "rdssp"}
EscapeClass(bytes) ==
  IF bytes # <<>> /\ bytes[1] \in EscapeClasses THEN bytes[1] ELSE "none"

Optional_None(class) == FALSE  \* mutant: RDSSP without a callback is no longer a NOP

\* cpueaxh_is_optional_escape_instruction
Optional(class) == class = "rdssp"

EscapeCandidates_NoCpuid == {"int3", "rdssp", "nop1e"}  \* mutant: CPUID left out

\* cpu_decoder_is_escape_candidate_opc: 0F 1E is a candidate as a whole.
EscapeCandidates == EscapeClasses \cup {"nop1e"}

\* cpu_decoder_classify_no_fault.  0F C1 passes its shift-group test, whose ModRM
\* probe looks one byte after the prefixes and so at the opcode byte C1 itself.
NoFaultOps == {"alu", "lea", "x40", "inc40", "rdssp", "nop1e", "xadd"}

\* The operation a unit selects in a mode.
Selected(op, cs) == IF op = "x40" /\ cs = "compat" THEN "inc40" ELSE op

Flags(op) ==
  (IF op \in NoFaultOps THEN {"NO_FAULT"} ELSE {}) \cup
  (IF op \in {"jmp", "far"} THEN {"BRANCH"} ELSE {}) \cup
  (IF op = "sse" THEN {"TOUCHES_VECTOR"} ELSE {}) \cup
  (IF op = "rep" THEN {"PARTIAL_PROGRESS"} ELSE {}) \cup
  (IF op \in {"cpuid", "undef", "operand"} THEN {"UD"} ELSE {}) \cup
  (IF op = "int3" THEN {"BP"} ELSE {}) \cup
  (IF op \in EscapeCandidates THEN {} ELSE {"KNOWN_NOT_ESCAPE"})

\* DecodedInst.length is only stamped where a fast handler or an inline form is.
Length(op) == IF op \in {"lea", "rdssp", "nop1e", "short"} \/ Flags(op) \cap {"UD", "BP"} # {}
              THEN 0 ELSE Size(op)

\* cpu_decode_instruction; a truncated instruction keeps a handler that raises #GP.
\* A window cut short was fetched with its #PF pending, and then the probe that would
\* attach the fast handler and the length fails.
Decode(bytes, cs) ==
  LET op == IF Size(bytes[1]) > Len(bytes) THEN "short" ELSE Selected(bytes[1], cs)
  IN  [bytes |-> bytes, op |-> op, flags |-> Flags(op),
       length |-> IF Len(bytes) < 2 THEN 0 ELSE Length(op)]

ASSUME EngineAssumption ==
  /\ NAddrs \in Nat \ {0} /\ CacheSlots \in Nat \ {0} /\ MaxCalls \in Nat
  /\ Attempts \in Nat \ {0}
  /\ HookChoices \subseteq HookTypes
  /\ StoreCells \subseteq Addrs /\ StoreOps \subseteq Opcodes
  /\ \A s \in Setups :
       /\ s.program \in [Addrs -> Opcodes] /\ s.exec \subseteq Addrs
       /\ s.hooks \subseteq HookTypes /\ s.escapes \subseteq EscapeClasses
       /\ s.calls \in [Sites -> SUBSET CallKinds]
       /\ s.begins \subseteq 0..NAddrs /\ s.untils \subseteq 0..NAddrs /\ s.counts \subseteq Nat

-----------------------------------------------------------------------------
VARIABLES
  cpu,      \* CPU_CONTEXT: rip, gpr, vec, cs, exc (pending exception),
            \*   last (last_inst_size), key (cached mode key)
  mem,      \* what fetches see of MEMORY_MANAGER: code units, executable
            \*   addresses, code_version
  icache,   \* InstCache.slots
  eng,      \* cpueaxh_engine: stop_requested, registered hook types, escapes
  run,      \* the activation of cpueaxh_emu_start
  dirty,    \* history: addresses whose code changed behind the cache since the last
            \*   version bump: by guest stores, or under a prefetch that had read them
  host      \* the host's program: what it may call where, and how much it called

vars == <<cpu, mem, icache, eng, run, dirty, host>>

NoDecoded == [bytes |-> <<>>, op |-> "none", flags |-> {}, length |-> 0]
EmptySlot == [tag |-> 0, version |-> 0, mode |-> "long", decoded |-> NoDecoded]

Idle(result) ==
  [pc |-> "idle", until |-> 0, count |-> 0, executed |-> 0, plain |-> FALSE,
   need_pre |-> FALSE, need_post |-> FALSE, address |-> 0, bytes |-> <<>>, tries |-> 0,
   decoded |-> NoDecoded, rip_pre |-> 0, entry |-> <<>>, result |-> result]

InitWith(setup) ==
  /\ cpu = [rip |-> 0, gpr |-> 0, vec |-> 0, cs |-> "long", exc |-> "none", last |-> 0,
            key |-> [valid |-> FALSE, bits |-> "long"]]
  /\ mem = [code |-> setup.program, exec |-> setup.exec, version |-> 1]
  /\ icache = [s \in 0..CacheSlots-1 |-> EmptySlot]
  /\ eng = [stop |-> FALSE, hooks |-> setup.hooks, escapes |-> setup.escapes]
  /\ run = Idle("none") /\ dirty = {}
  /\ host = [calls |-> setup.calls, begins |-> setup.begins, untils |-> setup.untils,
             counts |-> setup.counts, made |-> 0]

Init == \E setup \in Setups : InitWith(setup)

-----------------------------------------------------------------------------
(* Helpers of the step                                                     *)

\* cpu_raise_exception: the first exception wins.
Raise(c, fault) == IF c.exc # "none" THEN c ELSE [c EXCEPT !.exc = fault]

\* cpu_inst_cache_mode_key: the cached bits when valid, otherwise recomputed.
ModeKey(c) == IF c.key.valid THEN c.key.bits ELSE c.cs
PrimeModeKey(c) == [c EXCEPT !.key = [valid |-> TRUE, bits |-> ModeKey(c)]]

Index(rip) == rip % CacheSlots

\* Units the prefetch may read from an address, before it meets a page it may not.
Window(a) == IF a \notin mem.exec THEN <<>>
             ELSE IF a + 1 \notin mem.exec THEN <<mem.code[a]>>
             ELSE <<mem.code[a], mem.code[a + 1]>>

\* fetch_instruction_bytes where no hook is registered: nothing under a pending exception;
\* the failing resolve of a later unit leaves its #PF pending although earlier units were
\* read.
Fetched(c, a) == IF c.exc # "none" THEN <<>> ELSE Window(a)
AfterFetch(c, a) == IF Len(Window(a)) < 2 THEN Raise(c, "pf_exec") ELSE c

Hit_NoVersion(rip, mode) ==  \* mutant: entries survive a version bump
  LET slot == icache[Index(rip)] IN slot.tag = rip /\ slot.mode = mode

\* The (tag, version, mode) compare.
Hit(rip, mode) ==
  LET slot == icache[Index(rip)]
  IN  slot.tag = rip /\ slot.version = mem.version /\ slot.mode = mode

\* cpu_inst_cache_reserve and cpu_inst_cache_commit.
Commit(c, decoded) ==
  icache' = [icache EXCEPT ![Index(c.rip)] =
    [tag |-> c.rip, version |-> mem.version, mode |-> ModeKey(c), decoded |-> decoded]]

\* cpueaxh_translate_step_error and return: the fault is the result.
Fail(c) == run' = Idle(c.exc)

HasHook(type) == type \in eng.hooks

-----------------------------------------------------------------------------
(* cpueaxh_emu_start                                                       *)

EmuStart(begin, until, count) ==
  /\ run.pc = "idle"
  /\ cpu' = [cpu EXCEPT !.rip = IF begin # 0 THEN begin ELSE @, !.exc = "none"]
  /\ eng' = [eng EXCEPT !.stop = FALSE]
  /\ run' = [Idle("none") EXCEPT
       !.pc = "loop", !.until = until, !.count = count,
       !.plain = eng.hooks = {} /\ eng.escapes = {},
       !.need_pre = HasHook("PRE"), !.need_post = HasHook("POST")]
  /\ UNCHANGED <<mem, icache, dirty, host>>

LoopExit_NoStop ==  \* mutant: the head of the loop does not look at emu_stop
  \/ run.count # 0 /\ run.executed >= run.count
  \/ run.until # 0 /\ cpu.rip = run.until

\* The three checks at the head of either loop.
LoopExit ==
  \/ run.count # 0 /\ run.executed >= run.count
  \/ run.until # 0 /\ cpu.rip = run.until
  \/ eng.stop

LoopHead ==
  /\ run.pc = "loop"
  /\ IF LoopExit THEN run' = Idle("ok")
     ELSE run' = [run EXCEPT
            !.pc = IF run.plain THEN "step"
                   ELSE IF run.need_pre /\ HasHook("PRE") THEN "pre" ELSE "lookup",
            !.address = IF run.plain THEN 0 ELSE cpu.rip,
            !.bytes = <<>>]
  /\ UNCHANGED <<cpu, mem, icache, eng, dirty, host>>

\* The last pre-hook returns.
PreHooksReturn ==
  /\ run.pc = "pre"
  /\ run' = [run EXCEPT !.pc = "lookup"]
  /\ UNCHANGED <<cpu, mem, icache, eng, dirty, host>>

\* cpu_step_dispatch_decoded is entered with the rip of now.
Dispatch(c, decoded) ==
  run' = [run EXCEPT !.pc = "dispatch", !.decoded = decoded, !.rip_pre = c.rip]

\* After the pre-hooks: the KNOWN_NOT_ESCAPE fast path looks the cache up at the
\* address read before them; otherwise the bytes there are fetched.
LookupAddress ==
  /\ run.pc = "lookup"
  /\ LET c    == PrimeModeKey(cpu)
         slot == icache[Index(run.address)]
         fast == Hit(run.address, ModeKey(cpu)) /\ "KNOWN_NOT_ESCAPE" \in slot.decoded.flags
     IN  \/ /\ eng.stop
            /\ run' = Idle("ok") /\ cpu' = cpu
         \/ /\ ~eng.stop /\ fast
            /\ cpu' = c
            /\ IF c.exc # "none" THEN Fail(c) ELSE Dispatch(c, slot.decoded)
         \/ /\ ~eng.stop /\ ~fast
            /\ cpu' = c
            /\ run' = [run EXCEPT !.pc = "prefetch", !.bytes = <<>>, !.tries = 0]
  /\ UNCHANGED <<mem, icache, eng, dirty, host>>

\* fetch_instruction_bytes called by the loop: unit after unit, each copied when
\* cpu_resolve_memory_access has found it executable.  A pending exception refuses the
\* resolve of a further unit, but not the retry of one a hook has just said it repaired.
NextUnit == run.address + Len(run.bytes)
Refused  == cpu.exc # "none" /\ run.tries = 0

Prefetched(c) == cpu' = c /\ run' = [run EXCEPT !.pc = "classify", !.tries = 0]

PrefetchUnit ==
  /\ run.pc = "prefetch" /\ Len(run.bytes) < 2 /\ ~Refused
  /\ NextUnit \in mem.exec
  /\ run' = [run EXCEPT !.bytes = Append(@, mem.code[NextUnit]), !.tries = 0]
  /\ UNCHANGED <<cpu, mem, icache, eng, dirty, host>>

PrefetchEnds ==
  /\ run.pc = "prefetch" /\ (Len(run.bytes) = 2 \/ Refused)
  /\ Prefetched(cpu)
  /\ UNCHANGED <<mem, icache, eng, dirty, host>>

\* cpu_try_handle_invalid_memory_access calls the hooks, or there is none.
PrefetchInvalid ==
  /\ run.pc = "prefetch" /\ Len(run.bytes) < 2 /\ ~Refused
  /\ NextUnit \notin mem.exec
  /\ IF HasHook("FETCH_INVALID")
     THEN run' = [run EXCEPT !.pc = "invalid", !.tries = @ + 1] /\ cpu' = cpu
     ELSE Prefetched(Raise(cpu, "pf_exec"))
  /\ UNCHANGED <<mem, icache, eng, dirty, host>>

\* The hooks return: one has handled the access and it is tried again, or none has, or
\* it was the last attempt, whatever the hook did in it.
InvalidHooksReturn ==
  /\ run.pc = "invalid"
  /\ \/ run.tries < Attempts /\ run' = [run EXCEPT !.pc = "prefetch"] /\ cpu' = cpu
     \/ Prefetched(Raise(cpu, "pf_exec"))
  /\ UNCHANGED <<mem, icache, eng, dirty, host>>

\* cpueaxh_try_dispatch_escape up to the callback.  run.entry keeps the copy of the
\* context the callback works on.
ClassifyEscape ==
  /\ run.pc = "classify"
  /\ LET class == EscapeClass(run.bytes)
         raised == Raise(cpu, IF class = "int3" THEN "bp" ELSE "ud")
     IN  \/ /\ class \in eng.escapes
            /\ run' = [run EXCEPT !.pc = "escape", !.entry = <<cpu>>]
            /\ cpu' = cpu
         \/ /\ class \notin eng.escapes /\ (class = "none" \/ Optional(class))
            /\ run' = [run EXCEPT !.pc = "step"]
            /\ cpu' = cpu
         \/ /\ class \notin eng.escapes /\ class # "none" /\ ~Optional(class)
            /\ cpu' = raised /\ Fail(raised)
  /\ UNCHANGED <<mem, icache, eng, dirty, host>>

AfterStep_NotCounted(r) == [r EXCEPT  \* mutant: the step is not counted
  !.pc = IF ~r.plain /\ r.need_post /\ HasHook("POST") THEN "post" ELSE "loop",
  !.address = 0, !.bytes = <<>>, !.decoded = NoDecoded, !.rip_pre = 0, !.entry = <<>>]

\* Where a completed step goes on.  Without a count the number of steps decides nothing
\* and stays 0.
AfterStep(r) == [r EXCEPT
  !.pc = IF ~r.plain /\ r.need_post /\ HasHook("POST") THEN "post" ELSE "loop",
  !.executed = IF r.count = 0 THEN 0 ELSE @ + 1,
  !.address = 0, !.bytes = <<>>, !.decoded = NoDecoded, !.rip_pre = 0, !.entry = <<>>]

\* cpueaxh_context_in of the context the callback leaves, and the default advance.
EscapeContext(copy, rip, cs) ==
  [copy EXCEPT !.gpr = (@ + 1) % GprMod, !.cs = cs, !.key.valid = FALSE, !.last = 1,
     !.rip = IF rip = copy.rip THEN copy.rip + 1 ELSE rip]

\* The escape callback returns: with an error nothing is copied back.
EscapeReturn ==
  /\ run.pc = "escape"
  /\ \/ run' = Idle("callback_error") /\ cpu' = cpu
     \/ \E rip \in {run.entry[1].rip, 1}, cs \in Modes :
          LET c == EscapeContext(run.entry[1], rip, cs)
          IN  /\ cpu' = c
              /\ IF c.exc # "none" THEN Fail(c) ELSE run' = AfterStep(run)
  /\ UNCHANGED <<mem, icache, eng, dirty, host>>

\* The last post-hook returns.
PostHooksReturn ==
  /\ run.pc = "post"
  /\ run' = [run EXCEPT !.pc = "loop"]
  /\ UNCHANGED <<cpu, mem, icache, eng, dirty, host>>

-----------------------------------------------------------------------------
(* cpu_step_with_prefetch and cpu_step_dispatch_decoded                    *)

\* Without prefetched bytes the step fetches for itself.  That is the case of runs that
\* started without hooks and escapes, and stay without any: nothing runs during the fetch.
StepWithPrefetch ==
  /\ run.pc = "step"
  /\ LET c     == PrimeModeKey(cpu)
         hit   == Hit(cpu.rip, ModeKey(cpu))
         bytes == IF run.bytes # <<>> THEN run.bytes ELSE Fetched(c, cpu.rip)
         c2    == IF run.bytes # <<>> THEN c ELSE AfterFetch(c, cpu.rip)
     IN  \/ /\ cpu.exc # "none"
            /\ Fail(cpu) /\ UNCHANGED <<cpu, icache>>
         \/ /\ cpu.exc = "none" /\ hit
            /\ cpu' = c
            /\ Dispatch(c, icache[Index(cpu.rip)].decoded) /\ UNCHANGED icache
         \/ /\ cpu.exc = "none" /\ ~hit /\ bytes = <<>>
            /\ cpu' = c2
            /\ Fail(c2) /\ UNCHANGED icache
         \/ /\ cpu.exc = "none" /\ ~hit /\ bytes # <<>>
            /\ cpu' = c2
            /\ Commit(c2, Decode(bytes, c2.cs)) /\ Dispatch(c2, Decode(bytes, c2.cs))
  /\ UNCHANGED <<mem, eng, dirty, host>>

\* cpu_executor_notify_fetched_bytes: fires the MEM_FETCH hooks, or raises #UD for an
\* entry without a length; the handler runs either way.
NotifyFetchedBytes ==
  /\ run.pc = "dispatch"
  /\ LET notify == HasHook("MEM_FETCH")
         c == IF notify /\ run.decoded.length = 0 THEN Raise(cpu, "ud") ELSE cpu
         fires == notify /\ run.decoded.length # 0
     IN  /\ cpu' = c
         /\ run' = [run EXCEPT !.pc = IF fires THEN "fetch" ELSE "execute",
                               !.entry = IF fires THEN <<>> ELSE <<c>>]
  /\ UNCHANGED <<mem, icache, eng, dirty, host>>

\* The last MEM_FETCH hook returns; the snapshot is captured after it.
FetchHooksReturn ==
  /\ run.pc = "fetch"
  /\ run' = [run EXCEPT !.pc = "execute", !.entry = <<cpu>>]
  /\ UNCHANGED <<cpu, mem, icache, eng, dirty, host>>

Inc(n) == (n + 1) % GprMod

OtherMode(cs) == IF cs = "long" THEN "compat" ELSE "long"

\* A far transfer into a code segment of the other mode.
FarTransfer(c) == [c EXCEPT !.cs = OtherMode(@), !.key.valid = FALSE, !.rip = 1]

\* What a handler can leave behind: the context, with an exception raised or not.  A
\* memory operand faults or not; under a pending exception every access fails.
Outcomes(op, c) ==
  LET sized  == [c EXCEPT !.last = Size(op)]
      scalar == [sized EXCEPT !.gpr = Inc(@)]
      vector == [sized EXCEPT !.vec = Inc(@)]
      ok(d)  == IF c.exc = "none" THEN {d} ELSE {}
  IN  CASE op \in {"alu", "lea", "inc40"} -> {scalar}
        [] op \in {"x40", "rdssp"} -> {sized}
        [] op = "nop1e" -> {c}                    \* no handler: last_inst_size as it was
        [] op = "short" -> {Raise(c, "gp")}
        [] op \in {"mem", "xadd", "rep"} -> ok(scalar) \cup
             {Raise(sized, "pf_data"), Raise(scalar, "pf_data")}
        [] op = "sse"   -> ok(vector) \cup {Raise(vector, "pf_data")}
        [] op = "jmp"   -> ok([sized EXCEPT !.rip = 1]) \cup {Raise(sized, "gp")}
        [] op = "far"   -> ok(FarTransfer(sized)) \cup {Raise(sized, "gp")}
        [] op = "store" -> ok(sized) \cup {Raise(sized, "pf_data")}
        [] OTHER -> {}

Restored_NoVector(c, snap, flags) ==  \* mutant: the vector snapshot is not put back
  IF "NO_FAULT" \in flags THEN c
  ELSE IF "PARTIAL_PROGRESS" \in flags THEN [c EXCEPT !.last = snap.last]
  ELSE [snap EXCEPT !.exc = c.exc, !.key.valid = FALSE, !.vec = c.vec]

\* The exception path at cpu_step_finish: nothing to restore without a snapshot, only
\* decode state after partial progress, otherwise the scalar (and vector) snapshot.
Restored(c, snap, flags) ==
  IF "NO_FAULT" \in flags THEN c
  ELSE IF "PARTIAL_PROGRESS" \in flags THEN [c EXCEPT !.last = snap.last]
  ELSE [snap EXCEPT !.exc = c.exc, !.key.valid = FALSE,
          !.vec = IF "TOUCHES_VECTOR" \in flags THEN @ ELSE c.vec]

FinishStep_FromRip(c) ==  \* mutant: rip advances from where a hook left it
  LET flags == run.decoded.flags
      back  == Restored(c, run.entry[1], flags)
  IN  IF c.exc # "none"
      THEN cpu' = back /\ Fail(back)
      ELSE /\ cpu' = [c EXCEPT !.rip = IF "BRANCH" \in flags THEN @ ELSE @ + c.last]
           /\ run' = AfterStep(run)

\* cpu_step_finish.
FinishStep(c) ==
  LET flags == run.decoded.flags
      back  == Restored(c, run.entry[1], flags)
  IN  IF c.exc # "none"
      THEN cpu' = back /\ Fail(back)
      ELSE /\ cpu' = [c EXCEPT !.rip = IF "BRANCH" \in flags THEN @ ELSE run.rip_pre + c.last]
           /\ run' = AfterStep(run)

\* #UD and #BP entries raise without a handler and without a snapshot.
ExecuteFlagged ==
  /\ run.pc = "execute" /\ run.decoded.flags \cap {"UD", "BP"} # {}
  /\ LET c == Raise(cpu, IF "BP" \in run.decoded.flags THEN "bp" ELSE "ud")
     IN  cpu' = c /\ Fail(c)
  /\ UNCHANGED <<mem, icache, eng, dirty, host>>

\* The handler, unless it is a store that gets as far as its MEM_WRITE hooks.
Execute ==
  /\ run.pc = "execute" /\ run.decoded.flags \cap {"UD", "BP"} = {}
  /\ \E c \in Outcomes(run.decoded.op, cpu) :
       /\ ~(run.decoded.op = "store" /\ c.exc = "none")
       /\ FinishStep(c)
  /\ UNCHANGED <<mem, icache, eng, dirty, host>>

\* A store of the guest: no version bump.
GuestStore(a, v) ==
  /\ mem' = [mem EXCEPT !.code[a] = v]
  /\ dirty' = IF mem.code[a] = v THEN dirty ELSE dirty \cup {a}

\* A store whose address resolved and whose MEM_WRITE hooks, if any, have returned.
ExecuteStore(a, v) ==
  /\ run.decoded.op = "store"
  /\ \/ run.pc = "execute" /\ ~HasHook("MEM_WRITE") /\ cpu.exc = "none"
     \/ run.pc = "write"
  /\ GuestStore(a, v)
  /\ FinishStep([cpu EXCEPT !.last = 1])
  /\ UNCHANGED <<icache, eng, host>>

NotifyWrite ==
  /\ run.pc = "execute" /\ run.decoded.op = "store" /\ HasHook("MEM_WRITE")
  /\ cpu.exc = "none"
  /\ run' = [run EXCEPT !.pc = "write"]
  /\ UNCHANGED <<cpu, mem, icache, eng, dirty, host>>

-----------------------------------------------------------------------------
(* Calls of the host, between runs and from its callbacks                  *)

\* cpueaxh_emu_stop, from any thread.
EmuStop ==
  /\ ~eng.stop
  /\ eng' = [eng EXCEPT !.stop = TRUE]
  /\ UNCHANGED <<cpu, mem, icache, run, dirty, host>>

HostCall(kind) ==
  /\ run.pc \in Sites /\ kind \in host.calls[run.pc]
  /\ host.made < MaxCalls /\ host' = [host EXCEPT !.made = @ + 1]
  /\ UNCHANGED <<icache, run>>

\* cpueaxh_reg_write of RIP.
RegWriteRip(a) ==
  /\ HostCall("rip")
  /\ cpu' = [cpu EXCEPT !.rip = a]
  /\ UNCHANGED <<mem, eng, dirty>>

\* cpueaxh_reg_write of CS_LONG_MODE or CS_DB: the cached mode key stays valid.
RegWriteCs(m) ==
  /\ HostCall("cs")
  /\ cpu' = [cpu EXCEPT !.cs = m]
  /\ UNCHANGED <<mem, eng, dirty>>

ContextWrite_KeyKept(m) ==  \* mutant: the cached mode key survives
  /\ HostCall("context")
  /\ cpu' = [cpu EXCEPT !.cs = m]
  /\ UNCHANGED <<mem, eng, dirty>>

\* cpueaxh_context_write with another CS.
ContextWrite(m) ==
  /\ HostCall("context")
  /\ cpu' = [cpu EXCEPT !.cs = m, !.key.valid = FALSE]
  /\ UNCHANGED <<mem, eng, dirty>>

MemWrite_NoBump(a, v) ==  \* mutant: host writes leave code_version alone
  /\ HostCall("mem_write")
  /\ mem' = [mem EXCEPT !.code[a] = v]
  /\ UNCHANGED <<cpu, eng, dirty>>

\* Units the prefetch under way has copied that memory m no longer holds for execution.
Overtaken(m) ==
  {a \in Addrs : /\ run.pc = "invalid" /\ a = run.address /\ run.bytes # <<>>
                 /\ a \notin m.exec \/ m.code[a] # run.bytes[1]}

\* cpueaxh_mem_write: writes, then bumps code_version.
MemWrite(a, v) ==
  /\ HostCall("mem_write")
  /\ mem' = [mem EXCEPT !.code[a] = v, !.version = @ + 1]
  /\ dirty' = Overtaken(mem')
  /\ UNCHANGED <<cpu, eng>>

\* cpueaxh_mem_protect of one address: adds or removes its execute right.
Protect(a) ==
  /\ HostCall("protect")
  /\ mem' = [mem EXCEPT !.exec = IF a \in @ THEN @ \ {a} ELSE @ \cup {a},
                        !.version = @ + 1]
  /\ dirty' = Overtaken(mem')
  /\ UNCHANGED <<cpu, eng>>

\* cpueaxh_hook_add of a first hook of a type, cpueaxh_hook_del of the last one.
ToggleHook(type) ==
  /\ HostCall("hooks")
  /\ eng' = [eng EXCEPT !.hooks = IF type \in @ THEN @ \ {type} ELSE @ \cup {type}]
  /\ UNCHANGED <<cpu, mem, dirty>>

\* cpueaxh_escape_add and cpueaxh_escape_del.
ToggleEscape(class) ==
  /\ HostCall("escapes")
  /\ eng' = [eng EXCEPT !.escapes = IF class \in @ THEN @ \ {class} ELSE @ \cup {class}]
  /\ UNCHANGED <<cpu, mem, dirty>>

\* cpueaxh_exception_raise.
ExceptionRaise ==
  /\ HostCall("raise")
  /\ cpu' = Raise(cpu, "host")
  /\ UNCHANGED <<mem, eng, dirty>>

\* cpueaxh_exception_clear.
ExceptionClear ==
  /\ HostCall("clear") /\ cpu.exc # "none"
  /\ cpu' = [cpu EXCEPT !.exc = "none"]
  /\ UNCHANGED <<mem, eng, dirty>>

HostNext ==
  \/ \E a \in Addrs : RegWriteRip(a) \/ Protect(a)
  \/ \E m \in Modes : RegWriteCs(m) \/ ContextWrite(m)
  \/ \E a \in StoreCells, v \in StoreOps : MemWrite(a, v)
  \/ \E type \in HookChoices : ToggleHook(type)
  \/ \E class \in EscapeClasses : ToggleEscape(class)
  \/ ExceptionRaise \/ ExceptionClear

\* Steps the engine's thread takes by itself, the return of a callback included.
EngineNext ==
  \/ LoopHead \/ PreHooksReturn \/ LookupAddress
  \/ PrefetchUnit \/ PrefetchEnds \/ PrefetchInvalid \/ InvalidHooksReturn
  \/ ClassifyEscape \/ EscapeReturn \/ PostHooksReturn
  \/ StepWithPrefetch \/ NotifyFetchedBytes \/ FetchHooksReturn
  \/ ExecuteFlagged \/ Execute \/ NotifyWrite
  \/ \E a \in StoreCells, v \in StoreOps : ExecuteStore(a, v)

Next ==
  \/ \E begin \in host.begins, until \in host.untils, count \in host.counts :
       EmuStart(begin, until, count)
  \/ EngineNext \/ EmuStop \/ HostNext

Spec == Init /\ [][Next]_vars

\* The engine's thread keeps running: no step of it waits for another, and callbacks
\* return.
FairSpec == Spec /\ WF_vars(EngineNext)

-----------------------------------------------------------------------------
(* Properties                                                              *)

DecodedInsts == [bytes : {<<>>} \cup {<<o>> : o \in Opcodes} \cup {<<o, q>> : o, q \in Opcodes},
                 op : Opcodes \cup {"none", "inc40", "short"},
                 flags : SUBSET {"NO_FAULT", "BRANCH", "TOUCHES_VECTOR", "PARTIAL_PROGRESS",
                                 "UD", "BP", "KNOWN_NOT_ESCAPE"},
                 length : 0..2]

\* Every record of the loop, the step and the cache has its shape: rip stays within
\* reach of the code, slots hold decoded instructions, a handler or an escape callback
\* runs exactly while a copy of the context it started from is kept, and a step fetches
\* for itself only where no hook could be called during the fetch.
TypeOK ==
  /\ cpu \in [rip : Rips, gpr : 0..GprMod-1, vec : 0..GprMod-1, cs : Modes,
              exc : Faults \cup {"none"}, last : 0..2,
              key : [valid : BOOLEAN, bits : Modes]]
  /\ mem.code \in [Addrs -> Opcodes] /\ mem.exec \subseteq Addrs
  /\ mem.version \in 1..MaxCalls+1
  /\ \A s \in DOMAIN icache : icache[s].decoded \in DecodedInsts
  /\ run.decoded \in DecodedInsts /\ run.result \in Results
  /\ run.pc \in Sites \cup {"loop", "lookup", "prefetch", "classify", "step", "dispatch",
                           "execute"}
  /\ run.tries \in 0..Attempts
  /\ run.pc = "step" /\ run.bytes = <<>> /\ cpu.exc = "none" => eng.hooks = {}
  /\ (run.entry # <<>>) = (run.pc \in {"execute", "write", "escape"})
  /\ dirty \subseteq Addrs /\ host.made \in 0..MaxCalls

\* inst_cache.hpp, cpu_inst_cache_mode_key: whenever the cached mode key is marked
\* valid it equals the mode bits of CS, whatever far jumps, rollbacks, context writes
\* and escape callbacks did in between.
ModeKeyCurrent == cpu.key.valid => cpu.key.bits = cpu.cs

Clean(a) == {a, a + 1} \cap dirty = {}

\* inst_cache.hpp, cpu_inst_cache_lookup: an entry that carries the current code_version
\* is what decoding the bytes at its tag in its mode gives now, unless since the last bump
\* the guest itself stored into those bytes or a MEM_FETCH_UNMAPPED or _PROT hook changed
\* them after the prefetch that called it had copied them.
CacheEntriesCurrent ==
  \A s \in DOMAIN icache :
    LET e == icache[s]
    IN  e.tag # 0 /\ e.version = mem.version /\ Clean(e.tag) =>
          Window(e.tag) # <<>> /\ e.decoded = Decode(Window(e.tag), e.mode)

\* cpueaxh.cpp, executor.hpp, inst_cache.hpp: loop, step and cache keep their shape, and
\* the cache holds no stale entry that would hit.
CacheSound == TypeOK /\ CacheEntriesCurrent

\* executor.hpp, cpu_step_decoded and cpu_step_with_prefetch: the instruction that is
\* dispatched is the one the current bytes at rip encode in the current mode (bytes changed
\* behind the cache excepted, as above), also when a hook runs between two units of the
\* prefetch and writes other memory, the page rights or the context.
DispatchCurrent ==
  run.pc = "dispatch" /\ Clean(run.rip_pre) =>
    Window(run.rip_pre) # <<>> /\ run.decoded = Decode(Window(run.rip_pre), cpu.cs)

\* cpueaxh.cpp, cpueaxh_emu_start: an instruction whose class has a registered escape
\* is handed to the callback and never dispatched, even when a run without escapes
\* cached it before.
EscapesHonoured ==
  run.pc = "dispatch" /\ ~run.plain /\ Clean(run.rip_pre) =>
    EscapeClass(run.decoded.bytes) \notin eng.escapes

Completed == run.pc \in {"execute", "write"} /\ run'.pc \in {"loop", "post"}
Faulted   == run.pc \in {"execute", "write"} /\ run'.pc = "idle" /\ cpu'.exc # "none"

\* executor.hpp, cpu_step_finish: an instruction that faults leaves registers, vector
\* state, CS and rip as they were when its handler started; only REP strings keep the
\* iterations they completed.
FaultAtomic ==
  [][Faulted /\ "PARTIAL_PROGRESS" \notin run.decoded.flags =>
       \A f \in {"rip", "gpr", "vec", "cs"} : cpu'[f] = run.entry[1][f]]_vars

\* def.h, last_inst_size: a completed instruction that is not a branch moves rip past
\* its own bytes.
AdvancesByLength ==
  [][Completed /\ "BRANCH" \notin run.decoded.flags =>
       cpu'.rip = run.rip_pre + Size(run.decoded.bytes[1])]_vars

\* executor.hpp, NotifyFetchedBytes: a run ends with #UD only at an undefined
\* instruction or at a CPUID without callback; RDSSP without one is a NOP.
UdOnlyForUndefined ==
  [][run.pc # "idle" /\ run'.pc = "idle" /\ run'.result = "ud" =>
       \/ "UD" \in run.decoded.flags
       \/ EscapeClass(run.bytes) = "cpuid"]_vars

\* executor.hpp:417: the dispatched instruction is never stale, guest stores included.
NeverStale ==
  run.pc = "dispatch" =>
    Window(run.rip_pre) # <<>> /\ run.decoded = Decode(Window(run.rip_pre), cpu.cs)

\* cpueaxh.cpp, cpueaxh_emu_start: a stop requested during a run, from a callback or
\* another thread, ends the run even in an endless guest loop.
StopHonoured == (run.pc # "idle" /\ eng.stop) ~> run.pc = "idle"

\* cpueaxh.cpp, cpueaxh_emu_start: a run with a count ends.
CountHonoured == (run.pc # "idle" /\ run.count # 0) ~> run.pc = "idle"

=============================================================================
